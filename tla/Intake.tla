-------------------------------- MODULE Intake --------------------------------
(***************************************************************************)
(* How people enter: Salesforce callouts                                   *)
(* (src/services/salesforce-provisioning.ts), the legacy import            *)
(* (src/services/legacy-import.ts), and Better Auth's sign-up.  Each looks *)
(* for an existing account and creates a "user" row when it finds none,    *)
(* with calls in between: what was found may be out of date when it is     *)
(* used.  Unique constraints on "user".email, "user".salesforce_contact_id *)
(* and user_identity (type, value) are what concurrent creations meet.     *)
(***************************************************************************)
EXTENDS Naturals, FiniteSets

CONSTANTS
  UserIds,      (* ids that may be drawn                                    *)
  Emails, Phones,
  Contacts,     (* Salesforce Contact ids                                   *)
  Legacy,       (* normalised emails of the legacy product's accounts, but  *)
                (* those inactive or whose email does not normalise         *)
  Callouts,     (* callouts that may be served at the same time             *)
  Repeated,     (* the callout, a contact and an email, Salesforce repeats  *)
  MaxFailures,  (* bounds the calls that fail and the processes that stop   *)
  NULL

Handles == Emails \cup Phones

ASSUME IntakeAssumption ==
  /\ Emails \cap Phones = {}
  /\ Legacy \subseteq Emails
  /\ Repeated \in Contacts \X Emails
  /\ NULL \notin UserIds \cup Handles \cup Contacts

VARIABLES
  email,        (* "user".email, NULL: no such row                          *)
  contact,      (* "user".salesforce_contact_id                             *)
  owner,        (* user_identity: the owner of each handle                  *)
  verified,     (* handles whose row is verified                            *)
  normal,       (* users with NORMAL access granted from Salesforce         *)
  links,        (* contact-link rows of the outbox                          *)
  callout,      (* each callout                                             *)
  import,       (* the import run                                           *)
  failures,
  covered,      (* history: an import run has come to its end               *)
  signups,      (* history: users created by sign-up                        *)
  interrupted,  (* history: users a process had in hand when it failed      *)
  outraced      (* history: users whose handle another user got first       *)

userRows   == <<email, contact, owner, verified, normal, links>>
history    == <<covered, signups, interrupted, outraced>>
intakeVars == <<userRows, callout, import, failures, history>>

NoCallout == [pc |-> "idle", c |-> NULL, e |-> NULL, phone |-> NULL, u |-> NULL]
Callout   == [pc : {"unlinked", "create", "link", "resolved"}, c : Contacts, e : Emails,
              phone : Phones \cup {NULL}, u : UserIds \cup {NULL}]
NoImport  == [pc |-> "idle", todo |-> {}, e |-> NULL, u |-> NULL]
Import    == [pc : {"idle", "scan", "create", "account", "identity"}, todo : SUBSET Emails,
              e : Emails \cup {NULL}, u : UserIds \cup {NULL}]

IntakeTypeOK ==
  /\ email \in [UserIds -> Emails \cup {NULL}]
  /\ contact \in [UserIds -> Contacts \cup {NULL}]
  /\ owner \in [Handles -> UserIds \cup {NULL}]
  /\ verified \subseteq Handles
  /\ normal \subseteq UserIds
  /\ links \subseteq Contacts \X UserIds
  /\ callout \in [Callouts -> Callout \cup {NoCallout}]
  /\ import \in Import
  /\ failures \in Nat
  /\ covered \in BOOLEAN
  /\ signups \subseteq UserIds /\ interrupted \subseteq UserIds /\ outraced \subseteq UserIds

IntakeInit ==
  /\ email = [u \in UserIds |-> NULL]
  /\ contact = [u \in UserIds |-> NULL]
  /\ owner = [h \in Handles |-> NULL]
  /\ verified = {} /\ normal = {} /\ links = {}
  /\ callout = [k \in Callouts |-> NoCallout]
  /\ import = NoImport
  /\ failures = 0
  /\ covered = FALSE
  /\ signups = {} /\ interrupted = {} /\ outraced = {}

Exists(u)     == email[u] # NULL
EmailTaken(e) == \E u \in UserIds : email[u] = e
Linked(c)     == \E u \in UserIds : contact[u] = c

(* createUser: an id is drawn; the unique constraints must hold.           *)
NewUser(u, e, c) ==
  /\ ~Exists(u)
  /\ ~EmailTaken(e)
  /\ c = NULL \/ ~Linked(c)
  /\ email' = [email EXCEPT ![u] = e]
  /\ contact' = [contact EXCEPT ![u] = c]

-----------------------------------------------------------------------------
(* provisionFromSalesforce                                                 *)

AtC(k, pc) == callout[k].pc = pc

(* The signed request arrives; findUserIdBySalesforceContactId.            *)
Receive(k, c, e) ==
  /\ AtC(k, "idle")
  /\ \E phone \in Phones \cup {NULL} :
       \/ /\ ~Linked(c)
          /\ callout' = [callout EXCEPT ![k] =
               [pc |-> "unlinked", c |-> c, e |-> e, phone |-> phone, u |-> NULL]]
       \/ \E u \in UserIds :
            /\ contact[u] = c
            /\ callout' = [callout EXCEPT ![k] =
                 [pc |-> "resolved", c |-> c, e |-> e, phone |-> phone, u |-> u]]
  /\ UNCHANGED <<userRows, import, failures, history>>

(* Mutant of LookUp: creates whoever has the email already.                *)
LookUpMutant(k) ==
  /\ AtC(k, "unlinked")
  /\ callout' = [callout EXCEPT ![k].pc = "create"]
  /\ UNCHANGED <<userRows, import, failures, history>>

(* identityValueExists, and findUserIdByAnyHandle when it does.            *)
LookUp(k) ==
  LET u == owner[callout[k].e] IN
  /\ AtC(k, "unlinked")
  /\ callout' = [callout EXCEPT ![k].pc = IF u = NULL THEN "create" ELSE "link", ![k].u = u]
  /\ UNCHANGED <<userRows, import, failures, history>>

Create(k) ==
  /\ AtC(k, "create")
  /\ \E u \in UserIds :
       /\ NewUser(u, callout[k].e, callout[k].c)
       /\ callout' = [callout EXCEPT ![k].pc = "resolved", ![k].u = u]
  /\ UNCHANGED <<owner, verified, normal, links, import, failures, history>>

(* Mutant of MayLink: WHERE id = ... only.                                 *)
MayLinkMutant(u, c) == ~Linked(c)

(* linkSalesforceContactId: WHERE salesforce_contact_id IS NULL, and the   *)
(* unique constraint.                                                      *)
MayLink(u, c) == contact[u] = NULL /\ ~Linked(c)

Link(k) ==
  /\ AtC(k, "link")
  /\ MayLink(callout[k].u, callout[k].c)
  /\ contact' = [contact EXCEPT ![callout[k].u] = callout[k].c]
  /\ callout' = [callout EXCEPT ![k].pc = "resolved"]
  /\ UNCHANGED <<email, owner, verified, normal, links, import, failures, history>>

(* A unique constraint refuses the insert, or the user has a contact: the  *)
(* callout ends with an error and has changed nothing.                     *)
Refuse(k) ==
  /\ \/ AtC(k, "create") /\ (EmailTaken(callout[k].e) \/ Linked(callout[k].c))
     \/ AtC(k, "link") /\ ~MayLink(callout[k].u, callout[k].c)
  /\ callout' = [callout EXCEPT ![k] = NoCallout]
  /\ UNCHANGED <<userRows, import, failures, history>>

(* Mutant of Commit: a missing phone is inserted as well.                  *)
CommitMutant(k) ==
  /\ AtC(k, "resolved")
  /\ owner' = [h \in Handles \cup {callout[k].phone} |->
                IF h \in {callout[k].e, callout[k].phone} THEN callout[k].u ELSE owner[h]]
  /\ normal' = normal \cup {callout[k].u}
  /\ links' = links \cup {<<callout[k].c, callout[k].u>>}
  /\ callout' = [callout EXCEPT ![k] = NoCallout]
  /\ UNCHANGED <<email, contact, verified, import, failures, history>>

(* The transaction: both handles ON CONFLICT DO NOTHING, the grants, the   *)
(* outbox row.                                                             *)
Commit(k) ==
  LET u == callout[k].u
      new == {h \in {callout[k].e, callout[k].phone} \ {NULL} : owner[h] = NULL}
  IN
  /\ AtC(k, "resolved")
  /\ owner' = [h \in Handles |-> IF h \in new THEN u ELSE owner[h]]
  /\ normal' = normal \cup {u}
  /\ links' = links \cup {<<callout[k].c, u>>}
  /\ outraced' = IF owner[callout[k].e] \in {NULL, u} THEN outraced ELSE outraced \cup {u}
  /\ callout' = [callout EXCEPT ![k] = NoCallout]
  /\ UNCHANGED <<email, contact, verified, import, failures, covered, signups, interrupted>>

(* A call fails or the process stops.                                      *)
CalloutFails(k) ==
  /\ ~AtC(k, "idle")
  /\ failures < MaxFailures
  /\ failures' = failures + 1
  /\ interrupted' = interrupted \cup ({callout[k].u} \ {NULL})
  /\ callout' = [callout EXCEPT ![k] = NoCallout]
  /\ UNCHANGED <<userRows, import, covered, signups, outraced>>

CalloutStep(k) ==
  LookUp(k) \/ Create(k) \/ Link(k) \/ Refuse(k) \/ Commit(k)

-----------------------------------------------------------------------------
(* importLegacyUsers                                                       *)

AtI(pc) == import.pc = pc

StartImport ==
  /\ AtI("idle")
  /\ import' = [NoImport EXCEPT !.pc = "scan", !.todo = Legacy]
  /\ UNCHANGED <<userRows, callout, failures, history>>

(* Mutant of Claimed: looks for the email in "user".                       *)
ClaimedMutant(e) == EmailTaken(e)

(* identityValueExists                                                     *)
Claimed(e) == owner[e] # NULL

(* The next account: skipped, or to be created.  An account outside Legacy *)
(* is skipped too: it is counted, and changes nothing else.                *)
NextAccount(e) ==
  /\ AtI("scan")
  /\ e \in import.todo
  /\ import' = IF Claimed(e) THEN [import EXCEPT !.todo = @ \ {e}]
               ELSE [import EXCEPT !.todo = @ \ {e}, !.pc = "create", !.e = e]
  /\ UNCHANGED <<userRows, callout, failures, history>>

ImportUser ==
  /\ AtI("create")
  /\ \E u \in UserIds :
       /\ NewUser(u, import.e, NULL)
       /\ import' = [import EXCEPT !.pc = "account", !.u = u]
  /\ UNCHANGED <<owner, verified, normal, links, callout, failures, history>>

(* Mutant of ImportAccount: goes on with the next account.                 *)
ImportAccountMutant ==
  /\ AtI("account")
  /\ import' = [import EXCEPT !.pc = "scan"]
  /\ UNCHANGED <<userRows, callout, failures, history>>

(* createAccount: the imported hash becomes the user's password.           *)
ImportAccount ==
  /\ AtI("account")
  /\ import' = [import EXCEPT !.pc = "identity"]
  /\ UNCHANGED <<userRows, callout, failures, history>>

(* createVerifiedIdentity; null for a handle somebody else got counts as   *)
(* imported too.                                                           *)
ImportIdentity ==
  LET e == import.e IN
  /\ AtI("identity")
  /\ IF owner[e] = NULL
     THEN /\ owner' = [owner EXCEPT ![e] = import.u]
          /\ verified' = verified \cup {e}
          /\ UNCHANGED outraced
     ELSE /\ outraced' = outraced \cup {import.u}
          /\ UNCHANGED <<owner, verified>>
  /\ import' = [import EXCEPT !.pc = "scan", !.e = NULL, !.u = NULL]
  /\ UNCHANGED <<email, contact, normal, links, callout, failures, covered, signups, interrupted>>

ImportEnds ==
  /\ AtI("scan")
  /\ import.todo = {}
  /\ import' = NoImport
  /\ covered' = TRUE
  /\ UNCHANGED <<userRows, callout, failures, signups, interrupted, outraced>>

(* createUser throws for an email that has a row: nothing catches it, and  *)
(* the rest of the accounts is left out.                                   *)
ImportThrows ==
  /\ AtI("create")
  /\ EmailTaken(import.e)
  /\ import' = NoImport
  /\ UNCHANGED <<userRows, callout, failures, history>>

ImportFails ==
  /\ ~AtI("idle")
  /\ failures < MaxFailures
  /\ failures' = failures + 1
  /\ interrupted' = interrupted \cup ({import.u} \ {NULL})
  /\ import' = NoImport
  /\ UNCHANGED <<userRows, callout, covered, signups, outraced>>

(* Better Auth's sign-up creates a user, and no user_identity row.         *)
SignUp(u, e) ==
  /\ NewUser(u, e, NULL)
  /\ signups' = signups \cup {u}
  /\ UNCHANGED <<owner, verified, normal, links, callout, import, failures, covered,
                 interrupted, outraced>>

-----------------------------------------------------------------------------
(* The steps that leave passwords alone; LegacyLogin has the others.       *)
IntakeStep ==
  \/ \E k \in Callouts : CalloutStep(k) \/ CalloutFails(k)
  \/ \E k \in Callouts, c \in Contacts, e \in Emails : Receive(k, c, e)
  \/ StartImport
  \/ \E e \in Emails : NextAccount(e)
  \/ ImportIdentity
  \/ ImportEnds
  \/ ImportThrows
  \/ ImportFails

-----------------------------------------------------------------------------
(* Every link sent to Salesforce is of the contact its user has, and stays *)
(* so: no later callout takes a user from another contact.  The run has    *)
(* one callout at a time; for callouts that overlap, IntakeProofs has it.  *)
LinksAreKept == \A l \in links : contact[l[2]] = l[1]

(* Once an import run has come to its end, the email of every active       *)
(* legacy account, if it normalises, leads to a user, whatever ran beside  *)
(* it.                                                                     *)
ImportCovers == covered => \A e \in Legacy : owner[e] # NULL

(* A user without any handle is one that signed up, one a process has just *)
(* created, one whose process failed after creating it, or one whose       *)
(* handle another user got in between.                                     *)
HandlelessAreExplained ==
  \A u \in UserIds :
    Exists(u) /\ (\A h \in Handles : owner[h] # u) =>
      \/ u \in signups \cup interrupted \cup outraced
      \/ import.u = u
      \/ \E k \in Callouts : callout[k].u = u

(* Whether every callout for a contact and an email must fail: the email   *)
(* has a user and no handle, or its owner has another contact.             *)
Blocked(c, e) ==
  IF owner[e] = NULL THEN EmailTaken(e) ELSE contact[owner[e]] \notin {NULL, c}

(* A contact whose callout is repeated is linked in the end, unless the    *)
(* callout stays blocked.                                                  *)
RepeatedIsLinked ==
  <>[]((\E u \in UserIds : <<Repeated[1], u>> \in links) \/ Blocked(Repeated[1], Repeated[2]))
=============================================================================
