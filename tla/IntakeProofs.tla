----------------------------- MODULE IntakeProofs -----------------------------
(***************************************************************************)
(* Proofs about Intake and LegacyLogin, for any number of callouts,        *)
(* sign-ins, users, handles and contacts: how a link, a handle and a       *)
(* password stay what they were said to be while every step of one         *)
(* operation interleaves with the steps of the others.                     *)
(***************************************************************************)
EXTENDS LegacyLogin, TLAPS

(* Rows: what exists and who owns it.                                      *)
RowInv ==
  /\ \A u \in UserIds : ~Exists(u) => contact[u] = NULL
  /\ \A h \in Handles : owner[h] # NULL => Exists(owner[h])

(* What a callout found or created is still so.                            *)
CalloutInv ==
  \A k \in Callouts :
    /\ callout[k].pc \in {"idle", "unlinked", "create"} => callout[k].u = NULL
    /\ callout[k].pc = "link" =>
         callout[k].u \in UserIds /\ owner[callout[k].e] = callout[k].u
    /\ callout[k].pc = "resolved" =>
         callout[k].u \in UserIds /\ contact[callout[k].u] = callout[k].c

(* The legacy accounts are still to be looked at, in hand, or owned.       *)
ImportInv ==
  /\ import.pc \in {"idle", "scan", "create"} => import.u = NULL
  /\ import.pc \in {"account", "identity"} => import.u \in UserIds /\ Exists(import.u)
  /\ import.pc \in {"create", "account", "identity"} => import.e \in Emails
  /\ import.pc # "idle" =>
       \A e \in Legacy :
         e \in import.todo \/ owner[e] # NULL \/ (import.pc # "scan" /\ import.e = e)

EntryInv ==
  /\ RowInv
  /\ CalloutInv
  /\ ImportInv
  /\ LinksAreKept
  /\ ImportCovers
  /\ HandlelessAreExplained

(* A user has no password before there is a user, and none while the       *)
(* import is about to store one; who is being rehashed has one.            *)
PasswordInv ==
  /\ \A u \in UserIds : ~Exists(u) => secret[u] = NoSecret
  /\ import.pc = "account" => import.u \in algo /\ secret[import.u] = NoSecret
  /\ \A l \in Logins :
       /\ login[l].pc # "idle" =>
            /\ secret[login[l].u].format # "none"
            /\ login[l].pw = latest[login[l].u] \/ login[l].u \in crossed
       /\ login[l].pc = "clear" => secret[login[l].u].format = "argon2"
  /\ ClearedMeansRehashed
  /\ LatestPasswordStands

IInv == TypeOK /\ EntryInv /\ PasswordInv

-----------------------------------------------------------------------------
LEMMA InitInv == Init => IInv
<1> SUFFICES ASSUME Init PROVE IInv
  OBVIOUS
<1> USE DEF Init, IntakeInit
<1>1. TypeOK
  BY DEF TypeOK, IntakeTypeOK, NoImport, Import
<1>2. EntryInv
  BY DEF EntryInv, RowInv, CalloutInv, ImportInv, LinksAreKept, ImportCovers,
         HandlelessAreExplained, Exists, NoCallout, NoImport
<1>3. PasswordInv
  BY DEF PasswordInv, ClearedMeansRehashed, LatestPasswordStands, NoImport, NoLogin, NoSecret
<1> QED
  BY <1>1, <1>2, <1>3 DEF IInv

-----------------------------------------------------------------------------
(* Types                                                                   *)

LEMMA Types ==
  ASSUME IntakeTypeOK
  PROVE  /\ \A k \in Callouts : callout[k].pc # "idle" => callout[k] \in Callout
         /\ \A k \in Callouts : callout[k].pc = "idle" => callout[k] = NoCallout
         /\ import \in Import
         /\ NoCallout \in Callout \cup {NoCallout} /\ NoImport \in Import
  BY DEF IntakeTypeOK, NoCallout, NoImport, Import, Callout

LEMMA CalloutTypes ==
  ASSUME IntakeTypeOK, CalloutInv, NEW k \in Callouts, CalloutStep(k) \/ CalloutFails(k)
  PROVE  IntakeTypeOK'
<1> USE DEF userRows, history, AtC
<1>1. callout[k].pc # "idle" => callout[k] \in Callout
  BY Types
<1>2. CASE LookUp(k)
  <2>1. owner[callout[k].e] \in UserIds \cup {NULL}
    BY <1>1, <1>2 DEF LookUp, IntakeTypeOK, Callout, Handles
  <2>2. callout'[k] \in Callout /\ callout' \in [Callouts -> Callout \cup {NoCallout}]
    BY <1>1, <1>2, <2>1 DEF LookUp, IntakeTypeOK, Callout
  <2> QED
    BY <1>2, <2>2 DEF LookUp, IntakeTypeOK
<1>3. CASE Create(k)
  <2>1. PICK u \in UserIds :
          /\ NewUser(u, callout[k].e, callout[k].c)
          /\ callout' = [callout EXCEPT ![k].pc = "resolved", ![k].u = u]
    BY <1>3 DEF Create
  <2>2. callout' \in [Callouts -> Callout \cup {NoCallout}]
    BY <1>1, <1>3, <2>1 DEF Create, IntakeTypeOK, Callout
  <2>3. email' \in [UserIds -> Emails \cup {NULL}] /\ contact' \in [UserIds -> Contacts \cup {NULL}]
    BY <1>1, <1>3, <2>1 DEF Create, NewUser, IntakeTypeOK, Callout
  <2> QED
    BY <1>3, <2>2, <2>3 DEF Create, IntakeTypeOK
<1>4. CASE Link(k)
  <2>1. callout' \in [Callouts -> Callout \cup {NoCallout}]
    BY <1>1, <1>4 DEF Link, IntakeTypeOK, Callout
  <2>2. contact' \in [UserIds -> Contacts \cup {NULL}]
    BY <1>1, <1>4 DEF Link, IntakeTypeOK, Callout
  <2> QED
    BY <1>4, <2>1, <2>2 DEF Link, IntakeTypeOK
<1>5. CASE Refuse(k)
  BY <1>5 DEF Refuse, IntakeTypeOK
<1>6. CASE Commit(k)
  <2>1. callout[k].u \in UserIds /\ callout[k].c \in Contacts
    BY <1>1, <1>6 DEF Commit, Callout, CalloutInv
  <2>2. owner' \in [Handles -> UserIds \cup {NULL}]
    BY <1>6, <2>1 DEF Commit, IntakeTypeOK
  <2>3. links' \subseteq Contacts \X UserIds /\ normal' \subseteq UserIds /\ outraced' \subseteq UserIds
    BY <1>6, <2>1 DEF Commit, IntakeTypeOK
  <2> QED
    BY <1>6, <2>2, <2>3 DEF Commit, IntakeTypeOK
<1>7. CASE CalloutFails(k)
  BY <1>1, <1>7 DEF CalloutFails, IntakeTypeOK, Callout
<1> QED
  BY <1>2, <1>3, <1>4, <1>5, <1>6, <1>7 DEF CalloutStep

LEMMA ReceiveTypes ==
  ASSUME IntakeTypeOK, NEW k \in Callouts, NEW c \in Contacts, NEW e \in Emails, Receive(k, c, e)
  PROVE  IntakeTypeOK'
<1>1. callout' \in [Callouts -> Callout \cup {NoCallout}]
  BY DEF Receive, IntakeTypeOK, Callout
<1> QED
  BY <1>1 DEF Receive, IntakeTypeOK, userRows, history

ImportStep ==
  \/ StartImport \/ ImportUser \/ ImportAccount \/ ImportIdentity
  \/ ImportEnds \/ ImportThrows \/ ImportFails
  \/ \E e \in Emails : NextAccount(e)

LEMMA ImportTypes ==
  ASSUME IntakeTypeOK, ImportInv, ImportStep
  PROVE  IntakeTypeOK'
<1> USE DEF userRows, history, AtI
<1>1. import \in Import /\ NoImport \in Import
  BY Types
<1>2. CASE StartImport
  BY <1>1, <1>2, IntakeAssumption DEF StartImport, IntakeTypeOK, Import, NoImport
<1>3. CASE ImportUser
  <2>1. PICK u \in UserIds :
          NewUser(u, import.e, NULL) /\ import' = [import EXCEPT !.pc = "account", !.u = u]
    BY <1>3 DEF ImportUser
  <2>2. import' \in Import
    BY <1>1, <2>1 DEF Import
  <2>3. email' \in [UserIds -> Emails \cup {NULL}] /\ contact' \in [UserIds -> Contacts \cup {NULL}]
    BY <1>1, <2>1 DEF NewUser, IntakeTypeOK, Import
  <2> QED
    BY <1>3, <2>2, <2>3 DEF ImportUser, IntakeTypeOK
<1>4. CASE ImportAccount
  BY <1>1, <1>4 DEF ImportAccount, IntakeTypeOK, Import
<1>5. CASE ImportIdentity
  <2>1. import.u \in UserIds /\ import.e \in Handles
    BY <1>5 DEF ImportIdentity, ImportInv, Handles
  <2>2. import' \in Import
    BY <1>1, <1>5 DEF ImportIdentity, Import
  <2>3. owner' \in [Handles -> UserIds \cup {NULL}] /\ verified' \subseteq Handles /\ outraced' \subseteq UserIds
    BY <1>5, <2>1 DEF ImportIdentity, IntakeTypeOK
  <2> QED
    BY <1>5, <2>2, <2>3 DEF ImportIdentity, IntakeTypeOK
<1>6. CASE ImportEnds
  BY <1>1, <1>6 DEF ImportEnds, IntakeTypeOK
<1>7. CASE ImportThrows
  BY <1>1, <1>7 DEF ImportThrows, IntakeTypeOK
<1>8. CASE ImportFails
  BY <1>1, <1>8 DEF ImportFails, IntakeTypeOK, Import
<1>9. ASSUME NEW e \in Emails, NextAccount(e) PROVE IntakeTypeOK'
  <2>1. import' \in Import
    BY <1>1, <1>9 DEF NextAccount, Import
  <2> QED
    BY <1>9, <2>1 DEF NextAccount, IntakeTypeOK
<1> QED
  BY <1>2, <1>3, <1>4, <1>5, <1>6, <1>7, <1>8, <1>9 DEF ImportStep

LEMMA SignUpTypes ==
  ASSUME IntakeTypeOK, NEW u \in UserIds, NEW e \in Emails, SignUp(u, e)
  PROVE  IntakeTypeOK'
BY DEF SignUp, NewUser, IntakeTypeOK

LEMMA UnchangedTypes == IntakeTypeOK /\ UNCHANGED intakeVars => IntakeTypeOK'
BY DEF IntakeTypeOK, intakeVars, userRows, history

(* The passwords' variables.                                               *)
LoginTypes ==
  /\ secret \in [UserIds -> Secret \cup {NoSecret}]
  /\ algo \subseteq UserIds
  /\ login \in [Logins -> Login \cup {NoLogin}]
  /\ latest \in [UserIds -> Passwords \cup {NULL}]
  /\ crossed \subseteq UserIds

LEMMA LoginShapes ==
  ASSUME LoginTypes
  PROVE  /\ \A l \in Logins : login[l].pc # "idle" => login[l] \in Login
         /\ \A l \in Logins : login[l].pc = "idle" => login[l] = NoLogin
         /\ \A u \in UserIds : secret[u].format # "none" => secret[u] \in Secret
         /\ \A pw \in Passwords, f \in {"legacy", "argon2"} : [pw |-> pw, format |-> f] \in Secret
BY DEF LoginTypes, Login, NoLogin, Secret, NoSecret

LEMMA PasswordTypes ==
  ASSUME LoginTypes, IntakeTypeOK, ImportInv, [Next]_vars
  PROVE  LoginTypes'
<1> USE LoginShapes, LoginAssumption
<1>1. CASE UNCHANGED loginVars
  BY <1>1 DEF loginVars, LoginTypes
<1>2. CASE ImportPassword /\ UNCHANGED <<login, crossed>>
  <2>1. CASE ImportUser /\ algo' = algo \cup {import'.u} /\ UNCHANGED <<secret, latest>>
    <3>1. PICK u \in UserIds : import' = [import EXCEPT !.pc = "account", !.u = u]
      BY <2>1 DEF ImportUser
    <3>2. import'.u \in UserIds
      BY <3>1, Types DEF Import
    <3> QED
      BY <1>2, <2>1, <3>2 DEF LoginTypes
  <2>2. CASE ImportAccount /\ UNCHANGED algo
             /\ secret' = [secret EXCEPT ![import.u] = [pw |-> LegacyPassword, format |-> "legacy"]]
             /\ latest' = [latest EXCEPT ![import.u] = LegacyPassword]
    BY <1>2, <2>2 DEF LoginTypes
  <2> QED
    BY <1>2, <2>1, <2>2 DEF ImportPassword
<1>3. ASSUME NEW u \in UserIds, NEW pw \in Passwords, SetPassword(u, pw),
             login' = login, crossed' \in {crossed, crossed \cup {u}}
      PROVE  LoginTypes'
  BY <1>3 DEF SetPassword, LoginTypes
<1>4. ASSUME NEW u \in UserIds, NEW e \in Emails, NEW pw \in Passwords, SignUpWith(u, e, pw)
      PROVE  LoginTypes'
  BY <1>3, <1>4 DEF SignUpWith
<1>5. ASSUME NEW u \in UserIds, NEW pw \in Passwords, ChangePassword(u, pw)
      PROVE  LoginTypes'
  BY <1>3, <1>5 DEF ChangePassword
<1>6. ASSUME NEW l \in Logins, LoginStep(l) PROVE LoginTypes'
  <2> USE DEF LoginTo, EndLogin
  <2>1. ASSUME NEW u \in UserIds, NEW pw \in Passwords, SignIn(l, u, pw) PROVE LoginTypes'
    BY <2>1 DEF SignIn, LoginTypes, Login
  <2>2. CASE FindImported(l)
    BY <2>2 DEF FindImported, LoginTypes, Login
  <2>3. CASE Rehash(l)
    <3>1. login[l].pw \in Passwords /\ login[l] \in Login
      BY <2>3 DEF Rehash, Login
    <3>2. login' \in [Logins -> Login \cup {NoLogin}]
      BY <2>3, <3>1 DEF Rehash, LoginTypes, Login
    <3> QED
      BY <2>3, <3>1, <3>2 DEF Rehash, LoginTypes
  <2>4. CASE ClearAlgo(l)
    BY <2>4 DEF ClearAlgo, LoginTypes
  <2>5. CASE LoginFails(l)
    BY <2>5 DEF LoginFails, LoginTypes
  <2> QED
    BY <1>6, <2>1, <2>2, <2>3, <2>4, <2>5 DEF LoginStep
<1> QED
  BY <1>1, <1>2, <1>4, <1>5, <1>6 DEF Next, vars

LEMMA TypeStep == TypeOK /\ EntryInv /\ [Next]_vars => TypeOK'
<1> SUFFICES ASSUME TypeOK, EntryInv, [Next]_vars PROVE TypeOK'
  OBVIOUS
<1>1. IntakeTypeOK /\ LoginTypes /\ CalloutInv /\ ImportInv
  BY DEF TypeOK, LoginTypes, EntryInv
<1>2. LoginTypes'
  BY <1>1, PasswordTypes
<1>3. IntakeTypeOK'
  <2>1. CASE UNCHANGED intakeVars
    BY <1>1, <2>1, UnchangedTypes
  <2>2. CASE IntakeStep
    BY <1>1, <2>2, CalloutTypes, ReceiveTypes, ImportTypes DEF IntakeStep, ImportStep
  <2>3. CASE ImportPassword
    BY <1>1, <2>3, ImportTypes DEF ImportPassword, ImportStep
  <2>4. ASSUME NEW u \in UserIds, NEW e \in Emails, NEW pw \in Passwords, SignUpWith(u, e, pw)
        PROVE  IntakeTypeOK'
    BY <1>1, <2>4, SignUpTypes DEF SignUpWith
  <2>5. ASSUME NEW l \in Logins, LoginStep(l) PROVE IntakeTypeOK'
    <3>1. CASE UNCHANGED intakeVars
      BY <1>1, <3>1, UnchangedTypes
    <3>2. CASE LoginFails(l)
      BY <1>1, <3>2 DEF LoginFails, IntakeTypeOK, userRows, history
    <3> QED
      BY <2>5, <3>1, <3>2 DEF LoginStep, SignIn, FindImported, Rehash, ClearAlgo
  <2> QED
    BY <2>1, <2>2, <2>3, <2>4, <2>5 DEF Next, vars, ChangePassword
<1> QED
  BY <1>2, <1>3 DEF TypeOK, LoginTypes

-----------------------------------------------------------------------------
(* Entry                                                                   *)

LEMMA CalloutKeeps ==
  ASSUME IntakeTypeOK, EntryInv, NEW k \in Callouts, CalloutStep(k) \/ CalloutFails(k)
  PROVE  EntryInv'
<1> USE IntakeAssumption DEF userRows, history, AtC
<1>1. callout[k].pc # "idle" =>
        callout[k] \in Callout /\ callout[k].e \in Handles /\ callout[k].c \in Contacts
  BY Types DEF Callout, Handles
<1>2. CASE LookUp(k)
  <2>1. UNCHANGED <<userRows, import, failures, history>>
    BY <1>2 DEF LookUp
  <2>2. PICK u \in UserIds \cup {NULL} : u = owner[callout[k].e]
    BY <1>1, <1>2 DEF LookUp, IntakeTypeOK
  <2>3. /\ callout'[k].pc = (IF u = NULL THEN "create" ELSE "link")
        /\ callout'[k].u = u /\ callout'[k].e = callout[k].e
        /\ \A j \in Callouts : j # k => callout'[j] = callout[j]
    BY <1>1, <1>2, <2>2 DEF LookUp, IntakeTypeOK, Callout
  <2>4. CalloutInv'
    BY <2>1, <2>2, <2>3 DEF EntryInv, CalloutInv
  <2>5. HandlelessAreExplained'
    <3>1. callout[k].u = NULL
      BY <1>2 DEF LookUp, EntryInv, CalloutInv
    <3>2. \A j \in Callouts, w \in UserIds : callout[j].u = w => callout'[j].u = w
      BY <2>3, <3>1
    <3> QED
      BY <2>1, <3>2 DEF EntryInv, HandlelessAreExplained, Exists
  <2> QED
    BY <2>1, <2>4, <2>5 DEF EntryInv, RowInv, ImportInv, LinksAreKept, ImportCovers, Exists
<1>3. CASE Create(k)
  <2>1. PICK u \in UserIds :
          /\ NewUser(u, callout[k].e, callout[k].c)
          /\ callout' = [callout EXCEPT ![k].pc = "resolved", ![k].u = u]
    BY <1>3 DEF Create
  <2>2. /\ callout'[k].pc = "resolved" /\ callout'[k].u = u /\ callout'[k].c = callout[k].c
        /\ \A j \in Callouts : j # k => callout'[j] = callout[j]
    BY <1>1, <1>3, <2>1 DEF Create, IntakeTypeOK, Callout
  <2>3. UNCHANGED <<owner, verified, normal, links, import, failures, history>>
    BY <1>3 DEF Create
  <2>4. /\ email[u] = NULL /\ contact[u] = NULL
        /\ email'[u] # NULL /\ contact'[u] = callout[k].c
        /\ \A w \in UserIds : w # u => email'[w] = email[w] /\ contact'[w] = contact[w]
    BY <1>1, <1>3, <2>1 DEF Create, NewUser, Exists, IntakeTypeOK, EntryInv, RowInv, Callout
  <2>5. RowInv'
    BY <2>3, <2>4 DEF EntryInv, RowInv, Exists, IntakeTypeOK
  <2>6. CalloutInv'
    BY <1>1, <1>3, <2>2, <2>3, <2>4, Types DEF EntryInv, CalloutInv, Callout
  <2>7. ImportInv'
    BY <2>3, <2>4 DEF EntryInv, ImportInv, Exists
  <2>8. LinksAreKept'
    BY <2>3, <2>4 DEF EntryInv, LinksAreKept, IntakeTypeOK
  <2>9. HandlelessAreExplained'
    <3>1. callout[k].u = NULL
      BY <1>3 DEF Create, EntryInv, CalloutInv
    <3>2. \A j \in Callouts, w \in UserIds : callout[j].u = w => callout'[j].u = w
      BY <2>2, <3>1
    <3>3. \A w \in UserIds : Exists(w)' => Exists(w) \/ callout'[k].u = w
      BY <2>2, <2>4 DEF Exists
    <3> QED
      BY <2>3, <3>2, <3>3 DEF EntryInv, HandlelessAreExplained
  <2> QED
    BY <2>3, <2>5, <2>6, <2>7, <2>8, <2>9 DEF EntryInv, ImportCovers
<1>4. CASE Link(k)
  <2>1. PICK u \in UserIds : u = callout[k].u
    BY <1>4 DEF Link, EntryInv, CalloutInv
  <2>2. /\ callout'[k].pc = "resolved" /\ callout'[k].u = u /\ callout'[k].c = callout[k].c
        /\ \A j \in Callouts : j # k => callout'[j] = callout[j]
    BY <1>1, <1>4, <2>1 DEF Link, IntakeTypeOK, Callout
  <2>3. UNCHANGED <<email, owner, verified, normal, links, import, failures, history>>
    BY <1>4 DEF Link
  <2>4. /\ contact[u] = NULL /\ contact'[u] = callout[k].c
        /\ \A w \in UserIds : w # u => contact'[w] = contact[w]
        /\ email[u] # NULL
    BY <1>1, <1>4, <2>1 DEF Link, MayLink, IntakeTypeOK, EntryInv, CalloutInv, RowInv, Exists
  <2>5. RowInv'
    BY <2>3, <2>4 DEF EntryInv, RowInv, Exists
  <2>6. CalloutInv'
    BY <2>2, <2>3, <2>4, Types DEF EntryInv, CalloutInv, Callout
  <2>7. LinksAreKept'
    BY <2>3, <2>4 DEF EntryInv, LinksAreKept, IntakeTypeOK
  <2>8. HandlelessAreExplained'
    BY <2>1, <2>2, <2>3 DEF EntryInv, HandlelessAreExplained, Exists
  <2> QED
    BY <2>3, <2>5, <2>6, <2>7, <2>8 DEF EntryInv, ImportInv, ImportCovers, Exists
<1>5. CASE Refuse(k)
  <2>1. /\ callout'[k] = NoCallout /\ \A j \in Callouts : j # k => callout'[j] = callout[j]
        /\ UNCHANGED <<userRows, import, failures, history>>
    BY <1>5 DEF Refuse, IntakeTypeOK
  <2>2. CalloutInv'
    BY <2>1 DEF EntryInv, CalloutInv, NoCallout
  <2>3. \A u \in UserIds : callout[k].u = u => \E h \in Handles : owner[h] = u
    BY <1>1, <1>5 DEF Refuse, EntryInv, CalloutInv
  <2>4. HandlelessAreExplained'
    BY <2>1, <2>3 DEF EntryInv, HandlelessAreExplained, Exists
  <2> QED
    BY <2>1, <2>2, <2>4 DEF EntryInv, RowInv, ImportInv, LinksAreKept, ImportCovers, Exists
<1>6. CASE Commit(k)
  <2>1. PICK u \in UserIds : u = callout[k].u /\ contact[u] = callout[k].c
    BY <1>6 DEF Commit, EntryInv, CalloutInv
  <2>2. /\ callout'[k] = NoCallout /\ \A j \in Callouts : j # k => callout'[j] = callout[j]
        /\ UNCHANGED <<email, contact, verified, import, failures, covered, signups, interrupted>>
        /\ links' = links \cup {<<callout[k].c, u>>}
    BY <1>6, <2>1 DEF Commit, IntakeTypeOK
  <2>3. \A h \in Handles : owner[h] # NULL => owner'[h] = owner[h]
    BY <1>6 DEF Commit
  <2>4. \A h \in Handles : owner[h] = NULL => owner'[h] \in {NULL, u}
    BY <1>6, <2>1 DEF Commit
  <2>5. owner'[callout[k].e] = u \/ u \in outraced'
    BY <1>1, <1>6, <2>1 DEF Commit
  <2>6. Exists(u)
    BY <1>1, <1>6, <2>1 DEF Commit, EntryInv, RowInv
  <2>7. RowInv'
    BY <2>2, <2>3, <2>4, <2>6 DEF EntryInv, RowInv, Exists
  <2>8. CalloutInv'
    <3>1. ASSUME NEW j \in Callouts, j # k, callout[j].pc = "link"
          PROVE  owner'[callout[j].e] = callout[j].u
      <4>1. callout[j].e \in Handles
        BY <3>1, Types DEF Callout, Handles
      <4> QED
        BY <2>3, <3>1, <4>1 DEF EntryInv, CalloutInv
    <3> QED
      BY <2>2, <3>1 DEF EntryInv, CalloutInv, NoCallout
  <2>9. ImportInv' /\ ImportCovers'
    BY <2>2, <2>3, <2>4 DEF EntryInv, ImportInv, ImportCovers, Exists, Handles
  <2>10. LinksAreKept'
    BY <2>1, <2>2 DEF EntryInv, LinksAreKept
  <2>11. HandlelessAreExplained'
    <3>1. outraced \subseteq outraced'
      BY <1>6 DEF Commit
    <3>2. ASSUME NEW w \in UserIds, Exists(w)', \A h \in Handles : owner'[h] # w
          PROVE  \/ w \in signups' \cup interrupted' \cup outraced'
                 \/ import'.u = w
                 \/ \E j \in Callouts : callout'[j].u = w
      <4>1. CASE w = u
        BY <1>1, <1>6, <2>5, <3>2, <4>1 DEF Commit
      <4>2. CASE w # u
        BY <2>1, <2>2, <2>3, <3>1, <3>2, <4>2 DEF EntryInv, HandlelessAreExplained, Exists
      <4> QED
        BY <4>1, <4>2
    <3> QED
      BY <3>2 DEF HandlelessAreExplained
  <2> QED
    BY <2>7, <2>8, <2>9, <2>10, <2>11 DEF EntryInv
<1>7. CASE CalloutFails(k)
  <2>1. /\ callout'[k] = NoCallout /\ \A j \in Callouts : j # k => callout'[j] = callout[j]
        /\ UNCHANGED <<userRows, import, covered, signups, outraced>>
        /\ interrupted' = interrupted \cup ({callout[k].u} \ {NULL})
    BY <1>7 DEF CalloutFails, IntakeTypeOK
  <2>2. CalloutInv'
    BY <2>1 DEF EntryInv, CalloutInv, NoCallout
  <2>3. HandlelessAreExplained'
    BY <2>1 DEF EntryInv, HandlelessAreExplained, Exists
  <2> QED
    BY <2>1, <2>2, <2>3 DEF EntryInv, RowInv, ImportInv, LinksAreKept, ImportCovers, Exists
<1> QED
  BY <1>2, <1>3, <1>4, <1>5, <1>6, <1>7 DEF CalloutStep

LEMMA ReceiveKeeps ==
  ASSUME IntakeTypeOK, EntryInv,
         NEW k \in Callouts, NEW c \in Contacts, NEW e \in Emails, Receive(k, c, e)
  PROVE  EntryInv'
<1> USE IntakeAssumption DEF userRows, history, AtC
<1>1. PICK phone \in Phones \cup {NULL}, pc \in {"unlinked", "resolved"}, u \in UserIds \cup {NULL} :
        /\ callout' = [callout EXCEPT ![k] =
                        [pc |-> pc, c |-> c, e |-> e, phone |-> phone, u |-> u]]
        /\ pc = "unlinked" => u = NULL
        /\ pc = "resolved" => u \in UserIds /\ contact[u] = c
  BY DEF Receive
<1>2. /\ callout'[k] = [pc |-> pc, c |-> c, e |-> e, phone |-> phone, u |-> u]
      /\ \A j \in Callouts : j # k => callout'[j] = callout[j]
      /\ callout[k].u = NULL
      /\ UNCHANGED <<userRows, import, failures, history>>
  BY <1>1, Types DEF Receive, IntakeTypeOK, NoCallout
<1>3. CalloutInv'
  BY <1>1, <1>2 DEF EntryInv, CalloutInv
<1>4. HandlelessAreExplained'
  <2>1. \A j \in Callouts, w \in UserIds : callout[j].u = w => callout'[j].u = w
    BY <1>2
  <2> QED
    BY <1>2, <2>1 DEF EntryInv, HandlelessAreExplained, Exists
<1> QED
  BY <1>2, <1>3, <1>4 DEF EntryInv, RowInv, ImportInv, LinksAreKept, ImportCovers, Exists

LEMMA ImportKeeps ==
  ASSUME IntakeTypeOK, EntryInv, ImportStep
  PROVE  EntryInv'
<1> USE IntakeAssumption DEF userRows, history, AtI
<1>1. import \in Import
  BY Types
<1>2. ASSUME UNCHANGED <<userRows, callout, signups, outraced>>,
             interrupted \subseteq interrupted', import.u \in {NULL, import'.u} \cup interrupted',
             ImportInv', covered' => \A e \in Legacy : owner[e] # NULL
      PROVE  EntryInv'
  <2>1. HandlelessAreExplained'
    BY <1>2 DEF EntryInv, HandlelessAreExplained, Exists
  <2> QED
    BY <1>2, <2>1 DEF EntryInv, RowInv, CalloutInv, LinksAreKept, ImportCovers, Exists
<1>3. covered => \A e \in Legacy : owner[e] # NULL
  BY DEF EntryInv, ImportCovers
<1>4. CASE StartImport
  <2>1. import.u = NULL /\ ImportInv'
    BY <1>4 DEF StartImport, NoImport, EntryInv, ImportInv
  <2> QED
    BY <1>2, <1>3, <1>4, <2>1 DEF StartImport
<1>5. ASSUME NEW e \in Emails, NextAccount(e) PROVE EntryInv'
  <2>1. import.u = NULL
    BY <1>5 DEF NextAccount, EntryInv, ImportInv
  <2>2. CASE Claimed(e)
    <3>1. /\ import'.pc = "scan" /\ import'.u = NULL /\ import'.todo = import.todo \ {e}
      BY <1>1, <1>5, <2>1, <2>2 DEF NextAccount, Import
    <3>2. ImportInv'
      BY <1>5, <2>2, <3>1 DEF NextAccount, Claimed, EntryInv, ImportInv
    <3> QED
      BY <1>2, <1>3, <1>5, <2>1, <3>2 DEF NextAccount
  <2>3. CASE ~Claimed(e)
    <3>1. /\ import'.pc = "create" /\ import'.u = NULL /\ import'.todo = import.todo \ {e}
          /\ import'.e = e
      BY <1>1, <1>5, <2>1, <2>3 DEF NextAccount, Import
    <3>2. ImportInv'
      BY <1>5, <3>1 DEF NextAccount, EntryInv, ImportInv
    <3> QED
      BY <1>2, <1>3, <1>5, <2>1, <3>2 DEF NextAccount
  <2> QED
    BY <2>2, <2>3
<1>6. CASE ImportUser
  <2>1. PICK u \in UserIds :
          NewUser(u, import.e, NULL) /\ import' = [import EXCEPT !.pc = "account", !.u = u]
    BY <1>6 DEF ImportUser
  <2>2. /\ import'.pc = "account" /\ import'.u = u
        /\ import'.e = import.e /\ import'.todo = import.todo
    BY <1>1, <2>1 DEF Import
  <2>3. UNCHANGED <<owner, verified, normal, links, callout, failures, history>>
    BY <1>6 DEF ImportUser
  <2>4. import.u = NULL /\ import.e \in Emails /\ import.pc = "create"
    BY <1>6 DEF ImportUser, EntryInv, ImportInv
  <2>5. /\ email[u] = NULL /\ contact[u] = NULL
        /\ email'[u] # NULL /\ contact'[u] = NULL
        /\ \A w \in UserIds : w # u => email'[w] = email[w] /\ contact'[w] = contact[w]
    BY <2>1, <2>4 DEF NewUser, Exists, IntakeTypeOK, EntryInv, RowInv, Handles
  <2>6. RowInv'
    BY <2>3, <2>5 DEF EntryInv, RowInv, Exists, IntakeTypeOK
  <2>7. CalloutInv'
    BY <2>3, <2>5 DEF EntryInv, CalloutInv
  <2>8. ImportInv'
    BY <2>2, <2>3, <2>4, <2>5 DEF EntryInv, ImportInv, Exists
  <2>9. LinksAreKept'
    BY <2>3, <2>5 DEF EntryInv, LinksAreKept, IntakeTypeOK
  <2>10. HandlelessAreExplained'
    <3>1. \A w \in UserIds : Exists(w)' => Exists(w) \/ import'.u = w
      BY <2>2, <2>5 DEF Exists
    <3> QED
      BY <2>3, <2>4, <3>1 DEF EntryInv, HandlelessAreExplained
  <2> QED
    BY <2>3, <2>6, <2>7, <2>8, <2>9, <2>10 DEF EntryInv, ImportCovers
<1>7. CASE ImportAccount
  <2>1. /\ import'.pc = "identity" /\ import'.u = import.u
        /\ import'.e = import.e /\ import'.todo = import.todo
    BY <1>1, <1>7 DEF ImportAccount, Import
  <2>2. ImportInv'
    BY <1>7, <2>1 DEF ImportAccount, EntryInv, ImportInv, Exists
  <2> QED
    BY <1>2, <1>3, <1>7, <2>1, <2>2 DEF ImportAccount
<1>8. CASE ImportIdentity
  <2>1. PICK u \in UserIds, e \in Emails : u = import.u /\ e = import.e
    BY <1>8 DEF ImportIdentity, EntryInv, ImportInv
  <2>2. /\ import'.pc = "scan" /\ import'.u = NULL /\ import'.todo = import.todo
    BY <1>1, <1>8 DEF ImportIdentity, Import
  <2>3. UNCHANGED <<email, contact, normal, links, callout, failures, covered, signups, interrupted>>
    BY <1>8 DEF ImportIdentity
  <2>4. /\ \A h \in Handles : owner[h] # NULL => owner'[h] = owner[h]
        /\ \A h \in Handles : owner[h] = NULL => owner'[h] \in {NULL, u}
        /\ owner'[e] # NULL
        /\ owner'[e] = u \/ u \in outraced'
        /\ outraced \subseteq outraced'
    BY <1>8, <2>1 DEF ImportIdentity, IntakeTypeOK, Handles
  <2>5. Exists(u)
    BY <1>8, <2>1 DEF ImportIdentity, EntryInv, ImportInv
  <2>6. RowInv'
    BY <2>3, <2>4, <2>5 DEF EntryInv, RowInv, Exists
  <2>7. CalloutInv'
    <3>1. ASSUME NEW j \in Callouts, callout[j].pc = "link"
          PROVE  owner'[callout[j].e] = callout[j].u
      <4>1. callout[j].e \in Handles
        BY <3>1, Types DEF Callout, Handles
      <4> QED
        BY <2>4, <3>1, <4>1 DEF EntryInv, CalloutInv
    <3> QED
      BY <2>3, <3>1 DEF EntryInv, CalloutInv
  <2>8. ImportInv'
    BY <1>8, <2>1, <2>2, <2>4 DEF ImportIdentity, EntryInv, ImportInv, Handles
  <2>9. LinksAreKept' /\ ImportCovers'
    BY <2>3, <2>4 DEF EntryInv, LinksAreKept, ImportCovers, Handles
  <2>10. HandlelessAreExplained'
    <3>1. ASSUME NEW w \in UserIds, Exists(w)', \A h \in Handles : owner'[h] # w
          PROVE  \/ w \in signups' \cup interrupted' \cup outraced'
                 \/ \E j \in Callouts : callout'[j].u = w
      <4>1. CASE w = u
        BY <2>1, <2>4, <3>1, <4>1 DEF Handles
      <4>2. CASE w # u
        BY <2>1, <2>3, <2>4, <3>1, <4>2 DEF EntryInv, HandlelessAreExplained, Exists
      <4> QED
        BY <4>1, <4>2
    <3> QED
      BY <3>1 DEF HandlelessAreExplained
  <2> QED
    BY <2>6, <2>7, <2>8, <2>9, <2>10 DEF EntryInv
<1>9. CASE ImportEnds
  <2>1. import.u = NULL /\ ImportInv' /\ \A e \in Legacy : owner[e] # NULL
    BY <1>9 DEF ImportEnds, NoImport, EntryInv, ImportInv
  <2> QED
    BY <1>2, <1>9, <2>1 DEF ImportEnds
<1>10. CASE ImportThrows
  <2>1. import.u = NULL /\ ImportInv'
    BY <1>10 DEF ImportThrows, NoImport, EntryInv, ImportInv
  <2> QED
    BY <1>2, <1>3, <1>10, <2>1 DEF ImportThrows
<1>11. CASE ImportFails
  <2>1. ImportInv'
    BY <1>11 DEF ImportFails, NoImport, ImportInv
  <2> QED
    BY <1>2, <1>3, <1>11, <2>1 DEF ImportFails
<1> QED
  BY <1>4, <1>5, <1>6, <1>7, <1>8, <1>9, <1>10, <1>11 DEF ImportStep

LEMMA SignUpKeeps ==
  ASSUME IntakeTypeOK, EntryInv, NEW u \in UserIds, NEW e \in Emails, SignUp(u, e)
  PROVE  EntryInv'
<1> USE IntakeAssumption
<1>1. /\ UNCHANGED <<owner, verified, normal, links, callout, import, failures, covered,
                     interrupted, outraced>>
      /\ signups' = signups \cup {u}
  BY DEF SignUp
<1>2. /\ email'[u] # NULL /\ contact'[u] = NULL /\ contact[u] = NULL
      /\ \A w \in UserIds : w # u => email'[w] = email[w] /\ contact'[w] = contact[w]
  BY DEF SignUp, NewUser, Exists, IntakeTypeOK, EntryInv, RowInv, Handles
<1>3. RowInv'
  BY <1>1, <1>2 DEF EntryInv, RowInv, Exists, IntakeTypeOK
<1>4. CalloutInv' /\ ImportInv'
  BY <1>1, <1>2 DEF EntryInv, CalloutInv, ImportInv, Exists
<1>5. LinksAreKept' /\ ImportCovers'
  BY <1>1, <1>2 DEF EntryInv, LinksAreKept, ImportCovers, IntakeTypeOK
<1>6. HandlelessAreExplained'
  BY <1>1, <1>2 DEF EntryInv, HandlelessAreExplained, Exists
<1> QED
  BY <1>3, <1>4, <1>5, <1>6 DEF EntryInv

LEMMA UnchangedEntry == EntryInv /\ UNCHANGED <<userRows, callout, import, history>> => EntryInv'
BY DEF userRows, history, EntryInv, RowInv, CalloutInv, ImportInv, LinksAreKept, ImportCovers,
       HandlelessAreExplained, Exists

LEMMA EntryStep == TypeOK /\ EntryInv /\ [Next]_vars => EntryInv'
<1> SUFFICES ASSUME TypeOK, EntryInv, [Next]_vars PROVE EntryInv'
  OBVIOUS
<1>0. IntakeTypeOK
  BY DEF TypeOK
<1>1. CASE UNCHANGED <<userRows, callout, import, history>>
  BY <1>1, UnchangedEntry
<1>2. CASE IntakeStep
  BY <1>0, <1>2, CalloutKeeps, ReceiveKeeps, ImportKeeps DEF IntakeStep, ImportStep
<1>3. CASE ImportPassword
  BY <1>0, <1>3, ImportKeeps DEF ImportPassword, ImportStep
<1>4. ASSUME NEW u \in UserIds, NEW e \in Emails, NEW pw \in Passwords, SignUpWith(u, e, pw)
      PROVE  EntryInv'
  BY <1>0, <1>4, SignUpKeeps DEF SignUpWith
<1>5. ASSUME NEW l \in Logins, LoginStep(l) PROVE UNCHANGED <<userRows, callout, import, history>>
  BY <1>5 DEF LoginStep, SignIn, FindImported, Rehash, ClearAlgo, LoginFails, intakeVars
<1> QED
  BY <1>1, <1>2, <1>3, <1>4, <1>5 DEF Next, vars, intakeVars, ChangePassword

-----------------------------------------------------------------------------
(* Passwords                                                               *)

(* Users stay, and only ImportPassword brings the import to "account".     *)
LEMMA IntakeEffect ==
  ASSUME IntakeTypeOK, EntryInv, IntakeStep
  PROVE  /\ \A u \in UserIds : ~Exists(u)' => ~Exists(u)
         /\ import'.pc = "account" => import' = import
<1> USE IntakeAssumption DEF userRows, Exists
<1>0. import \in Import
  BY Types
<1>1. ASSUME NEW k \in Callouts, CalloutStep(k)
      PROVE  import' = import /\ \A u \in UserIds : ~Exists(u)' => ~Exists(u)
  <2>1. ASSUME NEW w \in UserIds, NewUser(w, callout[k].e, callout[k].c), AtC(k, "create")
        PROVE  \A u \in UserIds : ~Exists(u)' => ~Exists(u)
    <3>1. callout[k].e \in Emails
      BY <2>1, Types DEF AtC, Callout
    <3> QED
      BY <2>1, <3>1 DEF NewUser, IntakeTypeOK, Handles
  <2> QED
    BY <1>1, <2>1 DEF CalloutStep, LookUp, Create, Link, Refuse, Commit
<1>2. ASSUME NEW e \in Emails, NextAccount(e) PROVE import'.pc # "account" /\ email' = email
  <2>1. import'.pc \in {"scan", "create"}
    BY <1>0, <1>2 DEF NextAccount, AtI, Import
  <2> QED
    BY <1>2, <2>1 DEF NextAccount
<1>3. CASE ImportIdentity
  <2>1. import'.pc # "account" /\ email' = email
    BY <1>0, <1>3 DEF ImportIdentity, Import
  <2> QED
    BY <2>1
<1>4. CASE StartImport \/ ImportEnds \/ ImportThrows \/ ImportFails
  <2>1. StartImport => import'.pc = "scan"
    BY DEF StartImport, NoImport
  <2>2. ImportEnds \/ ImportThrows \/ ImportFails => import'.pc = "idle"
    BY DEF ImportEnds, ImportThrows, ImportFails, NoImport
  <2>3. email' = email
    BY <1>4 DEF StartImport, ImportEnds, ImportThrows, ImportFails
  <2> QED
    BY <1>4, <2>1, <2>2, <2>3
<1>5. ASSUME NEW k \in Callouts, NEW c \in Contacts, NEW e \in Emails, Receive(k, c, e)
      PROVE  UNCHANGED <<email, import>>
  BY <1>5 DEF Receive
<1>6. ASSUME NEW k \in Callouts, CalloutFails(k) PROVE UNCHANGED <<email, import>>
  BY <1>6 DEF CalloutFails
<1> QED
  BY <1>1, <1>2, <1>3, <1>4, <1>5, <1>6 DEF IntakeStep

LEMMA ImportPasswordKeeps ==
  ASSUME TypeOK, EntryInv, PasswordInv, ImportPassword, UNCHANGED <<login, crossed>>
  PROVE  PasswordInv'
<1> USE LoginAssumption, IntakeAssumption
<1>0. IntakeTypeOK /\ LoginTypes /\ import \in Import
  BY Types DEF TypeOK, LoginTypes
<1>1. CASE ImportUser /\ algo' = algo \cup {import'.u} /\ UNCHANGED <<secret, latest>>
  <2>1. PICK u \in UserIds :
          NewUser(u, import.e, NULL) /\ import' = [import EXCEPT !.pc = "account", !.u = u]
    BY <1>1 DEF ImportUser
  <2>2. import'.u = u /\ import'.pc = "account" /\ secret[u] = NoSecret
    BY <1>0, <2>1 DEF Import, NewUser, PasswordInv
  <2>3. import.e \in Emails
    BY <1>1 DEF ImportUser, AtI, EntryInv, ImportInv
  <2>4. \A w \in UserIds : ~Exists(w)' => ~Exists(w)
    BY <1>0, <2>1, <2>3 DEF NewUser, Exists, IntakeTypeOK, Handles
  <2> QED
    BY <1>1, <2>2, <2>4 DEF PasswordInv, ClearedMeansRehashed, LatestPasswordStands
<1>2. CASE /\ ImportAccount /\ UNCHANGED algo
           /\ secret' = [secret EXCEPT ![import.u] = [pw |-> LegacyPassword, format |-> "legacy"]]
           /\ latest' = [latest EXCEPT ![import.u] = LegacyPassword]
  <2>1. PICK u \in UserIds : u = import.u /\ Exists(u) /\ u \in algo /\ secret[u] = NoSecret
    BY <1>2 DEF ImportAccount, AtI, EntryInv, ImportInv, PasswordInv
  <2>2. /\ secret'[u] = [pw |-> LegacyPassword, format |-> "legacy"] /\ latest'[u] = LegacyPassword
        /\ \A w \in UserIds : w # u => secret'[w] = secret[w] /\ latest'[w] = latest[w]
    BY <1>0, <1>2, <2>1 DEF LoginTypes
  <2>3. import'.pc = "identity" /\ UNCHANGED <<email, algo>>
    BY <1>0, <1>2 DEF ImportAccount, Import, userRows
  <2>4. \A l \in Logins : login[l].pc # "idle" => login[l].u \in UserIds \ {u}
    BY <1>0, <2>1, LoginShapes DEF PasswordInv, NoSecret, Login
  <2>5. \A w \in UserIds : ~Exists(w)' => secret'[w] = NoSecret
    BY <2>1, <2>2, <2>3 DEF PasswordInv, Exists
  <2>6. \A l \in Logins :
          /\ login[l].pc # "idle" =>
               /\ secret'[login[l].u].format # "none"
               /\ login[l].pw = latest'[login[l].u] \/ login[l].u \in crossed
          /\ login[l].pc = "clear" => secret'[login[l].u].format = "argon2"
    BY <2>2, <2>4 DEF PasswordInv
  <2>7. ClearedMeansRehashed'
    BY <2>1, <2>2, <2>3 DEF PasswordInv, ClearedMeansRehashed
  <2>8. LatestPasswordStands'
    BY <2>2 DEF PasswordInv, LatestPasswordStands
  <2> QED
    BY <2>3, <2>5, <2>6, <2>7, <2>8 DEF PasswordInv
<1> QED
  BY <1>1, <1>2 DEF ImportPassword

(* A new password: from sign-up, whose user is not being rehashed, or from *)
(* a change, which counts as crossed when the user is.                     *)
LEMMA SetPasswordKeeps ==
  ASSUME TypeOK, EntryInv, PasswordInv, NEW u \in UserIds, NEW pw \in Passwords,
         SetPassword(u, pw), UNCHANGED <<import, login>>,
         Exists(u)', \A w \in UserIds : ~Exists(w)' => ~Exists(w),
         import.pc = "account" => import.u # u,
         crossed \subseteq crossed',
         (\E l \in Logins : login[l].u = u) => u \in crossed'
  PROVE  PasswordInv'
<1> USE LoginAssumption, IntakeAssumption
<1>0. LoginTypes
  BY DEF TypeOK, LoginTypes
<1>1. /\ secret'[u] = [pw |-> pw, format |-> "argon2"] /\ latest'[u] = pw
      /\ \A w \in UserIds : w # u => secret'[w] = secret[w] /\ latest'[w] = latest[w]
      /\ algo' = algo
  BY <1>0 DEF SetPassword, LoginTypes
<1>2. \A l \in Logins : login[l].pc # "idle" => login[l].u \in UserIds
  BY <1>0, LoginShapes DEF Login
<1>3. \A w \in UserIds : ~Exists(w)' => secret'[w] = NoSecret
  BY <1>1 DEF PasswordInv
<1>4. import.pc = "account" => import.u \in algo /\ secret'[import.u] = NoSecret
  BY <1>1 DEF PasswordInv, EntryInv, ImportInv
<1>5. \A l \in Logins :
        /\ login[l].pc # "idle" =>
             /\ secret'[login[l].u].format # "none"
             /\ login[l].pw = latest'[login[l].u] \/ login[l].u \in crossed'
        /\ login[l].pc = "clear" => secret'[login[l].u].format = "argon2"
  BY <1>1, <1>2 DEF PasswordInv
<1>6. ClearedMeansRehashed' /\ LatestPasswordStands'
  BY <1>1 DEF PasswordInv, ClearedMeansRehashed, LatestPasswordStands
<1> QED
  BY <1>1, <1>3, <1>4, <1>5, <1>6 DEF PasswordInv

LEMMA LoginKeeps ==
  ASSUME TypeOK, EntryInv, PasswordInv, NEW l \in Logins, LoginStep(l)
  PROVE  PasswordInv'
<1> USE LoginAssumption, IntakeAssumption DEF LoginTo, EndLogin
<1>0. LoginTypes /\ (login[l].pc # "idle" => login[l] \in Login)
  BY LoginShapes DEF TypeOK, LoginTypes
<1>1. UNCHANGED <<email, import, latest, crossed>>
  BY DEF LoginStep, SignIn, FindImported, Rehash, ClearAlgo, LoginFails, intakeVars, userRows
<1>2. \A m \in Logins : m # l => login'[m] = login[m]
  BY <1>0 DEF LoginStep, SignIn, FindImported, Rehash, ClearAlgo, LoginFails, LoginTypes
<1>3. ASSUME NEW u \in UserIds, NEW pw \in Passwords, SignIn(l, u, pw) PROVE PasswordInv'
  <2>1. login'[l] = [pc |-> "signedIn", u |-> u, pw |-> pw] /\ UNCHANGED <<secret, algo>>
    BY <1>0, <1>3 DEF SignIn, LoginTypes
  <2>2. secret[u].pw = pw /\ secret[u].format # "none"
    BY <1>0, <1>3 DEF SignIn, Verifies, LoginTypes, Secret, NoSecret
  <2>3. pw = latest[u] \/ u \in crossed
    BY <2>2 DEF PasswordInv, LatestPasswordStands
  <2> QED
    BY <1>1, <1>2, <2>1, <2>2, <2>3
    DEF PasswordInv, ClearedMeansRehashed, LatestPasswordStands, Exists
<1>4. CASE FindImported(l)
  <2>1. \/ login'[l] = NoLogin
        \/ /\ login[l].pc # "idle" /\ login'[l].pc = "rehash"
           /\ login'[l].u = login[l].u /\ login'[l].pw = login[l].pw
    BY <1>0, <1>4 DEF FindImported, LoginTypes, Login
  <2>2. UNCHANGED <<secret, algo>>
    BY <1>4 DEF FindImported
  <2> QED
    BY <1>1, <1>2, <2>1, <2>2
    DEF PasswordInv, ClearedMeansRehashed, LatestPasswordStands, Exists, NoLogin
<1>5. CASE Rehash(l)
  <2>1. PICK u \in UserIds, pw \in Passwords : u = login[l].u /\ pw = login[l].pw
    BY <1>0, <1>5 DEF Rehash, Login
  <2>2. /\ login'[l].pc = "clear" /\ login'[l].u = u /\ login'[l].pw = pw
        /\ UNCHANGED algo
    BY <1>0, <1>5, <2>1 DEF Rehash, LoginTypes, Login
  <2>3. /\ secret'[u] = [pw |-> pw, format |-> "argon2"]
        /\ \A w \in UserIds : w # u => secret'[w] = secret[w]
    BY <1>0, <1>5, <2>1 DEF Rehash, LoginTypes
  <2>4. /\ secret[u].format # "none"
        /\ pw = latest[u] \/ u \in crossed
        /\ secret[u] # NoSecret
    BY <1>5, <2>1 DEF Rehash, PasswordInv, NoSecret
  <2>5. \A w \in UserIds : ~Exists(w) => secret'[w] = NoSecret
    BY <2>3, <2>4 DEF PasswordInv
  <2>6. import.pc = "account" => import.u \in algo /\ secret'[import.u] = NoSecret
    BY <2>3, <2>4 DEF PasswordInv, EntryInv, ImportInv
  <2>7. \A m \in Logins : login[m].pc # "idle" => login[m].u \in UserIds
    BY <1>0, LoginShapes DEF Login
  <2>8. \A m \in Logins :
          /\ login'[m].pc # "idle" =>
               /\ secret'[login'[m].u].format # "none"
               /\ login'[m].pw = latest[login'[m].u] \/ login'[m].u \in crossed
          /\ login'[m].pc = "clear" => secret'[login'[m].u].format = "argon2"
    BY <1>2, <2>2, <2>3, <2>4, <2>7 DEF PasswordInv, LatestPasswordStands
  <2>9. ClearedMeansRehashed' /\ LatestPasswordStands'
    BY <1>1, <2>1, <2>2, <2>3, <1>5 DEF Rehash, PasswordInv, ClearedMeansRehashed, LatestPasswordStands
  <2> QED
    BY <1>1, <2>2, <2>5, <2>6, <2>8, <2>9 DEF PasswordInv, Exists
<1>6. CASE ClearAlgo(l)
  <2>1. PICK u \in UserIds : u = login[l].u /\ secret[u].format = "argon2"
    BY <1>0, <1>6 DEF ClearAlgo, PasswordInv, Login
  <2>2. login'[l] = NoLogin /\ UNCHANGED secret /\ algo' = algo \ {u}
    BY <1>0, <1>6, <2>1 DEF ClearAlgo, LoginTypes
  <2>3. import.pc = "account" => import.u # u
    BY <2>1 DEF PasswordInv, NoSecret
  <2>4. ClearedMeansRehashed'
    BY <2>1, <2>2 DEF PasswordInv, ClearedMeansRehashed
  <2> QED
    BY <1>1, <1>2, <2>2, <2>3, <2>4 DEF PasswordInv, LatestPasswordStands, Exists, NoLogin
<1>7. CASE LoginFails(l)
  <2>1. login'[l] = NoLogin /\ UNCHANGED <<secret, algo>>
    BY <1>0, <1>7 DEF LoginFails, LoginTypes
  <2> QED
    BY <1>1, <1>2, <2>1
    DEF PasswordInv, ClearedMeansRehashed, LatestPasswordStands, Exists, NoLogin
<1> QED
  BY <1>3, <1>4, <1>5, <1>6, <1>7 DEF LoginStep

LEMMA PasswordStep == TypeOK /\ EntryInv /\ PasswordInv /\ [Next]_vars => PasswordInv'
<1> SUFFICES ASSUME TypeOK, EntryInv, PasswordInv, [Next]_vars PROVE PasswordInv'
  OBVIOUS
<1> USE IntakeAssumption DEF loginVars
<1>0. IntakeTypeOK /\ LoginTypes
  BY DEF TypeOK, LoginTypes
<1>1. ASSUME UNCHANGED loginVars, \A u \in UserIds : ~Exists(u)' => ~Exists(u),
             import'.pc = "account" => import' = import
      PROVE  PasswordInv'
  BY <1>1 DEF PasswordInv, ClearedMeansRehashed, LatestPasswordStands
<1>2. CASE UNCHANGED vars
  BY <1>1, <1>2 DEF vars, intakeVars, userRows, Exists
<1>3. CASE IntakeStep /\ UNCHANGED loginVars
  BY <1>0, <1>1, <1>3, IntakeEffect
<1>4. CASE ImportPassword /\ UNCHANGED <<login, crossed>>
  BY <1>4, ImportPasswordKeeps
<1>5. ASSUME NEW u \in UserIds, NEW e \in Emails, NEW pw \in Passwords, SignUpWith(u, e, pw)
      PROVE  PasswordInv'
  <2>1. /\ ~Exists(u) /\ email' = [email EXCEPT ![u] = e]
        /\ SetPassword(u, pw) /\ UNCHANGED <<import, login, crossed>>
    BY <1>5 DEF SignUpWith, SignUp, NewUser
  <2>2. Exists(u)' /\ \A w \in UserIds : ~Exists(w)' => ~Exists(w)
    BY <1>0, <2>1 DEF Exists, IntakeTypeOK, Handles
  <2>3. import.pc = "account" => import.u # u
    BY <2>1 DEF EntryInv, ImportInv
  <2>4. \A l \in Logins : login[l].u # u
    <3>1. secret[u] = NoSecret
      BY <2>1 DEF PasswordInv
    <3> QED
      BY <1>0, <3>1, LoginShapes DEF PasswordInv, NoSecret, NoLogin
  <2> QED
    BY <2>1, <2>2, <2>3, <2>4, SetPasswordKeeps
<1>6. ASSUME NEW u \in UserIds, NEW pw \in Passwords, ChangePassword(u, pw)
      PROVE  PasswordInv'
  <2>1. /\ secret[u].format # "none" /\ SetPassword(u, pw)
        /\ UNCHANGED <<email, import, login>>
        /\ crossed' = IF \E l \in Logins : login[l].u = u THEN crossed \cup {u} ELSE crossed
    BY <1>6 DEF ChangePassword, intakeVars, userRows
  <2>2. Exists(u) /\ (import.pc = "account" => import.u # u)
    BY <2>1 DEF PasswordInv, NoSecret
  <2>3. Exists(u)' /\ \A w \in UserIds : ~Exists(w)' => ~Exists(w)
    BY <2>1, <2>2 DEF Exists
  <2> QED
    BY <2>1, <2>2, <2>3, SetPasswordKeeps
<1>7. ASSUME NEW l \in Logins, LoginStep(l) PROVE PasswordInv'
  BY <1>7, LoginKeeps
<1> QED
  BY <1>2, <1>3, <1>4, <1>5, <1>6, <1>7 DEF Next

-----------------------------------------------------------------------------
LEMMA SpecInv == Spec => []IInv
<1>1. IInv /\ [Next]_vars => IInv'
  BY TypeStep, EntryStep, PasswordStep DEF IInv
<1> QED
  BY InitInv, <1>1, PTL DEF Spec

(* The state of Intake and LegacyLogin keeps its types.                    *)
THEOREM IntakeTypesHold == Spec => []TypeOK
<1>1. IInv => TypeOK
  BY DEF IInv
<1> QED
  BY SpecInv, <1>1, PTL

(* provisionFromSalesforce: whatever a callout sent to Salesforce as the   *)
(* user of a contact stays so, however many callouts overlap.              *)
THEOREM LinksHold == Spec => []LinksAreKept
<1>1. IInv => LinksAreKept
  BY DEF IInv, EntryInv
<1> QED
  BY SpecInv, <1>1, PTL

(* importLegacyUsers: a run that comes to its end leaves no active legacy  *)
(* account without a user, whoever else enters meanwhile.                  *)
THEOREM ImportLeavesNobodyOut == Spec => []ImportCovers
<1>1. IInv => ImportCovers
  BY DEF IInv, EntryInv
<1> QED
  BY SpecInv, <1>1, PTL

(* A user nobody can reach by a handle has one of four causes.             *)
THEOREM HandlelessHaveACause == Spec => []HandlelessAreExplained
<1>1. IInv => HandlelessAreExplained
  BY DEF IInv, EntryInv
<1> QED
  BY SpecInv, <1>1, PTL

(* rehashLegacyPassword: the flag outlives the legacy hash.                *)
THEOREM FlagOutlivesHash == Spec => []ClearedMeansRehashed
<1>1. IInv => ClearedMeansRehashed
  BY DEF IInv, PasswordInv
<1> QED
  BY SpecInv, <1>1, PTL

(* rehashLegacyPassword brings back an old password only when it overlaps  *)
(* a change of the password.                                               *)
THEOREM LatestStands == Spec => []LatestPasswordStands
<1>1. IInv => LatestPasswordStands
  BY DEF IInv, PasswordInv
<1> QED
  BY SpecInv, <1>1, PTL
=============================================================================
