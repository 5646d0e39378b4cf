----------------------------- MODULE IdentityMerge -----------------------------
(***************************************************************************)
(* The alias-identity model and the reversible merge procedure.            *)
(*                                                                         *)
(* State: the "user" rows, the user_identity rows (every email and phone   *)
(* that points at a user), the user_product_access rows reduced to their   *)
(* status, the append-only identity_merge_log, and Better Auth's           *)
(* credentials (sessions, OAuth access and refresh tokens).  Processes:    *)
(* mergeUsers calls (src/identity/merge.ts) and one-time-code sign-ins     *)
(* (src/auth/alias-otp.ts), which share nothing but those tables.          *)
(*                                                                         *)
(* mergeUsers is not one step: it reads the loser's status, runs its       *)
(* transaction, then makes four calls into Better Auth's own pool, and it  *)
(* can fail at each.  The transaction runs at READ COMMITTED, statement by *)
(* statement: each UPDATE takes a snapshot of the committed rows and of    *)
(* its own transaction's, waits for the rows another transaction has       *)
(* written, and acts on those that still match.  The survivor's rows are   *)
(* never locked.  The other transactions are one step each.                *)
(***************************************************************************)
EXTENDS Naturals, Sequences

CONSTANTS
  Users,     (* ids a "user" row may have                                  *)
  Emails,    (* normalised email handles                                   *)
  Phones,    (* normalised phone handles                                   *)
  Grants,    (* (product_id, role) pairs of user_product_access            *)
  Mergers,   (* concurrent callers of mergeUsers                           *)
  Clients,   (* concurrent sign-ins by one-time code                       *)
  NULL       (* no row, no user                                            *)

ASSUME MergeAssumption ==
  /\ NULL \notin Users
  /\ Emails \cap Phones = {}

Handles == Emails \cup Phones

HandleType(h) == IF h \in Emails THEN "email" ELSE "phone"

VARIABLES
  status,      (* "user".status; "absent" while there is no row            *)
  mergedInto,  (* "user".merged_into_user_id                               *)
  owner,       (* user_identity.user_id; NULL while the handle has no row  *)
  verified,    (* handles whose row has is_verified                        *)
  primary,     (* handles whose row has is_primary                         *)
  verifiedAt,  (* user_identity.verified_at, as the order of verification  *)
  clock,       (* the next verified_at                                     *)
  creating,    (* users whose createVerifiedIdentity is still to come      *)
  late,        (* history: handles that reached a user after the snapshot  *)
               (* a merge of that user takes of the rows to move           *)
  access,      (* status of each user_product_access row, "none": no row   *)
  mergeLog,    (* identity_merge_log, oldest row first                     *)
  creds,       (* live credentials; stale: issued before a merge of user   *)
  exposed,     (* history: users a merge may leave signed in: revocation   *)
               (* cut short, a sign-in in flight, a password still known   *)
  job,         (* the mergeUsers call of each merger                       *)
  txn,         (* what the transaction of each call has read and written   *)
  login        (* the user a sign-in has resolved to, NULL: none running   *)

identityVars == <<owner, verified, primary, verifiedAt, clock, creating, late>>
userVars     == <<status, mergedInto, mergeLog>>
mergeVars    == <<job, txn>>
vars == <<identityVars, userVars, access, creds, exposed, mergeVars, login>>

UserStatus   == {"absent", "active", "invited", "merged"}
AccessStatus == {"none", "active", "revoked"}
CredKind     == {"session", "access", "refresh"}
Credential   == [user : Users, kind : CredKind, stale : BOOLEAN]
LogRow       == [survivor : Users, merged : Users]

(* The statements of the transaction, in order: steps 2a and 2b, step 2c   *)
(* for each type, step 3; after them the log row, the "user" row, COMMIT.  *)
Statement == {"clear", "move", "email", "phone", "access"}
Following == [clear |-> "move", move |-> "email", email |-> "phone",
              phone |-> "access", access |-> "commit"]

(* A mergeUsers call: it has read the loser's status and is at a statement *)
(* of its transaction, or has committed and is at one of its four          *)
(* revocation calls.                                                       *)
IdleJob == [pc |-> "idle", survivor |-> NULL, loser |-> NULL, next |-> 1]
RunningJob == [pc : Statement \cup {"commit", "revoking"}, survivor : Users,
               loser : Users, next : 1..4]
Job == {IdleJob} \cup RunningJob

(* Its transaction: whether the statement at hand has taken its snapshot,  *)
(* the identity rows (seen) or access rows (active) it found there, and    *)
(* the uncommitted writes.                                                 *)
NoTxn == [looked |-> FALSE, seen |-> {}, cleared |-> {}, moved |-> {},
          promoted |-> {}, active |-> {}, taken |-> {}]
Txn == [looked : BOOLEAN, seen : SUBSET Handles, cleared : SUBSET Handles,
        moved : SUBSET Handles, promoted : SUBSET Handles,
        active : SUBSET Grants, taken : SUBSET Grants]

(* One type invariant for every table and process of the module.           *)
TypeOK ==
  /\ status \in [Users -> UserStatus]
  /\ mergedInto \in [Users -> Users \cup {NULL}]
  /\ owner \in [Handles -> Users \cup {NULL}]
  /\ verified \in SUBSET Handles
  /\ primary \in SUBSET Handles
  /\ verifiedAt \in [Handles -> Nat]
  /\ clock \in Nat
  /\ creating \in SUBSET Users
  /\ late \in SUBSET Handles
  /\ access \in [Users -> [Grants -> AccessStatus]]
  /\ mergeLog \in Seq(LogRow)
  /\ creds \in SUBSET Credential
  /\ exposed \in SUBSET Users
  /\ job \in [Mergers -> Job]
  /\ txn \in [Mergers -> Txn]
  /\ login \in [Clients -> Users \cup {NULL}]

Exists(u)  == status[u] # "absent"
Owned(u)   == {h \in Handles : owner[h] = u}
OfType(ty) == {h \in Handles : HandleType(h) = ty}

Init ==
  /\ status = [u \in Users |-> "absent"]
  /\ mergedInto = [u \in Users |-> NULL]
  /\ owner = [h \in Handles |-> NULL]
  /\ verified = {}
  /\ primary = {}
  /\ verifiedAt = [h \in Handles |-> 0]
  /\ clock = 0
  /\ creating = {}
  /\ late = {}
  /\ access = [u \in Users |-> [g \in Grants |-> "none"]]
  /\ mergeLog = <<>>
  /\ creds = {}
  /\ exposed = {}
  /\ job = [m \in Mergers |-> IdleJob]
  /\ txn = [m \in Mergers |-> NoTxn]
  /\ login = [c \in Clients |-> NULL]

-----------------------------------------------------------------------------
(* What an open merge transaction sees, and what it keeps others from.     *)

(* The identity rows as merger m's transaction sees them: the committed    *)
(* ones with its own writes over them.                                     *)
OwnerIn(m, h) == IF h \in txn[m].moved THEN job[m].survivor ELSE owner[h]
PrimaryIn(m)  == (primary \ txn[m].cleared) \cup txn[m].promoted

(* Row locks: what a transaction has updated, nobody else can before it    *)
(* ends.                                                                   *)
Held(m) == txn[m].cleared \cup txn[m].moved \cup txn[m].promoted
Unlocked(m, hs) == \A o \in Mergers \ {m} : hs \cap Held(o) = {}

(* uq_primary_per_type: a row h may become a primary one of user u unless  *)
(* another row is, committed (and not among those the writer itself has    *)
(* updated) or in a transaction still open.  A writer waits for the open   *)
(* transaction, and fails at the committed row.                            *)
KeyFree(mine, h, u) ==
  \A k \in OfType(HandleType(h)) \ {h} :
    /\ ~(k \in primary \ mine /\ owner[k] = u)
    /\ \A o \in Mergers : ~(k \in PrimaryIn(o) \cap Held(o) /\ OwnerIn(o, k) = u)

(* The access rows a transaction has moved, under their old and new keys:  *)
(* uq_access_user_product_role makes a writer of either wait.              *)
AccessLocked(u, g) ==
  \E m \in Mergers : /\ job[m].pc = "commit"
                      /\ u \in {job[m].survivor, job[m].loser}
                      /\ g \in txn[m].taken

(* Merger m's transaction has taken the snapshot for step 2b.              *)
LookedToMove(m) ==
  \/ job[m].pc \in {"email", "phone", "access", "commit"}
  \/ job[m].pc = "move" /\ txn[m].looked

(* A merge of u is under way that will not see a new row of u.             *)
MovedOn(u) == \E m \in Mergers : job[m].loser = u /\ LookedToMove(m)

-----------------------------------------------------------------------------
(* Rows arriving from the other parts of the system.                       *)

(* Better Auth's createUser, as called by the legacy import and the vendor *)
(* JIT path (status "active"), which go on to createVerifiedIdentity, and  *)
(* by Salesforce provisioning ("invited").                                 *)
CreateUser(u, st) ==
  /\ ~Exists(u)
  /\ status' = [status EXCEPT ![u] = st]
  /\ creating' = IF st = "active" THEN creating \cup {u} ELSE creating
  /\ UNCHANGED <<mergedInto, mergeLog, owner, verified, primary, verifiedAt,
                 clock, late, access, creds, exposed, mergeVars, login>>

(* Mutant of Free: ON CONFLICT DO UPDATE, which takes the handle over.     *)
FreeMutant(h) == TRUE

(* ON CONFLICT (type, value) DO NOTHING: a handle that has a row keeps it. *)
Free(h) == owner[h] = NULL

(* createVerifiedIdentity: called once for a user created before, always   *)
(* with an email, always is_primary.  It asks for no status: the user may  *)
(* have been merged, or be in the middle of a merge, by then.              *)
AttachVerified(u, e) ==
  /\ u \in creating
  /\ Free(e)
  /\ KeyFree({}, e, u)
  /\ owner' = [owner EXCEPT ![e] = u]
  /\ verified' = verified \cup {e}
  /\ primary' = primary \cup {e}
  /\ verifiedAt' = [verifiedAt EXCEPT ![e] = clock]
  /\ clock' = clock + 1
  /\ creating' = creating \ {u}
  /\ late' = IF status[u] = "merged" \/ MovedOn(u)
             THEN late \cup {e} ELSE late
  /\ UNCHANGED <<userVars, access, creds, exposed, mergeVars, login>>

(* The transaction of provisionFromSalesforce: unverified rows for the     *)
(* contact's handles that have none yet, a NORMAL grant per product.  The  *)
(* user was resolved by contact id or handle, whatever its status is.      *)
Provision(u, hs, gs) ==
  /\ Exists(u)
  /\ \A g \in gs : ~AccessLocked(u, g)
  /\ owner' = [h \in Handles |->
                 IF h \in hs /\ Free(h) THEN u ELSE owner[h]]
  /\ access' = [access EXCEPT ![u] =
                 [g \in Grants |-> IF g \in gs THEN "active" ELSE @[g]]]
  /\ UNCHANGED <<verified, primary, verifiedAt, clock, creating, late,
                 userVars, creds, exposed, mergeVars, login>>

(* grantAccess: insert, or reactivate in place.                            *)
GrantAccess(u, g) ==
  /\ Exists(u)
  /\ ~AccessLocked(u, g)
  /\ access' = [access EXCEPT ![u][g] = "active"]
  /\ UNCHANGED <<identityVars, userVars, creds, exposed, mergeVars, login>>

(* revokeAccess: a status flip of an active row, never a DELETE.           *)
RevokeAccess(u, g) ==
  /\ access[u][g] = "active"
  /\ ~AccessLocked(u, g)
  /\ access' = [access EXCEPT ![u][g] = "revoked"]
  /\ UNCHANGED <<identityVars, userVars, creds, exposed, mergeVars, login>>

-----------------------------------------------------------------------------
(* Sign-in by one-time code, and what the OAuth provider issues.           *)

(* verifyOtpSignin resolves the typed handle, verified rows only, before   *)
(* it checks the code; the session is opened later, by the caller.         *)
ResolveLogin(c, h) ==
  /\ login[c] = NULL
  /\ h \in verified
  /\ login' = [login EXCEPT ![c] = owner[h]]
  /\ UNCHANGED <<identityVars, userVars, access, creds, exposed, mergeVars>>

(* The sign-in ends in createSession for the resolved id: findUserById     *)
(* only asks that the row exists, and a merge never deletes it.            *)
OpenSession(c) ==
  /\ login[c] # NULL
  /\ login' = [login EXCEPT ![c] = NULL]
  /\ creds' = creds \cup {[user |-> login[c], kind |-> "session",
                           stale |-> FALSE]}
  /\ UNCHANGED <<identityVars, userVars, access, exposed, mergeVars>>

(* A wrong or expired code: no session.                                    *)
RejectLogin(c) ==
  /\ login[c] # NULL
  /\ login' = [login EXCEPT ![c] = NULL]
  /\ UNCHANGED <<identityVars, userVars, access, creds, exposed, mergeVars>>

(* Better Auth's own sign-in by password finds the "user" row by its email *)
(* column and opens a session for it, whatever its status is.              *)
PasswordSignIn(c, u) ==
  /\ login[c] = NULL
  /\ Exists(u)
  /\ creds' = creds \cup {[user |-> u, kind |-> "session", stale |-> FALSE]}
  /\ exposed' = IF status[u] = "merged" THEN exposed \cup {u} ELSE exposed
  /\ UNCHANGED <<identityVars, userVars, access, mergeVars, login>>

(* The OAuth provider turns a live session into an access and a refresh    *)
(* token row of the session's user.                                        *)
IssueTokens(s) ==
  /\ s.kind = "session"
  /\ creds' = creds \cup {[s EXCEPT !.kind = "access"],
                          [s EXCEPT !.kind = "refresh"]}
  /\ UNCHANGED <<identityVars, userVars, access, exposed, mergeVars, login>>

(* A refresh token outlives the access tokens it is exchanged for.         *)
RefreshTokens(r) ==
  /\ r.kind = "refresh"
  /\ creds' = creds \cup {[r EXCEPT !.kind = "access"]}
  /\ UNCHANGED <<identityVars, userVars, access, exposed, mergeVars, login>>

(* Any credential can end on its own: sign-out, expiry.                    *)
EndCredential(k) ==
  /\ creds' = creds \ {k}
  /\ UNCHANGED <<identityVars, userVars, access, exposed, mergeVars, login>>

-----------------------------------------------------------------------------
(* mergeUsers.                                                             *)

(* Mutant of NotYetMerged: no idempotence check.                           *)
NotYetMergedMutant(l) == TRUE

NotYetMerged(l) == status[l] # "merged"

(* The idempotence check, read outside the transaction.  A loser already   *)
(* merged ends the call at once; the survivor's status is not looked at.   *)
StartMerge(m, s, l) ==
  /\ job[m].pc = "idle"
  /\ s # l
  /\ NotYetMerged(l)
  /\ job' = [job EXCEPT ![m] =
               [pc |-> "clear", survivor |-> s, loser |-> l, next |-> 1]]
  /\ UNCHANGED <<identityVars, userVars, access, creds, exposed, txn, login>>

(* Mutant of Promoted: the handles just moved are not looked at.           *)
PromotedMutant(m, ty) ==
  LET own == {h \in OfType(ty) : owner[h] = job[m].survivor}
  IN  {h \in own \cap verified :
         /\ own \cap PrimaryIn(m) = {}
         /\ \A k \in own \cap verified : verifiedAt[h] <= verifiedAt[k]}

(* Step 2c: the survivor's earliest verified handle of a type, when it has *)
(* no primary of that type.                                                *)
Promoted(m, ty) ==
  LET own == {h \in OfType(ty) : OwnerIn(m, h) = job[m].survivor}
  IN  {h \in own \cap verified :
         /\ own \cap PrimaryIn(m) = {}
         /\ \A k \in own \cap verified : verifiedAt[h] <= verifiedAt[k]}

(* The identity rows the WHERE clause of step 2a, 2b or 2c finds.          *)
Selected(m) ==
  CASE job[m].pc \in {"clear", "move"}  -> Owned(job[m].loser)
    [] job[m].pc \in {"email", "phone"} -> Promoted(m, job[m].pc)
    [] OTHER -> {}

(* Step 3: the loser's active rows, and its NOT EXISTS: one moves unless   *)
(* the survivor has a row for the same product and role, active or revoked.*)
Active(m) == {g \in Grants : access[job[m].loser][g] = "active"}
Moves(m)  == {g \in Active(m) : access[job[m].survivor][g] = "none"}

(* A statement starts: its snapshot.                                       *)
TakeSnapshot(m) ==
  /\ job[m].pc \in Statement
  /\ ~txn[m].looked
  /\ txn' = [txn EXCEPT ![m] =
               [@ EXCEPT !.looked = TRUE,
                         !.seen   = Selected(m),
                         !.active = IF job[m].pc = "access" THEN Active(m) ELSE {},
                         !.taken  = IF job[m].pc = "access" THEN Moves(m) ELSE {}]]
  /\ UNCHANGED <<identityVars, userVars, access, creds, exposed, job, login>>

(* The statement of m named by pc has found its rows.                      *)
Executing(m, pc) == job[m].pc = pc /\ txn[m].looked

(* It ends, with these writes of its transaction.                          *)
Execute(m, writes) ==
  /\ txn' = [txn EXCEPT ![m] = [writes EXCEPT !.looked = FALSE]]
  /\ job' = [job EXCEPT ![m].pc = Following[@]]
  /\ UNCHANGED <<identityVars, userVars, access, creds, exposed, login>>

(* Mutant of StillOwned: only the rows that are primary.                   *)
StillOwnedMutant(m) ==
  {h \in txn[m].seen : h \in primary /\ owner[h] = job[m].loser}

(* The WHERE clause of steps 2a and 2b, evaluated again once a row is      *)
(* locked.                                                                 *)
StillOwned(m) == {h \in txn[m].seen : owner[h] = job[m].loser}

(* Step 2a: the loser's primary flags go.                                  *)
ClearPrimaries(m) ==
  /\ Executing(m, "clear")
  /\ Unlocked(m, txn[m].seen)
  /\ Execute(m, [txn[m] EXCEPT !.cleared = StillOwned(m)])

(* Step 2b: the loser's handles move.  One attached since step 2a may      *)
(* still be primary.                                                       *)
MoveHandles(m) ==
  /\ Executing(m, "move")
  /\ Unlocked(m, txn[m].seen)
  /\ \A h \in StillOwned(m) \cap PrimaryIn(m) : KeyFree(Held(m), h, job[m].survivor)
  /\ Execute(m, [txn[m] EXCEPT !.moved = StillOwned(m)])

(* Step 2c.  The subqueries belong to the snapshot: the row found there is *)
(* updated by its id, whoever owns it by now.                              *)
PromotePrimary(m, ty) ==
  /\ Executing(m, ty)
  /\ Unlocked(m, txn[m].seen)
  /\ \A h \in txn[m].seen : KeyFree(Held(m), h, OwnerIn(m, h))
  /\ Execute(m, [txn[m] EXCEPT !.promoted = @ \cup txn[m].seen])

(* Step 3: the rows still active move, to keys nobody has taken since.     *)
UniteAccess(m) ==
  LET s == job[m].survivor
      l == job[m].loser
      still == txn[m].active \cap Active(m)
      rows  == txn[m].taken \cap Active(m)
  IN  /\ Executing(m, "access")
      /\ \A g \in rows : /\ access[s][g] = "none"
                          /\ ~AccessLocked(s, g) /\ ~AccessLocked(l, g)
      /\ Execute(m, [txn[m] EXCEPT !.active = still, !.taken = rows])

TxnStep(m) ==
  \/ TakeSnapshot(m)
  \/ ClearPrimaries(m)
  \/ MoveHandles(m)
  \/ \E ty \in {"email", "phone"} : PromotePrimary(m, ty)
  \/ UniteAccess(m)

(* Mutant of AccessAfterMerge: the loser's active rows are upserted.       *)
AccessAfterMergeMutant(m) ==
  LET s == job[m].survivor
      l == job[m].loser
  IN  [access EXCEPT
         ![s] = [g \in Grants |-> IF g \in txn[m].active THEN "active" ELSE access[s][g]],
         ![l] = [g \in Grants |-> IF g \in txn[m].taken THEN "none" ELSE access[l][g]]]

AccessAfterMerge(m) ==
  LET s == job[m].survivor
      l == job[m].loser
  IN  [access EXCEPT
         ![s] = [g \in Grants |-> IF g \in txn[m].taken THEN "active" ELSE access[s][g]],
         ![l] = [g \in Grants |-> IF g \in txn[m].taken THEN "none" ELSE access[l][g]]]

(* Mutant of PointerAfterMerge: a pointer already set is kept.             *)
PointerAfterMergeMutant(s, l) ==
  IF mergedInto[l] = NULL THEN [mergedInto EXCEPT ![l] = s] ELSE mergedInto

PointerAfterMerge(s, l) == [mergedInto EXCEPT ![l] = s]

(* Steps 4 and 5, which nothing can overtake before COMMIT, and COMMIT.    *)
(* The log's foreign keys need both users.  The history (late handles,     *)
(* stale credentials, sign-ins in flight) is taken here.                   *)
CommitMerge(m) ==
  LET s == job[m].survivor
      l == job[m].loser
  IN  /\ job[m].pc = "commit"
      /\ Exists(s) /\ Exists(l)
      /\ owner' = [h \in Handles |-> OwnerIn(m, h)]
      /\ primary' = PrimaryIn(m)
      /\ late' = IF MovedOn(s) THEN late \cup txn[m].moved
                 ELSE late \ txn[m].moved
      /\ access' = AccessAfterMerge(m)
      /\ mergeLog' = Append(mergeLog, [survivor |-> s, merged |-> l])
      /\ status' = [status EXCEPT ![l] = "merged"]
      /\ mergedInto' = PointerAfterMerge(s, l)
      /\ creds' = {IF c.user \in {s, l} THEN [c EXCEPT !.stale = TRUE] ELSE c : c \in creds}
      /\ exposed' = exposed \cup ({login[c] : c \in Clients} \cap {s, l})
      /\ job' = [job EXCEPT ![m].pc = "revoking"]
      /\ txn' = [txn EXCEPT ![m] = NoTxn]
      /\ UNCHANGED <<verified, verifiedAt, clock, creating, login>>

(* A statement fails (a unique index, a deadlock, the connection) and the  *)
(* transaction rolls back: DatabaseError to the caller.                    *)
AbortMerge(m) ==
  /\ job[m].pc \in Statement \cup {"commit"}
  /\ job' = [job EXCEPT ![m] = IdleJob]
  /\ txn' = [txn EXCEPT ![m] = NoTxn]
  /\ UNCHANGED <<identityVars, userVars, access, creds, exposed, login>>

(* Mutant of RevokeUser: only the loser is signed out.                     *)
RevokeUserMutant(j, i) == j.loser

(* Step 7, the i-th awaited call: the sessions of the survivor and of the  *)
(* loser, then the access tokens of each.  revokeOAuthTokensForUser        *)
(* deletes oauthAccessToken rows only.                                     *)
RevokeUser(j, i) == IF i \in {1, 3} THEN j.survivor ELSE j.loser
RevokeKind(i)    == IF i <= 2 THEN "session" ELSE "access"

(* Mutant of AfterRevocation: one call too many.                           *)
AfterRevocationMutant(j) ==
  IF j.next = 5 THEN IdleJob ELSE [j EXCEPT !.next = @ + 1]

AfterRevocation(j) == IF j.next = 4 THEN IdleJob ELSE [j EXCEPT !.next = @ + 1]

Revoke(m) ==
  LET i == job[m].next
  IN  /\ job[m].pc = "revoking"
      /\ creds' = {c \in creds : ~(/\ c.user = RevokeUser(job[m], i)
                                   /\ c.kind = RevokeKind(i))}
      /\ job' = [job EXCEPT ![m] = AfterRevocation(@)]
      /\ UNCHANGED <<identityVars, userVars, access, exposed, txn, login>>

(* The users a merger has still to revoke credentials of a kind for.       *)
ToRevoke(m, kind) ==
  {RevokeUser(job[m], i) :
     i \in {k \in 1..4 : /\ job[m].pc = "revoking"
                         /\ k >= job[m].next /\ RevokeKind(k) = kind}}

(* A revocation call throws, or the process stops: the merge is committed, *)
(* the rest of step 7 never runs, and a retry returns at the check above.  *)
InterruptRevocation(m) ==
  /\ job[m].pc = "revoking"
  /\ exposed' = exposed \cup
       {k.user : k \in {c \in creds : c.stale /\ c.user \in ToRevoke(m, c.kind)}}
  /\ job' = [job EXCEPT ![m] = IdleJob]
  /\ UNCHANGED <<identityVars, userVars, access, creds, txn, login>>

-----------------------------------------------------------------------------
MergeStep(m) ==
  \/ \E s, l \in Users : StartMerge(m, s, l)
  \/ TxnStep(m)
  \/ CommitMerge(m)
  \/ AbortMerge(m)
  \/ Revoke(m)
  \/ InterruptRevocation(m)

LoginStep(c) ==
  \/ \E h \in Handles : ResolveLogin(c, h)
  \/ OpenSession(c)
  \/ RejectLogin(c)
  \/ \E u \in Users : PasswordSignIn(c, u)

(* What a Salesforce contact brings: one email, perhaps one phone.         *)
ContactHandles == {{e} : e \in Emails} \cup {{e, p} : e \in Emails, p \in Phones}

RowStep(u) ==
  \/ \E st \in {"active", "invited"} : CreateUser(u, st)
  \/ \E e \in Emails : AttachVerified(u, e)
  \/ \E hs \in ContactHandles, gs \in SUBSET Grants : Provision(u, hs, gs)
  \/ \E g \in Grants : GrantAccess(u, g) \/ RevokeAccess(u, g)

Next ==
  \/ \E u \in Users : RowStep(u)
  \/ \E c \in Clients : LoginStep(c)
  \/ \E k \in creds : IssueTokens(k) \/ RefreshTokens(k) \/ EndCredential(k)
  \/ \E m \in Mergers : MergeStep(m)

Spec == Init /\ [][Next]_vars

-----------------------------------------------------------------------------
(* What the tables promise.                                                *)

(* A user that is not merged and has a verified handle of a type has       *)
(* exactly one primary handle of that type, and it is verified, however    *)
(* the statements of several merges and the inserts of handles interleave: *)
(* a merge drops the loser's flags and promotes a handle of the survivor   *)
(* when it sees no primary one, which another transaction may take away.   *)
PrimaryPerType ==
  /\ primary \subseteq verified
  /\ \A h, k \in primary :
       (owner[h] = owner[k] /\ HandleType(h) = HandleType(k)) => h = k
  /\ \A h \in verified :
       status[owner[h]] # "merged" =>
         \E k \in primary : owner[k] = owner[h] /\ HandleType(k) = HandleType(h)

(* A user is merged exactly when the log says so, and its pointer is the   *)
(* survivor of the last log row about it: log and pointer agree in every   *)
(* order in which merges of the same users start, commit and fail.         *)
LogMatchesPointer ==
  \A u \in Users :
    LET rows == {i \in 1..Len(mergeLog) : mergeLog[i].merged = u}
    IN  /\ (status[u] = "merged") <=> (rows # {})
        /\ \A i \in rows :
             (\A k \in rows : k <= i) => mergedInto[u] = mergeLog[i].survivor
        /\ rows = {} => mergedInto[u] = NULL

(* After a merge the sessions of both users go.  A session opened before a *)
(* merge of its user, or of a merged user, is about to be deleted by a     *)
(* merger, or its user is exposed: these windows are the only ones.  A     *)
(* merged user can also sign in anew if a later merge moved a verified     *)
(* handle to it.                                                           *)
MergedSessionsEnd ==
  \A c \in creds :
    c.kind = "session" /\ (c.stale \/ status[c.user] = "merged") =>
      \/ c.user \in exposed
      \/ \E m \in Mergers : c.user \in ToRevoke(m, "session")
      \/ ~c.stale /\ Owned(c.user) \cap verified # {}

(* "must not write a second identity_merge_log row": at most one log row   *)
(* for each merged user.  It needs mergers that do not overlap.            *)
SingleLogRow ==
  \A i, k \in 1..Len(mergeLog) :
    mergeLog[i].merged = mergeLog[k].merged => i = k

(* A merge chose a survivor that an earlier merge had merged away.         *)
MergedThenChosen(u) ==
  \E i, k \in 1..Len(mergeLog) :
    i < k /\ mergeLog[i].merged = u /\ mergeLog[k].survivor = u

(* A verified handle leads to a user that is not merged, unless a merge    *)
(* chose a survivor already merged, or the handle came late: attached to a *)
(* merged user, or attached or moved to a user whose own merge had taken   *)
(* its snapshot of the rows to move.  Nothing else strands a handle, in    *)
(* whatever order the statements of merges and other writes happen.        *)
StrandedExplained ==
  \A h \in verified :
    status[owner[h]] = "merged" => h \in late \/ MergedThenChosen(owner[h])

(* A handle, once attached, is never detached nor loses its verification,  *)
(* and changes owner only in a merge, logged in the same step, from the    *)
(* merged user to the survivor.                                            *)
IdentityMovesAreLogged ==
  [][\A h \in Handles :
       /\ h \in verified => h \in verified'
       /\ owner[h] # NULL /\ owner'[h] # owner[h] =>
            mergeLog' = Append(mergeLog, [survivor |-> owner'[h], merged |-> owner[h]])
    ]_vars

(* A merge into a user that is not merged keeps the union of both users'   *)
(* access: an active row of the loser that step 3 found, and that is still *)
(* active at COMMIT, leaves the survivor with a row for the same product   *)
(* and role, and no row of the survivor, so no revocation, is changed,     *)
(* whatever is granted, revoked and merged between the statements.  (A     *)
(* grant to the loser after step 3 stays behind.)                          *)
MergeUnionsAccess ==
  [][\A m \in Mergers :
       CommitMerge(m) /\ status[job[m].survivor] # "merged" =>
         LET s == job[m].survivor
             l == job[m].loser
         IN  \A g \in Grants :
               /\ g \in txn[m].active /\ access[l][g] = "active" => access'[s][g] # "none"
               /\ access[s][g] # "none" => access'[s][g] = access[s][g]
    ]_vars

-----------------------------------------------------------------------------
(* What the documents say and the code does not keep.                      *)

(* "Revoke sessions and refresh tokens on every merge": when the last      *)
(* revocation call of a merge returns, neither user has a refresh token    *)
(* issued before it.  The code never deletes an oauthRefreshToken row.     *)
RefreshTokensRevoked ==
  [][\A m \in Mergers :
       Revoke(m) /\ job[m].next = 4 =>
         \A c \in creds' : ~(/\ c.kind = "refresh" /\ c.stale
                            /\ c.user \in {job[m].survivor, job[m].loser})
    ]_vars
=============================================================================
