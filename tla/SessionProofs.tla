----------------------------- MODULE SessionProofs -----------------------------
(* Why the windows MergedSessionsEnd names are the only ones in which a     *)
(* session outlives a merge, for any number of users, mergers and sign-ins. *)
EXTENDS IdentityMergeProofs

HasVerified(u) == Owned(u) \cap verified # {}

AboutToEnd(u) == \E m \in Mergers : u \in ToRevoke(m, "session")

(* A session older than a merge of its user.                               *)
StaleEnds ==
  \A c \in creds : c.kind = "session" /\ c.stale => c.user \in exposed \/ AboutToEnd(c.user)

(* A merged user's session that is not: no merger need know about it.      *)
FreshExplained ==
  \A c \in creds :
    c.kind = "session" /\ ~c.stale /\ status[c.user] = "merged" =>
      c.user \in exposed \/ HasVerified(c.user)

(* A sign-in under way for a merged user.                                  *)
LoginsExplained ==
  \A c \in Clients :
    login[c] # NULL /\ status[login[c]] = "merged" =>
      login[c] \in exposed \/ HasVerified(login[c])

(* A commit starts the revocation at its first call.                       *)
StartsAtFirst == \A m \in Mergers : InTxn(m) => job[m].next = 1

SessionInv == StaleEnds /\ FreshExplained /\ LoginsExplained /\ StartsAtFirst

(* The users whose sessions a merger has still to delete.                  *)
LEMMA SessionsToRevoke ==
  ASSUME NEW m \in Mergers, NEW u
  PROVE  u \in ToRevoke(m, "session") <=>
           /\ job[m].pc = "revoking"
           /\ \/ 1 >= job[m].next /\ u = job[m].survivor
              \/ 2 >= job[m].next /\ u = job[m].loser
  <1>1. \A i \in 1..4 : RevokeKind(i) = "session" <=> i = 1 \/ i = 2
    BY DEF RevokeKind
  <1>2. RevokeUser(job[m], 1) = job[m].survivor /\ RevokeUser(job[m], 2) = job[m].loser
    BY DEF RevokeUser
  <1>3. u \in ToRevoke(m, "session") <=>
          \E i \in 1..4 : /\ job[m].pc = "revoking" /\ i >= job[m].next
                          /\ RevokeKind(i) = "session" /\ u = RevokeUser(job[m], i)
    BY DEF ToRevoke
  <1> QED
    BY <1>1, <1>2, <1>3

(* The same after a step.                                                  *)
LEMMA SessionsToRevokeNext ==
  ASSUME NEW m \in Mergers, NEW u
  PROVE  u \in ToRevoke(m, "session")' <=>
           /\ job'[m].pc = "revoking"
           /\ \/ 1 >= job'[m].next /\ u = job'[m].survivor
              \/ 2 >= job'[m].next /\ u = job'[m].loser
  <1>1. \A i \in 1..4 : RevokeKind(i) = "session" <=> i = 1 \/ i = 2
    BY DEF RevokeKind
  <1>2. RevokeUser(job'[m], 1) = job'[m].survivor /\ RevokeUser(job'[m], 2) = job'[m].loser
    BY DEF RevokeUser
  <1>3. u \in ToRevoke(m, "session")' <=>
          \E i \in 1..4 : /\ job'[m].pc = "revoking" /\ i >= job'[m].next
                          /\ RevokeKind(i) = "session" /\ u = RevokeUser(job'[m], i)
    BY DEF ToRevoke, RevokeUser, RevokeKind
  <1> QED
    BY <1>1, <1>2, <1>3

(* A merger whose call stays as it is goes on to delete the same sessions. *)
LEMMA OtherMergersKeep ==
  ASSUME NEW m \in Mergers, NEW u, job'[m] = job[m]
  PROVE  u \in ToRevoke(m, "session") => u \in ToRevoke(m, "session")'
  BY SessionsToRevoke, SessionsToRevokeNext

(* A step that neither signs anyone in nor moves a merge: handles may be   *)
(* attached, users created, tokens issued, credentials ended.              *)
LEMMA QuietStep ==
  ASSUME TypeOK, SessionInv, UNCHANGED <<job, exposed, login>>,
         \A c \in creds' : c.kind = "session" => c \in creds,
         \A u \in Users : status'[u] = "merged" => status[u] = "merged",
         \A u \in Users : HasVerified(u) => HasVerified(u)'
  PROVE  SessionInv'
  <1>1. \A u : AboutToEnd(u) => AboutToEnd(u)'
    BY OtherMergersKeep DEF AboutToEnd
  <1>2. creds \in SUBSET Credential
    BY DEF TypeOK
  <1>3. \A c \in creds : c.user \in Users
    BY <1>2 DEF Credential
  <1>4. \A c \in Clients : login[c] # NULL => login[c] \in Users
    BY DEF TypeOK
  <1>5. StaleEnds'
    BY <1>1 DEF SessionInv, StaleEnds
  <1>6. FreshExplained'
    BY <1>3 DEF SessionInv, FreshExplained
  <1>7. LoginsExplained'
    BY <1>4 DEF SessionInv, LoginsExplained
  <1>8. StartsAtFirst'
    BY DEF SessionInv, StartsAtFirst, InTxn
  <1> QED
    BY <1>5, <1>6, <1>7, <1>8 DEF SessionInv

(* No action but a merge takes a verified handle from a user.              *)
LEMMA RowStepSession ==
  ASSUME TypeOK, SessionInv, NEW u \in Users, RowStep(u)
  PROVE  SessionInv'
  <1>1. UNCHANGED <<job, exposed, login, creds>>
    BY DEF RowStep, CreateUser, AttachVerified, Provision, GrantAccess, RevokeAccess,
           mergeVars
  <1>2. \A x \in Users : status'[x] = "merged" => status[x] = "merged"
    BY DEF RowStep, CreateUser, AttachVerified, Provision, GrantAccess, RevokeAccess,
           userVars, TypeOK
  <1>3. /\ verified \subseteq verified'
        /\ \A h \in Handles : owner[h] # NULL => owner'[h] = owner[h]
    BY DEF RowStep, CreateUser, AttachVerified, Provision, GrantAccess, RevokeAccess,
           identityVars, Free, TypeOK, Handles
  <1>4. \A x \in Users : Owned(x) \subseteq Owned(x)'
    BY <1>3, MergeAssumption DEF Owned
  <1>5. \A x \in Users : HasVerified(x) => HasVerified(x)'
    BY <1>3, <1>4 DEF HasVerified
  <1> QED
    BY <1>1, <1>2, <1>5, QuietStep


(* A sign-in resolves through a verified handle of its user, opens a fresh *)
(* session for that user, or comes to nothing.                             *)
LEMMA LoginStepSession ==
  ASSUME TypeOK, SessionInv, NEW c \in Clients, LoginStep(c)
  PROVE  SessionInv'
  <1>0. UNCHANGED <<job, owner, verified, status>>
    BY DEF LoginStep, ResolveLogin, OpenSession, RejectLogin, PasswordSignIn,
           identityVars, userVars, mergeVars
  <1>1. \A x : AboutToEnd(x) => AboutToEnd(x)'
    BY <1>0, OtherMergersKeep DEF AboutToEnd
  <1>2. \A x : HasVerified(x) <=> HasVerified(x)'
    BY <1>0 DEF HasVerified, Owned
  <1>3. StartsAtFirst'
    BY <1>0 DEF SessionInv, StartsAtFirst, InTxn
  <1>4. exposed \subseteq exposed'
    BY DEF LoginStep, ResolveLogin, OpenSession, RejectLogin, PasswordSignIn
  <1>5. ASSUME NEW h \in Handles, ResolveLogin(c, h) PROVE SessionInv'
    <2>1. creds' = creds /\ login' = [login EXCEPT ![c] = owner[h]] /\ h \in verified
      BY <1>5 DEF ResolveLogin
    <2>2. HasVerified(owner[h])
      BY <2>1 DEF HasVerified, Owned
    <2>3. LoginsExplained'
      BY <1>0, <1>2, <1>4, <2>1, <2>2 DEF SessionInv, LoginsExplained, TypeOK
    <2>4. StaleEnds'
      BY <1>1, <1>4, <2>1 DEF SessionInv, StaleEnds
    <2>5. FreshExplained'
      BY <1>0, <1>2, <1>4, <2>1 DEF SessionInv, FreshExplained
    <2> QED
      BY <1>3, <2>3, <2>4, <2>5 DEF SessionInv
  <1>6. ASSUME OpenSession(c) PROVE SessionInv'
    <2> DEFINE k == [user |-> login[c], kind |-> "session", stale |-> FALSE]
    <2>1. creds' = creds \cup {k} /\ login' = [login EXCEPT ![c] = NULL] /\ login[c] # NULL
      BY <1>6 DEF OpenSession
    <2>2. LoginsExplained'
      BY <1>0, <1>2, <1>4, <2>1 DEF SessionInv, LoginsExplained, TypeOK
    <2>3. StaleEnds'
      BY <1>1, <1>4, <2>1 DEF SessionInv, StaleEnds
    <2>4. status[login[c]] = "merged" => login[c] \in exposed \/ HasVerified(login[c])
      BY <2>1 DEF SessionInv, LoginsExplained
    <2>5. FreshExplained'
      BY <1>0, <1>2, <1>4, <2>1, <2>4 DEF SessionInv, FreshExplained
    <2> QED
      BY <1>3, <2>2, <2>3, <2>5 DEF SessionInv
  <1>7. ASSUME RejectLogin(c) PROVE SessionInv'
    <2>1. creds' = creds /\ login' = [login EXCEPT ![c] = NULL]
      BY <1>7 DEF RejectLogin
    <2>2. LoginsExplained'
      BY <1>0, <1>2, <1>4, <2>1 DEF SessionInv, LoginsExplained, TypeOK
    <2>3. StaleEnds'
      BY <1>1, <1>4, <2>1 DEF SessionInv, StaleEnds
    <2>4. FreshExplained'
      BY <1>0, <1>2, <1>4, <2>1 DEF SessionInv, FreshExplained
    <2> QED
      BY <1>3, <2>2, <2>3, <2>4 DEF SessionInv
  <1>8. ASSUME NEW u \in Users, PasswordSignIn(c, u) PROVE SessionInv'
    <2> DEFINE k == [user |-> u, kind |-> "session", stale |-> FALSE]
    <2>1. creds' = creds \cup {k} /\ login' = login
      BY <1>8 DEF PasswordSignIn
    <2>2. status[u] = "merged" => u \in exposed'
      BY <1>8 DEF PasswordSignIn
    <2>3. LoginsExplained'
      BY <1>0, <1>2, <1>4, <2>1 DEF SessionInv, LoginsExplained
    <2>4. StaleEnds'
      BY <1>1, <1>4, <2>1 DEF SessionInv, StaleEnds
    <2>5. FreshExplained'
      BY <1>0, <1>2, <1>4, <2>1, <2>2 DEF SessionInv, FreshExplained
    <2> QED
      BY <1>3, <2>3, <2>4, <2>5 DEF SessionInv
  <1> QED
    BY <1>5, <1>6, <1>7, <1>8 DEF LoginStep

(* A commit makes every session of both users stale and is about to delete *)
(* them; sign-ins under way are exposed; other users keep their handles.   *)
LEMMA CommitSession ==
  ASSUME TypeOK, LocksOK, SessionInv, NEW m \in Mergers, CommitMerge(m)
  PROVE  SessionInv'
  <1> DEFINE s == job[m].survivor
             l == job[m].loser
  <1>1. job[m].pc = "commit" /\ job[m] \in RunningJob /\ job[m].next = 1
    BY DEF CommitMerge, TypeOK, Job, IdleJob, SessionInv, StartsAtFirst, InTxn
  <1>2. job'[m].pc = "revoking" /\ job'[m].next = 1 /\ job'[m].survivor = s /\ job'[m].loser = l
    BY <1>1 DEF CommitMerge, TypeOK, RunningJob
  <1>3. s \in ToRevoke(m, "session")' /\ l \in ToRevoke(m, "session")'
    BY <1>2, SessionsToRevokeNext
  <1>4. \A x \in {s, l} : AboutToEnd(x)'
    BY <1>3 DEF AboutToEnd
  <1>5. \A x : AboutToEnd(x) => AboutToEnd(x)'
    <2>1. \A x : x \notin ToRevoke(m, "session")
      BY <1>1, SessionsToRevoke
    <2>2. \A n \in Mergers : n # m => job'[n] = job[n]
      BY DEF CommitMerge, TypeOK
    <2> QED
      BY <2>1, <2>2, OtherMergersKeep DEF AboutToEnd
  <1>6. /\ exposed' = exposed \cup ({login[c] : c \in Clients} \cap {s, l})
        /\ creds' = {IF c.user \in {s, l} THEN [c EXCEPT !.stale = TRUE] ELSE c : c \in creds}
        /\ status' = [status EXCEPT ![l] = "merged"]
        /\ UNCHANGED <<verified, login>>
    BY DEF CommitMerge
  <1>7. \A x \in Users \ {s, l} : /\ status'[x] = status[x]
                                  /\ HasVerified(x) => HasVerified(x)'
    <2>1. \A x \in Users \ {s, l} : Owned(x) \subseteq Owned(x)'
      <3>1. \A h \in Handles : owner'[h] = IF h \in txn[m].moved THEN s ELSE owner[h]
        BY CommitPublishes DEF OwnerIn
      <3>2. \A h \in txn[m].moved : owner[h] = l
        BY DEF LocksOK
      <3> QED
        BY <3>1, <3>2 DEF Owned
    <2>2. verified' = verified
      BY <1>6
    <2>3. \A x \in Users \ {s, l} : HasVerified(x) => HasVerified(x)'
      BY <2>1, <2>2 DEF HasVerified
    <2>4. \A x \in Users \ {s, l} : status'[x] = status[x]
      BY <1>6 DEF TypeOK
    <2> QED
      BY <2>3, <2>4
  <1>8. \A c \in creds : c.user \in Users /\ [c EXCEPT !.stale = TRUE].user = c.user
                         /\ [c EXCEPT !.stale = TRUE].stale = TRUE
    BY DEF TypeOK, Credential
  <1>9. \A c \in creds' : \/ c.user \in {s, l} /\ c.stale
                          \/ c \in creds /\ c.user \in Users \ {s, l}
    BY <1>6, <1>8
  <1>10. StaleEnds'
    BY <1>4, <1>5, <1>6, <1>9 DEF SessionInv, StaleEnds
  <1>11. FreshExplained'
    BY <1>6, <1>7, <1>9 DEF SessionInv, FreshExplained
  <1>12. LoginsExplained'
    <2> SUFFICES ASSUME NEW c \in Clients, login[c] # NULL, status'[login[c]] = "merged"
                 PROVE  login[c] \in exposed' \/ HasVerified(login[c])'
      BY <1>6 DEF LoginsExplained
    <2>1. CASE login[c] \in {s, l}
      BY <1>6, <2>1
    <2>2. CASE login[c] \notin {s, l}
      <3>1. login[c] \in Users \ {s, l}
        BY <2>2 DEF TypeOK
      <3> QED
        BY <1>6, <1>7, <3>1 DEF SessionInv, LoginsExplained
    <2> QED
      BY <2>1, <2>2
  <1>13. StartsAtFirst'
    <2>1. \A n \in Mergers : n # m => job'[n] = job[n]
      BY DEF CommitMerge, TypeOK
    <2> QED
      BY <1>2, <2>1 DEF SessionInv, StartsAtFirst, InTxn, Statement
  <1> QED
    BY <1>10, <1>11, <1>12, <1>13 DEF SessionInv

(* A revocation call takes a user off the merger's list only by deleting   *)
(* the sessions of that user.                                              *)
LEMMA RevokeSession ==
  ASSUME TypeOK, SessionInv, NEW m \in Mergers, Revoke(m)
  PROVE  SessionInv'
  <1> DEFINE i == job[m].next
  <1>1. job[m].pc = "revoking" /\ job[m] \in RunningJob /\ i \in 1..4
    BY DEF Revoke, TypeOK, Job, IdleJob, RunningJob
  <1>2. /\ creds' = {c \in creds : ~(c.user = RevokeUser(job[m], i) /\ c.kind = RevokeKind(i))}
        /\ job' = [job EXCEPT ![m] = AfterRevocation(job[m])]
        /\ UNCHANGED <<owner, verified, status, exposed, login>>
    BY DEF Revoke, identityVars, userVars
  <1>3. job'[m] = AfterRevocation(job[m]) /\ \A n \in Mergers : n # m => job'[n] = job[n]
    BY <1>2 DEF TypeOK
  <1>4. \A c \in creds' : c.kind = "session" /\ c.user \in ToRevoke(m, "session")
                            => c.user \in ToRevoke(m, "session")'
    <2> SUFFICES ASSUME NEW c \in creds', c.kind = "session", c.user \in ToRevoke(m, "session")
                 PROVE  c.user \in ToRevoke(m, "session")'
      OBVIOUS
    <2>1. \/ i = 1 /\ c.user \in {job[m].survivor, job[m].loser}
          \/ i = 2 /\ c.user = job[m].loser
      BY <1>1, SessionsToRevoke
    <2>2. i = 1 /\ c.user = job[m].loser
      BY <1>2, <2>1 DEF RevokeUser, RevokeKind
    <2>3. job'[m].pc = "revoking" /\ job'[m].next = 2 /\ job'[m].loser = job[m].loser
      BY <1>1, <1>3, <2>2 DEF AfterRevocation, RunningJob
    <2> QED
      BY <2>2, <2>3, SessionsToRevokeNext
  <1>5. \A c \in creds' : c.kind = "session" /\ AboutToEnd(c.user) => AboutToEnd(c.user)'
    BY <1>3, <1>4, OtherMergersKeep DEF AboutToEnd
  <1>6. StaleEnds'
    BY <1>2, <1>5 DEF SessionInv, StaleEnds
  <1>7. \A x : HasVerified(x) <=> HasVerified(x)'
    BY <1>2 DEF HasVerified, Owned
  <1>8. FreshExplained' /\ LoginsExplained'
    BY <1>2, <1>7 DEF SessionInv, FreshExplained, LoginsExplained
  <1>9. job'[m].pc \in {"idle", "revoking"}
    BY <1>1, <1>3 DEF AfterRevocation, IdleJob, RunningJob
  <1>10. StartsAtFirst'
    BY <1>3, <1>9 DEF SessionInv, StartsAtFirst, InTxn, Statement
  <1> QED
    BY <1>6, <1>8, <1>10 DEF SessionInv

(* Giving up half way exposes exactly the users left with a stale session. *)
LEMMA InterruptSession ==
  ASSUME TypeOK, SessionInv, NEW m \in Mergers, InterruptRevocation(m)
  PROVE  SessionInv'
  <1>1. /\ exposed' = exposed \cup
             {k.user : k \in {c \in creds : c.stale /\ c.user \in ToRevoke(m, c.kind)}}
        /\ job' = [job EXCEPT ![m] = IdleJob]
        /\ UNCHANGED <<owner, verified, status, creds, login>>
    BY DEF InterruptRevocation, identityVars, userVars
  <1>2. \A n \in Mergers : n # m => job'[n] = job[n]
    BY <1>1 DEF TypeOK
  <1>3. \A c \in creds : c.kind = "session" /\ c.stale /\ c.user \in ToRevoke(m, "session")
                           => c.user \in exposed'
    BY <1>1
  <1>4. StaleEnds'
    BY <1>1, <1>2, <1>3, OtherMergersKeep DEF SessionInv, StaleEnds, AboutToEnd
  <1>5. \A x : HasVerified(x) <=> HasVerified(x)'
    BY <1>1 DEF HasVerified, Owned
  <1>6. FreshExplained' /\ LoginsExplained'
    BY <1>1, <1>5 DEF SessionInv, FreshExplained, LoginsExplained
  <1>7. StartsAtFirst'
    BY <1>1, <1>2 DEF SessionInv, StartsAtFirst, IdleJob, TypeOK, InTxn, Statement
  <1> QED
    BY <1>4, <1>6, <1>7 DEF SessionInv

(* Starting a call, the statements of its transaction and a rollback       *)
(* revoke nothing.                                                         *)
LEMMA OtherMergeStepsSession ==
  ASSUME TypeOK, SessionInv, NEW m \in Mergers,
         TxnStep(m) \/ AbortMerge(m) \/ (\E s, l \in Users : StartMerge(m, s, l))
  PROVE  SessionInv'
  <1>1. /\ job[m].pc # "revoking"
        /\ InTxn(m)' => job'[m].next = 1
        /\ \A n \in Mergers : n # m => job'[n] = job[n]
        /\ UNCHANGED <<owner, verified, status, creds, exposed, login>>
    <2>1. CASE AbortMerge(m) \/ \E s, l \in Users : StartMerge(m, s, l)
      BY <2>1 DEF AbortMerge, StartMerge, IdleJob, TypeOK, identityVars, userVars,
                  InTxn, Statement
    <2>2. CASE TxnStep(m)
      <3>1. /\ InTxn(m) /\ job'[m].next = job[m].next
            /\ \A n \in Mergers : n # m => job'[n] = job[n]
            /\ UNCHANGED <<owner, verified, status, creds, exposed, login>>
        BY <2>2, SnapshotWrites, RowStatements, AccessStatement
           DEF TxnStep, InTxn, Statement, identityVars, userVars
      <3> QED
        BY <3>1 DEF SessionInv, StartsAtFirst, InTxn, Statement
    <2> QED
      BY <2>1, <2>2
  <1>2. \A x : AboutToEnd(x) => AboutToEnd(x)'
    BY <1>1, SessionsToRevoke, OtherMergersKeep DEF AboutToEnd
  <1>3. \A x : HasVerified(x) <=> HasVerified(x)'
    BY <1>1 DEF HasVerified, Owned
  <1>4. StaleEnds'
    BY <1>1, <1>2 DEF SessionInv, StaleEnds
  <1>5. FreshExplained' /\ LoginsExplained'
    BY <1>1, <1>3 DEF SessionInv, FreshExplained, LoginsExplained
  <1>6. StartsAtFirst'
    BY <1>1 DEF SessionInv, StartsAtFirst, InTxn
  <1> QED
    BY <1>4, <1>5, <1>6 DEF SessionInv

(* Every step of the module keeps the inductive invariant.                 *)
LEMMA SessionStep == TypeOK /\ LocksOK /\ SessionInv /\ [Next]_vars => SessionInv'
  <1> SUFFICES ASSUME TypeOK, LocksOK, SessionInv, [Next]_vars PROVE SessionInv'
    OBVIOUS
  <1>1. ASSUME NEW k \in creds, IssueTokens(k) \/ RefreshTokens(k) \/ EndCredential(k)
        PROVE  SessionInv'
    <2>1. UNCHANGED <<job, exposed, login, status, owner, verified>>
      BY <1>1 DEF IssueTokens, RefreshTokens, EndCredential, identityVars, userVars, mergeVars
    <2>2. [k EXCEPT !.kind = "access"].kind = "access"
          /\ [k EXCEPT !.kind = "refresh"].kind = "refresh"
      BY DEF TypeOK, Credential
    <2>3. \A c \in creds' : c.kind = "session" => c \in creds
      BY <1>1, <2>2 DEF IssueTokens, RefreshTokens, EndCredential
    <2>4. \A x \in Users : HasVerified(x) => HasVerified(x)'
      BY <2>1 DEF HasVerified, Owned
    <2>5. \A x \in Users : status'[x] = "merged" => status[x] = "merged"
      BY <2>1
    <2> QED
      BY <2>1, <2>3, <2>4, <2>5, QuietStep
  <1>2. ASSUME NEW m \in Mergers, MergeStep(m) PROVE SessionInv'
    BY <1>2, CommitSession, RevokeSession, InterruptSession, OtherMergeStepsSession DEF MergeStep
  <1>3. CASE UNCHANGED vars
    <2>1. UNCHANGED <<job, exposed, login, creds, status, owner, verified>>
      BY <1>3 DEF vars, identityVars, userVars, mergeVars
    <2>2. \A x \in Users : HasVerified(x) => HasVerified(x)'
      BY <2>1 DEF HasVerified, Owned
    <2> QED
      BY <2>1, <2>2, QuietStep
  <1> QED
    BY <1>1, <1>2, <1>3, RowStepSession, LoginStepSession DEF Next

(* After a merge, a session that was open before it, or that is of a       *)
(* merged user, is about to be deleted, or one of the named windows left   *)
(* it: for every number of users, handles, overlapping merges and sign-ins.*)
THEOREM MergedSessionsAreEnded == Spec => []MergedSessionsEnd
  <1>1. Init => SessionInv
    BY DEF Init, SessionInv, StaleEnds, FreshExplained, LoginsExplained, StartsAtFirst,
           IdleJob, InTxn, Statement
  <1>2. TypeOK /\ SessionInv => MergedSessionsEnd
    <2> SUFFICES ASSUME TypeOK, SessionInv PROVE MergedSessionsEnd
      OBVIOUS
    <2>1. StaleEnds /\ FreshExplained
      BY DEF SessionInv
    <2>2. \A c \in creds : c.stale \in BOOLEAN
      BY DEF TypeOK, Credential
    <2> QED
      BY <2>1, <2>2 DEF MergedSessionsEnd, StaleEnds, FreshExplained, AboutToEnd, HasVerified
  <1>3. RowsInv => LocksOK
    BY DEF RowsInv
  <1> QED
    BY <1>1, <1>2, <1>3, TypesHold, RowsHold, SessionStep, PTL DEF Spec
=============================================================================
