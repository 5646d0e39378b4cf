-------------------------- MODULE IdentityMergeProofs --------------------------
(* Theorems about IdentityMerge, for every set of users, handles, mergers   *)
(* and sign-ins.                                                           *)
EXTENDS IdentityMerge, SequenceTheorems, WellFoundedInduction, TLAPS

(* The empty tables have the types of TypeOK.                              *)
LEMMA InitTypeOK == Init => TypeOK
  <1> SUFFICES ASSUME Init PROVE TypeOK
    OBVIOUS
  <1> USE DEF Init, TypeOK, UserStatus, AccessStatus, Handles
  <1>1. job \in [Mergers -> Job] /\ txn \in [Mergers -> Txn]
    BY DEF Job, Txn, NoTxn
  <1>2. mergeLog \in Seq(LogRow)
    BY EmptySeq
  <1>3. creds \in SUBSET Credential
    OBVIOUS
  <1> QED
    BY <1>1, <1>2, <1>3

(* What m's transaction sees of the identity rows, and what it finds.      *)
LEMMA ViewTypes ==
  ASSUME TypeOK, NEW m \in Mergers
  PROVE  /\ txn[m] \in Txn
         /\ PrimaryIn(m) \subseteq Handles /\ Held(m) \subseteq Handles
         /\ Selected(m) \subseteq Handles /\ StillOwned(m) \subseteq Handles
         /\ Active(m) \subseteq Grants /\ Moves(m) \subseteq Grants
         /\ job[m].pc # "idle" => /\ job[m] \in RunningJob
                                  /\ job[m].survivor \in Users /\ job[m].loser \in Users
                                  /\ \A h \in Handles : OwnerIn(m, h) \in Users \cup {NULL}
  <1>1. txn[m] \in Txn
    BY DEF TypeOK
  <1>2. PrimaryIn(m) \subseteq Handles /\ Held(m) \subseteq Handles
    BY <1>1 DEF TypeOK, Txn, PrimaryIn, Held
  <1>3. Selected(m) \subseteq Handles
    BY DEF Selected, Owned, Promoted, OfType
  <1>4. /\ StillOwned(m) \subseteq Handles
        /\ Active(m) \subseteq Grants /\ Moves(m) \subseteq Grants
    BY <1>1 DEF StillOwned, Txn, Active, Moves
  <1>5. job[m].pc # "idle" => /\ job[m] \in RunningJob
                              /\ job[m].survivor \in Users /\ job[m].loser \in Users
    BY DEF TypeOK, Job, IdleJob, RunningJob
  <1> QED
    BY <1>1, <1>2, <1>3, <1>4, <1>5 DEF OwnerIn, TypeOK

(* A statement takes its snapshot: nothing but its transaction's record    *)
(* changes.                                                                *)
LEMMA SnapshotWrites ==
  ASSUME TypeOK, NEW m \in Mergers, TakeSnapshot(m)
  PROVE  /\ job[m].pc \in Statement /\ job' = job
         /\ txn' \in [Mergers -> Txn]
         /\ \A o \in Mergers \ {m} : txn'[o] = txn[o]
         /\ txn'[m].looked /\ txn'[m].seen = Selected(m)
         /\ job[m].pc = "access" => /\ txn'[m].active = Active(m)
                                    /\ txn'[m].taken = Moves(m)
         /\ txn'[m].cleared = txn[m].cleared /\ txn'[m].moved = txn[m].moved
         /\ txn'[m].promoted = txn[m].promoted
         /\ UNCHANGED <<identityVars, userVars, access, creds, exposed, login>>
  <1> DEFINE act == IF job[m].pc = "access" THEN Active(m) ELSE {}
             tak == IF job[m].pc = "access" THEN Moves(m) ELSE {}
             sel == Selected(m)
             new == [txn[m] EXCEPT !.looked = TRUE, !.seen = sel,
                                   !.active = act, !.taken = tak]
  <1>1. txn \in [Mergers -> Txn] /\ txn[m] \in Txn
    BY DEF TypeOK
  <1>2. act \subseteq Grants /\ tak \subseteq Grants /\ sel \subseteq Handles
    BY ViewTypes
  <1>3. txn' = [txn EXCEPT ![m] = new]
    BY DEF TakeSnapshot
  <1>7. job[m].pc = "access" => act = Active(m) /\ tak = Moves(m)
    OBVIOUS
  <1>8. sel = Selected(m)
    OBVIOUS
  <1> HIDE DEF act, tak, sel
  <1>4. /\ new \in Txn /\ new.looked /\ new.seen = sel
        /\ new.active = act /\ new.taken = tak
        /\ new.cleared = txn[m].cleared /\ new.moved = txn[m].moved
        /\ new.promoted = txn[m].promoted
    BY <1>1, <1>2 DEF Txn
  <1> HIDE DEF new
  <1>5. txn'[m] = new /\ \A o \in Mergers \ {m} : txn'[o] = txn[o]
    BY <1>1, <1>3
  <1>6. txn' \in [Mergers -> Txn]
    BY <1>1, <1>3, <1>4
  <1> QED
    BY <1>7, <1>8, <1>4, <1>5, <1>6 DEF TakeSnapshot

(* A statement ends: its writes are its transaction's, and the next        *)
(* statement is its call's.                                                *)
LEMMA ExecuteWrites ==
  ASSUME TypeOK, NEW m \in Mergers, job[m].pc \in Statement,
         NEW w \in Txn, Execute(m, w)
  PROVE  /\ txn' \in [Mergers -> Txn] /\ job' \in [Mergers -> Job]
         /\ \A o \in Mergers \ {m} : txn'[o] = txn[o] /\ job'[o] = job[o]
         /\ job'[m].pc = Following[job[m].pc]
         /\ job'[m].survivor = job[m].survivor /\ job'[m].loser = job[m].loser
         /\ job'[m].next = job[m].next
         /\ ~txn'[m].looked /\ txn'[m].seen = w.seen
         /\ txn'[m].active = w.active /\ txn'[m].taken = w.taken
         /\ txn'[m].cleared = w.cleared /\ txn'[m].moved = w.moved
         /\ txn'[m].promoted = w.promoted
         /\ UNCHANGED <<identityVars, userVars, access, creds, exposed, login>>
  <1> DEFINE new == [w EXCEPT !.looked = FALSE]
             call == [job[m] EXCEPT !.pc = Following[job[m].pc]]
  <1>1. txn \in [Mergers -> Txn] /\ job \in [Mergers -> Job]
    BY DEF TypeOK
  <1>2. job[m] \in RunningJob /\ Following[job[m].pc] \in Statement \cup {"commit"}
    BY <1>1 DEF Job, IdleJob, Statement, Following
  <1>3. new \in Txn /\ ~new.looked /\ new.seen = w.seen
    BY DEF Txn
  <1>4. /\ new.active = w.active /\ new.taken = w.taken
        /\ new.cleared = w.cleared /\ new.moved = w.moved /\ new.promoted = w.promoted
    BY DEF Txn
  <1>5. /\ call \in Job /\ call.pc = Following[job[m].pc]
        /\ call.survivor = job[m].survivor /\ call.loser = job[m].loser
        /\ call.next = job[m].next
    BY <1>2 DEF RunningJob, Job
  <1>6. txn' = [txn EXCEPT ![m] = new] /\ job' = [job EXCEPT ![m] = call]
    BY <1>1 DEF Execute
  <1> HIDE DEF new, call
  <1>7. /\ txn' \in [Mergers -> Txn] /\ job' \in [Mergers -> Job]
        /\ txn'[m] = new /\ job'[m] = call
        /\ \A o \in Mergers \ {m} : txn'[o] = txn[o] /\ job'[o] = job[o]
    BY <1>1, <1>3, <1>5, <1>6
  <1> QED
    BY <1>3, <1>4, <1>5, <1>7 DEF Execute

(* Steps 2a, 2b and 2c: what each writes.                                  *)
LEMMA RowStatements ==
  ASSUME TypeOK, NEW m \in Mergers, NEW ty \in {"email", "phone"},
         \/ ClearPrimaries(m) \/ MoveHandles(m) \/ PromotePrimary(m, ty)
  PROVE  /\ txn[m].looked /\ job[m].pc \in Statement
         /\ txn' \in [Mergers -> Txn] /\ job' \in [Mergers -> Job]
         /\ \A o \in Mergers \ {m} : txn'[o] = txn[o] /\ job'[o] = job[o]
         /\ job'[m].pc = Following[job[m].pc]
         /\ job'[m].survivor = job[m].survivor /\ job'[m].loser = job[m].loser
         /\ job'[m].next = job[m].next
         /\ ~txn'[m].looked /\ txn'[m].seen = txn[m].seen
         /\ txn'[m].active = txn[m].active /\ txn'[m].taken = txn[m].taken
         /\ \/ /\ job[m].pc = "clear" /\ txn'[m].cleared = StillOwned(m)
               /\ txn'[m].moved = txn[m].moved /\ txn'[m].promoted = txn[m].promoted
            \/ /\ job[m].pc = "move" /\ txn'[m].moved = StillOwned(m)
               /\ txn'[m].cleared = txn[m].cleared /\ txn'[m].promoted = txn[m].promoted
            \/ /\ job[m].pc = ty /\ txn'[m].promoted = txn[m].promoted \cup txn[m].seen
               /\ txn'[m].cleared = txn[m].cleared /\ txn'[m].moved = txn[m].moved
         /\ UNCHANGED <<identityVars, userVars, access, creds, exposed, login>>
  <1>0. txn[m] \in Txn /\ StillOwned(m) \subseteq Handles
    BY ViewTypes
  <1>1. CASE ClearPrimaries(m)
    <2> DEFINE w == [txn[m] EXCEPT !.cleared = StillOwned(m)]
    <2>1. /\ w \in Txn /\ w.cleared = StillOwned(m) /\ w.seen = txn[m].seen
          /\ w.active = txn[m].active /\ w.taken = txn[m].taken
          /\ w.moved = txn[m].moved /\ w.promoted = txn[m].promoted
      BY <1>0 DEF Txn
    <2>2. /\ job[m].pc = "clear" /\ txn[m].looked /\ Execute(m, w)
          /\ job[m].pc \in Statement
      BY <1>1 DEF ClearPrimaries, Executing, Statement
    <2> HIDE DEF w
    <2> QED
      BY <2>1, <2>2, ExecuteWrites
  <1>2. CASE MoveHandles(m)
    <2> DEFINE w == [txn[m] EXCEPT !.moved = StillOwned(m)]
    <2>1. /\ w \in Txn /\ w.moved = StillOwned(m) /\ w.seen = txn[m].seen
          /\ w.active = txn[m].active /\ w.taken = txn[m].taken
          /\ w.cleared = txn[m].cleared /\ w.promoted = txn[m].promoted
      BY <1>0 DEF Txn
    <2>2. /\ job[m].pc = "move" /\ txn[m].looked /\ Execute(m, w)
          /\ job[m].pc \in Statement
      BY <1>2 DEF MoveHandles, Executing, Statement
    <2> HIDE DEF w
    <2> QED
      BY <2>1, <2>2, ExecuteWrites
  <1>3. CASE PromotePrimary(m, ty)
    <2> DEFINE w == [txn[m] EXCEPT !.promoted = @ \cup txn[m].seen]
    <2>1. /\ w \in Txn /\ w.promoted = txn[m].promoted \cup txn[m].seen
          /\ w.seen = txn[m].seen
          /\ w.active = txn[m].active /\ w.taken = txn[m].taken
          /\ w.cleared = txn[m].cleared /\ w.moved = txn[m].moved
      BY <1>0 DEF Txn
    <2>2. /\ job[m].pc = ty /\ txn[m].looked /\ Execute(m, w)
          /\ job[m].pc \in Statement
      BY <1>3 DEF PromotePrimary, Executing, Statement
    <2> HIDE DEF w
    <2> QED
      BY <2>1, <2>2, ExecuteWrites
  <1> QED
    BY <1>1, <1>2, <1>3

(* Step 3: what it writes.                                                 *)
LEMMA AccessStatement ==
  ASSUME TypeOK, NEW m \in Mergers, UniteAccess(m)
  PROVE  /\ txn[m].looked /\ job[m].pc = "access"
         /\ txn' \in [Mergers -> Txn] /\ job' \in [Mergers -> Job]
         /\ \A o \in Mergers \ {m} : txn'[o] = txn[o] /\ job'[o] = job[o]
         /\ job'[m].pc = "commit"
         /\ job'[m].survivor = job[m].survivor /\ job'[m].loser = job[m].loser
         /\ job'[m].next = job[m].next
         /\ txn'[m].active = txn[m].active \cap Active(m)
         /\ txn'[m].taken = txn[m].taken \cap Active(m)
         /\ txn'[m].cleared = txn[m].cleared /\ txn'[m].moved = txn[m].moved
         /\ txn'[m].promoted = txn[m].promoted
         /\ UNCHANGED <<identityVars, userVars, access, creds, exposed, login>>
  <1> DEFINE w == [txn[m] EXCEPT !.active = txn[m].active \cap Active(m),
                                 !.taken = txn[m].taken \cap Active(m)]
  <1>0. txn[m] \in Txn
    BY ViewTypes
  <1>1. /\ w \in Txn /\ w.active = txn[m].active \cap Active(m)
        /\ w.taken = txn[m].taken \cap Active(m)
        /\ w.cleared = txn[m].cleared /\ w.moved = txn[m].moved
        /\ w.promoted = txn[m].promoted
    BY <1>0 DEF Txn
  <1>2. /\ job[m].pc = "access" /\ txn[m].looked /\ Execute(m, w)
        /\ job[m].pc \in Statement /\ Following["access"] = "commit"
    BY DEF UniteAccess, Executing, Statement, Following
  <1> HIDE DEF w
  <1> QED
    BY <1>1, <1>2, ExecuteWrites

(* Every action keeps the types of the tables and processes it writes.     *)
LEMMA TypeStep == TypeOK /\ [Next]_vars => TypeOK'
  <1> SUFFICES ASSUME TypeOK, [Next]_vars PROVE TypeOK'
    OBVIOUS
  <1> USE DEF TypeOK, identityVars, userVars, mergeVars
  <1>1. ASSUME NEW u \in Users, RowStep(u) PROVE TypeOK'
    <2>1. ASSUME NEW st \in {"active", "invited"}, CreateUser(u, st) PROVE TypeOK'
      BY <2>1 DEF CreateUser, UserStatus
    <2>2. ASSUME NEW e \in Emails, AttachVerified(u, e) PROVE TypeOK'
      BY <2>2 DEF AttachVerified, Handles
    <2>3. ASSUME NEW hs \in ContactHandles, NEW gs \in SUBSET Grants,
                 Provision(u, hs, gs)
          PROVE  TypeOK'
      <3>1. owner' \in [Handles -> Users \cup {NULL}]
        BY <2>3 DEF Provision
      <3>2. access' \in [Users -> [Grants -> AccessStatus]]
        BY <2>3 DEF Provision, AccessStatus
      <3> QED
        BY <2>3, <3>1, <3>2 DEF Provision
    <2>4. ASSUME NEW g \in Grants, GrantAccess(u, g) PROVE TypeOK'
      BY <2>4 DEF GrantAccess, AccessStatus
    <2>5. ASSUME NEW g \in Grants, RevokeAccess(u, g) PROVE TypeOK'
      BY <2>5 DEF RevokeAccess, AccessStatus
    <2> QED
      BY <1>1, <2>1, <2>2, <2>3, <2>4, <2>5 DEF RowStep
  <1>2. ASSUME NEW c \in Clients, LoginStep(c) PROVE TypeOK'
    <2>1. ASSUME NEW h \in Handles, ResolveLogin(c, h) PROVE TypeOK'
      BY <2>1 DEF ResolveLogin
    <2>2. ASSUME OpenSession(c) PROVE TypeOK'
      <3>1. login[c] \in Users
        BY <2>2 DEF OpenSession
      <3>2. [user |-> login[c], kind |-> "session", stale |-> FALSE] \in Credential
        BY <3>1 DEF Credential, CredKind
      <3>3. creds' \in SUBSET Credential
        BY <2>2, <3>2 DEF OpenSession
      <3> QED
        BY <2>2, <3>3 DEF OpenSession
    <2>3. ASSUME RejectLogin(c) PROVE TypeOK'
      BY <2>3 DEF RejectLogin
    <2>4. ASSUME NEW u \in Users, PasswordSignIn(c, u) PROVE TypeOK'
      <3>1. [user |-> u, kind |-> "session", stale |-> FALSE] \in Credential
        BY DEF Credential, CredKind
      <3>2. creds' \in SUBSET Credential /\ exposed' \in SUBSET Users
        BY <2>4, <3>1 DEF PasswordSignIn
      <3> QED
        BY <2>4, <3>2 DEF PasswordSignIn
    <2> QED
      BY <1>2, <2>1, <2>2, <2>3, <2>4 DEF LoginStep
  <1>3. ASSUME NEW k \in creds, IssueTokens(k) \/ RefreshTokens(k) \/ EndCredential(k)
        PROVE  TypeOK'
    <2>1. /\ [k EXCEPT !.kind = "access"] \in Credential
          /\ [k EXCEPT !.kind = "refresh"] \in Credential
      BY DEF Credential, CredKind
    <2>2. creds' \in SUBSET Credential
      BY <1>3, <2>1 DEF IssueTokens, RefreshTokens, EndCredential
    <2> QED
      BY <1>3, <2>2 DEF IssueTokens, RefreshTokens, EndCredential
  <1>4. ASSUME NEW m \in Mergers, MergeStep(m) PROVE TypeOK'
    <2>0. job[m].pc # "idle" => job[m] \in RunningJob
      BY DEF Job, IdleJob
    <2>1. ASSUME NEW s \in Users, NEW l \in Users, StartMerge(m, s, l) PROVE TypeOK'
      BY <2>1 DEF StartMerge, Job, RunningJob, Statement
    <2>6. ASSUME TxnStep(m) PROVE TypeOK'
      BY <2>6, SnapshotWrites, RowStatements, AccessStatement DEF TxnStep
    <2>2. ASSUME CommitMerge(m) PROVE TypeOK'
      <3> DEFINE s == job[m].survivor
                 l == job[m].loser
      <3>0. job[m] \in RunningJob
        BY <2>0, <2>2 DEF CommitMerge
      <3>1. s \in Users /\ l \in Users
        BY <3>0 DEF RunningJob
      <3>2. owner' \in [Handles -> Users \cup {NULL}]
        BY <2>2, <3>1 DEF CommitMerge, OwnerIn
      <3>3. primary' \in SUBSET Handles /\ late' \in SUBSET Handles
        BY <2>2, ViewTypes DEF CommitMerge, Txn
      <3>4. access' \in [Users -> [Grants -> AccessStatus]]
        BY <2>2, <3>1 DEF CommitMerge, AccessAfterMerge, AccessStatus
      <3>5. mergeLog' \in Seq(LogRow)
        <4>1. [survivor |-> s, merged |-> l] \in LogRow
          BY <3>1 DEF LogRow
        <4>2. mergeLog' = Append(mergeLog, [survivor |-> s, merged |-> l])
          BY <2>2 DEF CommitMerge
        <4>3. mergeLog \in Seq(LogRow)
          OBVIOUS
        <4> QED
          BY ONLY <4>1, <4>2, <4>3, AppendProperties
      <3>6. status' \in [Users -> UserStatus] /\ mergedInto' \in [Users -> Users \cup {NULL}]
        BY <2>2, <3>1 DEF CommitMerge, PointerAfterMerge, UserStatus
      <3>7. creds' \in SUBSET Credential
        <4>1. creds' = {IF c.user \in {s, l} THEN [c EXCEPT !.stale = TRUE] ELSE c : c \in creds}
          BY <2>2 DEF CommitMerge
        <4>2. \A c \in Credential : [c EXCEPT !.stale = TRUE] \in Credential
          BY DEF Credential
        <4> QED
          BY <4>1, <4>2
      <3>8. exposed' \in SUBSET Users
        BY <2>2, <3>1 DEF CommitMerge
      <3>9. job' \in [Mergers -> Job] /\ txn' \in [Mergers -> Txn]
        BY <2>2, <3>0 DEF CommitMerge, Job, RunningJob, Txn, NoTxn
      <3>10. UNCHANGED <<verified, verifiedAt, clock, creating, login>>
        BY <2>2 DEF CommitMerge
      <3> QED
        BY <3>2, <3>3, <3>4, <3>5, <3>6, <3>7, <3>8, <3>9, <3>10
    <2>3. ASSUME AbortMerge(m) PROVE TypeOK'
      BY <2>3 DEF AbortMerge, Job, Txn, NoTxn
    <2>4. ASSUME Revoke(m) PROVE TypeOK'
      <3>1. job[m] \in RunningJob
        BY <2>0, <2>4 DEF Revoke
      <3>2. AfterRevocation(job[m]) \in Job
        <4>1. CASE job[m].next = 4
          BY <4>1 DEF AfterRevocation, Job
        <4>2. CASE job[m].next # 4
          <5>1. job[m].next + 1 \in 1..4
            BY <3>1, <4>2 DEF RunningJob
          <5>2. [job[m] EXCEPT !.next = job[m].next + 1] \in RunningJob
            BY <3>1, <5>1 DEF RunningJob
          <5> QED
            BY <4>2, <5>2 DEF AfterRevocation, Job
        <4> QED
          BY <4>1, <4>2
      <3>3. creds' \in SUBSET Credential
        BY <2>4 DEF Revoke
      <3>4. job' \in [Mergers -> Job]
        BY <2>4, <3>2 DEF Revoke
      <3>5. UNCHANGED <<identityVars, userVars, access, exposed, txn, login>>
        BY <2>4 DEF Revoke
      <3> QED
        BY <3>3, <3>4, <3>5
    <2>5. ASSUME InterruptRevocation(m) PROVE TypeOK'
      BY <2>5 DEF InterruptRevocation, Job, Credential
    <2> QED
      BY <1>4, <2>1, <2>2, <2>3, <2>4, <2>5, <2>6 DEF MergeStep
  <1>5. CASE UNCHANGED vars
    BY <1>5 DEF vars
  <1> QED
    BY <1>1, <1>2, <1>3, <1>4, <1>5 DEF Next

(* The types hold in every state.                                          *)
THEOREM TypesHold == Spec => []TypeOK
  BY InitTypeOK, TypeStep, PTL DEF Spec

-----------------------------------------------------------------------------
(* The steps that write a "user" row, an identity row, the log or a call's *)
(* record: everything else leaves all of them alone.                       *)
LEMMA StepKinds ==
  ASSUME [Next]_vars
  PROVE  \/ UNCHANGED <<identityVars, userVars, mergeVars>>
         \/ \E u \in Users, st \in {"active", "invited"} : CreateUser(u, st)
         \/ \E u \in Users, e \in Emails : AttachVerified(u, e)
         \/ \E u \in Users, hs \in ContactHandles, gs \in SUBSET Grants :
              Provision(u, hs, gs)
         \/ \E m \in Mergers : MergeStep(m)
  <1>1. ASSUME NEW u \in Users, RowStep(u)
        PROVE  \/ UNCHANGED <<identityVars, userVars, mergeVars>>
               \/ \E st \in {"active", "invited"} : CreateUser(u, st)
               \/ \E e \in Emails : AttachVerified(u, e)
               \/ \E hs \in ContactHandles, gs \in SUBSET Grants : Provision(u, hs, gs)
    BY <1>1 DEF RowStep, GrantAccess, RevokeAccess
  <1>2. ASSUME NEW c \in Clients, LoginStep(c)
        PROVE  UNCHANGED <<identityVars, userVars, mergeVars>>
    BY <1>2 DEF LoginStep, ResolveLogin, OpenSession, RejectLogin, PasswordSignIn
  <1>3. ASSUME NEW k \in creds, IssueTokens(k) \/ RefreshTokens(k) \/ EndCredential(k)
        PROVE  UNCHANGED <<identityVars, userVars, mergeVars>>
    BY <1>3 DEF IssueTokens, RefreshTokens, EndCredential
  <1>4. CASE UNCHANGED vars
    BY <1>4 DEF vars
  <1> QED
    BY <1>1, <1>2, <1>3, <1>4 DEF Next

(* The steps of a call that write no row: it starts, fails, or revokes.    *)
LEMMA CallWrites ==
  ASSUME TypeOK, NEW m \in Mergers,
         \/ \E s, l \in Users : StartMerge(m, s, l)
         \/ AbortMerge(m) \/ Revoke(m) \/ InterruptRevocation(m)
  PROVE  /\ \A o \in Mergers \ {m} : job'[o] = job[o] /\ txn'[o] = txn[o]
         /\ txn' = txn \/ txn'[m] = NoTxn
         /\ \/ job[m].pc = "idle" /\ job'[m].pc = "clear" /\ txn' = txn
               /\ NotYetMerged(job'[m].loser)
               /\ job'[m].survivor # job'[m].loser
            \/ job[m].pc \in Statement \cup {"commit"} /\ job'[m].pc = "idle"
               /\ txn'[m] = NoTxn
            \/ job[m].pc = "revoking" /\ job'[m].pc = "idle" /\ txn' = txn
            \/ /\ job[m].pc = "revoking" /\ job'[m].pc = "revoking" /\ txn' = txn
               /\ job'[m].survivor = job[m].survivor /\ job'[m].loser = job[m].loser
         /\ UNCHANGED <<identityVars, userVars, access>>
  <1>0. job \in [Mergers -> Job] /\ txn \in [Mergers -> Txn] /\ IdleJob.pc = "idle"
    BY DEF TypeOK, IdleJob
  <1>1. ASSUME NEW s \in Users, NEW l \in Users, StartMerge(m, s, l)
        PROVE  /\ \A o \in Mergers \ {m} : job'[o] = job[o]
               /\ job[m].pc = "idle" /\ job'[m].pc = "clear" /\ txn' = txn
               /\ NotYetMerged(job'[m].loser)
               /\ job'[m].survivor # job'[m].loser
               /\ UNCHANGED <<identityVars, userVars, access>>
    BY <1>0, <1>1 DEF StartMerge
  <1>2. CASE AbortMerge(m)
    BY <1>0, <1>2 DEF AbortMerge
  <1>3. CASE InterruptRevocation(m)
    BY <1>0, <1>3 DEF InterruptRevocation
  <1>4. CASE Revoke(m)
    <2>1. job[m].pc = "revoking" /\ job' = [job EXCEPT ![m] = AfterRevocation(job[m])]
      BY <1>4 DEF Revoke
    <2>2. job[m] \in RunningJob
      BY <1>0, <2>1 DEF Job, IdleJob
    <2>3. \/ AfterRevocation(job[m]).pc = "idle"
          \/ /\ AfterRevocation(job[m]).pc = "revoking"
             /\ AfterRevocation(job[m]).survivor = job[m].survivor
             /\ AfterRevocation(job[m]).loser = job[m].loser
      BY <1>0, <2>1, <2>2 DEF AfterRevocation, RunningJob
    <2>4. txn' = txn /\ UNCHANGED <<identityVars, userVars, access>>
      BY <1>4 DEF Revoke
    <2> QED
      BY <1>0, <2>1, <2>3, <2>4
  <1> QED
    BY <1>1, <1>2, <1>3, <1>4

(* What COMMIT publishes.                                                  *)
LEMMA CommitWrites ==
  ASSUME TypeOK, NEW m \in Mergers, CommitMerge(m)
  PROVE  \E s, l \in Users :
           /\ s = job[m].survivor /\ l = job[m].loser
           /\ job[m].pc = "commit"
           /\ job[m] \in RunningJob
           /\ Len(mergeLog') = Len(mergeLog) + 1
           /\ \A i \in 1..Len(mergeLog) : mergeLog'[i] = mergeLog[i]
           /\ mergeLog'[Len(mergeLog) + 1] = [survivor |-> s, merged |-> l]
           /\ status' = [status EXCEPT ![l] = "merged"]
           /\ mergedInto' = [mergedInto EXCEPT ![l] = s]
  <1> DEFINE s == job[m].survivor
             l == job[m].loser
  <1>1. job[m].pc = "commit"
    BY DEF CommitMerge
  <1>2. job[m] \in RunningJob
    BY <1>1 DEF TypeOK, Job, IdleJob
  <1>3. s \in Users /\ l \in Users
    BY <1>2 DEF RunningJob
  <1>4. [survivor |-> s, merged |-> l] \in LogRow
    BY <1>3 DEF LogRow
  <1>5. mergeLog' = Append(mergeLog, [survivor |-> s, merged |-> l])
    BY DEF CommitMerge
  <1>6. mergeLog \in Seq(LogRow)
    BY DEF TypeOK
  <1>7. /\ Len(mergeLog') = Len(mergeLog) + 1
        /\ \A i \in 1..Len(mergeLog) : mergeLog'[i] = mergeLog[i]
        /\ mergeLog'[Len(mergeLog) + 1] = [survivor |-> s, merged |-> l]
    BY ONLY <1>4, <1>5, <1>6, AppendProperties
  <1>8. /\ status' = [status EXCEPT ![l] = "merged"]
        /\ mergedInto' = [mergedInto EXCEPT ![l] = s]
    BY DEF CommitMerge, PointerAfterMerge
  <1> QED
    BY <1>1, <1>2, <1>3, <1>7, <1>8

LEMMA CommitPublishes ==
  ASSUME TypeOK, NEW m \in Mergers, CommitMerge(m)
  PROVE  /\ \A h \in Handles : owner'[h] = OwnerIn(m, h)
         /\ primary' = PrimaryIn(m)
         /\ \A u \in Users : status'[u] = IF u = job[m].loser THEN "merged" ELSE status[u]
         /\ job'[m].pc = "revoking"
         /\ job'[m].survivor = job[m].survivor /\ job'[m].loser = job[m].loser
         /\ txn'[m] = NoTxn
         /\ \A o \in Mergers \ {m} : job'[o] = job[o] /\ txn'[o] = txn[o]
         /\ UNCHANGED <<verified, verifiedAt, clock>>
  <1>1. job[m].pc = "commit" /\ job \in [Mergers -> Job] /\ txn \in [Mergers -> Txn]
    BY DEF CommitMerge, TypeOK
  <1>2. job[m] \in RunningJob
    BY <1>1 DEF Job, IdleJob
  <1> QED
    BY <1>1, <1>2 DEF CommitMerge, TypeOK, RunningJob

(* Only a commit of mergeUsers writes the log and the pointers, and only   *)
(* CreateUser and that commit write a status.                              *)
LEMMA UserRowsWritten ==
  ASSUME TypeOK, [Next]_vars
  PROVE  \/ UNCHANGED userVars
         \/ \E u \in Users : /\ status[u] = "absent"
                             /\ \E st \in {"active", "invited"} :
                                  status' = [status EXCEPT ![u] = st]
                             /\ UNCHANGED <<mergedInto, mergeLog>>
         \/ \E m \in Mergers : CommitMerge(m)
  <1>1. ASSUME NEW u \in Users, NEW st \in {"active", "invited"}, CreateUser(u, st)
        PROVE  /\ status[u] = "absent" /\ status' = [status EXCEPT ![u] = st]
               /\ UNCHANGED <<mergedInto, mergeLog>>
    BY <1>1 DEF CreateUser, Exists
  <1>2. ASSUME NEW u \in Users, NEW e \in Emails, AttachVerified(u, e)
        PROVE  UNCHANGED userVars
    BY <1>2 DEF AttachVerified
  <1>3. ASSUME NEW u \in Users, NEW hs \in ContactHandles, NEW gs \in SUBSET Grants,
               Provision(u, hs, gs)
        PROVE  UNCHANGED userVars
    BY <1>3 DEF Provision
  <1>4. ASSUME NEW m \in Mergers, MergeStep(m)
        PROVE  UNCHANGED userVars \/ CommitMerge(m)
    BY <1>4, CallWrites, SnapshotWrites, RowStatements, AccessStatement
       DEF MergeStep, TxnStep
  <1>5. UNCHANGED <<identityVars, userVars, mergeVars>> => UNCHANGED userVars
    OBVIOUS
  <1> QED
    BY <1>1, <1>2, <1>3, <1>4, <1>5, StepKinds

(* No step breaks the agreement of log and pointers: a commit adds one row *)
(* and sets one pointer, everything else leaves both alone.                *)
LEMMA LogStep == TypeOK /\ LogMatchesPointer /\ [Next]_vars => LogMatchesPointer'
  <1> SUFFICES ASSUME TypeOK, LogMatchesPointer, [Next]_vars PROVE LogMatchesPointer'
    OBVIOUS
  <1>0. mergeLog \in Seq(LogRow) /\ Len(mergeLog) \in Nat
    BY LenProperties DEF TypeOK
  <1>1. CASE UNCHANGED userVars
    BY <1>1 DEF LogMatchesPointer, userVars
  <1>2. ASSUME NEW u \in Users, status[u] = "absent",
               NEW st \in {"active", "invited"}, status' = [status EXCEPT ![u] = st],
               UNCHANGED <<mergedInto, mergeLog>>
        PROVE  LogMatchesPointer'
    BY <1>2 DEF LogMatchesPointer, TypeOK
  <1>3. ASSUME NEW m \in Mergers, CommitMerge(m) PROVE LogMatchesPointer'
    <2>1. PICK s \in Users, l \in Users :
            /\ Len(mergeLog') = Len(mergeLog) + 1
            /\ \A i \in 1..Len(mergeLog) : mergeLog'[i] = mergeLog[i]
            /\ mergeLog'[Len(mergeLog) + 1] = [survivor |-> s, merged |-> l]
            /\ status' = [status EXCEPT ![l] = "merged"]
            /\ mergedInto' = [mergedInto EXCEPT ![l] = s]
      BY <1>3, CommitWrites
    <2> DEFINE n == Len(mergeLog) + 1
               Rows(u) == {i \in 1..Len(mergeLog) : mergeLog[i].merged = u}
               RowsAfter(u) == {i \in 1..n : mergeLog'[i].merged = u}
    <2>2. SUFFICES ASSUME NEW u \in Users
                   PROVE  /\ (status'[u] = "merged") <=> (RowsAfter(u) # {})
                          /\ \A i \in RowsAfter(u) :
                               (\A k \in RowsAfter(u) : k <= i) =>
                                 mergedInto'[u] = mergeLog'[i].survivor
                          /\ RowsAfter(u) = {} => mergedInto'[u] = NULL
      BY <2>1 DEF LogMatchesPointer
    <2>3. CASE u = l
      <3>1. n \in RowsAfter(u) /\ \A k \in RowsAfter(u) : k <= n
        BY <1>0, <2>1, <2>3
      <3>2. \A i \in RowsAfter(u) : (\A k \in RowsAfter(u) : k <= i) => i = n
        BY <1>0, <3>1
      <3>3. status'[u] = "merged" /\ mergedInto'[u] = s
        BY <2>1, <2>3 DEF TypeOK
      <3>4. mergeLog'[n].survivor = s
        BY <2>1
      <3> HIDE DEF RowsAfter, n
      <3> QED
        BY <3>1, <3>2, <3>3, <3>4
    <2>4. CASE u # l
      <3>1. RowsAfter(u) = Rows(u)
        <4>1. n \notin RowsAfter(u)
          BY <2>1, <2>4
        <4>2. 1..n = 1..Len(mergeLog) \cup {n}
          BY <1>0
        <4> QED
          BY <2>1, <4>1, <4>2
      <3>2. status'[u] = status[u] /\ mergedInto'[u] = mergedInto[u]
        BY <2>1, <2>4 DEF TypeOK
      <3>3. \A i \in Rows(u) : mergeLog'[i].survivor = mergeLog[i].survivor
        BY <2>1
      <3>4. (status[u] = "merged") <=> (Rows(u) # {})
        BY DEF LogMatchesPointer
      <3>5. \A i \in Rows(u) : (\A k \in Rows(u) : k <= i) =>
                                 mergedInto[u] = mergeLog[i].survivor
        BY DEF LogMatchesPointer
      <3>6. Rows(u) = {} => mergedInto[u] = NULL
        BY DEF LogMatchesPointer
      <3> HIDE DEF Rows, RowsAfter
      <3> QED
        BY <3>1, <3>2, <3>3, <3>4, <3>5, <3>6
    <2> QED
      BY <2>3, <2>4
  <1> QED
    BY <1>1, <1>2, <1>3, UserRowsWritten

(* The log and the users' pointers agree in every state, whatever merges   *)
(* overlap, fail or are cut short.                                         *)
THEOREM LogAndPointersAgree == Spec => []LogMatchesPointer
  <1>1. Init => LogMatchesPointer
    <2> SUFFICES ASSUME Init PROVE LogMatchesPointer
      OBVIOUS
    <2>1. Len(mergeLog) = 0
      BY DEF Init
    <2>2. 1..Len(mergeLog) = {}
      BY <2>1
    <2> QED
      BY <2>2 DEF Init, LogMatchesPointer
  <1> QED
    BY <1>1, TypesHold, LogStep, PTL DEF Spec

-----------------------------------------------------------------------------
(* A call between its idempotence check and its commit.                    *)
InTxn(m) == job[m].pc \in Statement \cup {"commit"}

(* No two calls of mergeUsers are between their idempotence check and      *)
(* their commit with the same loser.                                       *)
LosersApart ==
  \A m, n \in Mergers :
    InTxn(m) /\ InTxn(n) /\ job[m].loser = job[n].loser => m = n

(* What a call past its check has read is still so.                        *)
CheckHolds == \A m \in Mergers : InTxn(m) => status[job[m].loser] # "merged"

(* A call past its check was there before, or has just read the status.    *)
LEMMA CheckedCalls ==
  ASSUME TypeOK, [Next]_vars, NEW n \in Mergers, InTxn(n)'
  PROVE  \/ InTxn(n) /\ job'[n].loser = job[n].loser
         \/ NotYetMerged(job'[n].loser) /\ UNCHANGED userVars
  <1>1. ASSUME NEW m \in Mergers, MergeStep(m)
        PROVE  \/ InTxn(n) /\ job'[n].loser = job[n].loser
               \/ NotYetMerged(job'[n].loser) /\ UNCHANGED userVars
    <2>1. CASE TxnStep(m)
      BY <2>1, SnapshotWrites, RowStatements, AccessStatement
         DEF TxnStep, InTxn, Statement
    <2>2. CASE CommitMerge(m)
      BY <2>2, CommitPublishes DEF InTxn, Statement
    <2>3. ASSUME \/ \E s, l \in Users : StartMerge(m, s, l)
                 \/ AbortMerge(m) \/ Revoke(m) \/ InterruptRevocation(m)
          PROVE  \/ InTxn(n) /\ job'[n].loser = job[n].loser
                 \/ NotYetMerged(job'[n].loser) /\ UNCHANGED userVars
      BY <2>3, CallWrites DEF InTxn, Statement
    <2> QED
      BY <1>1, <2>1, <2>2, <2>3 DEF MergeStep
  <1>2. UNCHANGED job => InTxn(n) /\ job'[n].loser = job[n].loser
    BY DEF InTxn
  <1>3. (\E u \in Users : \/ \E st \in {"active", "invited"} : CreateUser(u, st)
                          \/ \E e \in Emails : AttachVerified(u, e)
                          \/ \E hs \in ContactHandles, gs \in SUBSET Grants :
                               Provision(u, hs, gs)) => UNCHANGED job
    BY DEF CreateUser, AttachVerified, Provision, mergeVars
  <1>4. UNCHANGED <<identityVars, userVars, mergeVars>> => UNCHANGED job
    BY DEF mergeVars
  <1> QED
    BY <1>1, <1>2, <1>3, <1>4, StepKinds

(* While losers stay apart, a commit merges a user that was not merged.    *)
LEMMA SingleRowStep ==
  ASSUME TypeOK, LogMatchesPointer, LosersApart, CheckHolds, SingleLogRow, [Next]_vars
  PROVE  CheckHolds' /\ SingleLogRow'
  <1>0. Len(mergeLog) \in Nat
    BY DEF TypeOK
  <1>1. CASE UNCHANGED userVars
    BY <1>1, CheckedCalls DEF CheckHolds, SingleLogRow, NotYetMerged, userVars
  <1>2. ASSUME NEW u \in Users, NEW st \in {"active", "invited"},
               status' = [status EXCEPT ![u] = st], UNCHANGED <<mergedInto, mergeLog>>
        PROVE  CheckHolds' /\ SingleLogRow'
    <2>1. \A v \in Users : status[v] # "merged" => status'[v] # "merged"
      BY <1>2 DEF TypeOK
    <2>2. \A n \in Mergers : InTxn(n)' => job'[n].loser \in Users
      BY TypeStep DEF TypeOK, Job, IdleJob, RunningJob, InTxn, Statement
    <2> QED
      BY <1>2, <2>1, <2>2, CheckedCalls DEF CheckHolds, SingleLogRow, NotYetMerged, userVars
  <1>3. ASSUME NEW m \in Mergers, CommitMerge(m) PROVE CheckHolds' /\ SingleLogRow'
    <2>1. PICK s, l \in Users :
            /\ s = job[m].survivor /\ l = job[m].loser
            /\ job[m].pc = "commit"
            /\ job[m] \in RunningJob
            /\ Len(mergeLog') = Len(mergeLog) + 1
            /\ \A i \in 1..Len(mergeLog) : mergeLog'[i] = mergeLog[i]
            /\ mergeLog'[Len(mergeLog) + 1] = [survivor |-> s, merged |-> l]
            /\ status' = [status EXCEPT ![l] = "merged"]
            /\ mergedInto' = [mergedInto EXCEPT ![l] = s]
      BY <1>3, CommitWrites, Zenon
    <2>2. \A i \in 1..Len(mergeLog) : mergeLog[i].merged # l
      BY <2>1 DEF CheckHolds, LogMatchesPointer, InTxn
    <2>3. SingleLogRow'
      BY <1>0, <2>1, <2>2 DEF SingleLogRow
    <2>4. ASSUME NEW n \in Mergers, InTxn(n)'
          PROVE  status'[job'[n].loser] # "merged"
      <3>1. job'[m].pc = "revoking"
        BY <1>3, CommitPublishes
      <3>2. n # m /\ job'[n] = job[n]
        BY <1>3, <2>4, <3>1, CommitPublishes DEF InTxn, Statement
      <3>3. job[n].loser # l
        BY <2>1, <2>4, <3>2 DEF LosersApart, InTxn
      <3> QED
        BY <1>3, <2>1, <2>4, <3>2, <3>3, CommitPublishes, ViewTypes
           DEF CheckHolds, InTxn, Statement
    <2> QED
      BY <2>3, <2>4 DEF CheckHolds
  <1> QED
    BY <1>1, <1>2, <1>3, UserRowsWritten

(* A user is merged once, for any number of users and calls of mergeUsers, *)
(* as long as no two calls are past their check with the same loser.       *)
THEOREM MergedOnce == Spec /\ []LosersApart => []SingleLogRow
  <1>1. Init => CheckHolds /\ SingleLogRow
    <2>1. Init => 1..Len(mergeLog) = {}
      BY DEF Init
    <2> QED
      BY <2>1 DEF Init, CheckHolds, SingleLogRow, IdleJob, InTxn, Statement
  <1>2. TypeOK /\ LogMatchesPointer /\ LosersApart /\ CheckHolds /\ SingleLogRow /\ [Next]_vars
          => CheckHolds' /\ SingleLogRow'
    BY SingleRowStep
  <1> QED
    BY <1>1, <1>2, TypesHold, LogAndPointersAgree, PTL DEF Spec

(* One caller of mergeUsers at a time, as the job is meant to be run.      *)
THEOREM OneMergerMergesOnce ==
  ASSUME \A m, n \in Mergers : m = n
  PROVE  Spec => []SingleLogRow
  <1>1. LosersApart
    BY DEF LosersApart
  <1> QED
    BY <1>1, MergedOnce, PTL

-----------------------------------------------------------------------------
(* What open transactions and the tables have in common: the invariant     *)
(* PrimaryPerType and StrandedExplained need.                              *)

(* The identity rows m's transaction has written that are primary in it.   *)
New(m) == PrimaryIn(m) \cap Held(m)

(* A call is of two users, and has written nothing but in a transaction.   *)
CallsOK ==
  \A m \in Mergers :
    /\ job[m].pc # "idle" => job[m].survivor # job[m].loser
    /\ ~InTxn(m) => txn[m] = NoTxn

(* What the statements have written when m is at one of them.              *)
PhasesOK ==
  \A m \in Mergers :
    /\ job[m].pc = "clear" => Held(m) = {}
    /\ job[m].pc = "move" => txn[m].moved = {} /\ txn[m].promoted = {}

(* Verified rows have an owner and a time of their own, and primary rows,  *)
(* promotions included, are verified; step 2c finds at most one.           *)
VerifiedOK ==
  /\ \A h \in verified : owner[h] # NULL /\ verifiedAt[h] < clock
  /\ \A h, k \in verified : verifiedAt[h] = verifiedAt[k] => h = k
  /\ primary \subseteq verified
  /\ \A m \in Mergers : txn[m].promoted \subseteq verified
  /\ \A m \in Mergers : job[m].pc \in {"email", "phone"} /\ txn[m].looked =>
       /\ txn[m].seen \subseteq verified
       /\ \A h, k \in txn[m].seen : h = k

(* Row locks: no row is written in two transactions, and a row step 2a or  *)
(* 2b has written is still the loser's outside the transaction.            *)
LocksOK ==
  /\ \A m, o \in Mergers : m # o => Held(m) \cap Held(o) = {}
  /\ \A m \in Mergers : \A h \in txn[m].cleared \cup txn[m].moved :
       owner[h] = job[m].loser

(* uq_primary_per_type, over the committed rows and every open transaction.*)
KeysOK ==
  /\ \A h, k \in primary :
       owner[h] = owner[k] /\ HandleType(h) = HandleType(k) => h = k
  /\ \A m \in Mergers : \A h \in New(m) : \A k \in primary \ Held(m) :
       OwnerIn(m, h) = owner[k] /\ HandleType(h) = HandleType(k) => h = k
  /\ \A m, o \in Mergers : \A h \in New(m) : \A k \in New(o) :
       OwnerIn(m, h) = OwnerIn(o, k) /\ HandleType(h) = HandleType(k) => h = k

(* The types of handle step 2c has dealt with.                             *)
Dealt(m, ty) ==
  \/ job[m].pc \in {"access", "commit"}
  \/ job[m].pc = "phone" /\ (ty = "email" \/ txn[m].looked)
  \/ job[m].pc = "email" /\ ty = "email" /\ txn[m].looked

(* The rows that are primary once the statement at hand is through.        *)
SoonPrimary(m, ty) ==
  PrimaryIn(m) \cup (IF job[m].pc = ty THEN txn[m].seen ELSE {})

(* A user that is not merged has a primary handle of each type it has      *)
(* verified, also when an open merge into it will have committed.          *)
LiveOK ==
  /\ \A h \in verified :
       status[owner[h]] # "merged" =>
         \E k \in primary : owner[k] = owner[h] /\ HandleType(k) = HandleType(h)
  /\ \A m \in Mergers : \A h \in txn[m].moved \cap verified :
       Dealt(m, HandleType(h)) /\ status[job[m].survivor] # "merged" =>
         \E k \in SoonPrimary(m, HandleType(h)) :
           OwnerIn(m, k) = job[m].survivor /\ HandleType(k) = HandleType(h)

(* The rows an open transaction moves.                                     *)
Moving(m) == IF job[m].pc = "move" THEN txn[m].seen ELSE txn[m].moved

(* A verified row of a loser moves with it, or came after the snapshot.    *)
LateOK ==
  \A m \in Mergers : \A h \in verified :
    LookedToMove(m) /\ owner[h] = job[m].loser => h \in late \cup Moving(m)

RowsInv == CallsOK /\ PhasesOK /\ VerifiedOK /\ LocksOK /\ KeysOK /\ LiveOK

(* New rows keep those there are: a handle with an owner keeps it, and no  *)
(* transaction is touched.                                                 *)
LEMMA InsertsKeepRows ==
  ASSUME TypeOK, NEW u \in Users,
         \/ \E st \in {"active", "invited"} : CreateUser(u, st)
         \/ \E e \in Emails : AttachVerified(u, e)
         \/ \E hs \in ContactHandles, gs \in SUBSET Grants : Provision(u, hs, gs)
  PROVE  /\ \A h \in Handles : owner[h] # NULL => owner'[h] = owner[h]
         /\ \A v \in Users : (status'[v] = "merged") <=> (status[v] = "merged")
         /\ job' = job /\ txn' = txn
         /\ UNCHANGED mergeLog
  <1>1. ASSUME NEW st \in {"active", "invited"}, CreateUser(u, st)
        PROVE  /\ owner' = owner /\ job' = job /\ txn' = txn /\ UNCHANGED mergeLog
               /\ \A v \in Users : (status'[v] = "merged") <=> (status[v] = "merged")
    BY <1>1 DEF CreateUser, Exists, TypeOK, mergeVars
  <1>2. ASSUME NEW e \in Emails, AttachVerified(u, e)
        PROVE  /\ \A h \in Handles : owner[h] # NULL => owner'[h] = owner[h]
               /\ status' = status /\ job' = job /\ txn' = txn /\ UNCHANGED mergeLog
    BY <1>2 DEF AttachVerified, Free, TypeOK, mergeVars, userVars
  <1>3. ASSUME NEW hs \in ContactHandles, NEW gs \in SUBSET Grants, Provision(u, hs, gs)
        PROVE  /\ \A h \in Handles : owner[h] # NULL => owner'[h] = owner[h]
               /\ status' = status /\ job' = job /\ txn' = txn /\ UNCHANGED mergeLog
    BY <1>3 DEF Provision, Free, TypeOK, mergeVars, userVars
  <1> QED
    BY <1>1, <1>2, <1>3

(* A handle written in a transaction has an owner.                         *)
LEMMA HeldRows ==
  ASSUME TypeOK, CallsOK, VerifiedOK, LocksOK, NEW m \in Mergers, NEW h \in Held(m)
  PROVE  h \in Handles /\ owner[h] # NULL /\ InTxn(m)
  <1>1. Held(m) \subseteq Handles
    BY ViewTypes
  <1>2. InTxn(m)
    BY DEF CallsOK, NoTxn, Held
  <1>3. job[m].loser \in Users
    BY <1>2, ViewTypes DEF InTxn, Statement
  <1>4. CASE h \in txn[m].cleared \cup txn[m].moved
    BY <1>1, <1>2, <1>3, <1>4, MergeAssumption DEF LocksOK
  <1>5. CASE h \in txn[m].promoted
    BY <1>1, <1>2, <1>5 DEF VerifiedOK
  <1> QED
    BY <1>4, <1>5 DEF Held

(* Calls keep their two users, and begin and end with empty transactions.  *)
LEMMA CallsStep == TypeOK /\ CallsOK /\ [Next]_vars => CallsOK'
  <1> SUFFICES ASSUME TypeOK, CallsOK, [Next]_vars PROVE CallsOK'
    OBVIOUS
  <1>1. ASSUME job' = job, txn' = txn PROVE CallsOK'
    BY <1>1 DEF CallsOK, InTxn
  <1>2. ASSUME NEW m \in Mergers, MergeStep(m) PROVE CallsOK'
    <2>1. CASE TakeSnapshot(m)
      BY <2>1, SnapshotWrites DEF CallsOK, InTxn
    <2>2. ASSUME NEW ty \in {"email", "phone"},
                 ClearPrimaries(m) \/ MoveHandles(m) \/ PromotePrimary(m, ty)
          PROVE  CallsOK'
      <3>1. Following[job[m].pc] \in Statement \cup {"commit"} /\ job[m].pc # "idle"
        BY <2>2, RowStatements DEF Following, Statement
      <3> QED
        BY <2>2, <3>1, RowStatements DEF CallsOK, InTxn
    <2>3. CASE UniteAccess(m)
      BY <2>3, AccessStatement DEF CallsOK, InTxn
    <2>4. CASE CommitMerge(m)
      <3>1. job[m].pc = "commit" /\ job[m].survivor # job[m].loser
        BY <2>4 DEF CommitMerge, CallsOK
      <3>2. /\ job'[m].survivor = job[m].survivor /\ job'[m].loser = job[m].loser
            /\ txn'[m] = NoTxn
            /\ \A o \in Mergers \ {m} : job'[o] = job[o] /\ txn'[o] = txn[o]
        BY <2>4, CommitPublishes
      <3> QED
        BY <3>1, <3>2 DEF CallsOK, InTxn
    <2>5. ASSUME \/ \E s, l \in Users : StartMerge(m, s, l)
                 \/ AbortMerge(m) \/ Revoke(m) \/ InterruptRevocation(m)
          PROVE  CallsOK'
      BY <2>5, CallWrites DEF CallsOK, InTxn, Statement
    <2> QED
      BY <1>2, <2>1, <2>2, <2>3, <2>4, <2>5 DEF MergeStep, TxnStep
  <1> QED
    BY <1>1, <1>2, StepKinds, InsertsKeepRows DEF mergeVars

(* The statements come in order.                                           *)
LEMMA PhasesStep == TypeOK /\ CallsOK /\ PhasesOK /\ [Next]_vars => PhasesOK'
  <1> SUFFICES ASSUME TypeOK, CallsOK, PhasesOK, [Next]_vars PROVE PhasesOK'
    OBVIOUS
  <1>1. ASSUME job' = job, txn' = txn PROVE PhasesOK'
    BY <1>1 DEF PhasesOK, Held
  <1>2. ASSUME NEW m \in Mergers, MergeStep(m) PROVE PhasesOK'
    <2>1. CASE TakeSnapshot(m)
      BY <2>1, SnapshotWrites DEF PhasesOK, Held
    <2>2. ASSUME NEW ty \in {"email", "phone"},
                 ClearPrimaries(m) \/ MoveHandles(m) \/ PromotePrimary(m, ty)
          PROVE  PhasesOK'
      BY <2>2, RowStatements DEF PhasesOK, Held, Following
    <2>3. CASE UniteAccess(m)
      BY <2>3, AccessStatement DEF PhasesOK, Held
    <2>4. CASE CommitMerge(m)
      BY <2>4, CommitPublishes DEF PhasesOK, Held
    <2>5. ASSUME \/ \E s, l \in Users : StartMerge(m, s, l)
                 \/ AbortMerge(m) \/ Revoke(m) \/ InterruptRevocation(m)
          PROVE  PhasesOK'
      BY <2>5, CallWrites DEF PhasesOK, Held, CallsOK, InTxn, Statement, NoTxn
    <2> QED
      BY <1>2, <2>1, <2>2, <2>3, <2>4, <2>5 DEF MergeStep, TxnStep
  <1> QED
    BY <1>1, <1>2, StepKinds, InsertsKeepRows DEF mergeVars

(* Step 2c finds at most one row: a verified one of the survivor.          *)
LEMMA PromotedIsOne ==
  ASSUME TypeOK, VerifiedOK, NEW m \in Mergers, NEW ty \in {"email", "phone"}
  PROVE  /\ Promoted(m, ty) \subseteq verified
         /\ \A h \in Promoted(m, ty) :
              HandleType(h) = ty /\ OwnerIn(m, h) = job[m].survivor
         /\ \A h, k \in Promoted(m, ty) : h = k
  <1>1. /\ Promoted(m, ty) \subseteq verified
        /\ \A h \in Promoted(m, ty) :
             HandleType(h) = ty /\ OwnerIn(m, h) = job[m].survivor
    BY DEF Promoted, OfType
  <1>2. ASSUME NEW h \in Promoted(m, ty), NEW k \in Promoted(m, ty) PROVE h = k
    <2>1. verifiedAt[h] <= verifiedAt[k] /\ verifiedAt[k] <= verifiedAt[h]
      BY <1>2 DEF Promoted
    <2>2. verifiedAt[h] \in Nat /\ verifiedAt[k] \in Nat
      BY <1>1 DEF TypeOK
    <2> QED
      BY <1>1, <2>1, <2>2 DEF VerifiedOK
  <1> QED
    BY <1>1, <1>2

(* Verified rows stay verified, with an owner, and only they are promoted. *)
LEMMA VerifiedStep == TypeOK /\ CallsOK /\ VerifiedOK /\ [Next]_vars => VerifiedOK'
  <1> SUFFICES ASSUME TypeOK, CallsOK, VerifiedOK, [Next]_vars PROVE VerifiedOK'
    OBVIOUS
  <1>0. verified \subseteq Handles
    BY DEF TypeOK
  <1>1. ASSUME UNCHANGED <<identityVars, userVars, mergeVars>> PROVE VerifiedOK'
    BY <1>1 DEF VerifiedOK, identityVars, mergeVars
  <1>2. ASSUME NEW u \in Users, NEW st \in {"active", "invited"}, CreateUser(u, st)
        PROVE  VerifiedOK'
    BY <1>2 DEF VerifiedOK, CreateUser, mergeVars
  <1>3. ASSUME NEW u \in Users, NEW e \in Emails, AttachVerified(u, e) PROVE VerifiedOK'
    <2>1. /\ e \in Handles /\ owner[e] = NULL /\ u # NULL /\ e \notin verified
          /\ owner' = [owner EXCEPT ![e] = u] /\ job' = job /\ txn' = txn
          /\ verified' = verified \cup {e} /\ primary' = primary \cup {e}
          /\ verifiedAt' = [verifiedAt EXCEPT ![e] = clock] /\ clock' = clock + 1
      BY <1>3, MergeAssumption DEF AttachVerified, Free, Handles, VerifiedOK, mergeVars
    <2>2. \A h \in verified : verifiedAt[h] \in Nat /\ clock \in Nat
      BY <1>0 DEF TypeOK
    <2>3. \A h \in verified' : owner'[h] # NULL /\ verifiedAt'[h] < clock'
      BY <1>0, <2>1, <2>2 DEF VerifiedOK, TypeOK
    <2>4. \A h, k \in verified' : verifiedAt'[h] = verifiedAt'[k] => h = k
      BY <1>0, <2>1, <2>2 DEF VerifiedOK, TypeOK
    <2>5. /\ primary' \subseteq verified'
          /\ \A m \in Mergers : txn'[m].promoted \subseteq verified'
          /\ \A m \in Mergers : job'[m].pc \in {"email", "phone"} /\ txn'[m].looked =>
               /\ txn'[m].seen \subseteq verified'
               /\ \A h, k \in txn'[m].seen : h = k
      BY <2>1 DEF VerifiedOK
    <2> QED
      BY <2>3, <2>4, <2>5 DEF VerifiedOK
  <1>4. ASSUME NEW u \in Users, NEW hs \in ContactHandles, NEW gs \in SUBSET Grants,
               Provision(u, hs, gs)
        PROVE  VerifiedOK'
    <2>1. /\ \A h \in verified : owner'[h] = owner[h]
          /\ UNCHANGED <<verified, primary, verifiedAt, clock>>
          /\ job' = job /\ txn' = txn
      BY <1>0, <1>4, InsertsKeepRows DEF Provision, VerifiedOK
    <2> QED
      BY <2>1 DEF VerifiedOK
  <1>5. ASSUME NEW m \in Mergers, MergeStep(m) PROVE VerifiedOK'
    <2>1. CASE TakeSnapshot(m)
      <3>1. job[m].pc \in {"email", "phone"} => Selected(m) = Promoted(m, job[m].pc)
        BY DEF Selected
      <3>2. job[m].pc \in {"email", "phone"} =>
              /\ Selected(m) \subseteq verified
              /\ \A h, k \in Selected(m) : h = k
        BY <3>1, PromotedIsOne
      <3> QED
        BY <2>1, <3>2, SnapshotWrites DEF VerifiedOK, identityVars
    <2>2. ASSUME NEW ty \in {"email", "phone"},
                 ClearPrimaries(m) \/ MoveHandles(m) \/ PromotePrimary(m, ty)
          PROVE  VerifiedOK'
      BY <2>2, RowStatements DEF VerifiedOK, identityVars
    <2>3. CASE UniteAccess(m)
      BY <2>3, AccessStatement DEF VerifiedOK, identityVars
    <2>4. CASE CommitMerge(m)
      <3>1. job[m].survivor \in Users /\ NULL \notin Users
        BY <2>4, CommitWrites, MergeAssumption
      <3>2. \A h \in verified : owner'[h] # NULL
        BY <1>0, <2>4, <3>1, CommitPublishes DEF VerifiedOK, OwnerIn
      <3>3. primary' \subseteq verified
        BY <2>4, CommitPublishes DEF VerifiedOK, PrimaryIn
      <3>4. \A o \in Mergers : \/ txn'[o] = NoTxn /\ job'[o].pc = "revoking"
                               \/ txn'[o] = txn[o] /\ job'[o] = job[o]
        BY <2>4, CommitPublishes
      <3> QED
        BY <2>4, <3>2, <3>3, <3>4, CommitPublishes DEF VerifiedOK, NoTxn
    <2>5. ASSUME \/ \E s, l \in Users : StartMerge(m, s, l)
                 \/ AbortMerge(m) \/ Revoke(m) \/ InterruptRevocation(m)
          PROVE  VerifiedOK'
      BY <2>5, CallWrites DEF VerifiedOK, identityVars, NoTxn
    <2> QED
      BY <1>5, <2>1, <2>2, <2>3, <2>4, <2>5 DEF MergeStep, TxnStep
  <1> QED
    BY <1>1, <1>2, <1>3, <1>4, <1>5, StepKinds

(* A commit leaves the rows other transactions hold as they were.          *)
LEMMA CommitSparesHeld ==
  ASSUME TypeOK, LocksOK, NEW m \in Mergers, CommitMerge(m),
         NEW o \in Mergers \ {m}, NEW h \in Held(o)
  PROVE  /\ owner'[h] = owner[h] /\ h \notin Held(m)
         /\ h \in primary' <=> h \in primary
  <1>1. h \in Handles /\ h \notin Held(m)
    BY ViewTypes DEF LocksOK
  <1> QED
    BY <1>1, CommitPublishes DEF OwnerIn, PrimaryIn, Held

(* Row locks keep the transactions apart.                                  *)
LEMMA LocksStep ==
  TypeOK /\ CallsOK /\ VerifiedOK /\ LocksOK /\ [Next]_vars => LocksOK'
  <1> SUFFICES ASSUME TypeOK, CallsOK, VerifiedOK, LocksOK, [Next]_vars PROVE LocksOK'
    OBVIOUS
  <1>1. ASSUME UNCHANGED <<identityVars, userVars, mergeVars>> PROVE LocksOK'
    BY <1>1 DEF LocksOK, identityVars, mergeVars, Held
  <1>2. ASSUME job' = job, txn' = txn,
               \A h \in Handles : owner[h] # NULL => owner'[h] = owner[h]
        PROVE  LocksOK'
    BY <1>2, HeldRows DEF LocksOK, Held
  <1>5. ASSUME NEW m \in Mergers, MergeStep(m) PROVE LocksOK'
    <2>1. CASE TakeSnapshot(m)
      BY <2>1, SnapshotWrites DEF LocksOK, Held, identityVars
    <2>2. ASSUME NEW ty \in {"email", "phone"},
                 ClearPrimaries(m) \/ MoveHandles(m) \/ PromotePrimary(m, ty)
          PROVE  LocksOK'
      <3>1. \A o \in Mergers \ {m} : txn[m].seen \cap Held(o) = {}
        BY <2>2 DEF ClearPrimaries, MoveHandles, PromotePrimary, Unlocked
      <3>2. StillOwned(m) \subseteq txn[m].seen
            /\ \A h \in StillOwned(m) : owner[h] = job[m].loser
        BY DEF StillOwned
      <3>3. Held(m)' \subseteq Held(m) \cup txn[m].seen
        BY <2>2, <3>2, RowStatements DEF Held
      <3>4. \A o \in Mergers \ {m} : Held(o)' = Held(o)
        BY <2>2, RowStatements DEF Held
      <3>5. \A o \in Mergers \ {m} : Held(m)' \cap Held(o)' = {}
        BY <3>1, <3>3, <3>4 DEF LocksOK
      <3>6. \A h \in txn'[m].cleared \cup txn'[m].moved : owner'[h] = job'[m].loser
        BY <2>2, <3>2, RowStatements DEF LocksOK, identityVars
      <3> QED
        BY <2>2, <3>4, <3>5, <3>6, RowStatements DEF LocksOK, identityVars
    <2>3. CASE UniteAccess(m)
      BY <2>3, AccessStatement DEF LocksOK, Held, identityVars
    <2>4. CASE CommitMerge(m)
      <3>1. Held(m)' = {} /\ txn'[m].cleared = {} /\ txn'[m].moved = {}
        BY <2>4, CommitPublishes DEF Held, NoTxn
      <3>2. \A o \in Mergers \ {m} : Held(o)' = Held(o) /\ job'[o] = job[o] /\ txn'[o] = txn[o]
        BY <2>4, CommitPublishes DEF Held
      <3>3. \A o \in Mergers \ {m} : \A h \in txn[o].cleared \cup txn[o].moved :
              owner'[h] = owner[h]
        BY <2>4, CommitSparesHeld DEF Held
      <3> QED
        BY <3>1, <3>2, <3>3 DEF LocksOK
    <2>5. ASSUME \/ \E s, l \in Users : StartMerge(m, s, l)
                 \/ AbortMerge(m) \/ Revoke(m) \/ InterruptRevocation(m)
          PROVE  LocksOK'
      <3>1. \A o \in Mergers : \/ txn'[o] = NoTxn
                               \/ txn'[o] = txn[o] /\ job'[o].loser = job[o].loser
                               \/ txn'[o] = txn[o] /\ txn[o] = NoTxn
        BY <2>5, CallWrites DEF CallsOK, InTxn, Statement
      <3> QED
        BY <2>5, <3>1, CallWrites DEF LocksOK, Held, identityVars, NoTxn
    <2> QED
      BY <1>5, <2>1, <2>2, <2>3, <2>4, <2>5 DEF MergeStep, TxnStep
  <1> QED
    BY <1>1, <1>2, <1>5, StepKinds, InsertsKeepRows


-----------------------------------------------------------------------------
(* uq_primary_per_type, across transactions.                               *)

(* What the index tells a writer of row h with owner u.                    *)
LEMMA KeyFreeMeans ==
  ASSUME NEW mine, NEW h \in Handles, NEW u, KeyFree(mine, h, u),
         NEW k \in Handles, HandleType(k) = HandleType(h), k # h
  PROVE  /\ k \in primary \ mine => owner[k] # u
         /\ \A o \in Mergers : k \in New(o) => OwnerIn(o, k) # u
  BY DEF KeyFree, OfType, New

(* The keys stay apart when no row gets a new one.                         *)
LEMMA KeysKept ==
  ASSUME KeysOK, primary' = primary,
         \A k \in primary : owner'[k] = owner[k],
         \A o \in Mergers :
           \/ New(o)' = {}
           \/ /\ New(o)' = New(o) /\ Held(o)' = Held(o)
              /\ \A h \in New(o) : OwnerIn(o, h)' = OwnerIn(o, h)
  PROVE  KeysOK'
  <1>1. \A h, k \in primary' :
          owner'[h] = owner'[k] /\ HandleType(h) = HandleType(k) => h = k
    BY DEF KeysOK
  <1>2. \A m \in Mergers : \A h \in New(m)' : \A k \in primary' \ Held(m)' :
          OwnerIn(m, h)' = owner'[k] /\ HandleType(h) = HandleType(k) => h = k
    BY DEF KeysOK
  <1>3. \A m, o \in Mergers : \A h \in New(m)' : \A k \in New(o)' :
          OwnerIn(m, h)' = OwnerIn(o, k)' /\ HandleType(h) = HandleType(k) => h = k
    BY DEF KeysOK
  <1> QED
    BY <1>1, <1>2, <1>3 DEF KeysOK

(* One transaction writes rows: what it has to show for its own.           *)
LEMMA KeysWritten ==
  ASSUME KeysOK, primary' = primary, owner' = owner, NEW m \in Mergers,
         \A o \in Mergers \ {m} :
           /\ New(o)' = New(o) /\ Held(o)' = Held(o)
           /\ \A h \in New(o) : OwnerIn(o, h)' = OwnerIn(o, h),
         \A h \in New(m)' : \A k \in primary \ Held(m)' :
           OwnerIn(m, h)' = owner[k] /\ HandleType(h) = HandleType(k) => h = k,
         \A h, k \in New(m)' :
           OwnerIn(m, h)' = OwnerIn(m, k)' /\ HandleType(h) = HandleType(k) => h = k,
         \A o \in Mergers \ {m} : \A h \in New(m)' : \A k \in New(o) :
           OwnerIn(m, h)' = OwnerIn(o, k) /\ HandleType(h) = HandleType(k) => h = k
  PROVE  KeysOK'
  <1>1. \A h, k \in primary' :
          owner'[h] = owner'[k] /\ HandleType(h) = HandleType(k) => h = k
    BY DEF KeysOK
  <1>2. \A n \in Mergers : \A h \in New(n)' : \A k \in primary' \ Held(n)' :
          OwnerIn(n, h)' = owner'[k] /\ HandleType(h) = HandleType(k) => h = k
    BY DEF KeysOK
  <1>3. \A n, o \in Mergers : \A h \in New(n)' : \A k \in New(o)' :
          OwnerIn(n, h)' = OwnerIn(o, k)' /\ HandleType(h) = HandleType(k) => h = k
    <2> SUFFICES ASSUME NEW n \in Mergers, NEW o \in Mergers,
                        NEW h \in New(n)', NEW k \in New(o)',
                        OwnerIn(n, h)' = OwnerIn(o, k)', HandleType(h) = HandleType(k)
                 PROVE  h = k
      OBVIOUS
    <2>1. CASE n = m /\ o = m
      BY <2>1
    <2>2. CASE n = m /\ o # m
      BY <2>2
    <2>3. CASE n # m /\ o = m
      BY <2>3
    <2>4. CASE n # m /\ o # m
      BY <2>4 DEF KeysOK
    <2> QED
      BY <2>1, <2>2, <2>3, <2>4
  <1> QED
    BY <1>1, <1>2, <1>3 DEF KeysOK

(* A new verified row is primary where no other is.                        *)
LEMMA KeysAttached ==
  ASSUME TypeOK, CallsOK, VerifiedOK, LocksOK, KeysOK,
         NEW u \in Users, NEW e \in Emails, AttachVerified(u, e)
  PROVE  KeysOK'
  <1>1. /\ e \in Handles /\ owner[e] = NULL /\ e \notin primary
        /\ KeyFree({}, e, u)
        /\ owner' = [owner EXCEPT ![e] = u] /\ primary' = primary \cup {e}
        /\ job' = job /\ txn' = txn /\ primary \subseteq Handles
    BY DEF AttachVerified, Free, Handles, VerifiedOK, mergeVars, TypeOK
  <1>2. owner'[e] = u /\ \A k \in Handles \ {e} : owner'[k] = owner[k]
    BY <1>1 DEF TypeOK
  <1>3. \A o \in Mergers : e \notin Held(o) /\ Held(o) \subseteq Handles
    BY <1>1, HeldRows, ViewTypes
  <1>4. \A o \in Mergers : /\ Held(o)' = Held(o) /\ New(o)' = New(o)
                           /\ New(o) \subseteq Handles \ {e}
    BY <1>1, <1>3 DEF Held, New, PrimaryIn
  <1>5. \A o \in Mergers : \A h \in New(o) : OwnerIn(o, h)' = OwnerIn(o, h)
    BY <1>1, <1>2, <1>4 DEF OwnerIn
  <1>6. \A k \in primary : owner'[k] = owner[k]
    BY <1>1, <1>2
  <1>7. \A k \in primary : HandleType(k) = HandleType(e) => owner[k] # u
    BY <1>1, KeyFreeMeans
  <1>8. \A o \in Mergers : \A k \in New(o) :
          HandleType(k) = HandleType(e) => OwnerIn(o, k) # u
    BY <1>1, <1>4, KeyFreeMeans
  <1>9. \A h, k \in primary' :
          owner'[h] = owner'[k] /\ HandleType(h) = HandleType(k) => h = k
    BY <1>1, <1>2, <1>6, <1>7 DEF KeysOK
  <1>10. \A m \in Mergers : \A h \in New(m)' : \A k \in primary' \ Held(m)' :
          OwnerIn(m, h)' = owner'[k] /\ HandleType(h) = HandleType(k) => h = k
    BY <1>1, <1>2, <1>4, <1>5, <1>6, <1>8 DEF KeysOK
  <1>11. \A m, o \in Mergers : \A h \in New(m)' : \A k \in New(o)' :
          OwnerIn(m, h)' = OwnerIn(o, k)' /\ HandleType(h) = HandleType(k) => h = k
    BY <1>4, <1>5 DEF KeysOK
  <1> QED
    BY <1>9, <1>10, <1>11 DEF KeysOK

(* Steps 2a, 2b and 2c wait for, or fail at, the rows of the index.        *)
LEMMA KeysOfStatements ==
  ASSUME TypeOK, CallsOK, PhasesOK, VerifiedOK, LocksOK, KeysOK,
         NEW m \in Mergers, NEW ty \in {"email", "phone"},
         ClearPrimaries(m) \/ MoveHandles(m) \/ PromotePrimary(m, ty)
  PROVE  KeysOK'
  <1>1. /\ \A o \in Mergers \ {m} : txn'[o] = txn[o] /\ job'[o] = job[o]
        /\ job'[m].survivor = job[m].survivor
        /\ primary' = primary /\ owner' = owner
    BY RowStatements DEF identityVars
  <1>2. \A o \in Mergers \ {m} :
          /\ New(o)' = New(o) /\ Held(o)' = Held(o)
          /\ \A h \in New(o) : OwnerIn(o, h)' = OwnerIn(o, h)
    BY <1>1 DEF New, PrimaryIn, Held, OwnerIn
  <1>3. CASE ClearPrimaries(m)
    <2>1. /\ txn[m].moved = {} /\ txn[m].promoted = {}
          /\ txn'[m].moved = {} /\ txn'[m].promoted = {}
      BY <1>3, RowStatements DEF ClearPrimaries, Executing, PhasesOK, Held
    <2>2. New(m)' = {}
      BY <2>1 DEF New, PrimaryIn, Held
    <2> QED
      BY <1>1, <1>2, <2>2, KeysKept
  <1>4. CASE MoveHandles(m)
    <2>1. /\ job[m].pc = "move"
          /\ txn[m].moved = {} /\ txn[m].promoted = {}
          /\ txn'[m].moved = StillOwned(m) /\ txn'[m].cleared = txn[m].cleared
          /\ txn'[m].promoted = {}
      BY <1>4, RowStatements DEF MoveHandles, Executing, PhasesOK
    <2>2. /\ Held(m) = txn[m].cleared /\ Held(m)' = txn[m].cleared \cup StillOwned(m)
          /\ PrimaryIn(m) = primary \ txn[m].cleared
          /\ New(m)' = (StillOwned(m) \cap primary) \ txn[m].cleared
      BY <1>1, <2>1 DEF Held, PrimaryIn, New
    <2>3. \A h \in New(m)' : /\ h \in primary /\ h \in Handles
                             /\ owner[h] = job[m].loser
                             /\ OwnerIn(m, h)' = job[m].survivor
                             /\ KeyFree(Held(m), h, job[m].survivor)
      BY <1>1, <1>4, <2>1, <2>2, ViewTypes DEF MoveHandles, StillOwned, OwnerIn
    <2>4. \A h \in New(m)' : \A k \in primary \ Held(m)' :
           OwnerIn(m, h)' = owner[k] /\ HandleType(h) = HandleType(k) => h = k
      <3>1. primary \subseteq Handles /\ Held(m) \subseteq Held(m)'
        BY <2>2 DEF TypeOK
      <3>2. \A h \in New(m)' : \A k \in primary \ Held(m) :
              job[m].survivor = owner[k] /\ HandleType(h) = HandleType(k) => h = k
        BY <2>3, <3>1, KeyFreeMeans
      <3> QED
        BY <2>3, <3>1, <3>2
    <2>5. \A h, k \in New(m)' :
           OwnerIn(m, h)' = OwnerIn(m, k)' /\ HandleType(h) = HandleType(k) => h = k
      BY <2>3 DEF KeysOK
    <2>6. \A o \in Mergers \ {m} : \A h \in New(m)' : \A k \in New(o) :
           OwnerIn(m, h)' = OwnerIn(o, k) /\ HandleType(h) = HandleType(k) => h = k
      <3>1. \A o \in Mergers : New(o) \subseteq Handles
        BY ViewTypes DEF New
      <3> QED
        BY <2>3, <3>1, KeyFreeMeans
    <2> QED
      BY <1>1, <1>2, <2>4, <2>5, <2>6, KeysWritten
  <1>5. CASE PromotePrimary(m, ty)
    <2>1. /\ job[m].pc = ty /\ txn[m].looked
          /\ txn'[m].promoted = txn[m].promoted \cup txn[m].seen
          /\ txn'[m].cleared = txn[m].cleared /\ txn'[m].moved = txn[m].moved
      BY <1>5, RowStatements DEF PromotePrimary, Executing
    <2>2. New(m)' = New(m) \cup txn[m].seen /\ Held(m) \subseteq Held(m)'
      BY <1>1, <2>1 DEF Held, PrimaryIn, New
    <2>3. \A h \in Handles : OwnerIn(m, h)' = OwnerIn(m, h)
      BY <1>1, <2>1 DEF OwnerIn
    <2>4. /\ txn[m].seen \subseteq Handles
          /\ \A h, k \in txn[m].seen : h = k
          /\ \A h \in txn[m].seen : KeyFree(Held(m), h, OwnerIn(m, h))
      BY <1>5, <2>1 DEF PromotePrimary, VerifiedOK, TypeOK
    <2>5. \A o \in Mergers : New(o) \subseteq Handles
      BY ViewTypes DEF New
    <2>6. \A o \in Mergers : \A h \in txn[m].seen : \A k \in New(o) :
           OwnerIn(m, h) = OwnerIn(o, k) /\ HandleType(h) = HandleType(k) => h = k
      BY <2>4, <2>5, KeyFreeMeans
    <2>7. \A h \in txn[m].seen : \A k \in primary \ Held(m) :
           OwnerIn(m, h) = owner[k] /\ HandleType(h) = HandleType(k) => h = k
      BY <2>4, KeyFreeMeans DEF TypeOK
    <2>8. \A h \in New(m)' : \A k \in primary \ Held(m)' :
           OwnerIn(m, h)' = owner[k] /\ HandleType(h) = HandleType(k) => h = k
      BY <2>2, <2>3, <2>4, <2>5, <2>7 DEF KeysOK
    <2>9. \A h, k \in New(m)' :
           OwnerIn(m, h)' = OwnerIn(m, k)' /\ HandleType(h) = HandleType(k) => h = k
      BY <2>2, <2>3, <2>4, <2>5, <2>6 DEF KeysOK
    <2>10. \A o \in Mergers \ {m} : \A h \in New(m)' : \A k \in New(o) :
           OwnerIn(m, h)' = OwnerIn(o, k) /\ HandleType(h) = HandleType(k) => h = k
      BY <2>2, <2>3, <2>4, <2>5, <2>6 DEF KeysOK
    <2> QED
      BY <1>1, <1>2, <2>8, <2>9, <2>10, KeysWritten
  <1> QED
    BY <1>3, <1>4, <1>5

(* A commit turns a transaction's rows into the table's.                   *)
LEMMA KeysCommitted ==
  ASSUME TypeOK, LocksOK, KeysOK, NEW m \in Mergers, CommitMerge(m)
  PROVE  KeysOK'
  <1>1. /\ primary' = PrimaryIn(m) /\ PrimaryIn(m) \subseteq Handles
        /\ \A h \in Handles : owner'[h] = OwnerIn(m, h)
        /\ txn'[m] = NoTxn
        /\ \A o \in Mergers \ {m} : job'[o] = job[o] /\ txn'[o] = txn[o]
    BY CommitPublishes, ViewTypes
  <1>2. Held(m)' = {} /\ New(m)' = {}
    BY <1>1 DEF Held, New, NoTxn
  <1>3. \A o \in Mergers \ {m} : \A h \in Held(o) :
          owner'[h] = owner[h] /\ (h \in primary' <=> h \in primary)
    BY CommitSparesHeld
  <1>4. \A o \in Mergers \ {m} : Held(o)' = Held(o) /\ New(o)' = New(o)
    <2> SUFFICES ASSUME NEW o \in Mergers \ {m}
                 PROVE  Held(o)' = Held(o) /\ New(o)' = New(o)
      OBVIOUS
    <2>1. txn'[o] = txn[o]
      BY <1>1
    <2>2. Held(o)' = Held(o)
      BY <2>1 DEF Held
    <2> QED
      BY <1>3, <2>1, <2>2 DEF New, PrimaryIn
  <1>5. \A o \in Mergers \ {m} : \A h \in New(o) : OwnerIn(o, h)' = OwnerIn(o, h)
    BY <1>1, <1>3 DEF New, OwnerIn
  <1>6. \A h \in PrimaryIn(m) :
          \/ h \in New(m)
          \/ h \in primary \ Held(m) /\ OwnerIn(m, h) = owner[h]
    BY DEF New, PrimaryIn, Held, OwnerIn
  <1>7. \A h, k \in primary' :
          owner'[h] = owner'[k] /\ HandleType(h) = HandleType(k) => h = k
    BY <1>1, <1>6 DEF KeysOK
  <1>8. \A o \in Mergers : \A h \in New(o)' : \A k \in primary' \ Held(o)' :
          OwnerIn(o, h)' = owner'[k] /\ HandleType(h) = HandleType(k) => h = k
    BY <1>1, <1>2, <1>4, <1>5, <1>6 DEF KeysOK
  <1>9. \A n, o \in Mergers : \A h \in New(n)' : \A k \in New(o)' :
          OwnerIn(n, h)' = OwnerIn(o, k)' /\ HandleType(h) = HandleType(k) => h = k
    BY <1>2, <1>4, <1>5 DEF KeysOK
  <1> QED
    BY <1>7, <1>8, <1>9 DEF KeysOK

(* No step gives two rows the same key.                                    *)
LEMMA KeysStep ==
  TypeOK /\ CallsOK /\ PhasesOK /\ VerifiedOK /\ LocksOK /\ KeysOK /\ [Next]_vars
    => KeysOK'
  <1> SUFFICES ASSUME TypeOK, CallsOK, PhasesOK, VerifiedOK, LocksOK, KeysOK, [Next]_vars
               PROVE  KeysOK'
    OBVIOUS
  <1>1. ASSUME primary' = primary, job' = job, txn' = txn,
               \A h \in Handles : owner[h] # NULL => owner'[h] = owner[h]
        PROVE  KeysOK'
    <2>1. \A k \in primary : owner'[k] = owner[k]
      BY <1>1 DEF VerifiedOK, TypeOK
    <2>2. \A o \in Mergers : New(o)' = New(o) /\ Held(o)' = Held(o)
      BY <1>1 DEF New, PrimaryIn, Held
    <2>3. \A o \in Mergers : \A h \in New(o) : OwnerIn(o, h)' = OwnerIn(o, h)
      BY <1>1, HeldRows DEF New, OwnerIn
    <2> QED
      BY <1>1, <2>1, <2>2, <2>3, KeysKept
  <1>2. ASSUME UNCHANGED <<identityVars, mergeVars>> PROVE KeysOK'
    BY <1>1, <1>2 DEF identityVars, mergeVars
  <1>3. ASSUME NEW u \in Users, NEW st \in {"active", "invited"}, CreateUser(u, st)
        PROVE  KeysOK'
    BY <1>1, <1>3 DEF CreateUser, mergeVars
  <1>4. ASSUME NEW u \in Users, NEW hs \in ContactHandles, NEW gs \in SUBSET Grants,
               Provision(u, hs, gs)
        PROVE  KeysOK'
    BY <1>1, <1>4, InsertsKeepRows DEF Provision
  <1>5. ASSUME NEW m \in Mergers,
               /\ owner' = owner /\ primary' = primary
               /\ \A o \in Mergers \ {m} : job'[o] = job[o] /\ txn'[o] = txn[o]
               /\ \/ /\ job'[m].survivor = job[m].survivor
                     /\ txn'[m].cleared = txn[m].cleared /\ txn'[m].moved = txn[m].moved
                     /\ txn'[m].promoted = txn[m].promoted
                  \/ txn'[m] = NoTxn
        PROVE  KeysOK'
    <2>1. \A o \in Mergers \ {m} :
            /\ New(o)' = New(o) /\ Held(o)' = Held(o)
            /\ \A h \in New(o) : OwnerIn(o, h)' = OwnerIn(o, h)
      BY <1>5 DEF New, PrimaryIn, Held, OwnerIn
    <2>2. CASE txn'[m] = NoTxn
      <3>1. New(m)' = {}
        BY <2>2 DEF New, Held, NoTxn
      <3> QED
        BY <1>5, <2>1, <3>1, KeysKept
    <2>3. CASE txn'[m] # NoTxn
      <3>1. /\ New(m)' = New(m) /\ Held(m)' = Held(m)
            /\ \A h \in New(m) : OwnerIn(m, h)' = OwnerIn(m, h)
        BY <1>5, <2>3 DEF New, PrimaryIn, Held, OwnerIn
      <3> QED
        BY <1>5, <2>1, <3>1, KeysKept
    <2> QED
      BY <2>2, <2>3
  <1>6. ASSUME NEW m \in Mergers, MergeStep(m) PROVE KeysOK'
    <2>1. CASE TakeSnapshot(m)
      BY <1>5, <2>1, SnapshotWrites DEF identityVars
    <2>2. CASE UniteAccess(m)
      BY <1>5, <2>2, AccessStatement DEF identityVars
    <2>3. ASSUME \/ \E s, l \in Users : StartMerge(m, s, l)
                 \/ AbortMerge(m) \/ Revoke(m) \/ InterruptRevocation(m)
          PROVE  KeysOK'
      <3>1. txn'[m] = NoTxn
        BY <2>3, CallWrites DEF CallsOK, InTxn, Statement
      <3> QED
        BY <1>5, <2>3, <3>1, CallWrites DEF identityVars
    <2>4. CASE CommitMerge(m)
      BY <2>4, KeysCommitted
    <2> QED
      BY <1>6, <2>1, <2>2, <2>3, <2>4, KeysOfStatements DEF MergeStep, TxnStep
  <1> QED
    BY <1>2, <1>3, <1>4, <1>6, KeysAttached, StepKinds

-----------------------------------------------------------------------------
(* A primary handle for each verified type.                                *)

(* Among finitely or infinitely many rows, one was verified first.         *)
LEMMA EarliestExists ==
  ASSUME NEW S, S \subseteq Handles, S # {}, verifiedAt \in [Handles -> Nat]
  PROVE  \E h \in S : \A k \in S : verifiedAt[h] <= verifiedAt[k]
  <1> DEFINE T == {verifiedAt[h] : h \in S}
  <1>1. T \subseteq Nat /\ T # {}
    OBVIOUS
  <1>2. PICK t \in T : \A y \in T : ~(<<y, t>> \in OpToRel(<, Nat))
    BY <1>1, NatLessThanWellFounded, WFMin
  <1>3. \A y \in T : t <= y
    <2> TAKE y \in T
    <2>1. y \in Nat /\ t \in Nat
      BY <1>1
    <2>2. ~(y < t)
      BY <1>2, <2>1 DEF OpToRel
    <2> QED
      BY <2>1, <2>2
  <1> QED
    BY <1>2, <1>3

(* Step 2c finds a row when the survivor has a verified one of the type    *)
(* and no primary one.                                                     *)
LEMMA PromotedFound ==
  ASSUME TypeOK, NEW m \in Mergers, NEW h \in verified, OwnerIn(m, h) = job[m].survivor
  PROVE  \E k \in PrimaryIn(m) \cup Promoted(m, HandleType(h)) :
           OwnerIn(m, k) = job[m].survivor /\ HandleType(k) = HandleType(h)
  <1> DEFINE own == {k \in OfType(HandleType(h)) : OwnerIn(m, k) = job[m].survivor}
  <1>1. own \cap verified \subseteq Handles /\ h \in own \cap verified
    BY DEF TypeOK, OfType
  <1>2. PICK k \in own \cap verified : \A j \in own \cap verified : verifiedAt[k] <= verifiedAt[j]
    BY <1>1, EarliestExists DEF TypeOK
  <1>3. \A j \in own : HandleType(j) = HandleType(h) /\ OwnerIn(m, j) = job[m].survivor
    BY DEF OfType
  <1>4. CASE own \cap PrimaryIn(m) # {}
    BY <1>3, <1>4
  <1>5. CASE own \cap PrimaryIn(m) = {}
    <2>1. k \in Promoted(m, HandleType(h))
      BY <1>2, <1>5 DEF Promoted
    <2> QED
      BY <1>2, <1>3, <2>1
  <1> QED
    BY <1>4, <1>5

(* The two halves of LiveOK.                                               *)
LiveNow ==
  \A h \in verified :
    status[owner[h]] # "merged" =>
      \E k \in primary : owner[k] = owner[h] /\ HandleType(k) = HandleType(h)

LiveSoon(m) ==
  \A h \in txn[m].moved \cap verified :
    Dealt(m, HandleType(h)) /\ status[job[m].survivor] # "merged" =>
      \E k \in SoonPrimary(m, HandleType(h)) :
        OwnerIn(m, k) = job[m].survivor /\ HandleType(k) = HandleType(h)

LEMMA LiveParts == LiveOK <=> LiveNow /\ \A m \in Mergers : LiveSoon(m)
  BY DEF LiveOK, LiveNow, LiveSoon

(* Inserts and new users keep primaries where they are.                    *)
LEMMA LiveInserted ==
  ASSUME TypeOK, CallsOK, VerifiedOK, LiveOK, job' = job, txn' = txn,
         \A h \in Handles : owner[h] # NULL => owner'[h] = owner[h],
         \A v \in Users : (status'[v] = "merged") <=> (status[v] = "merged"),
         verified' \subseteq Handles, primary \subseteq primary',
         \A h \in verified' : \/ h \in verified
                              \/ h \in primary' /\ (\A o \in Mergers : h \notin Held(o))
  PROVE  LiveOK'
  <1>1. \A h \in verified : owner'[h] = owner[h] /\ owner[h] \in Users
    BY DEF VerifiedOK, TypeOK
  <1>2. \A k \in primary : owner'[k] = owner[k]
    BY <1>1 DEF VerifiedOK
  <1>3. LiveNow'
    BY <1>1, <1>2 DEF LiveOK, LiveNow
  <1>4. ASSUME NEW m \in Mergers PROVE LiveSoon(m)'
    <2> SUFFICES ASSUME NEW h \in txn[m].moved \cap verified',
                        Dealt(m, HandleType(h))', status'[job[m].survivor] # "merged"
                 PROVE  \E k \in SoonPrimary(m, HandleType(h))' :
                          OwnerIn(m, k)' = job[m].survivor /\ HandleType(k) = HandleType(h)
      BY DEF LiveSoon
    <2>1. h \in verified
      BY DEF Held
    <2>2. InTxn(m) /\ job[m].survivor \in Users
      BY ViewTypes DEF CallsOK, NoTxn, InTxn, Statement
    <2>3. Dealt(m, HandleType(h)) /\ status[job[m].survivor] # "merged"
      BY <2>2 DEF Dealt
    <2>4. PICK k \in SoonPrimary(m, HandleType(h)) :
            OwnerIn(m, k) = job[m].survivor /\ HandleType(k) = HandleType(h)
      BY <2>1, <2>3 DEF LiveOK
    <2>5. k \in Handles /\ k \in SoonPrimary(m, HandleType(h))'
      BY <2>4, ViewTypes DEF SoonPrimary, PrimaryIn, Txn
    <2>6. OwnerIn(m, k)' = job[m].survivor
      BY <2>2, <2>4, <2>5, MergeAssumption DEF OwnerIn
    <2> QED
      BY <2>4, <2>5, <2>6
  <1> QED
    BY <1>3, <1>4 DEF LiveOK, LiveNow, LiveSoon

(* Statements publish nothing.                                             *)
LEMMA LiveWritten ==
  ASSUME LiveOK, NEW m \in Mergers,
         UNCHANGED <<identityVars, status>>,
         \A o \in Mergers \ {m} : job'[o] = job[o] /\ txn'[o] = txn[o],
         LiveSoon(m)'
  PROVE  LiveOK'
  <1>1. LiveNow'
    BY DEF LiveOK, LiveNow, identityVars
  <1>2. ASSUME NEW o \in Mergers \ {m} PROVE LiveSoon(o)'
    <2>1. LiveSoon(o)
      BY DEF LiveOK, LiveSoon
    <2> QED
      BY <2>1 DEF LiveSoon, SoonPrimary, PrimaryIn, OwnerIn, Dealt, identityVars
  <1> QED
    BY <1>1, <1>2 DEF LiveOK, LiveNow, LiveSoon

(* Step 2c keeps what it needs: until its snapshot nothing is claimed, the *)
(* snapshot finds a primary or a row to promote, and the update makes it   *)
(* primary.                                                                *)
LEMMA LiveStatements ==
  ASSUME TypeOK, CallsOK, PhasesOK, LiveOK,
         NEW m \in Mergers, TxnStep(m)
  PROVE  LiveOK'
  <1>0. /\ LiveSoon(m)
        /\ \A h : HandleType(h) \in {"email", "phone"}
    BY DEF LiveOK, LiveSoon, HandleType
  <1>1. CASE TakeSnapshot(m)
    <2>1. /\ job' = job /\ UNCHANGED <<identityVars, status>>
          /\ \A o \in Mergers \ {m} : txn'[o] = txn[o]
          /\ txn'[m].looked /\ txn'[m].seen = Selected(m)
          /\ txn'[m].cleared = txn[m].cleared /\ txn'[m].moved = txn[m].moved
          /\ txn'[m].promoted = txn[m].promoted
          /\ job[m].pc \in Statement
      BY <1>1, SnapshotWrites DEF userVars
    <2>2. /\ PrimaryIn(m)' = PrimaryIn(m)
          /\ \A k : OwnerIn(m, k)' = OwnerIn(m, k)
      BY <2>1 DEF PrimaryIn, OwnerIn, identityVars
    <2>3. ASSUME NEW h \in txn[m].moved \cap verified, Dealt(m, HandleType(h))',
                 status[job[m].survivor] # "merged"
          PROVE  \E k \in SoonPrimary(m, HandleType(h))' :
                   OwnerIn(m, k) = job[m].survivor /\ HandleType(k) = HandleType(h)
      <3>1. CASE job[m].pc = HandleType(h)
        <4>1. Selected(m) = Promoted(m, HandleType(h))
          BY <1>0, <3>1 DEF Selected
        <4>2. SoonPrimary(m, HandleType(h))' = PrimaryIn(m) \cup Promoted(m, HandleType(h))
          BY <2>1, <2>2, <3>1, <4>1 DEF SoonPrimary
        <4>3. OwnerIn(m, h) = job[m].survivor
          BY DEF OwnerIn
        <4> QED
          BY <4>2, <4>3, PromotedFound
      <3>2. CASE job[m].pc # HandleType(h)
        <4>1. Dealt(m, HandleType(h))
          BY <1>0, <2>1, <2>3, <3>2 DEF Dealt
        <4>2. SoonPrimary(m, HandleType(h))' = SoonPrimary(m, HandleType(h))
          BY <2>1, <2>2, <3>2 DEF SoonPrimary
        <4> QED
          BY <1>0, <2>3, <4>1, <4>2 DEF LiveSoon
      <3> QED
        BY <3>1, <3>2
    <2>4. LiveSoon(m)'
      BY <2>1, <2>2, <2>3 DEF LiveSoon, identityVars
    <2> QED
      BY <2>1, <2>4, LiveWritten
  <1>2. ASSUME NEW ty \in {"email", "phone"},
               ClearPrimaries(m) \/ MoveHandles(m) \/ PromotePrimary(m, ty)
        PROVE  LiveOK'
    <2>1. /\ \A o \in Mergers \ {m} : txn'[o] = txn[o] /\ job'[o] = job[o]
          /\ UNCHANGED <<identityVars, status>>
          /\ job'[m].pc = Following[job[m].pc] /\ ~txn'[m].looked
          /\ job'[m].survivor = job[m].survivor
      BY <1>2, RowStatements DEF userVars
    <2>2. CASE ClearPrimaries(m) \/ MoveHandles(m)
      <3>1. job'[m].pc \in {"move", "email"}
        BY <2>1, <2>2 DEF ClearPrimaries, MoveHandles, Executing, Following
      <3>2. LiveSoon(m)'
        BY <2>1, <3>1 DEF LiveSoon, Dealt
      <3> QED
        BY <2>1, <3>2, LiveWritten
    <2>3. CASE PromotePrimary(m, ty)
      <3>1. /\ job[m].pc = ty /\ txn[m].looked
            /\ txn'[m].promoted = txn[m].promoted \cup txn[m].seen
            /\ txn'[m].cleared = txn[m].cleared /\ txn'[m].moved = txn[m].moved
        BY <2>3, RowStatements DEF PromotePrimary, Executing
      <3>2. /\ PrimaryIn(m)' = PrimaryIn(m) \cup txn[m].seen
            /\ \A k : OwnerIn(m, k)' = OwnerIn(m, k)
        BY <2>1, <3>1 DEF PrimaryIn, OwnerIn, identityVars
      <3>3. \A h : Dealt(m, HandleType(h))' => Dealt(m, HandleType(h))
        BY <1>0, <2>1, <3>1 DEF Dealt, Following
      <3>4. \A h : SoonPrimary(m, HandleType(h)) \subseteq SoonPrimary(m, HandleType(h))'
        BY <3>2 DEF SoonPrimary
      <3>5. LiveSoon(m)'
        <4> SUFFICES ASSUME NEW h \in txn[m].moved \cap verified,
                            Dealt(m, HandleType(h))', status[job[m].survivor] # "merged"
                     PROVE  \E k \in SoonPrimary(m, HandleType(h))' :
                              OwnerIn(m, k) = job[m].survivor /\ HandleType(k) = HandleType(h)
          BY <2>1, <3>1, <3>2 DEF LiveSoon, identityVars
        <4> QED
          BY <1>0, <3>3, <3>4 DEF LiveSoon
      <3> QED
        BY <2>1, <3>5, LiveWritten
    <2> QED
      BY <1>2, <2>2, <2>3
  <1>3. CASE UniteAccess(m)
    <2>1. /\ \A o \in Mergers \ {m} : txn'[o] = txn[o] /\ job'[o] = job[o]
          /\ UNCHANGED <<identityVars, status>>
          /\ job[m].pc = "access" /\ job'[m].pc = "commit"
          /\ job'[m].survivor = job[m].survivor
          /\ txn'[m].cleared = txn[m].cleared /\ txn'[m].moved = txn[m].moved
          /\ txn'[m].promoted = txn[m].promoted
      BY <1>3, AccessStatement DEF userVars
    <2>2. /\ PrimaryIn(m)' = PrimaryIn(m)
          /\ \A k : OwnerIn(m, k)' = OwnerIn(m, k)
      BY <2>1 DEF PrimaryIn, OwnerIn, identityVars
    <2>3. \A h : /\ Dealt(m, HandleType(h))
                 /\ SoonPrimary(m, HandleType(h))' = SoonPrimary(m, HandleType(h))
      BY <1>0, <2>1, <2>2 DEF Dealt, SoonPrimary
    <2>4. LiveSoon(m)'
      BY <1>0, <2>1, <2>2, <2>3 DEF LiveSoon, identityVars
    <2> QED
      BY <2>1, <2>4, LiveWritten
  <1> QED
    BY <1>1, <1>2, <1>3 DEF TxnStep

(* A commit leaves a primary to the users it gives rows to, and to the     *)
(* users of the transactions still open.                                   *)
LEMMA LiveCommitted ==
  ASSUME TypeOK, CallsOK, VerifiedOK, LocksOK, LiveOK,
         NEW m \in Mergers, CommitMerge(m)
  PROVE  LiveOK'
  <1> DEFINE s == job[m].survivor
             l == job[m].loser
  <1>1. job[m].pc = "commit" /\ s # l /\ s \in Users /\ l \in Users
    BY ViewTypes DEF CommitMerge, CallsOK
  <1>2. /\ \A h \in Handles : owner'[h] = OwnerIn(m, h)
        /\ primary' = PrimaryIn(m)
        /\ \A u \in Users : status'[u] = IF u = l THEN "merged" ELSE status[u]
        /\ txn'[m] = NoTxn
        /\ \A o \in Mergers \ {m} : job'[o] = job[o] /\ txn'[o] = txn[o]
        /\ verified' = verified /\ verified \subseteq Handles
    BY CommitPublishes DEF TypeOK
  <1>3. \A h \in txn[m].cleared \cup txn[m].moved : owner[h] = l
    BY DEF LocksOK
  <1>4. ASSUME NEW h \in verified, status'[owner'[h]] # "merged"
        PROVE  \E k \in primary' : owner'[k] = owner'[h] /\ HandleType(k) = HandleType(h)
    <2>1. CASE h \in txn[m].moved
      <3>1. owner'[h] = s /\ status[s] # "merged"
        BY <1>1, <1>2, <1>4, <2>1 DEF OwnerIn
      <3>2. Dealt(m, HandleType(h)) /\ SoonPrimary(m, HandleType(h)) = PrimaryIn(m)
        BY <1>1 DEF Dealt, SoonPrimary, HandleType
      <3>3. \E k \in PrimaryIn(m) : OwnerIn(m, k) = s /\ HandleType(k) = HandleType(h)
        BY <2>1, <3>1, <3>2 DEF LiveOK
      <3> QED
        BY <1>2, <3>1, <3>3, ViewTypes
    <2>2. CASE h \notin txn[m].moved
      <3>1. owner'[h] = owner[h] /\ owner[h] \in Users
        BY <1>2, <2>2 DEF OwnerIn, VerifiedOK, TypeOK
      <3>2. owner[h] # l /\ status[owner[h]] # "merged"
        BY <1>2, <1>4, <3>1
      <3>3. PICK k \in primary : owner[k] = owner[h] /\ HandleType(k) = HandleType(h)
        BY <3>2 DEF LiveOK
      <3>4. k \notin txn[m].cleared \cup txn[m].moved /\ k \in Handles
        BY <1>3, <3>2, <3>3 DEF TypeOK
      <3> QED
        BY <1>2, <3>1, <3>3, <3>4 DEF OwnerIn, PrimaryIn
    <2> QED
      BY <2>1, <2>2
  <1>5. ASSUME NEW o \in Mergers \ {m}, NEW h \in txn[o].moved \cap verified,
               Dealt(o, HandleType(h)), status'[job[o].survivor] # "merged"
        PROVE  \E k \in SoonPrimary(o, HandleType(h))' :
                 OwnerIn(o, k)' = job[o].survivor /\ HandleType(k) = HandleType(h)
    <2>1. job[o].survivor \in Users
      BY <1>5, ViewTypes DEF Dealt
    <2>2. job[o].survivor # l /\ status[job[o].survivor] # "merged"
      BY <1>2, <1>5, <2>1
    <2>3. PICK k \in SoonPrimary(o, HandleType(h)) :
            OwnerIn(o, k) = job[o].survivor /\ HandleType(k) = HandleType(h)
      BY <1>5, <2>2 DEF LiveOK
    <2>4. k \in Handles
      BY <2>3, ViewTypes DEF SoonPrimary, Txn
    <2>5. k \notin txn[m].cleared \cup txn[m].moved
      <3>1. Held(m) \cap Held(o) = {}
        BY DEF LocksOK
      <3> QED
        BY <1>3, <2>2, <2>3, <3>1 DEF OwnerIn, Held
    <2>6. OwnerIn(o, k)' = job[o].survivor
      BY <1>2, <2>3, <2>4, <2>5 DEF OwnerIn
    <2>7. k \in SoonPrimary(o, HandleType(h))'
      <3>1. job'[o] = job[o] /\ txn'[o] = txn[o]
        BY <1>2
      <3>2. k \in primary => k \in primary'
        BY <1>2, <2>5 DEF PrimaryIn
      <3> QED
        BY <2>3, <3>1, <3>2 DEF SoonPrimary, PrimaryIn
    <2> QED
      BY <2>3, <2>6, <2>7
  <1>6. LiveNow'
    BY <1>2, <1>4 DEF LiveNow
  <1>7. ASSUME NEW o \in Mergers PROVE LiveSoon(o)'
    <2>1. CASE o = m
      BY <1>2, <2>1 DEF LiveSoon, NoTxn
    <2>2. CASE o # m
      BY <1>2, <1>5, <2>2 DEF LiveSoon, Dealt
    <2> QED
      BY <2>1, <2>2
  <1> QED
    BY <1>6, <1>7 DEF LiveOK, LiveNow, LiveSoon

(* No step leaves a user that is not merged without its primaries.         *)
LEMMA LiveStep ==
  TypeOK /\ CallsOK /\ PhasesOK /\ VerifiedOK /\ LocksOK /\ LiveOK /\ [Next]_vars
    => LiveOK'
  <1> SUFFICES ASSUME TypeOK, CallsOK, PhasesOK, VerifiedOK, LocksOK, LiveOK, [Next]_vars
               PROVE  LiveOK'
    OBVIOUS
  <1>1. ASSUME UNCHANGED <<identityVars, userVars, mergeVars>> PROVE LiveOK'
    BY <1>1 DEF LiveOK, Dealt, SoonPrimary, PrimaryIn, OwnerIn,
                identityVars, userVars, mergeVars
  <1>2. ASSUME NEW u \in Users, NEW st \in {"active", "invited"}, CreateUser(u, st)
        PROVE  LiveOK'
    <2>1. /\ job' = job /\ txn' = txn
          /\ \A h \in Handles : owner[h] # NULL => owner'[h] = owner[h]
          /\ \A v \in Users : (status'[v] = "merged") <=> (status[v] = "merged")
      BY <1>2, InsertsKeepRows
    <2>2. verified' = verified /\ primary' = primary /\ verified \subseteq Handles
      BY <1>2 DEF CreateUser, TypeOK
    <2> QED
      BY <2>1, <2>2, LiveInserted
  <1>3. ASSUME NEW u \in Users, NEW e \in Emails, AttachVerified(u, e) PROVE LiveOK'
    <2>1. /\ e \in Handles /\ owner[e] = NULL
          /\ verified' = verified \cup {e} /\ primary' = primary \cup {e}
      BY <1>3 DEF AttachVerified, Free, Handles
    <2>2. \A o \in Mergers : e \notin Held(o)
      BY <2>1, HeldRows
    <2>3. /\ job' = job /\ txn' = txn
          /\ \A h \in Handles : owner[h] # NULL => owner'[h] = owner[h]
          /\ \A v \in Users : (status'[v] = "merged") <=> (status[v] = "merged")
      BY <1>3, InsertsKeepRows
    <2>4. verified' \subseteq Handles
      BY <2>1 DEF TypeOK
    <2> QED
      BY <2>1, <2>2, <2>3, <2>4, LiveInserted
  <1>4. ASSUME NEW u \in Users, NEW hs \in ContactHandles, NEW gs \in SUBSET Grants,
               Provision(u, hs, gs)
        PROVE  LiveOK'
    <2>1. /\ job' = job /\ txn' = txn
          /\ \A h \in Handles : owner[h] # NULL => owner'[h] = owner[h]
          /\ \A v \in Users : (status'[v] = "merged") <=> (status[v] = "merged")
      BY <1>4, InsertsKeepRows
    <2>2. verified' = verified /\ primary' = primary /\ verified \subseteq Handles
      BY <1>4 DEF Provision, TypeOK
    <2> QED
      BY <2>1, <2>2, LiveInserted
  <1>5. ASSUME NEW m \in Mergers, MergeStep(m) PROVE LiveOK'
    <2>1. ASSUME \/ \E s, l \in Users : StartMerge(m, s, l)
                 \/ AbortMerge(m) \/ Revoke(m) \/ InterruptRevocation(m)
          PROVE  LiveOK'
      <3>1. txn'[m] = NoTxn
        BY <2>1, CallWrites DEF CallsOK, InTxn, Statement
      <3>2. LiveSoon(m)'
        BY <3>1 DEF LiveSoon, NoTxn
      <3> QED
        BY <2>1, <3>2, CallWrites, LiveWritten DEF userVars
    <2> QED
      BY <1>5, <2>1, LiveStatements, LiveCommitted DEF MergeStep
  <1> QED
    BY <1>1, <1>2, <1>3, <1>4, <1>5, StepKinds

(* The inductive invariant, in every state.                                *)
LEMMA RowsHold == Spec => []RowsInv
  <1>1. Init => RowsInv
    BY DEF Init, RowsInv, CallsOK, PhasesOK, VerifiedOK, LocksOK, KeysOK, LiveOK,
           New, Held, InTxn, IdleJob, NoTxn, Statement
  <1>2. TypeOK /\ RowsInv /\ [Next]_vars => RowsInv'
    BY CallsStep, PhasesStep, VerifiedStep, LocksStep, KeysStep, LiveStep DEF RowsInv
  <1> QED
    BY <1>1, <1>2, TypesHold, PTL DEF Spec

(* A user that is not merged has one primary handle, and a verified one,   *)
(* of each type it has verified, however the statements of merges and the  *)
(* inserts of handles interleave.                                          *)
THEOREM PrimaryIsUnique == Spec => []PrimaryPerType
  <1>1. RowsInv => PrimaryPerType
    BY DEF RowsInv, VerifiedOK, KeysOK, LiveOK, PrimaryPerType
  <1> QED
    BY <1>1, RowsHold, PTL

-----------------------------------------------------------------------------
(* Where verified handles lead.                                            *)

(* The rows of a loser stay with its merge, or are late.                   *)
LEMMA LateStep ==
  TypeOK /\ CallsOK /\ VerifiedOK /\ LateOK /\ [Next]_vars => LateOK'
  <1> SUFFICES ASSUME TypeOK, CallsOK, VerifiedOK, LateOK, [Next]_vars PROVE LateOK'
    OBVIOUS
  <1>0. verified \subseteq Handles /\ \A h \in verified : owner[h] # NULL
    BY DEF TypeOK, VerifiedOK
  <1>1. ASSUME UNCHANGED <<identityVars, userVars, mergeVars>> PROVE LateOK'
    BY <1>1 DEF LateOK, LookedToMove, Moving, identityVars, mergeVars
  <1>2. ASSUME NEW u \in Users, NEW st \in {"active", "invited"}, CreateUser(u, st)
        PROVE  LateOK'
    BY <1>2 DEF CreateUser, LateOK, LookedToMove, Moving, mergeVars
  <1>3. ASSUME NEW u \in Users, NEW e \in Emails, AttachVerified(u, e) PROVE LateOK'
    <2>1. /\ owner' = [owner EXCEPT ![e] = u] /\ verified' = verified \cup {e}
          /\ late' = IF status[u] = "merged" \/ MovedOn(u) THEN late \cup {e} ELSE late
          /\ job' = job /\ txn' = txn /\ e \in Handles /\ owner[e] = NULL
      BY <1>3 DEF AttachVerified, Free, mergeVars, Handles
    <2>2. owner'[e] = u /\ \A h \in verified : owner'[h] = owner[h]
      BY <1>0, <2>1 DEF TypeOK
    <2>3. ASSUME NEW m \in Mergers, LookedToMove(m), u = job[m].loser
          PROVE  e \in late'
      BY <2>1, <2>3 DEF MovedOn
    <2> QED
      BY <2>1, <2>2, <2>3 DEF LateOK, LookedToMove, Moving
  <1>4. ASSUME NEW u \in Users, NEW hs \in ContactHandles, NEW gs \in SUBSET Grants,
               Provision(u, hs, gs)
        PROVE  LateOK'
    <2>1. /\ \A h \in verified : owner'[h] = owner[h]
          /\ job' = job /\ txn' = txn /\ verified' = verified /\ late' = late
      BY <1>0, <1>4, InsertsKeepRows DEF Provision
    <2> QED
      BY <2>1 DEF LateOK, LookedToMove, Moving
  <1>5. ASSUME NEW m \in Mergers,
               /\ verified' = verified /\ owner' = owner /\ late' = late
               /\ \A o \in Mergers \ {m} : job'[o] = job[o] /\ txn'[o] = txn[o]
               /\ \A h \in verified : LookedToMove(m)' /\ owner[h] = job'[m].loser =>
                                        h \in late \cup Moving(m)'
        PROVE  LateOK'
    BY <1>5 DEF LateOK, LookedToMove, Moving
  <1>6. ASSUME NEW m \in Mergers, MergeStep(m) PROVE LateOK'
    <2>1. CASE TakeSnapshot(m)
      <3>1. job[m].pc = "move" => Selected(m) = Owned(job[m].loser)
        BY DEF Selected
      <3>2. /\ job' = job /\ verified' = verified /\ owner' = owner /\ late' = late
            /\ \A o \in Mergers \ {m} : txn'[o] = txn[o]
            /\ txn'[m].seen = Selected(m) /\ txn'[m].moved = txn[m].moved
        BY <2>1, SnapshotWrites DEF identityVars
      <3>3. \A h \in verified : LookedToMove(m)' /\ owner[h] = job'[m].loser =>
                                  h \in late \cup Moving(m)'
        BY <1>0, <3>1, <3>2 DEF LateOK, LookedToMove, Moving, Owned
      <3> QED
        BY <1>5, <3>2, <3>3
    <2>2. ASSUME NEW ty \in {"email", "phone"},
                 ClearPrimaries(m) \/ MoveHandles(m) \/ PromotePrimary(m, ty)
          PROVE  LateOK'
      <3>1. /\ \A o \in Mergers \ {m} : txn'[o] = txn[o] /\ job'[o] = job[o]
            /\ verified' = verified /\ owner' = owner /\ late' = late
            /\ job'[m].loser = job[m].loser /\ job'[m].pc = Following[job[m].pc]
            /\ txn[m].looked /\ ~txn'[m].looked
            /\ \/ job[m].pc = "clear"
               \/ job[m].pc = "move" /\ txn'[m].moved = StillOwned(m)
               \/ job[m].pc = ty /\ txn'[m].moved = txn[m].moved
        BY <2>2, RowStatements DEF identityVars
      <3>2. \A h \in verified : LookedToMove(m)' /\ owner[h] = job'[m].loser =>
                                  h \in late \cup Moving(m)'
        BY <3>1 DEF LateOK, LookedToMove, Moving, Following, StillOwned
      <3> QED
        BY <1>5, <3>1, <3>2
    <2>3. CASE UniteAccess(m)
      <3>1. /\ \A o \in Mergers \ {m} : txn'[o] = txn[o] /\ job'[o] = job[o]
            /\ verified' = verified /\ owner' = owner /\ late' = late
            /\ job'[m].loser = job[m].loser /\ txn'[m].moved = txn[m].moved
            /\ job[m].pc = "access" /\ job'[m].pc = "commit"
        BY <2>3, AccessStatement DEF identityVars
      <3>2. \A h \in verified : LookedToMove(m)' /\ owner[h] = job'[m].loser =>
                                  h \in late \cup Moving(m)'
        BY <3>1 DEF LateOK, LookedToMove, Moving
      <3> QED
        BY <1>5, <3>1, <3>2
    <2>4. CASE CommitMerge(m)
      <3>1. /\ \A h \in Handles : owner'[h] = OwnerIn(m, h)
            /\ job'[m].pc = "revoking" /\ verified' = verified
            /\ \A o \in Mergers \ {m} : job'[o] = job[o] /\ txn'[o] = txn[o]
        BY <2>4, CommitPublishes
      <3>2. late' = IF MovedOn(job[m].survivor) THEN late \cup txn[m].moved
                    ELSE late \ txn[m].moved
        BY <2>4 DEF CommitMerge
      <3>3. ASSUME NEW o \in Mergers \ {m}, NEW h \in verified,
                   LookedToMove(o), owner'[h] = job[o].loser
            PROVE  h \in late' \cup Moving(o)
        <4>1. CASE h \in txn[m].moved
          <5>1. MovedOn(job[m].survivor)
            BY <1>0, <3>1, <3>3, <4>1 DEF OwnerIn, MovedOn
          <5> QED
            BY <3>2, <4>1, <5>1
        <4>2. CASE h \notin txn[m].moved
          <5>1. h \in late \cup Moving(o)
            BY <1>0, <3>1, <3>3, <4>2 DEF OwnerIn, LateOK
          <5> QED
            BY <3>2, <4>2, <5>1
        <4> QED
          BY <4>1, <4>2
      <3> QED
        BY <3>1, <3>3 DEF LateOK, LookedToMove, Moving
    <2>5. ASSUME \/ \E s, l \in Users : StartMerge(m, s, l)
                 \/ AbortMerge(m) \/ Revoke(m) \/ InterruptRevocation(m)
          PROVE  LateOK'
      <3>1. ~LookedToMove(m)'
        BY <2>5, CallWrites DEF LookedToMove
      <3> QED
        BY <1>5, <2>5, <3>1, CallWrites DEF identityVars
    <2> QED
      BY <1>6, <2>1, <2>2, <2>3, <2>4, <2>5 DEF MergeStep, TxnStep
  <1> QED
    BY <1>1, <1>2, <1>3, <1>4, <1>6, StepKinds

(* The log only grows, and so does what it explains.                       *)
LEMMA ExplainedStays ==
  ASSUME TypeOK, [Next]_vars, NEW u \in Users, MergedThenChosen(u)
  PROVE  MergedThenChosen(u)'
  <1>1. CASE mergeLog' = mergeLog
    BY <1>1 DEF MergedThenChosen
  <1>2. ASSUME NEW m \in Mergers, CommitMerge(m) PROVE MergedThenChosen(u)'
    <2>1. /\ Len(mergeLog') = Len(mergeLog) + 1
          /\ \A i \in 1..Len(mergeLog) : mergeLog'[i] = mergeLog[i]
      BY <1>2, CommitWrites, Zenon
    <2>2. Len(mergeLog) \in Nat
      BY DEF TypeOK
    <2> QED
      BY <2>1, <2>2 DEF MergedThenChosen
  <1> QED
    BY <1>1, <1>2, UserRowsWritten DEF userVars

(* A commit strands only late handles and those of a survivor that an      *)
(* earlier merge had merged.                                               *)
LEMMA StrandedCommitted ==
  ASSUME TypeOK, CallsOK, VerifiedOK, LateOK, LogMatchesPointer, StrandedExplained,
         NEW m \in Mergers, CommitMerge(m), [Next]_vars
  PROVE  StrandedExplained'
  <1> DEFINE s == job[m].survivor
             l == job[m].loser
             n == Len(mergeLog) + 1
  <1>1. job[m].pc = "commit" /\ s # l /\ s \in Users /\ l \in Users
    BY ViewTypes DEF CommitMerge, CallsOK
  <1>2. /\ \A h \in Handles : owner'[h] = OwnerIn(m, h)
        /\ \A u \in Users : status'[u] = IF u = l THEN "merged" ELSE status[u]
        /\ verified' = verified /\ verified \subseteq Handles
        /\ \A h \in verified : owner[h] \in Users
    BY CommitPublishes DEF TypeOK, VerifiedOK
  <1>3. \A h \in late : h \in late' \/ h \in txn[m].moved
    BY DEF CommitMerge
  <1>4. /\ Len(mergeLog') = n
        /\ \A i \in 1..Len(mergeLog) : mergeLog'[i] = mergeLog[i]
        /\ mergeLog'[n] = [survivor |-> s, merged |-> l]
    BY CommitWrites, Zenon
  <1>6. Len(mergeLog) \in Nat
    BY DEF TypeOK
  <1>5. ASSUME NEW h \in verified, NEW u \in Users, owner'[h] = u, status'[u] = "merged"
        PROVE  h \in late' \/ MergedThenChosen(u)'
    <2>1. CASE h \in txn[m].moved
      <3>1. u = s /\ status[s] = "merged"
        BY <1>1, <1>2, <1>5, <2>1 DEF OwnerIn
      <3>2. PICK i \in 1..Len(mergeLog) : mergeLog[i].merged = s
        BY <1>1, <3>1 DEF LogMatchesPointer
      <3>3. i < n /\ i \in 1..n /\ n \in 1..n /\ mergeLog'[i].merged = s
        BY <1>4, <1>6, <3>2
      <3> QED
        BY <1>4, <3>1, <3>3 DEF MergedThenChosen
    <2>2. CASE h \notin txn[m].moved /\ owner[h] = l
      <3>1. LookedToMove(m) /\ Moving(m) = txn[m].moved
        BY <1>1 DEF LookedToMove, Moving
      <3> QED
        BY <1>3, <2>2, <3>1 DEF LateOK
    <2>3. CASE h \notin txn[m].moved /\ owner[h] # l
      <3>1. owner[h] = u /\ status[u] = "merged"
        BY <1>2, <1>5, <2>3 DEF OwnerIn
      <3>2. h \in late \/ MergedThenChosen(u)
        BY <3>1 DEF StrandedExplained
      <3>3. MergedThenChosen(u) => MergedThenChosen(u)'
        BY ExplainedStays
      <3> QED
        BY <1>3, <2>3, <3>2, <3>3
    <2> QED
      BY <2>1, <2>2, <2>3
  <1>7. \A h \in verified : owner'[h] \in Users
    BY <1>1, <1>2 DEF OwnerIn
  <1> QED
    BY <1>2, <1>5, <1>7 DEF StrandedExplained, MergedThenChosen

(* No other step strands a handle but the late insert.                     *)
LEMMA StrandedStep ==
  /\ TypeOK /\ CallsOK /\ VerifiedOK /\ LateOK /\ LogMatchesPointer
  /\ StrandedExplained /\ [Next]_vars
  => StrandedExplained'
  <1> SUFFICES ASSUME TypeOK, CallsOK, VerifiedOK, LateOK, LogMatchesPointer,
                      StrandedExplained, [Next]_vars
               PROVE  StrandedExplained'
    OBVIOUS
  <1>0. /\ verified \subseteq Handles
        /\ \A h \in verified : owner[h] # NULL /\ owner[h] \in Users
    BY DEF TypeOK, VerifiedOK
  <1>1. ASSUME mergeLog' = mergeLog, verified' = verified, late' = late,
               \A h \in verified : owner'[h] = owner[h],
               \A v \in Users : (status'[v] = "merged") <=> (status[v] = "merged")
        PROVE  StrandedExplained'
    BY <1>0, <1>1 DEF StrandedExplained, MergedThenChosen
  <1>2. ASSUME UNCHANGED <<identityVars, userVars>> PROVE StrandedExplained'
    BY <1>1, <1>2 DEF identityVars, userVars
  <1>3. ASSUME NEW u \in Users, NEW st \in {"active", "invited"}, CreateUser(u, st)
        PROVE  StrandedExplained'
    BY <1>0, <1>1, <1>3, InsertsKeepRows DEF CreateUser
  <1>4. ASSUME NEW u \in Users, NEW e \in Emails, AttachVerified(u, e)
        PROVE  StrandedExplained'
    <2>1. /\ owner' = [owner EXCEPT ![e] = u] /\ verified' = verified \cup {e}
          /\ late' = IF status[u] = "merged" \/ MovedOn(u) THEN late \cup {e} ELSE late
          /\ status' = status /\ mergeLog' = mergeLog
          /\ e \in Handles /\ owner[e] = NULL
      BY <1>4 DEF AttachVerified, Free, userVars, Handles
    <2>2. owner'[e] = u /\ \A h \in verified : owner'[h] = owner[h]
      BY <1>0, <2>1 DEF TypeOK
    <2> QED
      BY <2>1, <2>2 DEF StrandedExplained, MergedThenChosen
  <1>5. ASSUME NEW u \in Users, NEW hs \in ContactHandles, NEW gs \in SUBSET Grants,
               Provision(u, hs, gs)
        PROVE  StrandedExplained'
    BY <1>0, <1>1, <1>5, InsertsKeepRows DEF Provision
  <1>6. ASSUME NEW m \in Mergers, MergeStep(m) PROVE StrandedExplained'
    <2>1. CASE TxnStep(m)
      BY <1>2, <2>1, SnapshotWrites, RowStatements, AccessStatement DEF TxnStep
    <2>2. ASSUME \/ \E s, l \in Users : StartMerge(m, s, l)
                 \/ AbortMerge(m) \/ Revoke(m) \/ InterruptRevocation(m)
          PROVE  StrandedExplained'
      BY <1>2, <2>2, CallWrites
    <2> QED
      BY <1>6, <2>1, <2>2, StrandedCommitted DEF MergeStep
  <1> QED
    BY <1>2, <1>3, <1>4, <1>5, <1>6, StepKinds

(* A verified handle leads to a merged user only when it came late or a    *)
(* merge chose that user as its survivor.                                  *)
THEOREM StrandingIsExplained == Spec => []StrandedExplained
  <1>1. Init => LateOK /\ StrandedExplained
    BY DEF Init, LateOK, StrandedExplained
  <1>2. TypeOK /\ RowsInv /\ LateOK /\ LogMatchesPointer /\ StrandedExplained
          /\ [Next]_vars => LateOK' /\ StrandedExplained'
    BY LateStep, StrandedStep DEF RowsInv
  <1> QED
    BY <1>1, <1>2, TypesHold, RowsHold, LogAndPointersAgree, PTL DEF Spec

(* A handle changes owner only when a merge commits, which logs it, and is *)
(* never detached nor loses its verification.                              *)
THEOREM MovesAreLogged == Spec => IdentityMovesAreLogged
  <1> DEFINE Logged == \A h \in Handles :
               /\ h \in verified => h \in verified'
               /\ owner[h] # NULL /\ owner'[h] # owner[h] =>
                    mergeLog' = Append(mergeLog, [survivor |-> owner'[h], merged |-> owner[h]])
  <1>1. ASSUME TypeOK, RowsInv, [Next]_vars PROVE Logged
    <2>1. ASSUME NEW u \in Users,
                 \/ \E st \in {"active", "invited"} : CreateUser(u, st)
                 \/ \E e \in Emails : AttachVerified(u, e)
                 \/ \E hs \in ContactHandles, gs \in SUBSET Grants : Provision(u, hs, gs)
          PROVE  Logged
      <3>1. \A h \in Handles : owner[h] # NULL => owner'[h] = owner[h]
        BY <1>1, <2>1, InsertsKeepRows
      <3>2. verified \subseteq verified'
        BY <2>1 DEF CreateUser, AttachVerified, Provision
      <3> QED
        BY <3>1, <3>2
    <2>2. ASSUME NEW m \in Mergers, CommitMerge(m) PROVE Logged
      <3>1. \A h \in txn[m].moved : owner[h] = job[m].loser
        BY <1>1 DEF RowsInv, LocksOK
      <3>2. /\ \A h \in Handles : owner'[h] = OwnerIn(m, h)
            /\ verified' = verified
        BY <1>1, <2>2, CommitPublishes
      <3>3. mergeLog' = Append(mergeLog, [survivor |-> job[m].survivor,
                                          merged |-> job[m].loser])
        BY <2>2 DEF CommitMerge
      <3> QED
        BY <3>1, <3>2, <3>3 DEF OwnerIn
    <2>3. UNCHANGED identityVars => Logged
      BY DEF identityVars
    <2>4. ASSUME NEW m \in Mergers, MergeStep(m), ~CommitMerge(m)
          PROVE  UNCHANGED identityVars
      BY <1>1, <2>4, CallWrites, SnapshotWrites, RowStatements, AccessStatement
         DEF MergeStep, TxnStep
    <2> QED
      BY <1>1, <2>1, <2>2, <2>3, <2>4, StepKinds
  <1>2. TypeOK /\ RowsInv /\ [Next]_vars => [Logged]_vars
    BY <1>1
  <1> QED
    BY <1>2, TypesHold, RowsHold, PTL DEF Spec, IdentityMovesAreLogged

-----------------------------------------------------------------------------
(* What step 3 found is still so at COMMIT.                                *)

(* Step 3 of m has found its rows.                                         *)
Found(m) ==
  \/ job[m].pc = "commit"
  \/ job[m].pc = "access" /\ txn[m].looked

(* The users of a call.                                                    *)
Parties(m) == {job[m].survivor, job[m].loser}

(* The rows step 3 moves stay free to move until COMMIT, in one merge of   *)
(* their user only, and what it leaves behind meets a row of the survivor. *)
AccessOK ==
  /\ \A m \in Mergers : job[m].pc = "commit" =>
       \A g \in txn[m].taken : /\ access[job[m].loser][g] = "active"
                               /\ access[job[m].survivor][g] = "none"
  /\ \A m \in Mergers : Found(m) =>
       \A g \in txn[m].active \ txn[m].taken :
         access[job[m].survivor][g] # "none" \/ status[job[m].survivor] = "merged"
  /\ \A m, o \in Mergers :
       /\ m # o /\ job[m].pc = "commit" /\ job[o].pc = "commit"
       /\ Parties(m) \cap Parties(o) # {}
       => txn[m].taken \cap txn[o].taken = {}

(* Who writes an access row outside a merge: it locks the row, or waits    *)
(* for who has, and deletes none.                                          *)
LEMMA AccessWriters ==
  ASSUME TypeOK, [Next]_vars
  PROVE  \/ \E m \in Mergers : MergeStep(m)
         \/ /\ job' = job /\ txn' = txn
            /\ \A v \in Users : (status'[v] = "merged") <=> (status[v] = "merged")
            /\ \A v \in Users, g \in Grants :
                 /\ access[v][g] # "none" => access'[v][g] # "none"
                 /\ AccessLocked(v, g) => access'[v][g] = access[v][g]
  <1> DEFINE Quiet == /\ job' = job /\ txn' = txn
                      /\ \A v \in Users : (status'[v] = "merged") <=> (status[v] = "merged")
                      /\ \A v \in Users, g \in Grants :
                           /\ access[v][g] # "none" => access'[v][g] # "none"
                           /\ AccessLocked(v, g) => access'[v][g] = access[v][g]
  <1>1. ASSUME NEW u \in Users, NEW st \in {"active", "invited"}, CreateUser(u, st)
        PROVE  Quiet
    BY <1>1, InsertsKeepRows DEF CreateUser
  <1>2. ASSUME NEW u \in Users, NEW e \in Emails, AttachVerified(u, e) PROVE Quiet
    BY <1>2, InsertsKeepRows DEF AttachVerified
  <1>3. ASSUME NEW u \in Users, NEW hs \in ContactHandles, NEW gs \in SUBSET Grants,
               Provision(u, hs, gs)
        PROVE  Quiet
    <2>1. /\ access' = [access EXCEPT ![u] =
                          [g \in Grants |-> IF g \in gs THEN "active" ELSE access[u][g]]]
          /\ \A g \in gs : ~AccessLocked(u, g)
      BY <1>3 DEF Provision
    <2>2. \A v \in Users, g \in Grants :
            access'[v][g] = IF v = u /\ g \in gs THEN "active" ELSE access[v][g]
      BY <2>1 DEF TypeOK
    <2> QED
      BY <1>3, <2>1, <2>2, InsertsKeepRows
  <1>4. ASSUME NEW u \in Users, NEW g \in Grants, GrantAccess(u, g) \/ RevokeAccess(u, g)
        PROVE  Quiet
    <2>1. \E st \in {"active", "revoked"} : access' = [access EXCEPT ![u][g] = st]
      BY <1>4 DEF GrantAccess, RevokeAccess
    <2>2. \A v \in Users, q \in Grants :
            \/ access'[v][q] = access[v][q]
            \/ v = u /\ q = g /\ access'[v][q] # "none"
      BY <2>1 DEF TypeOK
    <2>3. ~AccessLocked(u, g) /\ job' = job /\ txn' = txn /\ status' = status
      BY <1>4 DEF GrantAccess, RevokeAccess, mergeVars, userVars
    <2> QED
      BY <2>2, <2>3
  <1>5. ASSUME NEW c \in Clients, LoginStep(c) PROVE Quiet
    BY <1>5 DEF LoginStep, ResolveLogin, OpenSession, RejectLogin, PasswordSignIn,
                mergeVars, userVars
  <1>6. ASSUME NEW k \in creds, IssueTokens(k) \/ RefreshTokens(k) \/ EndCredential(k)
        PROVE  Quiet
    BY <1>6 DEF IssueTokens, RefreshTokens, EndCredential, mergeVars, userVars
  <1>7. CASE UNCHANGED vars
    BY <1>7 DEF vars, mergeVars, userVars
  <1> QED
    BY <1>1, <1>2, <1>3, <1>4, <1>5, <1>6, <1>7 DEF Next, RowStep

(* What COMMIT does to the access rows.                                    *)
LEMMA CommitAccess ==
  ASSUME TypeOK, CallsOK, NEW m \in Mergers, CommitMerge(m)
  PROVE  /\ job[m].pc = "commit" /\ job[m].survivor # job[m].loser
         /\ job[m].survivor \in Users /\ job[m].loser \in Users
         /\ \A v \in Users, g \in Grants :
              access'[v][g] =
                IF g \in txn[m].taken /\ v \in Parties(m)
                THEN IF v = job[m].survivor THEN "active" ELSE "none"
                ELSE access[v][g]
  <1> DEFINE s == job[m].survivor
             l == job[m].loser
  <1>1. job[m].pc = "commit" /\ s # l /\ s \in Users /\ l \in Users
    BY ViewTypes DEF CommitMerge, CallsOK
  <1>2. access' = [access EXCEPT
          ![s] = [g \in Grants |-> IF g \in txn[m].taken THEN "active" ELSE access[s][g]],
          ![l] = [g \in Grants |-> IF g \in txn[m].taken THEN "none" ELSE access[l][g]]]
    BY DEF CommitMerge, AccessAfterMerge
  <1>3. access \in [Users -> [Grants -> AccessStatus]]
    BY DEF TypeOK
  <1> QED
    BY <1>1, <1>2, <1>3 DEF Parties

(* The step of a merge keeps what step 3 needs.                            *)
LEMMA AccessMerge ==
  ASSUME TypeOK, CallsOK, AccessOK, NEW m \in Mergers, MergeStep(m)
  PROVE  AccessOK'
  <1>1. ASSUME access' = access,
               \A v \in Users : status[v] = "merged" => status'[v] = "merged",
               \A o \in Mergers \ {m} : job'[o] = job[o] /\ txn'[o] = txn[o],
               job'[m].pc = "commit" =>
                 /\ \A g \in txn'[m].taken : /\ access[job'[m].loser][g] = "active"
                                             /\ access[job'[m].survivor][g] = "none"
                 /\ \A o \in Mergers \ {m} :
                      job[o].pc = "commit" /\ Parties(m)' \cap Parties(o) # {} =>
                        txn'[m].taken \cap txn[o].taken = {},
               Found(m)' => \A g \in txn'[m].active \ txn'[m].taken :
                              \/ access[job'[m].survivor][g] # "none"
                              \/ status[job'[m].survivor] = "merged",
               job'[m].survivor \in Users \/ ~Found(m)'
        PROVE  AccessOK'
    <2>1. \A o \in Mergers \ {m} :
            Parties(o)' = Parties(o) /\ Found(o)' = Found(o)
      BY <1>1 DEF Parties, Found
    <2>2. \A o \in Mergers : job'[o].pc = "commit" =>
            \A g \in txn'[o].taken : /\ access'[job'[o].loser][g] = "active"
                                     /\ access'[job'[o].survivor][g] = "none"
      BY <1>1 DEF AccessOK
    <2>3. \A o \in Mergers : Found(o)' => job'[o].survivor \in Users
      BY <1>1, <2>1, ViewTypes DEF Found
    <2>4. \A o \in Mergers : Found(o)' => \A g \in txn'[o].active \ txn'[o].taken :
            access'[job'[o].survivor][g] # "none" \/ status'[job'[o].survivor] = "merged"
      BY <1>1, <2>1, <2>3 DEF AccessOK
    <2>5. \A n, o \in Mergers :
            /\ n # o /\ job'[n].pc = "commit" /\ job'[o].pc = "commit"
            /\ Parties(n)' \cap Parties(o)' # {}
            => txn'[n].taken \cap txn'[o].taken = {}
      <3> SUFFICES ASSUME NEW n \in Mergers, NEW o \in Mergers, n # o,
                          job'[n].pc = "commit", job'[o].pc = "commit",
                          Parties(n)' \cap Parties(o)' # {}
                   PROVE  txn'[n].taken \cap txn'[o].taken = {}
        OBVIOUS
      <3>1. CASE n = m
        BY <1>1, <2>1, <3>1
      <3>2. CASE o = m
        BY <1>1, <2>1, <3>2
      <3>3. CASE n # m /\ o # m
        BY <1>1, <2>1, <3>3 DEF AccessOK
      <3> QED
        BY <3>1, <3>2, <3>3
    <2> QED
      BY <2>2, <2>4, <2>5 DEF AccessOK
  <1>2. CASE TakeSnapshot(m)
    <2>1. /\ job' = job /\ access' = access /\ status' = status
          /\ \A o \in Mergers \ {m} : txn'[o] = txn[o]
          /\ job[m].pc \in Statement
          /\ job[m].pc = "access" => /\ txn'[m].active = Active(m)
                                     /\ txn'[m].taken = Moves(m)
      BY <1>2, SnapshotWrites DEF userVars
    <2>2. \A g \in Active(m) \ Moves(m) : access[job[m].survivor][g] # "none"
      BY DEF Moves
    <2>3. job[m].pc # "commit" /\ job[m].survivor \in Users
      BY <2>1, ViewTypes DEF Statement
    <2> QED
      BY <1>1, <2>1, <2>2, <2>3 DEF Found
  <1>3. ASSUME NEW ty \in {"email", "phone"},
               ClearPrimaries(m) \/ MoveHandles(m) \/ PromotePrimary(m, ty)
        PROVE  AccessOK'
    <2>1. /\ \A o \in Mergers \ {m} : txn'[o] = txn[o] /\ job'[o] = job[o]
          /\ access' = access /\ status' = status
          /\ job'[m].pc = Following[job[m].pc] /\ ~txn'[m].looked
          /\ job[m].pc \in {"clear", "move", "email", "phone"}
      BY <1>3, RowStatements DEF userVars
    <2>2. job'[m].pc # "commit" /\ ~Found(m)'
      BY <2>1 DEF Following, Found
    <2> QED
      BY <1>1, <2>1, <2>2
  <1>4. CASE UniteAccess(m)
    <2>1. /\ \A o \in Mergers \ {m} : txn'[o] = txn[o] /\ job'[o] = job[o]
          /\ access' = access /\ status' = status
          /\ txn[m].looked /\ job[m].pc = "access" /\ job'[m].pc = "commit"
          /\ job'[m].survivor = job[m].survivor /\ job'[m].loser = job[m].loser
          /\ txn'[m].active = txn[m].active \cap Active(m)
          /\ txn'[m].taken = txn[m].taken \cap Active(m)
      BY <1>4, AccessStatement DEF userVars
    <2>2. \A g \in txn[m].taken \cap Active(m) :
            /\ access[job[m].survivor][g] = "none"
            /\ ~AccessLocked(job[m].survivor, g) /\ ~AccessLocked(job[m].loser, g)
      BY <1>4 DEF UniteAccess
    <2>3. \A g \in Active(m) : access[job[m].loser][g] = "active"
      BY DEF Active
    <2>4. \A o \in Mergers \ {m} :
            job[o].pc = "commit" /\ Parties(m)' \cap Parties(o) # {} =>
              txn'[m].taken \cap txn[o].taken = {}
      BY <2>1, <2>2 DEF AccessLocked, Parties
    <2>5. \A g \in txn'[m].active \ txn'[m].taken :
            access[job[m].survivor][g] # "none" \/ status[job[m].survivor] = "merged"
      BY <2>1 DEF AccessOK, Found
    <2>6. job[m].survivor \in Users
      BY <2>1, ViewTypes
    <2> QED
      BY <1>1, <2>1, <2>2, <2>3, <2>4, <2>5, <2>6
  <1>5. ASSUME \/ \E s, l \in Users : StartMerge(m, s, l)
               \/ AbortMerge(m) \/ Revoke(m) \/ InterruptRevocation(m)
        PROVE  AccessOK'
    <2>1. /\ job'[m].pc # "commit" /\ ~Found(m)'
          /\ access' = access /\ status' = status
          /\ \A o \in Mergers \ {m} : job'[o] = job[o] /\ txn'[o] = txn[o]
      BY <1>5, CallWrites DEF Found, userVars
    <2> QED
      BY <1>1, <2>1
  <1>6. CASE CommitMerge(m)
    <2>1. /\ job[m].pc = "commit" /\ job'[m].pc = "revoking"
          /\ \A o \in Mergers \ {m} : job'[o] = job[o] /\ txn'[o] = txn[o]
          /\ \A v \in Users : status'[v] = IF v = job[m].loser THEN "merged" ELSE status[v]
      BY <1>6, CommitPublishes, CommitAccess
    <2>2. \A v \in Users, g \in Grants :
            access'[v][g] = IF g \in txn[m].taken /\ v \in Parties(m)
                            THEN IF v = job[m].survivor THEN "active" ELSE "none"
                            ELSE access[v][g]
      BY <1>6, CommitAccess
    <2>3. ~Found(m)' /\ job'[m].pc # "commit"
      BY <2>1 DEF Found
    <2>4. \A o \in Mergers \ {m} : Parties(o)' = Parties(o) /\ Found(o)' = Found(o)
      BY <2>1 DEF Parties, Found
    <2>5. ASSUME NEW o \in Mergers \ {m}, job[o].pc = "commit", NEW g \in txn[o].taken
          PROVE  /\ access'[job[o].loser][g] = "active"
                 /\ access'[job[o].survivor][g] = "none"
      <3>1. g \in Grants /\ job[o].loser \in Users /\ job[o].survivor \in Users
        BY <2>5, ViewTypes DEF Txn
      <3>2. access[job[o].loser][g] = "active" /\ access[job[o].survivor][g] = "none"
        BY <2>5 DEF AccessOK
      <3>3. \A v \in Parties(o) : ~(g \in txn[m].taken /\ v \in Parties(m))
        BY <2>1, <2>5 DEF AccessOK
      <3> QED
        BY <2>2, <3>1, <3>2, <3>3 DEF Parties
    <2>6. ASSUME NEW o \in Mergers \ {m}, Found(o), NEW g \in txn[o].active \ txn[o].taken
          PROVE  \/ access'[job[o].survivor][g] # "none"
                 \/ status'[job[o].survivor] = "merged"
      <3>1. g \in Grants /\ job[o].survivor \in Users
        BY <2>6, ViewTypes DEF Txn, Found
      <3>2. access[job[o].survivor][g] # "none" \/ status[job[o].survivor] = "merged"
        BY <2>6 DEF AccessOK
      <3> QED
        BY <2>1, <2>2, <3>1, <3>2 DEF Parties
    <2> QED
      BY <2>1, <2>3, <2>4, <2>5, <2>6 DEF AccessOK
  <1> QED
    BY <1>2, <1>3, <1>4, <1>5, <1>6 DEF MergeStep, TxnStep

LEMMA AccessStep == TypeOK /\ CallsOK /\ AccessOK /\ [Next]_vars => AccessOK'
  <1> SUFFICES ASSUME TypeOK, CallsOK, AccessOK, [Next]_vars PROVE AccessOK'
    OBVIOUS
  <1>1. ASSUME job' = job, txn' = txn,
               \A v \in Users : (status'[v] = "merged") <=> (status[v] = "merged"),
               \A v \in Users, g \in Grants :
                 /\ access[v][g] # "none" => access'[v][g] # "none"
                 /\ AccessLocked(v, g) => access'[v][g] = access[v][g]
        PROVE  AccessOK'
    <2>1. ASSUME NEW m \in Mergers, job[m].pc = "commit", NEW g \in txn[m].taken
          PROVE  /\ access'[job[m].loser][g] = "active"
                 /\ access'[job[m].survivor][g] = "none"
      <3>1. g \in Grants /\ job[m].loser \in Users /\ job[m].survivor \in Users
        BY <2>1, ViewTypes DEF Txn
      <3>2. AccessLocked(job[m].loser, g) /\ AccessLocked(job[m].survivor, g)
        BY <2>1 DEF AccessLocked
      <3> QED
        BY <1>1, <2>1, <3>1, <3>2 DEF AccessOK
    <2>2. ASSUME NEW m \in Mergers, Found(m), NEW g \in txn[m].active \ txn[m].taken
          PROVE  \/ access'[job[m].survivor][g] # "none"
                 \/ status'[job[m].survivor] = "merged"
      <3>1. g \in Grants /\ job[m].survivor \in Users
        BY <2>2, ViewTypes DEF Txn, Found
      <3> QED
        BY <1>1, <2>2, <3>1 DEF AccessOK
    <2>3. \A m \in Mergers : Found(m)' = Found(m) /\ Parties(m)' = Parties(m)
      BY <1>1 DEF Found, Parties
    <2> QED
      BY <1>1, <2>1, <2>2, <2>3 DEF AccessOK
  <1> QED
    BY <1>1, AccessWriters, AccessMerge

(* A merge keeps the union of what step 3 found of both users' access.     *)
THEOREM AccessIsUnited == Spec => MergeUnionsAccess
  <1> DEFINE Union == \A m \in Mergers :
        CommitMerge(m) /\ status[job[m].survivor] # "merged" =>
          \A g \in Grants :
            /\ g \in txn[m].active /\ access[job[m].loser][g] = "active"
                 => access'[job[m].survivor][g] # "none"
            /\ access[job[m].survivor][g] # "none"
                 => access'[job[m].survivor][g] = access[job[m].survivor][g]
  <1>1. Init => AccessOK
    BY DEF Init, AccessOK, Found, IdleJob
  <1>2. TypeOK /\ RowsInv /\ AccessOK /\ [Next]_vars => AccessOK'
    BY AccessStep DEF RowsInv
  <1>3. ASSUME TypeOK, RowsInv, AccessOK PROVE Union
    <2> SUFFICES ASSUME NEW m \in Mergers, CommitMerge(m),
                        status[job[m].survivor] # "merged", NEW g \in Grants
                 PROVE  /\ g \in txn[m].active /\ access[job[m].loser][g] = "active"
                             => access'[job[m].survivor][g] # "none"
                        /\ access[job[m].survivor][g] # "none"
                             => access'[job[m].survivor][g] = access[job[m].survivor][g]
      OBVIOUS
    <2>1. /\ job[m].pc = "commit" /\ job[m].survivor \in Users
          /\ access'[job[m].survivor][g] = IF g \in txn[m].taken THEN "active"
                                           ELSE access[job[m].survivor][g]
      BY <1>3, CommitAccess DEF RowsInv, Parties
    <2>2. g \in txn[m].taken => access[job[m].survivor][g] = "none"
      BY <1>3, <2>1 DEF AccessOK
    <2>3. g \in txn[m].active \ txn[m].taken => access[job[m].survivor][g] # "none"
      <3>1. Found(m)
        BY <2>1 DEF Found
      <3>2. \A q \in txn[m].active \ txn[m].taken :
              access[job[m].survivor][q] # "none" \/ status[job[m].survivor] = "merged"
        BY <1>3, <3>1 DEF AccessOK
      <3> QED
        BY <3>2
    <2> QED
      BY <2>1, <2>2, <2>3
  <1>4. TypeOK /\ RowsInv /\ AccessOK /\ [Next]_vars => [Union]_vars
    BY <1>3
  <1> QED
    BY <1>1, <1>2, <1>4, TypesHold, RowsHold, PTL DEF Spec, MergeUnionsAccess
=============================================================================
