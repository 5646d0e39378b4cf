------------------------------ MODULE DedupProofs ------------------------------
(* Theorems about DedupRun, for every set of users, candidate pairs and     *)
(* overlapping runs, whatever fails.                                       *)
EXTENDS DedupRun, IdentityMergeProofs

-----------------------------------------------------------------------------
(* Every action keeps the types of the candidate table and of the runs.    *)
LEMMA DedupTypeStep == DedupTypeOK /\ [DedupNext]_allVars => DedupTypeOK'
  <1> SUFFICES ASSUME DedupTypeOK, [DedupNext]_allVars PROVE DedupTypeOK'
    OBVIOUS
  <1> USE DEF DedupTypeOK, Run, RunPC
  <1>1. ASSUME NEW m \in Mergers, RunStep(m) PROVE DedupTypeOK'
    <2>1. CASE StartRun(m)
      BY <2>1 DEF StartRun
    <2>2. ASSUME NEW p \in Pairs, QueueCandidate(m, p) PROVE DedupTypeOK'
      BY <2>2 DEF QueueCandidate, InFlight, Skipped
    <2>3. CASE CallMerge(m)
      BY <2>3 DEF CallMerge
    <2>4. CASE MergeIsNoOp(m)
      BY <2>4 DEF MergeIsNoOp
    <2>5. CASE MergeProceeds(m)
      BY <2>5 DEF MergeProceeds
    <2>6. CASE MarkDecided(m)
      BY <2>6 DEF MarkDecided
    <2>7. CASE EndRun(m) \/ RunFails(m)
      BY <2>7 DEF EndRun, RunFails, IdleRun
    <2> QED
      BY <1>1, <2>1, <2>2, <2>3, <2>4, <2>5, <2>6, <2>7 DEF RunStep
  <1>2. CASE OtherStep
    BY <1>2 DEF OtherStep, dedupVars
  <1>3. CASE UNCHANGED allVars
    BY <1>3 DEF allVars, dedupVars
  <1> QED
    BY <1>1, <1>2, <1>3 DEF DedupNext

(* The types of the two variables of the job hold in every state.          *)
THEOREM DedupTypesHold == DedupSpec => []DedupTypeOK
  <1>1. DedupInit => DedupTypeOK
    BY DEF DedupInit, DedupTypeOK, Run, RunPC, IdleRun
  <1> QED
    BY <1>1, DedupTypeStep, PTL DEF DedupSpec

(* The two users a run has in hand are users.                              *)
LEMMA PairsAreUsers == \A p \in Pairs : p \subseteq Users
  BY DEF Pairs

(* A step of the job is a step of the merge procedure, or leaves its       *)
(* tables and processes alone.                                             *)
LEMMA StepIsMergeStep == DedupTypeOK /\ [DedupNext]_allVars => [Next]_vars
  <1> SUFFICES ASSUME DedupTypeOK, [DedupNext]_allVars PROVE [Next]_vars
    OBVIOUS
  <1>1. ASSUME NEW m \in Mergers, RunStep(m) PROVE [Next]_vars
    <2>1. CASE CallMerge(m)
      <3>1. run[m].pair \subseteq Users
        BY PairsAreUsers DEF DedupTypeOK, Run
      <3>2. \E s, l \in Users : StartMerge(m, s, l)
        BY <2>1, <3>1 DEF CallMerge
      <3> QED
        BY <3>2 DEF Next, MergeStep
    <2>2. CASE MergeProceeds(m)
      BY <2>2 DEF MergeProceeds, Next, MergeStep
    <2>3. CASE RunFails(m)
      BY <2>3 DEF RunFails, Next, MergeStep
    <2>4. StartRun(m) \/ MergeIsNoOp(m) \/ MarkDecided(m) \/ EndRun(m)
            \/ (\E p \in Pairs : QueueCandidate(m, p)) => UNCHANGED vars
      BY DEF StartRun, MergeIsNoOp, MarkDecided, EndRun, QueueCandidate
    <2> QED
      BY <1>1, <2>1, <2>2, <2>3, <2>4 DEF RunStep
  <1>2. CASE OtherStep
    BY <1>2 DEF OtherStep, Next
  <1>3. CASE UNCHANGED allVars
    BY <1>3 DEF allVars
  <1> QED
    BY <1>1, <1>2, <1>3 DEF DedupNext

(* The dedup job only does what the merge procedure allows: every theorem  *)
(* about Spec is one about the job.                                        *)
THEOREM DedupImplementsMerge == DedupSpec => Spec
  <1>1. DedupInit => Init
    BY DEF DedupInit
  <1> QED
    BY <1>1, DedupTypesHold, StepIsMergeStep, PTL DEF DedupSpec, Spec

-----------------------------------------------------------------------------
(* A call of mergeUsers past its check has its users in the order of       *)
(* pickSurvivor.                                                           *)
JobsPreferred ==
  \A m \in Mergers : job[m].pc # "idle" => Preferred(job[m].survivor, job[m].loser)

Queued(p)      == p \in AutoPairs /\ candidate[p] # "none"
QueuedAfter(p) == p \in AutoPairs /\ candidate'[p] # "none"

(* The pair a run is about to merge, and the one its call of mergeUsers is *)
(* at, are of an automatic tier and have their row.                        *)
PairsQueued ==
  \A m \in Mergers :
    /\ run[m].pc = "queued" => Queued(run[m].pair)
    /\ job[m].pc # "idle" => Queued({job[m].survivor, job[m].loser})

(* The rest of the system calls no mergeUsers.                             *)
LEMMA OtherKeepsCalls == OtherStep => UNCHANGED <<run, candidate, job>>
  <1>1. \A u \in Users : RowStep(u) => job' = job
    BY DEF RowStep, CreateUser, AttachVerified, Provision, GrantAccess, RevokeAccess,
           mergeVars
  <1>2. \A c \in Clients : LoginStep(c) => job' = job
    BY DEF LoginStep, ResolveLogin, OpenSession, RejectLogin, PasswordSignIn, mergeVars
  <1>3. \A k \in creds : IssueTokens(k) \/ RefreshTokens(k) \/ EndCredential(k) => job' = job
    BY DEF IssueTokens, RefreshTokens, EndCredential, mergeVars
  <1> QED
    BY <1>1, <1>2, <1>3 DEF OtherStep, dedupVars

(* A call of mergeUsers keeps its users as long as it runs.                *)
LEMMA CallAdvances ==
  ASSUME TypeOK, NEW m \in Mergers, TxnStep(m) \/ CommitMerge(m) \/ Revoke(m)
  PROVE  /\ job[m].pc # "idle" /\ \A k \in Mergers : k # m => job'[k] = job[k]
         /\ job'[m].pc # "idle" => /\ job'[m].survivor = job[m].survivor
                                   /\ job'[m].loser = job[m].loser
         /\ job'[m].pc = "idle" => job[m].pc = "revoking"
         /\ job'[m].pc = "revoking" => \/ job[m].pc = "revoking"
                                       \/ status'[job[m].loser] = "merged"
  <1>1. CASE TakeSnapshot(m)
    BY <1>1, SnapshotWrites DEF Statement
  <1>2. ASSUME NEW ty \in {"email", "phone"},
               ClearPrimaries(m) \/ MoveHandles(m) \/ PromotePrimary(m, ty)
        PROVE  /\ job[m].pc # "idle" /\ job'[m].pc \in Statement \cup {"commit"}
               /\ job'[m].survivor = job[m].survivor /\ job'[m].loser = job[m].loser
               /\ \A k \in Mergers : k # m => job'[k] = job[k]
    BY <1>2, RowStatements DEF Statement, Following
  <1>3. CASE UniteAccess(m)
    BY <1>3, AccessStatement
  <1>4. CASE CommitMerge(m)
    <2>1. job[m].pc = "commit" /\ job[m].loser \in Users
      BY <1>4, ViewTypes DEF CommitMerge
    <2> QED
      BY <1>4, <2>1, CommitPublishes
  <1>5. CASE Revoke(m)
    <2>1. job[m].pc = "revoking"
      BY <1>5 DEF Revoke
    <2> QED
      BY <1>5, <2>1, CallWrites DEF Statement
  <1> QED
    BY <1>1, <1>2, <1>3, <1>4, <1>5 DEF TxnStep, Statement

(* A call of mergeUsers goes on with the users it has, or is the call that *)
(* a run makes for its pair.                                               *)
LEMMA JobWritten ==
  ASSUME TypeOK, DedupTypeOK, [DedupNext]_allVars, NEW n \in Mergers,
         job'[n].pc # "idle"
  PROVE  \/ /\ job[n].pc # "idle"
            /\ job'[n].survivor = job[n].survivor /\ job'[n].loser = job[n].loser
         \/ /\ run[n].pc = "queued"
            /\ run[n].pair = {job'[n].survivor, job'[n].loser}
            /\ Preferred(job'[n].survivor, job'[n].loser)
  <1> DEFINE Same(m) == /\ job[m].pc # "idle"
                        /\ job'[m].survivor = job[m].survivor
                        /\ job'[m].loser = job[m].loser
  <1>1. ASSUME NEW m \in Mergers, RunStep(m), job' # job
        PROVE  \A k \in Mergers : k # m => job'[k] = job[k]
    <2>1. CASE CallMerge(m)
      BY <2>1 DEF CallMerge, StartMerge, TypeOK
    <2>2. CASE MergeProceeds(m)
      BY <2>2, CallAdvances DEF MergeProceeds
    <2>3. CASE RunFails(m)
      BY <1>1, <2>3 DEF RunFails, AbortMerge, InterruptRevocation, TypeOK, vars, mergeVars
    <2>4. StartRun(m) \/ MergeIsNoOp(m) \/ MarkDecided(m) \/ EndRun(m)
            \/ (\E p \in Pairs : QueueCandidate(m, p)) => job' = job
      BY DEF StartRun, MergeIsNoOp, MarkDecided, EndRun, QueueCandidate, vars, mergeVars
    <2> QED
      BY <1>1, <2>1, <2>2, <2>3, <2>4 DEF RunStep
  <1>2. ASSUME RunStep(n), job' # job
        PROVE  \/ Same(n)
               \/ /\ run[n].pc = "queued"
                  /\ run[n].pair = {job'[n].survivor, job'[n].loser}
                  /\ Preferred(job'[n].survivor, job'[n].loser)
    <2>1. CASE CallMerge(n)
      <3>1. PICK s \in run[n].pair, l \in run[n].pair :
               Preferred(s, l) /\ StartMerge(n, s, l)
        BY <2>1 DEF CallMerge
      <3>2. s # l /\ job'[n].survivor = s /\ job'[n].loser = l
        BY <3>1 DEF StartMerge, TypeOK
      <3>3. run[n].pair \in Pairs
        BY <3>1 DEF DedupTypeOK, Run
      <3>4. run[n].pair = {s, l}
        BY <3>1, <3>2, <3>3 DEF Pairs
      <3> QED
        BY <2>1, <3>1, <3>2, <3>4 DEF CallMerge
    <2>2. CASE MergeProceeds(n)
      BY <2>2, CallAdvances DEF MergeProceeds
    <2>3. CASE RunFails(n)
      BY <1>2, <2>3 DEF RunFails, AbortMerge, InterruptRevocation, TypeOK, IdleJob, vars, mergeVars
    <2>4. StartRun(n) \/ MergeIsNoOp(n) \/ MarkDecided(n) \/ EndRun(n)
            \/ (\E p \in Pairs : QueueCandidate(n, p)) => job' = job
      BY DEF StartRun, MergeIsNoOp, MarkDecided, EndRun, QueueCandidate, vars, mergeVars
    <2> QED
      BY <1>2, <2>1, <2>2, <2>3, <2>4 DEF RunStep
  <1>3. OtherStep => job' = job
    BY OtherKeepsCalls
  <1>4. CASE job' = job
    BY <1>4
  <1>5. CASE job' # job
    <2>1. PICK m \in Mergers : RunStep(m)
      BY <1>3, <1>5 DEF DedupNext, allVars, vars, mergeVars
    <2>2. CASE m = n
      BY <1>2, <1>5, <2>1, <2>2
    <2>3. CASE m # n
      BY <1>1, <1>5, <2>1, <2>3
    <2> QED
      BY <2>2, <2>3
  <1> QED
    BY <1>4, <1>5

(* A pair keeps its row, and a run holds a pair ready to merge only if the *)
(* pair is of an automatic tier and has its row.                           *)
LEMMA QueueWritten ==
  ASSUME DedupTypeOK, [DedupNext]_allVars
  PROVE  /\ \A p : Queued(p) => QueuedAfter(p)
         /\ \A n \in Mergers : run'[n].pc = "queued" =>
              \/ run[n].pc = "queued" /\ run'[n].pair = run[n].pair
              \/ QueuedAfter(run'[n].pair)
  <1> USE DEF DedupTypeOK, Run, RunPC, Queued, QueuedAfter
  <1>0. AutoPairs \subseteq Pairs
    BY DedupAssumption
  <1>1. ASSUME NEW m \in Mergers, RunStep(m)
        PROVE  /\ \A p : Queued(p) => QueuedAfter(p)
               /\ \A n \in Mergers : n # m => run'[n] = run[n]
               /\ run'[m].pc = "queued" => QueuedAfter(run'[m].pair)
    <2>1. ASSUME NEW p \in Pairs, QueueCandidate(m, p)
          PROVE  /\ \A q : Queued(q) => QueuedAfter(q)
                 /\ \A n \in Mergers : n # m => run'[n] = run[n]
                 /\ run'[m].pc = "queued" => QueuedAfter(run'[m].pair)
      <3>1. candidate'[p] # "none" /\ \A q \in Pairs : q # p => candidate'[q] = candidate[q]
        BY <2>1 DEF QueueCandidate
      <3>2. run'[m].pc = "queued" => p \in AutoPairs /\ run'[m].pair = p
        BY <2>1 DEF QueueCandidate, IsAutoMergeTier, InFlight, Skipped
      <3>3. \A n \in Mergers : n # m => run'[n] = run[n]
        BY <2>1 DEF QueueCandidate
      <3> QED
        BY <1>0, <3>1, <3>2, <3>3
    <2>2. CASE StartRun(m) \/ CallMerge(m) \/ MergeIsNoOp(m) \/ MergeProceeds(m)
               \/ EndRun(m) \/ RunFails(m)
      BY <2>2 DEF StartRun, CallMerge, MergeIsNoOp, MergeProceeds, EndRun, RunFails, IdleRun
    <2>3. CASE MarkDecided(m)
      BY <1>0, <2>3 DEF MarkDecided
    <2> QED
      BY <1>1, <2>1, <2>2, <2>3 DEF RunStep
  <1>2. CASE OtherStep
    BY <1>2 DEF OtherStep, dedupVars
  <1>3. CASE UNCHANGED allVars
    BY <1>3 DEF allVars, dedupVars
  <1>4. CASE \E m \in Mergers : RunStep(m)
    <2>1. PICK m \in Mergers : RunStep(m)
      BY <1>4
    <2> QED
      BY <1>1, <2>1
  <1> QED
    BY <1>2, <1>3, <1>4 DEF DedupNext

(* Every call stays in the order of pickSurvivor.                          *)
LEMMA JobsStep ==
  TypeOK /\ DedupTypeOK /\ JobsPreferred /\ [DedupNext]_allVars => JobsPreferred'
  BY JobWritten DEF JobsPreferred, Preferred

(* Every run and every call stays with queued pairs of automatic tiers.    *)
LEMMA PairsStep ==
  TypeOK /\ DedupTypeOK /\ PairsQueued /\ [DedupNext]_allVars => PairsQueued'
  <1> SUFFICES ASSUME TypeOK, DedupTypeOK, PairsQueued, [DedupNext]_allVars,
                      NEW n \in Mergers
               PROVE  /\ run'[n].pc = "queued" => QueuedAfter(run'[n].pair)
                      /\ job'[n].pc # "idle" => QueuedAfter({job'[n].survivor, job'[n].loser})
    BY DEF PairsQueued, Queued, QueuedAfter
  <1>1. run'[n].pc = "queued" => QueuedAfter(run'[n].pair)
    BY QueueWritten DEF PairsQueued
  <1>2. job'[n].pc # "idle" => QueuedAfter({job'[n].survivor, job'[n].loser})
    BY JobWritten, QueueWritten DEF PairsQueued
  <1> QED
    BY <1>1, <1>2

-----------------------------------------------------------------------------
(* A commit writes what its call holds, nothing else writes the log.       *)
LEMMA LogWritten ==
  ASSUME TypeOK, DedupTypeOK, [DedupNext]_allVars
  PROVE  \/ UNCHANGED <<mergedInto, mergeLog>>
         \/ \E m \in Mergers : CommitMerge(m)
  BY StepIsMergeStep, UserRowsWritten DEF userVars

(* A merged user points at a user preferred to it, in every state.         *)
THEOREM SurvivorsClimb == DedupSpec => []PointersClimb
  <1>1. DedupInit => PointersClimb /\ JobsPreferred
    BY DEF DedupInit, Init, PointersClimb, JobsPreferred, IdleJob
  <1>2. ASSUME TypeOK, DedupTypeOK, JobsPreferred, PointersClimb, [DedupNext]_allVars
        PROVE  PointersClimb'
    <2>1. CASE UNCHANGED <<mergedInto, mergeLog>>
      BY <1>2, <2>1 DEF PointersClimb, Preferred
    <2>2. ASSUME NEW m \in Mergers, CommitMerge(m) PROVE PointersClimb'
      <3> DEFINE s == job[m].survivor
                 l == job[m].loser
      <3>1. job[m].pc = "commit" /\ mergedInto' = [mergedInto EXCEPT ![l] = s]
        BY <2>2 DEF CommitMerge, PointerAfterMerge
      <3>2. Preferred(s, l)
        BY <1>2, <3>1 DEF JobsPreferred
      <3> QED
        BY <1>2, <3>1, <3>2 DEF PointersClimb, Preferred, TypeOK
    <2> QED
      BY <1>2, <2>1, <2>2, LogWritten
  <1>3. TypeOK /\ DedupTypeOK /\ JobsPreferred /\ PointersClimb /\ [DedupNext]_allVars
          => JobsPreferred' /\ PointersClimb'
    BY <1>2, JobsStep
  <1> QED
    BY <1>1, <1>3, DedupImplementsMerge, TypesHold, DedupTypesHold, PTL DEF DedupSpec

(* Of any users, one is preferred to all the others.                       *)
LEMMA FirstUserExists ==
  ASSUME NEW S, S \subseteq Users, S # {}
  PROVE  \E u \in S : \A v \in S : ~Preferred(v, u)
  <1> DEFINE Best == IF S \cap Linked # {} THEN S \cap Linked ELSE S
             Ages == {Seniority[u] : u \in Best}
  <1>1. Seniority \in [Users -> Nat]
    BY DedupAssumption
  <1>2. Ages \subseteq Nat /\ Ages # {}
    BY <1>1
  <1>3. PICK a \in Ages : \A b \in Ages : ~(<<b, a>> \in OpToRel(<, Nat))
    BY <1>2, NatLessThanWellFounded, WFMin
  <1>4. PICK u \in Best : Seniority[u] = a
    BY <1>3
  <1>5. \A v \in Best : ~(Seniority[v] < Seniority[u])
    BY <1>2, <1>3, <1>4 DEF OpToRel
  <1>6. u \in S /\ \A v \in S : ~Preferred(v, u)
    BY <1>4, <1>5 DEF Preferred
  <1> QED
    BY <1>6

(* Following merged_into_user_id never runs in a circle: of any users, one *)
(* points at none of the others, so every chain ends.                      *)
THEOREM ChainsEnd == DedupSpec => []EveryChainEnds
  <1>1. PointersClimb => EveryChainEnds
    <2> SUFFICES ASSUME PointersClimb, NEW S \in SUBSET Users, S # {}
                 PROVE  \E u \in S : mergedInto[u] \notin S
      BY DEF EveryChainEnds
    <2>1. PICK u \in S : \A v \in S : ~Preferred(v, u)
      BY FirstUserExists
    <2>2. NULL \notin S
      BY MergeAssumption
    <2> QED
      BY <2>1, <2>2 DEF PointersClimb
  <1> QED
    BY <1>1, SurvivorsClimb, PTL

(* Every merge in the log is of a pair of an automatic tier that had its   *)
(* candidate row: the manual tiers are never merged by the job.            *)
THEOREM OnlyAutoPairsAreMerged == DedupSpec => []OnlyAutoPairsMerge
  <1>1. DedupInit => OnlyAutoPairsMerge /\ PairsQueued
    <2>1. DedupInit => 1..Len(mergeLog) = {}
      BY DEF DedupInit, Init
    <2> QED
      BY <2>1 DEF DedupInit, Init, OnlyAutoPairsMerge, PairsQueued, IdleJob, IdleRun
  <1>2. ASSUME TypeOK, DedupTypeOK, PairsQueued, OnlyAutoPairsMerge, [DedupNext]_allVars
        PROVE  OnlyAutoPairsMerge'
    <2> DEFINE pair(r) == {r.survivor, r.merged}
    <2>1. \A p : Queued(p) => QueuedAfter(p)
      BY <1>2, QueueWritten
    <2>2. \A i \in 1..Len(mergeLog) : Queued(pair(mergeLog[i]))
      BY <1>2 DEF OnlyAutoPairsMerge, Queued
    <2>3. CASE UNCHANGED <<mergedInto, mergeLog>>
      BY <2>1, <2>2, <2>3 DEF OnlyAutoPairsMerge, QueuedAfter
    <2>4. ASSUME NEW m \in Mergers, CommitMerge(m) PROVE OnlyAutoPairsMerge'
      <3>1. PICK s, l \in Users :
               /\ s = job[m].survivor /\ l = job[m].loser
               /\ job[m].pc = "commit"
               /\ Len(mergeLog') = Len(mergeLog) + 1
               /\ \A i \in 1..Len(mergeLog) : mergeLog'[i] = mergeLog[i]
               /\ mergeLog'[Len(mergeLog) + 1] = [survivor |-> s, merged |-> l]
        BY <1>2, <2>4, CommitWrites
      <3>2. Queued({s, l})
        BY <1>2, <3>1 DEF PairsQueued
      <3>3. Len(mergeLog) \in Nat
        BY <1>2 DEF TypeOK
      <3>4. ASSUME NEW i \in 1..Len(mergeLog') PROVE QueuedAfter(pair(mergeLog'[i]))
        <4>1. CASE i \in 1..Len(mergeLog)
          <5>1. mergeLog'[i] = mergeLog[i] /\ Queued(pair(mergeLog[i]))
            BY <2>2, <3>1, <4>1
          <5> QED
            BY <2>1, <5>1
        <4>2. CASE i = Len(mergeLog) + 1
          <5>1. pair(mergeLog'[i]) = {s, l}
            BY <3>1, <4>2
          <5> QED
            BY <2>1, <3>2, <5>1
        <4> QED
          BY <3>1, <3>3, <3>4, <4>1, <4>2
      <3> QED
        BY <3>4 DEF OnlyAutoPairsMerge, QueuedAfter
    <2> QED
      BY <1>2, <2>3, <2>4, LogWritten
  <1>3. TypeOK /\ DedupTypeOK /\ PairsQueued /\ OnlyAutoPairsMerge /\ [DedupNext]_allVars
          => PairsQueued' /\ OnlyAutoPairsMerge'
    BY <1>2, PairsStep
  <1> QED
    BY <1>1, <1>3, DedupImplementsMerge, TypesHold, DedupTypesHold, PTL DEF DedupSpec

-----------------------------------------------------------------------------
(* Every log row is of a survivor preferred to the user it merged.         *)
LogClimbs ==
  \A i \in 1..Len(mergeLog) : Preferred(mergeLog[i].survivor, mergeLog[i].merged)

LEMMA LogClimbsHolds == DedupSpec => []LogClimbs
  <1>1. DedupInit => LogClimbs /\ JobsPreferred
    <2>1. DedupInit => 1..Len(mergeLog) = {}
      BY DEF DedupInit, Init
    <2> QED
      BY <2>1 DEF DedupInit, Init, LogClimbs, JobsPreferred, IdleJob
  <1>2. ASSUME TypeOK, DedupTypeOK, JobsPreferred, LogClimbs, [DedupNext]_allVars
        PROVE  LogClimbs'
    <2>1. CASE UNCHANGED <<mergedInto, mergeLog>>
      BY <1>2, <2>1 DEF LogClimbs, Preferred
    <2>2. ASSUME NEW m \in Mergers, CommitMerge(m) PROVE LogClimbs'
      <3>1. PICK s, l \in Users :
               /\ s = job[m].survivor /\ l = job[m].loser
               /\ job[m].pc = "commit"
               /\ Len(mergeLog') = Len(mergeLog) + 1
               /\ \A i \in 1..Len(mergeLog) : mergeLog'[i] = mergeLog[i]
               /\ mergeLog'[Len(mergeLog) + 1] = [survivor |-> s, merged |-> l]
        BY <1>2, <2>2, CommitWrites
      <3>2. Preferred(s, l) /\ Len(mergeLog) \in Nat
        BY <1>2, <3>1 DEF JobsPreferred, TypeOK
      <3> QED
        BY <1>2, <3>1, <3>2 DEF LogClimbs, Preferred
    <2> QED
      BY <1>2, <2>1, <2>2, LogWritten
  <1>3. TypeOK /\ DedupTypeOK /\ JobsPreferred /\ LogClimbs /\ [DedupNext]_allVars
          => JobsPreferred' /\ LogClimbs'
    BY <1>2, JobsStep
  <1> QED
    BY <1>1, <1>3, DedupImplementsMerge, TypesHold, DedupTypesHold, PTL DEF DedupSpec

(* No user would lose the merge of one automatic pair and survive another's.*)
NobodyLosesAndSurvives ==
  \A p, q \in AutoPairs : \A u \in p \cap q :
    ~((\E a \in p : Preferred(a, u)) /\ (\E b \in q : Preferred(u, b)))

(* When the automatic pairs are of that shape, a verified handle leads to  *)
(* a live user, whatever runs overlap and fail, unless it came late: that  *)
(* and two pairs in a row, one merging into the user the other merges      *)
(* away, are all that can go wrong.                                        *)
THEOREM SignInsStayLive ==
  ASSUME NobodyLosesAndSurvives
  PROVE  DedupSpec => []SignInsReachLiveUsers
  <1>1. StrandedExplained /\ OnlyAutoPairsMerge /\ LogClimbs => SignInsReachLiveUsers
    <2> SUFFICES ASSUME StrandedExplained, OnlyAutoPairsMerge, LogClimbs,
                        NEW h \in verified \ late, status[owner[h]] = "merged"
                 PROVE  FALSE
      BY DEF SignInsReachLiveUsers
    <2> DEFINE u == owner[h]
    <2>1. PICK i, k \in 1..Len(mergeLog) : mergeLog[i].merged = u /\ mergeLog[k].survivor = u
      BY DEF StrandedExplained, MergedThenChosen
    <2> DEFINE p == {mergeLog[i].survivor, mergeLog[i].merged}
               q == {mergeLog[k].survivor, mergeLog[k].merged}
    <2>2. p \in AutoPairs /\ q \in AutoPairs
      BY DEF OnlyAutoPairsMerge
    <2>3. Preferred(mergeLog[i].survivor, u) /\ Preferred(u, mergeLog[k].merged)
      BY <2>1 DEF LogClimbs
    <2> QED
      BY <2>1, <2>2, <2>3 DEF NobodyLosesAndSurvives
  <1> QED
    BY <1>1, LogClimbsHolds, OnlyAutoPairsAreMerged, DedupImplementsMerge,
       StrandingIsExplained, PTL

(* One run of the job at a time merges a user at most once.                *)
THEOREM OneRunMergesOnce ==
  ASSUME \A m, n \in Mergers : m = n
  PROVE  DedupSpec => []SingleLogRow
  BY OneMergerMergesOnce, DedupImplementsMerge, PTL

-----------------------------------------------------------------------------
SomeMerged(p) == \E u \in p : status[u] = "merged"

(* Why a pair can be marked merged: its call of mergeUsers has committed,  *)
(* or found that an earlier one had.                                       *)
DecidedInv ==
  /\ DecidedPairsMerged
  /\ \A m \in Mergers :
       /\ run[m].pc = "merging" =>
            job[m].pc # "idle" /\ run[m].pair = {job[m].survivor, job[m].loser}
       /\ run[m].pc = "merged" => SomeMerged(run[m].pair)
       /\ job[m].pc = "revoking" => status[job[m].loser] = "merged"

(* A merged user stays merged.                                             *)
LEMMA MergedStays ==
  ASSUME TypeOK, [Next]_vars
  PROVE  \A u \in Users : status[u] = "merged" => status'[u] = "merged"
  <1>1. CASE UNCHANGED userVars
    BY <1>1 DEF userVars
  <1>2. CASE \E u \in Users : /\ status[u] = "absent"
                             /\ \E st \in {"active", "invited"} :
                                  status' = [status EXCEPT ![u] = st]
    BY <1>2 DEF TypeOK
  <1>3. ASSUME NEW m \in Mergers, CommitMerge(m)
        PROVE  \A u \in Users : status[u] = "merged" => status'[u] = "merged"
    BY <1>3 DEF CommitMerge, TypeOK
  <1> QED
    BY <1>1, <1>2, <1>3, UserRowsWritten

(* What a run does to its own place and call, and to the decided rows.     *)
LEMMA RunDecides ==
  ASSUME TypeOK, DedupTypeOK, DecidedInv, NEW m \in Mergers, RunStep(m)
  PROVE  /\ \A n \in Mergers : n # m => run'[n] = run[n] /\ job'[n] = job[n]
         /\ run'[m].pc = "merging" =>
              job'[m].pc # "idle" /\ run'[m].pair = {job'[m].survivor, job'[m].loser}
         /\ run'[m].pc = "merged" => SomeMerged(run'[m].pair)
         /\ job'[m].pc = "revoking" => job'[m].loser = job[m].loser /\
              (job[m].pc = "revoking" \/ status'[job[m].loser] = "merged")
         /\ \A p \in Pairs : candidate'[p] = "merged" =>
              candidate[p] = "merged" \/ SomeMerged(p)
  <1> USE DEF DedupTypeOK, Run, RunPC
  <1>1. CASE StartRun(m) \/ EndRun(m)
    BY <1>1 DEF StartRun, EndRun, IdleRun, vars, mergeVars
  <1>2. ASSUME NEW p \in Pairs, QueueCandidate(m, p)
        PROVE  /\ \A n \in Mergers : n # m => run'[n] = run[n]
               /\ job' = job /\ run'[m].pc \notin {"merging", "merged"}
               /\ \A q \in Pairs : candidate'[q] = "merged" => candidate[q] = "merged"
    BY <1>2 DEF QueueCandidate, InFlight, Skipped, vars, mergeVars
  <1>3. CASE CallMerge(m)
    <2>1. PICK s \in run[m].pair, l \in run[m].pair : StartMerge(m, s, l)
      BY <1>3 DEF CallMerge
    <2>2. /\ s # l /\ job'[m].survivor = s /\ job'[m].loser = l /\ job'[m].pc = "clear"
          /\ \A n \in Mergers : n # m => job'[n] = job[n]
      BY <2>1 DEF StartMerge, TypeOK
    <2>3. run[m].pair = {s, l}
      BY <2>1, <2>2 DEF Pairs
    <2> QED
      BY <1>3, <2>2, <2>3 DEF CallMerge
  <1>4. CASE MergeIsNoOp(m)
    <2>1. /\ run' = [run EXCEPT ![m].pc = "merged"]
          /\ UNCHANGED <<job, candidate>>
          /\ \E l \in run[m].pair : status[l] = "merged"
      BY <1>4 DEF MergeIsNoOp, NotYetMerged, vars, mergeVars
    <2> QED
      BY <2>1 DEF SomeMerged
  <1>5. CASE MergeProceeds(m)
    <2>0. /\ run[m].pc = "merging" /\ candidate' = candidate
          /\ run' = [run EXCEPT ![m].pc = IF job'[m].pc = "idle" THEN "merged" ELSE @]
          /\ run[m].pair = {job[m].survivor, job[m].loser}
      BY <1>5 DEF MergeProceeds, DecidedInv
    <2>1. /\ \A n \in Mergers : n # m => job'[n] = job[n]
          /\ job'[m].pc # "idle" => /\ job'[m].survivor = job[m].survivor
                                    /\ job'[m].loser = job[m].loser
          /\ job'[m].pc = "idle" => job[m].pc = "revoking"
          /\ job'[m].pc = "revoking" => \/ job[m].pc = "revoking"
                                        \/ status'[job[m].loser] = "merged"
      BY <1>5, CallAdvances DEF MergeProceeds
    <2>2. job[m].pc = "revoking" => SomeMerged(run[m].pair)
      BY <2>0 DEF DecidedInv, SomeMerged
    <2> QED
      BY <2>0, <2>1, <2>2
  <1>6. CASE MarkDecided(m)
    BY <1>6 DEF MarkDecided, DecidedInv, vars, mergeVars
  <1>7. CASE RunFails(m)
    <2>1. /\ run' = [run EXCEPT ![m] = IdleRun] /\ candidate' = candidate
          /\ job' = [job EXCEPT ![m] = IdleJob] \/ job' = job
      BY <1>7 DEF RunFails, AbortMerge, InterruptRevocation, vars, mergeVars
    <2> QED
      BY <2>1 DEF IdleRun, IdleJob, TypeOK
  <1> QED
    BY <1>1, <1>2, <1>3, <1>4, <1>5, <1>6, <1>7 DEF RunStep

(* A pair is recorded as merged only when one of its users is: also when   *)
(* the answer of mergeUsers is ignored, and whatever fails around it.      *)
THEOREM DecidedPairsAreMerged == DedupSpec => []DecidedPairsMerged
  <1>1. DedupInit => DecidedInv
    BY DEF DedupInit, Init, DecidedInv, DecidedPairsMerged, IdleRun, IdleJob
  <1>2. ASSUME TypeOK, DedupTypeOK, DecidedInv, [DedupNext]_allVars PROVE DecidedInv'
    <2>1. \A u \in Users : status[u] = "merged" => status'[u] = "merged"
      BY <1>2, StepIsMergeStep, MergedStays
    <2>2. \A p \in Pairs \cup {{}} : SomeMerged(p) => SomeMerged(p)'
      BY <2>1, PairsAreUsers DEF SomeMerged
    <2>3. \A n \in Mergers : job[n].pc = "revoking" => job[n].loser \in Users
      BY <1>2 DEF TypeOK, Job, IdleJob, RunningJob
    <2>4. ASSUME NEW m \in Mergers, RunStep(m) PROVE DecidedInv'
      <3>1. \A p \in Pairs : candidate'[p] = "merged" => candidate[p] = "merged" \/ SomeMerged(p)
        BY <1>2, <2>4, RunDecides
      <3>2. DecidedPairsMerged'
        BY <1>2, <2>2, <3>1 DEF DecidedInv, DecidedPairsMerged, SomeMerged
      <3>3. ASSUME NEW n \in Mergers
            PROVE  /\ run'[n].pc = "merging" =>
                        job'[n].pc # "idle" /\ run'[n].pair = {job'[n].survivor, job'[n].loser}
                   /\ run'[n].pc = "merged" => SomeMerged(run'[n].pair)
                   /\ job'[n].pc = "revoking" => status'[job'[n].loser] = "merged"
        <4>1. CASE n = m
          BY <1>2, <2>1, <2>3, <2>4, <4>1, RunDecides DEF DecidedInv
        <4>2. CASE n # m
          <5>1. run'[n] = run[n] /\ job'[n] = job[n]
            BY <1>2, <2>4, <4>2, RunDecides
          <5> QED
            BY <1>2, <2>1, <2>3, <5>1 DEF DecidedInv
        <4> QED
          BY <4>1, <4>2
      <3>4. \A n \in Mergers : run'[n].pc = "merged" => run'[n].pair \in Pairs \cup {{}}
        BY <1>2, DedupTypeStep DEF DedupTypeOK, Run
      <3>5. \A n \in Mergers : run'[n].pc = "merged" =>
              \E u \in run'[n].pair : status'[u] = "merged"
        BY <2>2, <3>3, <3>4 DEF SomeMerged
      <3> QED
        BY <3>2, <3>3, <3>5 DEF DecidedInv, SomeMerged
    <2>5. CASE UNCHANGED <<run, job, candidate>>
      BY <1>2, <2>1, <2>2, <2>3, <2>5
      DEF DecidedInv, DecidedPairsMerged, SomeMerged, DedupTypeOK, Run
    <2>6. OtherStep => UNCHANGED <<run, job, candidate>>
      BY OtherKeepsCalls
    <2>7. UNCHANGED allVars => UNCHANGED <<run, job, candidate>>
      BY DEF allVars, vars, mergeVars, dedupVars
    <2> QED
      BY <1>2, <2>4, <2>5, <2>6, <2>7 DEF DedupNext
  <1> QED
    BY <1>1, <1>2, DedupImplementsMerge, TypesHold, DedupTypesHold, PTL DEF DedupSpec, DecidedInv
=============================================================================
