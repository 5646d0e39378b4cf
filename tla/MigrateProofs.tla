----------------------------- MODULE MigrateProofs -----------------------------
(***************************************************************************)
(* Proofs about Migrate: as long as the lock is not lost, only its holder  *)
(* is between its checks and its commits, so what a run found pending is   *)
(* still pending when it is applied.  From that the refinement of          *)
(* MigrationLedger follows, whatever is lost or crashes.                   *)
(***************************************************************************)
EXTENDS Migrate, TLAPS

Working == {"ensuring", "reading", "applying", "unlocking"}

(* Until the lock is lost for the first time, whoever works holds it.      *)
Excludes ==
  lost = 0 => \A r \in Runners : runner[r].pc \in Working => lock = r

(* Only a run that may apply has something pending, of its own files.      *)
PendingHaveFiles ==
  \A r \in Runners : \A v \in runner[r].todo : HasFile(r, v) /\ ~runner[r].dryRun

(* What a run has found out before it applies stays true under the lock.   *)
PendingAreNew ==
  lost = 0 => \A r \in Runners : At(r, "applying") =>
    /\ \A v \in runner[r].todo : done[v] = <<>>
    /\ \A w \in Versions :
         HasFile(r, w) /\ done[w] # <<>> => Head(done[w]) = runner[r].files[w]

IInv ==
  /\ TypeOK
  /\ Excludes
  /\ PendingHaveFiles
  /\ PendingAreNew
  /\ LedgerMatchesSchema
  /\ AppliedOnce

-----------------------------------------------------------------------------
LEMMA InitInv == Init => IInv
<1> SUFFICES ASSUME Init PROVE IInv
  OBVIOUS
<1>1. NoRun \in Run
  BY MigrateAssumption DEF NoRun, Run
<1>2. TypeOK
  <2>1. <<>> \in Seq(Checksums)
    OBVIOUS
  <2>2. ledger \in [Versions -> Checksums \cup {NULL}] /\ bootstrap \subseteq Checksums
    BY DEF Init
  <2>3. done \in [Versions -> Seq(Checksums)]
    BY <2>1 DEF Init
  <2>4. lock \in Runners \cup {NULL} /\ lost \in Nat
    BY DEF Init
  <2>5. runner \in [Runners -> Run]
    BY <1>1 DEF Init
  <2> QED
    BY <2>2, <2>3, <2>4, <2>5 DEF TypeOK
<1>3. Excludes /\ PendingHaveFiles /\ PendingAreNew
  BY DEF Init, Excludes, PendingHaveFiles, PendingAreNew, NoRun, Working, At
<1>4. LedgerMatchesSchema /\ AppliedOnce
  BY DEF Init, LedgerMatchesSchema, AppliedOnce
<1> QED
  BY <1>2, <1>3, <1>4 DEF IInv

(* Every action of a runner changes at most that runner.                   *)
LEMMA ToType ==
  ASSUME TypeOK, NEW r \in Runners, NEW pc, To(r, pc),
         pc \in {"idle", "waiting", "ensuring", "reading", "applying", "unlocking", "exiting"}
  PROVE  /\ runner' \in [Runners -> Run]
         /\ \A q \in Runners : q # r => runner'[q] = runner[q]
         /\ runner'[r].pc = pc
         /\ runner'[r].files = runner[r].files
         /\ runner'[r].todo = runner[r].todo
         /\ runner'[r].dryRun = runner[r].dryRun
  BY DEF TypeOK, To, Run

LEMMA GoneType ==
  ASSUME TypeOK, NEW r \in Runners, Gone(r)
  PROVE  /\ runner' \in [Runners -> Run]
         /\ \A q \in Runners : q # r => runner'[q] = runner[q]
         /\ runner'[r] = NoRun
<1>1. NoRun \in Run
  BY MigrateAssumption DEF NoRun, Run
<1> QED
  BY <1>1 DEF TypeOK, Gone

(* A step that commits nothing keeps what is said of the ledger; the rest  *)
(* is about the runner that steps.                                         *)
LEMMA QuietStep ==
  ASSUME IInv, NEW r \in Runners,
         UNCHANGED <<ledger, done>>, lost' = lost, bootstrap' \subseteq Checksums,
         runner' \in [Runners -> Run],
         \A q \in Runners : q # r => runner'[q] = runner[q],
         lock' \in Runners \cup {NULL},
         \A q \in Runners : q # r /\ lock = q => lock' = q,
         lost = 0 /\ runner'[r].pc \in Working => lock' = r,
         \A v \in runner'[r].todo : runner'[r].files[v] # NULL /\ ~runner'[r].dryRun,
         lost = 0 /\ runner'[r].pc = "applying" =>
           /\ \A v \in runner'[r].todo : done[v] = <<>>
           /\ \A w \in Versions : runner'[r].files[w] # NULL /\ done[w] # <<>>
                => Head(done[w]) = runner'[r].files[w]
  PROVE  IInv'
<1>1. TypeOK'
  BY DEF IInv, TypeOK
<1>2. Excludes'
  BY DEF IInv, Excludes
<1>3. PendingHaveFiles'
  BY DEF IInv, PendingHaveFiles, HasFile
<1>4. PendingAreNew'
  BY DEF IInv, PendingAreNew, HasFile, At
<1>5. LedgerMatchesSchema' /\ AppliedOnce'
  BY DEF IInv, LedgerMatchesSchema, AppliedOnce
<1> QED
  BY <1>1, <1>2, <1>3, <1>4, <1>5 DEF IInv

-----------------------------------------------------------------------------
LEMMA ApplyStep ==
  ASSUME IInv, NEW r \in Runners, NEW v \in Versions, ApplyOne(r, v)
  PROVE  /\ IInv'
         /\ done[v] = <<>> =>
              /\ ledger[v] = NULL
              /\ ledger' = [ledger EXCEPT ![v] = runner[r].files[v]]
              /\ done' = [done EXCEPT ![v] = <<runner[r].files[v]>>]
         /\ done[v] # <<>> => lost # 0 /\ v \in Rerunnable /\ ledger' = ledger
         /\ runner[r].files[v] \in Checksums
<1> DEFINE c == runner[r].files[v]
<1>1. /\ v \in runner[r].todo
      /\ runner[r].pc = "applying"
      /\ runner[r] \in Run
  BY DEF ApplyOne, FirstOf, At, IInv, TypeOK
<1>2. c \in Checksums
  BY <1>1 DEF IInv, PendingHaveFiles, HasFile, Run
<1>3. /\ done[v] \in Seq(Checksums)
      /\ ledger[v] = IF done[v] = <<>> THEN NULL ELSE Head(done[v])
  BY DEF IInv, TypeOK, LedgerMatchesSchema
<1>4. done[v] # <<>> => Head(done[v]) \in Checksums /\ Head(done[v]) # NULL
  BY <1>3, MigrateAssumption
<1>5. /\ Append(done[v], c) \in Seq(Checksums)
      /\ Append(done[v], c) # <<>>
      /\ done[v] = <<>> => Append(done[v], c) = <<c>> /\ Head(Append(done[v], c)) = c
      /\ done[v] # <<>> => Head(Append(done[v], c)) = Head(done[v])
  <2> DEFINE s == done[v]
  <2>1. s \in Seq(Checksums)
    BY <1>3
  <2>2. /\ Append(s, c) \in Seq(Checksums)
        /\ Append(s, c) # <<>>
    BY <1>2, <2>1
  <2>3. s = <<>> => Append(s, c) = <<c>> /\ Head(Append(s, c)) = c
    BY <1>2
  <2>4. s # <<>> => Head(Append(s, c)) = Head(s)
    BY <1>2, <2>1
  <2> QED
    BY <2>2, <2>3, <2>4
<1>6. done[v] # <<>> => lost # 0 /\ v \in Rerunnable
  BY <1>1 DEF ApplyOne, Executable, IInv, PendingAreNew, At
<1>7. /\ done[v] = <<>> => ledger[v] = NULL /\ ledger' = [ledger EXCEPT ![v] = c]
      /\ done[v] # <<>> => ledger' = ledger
  BY <1>3, <1>4 DEF ApplyOne, Recorded
<1>8. /\ done' = [done EXCEPT ![v] = Append(done[v], c)]
      /\ UNCHANGED <<bootstrap, lock, lost>>
      /\ runner' = [runner EXCEPT ![r].todo = runner[r].todo \ {v}]
  BY DEF ApplyOne
<1>9. /\ runner' \in [Runners -> Run]
      /\ \A q \in Runners : q # r => runner'[q] = runner[q]
      /\ runner'[r].pc = "applying"
      /\ runner'[r].files = runner[r].files
      /\ runner'[r].todo = runner[r].todo \ {v}
      /\ runner'[r].dryRun = runner[r].dryRun
  BY <1>1, <1>8 DEF IInv, TypeOK, Run
<1>10. TypeOK'
  BY <1>2, <1>5, <1>7, <1>8, <1>9 DEF IInv, TypeOK
<1>11. Excludes'
  BY <1>1, <1>8, <1>9 DEF IInv, Excludes, Working
<1>12. PendingHaveFiles'
  BY <1>9 DEF IInv, PendingHaveFiles, HasFile
<1>13. /\ done'[v] = Append(done[v], c)
       /\ \A w \in Versions : w # v => done'[w] = done[w]
  BY <1>8 DEF IInv, TypeOK
<1>14. PendingAreNew'
  <2> SUFFICES ASSUME lost = 0, NEW q \in Runners, runner'[q].pc = "applying"
               PROVE  /\ \A w \in runner'[q].todo : done'[w] = <<>>
                      /\ \A w \in Versions : runner'[q].files[w] # NULL /\ done'[w] # <<>>
                           => Head(done'[w]) = runner'[q].files[w]
    BY <1>8 DEF PendingAreNew, At, HasFile
  <2>1. q = r
    <3>1. q # r => runner[q].pc = "applying"
      BY <1>9
    <3>2. lock = r /\ (q # r => lock = q)
      BY <1>1, <3>1 DEF IInv, Excludes, Working
    <3> QED
      BY <3>2
  <2>2. /\ \A w \in runner[r].todo : done[w] = <<>>
        /\ \A w \in Versions : runner[r].files[w] # NULL /\ done[w] # <<>>
             => Head(done[w]) = runner[r].files[w]
    BY <1>1 DEF IInv, PendingAreNew, At, HasFile
  <2>3. done[v] = <<>>
    BY <1>1, <2>2
  <2>4. runner[r].todo \subseteq Versions
    BY <1>1 DEF Run
  <2>5. \A w \in runner'[r].todo : done'[w] = <<>>
    BY <1>9, <1>13, <2>2, <2>4
  <2>6. ASSUME NEW w \in Versions, runner'[r].files[w] # NULL, done'[w] # <<>>
        PROVE  Head(done'[w]) = runner'[r].files[w]
    <3>1. CASE w = v
      BY <3>1, <1>5, <1>9, <1>13, <2>3
    <3>2. CASE w # v
      BY <3>2, <1>9, <1>13, <2>2, <2>6
    <3> QED
      BY <3>1, <3>2
  <2> QED
    BY <2>1, <2>5, <2>6
<1>15. LedgerMatchesSchema'
  <2> SUFFICES ASSUME NEW w \in Versions
               PROVE  ledger'[w] = IF done'[w] = <<>> THEN NULL ELSE Head(done'[w])
    BY DEF LedgerMatchesSchema
  <2>1. CASE w # v
    BY <2>1, <1>7, <1>13 DEF IInv, TypeOK, LedgerMatchesSchema
  <2>2. CASE w = v
    BY <2>2, <1>3, <1>5, <1>7, <1>13 DEF IInv, TypeOK
  <2> QED
    BY <2>1, <2>2
<1>16. AppliedOnce'
  <2> SUFFICES ASSUME NEW w \in Versions, Len(done'[w]) > 1
               PROVE  lost > 0 /\ w \in Rerunnable
    BY <1>8 DEF AppliedOnce
  <2>1. CASE w # v
    BY <2>1, <1>13 DEF IInv, AppliedOnce
  <2>2. CASE w = v
    <3>1. done[v] # <<>>
      BY <2>2, <1>3, <1>5, <1>13
    <3> QED
      BY <3>1, <2>2, <1>6 DEF IInv, TypeOK
  <2> QED
    BY <2>1, <2>2
<1>17. done[v] = <<>> => done' = [done EXCEPT ![v] = <<c>>]
  BY <1>5, <1>8
<1> QED
  BY <1>2, <1>6, <1>7, <1>10, <1>11, <1>12, <1>14, <1>15, <1>16, <1>17 DEF IInv

-----------------------------------------------------------------------------
(* Every other step commits nothing.                                       *)
LEMMA OtherStep ==
  ASSUME IInv, NEW r \in Runners,
         \/ Start(r) \/ Acquire(r) \/ EnsureLedger(r) \/ LedgerFileMissing(r)
         \/ SetupFails(r) \/ ReadApplied(r) \/ ApplyFails(r) \/ AllApplied(r) \/ Unlock(r) \/ Exit(r)
         \/ Crash(r)
  PROVE  IInv' /\ UNCHANGED <<ledger, done, lost>>
<1> USE DEF dbVars
<1>0. /\ runner[r] \in Run
      /\ lock \in Runners \cup {NULL}
      /\ bootstrap \subseteq Checksums
      /\ \A q \in Runners : q # NULL
      /\ \A v \in runner[r].todo : runner[r].files[v] # NULL /\ ~runner[r].dryRun
      /\ lost = 0 /\ runner[r].pc \in Working => lock = r
      /\ TypeOK
      /\ NoRun.pc = "idle" /\ NoRun.todo = {}
  BY MigrateAssumption DEF IInv, TypeOK, Excludes, PendingHaveFiles, HasFile, NoRun
<1>1. CASE Start(r)
  <2>1. PICK rel \in Releases, dry \in BOOLEAN :
          runner' = [runner EXCEPT ![r] =
            [pc |-> "waiting", files |-> Files[rel], dryRun |-> dry, todo |-> {}]]
    BY <1>1 DEF Start
  <2>2. [pc |-> "waiting", files |-> Files[rel], dryRun |-> dry, todo |-> {}] \in Run
    BY MigrateAssumption DEF Run
  <2>3. /\ runner' \in [Runners -> Run]
        /\ \A q \in Runners : q # r => runner'[q] = runner[q]
        /\ runner'[r].pc = "waiting" /\ runner'[r].todo = {}
    BY <1>0, <2>1, <2>2 DEF TypeOK
  <2> QED
    BY <1>0, <1>1, <2>3, QuietStep DEF Start, Working
<1>2. CASE Acquire(r)
  BY <1>0, <1>2, ToType, QuietStep DEF Acquire, Working
<1>3. CASE EnsureLedger(r)
  <2>1. bootstrap' \subseteq Checksums
    <3>1. 1 \in Versions
      BY MigrateAssumption
    <3>2. runner[r].files \in [Versions -> Checksums \cup {NULL}]
      BY <1>0 DEF Run
    <3>3. runner[r].files[1] # NULL
      BY <1>3 DEF EnsureLedger, HasFile
    <3>4. runner[r].files[1] \in Checksums
      BY <3>1, <3>2, <3>3
    <3>5. bootstrap' = bootstrap \cup {runner[r].files[1]}
      BY <1>3 DEF EnsureLedger
    <3> QED
      BY <1>0, <3>4, <3>5
  <2> QED
    BY <1>0, <1>3, <2>1, ToType, QuietStep DEF EnsureLedger, At, Working
<1>4. CASE LedgerFileMissing(r)
  BY <1>0, <1>4, ToType, QuietStep DEF LedgerFileMissing, At, Working
<1>5. CASE ReadApplied(r)
  <2>1. CASE ~(Matches(runner[r].files) /\ ~runner[r].dryRun)
    BY <1>0, <1>5, <2>1, ToType, QuietStep DEF ReadApplied, At, Working
  <2>2. CASE Matches(runner[r].files) /\ ~runner[r].dryRun
    <3> DEFINE todo == {v \in Versions : HasFile(r, v) /\ ledger[v] = NULL}
    <3>1. /\ runner' = [runner EXCEPT ![r].pc = "applying", ![r].todo = todo]
          /\ runner[r].pc = "reading"
          /\ UNCHANGED <<ledger, done, bootstrap, lock, lost>>
      BY <1>5, <2>2 DEF ReadApplied, At
    <3>2. /\ runner' \in [Runners -> Run]
          /\ \A q \in Runners : q # r => runner'[q] = runner[q]
          /\ runner'[r].pc = "applying" /\ runner'[r].todo = todo
          /\ runner'[r].files = runner[r].files
          /\ ~runner'[r].dryRun
      BY <1>0, <2>2, <3>1 DEF TypeOK, Run
    <3>3. \A v \in Versions :
            /\ ledger[v] = IF done[v] = <<>> THEN NULL ELSE Head(done[v])
            /\ done[v] # <<>> => Head(done[v]) # NULL
      BY MigrateAssumption DEF IInv, TypeOK, LedgerMatchesSchema
    <3>4. \A v \in todo : done[v] = <<>>
      BY <3>3
    <3>5. \A w \in Versions : runner[r].files[w] # NULL /\ done[w] # <<>>
            => Head(done[w]) = runner[r].files[w]
      BY <2>2, <3>3 DEF Matches
    <3>6. \A v \in todo : runner[r].files[v] # NULL
      BY DEF HasFile
    <3>7. lost = 0 => lock = r
      BY <1>0, <3>1 DEF Working
    <3> HIDE DEF todo
    <3> QED
      BY <1>0, <3>1, <3>2, <3>4, <3>5, <3>6, <3>7, QuietStep
  <2> QED
    BY <2>1, <2>2
<1>6. CASE ApplyFails(r)
  BY <1>0, <1>6, ToType, QuietStep DEF ApplyFails, At, Working
<1>7. CASE AllApplied(r)
  BY <1>0, <1>7, ToType, QuietStep DEF AllApplied, At, Working
<1>8. CASE Unlock(r)
  BY <1>0, <1>8, ToType, QuietStep DEF Unlock, Freed, Working
<1>9. CASE Exit(r)
  BY <1>0, <1>9, GoneType, QuietStep DEF Exit, Freed, Working
<1>10. CASE Crash(r)
  BY <1>0, <1>10, GoneType, QuietStep DEF Crash, Freed, Working
<1>11. CASE SetupFails(r)
  BY <1>0, <1>11, ToType, QuietStep DEF SetupFails, At, Working
<1> QED
  BY <1>1, <1>2, <1>3, <1>4, <1>5, <1>6, <1>7, <1>8, <1>9, <1>10, <1>11

LEMMA LoseStep ==
  ASSUME IInv, NEW r \in Runners, LoseLock(r)
  PROVE  IInv' /\ lost' # 0 /\ UNCHANGED <<ledger, done>>
<1>1. /\ lost' = lost + 1 /\ lost \in Nat
      /\ UNCHANGED <<ledger, done, bootstrap, runner>>
      /\ lock' = NULL
  BY DEF LoseLock, dbVars, IInv, TypeOK
<1>2. lost' # 0
  BY <1>1
<1>3. TypeOK' /\ PendingHaveFiles'
  BY <1>1 DEF IInv, TypeOK, PendingHaveFiles, HasFile
<1>4. LedgerMatchesSchema' /\ AppliedOnce'
  BY <1>1 DEF IInv, LedgerMatchesSchema, AppliedOnce
<1> QED
  BY <1>1, <1>2, <1>3, <1>4 DEF IInv, Excludes, PendingAreNew

LEMMA InvStep == IInv /\ [Next]_vars => IInv'
<1> SUFFICES ASSUME IInv, [Next]_vars PROVE IInv'
  OBVIOUS
<1>1. CASE UNCHANGED vars
  BY <1>1 DEF vars, dbVars, IInv, TypeOK, Excludes, PendingHaveFiles, PendingAreNew,
     LedgerMatchesSchema, AppliedOnce, HasFile, At
<1>2. ASSUME NEW r \in Runners, RunnerStep(r) PROVE IInv'
  <2>1. CASE \E v \in Versions : ApplyOne(r, v)
    BY <2>1, ApplyStep
  <2>2. CASE LoseLock(r)
    BY <2>2, LoseStep
  <2> QED
    BY <1>2, <2>1, <2>2, OtherStep DEF RunnerStep, Proceed
<1> QED
  BY <1>1, <1>2 DEF Next

LEMMA Invariant == Spec => []IInv
  BY InitInv, InvStep, PTL DEF Spec

-----------------------------------------------------------------------------
(* The types of the ledger, the lock and the runners hold in every state.  *)
THEOREM MigrateTypesHold == Spec => []TypeOK
<1>1. IInv => TypeOK
  BY DEF IInv
<1> QED
  BY <1>1, Invariant, PTL

(* For any number of runners and releases: a version is applied once, or   *)
(* again only after the lock was lost and if that does not fail.           *)
THEOREM VersionsAppliedOnce == Spec => []AppliedOnce
<1>1. IInv => AppliedOnce
  BY DEF IInv
<1> QED
  BY <1>1, Invariant, PTL

(* A version has a row exactly if applyOne committed its statements, and   *)
(* the row names the content that it committed first.                      *)
THEOREM LedgerIsSchema == Spec => []LedgerMatchesSchema
<1>1. IInv => LedgerMatchesSchema
  BY DEF IInv
<1> QED
  BY <1>1, Invariant, PTL

(* Whatever runs overlap: of a dry run, and (until the lock is lost) of a  *)
(* release with an edited copy of what was applied, nothing is committed   *)
(* but its own file 0001, executed before the comparison and without row.  *)
THEOREM EditedFilesOnlyBootstrap == Spec => BarredRunsOnlyBootstrap
<1> DEFINE OnlyBootstraps(r) ==
      /\ runner'[r] # runner[r]
      /\ (Edited(r) /\ lost = 0) \/ runner[r].dryRun
      => /\ UNCHANGED <<ledger, done>>
         /\ bootstrap' # bootstrap
              => At(r, "ensuring") /\ bootstrap' = bootstrap \cup {runner[r].files[1]}
<1>1. ASSUME IInv, [Next]_vars
      PROVE  [\A r \in Runners : OnlyBootstraps(r)]_vars
  <2> SUFFICES ASSUME vars' # vars, NEW r \in Runners, runner'[r] # runner[r],
                      (Edited(r) /\ lost = 0) \/ runner[r].dryRun
               PROVE  /\ UNCHANGED <<ledger, done>>
                      /\ bootstrap' # bootstrap
                           => /\ At(r, "ensuring")
                              /\ bootstrap' = bootstrap \cup {runner[r].files[1]}
    OBVIOUS
  <2>1. PICK q \in Runners : RunnerStep(q)
    BY <1>1 DEF Next
  <2>2. ~LoseLock(q)
    BY DEF LoseLock
  <2>3. q = r
    BY <1>1, <2>1, <2>2 DEF RunnerStep, Proceed, Start, Acquire, EnsureLedger,
       LedgerFileMissing, SetupFails, ReadApplied, ApplyOne, ApplyFails, AllApplied,
       Unlock, Exit, Crash, To, Gone, IInv, TypeOK
  <2>4. \A v \in Versions : ~ApplyOne(r, v)
    <3> SUFFICES ASSUME NEW v \in Versions, ApplyOne(r, v) PROVE FALSE
      OBVIOUS
    <3>1. At(r, "applying") /\ v \in runner[r].todo
      BY DEF ApplyOne, FirstOf
    <3>2. ~runner[r].dryRun
      BY <1>1, <3>1 DEF IInv, PendingHaveFiles
    <3>3. lost = 0 => ~Edited(r)
      BY <1>1, <3>1 DEF IInv, PendingAreNew, Edited
    <3> QED
      BY <3>2, <3>3
  <2>5. UNCHANGED <<ledger, done>>
    BY <1>1, <2>1, <2>2, <2>3, <2>4, OtherStep DEF RunnerStep, Proceed
  <2>6. ~EnsureLedger(r) => bootstrap' = bootstrap
    BY <2>1, <2>2, <2>3, <2>4 DEF RunnerStep, Proceed, Start, Acquire, LedgerFileMissing,
       SetupFails, ReadApplied, ApplyFails, AllApplied, Unlock, Exit, Crash, dbVars
  <2> QED
    BY <2>5, <2>6 DEF EnsureLedger
<1> QED
  BY <1>1, Invariant, PTL DEF Spec, BarredRunsOnlyBootstrap

(* What something was appended to is not empty.                           *)
LEMMA AppendedTo ==
  ASSUME NEW S, NEW s \in Seq(S), NEW e \in S
  PROVE  Append(s, e) # <<>>
<1>1. Len(Append(s, e)) = Len(s) + 1 /\ Len(s) \in Nat
  OBVIOUS
<1>2. Len(<<>>) = 0
  OBVIOUS
<1> QED
  BY <1>1, <1>2

(* What a run applies is what it found pending; the rest of its files are  *)
(* done.                                                                   *)
RestIsDone ==
  \A r \in Runners : At(r, "applying") =>
    \A w \in Versions : HasFile(r, w) => w \in runner[r].todo \/ done[w] # <<>>

(* A run finds it so when it reads the ledger, and each commit keeps it.   *)
LEMMA RestStaysDone == Spec => []RestIsDone
<1>1. Init => RestIsDone
  BY DEF Init, RestIsDone, NoRun, At
<1>2. IInv /\ RestIsDone /\ [Next]_vars => RestIsDone'
  <2> SUFFICES ASSUME IInv, RestIsDone, [Next]_vars PROVE RestIsDone'
    OBVIOUS
  <2>1. runner \in [Runners -> Run] /\ done \in [Versions -> Seq(Checksums)]
    BY DEF IInv, TypeOK
  <2>2. ASSUME NEW r \in Runners, runner'[r].pc # "applying",
               \A q \in Runners : q # r => runner'[q] = runner[q], done' = done
        PROVE  RestIsDone'
    BY <2>2 DEF RestIsDone, At, HasFile
  <2>3. ASSUME NEW r \in Runners, NEW v \in Versions, ApplyOne(r, v)
        PROVE  RestIsDone'
    <3>1. /\ runner'[r].files = runner[r].files /\ runner'[r].todo = runner[r].todo \ {v}
          /\ \A q \in Runners : q # r => runner'[q] = runner[q]
          /\ runner[r].pc = "applying"
      BY <2>1, <2>3 DEF ApplyOne, At, Run
    <3>2. /\ \A w \in Versions : w # v => done'[w] = done[w]
          /\ done'[v] = Append(done[v], runner[r].files[v])
      BY <2>1, <2>3 DEF ApplyOne
    <3>3. done'[v] # <<>>
      <4>1. runner[r].files[v] \in Checksums
        BY <2>3, ApplyStep
      <4> DEFINE s == done[v]
                 c == runner[r].files[v]
      <4>2. s \in Seq(Checksums)
        BY <2>1
      <4>3. c \in Checksums
        BY <4>1
      <4>4. Append(s, c) # <<>>
        BY <4>2, <4>3, AppendedTo
      <4> QED
        BY <3>2, <4>4
    <3>4. \A w \in Versions : done[w] # <<>> => done'[w] # <<>>
      BY <3>2, <3>3
    <3> QED
      BY <3>1, <3>3, <3>4 DEF RestIsDone, At, HasFile
  <2>4. ASSUME NEW r \in Runners, ReadApplied(r)
        PROVE  RestIsDone'
    <3>1. CASE ~(Matches(runner[r].files) /\ ~runner[r].dryRun)
      <4>1. To(r, "unlocking") /\ done' = done
        BY <2>4, <3>1 DEF ReadApplied, dbVars
      <4> QED
        BY <2>2, <4>1, ToType DEF IInv
    <3>2. CASE Matches(runner[r].files) /\ ~runner[r].dryRun
      <4>1. /\ runner'[r].todo = {v \in Versions : HasFile(r, v) /\ ledger[v] = NULL}
            /\ runner'[r].files = runner[r].files
            /\ \A q \in Runners : q # r => runner'[q] = runner[q]
            /\ done' = done
        BY <2>1, <2>4, <3>2 DEF ReadApplied, dbVars, Run
      <4>2. \A w \in Versions : ledger[w] # NULL => done[w] # <<>>
        BY DEF IInv, LedgerMatchesSchema
      <4> QED
        BY <4>1, <4>2 DEF RestIsDone, At, HasFile
    <3> QED
      BY <3>1, <3>2
  <2>5. ASSUME NEW r \in Runners,
               \/ Start(r) \/ Acquire(r) \/ EnsureLedger(r) \/ LedgerFileMissing(r)
               \/ SetupFails(r) \/ ApplyFails(r) \/ AllApplied(r) \/ Unlock(r) \/ Exit(r) \/ Crash(r)
        PROVE  RestIsDone'
    <3>1. done' = done
      BY <2>5 DEF Start, Acquire, EnsureLedger, LedgerFileMissing, SetupFails, ApplyFails,
         AllApplied, Unlock, Exit, Crash, dbVars
    <3>2. CASE Start(r)
      <4>1. runner'[r].pc = "waiting" /\ \A q \in Runners : q # r => runner'[q] = runner[q]
        BY <2>1, <3>2 DEF Start
      <4> QED
        BY <2>2, <3>1, <4>1
    <3>3. CASE Exit(r) \/ Crash(r)
      <4>1. Gone(r) /\ NoRun.pc = "idle"
        BY <3>3 DEF Exit, Crash, NoRun
      <4> QED
        BY <2>2, <3>1, <4>1, GoneType DEF IInv
    <3>4. CASE \E pc \in {"ensuring", "reading", "unlocking", "exiting"} : To(r, pc)
      BY <2>2, <3>1, <3>4, ToType DEF IInv
    <3>5. ~Start(r) /\ ~Exit(r) /\ ~Crash(r)
            => \E pc \in {"ensuring", "reading", "unlocking", "exiting"} : To(r, pc)
      BY <2>5 DEF Acquire, EnsureLedger, LedgerFileMissing, SetupFails, ApplyFails,
         AllApplied, Unlock
    <3> QED
      BY <3>2, <3>3, <3>4, <3>5
  <2>6. ASSUME UNCHANGED <<runner, done>>
        PROVE  RestIsDone'
    BY <2>6 DEF RestIsDone, At, HasFile
  <2>7. ASSUME NEW r \in Runners, LoseLock(r) PROVE UNCHANGED <<runner, done>>
    BY <2>7 DEF LoseLock, dbVars
  <2>8. UNCHANGED vars => UNCHANGED <<runner, done>>
    BY DEF vars, dbVars
  <2> QED
    BY <2>3, <2>4, <2>5, <2>6, <2>7, <2>8 DEF Next, RunnerStep, Proceed
<1> QED
  BY <1>1, <1>2, Invariant, PTL DEF Spec

(* Whatever releases are deployed at once and whatever locks are lost, a   *)
(* file is applied on top of all the lower files of its release.           *)
THEOREM FilesApplyInOrder == Spec => AppliedInOrder
<1> DEFINE Ordered(r, v) ==
      done'[v] # done[v] /\ runner'[r].todo # runner[r].todo
        => \A w \in Versions : w < v /\ HasFile(r, w) => done[w] # <<>>
<1>1. ASSUME IInv, RestIsDone, [Next]_vars
      PROVE  [\A r \in Runners : \A v \in runner[r].todo : Ordered(r, v)]_vars
  <2> SUFFICES ASSUME NEW r \in Runners, NEW v \in runner[r].todo,
                      done'[v] # done[v], runner'[r].todo # runner[r].todo,
                      NEW w \in Versions, w < v, HasFile(r, w)
               PROVE  done[w] # <<>>
    OBVIOUS
  <2>1. PICK q \in Runners : RunnerStep(q)
    BY <1>1 DEF Next, vars, dbVars
  <2>2. PICK u \in Versions : ApplyOne(q, u)
    BY <1>1, <2>1, OtherStep, LoseStep DEF RunnerStep, Proceed
  <2>3. q = r
    BY <2>2 DEF ApplyOne
  <2>4. v \in Versions /\ done \in [Versions -> Seq(Checksums)] /\ Versions \subseteq Nat
    BY <1>1, MigrateAssumption DEF IInv, TypeOK, Run
  <2>5. u = v
    BY <2>2, <2>4 DEF ApplyOne
  <2>6. w \notin runner[r].todo
    BY <2>2, <2>3, <2>4, <2>5 DEF ApplyOne, FirstOf
  <2> QED
    BY <1>1, <2>2, <2>3, <2>6 DEF ApplyOne, RestIsDone
<1> QED
  BY <1>1, Invariant, RestStaysDone, PTL DEF Spec, AppliedInOrder

(* The runner implements MigrationLedger: each of its steps commits one    *)
(* version with its row, or commits a version again once exclusion was     *)
(* lost, or changes nothing there.                                         *)
THEOREM LedgerIsKept == Spec => LedgerKept
<1>1. Init => Promise!Init
  BY DEF Init, Promise!Init
<1>2. ASSUME IInv, [Next]_vars PROVE [Promise!Next]_(Promise!ledgerVars)
  <2>1. CASE UNCHANGED vars
    BY <2>1 DEF vars, dbVars, Promise!ledgerVars
  <2>2. ASSUME NEW r \in Runners, RunnerStep(r)
        PROVE  [Promise!Next]_(Promise!ledgerVars)
    <3>1. ASSUME NEW v \in Versions, ApplyOne(r, v) PROVE Promise!Next
      <4> DEFINE c == runner[r].files[v]
      <4>1. /\ c \in Checksums
            /\ done[v] = <<>> =>
                 /\ ledger[v] = NULL
                 /\ ledger' = [ledger EXCEPT ![v] = c]
                 /\ done' = [done EXCEPT ![v] = <<c>>]
            /\ done[v] # <<>> => lost # 0 /\ v \in Rerunnable /\ ledger' = ledger
        BY <1>2, <3>1, ApplyStep
      <4>2. lost' = lost /\ done' = [done EXCEPT ![v] = Append(done[v], c)]
        BY <3>1 DEF ApplyOne
      <4>3. CASE done[v] = <<>>
        <5>1. Promise!Commit(v, c)
          BY <4>1, <4>2, <4>3 DEF Promise!Commit
        <5> QED
          BY <4>1, <5>1 DEF Promise!Next
      <4>4. CASE done[v] # <<>>
        <5>1. Promise!CommitAgain(v, c)
          BY <4>1, <4>2, <4>4 DEF Promise!CommitAgain
        <5> QED
          BY <4>1, <5>1 DEF Promise!Next
      <4> QED
        BY <4>3, <4>4
    <3>2. CASE LoseLock(r)
      <4>1. lost' # 0 /\ UNCHANGED <<ledger, done>>
        BY <1>2, <3>2, LoseStep
      <4> QED
        BY <4>1 DEF Promise!Next, Promise!LoseExclusion
    <3>3. ASSUME ~LoseLock(r), \A v \in Versions : ~ApplyOne(r, v)
          PROVE  UNCHANGED Promise!ledgerVars
      <4>1. UNCHANGED <<ledger, done, lost>>
        BY <1>2, <2>2, <3>3, OtherStep DEF RunnerStep, Proceed
      <4> QED
        BY <4>1 DEF Promise!ledgerVars
    <3> QED
      BY <3>1, <3>2, <3>3
  <2> QED
    BY <1>2, <2>1, <2>2 DEF Next
<1> QED
  BY <1>1, <1>2, Invariant, PTL DEF Spec, LedgerKept, Promise!Spec
=============================================================================
