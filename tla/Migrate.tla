-------------------------------- MODULE Migrate --------------------------------
(***************************************************************************)
(* The migration runner (src/db/migrate.ts): processes of a rolling deploy,*)
(* each with the files of its release, take an advisory lock, execute file *)
(* 0001, which creates the ledger table, compare checksums, and apply each *)
(* pending file in one transaction with its ledger row.                    *)
(*                                                                         *)
(* The first execution of 0001 comes before any comparison, is committed   *)
(* by itself and leaves no row: "bootstrap" keeps what was executed so,    *)
(* "done" what was committed with a row.                                   *)
(*                                                                         *)
(* The lock belongs to a connection of the runner's pool.  The unlock may  *)
(* be sent on another connection; the lock then lasts until the process    *)
(* exits.  It is also lost when its connection breaks, while the run goes  *)
(* on over the others.                                                     *)
(***************************************************************************)
EXTENDS Naturals, Sequences, FiniteSets

CONSTANTS
  Versions,    (* version numbers; 1 is the ledger table itself             *)
  Checksums,   (* contents a file of a version may have                     *)
  Releases,    (* sets of migration files that get deployed                 *)
  Files,       (* each release's file of each version, NULL: none           *)
  Rerunnable,  (* versions whose statements can be executed twice           *)
  Runners,     (* processes of db:migrate                                   *)
  MaxLost,     (* bounds the connections lost with the lock                 *)
  NULL

ASSUME MigrateAssumption ==
  /\ Versions \subseteq Nat /\ 1 \in Versions
  /\ 1 \in Rerunnable           (* CREATE TABLE IF NOT EXISTS, if unedited  *)
  /\ NULL \notin Checksums /\ NULL \notin Runners
  /\ Files \in [Releases -> [Versions -> Checksums \cup {NULL}]]

VARIABLES
  ledger,      (* rows of schema_migration: each version's checksum         *)
  done,        (* history: the contents committed with a version's row      *)
  bootstrap,   (* history: the contents of 0001 executed by ensureLedger    *)
  lock,        (* the runner whose connection holds the advisory lock       *)
  runner,      (* each process                                              *)
  lost         (* how often a connection was lost with the lock             *)

dbVars == <<ledger, done, bootstrap>>
vars   == <<dbVars, lock, runner, lost>>

NoRun == [pc |-> "idle", files |-> [v \in Versions |-> NULL], dryRun |-> FALSE, todo |-> {}]
Run   == [pc : {"idle", "waiting", "ensuring", "reading", "applying", "unlocking", "exiting"},
          files : [Versions -> Checksums \cup {NULL}],
          dryRun : BOOLEAN, todo : SUBSET Versions]

TypeOK ==
  /\ ledger \in [Versions -> Checksums \cup {NULL}]
  /\ done \in [Versions -> Seq(Checksums)]
  /\ bootstrap \subseteq Checksums
  /\ lock \in Runners \cup {NULL}
  /\ runner \in [Runners -> Run]
  /\ lost \in Nat

Init ==
  /\ ledger = [v \in Versions |-> NULL]
  /\ done = [v \in Versions |-> <<>>]
  /\ bootstrap = {}
  /\ lock = NULL
  /\ runner = [r \in Runners |-> NoRun]
  /\ lost = 0

At(r, pc) == runner[r].pc = pc
To(r, pc) == runner' = [runner EXCEPT ![r].pc = pc]
Gone(r)   == runner' = [runner EXCEPT ![r] = NoRun]
HasFile(r, v) == runner[r].files[v] # NULL

-----------------------------------------------------------------------------
(* discoverMigrations, with or without --dry-run, and the wait for the     *)
(* lock.  Without any file the runner stops before it asks for the lock.   *)
Start(r) ==
  /\ At(r, "idle")
  /\ \E rel \in Releases, dry \in BOOLEAN :
       /\ \E v \in Versions : Files[rel][v] # NULL
       /\ runner' = [runner EXCEPT ![r] =
                       [pc |-> "waiting", files |-> Files[rel], dryRun |-> dry, todo |-> {}]]
  /\ UNCHANGED <<dbVars, lock, lost>>

(* Mutant of Acquire: the lock is asked for and not waited for.            *)
AcquireMutant(r) ==
  /\ At(r, "waiting")
  /\ lock' = r
  /\ To(r, "ensuring")
  /\ UNCHANGED <<dbVars, lost>>

(* pg_advisory_lock                                                        *)
Acquire(r) ==
  /\ At(r, "waiting")
  /\ lock = NULL
  /\ lock' = r
  /\ To(r, "ensuring")
  /\ UNCHANGED <<dbVars, lost>>

(* ensureLedger: the release's own file 0001, edited or not, is executed   *)
(* in every run, dry or not.                                               *)
EnsureLedger(r) ==
  /\ At(r, "ensuring")
  /\ HasFile(r, 1)
  /\ bootstrap' = bootstrap \cup {runner[r].files[1]}
  /\ To(r, "reading")
  /\ UNCHANGED <<ledger, done, lock, lost>>

LedgerFileMissing(r) ==
  /\ At(r, "ensuring")
  /\ ~HasFile(r, 1)
  /\ To(r, "unlocking")
  /\ UNCHANGED <<dbVars, lock, lost>>

(* The statements of 0001 or the query of the ledger fail: an edited file  *)
(* may not be executable twice, or may not create the table.               *)
SetupFails(r) ==
  /\ At(r, "ensuring") \/ At(r, "reading")
  /\ To(r, "unlocking")
  /\ UNCHANGED <<dbVars, lock, lost>>

(* Mutant of Matches: the loop ends at the first file that matches.        *)
MatchesMutant(files) == ledger[1] \in {NULL, files[1]}

(* verifyChecksums *)
Matches(files) ==
  \A v \in Versions : files[v] # NULL /\ ledger[v] # NULL => ledger[v] = files[v]

(* readApplied: a mismatch throws, a dry run reports; otherwise the files  *)
(* that have no row are pending, from now on.                              *)
ReadApplied(r) ==
  /\ At(r, "reading")
  /\ IF Matches(runner[r].files) /\ ~runner[r].dryRun
     THEN runner' = [runner EXCEPT ![r].pc = "applying",
                       ![r].todo = {v \in Versions : HasFile(r, v) /\ ledger[v] = NULL}]
     ELSE To(r, "unlocking")
  /\ UNCHANGED <<dbVars, lock, lost>>

(* Mutant of Recorded: the parameters of the INSERT are swapped.           *)
RecordedMutant(v, c) == IF ledger[v] = NULL THEN [ledger EXCEPT ![v] = v] ELSE ledger

(* INSERT ... ON CONFLICT (version) DO NOTHING                             *)
Recorded(v, c) == IF ledger[v] = NULL THEN [ledger EXCEPT ![v] = c] ELSE ledger

(* Mutant of FirstOf: the files come in the order of the directory scan.   *)
FirstOfMutant(todo, v) == v \in todo

FirstOf(todo, v) == v \in todo /\ \A w \in todo : v <= w

(* Whether a version's statements succeed: CREATE TABLE fails where the    *)
(* table is there, and its transaction is rolled back.                     *)
Executable(v) == done[v] = <<>> \/ v \in Rerunnable

(* applyOne, committed.                                                    *)
ApplyOne(r, v) ==
  LET c == runner[r].files[v] IN
  /\ At(r, "applying")
  /\ FirstOf(runner[r].todo, v)
  /\ Executable(v)
  /\ ledger' = Recorded(v, c)
  /\ done' = [done EXCEPT ![v] = Append(@, c)]
  /\ runner' = [runner EXCEPT ![r].todo = @ \ {v}]
  /\ UNCHANGED <<bootstrap, lock, lost>>

(* applyOne, rolled back: the statements or the connection fail.  The loop *)
(* ends there.                                                             *)
ApplyFails(r) ==
  /\ At(r, "applying")
  /\ runner[r].todo # {}
  /\ To(r, "unlocking")
  /\ UNCHANGED <<dbVars, lock, lost>>

AllApplied(r) ==
  /\ At(r, "applying")
  /\ runner[r].todo = {}
  /\ To(r, "unlocking")
  /\ UNCHANGED <<dbVars, lock, lost>>

-----------------------------------------------------------------------------
Freed(r) == IF lock = r THEN NULL ELSE lock

(* pg_advisory_unlock in the finally block, on the connection that holds   *)
(* the lock or on another one, where it does nothing.                      *)
Unlock(r) ==
  /\ At(r, "unlocking")
  /\ lock' \in {Freed(r), lock}
  /\ To(r, "exiting")
  /\ UNCHANGED <<dbVars, lost>>

(* Mutant of Exit: the process stays, with its connections.                *)
ExitMutant(r) ==
  /\ At(r, "exiting")
  /\ Gone(r)
  /\ UNCHANGED <<dbVars, lock, lost>>

(* process.exit closes the pool.                                           *)
Exit(r) ==
  /\ At(r, "exiting")
  /\ lock' = Freed(r)
  /\ Gone(r)
  /\ UNCHANGED <<dbVars, lost>>

(* The process stops anywhere; an open transaction is rolled back.         *)
Crash(r) ==
  /\ ~At(r, "idle")
  /\ lock' = Freed(r)
  /\ Gone(r)
  /\ UNCHANGED <<dbVars, lost>>

(* The connection that holds the lock breaks, the process goes on.         *)
LoseLock(r) ==
  /\ lock = r
  /\ lost < MaxLost
  /\ lock' = NULL
  /\ lost' = lost + 1
  /\ UNCHANGED <<dbVars, runner>>

-----------------------------------------------------------------------------
Proceed(r) ==
  \/ EnsureLedger(r)
  \/ LedgerFileMissing(r)
  \/ SetupFails(r)
  \/ ReadApplied(r)
  \/ \E v \in Versions : ApplyOne(r, v)
  \/ ApplyFails(r)
  \/ AllApplied(r)
  \/ Unlock(r)
  \/ Exit(r)

RunnerStep(r) == Start(r) \/ Acquire(r) \/ Proceed(r) \/ Crash(r) \/ LoseLock(r)

Next == \E r \in Runners : RunnerStep(r)

(* A run goes on; PostgreSQL gives the lock to those that wait in turn.    *)
Fairness ==
  \A r \in Runners : WF_vars(Proceed(r)) /\ SF_vars(Acquire(r))

Spec == Init /\ [][Next]_vars /\ Fairness

-----------------------------------------------------------------------------
(* A version's statements are committed with a row once, however many      *)
(* runners start at once; again only if the lock was lost under a run, and *)
(* then only if the statements do not fail by themselves.                  *)
AppliedOnce ==
  \A v \in Versions : Len(done[v]) > 1 => lost > 0 /\ v \in Rerunnable

(* The ledger says what was applied: a version has a row if and only if    *)
(* applyOne committed its statements, and the row names the file that it   *)
(* executed first.                                                         *)
LedgerMatchesSchema ==
  \A v \in Versions : ledger[v] = IF done[v] = <<>> THEN NULL ELSE Head(done[v])

(* The release of a run has another content for a file already applied.    *)
Edited(r) ==
  \E w \in Versions : HasFile(r, w) /\ done[w] # <<>> /\ Head(done[w]) # runner[r].files[w]

(* verifyChecksums promises that a release with an edited copy of an       *)
(* applied file applies nothing.  What holds: such a run, and a dry run,   *)
(* commits no pending file and no ledger row, whatever runs overlap with   *)
(* it; but it has executed its own file 0001 by then, be that the edited   *)
(* one.  (A lost lock excepts the edited copy, not the dry run: the file   *)
(* may have been applied by another run after the comparison.)             *)
BarredRunsOnlyBootstrap ==
  [][\A r \in Runners :
       /\ runner'[r] # runner[r]
       /\ (Edited(r) /\ lost = 0) \/ runner[r].dryRun
       => /\ UNCHANGED <<ledger, done>>
          /\ bootstrap' # bootstrap
               => At(r, "ensuring") /\ bootstrap' = bootstrap \cup {runner[r].files[1]}]_vars

(* A file is applied on top of all the lower files of its release, whoever *)
(* applied those, and whatever locks were lost.                            *)
AppliedInOrder ==
  [][\A r \in Runners : \A v \in runner[r].todo :
       done'[v] # done[v] /\ runner'[r].todo # runner[r].todo
         => \A w \in Versions : w < v /\ HasFile(r, w) => done[w] # <<>>]_vars

(* A runner that waits for the lock comes to an end, wherever the unlock   *)
(* of those before it was sent.                                            *)
WaitersEnd == \A r \in Runners : At(r, "waiting") ~> At(r, "idle")

(* The runner implements the promise of MigrationLedger.                   *)
Promise == INSTANCE MigrationLedger WITH exclusive <- (lost = 0)

LedgerKept == Promise!Spec
=============================================================================
