---------------------------- MODULE MigrationLedger ----------------------------
(***************************************************************************)
(* What the migration runner promises, whatever runs overlap and crash: a  *)
(* version's statements and its row in schema_migration are committed in   *)
(* one step, the row never changes, and nothing is committed with a row    *)
(* for a version again while runs exclude each other.  It says nothing of  *)
(* the file 0001 that each run executes first, without a row, to have the  *)
(* ledger table.  Migrate implements this.                                 *)
(***************************************************************************)
EXTENDS Naturals, Sequences

CONSTANTS
  Versions,    (* version numbers of migration files                        *)
  Checksums,   (* contents a file of a version may have                     *)
  Rerunnable,  (* versions whose statements can be executed twice           *)
  NULL

VARIABLES
  ledger,      (* schema_migration: each version's recorded checksum        *)
  done,        (* the contents committed with a version's row, in that order *)
  exclusive    (* whether runs have excluded each other so far              *)

ledgerVars == <<ledger, done, exclusive>>

Init ==
  /\ ledger = [v \in Versions |-> NULL]
  /\ done = [v \in Versions |-> <<>>]
  /\ exclusive = TRUE

Commit(v, c) ==
  /\ ledger[v] = NULL
  /\ done[v] = <<>>
  /\ ledger' = [ledger EXCEPT ![v] = c]
  /\ done' = [done EXCEPT ![v] = <<c>>]
  /\ UNCHANGED exclusive

CommitAgain(v, c) ==
  /\ ~exclusive
  /\ v \in Rerunnable
  /\ done[v] # <<>>
  /\ done' = [done EXCEPT ![v] = Append(@, c)]
  /\ UNCHANGED <<ledger, exclusive>>

LoseExclusion == exclusive' = FALSE /\ UNCHANGED <<ledger, done>>

Next ==
  \/ \E v \in Versions, c \in Checksums : Commit(v, c) \/ CommitAgain(v, c)
  \/ LoseExclusion

Spec == Init /\ [][Next]_ledgerVars
=============================================================================
