------------------------------- MODULE MigrateMC -------------------------------
(* Three files.  A release before the third, one with it, one with an      *)
(* edited second file, one with an edited first file (the ledger table),   *)
(* and one that lost the first.  The second file only inserts with ON      *)
(* CONFLICT, say: it can be executed twice.                                *)
EXTENDS Migrate

CONSTANTS sum, edited

VersionsMC == 1..3
ReleasesMC == {"before", "current", "tampered", "reledgered", "bare"}
FilesMC ==
  [r \in ReleasesMC |-> [v \in VersionsMC |->
     IF (r = "before" /\ v = 3) \/ (r = "bare" /\ v # 2) THEN NULL
     ELSE IF (r = "tampered" /\ v = 2) \/ (r = "reledgered" /\ v = 1) THEN edited ELSE sum]]
=============================================================================
