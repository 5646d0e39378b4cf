------------------------------- MODULE DedupRun -------------------------------
(***************************************************************************)
(* The dedup batch job (src/services/dedup.ts) over the merge procedure:   *)
(* each run queues the candidate pairs its finders return in the           *)
(* dedup_candidate table, merges the pairs of a deterministic tier at once *)
(* and leaves the others for review.  A run is a merger of IdentityMerge:  *)
(* its mergeUsers call is job[m], so everything of that module that can    *)
(* happen during a call happens during a run.                              *)
(***************************************************************************)
EXTENDS IdentityMerge

CONSTANTS
  AutoPairs,   (* pairs whose evidence is tier A, B or C; any other: D, E   *)
  Linked,      (* users with a salesforce_contact_id                        *)
  Seniority    (* a user's position in the order of (createdAt, id)         *)

Pairs == UNION {{{a, b} : b \in Users \ {a}} : a \in Users}

ASSUME DedupAssumption ==
  /\ AutoPairs \subseteq Pairs
  /\ Linked \subseteq Users
  /\ Seniority \in [Users -> Nat]
  /\ \A a, b \in Users : Seniority[a] = Seniority[b] => a = b

VARIABLES
  candidate,   (* status of each pair's dedup_candidate row, "none": no row *)
  run          (* each run's place in the loop over its candidates          *)

dedupVars == <<candidate, run>>
allVars   == <<vars, dedupVars>>

RunPC   == {"idle", "scan", "queued", "merging", "merged"}
IdleRun == [pc |-> "idle", todo |-> {}, pair |-> {}]
Run     == [pc : RunPC, todo : SUBSET Pairs, pair : Pairs \cup {{}}]

(* Types of the two variables this module adds.                            *)
DedupTypeOK ==
  /\ candidate \in [Pairs -> {"none", "pending", "merged"}]
  /\ run \in [Mergers -> Run]

DedupInit ==
  /\ Init
  /\ candidate = [p \in Pairs |-> "none"]
  /\ run = [m \in Mergers |-> IdleRun]

(* Mutant of IsAutoMergeTier: the manual tiers are merged as well.         *)
IsAutoMergeTierMutant(p) == TRUE

IsAutoMergeTier(p) == p \in AutoPairs

(* pickSurvivor: the linked user, else the older one.                      *)
Preferred(a, b) ==
  IF (a \in Linked) # (b \in Linked) THEN a \in Linked
  ELSE Seniority[a] < Seniority[b]

-----------------------------------------------------------------------------
(* findCandidates: pairs of users that are not merged at that moment.      *)
StartRun(m) ==
  /\ run[m].pc = "idle"
  /\ \E found \in SUBSET {p \in Pairs : \A u \in p : Exists(u) /\ status[u] # "merged"} :
       run' = [run EXCEPT ![m] = [pc |-> "scan", todo |-> found, pair |-> {}]]
  /\ UNCHANGED <<vars, candidate>>

Skipped(m, p)   == [run[m] EXCEPT !.todo = @ \ {p}]
InFlight(m, p)  == [run[m] EXCEPT !.todo = @ \ {p}, !.pair = p, !.pc = "queued"]

(* insertCandidate: ON CONFLICT DO NOTHING returns null for a pair that    *)
(* has a row, whatever its status; a new row of a manual tier stays        *)
(* pending.                                                                *)
QueueCandidate(m, p) ==
  /\ run[m].pc = "scan"
  /\ p \in run[m].todo
  /\ candidate' = IF candidate[p] = "none" THEN [candidate EXCEPT ![p] = "pending"]
                  ELSE candidate
  /\ run' = [run EXCEPT ![m] =
               IF candidate[p] = "none" /\ IsAutoMergeTier(p)
               THEN InFlight(m, p) ELSE Skipped(m, p)]
  /\ UNCHANGED vars

(* Mutant of CallMerge: survivor and loser swapped.                        *)
CallMergeMutant(m) ==
  /\ run[m].pc = "queued"
  /\ \E s, l \in run[m].pair : Preferred(l, s) /\ StartMerge(m, s, l)
  /\ run' = [run EXCEPT ![m].pc = "merging"]
  /\ UNCHANGED candidate

(* fetchUserForMerge, pickSurvivor, and the call of mergeUsers.            *)
CallMerge(m) ==
  /\ run[m].pc = "queued"
  /\ \E s, l \in run[m].pair : Preferred(s, l) /\ StartMerge(m, s, l)
  /\ run' = [run EXCEPT ![m].pc = "merging"]
  /\ UNCHANGED candidate

(* mergeUsers returned {merged: false}: the run does not look.             *)
MergeIsNoOp(m) ==
  /\ run[m].pc = "queued"
  /\ \E s, l \in run[m].pair : s # l /\ Preferred(s, l) /\ ~NotYetMerged(l)
  /\ run' = [run EXCEPT ![m].pc = "merged"]
  /\ UNCHANGED <<vars, candidate>>

(* mergeUsers goes on, and returns after its last revocation call.         *)
MergeProceeds(m) ==
  /\ run[m].pc = "merging"
  /\ TxnStep(m) \/ CommitMerge(m) \/ Revoke(m)
  /\ run' = [run EXCEPT ![m].pc = IF job'[m].pc = "idle" THEN "merged" ELSE @]
  /\ UNCHANGED candidate

(* Mutant of MarkDecided: the row may be decided before the merge.         *)
MarkDecidedMutant(m) ==
  /\ run[m].pc \in {"queued", "merged"}
  /\ candidate' = [candidate EXCEPT ![run[m].pair] = "merged"]
  /\ run' = [run EXCEPT ![m].pc = "scan", ![m].pair = {}]
  /\ UNCHANGED vars

(* markDecided, then the next candidate.                                   *)
MarkDecided(m) ==
  /\ run[m].pc = "merged"
  /\ candidate' = [candidate EXCEPT ![run[m].pair] = "merged"]
  /\ run' = [run EXCEPT ![m].pc = "scan", ![m].pair = {}]
  /\ UNCHANGED vars

EndRun(m) ==
  /\ run[m].pc = "scan"
  /\ run[m].todo = {}
  /\ run' = [run EXCEPT ![m] = IdleRun]
  /\ UNCHANGED <<vars, candidate>>

(* A call throws or the process stops: no catch in the loop, the rest of   *)
(* the candidates is lost, and rows stay as they were committed.           *)
RunFails(m) ==
  /\ run[m].pc # "idle"
  /\ IF run[m].pc = "merging" THEN AbortMerge(m) \/ InterruptRevocation(m)
     ELSE UNCHANGED vars
  /\ run' = [run EXCEPT ![m] = IdleRun]
  /\ UNCHANGED candidate

-----------------------------------------------------------------------------
RunStep(m) ==
  \/ StartRun(m)
  \/ \E p \in Pairs : QueueCandidate(m, p)
  \/ CallMerge(m)
  \/ MergeIsNoOp(m)
  \/ MergeProceeds(m)
  \/ MarkDecided(m)
  \/ EndRun(m)
  \/ RunFails(m)

OtherStep ==
  /\ \/ \E u \in Users : RowStep(u)
     \/ \E c \in Clients : LoginStep(c)
     \/ \E k \in creds : IssueTokens(k) \/ RefreshTokens(k) \/ EndCredential(k)
  /\ UNCHANGED dedupVars

DedupNext == (\E m \in Mergers : RunStep(m)) \/ OtherStep

DedupSpec == DedupInit /\ [][DedupNext]_allVars

-----------------------------------------------------------------------------
(* A merged user points at a user pickSurvivor prefers to it, whatever     *)
(* runs overlap and fail.  The preference is a strict order, so following  *)
(* merged_into_user_id never comes back.                                   *)
PointersClimb ==
  \A u \in Users : mergedInto[u] # NULL => Preferred(mergedInto[u], u)

(* No set of users whose pointers all stay inside it: every chain of       *)
(* merged_into_user_id ends at a user that is not merged.                  *)
EveryChainEnds ==
  \A S \in SUBSET Users : S # {} => \E u \in S : mergedInto[u] \notin S

(* "Never auto-merge" the manual tiers: every merge is of a pair of a      *)
(* deterministic tier that was queued first.                               *)
OnlyAutoPairsMerge ==
  \A i \in 1..Len(mergeLog) :
    LET p == {mergeLog[i].survivor, mergeLog[i].merged}
    IN  p \in AutoPairs /\ candidate[p] # "none"

(* A candidate row decided "merged" has a member that is merged: no pair   *)
(* is reported decided while both of its users are live.                   *)
DecidedPairsMerged ==
  \A p \in Pairs : candidate[p] = "merged" => \E u \in p : status[u] = "merged"

(* "A stale reference must resolve to the survivor": a verified handle, so *)
(* a sign-in, leads to a user that is not merged, unless it came to its    *)
(* user after a merge had read that user's handles.  Two candidates that   *)
(* share a user break it: its pointer is final, its handles are not.       *)
SignInsReachLiveUsers ==
  \A h \in verified \ late : status[owner[h]] # "merged"
=============================================================================
