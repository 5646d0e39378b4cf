--------------------------- MODULE IdentityMergeMC ---------------------------
(* Instances of IdentityMerge for TLC: users, mergers and handles of a type *)
(* are interchangeable in every action and property.                       *)
EXTENDS IdentityMerge, FiniteSets, TLC

CONSTANTS MaxCreds, MaxMerges

Symmetry ==
  UNION {Permutations(Users), Permutations(Emails), Permutations(Mergers)}

(* Bound: credentials that are live at once.                                *)
FewCredentials == Cardinality(creds) <= MaxCreds
(* Bounds where the identity rows are the subject: committed merges, no     *)
(* revocation call but the first (an interruption ends the call there), and *)
(* users created active, which are also those a handle may reach late.      *)
FewMerges == /\ Len(mergeLog) < MaxMerges
             /\ \A m \in Mergers : job[m].next = 1
             /\ \A u \in Users : status[u] # "invited"
=============================================================================
