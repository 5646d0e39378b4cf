---------------------------- MODULE OutboxPromise ----------------------------
(***************************************************************************)
(* What the transactional outbox promises, whatever transactions and       *)
(* drains overlap, fail and crash: an access row and the event that tells  *)
(* of it change in one step, with an id above those of the row's earlier   *)
(* events; only an event that exists and is pending reaches the tuples;    *)
(* and an event is processed only after a call for it that did not fail,   *)
(* since when nobody delivered it again.  AccessOutbox implements this.    *)
(***************************************************************************)
EXTENDS Naturals

CONSTANTS
  Rows,      (* access rows of vendor roles                                 *)
  Subject,   (* the subject of a row's tuple                                *)
  Vendors,   (* vendor ids                                                  *)
  Ids,       (* ids of events                                               *)
  NULL

VARIABLES
  row,       (* access rows: status and vendor                              *)
  event,     (* events by id, and how far each has come                     *)
  tuples     (* the OpenFGA store                                           *)

promiseVars == <<row, event, tuples>>

Init ==
  /\ row = [r \in Rows |-> [status |-> "none", vendor |-> NULL]]
  /\ event = [i \in Ids |-> [type |-> "link", row |-> NULL, vendor |-> NULL,
                             stage |-> "none"]]
  /\ tuples = {}

Tell(i, type, r, v) ==
  /\ event[i].stage = "none"
  /\ event' = [event EXCEPT ![i] =
                 [type |-> type, row |-> r, vendor |-> v, stage |-> "pending"]]
  /\ UNCHANGED tuples

IsNewest(i, r) == \A j \in Ids : event[j].stage # "none" /\ event[j].row = r => j < i

Grant(i, r, v) ==
  /\ IsNewest(i, r)
  /\ row' = [row EXCEPT ![r] = [status |-> "active", vendor |-> v]]
  /\ Tell(i, "granted", r, v)

Revoke(i, r) ==
  /\ IsNewest(i, r)
  /\ row[r].status = "active"
  /\ row' = [row EXCEPT ![r].status = "revoked"]
  /\ Tell(i, "revoked", r, row[r].vendor)

Link(i) == Tell(i, "link", NULL, NULL) /\ UNCHANGED row

Moves(i, from, to) ==
  /\ event[i].stage = from
  /\ event' = [event EXCEPT ![i].stage = to]
  /\ UNCHANGED row

Write(i) ==
  LET t == <<Subject[event[i].row], event[i].vendor>>
  IN  IF event[i].type = "link" THEN UNCHANGED tuples
      ELSE tuples' = IF event[i].type = "granted" THEN tuples \cup {t} ELSE tuples \ {t}

(* The call returns; or throws, and may have written all the same.         *)
Deliver(i)     == Moves(i, "pending", "delivered") /\ Write(i)
DeliverLost(i) == Moves(i, "pending", "pending") /\ Write(i)

(* The process stops before it marks the event.                            *)
Forget(i)      == Moves(i, "delivered", "pending") /\ UNCHANGED tuples
Finish(i)      == Moves(i, "delivered", "processed") /\ UNCHANGED tuples

Next ==
  \E i \in Ids :
    \/ \E r \in Rows, v \in Vendors : Grant(i, r, v)
    \/ \E r \in Rows : Revoke(i, r)
    \/ Link(i)
    \/ Deliver(i)
    \/ DeliverLost(i)
    \/ Forget(i)
    \/ Finish(i)

Spec == Init /\ [][Next]_promiseVars
=============================================================================
