----------------------------- MODULE AccessOutbox -----------------------------
(***************************************************************************)
(* Vendor-scoped product access and its transactional outbox: the          *)
(* user_product_access rows that grant VENDOR or VENDOR_ADMIN, the grant   *)
(* and revoke transactions that write an outbox row with them, the workers *)
(* that drain the outbox, and the OpenFGA tuples the workers write.        *)
(*                                                                         *)
(* A transaction holds the lock of its access row from its first statement *)
(* to its commit, and takes its outbox id in between: ids are invisible    *)
(* until the commit, can commit out of order, and leave gaps when a        *)
(* transaction rolls back.  A worker holds the lock of the outbox row it   *)
(* claimed while it calls OpenFGA, and may crash before it commits.        *)
(***************************************************************************)
EXTENDS Naturals, FiniteSets

CONSTANTS
  Rows,        (* access rows: (user_id, product_id, role), vendor roles    *)
  Subjects,    (* (user, relation) pairs of OpenFGA tuples                  *)
  Subject,     (* the subject of a row: its user and role, not its product  *)
  Vendors,     (* vendor ids                                                *)
  Writers,     (* concurrent requests that grant, revoke or link            *)
  Workers,     (* running instances of the drain job                        *)
  MaxRows,     (* rows one drain may attempt (100 in the code)              *)
  MaxEvents,   (* bound: outbox ids that may be taken                       *)
  MaxLinks,    (* bound: Salesforce link rows among them                    *)
  MaxCrashes,  (* bound: worker crashes                                     *)
  Broken,      (* event types whose delivery always throws                  *)
  NULL

ASSUME OutboxAssumption ==
  /\ Subject \in [Rows -> Subjects]
  /\ NULL \notin Rows /\ NULL \notin Vendors
  /\ MaxRows \in Nat \ {0} /\ MaxEvents \in Nat
  /\ MaxLinks \in Nat /\ MaxCrashes \in Nat

Ids        == 1..MaxEvents
EventTypes == {"granted", "revoked", "link"}
(* row is history: the payload names the user, the role and the vendor.    *)
Event      == [type : EventTypes, row : Rows \cup {NULL},
               vendor : Vendors \cup {NULL}, processed : BOOLEAN]
NoEvent    == [type |-> "link", row |-> NULL, vendor |-> NULL, processed |-> TRUE]
RowState   == [status : {"none", "active", "revoked"}, vendor : Vendors \cup {NULL}]
Tuples     == Subjects \X Vendors

VARIABLES
  row,        (* committed user_product_access rows                         *)
  outbox,     (* committed outbox rows by id, see committed                 *)
  committed,  (* ids whose transaction has committed                        *)
  nextId,     (* the sequence behind outbox.id                              *)
  links,      (* how many ids went to Salesforce link rows                  *)
  tx,         (* each writer's open transaction                             *)
  worker,     (* each worker's drain                                        *)
  tuples,     (* the OpenFGA store                                          *)
  lastWrite,  (* history: the event that last wrote or deleted a tuple      *)
  crashes

dbVars     == <<row, outbox, committed, nextId, links, tx>>
workerVars == <<worker, tuples, lastWrite, crashes>>
vars       == <<dbVars, workerVars>>

IdleTx == [pc |-> "idle", row |-> NULL, new |-> [status |-> "none", vendor |-> NULL],
           id |-> 0]
Tx == [pc : {"idle", "open"}, row : Rows \cup {NULL}, new : RowState,
       id : 0..MaxEvents]
(* tried: ids of this drain that failed; left: attempts it may still make. *)
IdleWorker == [pc |-> "idle", id |-> 0, tried |-> {}, left |-> 0]
Worker == [pc : {"idle", "draining", "claimed", "applied", "threw"},
           id : 0..MaxEvents, tried : SUBSET Ids, left : 0..MaxRows]

(* One type invariant for the tables, the processes and the tuple store.   *)
TypeOK ==
  /\ row \in [Rows -> RowState]
  /\ outbox \in [Ids -> Event]
  /\ committed \in SUBSET Ids
  /\ nextId \in 1..(MaxEvents + 1)
  /\ links \in 0..MaxLinks
  /\ tx \in [Writers -> Tx]
  /\ worker \in [Workers -> Worker]
  /\ tuples \in SUBSET Tuples
  /\ lastWrite \in [Tuples -> 0..MaxEvents]
  /\ crashes \in 0..MaxCrashes

Init ==
  /\ row = [r \in Rows |-> [status |-> "none", vendor |-> NULL]]
  /\ outbox = [i \in Ids |-> NoEvent]
  /\ committed = {}
  /\ nextId = 1
  /\ links = 0
  /\ tx = [w \in Writers |-> IdleTx]
  /\ worker = [k \in Workers |-> IdleWorker]
  /\ tuples = {}
  /\ lastWrite = [t \in Tuples |-> 0]
  /\ crashes = 0

-----------------------------------------------------------------------------
(* grantAccess, revokeAccess and insertSalesforceContactLinkOutboxRow.     *)

(* Mutant of Unlocked: no row lock between concurrent transactions.        *)
UnlockedMutant(r) == TRUE

Unlocked(r) == \A w \in Writers : tx[w].row # r

(* The access row is written, then the outbox row takes the next id.       *)
Open(w, r, new, type) ==
  /\ tx[w].pc = "idle"
  /\ nextId <= MaxEvents
  /\ tx' = [tx EXCEPT ![w] = [pc |-> "open", row |-> r, new |-> new, id |-> nextId]]
  /\ outbox' = [outbox EXCEPT ![nextId] =
                  [type |-> type, row |-> r, vendor |-> new.vendor, processed |-> FALSE]]
  /\ nextId' = nextId + 1
  /\ UNCHANGED <<row, committed, workerVars>>

(* Insert, or ON CONFLICT reactivate in place with the new vendor.         *)
BeginGrant(w, r, v) ==
  /\ Unlocked(r)
  /\ Open(w, r, [status |-> "active", vendor |-> v], "granted")
  /\ UNCHANGED links

(* UPDATE ... WHERE status = 'active', with the vendor the row has.        *)
BeginRevoke(w, r) ==
  /\ Unlocked(r)
  /\ row[r].status = "active"
  /\ Open(w, r, [row[r] EXCEPT !.status = "revoked"], "revoked")
  /\ UNCHANGED links

(* The outbox row of a Salesforce provisioning transaction.                *)
BeginLink(w) ==
  /\ links < MaxLinks
  /\ Open(w, NULL, [status |-> "none", vendor |-> NULL], "link")
  /\ links' = links + 1

Commit(w) ==
  /\ tx[w].pc = "open"
  /\ row' = IF tx[w].row \in Rows THEN [row EXCEPT ![tx[w].row] = tx[w].new] ELSE row
  /\ committed' = committed \cup {tx[w].id}
  /\ tx' = [tx EXCEPT ![w] = IdleTx]
  /\ UNCHANGED <<outbox, nextId, links, workerVars>>

(* Mutant of Rollback: the outbox row is not part of the transaction.      *)
RollbackMutant(w) ==
  /\ tx[w].pc = "open"
  /\ committed' = committed \cup {tx[w].id}
  /\ tx' = [tx EXCEPT ![w] = IdleTx]
  /\ UNCHANGED <<row, outbox, nextId, links, workerVars>>

(* Both writes are undone; the id is lost.                                 *)
Rollback(w) ==
  /\ tx[w].pc = "open"
  /\ tx' = [tx EXCEPT ![w] = IdleTx]
  /\ UNCHANGED <<row, outbox, committed, nextId, links, workerVars>>

-----------------------------------------------------------------------------
(* drainOutbox.                                                            *)

StartDrain(k) ==
  /\ worker[k].pc = "idle"
  /\ worker' = [worker EXCEPT ![k] = [pc |-> "draining", id |-> 0, tried |-> {},
                                      left |-> MaxRows]]
  /\ UNCHANGED <<dbVars, tuples, lastWrite, crashes>>

Visible == committed

(* Mutant of Claimable: no SKIP LOCKED.                                    *)
ClaimableMutant(k) ==
  {i \in Visible : ~outbox[i].processed /\ i \notin worker[k].tried}

(* Pending rows, less those this drain has tried and those locked by the   *)
(* open claim of another worker.                                           *)
Claimable(k) ==
  {i \in Visible : /\ ~outbox[i].processed
                   /\ i \notin worker[k].tried
                   /\ \A o \in Workers : worker[o].id # i}

(* Mutant of HasBudget: one attempt too many.                              *)
HasBudgetMutant(k) == worker[k].left >= 0

HasBudget(k) == worker[k].left > 0

Claim(k) ==
  /\ worker[k].pc = "draining"
  /\ HasBudget(k)
  /\ \E i \in Claimable(k) :
       /\ \A j \in Claimable(k) : i <= j
       /\ worker' = [worker EXCEPT ![k].pc = "claimed", ![k].id = i]
  /\ UNCHANGED <<dbVars, tuples, lastWrite, crashes>>

(* The queue is empty for this drain, or its budget is spent.              *)
EndDrain(k) ==
  /\ worker[k].pc = "draining"
  /\ worker[k].left = 0 \/ Claimable(k) = {}
  /\ worker' = [worker EXCEPT ![k] = IdleWorker]
  /\ UNCHANGED <<dbVars, tuples, lastWrite, crashes>>

TupleOf(e) == <<Subject[e.row], e.vendor>>

(* Mutant of Written: a revocation leaves the tuple where it is.           *)
WrittenMutant(e) == IF e.type = "granted" THEN tuples \cup {TupleOf(e)} ELSE tuples

Written(e) ==
  IF e.type = "granted" THEN tuples \cup {TupleOf(e)} ELSE tuples \ {TupleOf(e)}

(* tupleKeyForVendorAccess and the write: duplicates and missing deletes   *)
(* are ignored.  A link row goes to Salesforce, not to OpenFGA.            *)
Deliver(i) ==
  LET e == outbox[i]
  IN  IF e.type = "link" THEN UNCHANGED <<tuples, lastWrite>>
      ELSE /\ tuples' = Written(e)
           /\ lastWrite' = [lastWrite EXCEPT ![TupleOf(e)] = i]

ApplyOk(k) ==
  /\ worker[k].pc = "claimed"
  /\ outbox[worker[k].id].type \notin Broken
  /\ Deliver(worker[k].id)
  /\ worker' = [worker EXCEPT ![k].pc = "applied"]
  /\ UNCHANGED <<dbVars, crashes>>

(* The call throws; a lost answer may hide a write that did happen.        *)
ApplyThrows(k) ==
  /\ worker[k].pc = "claimed"
  /\ Deliver(worker[k].id) \/ UNCHANGED <<tuples, lastWrite>>
  /\ worker' = [worker EXCEPT ![k].pc = "threw"]
  /\ UNCHANGED <<dbVars, crashes>>

Marks(k) == worker[k].pc = "applied"

(* SET processed_at and commit.                                            *)
MarkProcessed(k) ==
  /\ Marks(k)
  /\ outbox' = [outbox EXCEPT ![worker[k].id].processed = TRUE]
  /\ worker' = [worker EXCEPT ![k].pc = "draining", ![k].id = 0, ![k].left = @ - 1]
  /\ UNCHANGED <<row, committed, nextId, links, tx, tuples, lastWrite, crashes>>

(* Mutant of MarkFailed: the same drain claims the row again.              *)
MarkFailedMutant(k) ==
  /\ worker[k].pc = "threw"
  /\ worker' = [worker EXCEPT ![k].pc = "draining", ![k].id = 0, ![k].left = @ - 1]
  /\ UNCHANGED <<dbVars, tuples, lastWrite, crashes>>

(* SET attempts, last_error and commit; this drain skips the row from here.*)
MarkFailed(k) ==
  /\ worker[k].pc = "threw"
  /\ worker' = [worker EXCEPT ![k].pc = "draining", ![k].id = 0, ![k].left = @ - 1,
                              ![k].tried = @ \cup {worker[k].id}]
  /\ UNCHANGED <<dbVars, tuples, lastWrite, crashes>>

(* The process stops or the database fails: the claim is rolled back, the  *)
(* row is pending again, what OpenFGA was told stays.                      *)
Crash(k) ==
  /\ worker[k].pc # "idle"
  /\ crashes < MaxCrashes
  /\ crashes' = crashes + 1
  /\ worker' = [worker EXCEPT ![k] = IdleWorker]
  /\ UNCHANGED <<dbVars, tuples, lastWrite>>

-----------------------------------------------------------------------------
WriterStep(w) ==
  \/ \E r \in Rows, v \in Vendors : BeginGrant(w, r, v)
  \/ \E r \in Rows : BeginRevoke(w, r)
  \/ BeginLink(w)
  \/ Commit(w)
  \/ Rollback(w)

WorkerStep(k) ==
  \/ StartDrain(k)
  \/ Claim(k)
  \/ EndDrain(k)
  \/ ApplyOk(k)
  \/ ApplyThrows(k)
  \/ MarkProcessed(k)
  \/ MarkFailed(k)
  \/ Crash(k)

Next == (\E w \in Writers : WriterStep(w)) \/ (\E k \in Workers : WorkerStep(k))

Spec == Init /\ [][Next]_vars

(* The cron job runs every minute and its loop goes on; a transaction      *)
(* ends; an event type that is not broken is delivered sooner or later     *)
(* when it is attempted again and again.                                   *)
Fairness ==
  /\ \A w \in Writers : WF_vars(Commit(w) \/ Rollback(w))
  /\ \A k \in Workers :
       /\ WF_vars(StartDrain(k)) /\ WF_vars(Claim(k)) /\ WF_vars(EndDrain(k))
       /\ WF_vars(ApplyThrows(k)) /\ SF_vars(ApplyOk(k))
       /\ WF_vars(MarkProcessed(k)) /\ WF_vars(MarkFailed(k))

FairSpec == Spec /\ Fairness

-----------------------------------------------------------------------------
EventsOf(r) == {i \in committed : outbox[i].row = r}
IsLast(i, S) == i \in S /\ \A j \in S : j <= i

(* Of the committed outbox rows of an access row, the one with the highest *)
(* id says what the access row says: commits may be out of id order, but   *)
(* not those of one access row.                                            *)
LastEventDecides ==
  \A r \in Rows :
    /\ EventsOf(r) = {} => row[r].status = "none"
    /\ \A i \in EventsOf(r) : IsLast(i, EventsOf(r)) =>
         /\ row[r].vendor = outbox[i].vendor
         /\ row[r].status = IF outbox[i].type = "granted" THEN "active" ELSE "revoked"

(* Two workers never hold the same outbox row, and a held row is pending.  *)
ClaimExclusive ==
  \A k, o \in Workers :
    worker[k].id # 0 =>
      /\ ~outbox[worker[k].id].processed
      /\ worker[o].id = worker[k].id => o = k

(* A tuple exists only on account of a committed grant of that subject on  *)
(* that vendor: no rolled back transaction ever reaches OpenFGA.           *)
TuplesHaveGrants ==
  \A t \in tuples : \E i \in committed :
    outbox[i].type = "granted" /\ TupleOf(outbox[i]) = t

(* The events that touch a tuple.                                          *)
EventsOn(t) == {i \in committed : outbox[i].type # "link" /\ TupleOf(outbox[i]) = t}

(* When the outbox has nothing pending for a tuple and the last event on   *)
(* it is also the last one delivered, the tuple agrees with the access row *)
(* of that event, if the row has not moved to another vendor since.        *)
SyncedWhenInOrder ==
  \A t \in Tuples : \A i \in EventsOn(t) :
    LET r == outbox[i].row
    IN  /\ IsLast(i, EventsOn(t)) /\ IsLast(i, EventsOf(r)) /\ lastWrite[t] = i
        => (t \in tuples <=> row[r] = [status |-> "active", vendor |-> t[2]])

(* At least once: a processed event was delivered; with nothing pending    *)
(* for a tuple, some event on it was the last write.                       *)
ProcessedWasDelivered ==
  \A t \in Tuples :
    EventsOn(t) # {} /\ (\A i \in EventsOn(t) : outbox[i].processed) =>
      lastWrite[t] \in EventsOn(t)

(* Three ways a tuple comes to disagree with the access rows: an older     *)
(* event was delivered after the newest one (again, or late); the row of   *)
(* the newest one was granted to another vendor since; two rows share it.  *)
Overtaken(t) == \E i, j \in EventsOn(t) : lastWrite[t] = i /\ i < j
Replaced(t) ==
  \E i \in EventsOn(t) : \E j \in EventsOf(outbox[i].row) :
    /\ IsLast(i, EventsOn(t)) /\ outbox[i].type = "granted"
    /\ i < j /\ outbox[j].vendor # t[2]
Shared(t) == \E i, j \in EventsOn(t) : outbox[i].row # outbox[j].row

(* Once all its events are processed, a tuple exists exactly if an active  *)
(* access row asks for it, whatever failed, crashed or came out of order,  *)
(* but for those three causes.                                             *)
TuplesErrForACause ==
  \A t \in Tuples :
    (\A i \in EventsOn(t) : outbox[i].processed) =>
      \/ t \in tuples <=> \E r \in Rows : /\ Subject[r] = t[1]
                                         /\ row[r] = [status |-> "active", vendor |-> t[2]]
      \/ Overtaken(t) \/ Replaced(t) \/ Shared(t)

(* Liveness: a committed event of a type that is not broken is processed,  *)
(* as long as fewer rows than one drain may attempt are broken.            *)
EventuallyProcessed ==
  \A i \in Ids :
    i \in committed /\ outbox[i].type \notin Broken ~> outbox[i].processed

(* How far an event has come.                                              *)
Stage(i) ==
  IF i \notin committed THEN "none"
  ELSE IF outbox[i].processed THEN "processed"
  ELSE IF \E k \in Workers : worker[k].id = i /\ worker[k].pc = "applied"
  THEN "delivered" ELSE "pending"

(* The outbox as OutboxPromise sees it: what is not committed is not there.*)
Events ==
  [i \in Ids |-> LET e == IF i \in committed THEN outbox[i] ELSE NoEvent
                 IN  [type |-> e.type, row |-> e.row, vendor |-> e.vendor,
                      stage |-> Stage(i)]]

Promise == INSTANCE OutboxPromise WITH event <- Events

(* The transactions, locks and drains keep the promise of the outbox: row  *)
(* and event in one step, in id order for each row; deliveries of pending  *)
(* events only; nothing processed that no call has answered.               *)
OutboxKept == Promise!Spec

(* "The outbox events mirror exactly the user_product_access rows": with   *)
(* no transaction open and nothing pending, the tuples are those of the    *)
(* active rows.                                                            *)
TuplesMirrorRows ==
  /\ \A w \in Writers : tx[w].pc = "idle"
  /\ \A i \in committed : outbox[i].processed
  => tuples = {<<Subject[r], row[r].vendor>> : r \in {q \in Rows : row[q].status = "active"}}
=============================================================================
