-------------------------- MODULE AccessOutboxProofs --------------------------
(* The safety properties of AccessOutbox, for every set of rows, vendors,   *)
(* writers and workers, and every bound on events, attempts and crashes.   *)
EXTENDS AccessOutbox, WellFoundedInduction, TLAPS

(* A worker that has a row claims it until its transaction ends.          *)
Holding == {"claimed", "applied", "threw"}

(* An open transaction has an id of its own, taken and not yet visible.    *)
TxHold ==
  /\ \A w \in Writers :
       \/ tx[w] = IdleTx
       \/ /\ tx[w].pc = "open"
          /\ tx[w].id \in 1..(nextId - 1) /\ tx[w].id \notin committed
          /\ outbox[tx[w].id].row = tx[w].row
  /\ \A w, v \in Writers :
       tx[w].pc = "open" /\ tx[v].pc = "open" /\ tx[w].id = tx[v].id => w = v

(* A worker holds a visible row, and has an attempt left for it.           *)
WorkersHold ==
  \A k \in Workers :
    IF worker[k].pc \in Holding THEN worker[k].id \in committed /\ worker[k].left > 0
    ELSE worker[k].id = 0

(* Events about access rows, and the rows, name a vendor: vendor roles     *)
(* cannot be without one.                                                  *)
Named(i) == outbox[i].type # "link" => outbox[i].row \in Rows /\ outbox[i].vendor \in Vendors

VendorsNamed ==
  /\ \A i \in 1..(nextId - 1) : Named(i)
  /\ \A r \in Rows : row[r].status # "none" => row[r].vendor \in Vendors
  /\ \A w \in Writers : tx[w].row # NULL =>
       tx[w].new.status # "none" /\ tx[w].new.vendor \in Vendors

(* The type invariant and what it needs to be inductive.                  *)
TypeInv == TypeOK /\ committed \subseteq 1..(nextId - 1) /\ TxHold /\ WorkersHold /\ VendorsNamed

(* Every transaction begins by writing a row and taking the next id.       *)
LEMMA Begins ==
  ASSUME TypeInv, NEW w \in Writers,
         \/ \E r \in Rows, v \in Vendors : BeginGrant(w, r, v)
         \/ \E r \in Rows : BeginRevoke(w, r)
         \/ BeginLink(w)
  PROVE  \E r \in Rows \cup {NULL}, new \in RowState, type \in EventTypes :
           /\ Open(w, r, new, type)
           /\ links' \in 0..MaxLinks
           /\ type # "link" => /\ r \in Rows /\ Unlocked(r) /\ new.vendor \in Vendors
                               /\ new.status = IF type = "granted" THEN "active" ELSE "revoked"
           /\ type = "link" => r = NULL
  <1> USE DEF TypeInv, TypeOK, RowState, EventTypes
  <1>1. ASSUME NEW r \in Rows, NEW v \in Vendors, BeginGrant(w, r, v)
        PROVE  /\ Open(w, r, [status |-> "active", vendor |-> v], "granted")
               /\ Unlocked(r) /\ links' = links
    BY <1>1 DEF BeginGrant
  <1>2. ASSUME NEW r \in Rows, BeginRevoke(w, r)
        PROVE  /\ Open(w, r, [row[r] EXCEPT !.status = "revoked"], "revoked")
               /\ Unlocked(r) /\ links' = links /\ row[r].vendor \in Vendors
    BY <1>2 DEF BeginRevoke, VendorsNamed
  <1>3. ASSUME BeginLink(w)
        PROVE  /\ Open(w, NULL, [status |-> "none", vendor |-> NULL], "link")
               /\ links' = links + 1 /\ links < MaxLinks
    BY <1>3 DEF BeginLink
  <1>4. MaxLinks \in Nat
    BY OutboxAssumption
  <1>5. CASE \E r \in Rows, v \in Vendors : BeginGrant(w, r, v)
    <2>1. PICK r \in Rows, v \in Vendors : BeginGrant(w, r, v)
      BY <1>5
    <2> DEFINE new == [status |-> "active", vendor |-> v]
    <2>2. new \in RowState /\ new.vendor \in Vendors /\ new.status = "active"
      OBVIOUS
    <2> HIDE DEF new
    <2> QED
      BY <1>1, <2>1, <2>2
  <1>6. CASE \E r \in Rows : BeginRevoke(w, r)
    <2>1. PICK r \in Rows : BeginRevoke(w, r)
      BY <1>6
    <2> DEFINE new == [row[r] EXCEPT !.status = "revoked"]
    <2>2. new \in RowState /\ new.vendor = row[r].vendor /\ new.status = "revoked"
      OBVIOUS
    <2> HIDE DEF new
    <2>3. Open(w, r, new, "revoked") /\ Unlocked(r) /\ links' = links /\ row[r].vendor \in Vendors
      BY <1>2, <2>1 DEF new
    <2> QED
      BY <2>2, <2>3
  <1>7. CASE BeginLink(w)
    BY <1>3, <1>4, <1>7
  <1> QED
    BY <1>5, <1>6, <1>7

(* A row and its outbox row, written together, have their types.           *)
LEMMA OpenTypes ==
  ASSUME TypeInv, NEW w \in Writers, NEW r \in Rows \cup {NULL}, NEW new \in RowState,
         NEW type \in EventTypes, Open(w, r, new, type), links' \in 0..MaxLinks,
         type # "link" => r \in Rows /\ new.vendor \in Vendors /\ new.status # "none",
         type = "link" => r = NULL
  PROVE  TypeInv'
  <1> DEFINE e == [type |-> type, row |-> r, vendor |-> new.vendor, processed |-> FALSE]
             t == [pc |-> "open", row |-> r, new |-> new, id |-> nextId]
  <1>1. nextId \in Ids /\ nextId \notin committed
    BY OutboxAssumption DEF TypeInv, TypeOK, Open, Ids
  <1>2. e \in Event /\ t \in Tx
    BY <1>1 DEF Event, Tx, RowState, Ids
  <1>3. /\ tx' = [tx EXCEPT ![w] = t] /\ outbox' = [outbox EXCEPT ![nextId] = e]
        /\ nextId' = nextId + 1 /\ UNCHANGED <<row, committed, worker, tuples, lastWrite, crashes>>
    BY DEF Open, workerVars
  <1>4. TypeOK'
    BY <1>1, <1>2, <1>3, OutboxAssumption DEF TypeInv, TypeOK, Ids
  <1>5. \A i \in 1..(nextId - 1) : outbox'[i] = outbox[i]
    BY <1>1, <1>3 DEF TypeInv, TypeOK, Ids
  <1>6. \A v \in Writers : v # w => tx'[v] = tx[v]
    BY <1>3 DEF TypeInv, TypeOK
  <1>7. tx'[w] = t /\ outbox'[nextId] = e
    BY <1>1, <1>3 DEF TypeInv, TypeOK
  <1>8. TxHold'
    <2>1. \A v \in Writers : tx[v].pc = "open" => tx[v].id # nextId
      BY <1>1 DEF TypeInv, TxHold, IdleTx, Ids
    <2> QED
      BY <1>1, <1>3, <1>5, <1>6, <1>7, <2>1 DEF TypeInv, TxHold, Ids, IdleTx
  <1>9. WorkersHold'
    BY <1>3 DEF TypeInv, WorkersHold
  <1>10. VendorsNamed'
    <2>1. \A i \in 1..(nextId' - 1) : Named(i)'
      <3> TAKE i \in 1..(nextId' - 1)
      <3>1. i = nextId \/ i \in 1..(nextId - 1)
        BY <1>1, <1>3 DEF Ids
      <3> QED
        BY <1>5, <1>7, <3>1 DEF TypeInv, VendorsNamed, Named
    <2>2. \A v \in Writers : tx'[v].row # NULL =>
            tx'[v].new.status # "none" /\ tx'[v].new.vendor \in Vendors
      BY <1>6, <1>7 DEF TypeInv, VendorsNamed
    <2> QED
      BY <1>3, <2>1, <2>2 DEF TypeInv, VendorsNamed
  <1> QED
    BY <1>1, <1>3, <1>4, <1>8, <1>9, <1>10 DEF TypeInv, Ids

(* A commit makes the id visible, a rollback loses it.                     *)
LEMMA EndTypes ==
  ASSUME TypeInv, NEW w \in Writers, Commit(w) \/ Rollback(w)
  PROVE  TypeInv'
  <1>1. tx[w].pc = "open" /\ tx' = [tx EXCEPT ![w] = IdleTx]
        /\ UNCHANGED <<outbox, nextId, links, worker, tuples, lastWrite, crashes>>
    BY DEF Commit, Rollback, workerVars
  <1>2. IdleTx \in Tx /\ IdleTx.row = NULL /\ IdleTx.pc = "idle"
    BY OutboxAssumption DEF IdleTx, Tx, RowState
  <1>3. tx[w] # IdleTx
    BY <1>1, <1>2
  <1>4. tx[w].id \in 1..(nextId - 1) /\ tx[w].id \notin committed /\ tx[w] \in Tx
    BY <1>3 DEF TypeInv, TypeOK, TxHold
  <1>5. /\ committed \subseteq committed' /\ committed' \subseteq committed \cup {tx[w].id}
        /\ \A r \in Rows : row'[r] = row[r] \/ (tx[w].row = r /\ row'[r] = tx[w].new)
        /\ row' \in [Rows -> RowState]
    BY <1>4 DEF Commit, Rollback, TypeInv, TypeOK, Tx
  <1>6. TypeOK'
    BY <1>1, <1>2, <1>4, <1>5, OutboxAssumption DEF TypeInv, TypeOK, Ids
  <1>7. VendorsNamed'
    <2>1. \A r \in Rows : row'[r].status # "none" => row'[r].vendor \in Vendors
      BY <1>5, OutboxAssumption DEF TypeInv, VendorsNamed
    <2>2. \A v \in Writers : tx'[v] = tx[v] \/ tx'[v] = IdleTx
      BY <1>1 DEF TypeInv, TypeOK
    <2> QED
      BY <1>1, <1>2, <2>1, <2>2 DEF TypeInv, VendorsNamed, Named
  <1>8. TxHold'
    <2>1. \A v \in Writers : v # w => tx'[v] = tx[v]
      BY <1>1 DEF TypeInv, TypeOK
    <2>2. tx'[w] = IdleTx
      BY <1>1 DEF TypeInv, TypeOK
    <2>3. \A v \in Writers : v # w /\ tx[v].pc = "open" => tx[v].id # tx[w].id
      BY <1>1 DEF TypeInv, TxHold
    <2> QED
      BY <1>1, <1>2, <1>5, <2>1, <2>2, <2>3 DEF TypeInv, TxHold
  <1>9. WorkersHold'
    BY <1>1, <1>5 DEF TypeInv, WorkersHold
  <1> QED
    BY <1>1, <1>4, <1>5, <1>6, <1>7, <1>8, <1>9 DEF TypeInv

(* A delivered event is one about an access row, or changes no tuple.      *)
LEMMA Delivers ==
  ASSUME TypeInv, NEW i \in committed,
         Deliver(i) \/ UNCHANGED <<tuples, lastWrite>>
  PROVE  \/ UNCHANGED <<tuples, lastWrite>>
         \/ /\ outbox[i].type # "link"
            /\ TupleOf(outbox[i]) \in Tuples
            /\ tuples' = Written(outbox[i])
            /\ lastWrite' = [lastWrite EXCEPT ![TupleOf(outbox[i])] = i]
  <1>1. Named(i)
    BY DEF TypeInv, VendorsNamed
  <1>2. outbox[i].type # "link" => TupleOf(outbox[i]) \in Tuples
    BY <1>1, OutboxAssumption DEF Named, TupleOf, Tuples
  <1> QED
    BY <1>2 DEF Deliver

(* The steps of a drain keep the types, and its hold on what it claimed.   *)
LEMMA WorkerTypes ==
  ASSUME TypeInv, NEW k \in Workers, WorkerStep(k)
  PROVE  TypeInv'
  <1>0. MaxRows \in Nat \ {0} /\ MaxEvents \in Nat /\ MaxCrashes \in Nat
    BY OutboxAssumption
  <1>1. worker[k] \in Worker /\ committed \subseteq Ids /\ IdleWorker \in Worker
    BY <1>0 DEF TypeInv, TypeOK, IdleWorker, Worker, Ids
  <1>2. ASSUME UNCHANGED dbVars, worker' \in [Workers -> Worker], WorkersHold',
               tuples' \in SUBSET Tuples, lastWrite' \in [Tuples -> 0..MaxEvents],
               crashes' \in 0..MaxCrashes
        PROVE  TypeInv'
    BY <1>2 DEF dbVars, TypeInv, TypeOK, TxHold, VendorsNamed, Named
  <1>3. CASE StartDrain(k)
    <2>1. worker' \in [Workers -> Worker]
      BY <1>0, <1>1, <1>3 DEF StartDrain, TypeInv, TypeOK, Worker
    <2>2. WorkersHold'
      BY <1>3 DEF StartDrain, TypeInv, TypeOK, WorkersHold, Holding, dbVars
    <2> QED
      BY <1>2, <1>3, <2>1, <2>2 DEF StartDrain, TypeInv, TypeOK
  <1>4. CASE Claim(k)
    <2>1. PICK i \in Claimable(k) : worker' = [worker EXCEPT ![k].pc = "claimed", ![k].id = i]
      BY <1>4 DEF Claim
    <2>2. i \in committed /\ i \in Ids /\ worker[k].left > 0
      BY <1>1, <1>4, <2>1 DEF Claim, Claimable, Visible, HasBudget
    <2>3. worker' \in [Workers -> Worker]
      <3>1. [worker[k] EXCEPT !.pc = "claimed", !.id = i] \in Worker
        <4>1. i \in 0..MaxEvents
          BY <1>0, <2>2 DEF Ids
        <4> QED
          BY <1>1, <4>1 DEF Worker
      <3>2. worker' = [worker EXCEPT ![k] = [@ EXCEPT !.pc = "claimed", !.id = i]]
        BY <2>1
      <3> QED
        BY <3>1, <3>2 DEF TypeInv, TypeOK
    <2>4. WorkersHold'
      BY <1>1, <1>4, <2>1, <2>2 DEF Claim, TypeInv, TypeOK, WorkersHold, Holding, Worker, dbVars
    <2> QED
      BY <1>2, <1>4, <2>3, <2>4 DEF Claim, TypeInv, TypeOK
  <1>5. CASE EndDrain(k)
    <2>1. worker' \in [Workers -> Worker]
      BY <1>1, <1>5 DEF EndDrain, TypeInv, TypeOK
    <2>2. WorkersHold'
      BY <1>5 DEF EndDrain, TypeInv, TypeOK, WorkersHold, Holding, dbVars, IdleWorker
    <2> QED
      BY <1>2, <1>5, <2>1, <2>2 DEF EndDrain, TypeInv, TypeOK
  <1>6. ASSUME NEW pc \in Holding, worker[k].pc \in Holding,
               worker' = [worker EXCEPT ![k].pc = pc], UNCHANGED <<dbVars, crashes>>,
               Deliver(worker[k].id) \/ UNCHANGED <<tuples, lastWrite>>
        PROVE  TypeInv'
    <2>1. worker[k].id \in committed
      BY <1>6 DEF TypeInv, WorkersHold
    <2>2. worker' \in [Workers -> Worker]
      BY <1>1, <1>6 DEF TypeInv, TypeOK, Worker, Holding
    <2>3. WorkersHold'
      BY <1>1, <1>6 DEF TypeInv, TypeOK, WorkersHold, dbVars, Worker
    <2>4. tuples' \in SUBSET Tuples /\ lastWrite' \in [Tuples -> 0..MaxEvents]
      BY <1>0, <1>1, <1>6, <2>1, Delivers DEF TypeInv, TypeOK, Written, Ids
    <2> QED
      BY <1>2, <1>6, <2>2, <2>3, <2>4 DEF TypeInv, TypeOK
  <1>7. CASE ApplyOk(k) \/ ApplyThrows(k)
    BY <1>6, <1>7 DEF ApplyOk, ApplyThrows, Holding
  <1>8. CASE MarkFailed(k)
    <2>1. worker[k].id \in committed /\ worker[k].left > 0
      BY <1>8 DEF MarkFailed, TypeInv, WorkersHold, Holding
    <2>2. worker' \in [Workers -> Worker]
      BY <1>0, <1>1, <1>8, <2>1 DEF MarkFailed, TypeInv, TypeOK, Worker
    <2>3. WorkersHold'
      BY <1>1, <1>8 DEF MarkFailed, TypeInv, TypeOK, WorkersHold, Holding, dbVars, Worker
    <2> QED
      BY <1>2, <1>8, <2>2, <2>3 DEF MarkFailed, TypeInv, TypeOK
  <1>9. CASE MarkProcessed(k)
    <2>1. worker[k].id \in committed /\ worker[k].left > 0
      BY <1>9 DEF MarkProcessed, Marks, TypeInv, WorkersHold, Holding
    <2>2. worker' \in [Workers -> Worker]
      BY <1>0, <1>1, <1>9, <2>1 DEF MarkProcessed, TypeInv, TypeOK, Worker
    <2>3. WorkersHold'
      BY <1>1, <1>9 DEF MarkProcessed, TypeInv, TypeOK, WorkersHold, Holding, Worker
    <2>4. /\ outbox' \in [Ids -> Event]
          /\ \A i \in Ids : /\ outbox'[i].type = outbox[i].type
                            /\ outbox'[i].row = outbox[i].row
                            /\ outbox'[i].vendor = outbox[i].vendor
      BY <1>9 DEF MarkProcessed, TypeInv, TypeOK, Event
    <2>5. 1..(nextId - 1) \subseteq Ids
      BY <1>0 DEF TypeInv, TypeOK, Ids
    <2>6. TypeOK'
      BY <1>9, <2>2, <2>4 DEF MarkProcessed, TypeInv, TypeOK
    <2>7. TxHold' /\ VendorsNamed'
      BY <1>9, <2>4, <2>5 DEF MarkProcessed, TypeInv, TxHold, VendorsNamed, Named
    <2> QED
      BY <1>9, <2>3, <2>6, <2>7 DEF MarkProcessed, TypeInv
  <1>10. CASE Crash(k)
    <2>1. worker' \in [Workers -> Worker] /\ crashes' \in 0..MaxCrashes
      BY <1>0, <1>1, <1>10 DEF Crash, TypeInv, TypeOK
    <2>2. WorkersHold'
      BY <1>10 DEF Crash, TypeInv, TypeOK, WorkersHold, Holding, dbVars, IdleWorker
    <2> QED
      BY <1>2, <1>10, <2>1, <2>2 DEF Crash, TypeInv, TypeOK
  <1> QED
    BY <1>3, <1>4, <1>5, <1>7, <1>8, <1>9, <1>10 DEF WorkerStep

(* Every step keeps the types.                                             *)
LEMMA TypeInvStep == TypeInv /\ [Next]_vars => TypeInv'
  <1> SUFFICES ASSUME TypeInv, [Next]_vars PROVE TypeInv'
    OBVIOUS
  <1>1. ASSUME NEW w \in Writers, WriterStep(w) PROVE TypeInv'
    <2>1. CASE Commit(w) \/ Rollback(w)
      BY <2>1, EndTypes
    <2>2. CASE \/ \E r \in Rows, v \in Vendors : BeginGrant(w, r, v)
               \/ \E r \in Rows : BeginRevoke(w, r)
               \/ BeginLink(w)
      <3>1. PICK r \in Rows \cup {NULL}, new \in RowState, type \in EventTypes :
              /\ Open(w, r, new, type)
              /\ links' \in 0..MaxLinks
              /\ type # "link" =>
                   /\ r \in Rows /\ Unlocked(r) /\ new.vendor \in Vendors
                   /\ new.status = IF type = "granted" THEN "active" ELSE "revoked"
              /\ type = "link" => r = NULL
        BY <2>2, Begins
      <3>2. type # "link" => new.status # "none"
        BY <3>1
      <3> QED
        BY <3>1, <3>2, OpenTypes
    <2> QED
      BY <1>1, <2>1, <2>2 DEF WriterStep
  <1>2. CASE UNCHANGED vars
    BY <1>2 DEF vars, dbVars, workerVars, TypeInv, TypeOK, TxHold, WorkersHold, VendorsNamed, Named
  <1> QED
    BY <1>1, <1>2, WorkerTypes DEF Next

(* The types of the tables, the processes and the tuple store.             *)
THEOREM OutboxTypesHold == Spec => []TypeInv /\ []TypeOK
  <1>1. Init => TypeInv
    <2> SUFFICES ASSUME Init PROVE TypeInv
      OBVIOUS
    <2>1. TypeOK
      BY OutboxAssumption
      DEF Init, TypeOK, RowState, Event, NoEvent, EventTypes, Tx, IdleTx, Worker, IdleWorker, Ids
    <2>2. TxHold /\ WorkersHold /\ VendorsNamed
      BY DEF Init, TxHold, WorkersHold, VendorsNamed, Named, IdleTx, IdleWorker, Holding
    <2> QED
      BY <2>1, <2>2 DEF Init, TypeInv
  <1>2. TypeInv => TypeOK
    BY DEF TypeInv
  <1> QED
    BY <1>1, <1>2, TypeInvStep, PTL DEF Spec

-----------------------------------------------------------------------------
(* The lock of an access row: one open transaction for each, whose id is   *)
(* above those of all the row's events, and whose event tells its write.   *)
LockInv ==
  /\ \A w, v \in Writers : tx[w].row \in Rows /\ tx[w].row = tx[v].row => w = v
  /\ \A w \in Writers : tx[w].row \in Rows =>
       /\ \A i \in EventsOf(tx[w].row) : i < tx[w].id
       /\ outbox[tx[w].id].vendor = tx[w].new.vendor
       /\ tx[w].new.status = IF outbox[tx[w].id].type = "granted" THEN "active" ELSE "revoked"

(* EventsOf in the next state.                                            *)
EventsAfter(r) == {i \in committed' : outbox'[i].row = r}

(* A step that leaves access rows, commits and what events say alone.      *)
LEMMA QuietOrder ==
  ASSUME LastEventDecides, UNCHANGED <<row, committed>>,
         \A i \in committed : /\ outbox'[i].type = outbox[i].type
                             /\ outbox'[i].row = outbox[i].row
                             /\ outbox'[i].vendor = outbox[i].vendor
  PROVE  LastEventDecides' /\ \A r \in Rows : EventsAfter(r) = EventsOf(r)
  <1>1. \A r \in Rows : EventsAfter(r) = EventsOf(r)
    BY DEF EventsOf, EventsAfter
  <1>2. \A r \in Rows : EventsOf(r) \subseteq committed
    BY DEF EventsOf
  <1>3. LastEventDecides'
    <2>1. ASSUME NEW r \in Rows
          PROVE  /\ EventsAfter(r) = {} => row'[r].status = "none"
                 /\ \A i \in EventsAfter(r) : IsLast(i, EventsAfter(r)) =>
                      /\ row'[r].vendor = outbox'[i].vendor
                      /\ row'[r].status = IF outbox'[i].type = "granted" THEN "active" ELSE "revoked"
      BY <1>1, <1>2 DEF LastEventDecides
    <2> QED
      BY <2>1 DEF LastEventDecides, EventsAfter, EventsOf, IsLast
  <1> QED
    BY <1>1, <1>3

(* Taking a row's lock and the next id keeps the order.                    *)
LEMMA OpenOrder ==
  ASSUME TypeInv, LockInv, LastEventDecides, NEW w \in Writers,
         NEW r \in Rows \cup {NULL}, NEW new \in RowState, NEW type \in EventTypes,
         Open(w, r, new, type),
         type # "link" => /\ r \in Rows /\ Unlocked(r)
                          /\ new.status = IF type = "granted" THEN "active" ELSE "revoked",
         type = "link" => r = NULL
  PROVE  LockInv' /\ LastEventDecides'
  <1>1. nextId \in Ids /\ \A i \in committed : i < nextId /\ i # nextId /\ i \in Ids
    BY OutboxAssumption DEF TypeInv, TypeOK, Open, Ids
  <1>2. /\ outbox'[nextId].type = type /\ outbox'[nextId].row = r
        /\ outbox'[nextId].vendor = new.vendor
        /\ \A i \in Ids : i # nextId => outbox'[i] = outbox[i]
        /\ UNCHANGED <<row, committed>>
    BY <1>1 DEF Open, TypeInv, TypeOK
  <1>3. /\ tx'[w].row = r /\ tx'[w].new = new /\ tx'[w].id = nextId
        /\ \A v \in Writers : v # w => tx'[v] = tx[v]
    BY DEF Open, TypeInv, TypeOK
  <1>4. LastEventDecides' /\ \A q \in Rows : EventsAfter(q) = EventsOf(q)
    <2>1. \A i \in committed : outbox'[i] = outbox[i]
      BY <1>1, <1>2
    <2> QED
      BY <1>2, <2>1, QuietOrder
  <1>5. r \in Rows => type # "link" /\ \A v \in Writers : tx[v].row # r
    BY OutboxAssumption DEF Unlocked
  <1>6. \A v \in Writers : tx[v].row \in Rows => tx[v].id \in Ids /\ tx[v].id # nextId
    BY <1>1, OutboxAssumption DEF TypeInv, TypeOK, TxHold, IdleTx, Ids
  <1>7. \A i \in committed : i < nextId
    BY <1>1
  <1>8. \A q \in Rows : EventsOf(q) \subseteq committed
    BY DEF EventsOf
  <1>9. ASSUME NEW v \in Writers, tx'[v].row \in Rows
        PROVE  /\ \A i \in EventsAfter(tx'[v].row) : i < tx'[v].id
               /\ outbox'[tx'[v].id].vendor = tx'[v].new.vendor
               /\ tx'[v].new.status = IF outbox'[tx'[v].id].type = "granted" THEN "active" ELSE "revoked"
    <2>1. CASE v = w
      BY <1>2, <1>3, <1>4, <1>5, <1>7, <1>8, <1>9, <2>1
    <2>2. CASE v # w
      BY <1>2, <1>3, <1>4, <1>6, <1>9, <2>2 DEF LockInv
    <2> QED
      BY <2>1, <2>2
  <1>10. \A u, v \in Writers : tx'[u].row \in Rows /\ tx'[u].row = tx'[v].row => u = v
    BY <1>3, <1>5 DEF LockInv
  <1>11. LockInv'
    BY <1>9, <1>10 DEF LockInv, EventsOf, EventsAfter
  <1> QED
    BY <1>4, <1>11

(* A commit makes the event of the highest id of its row visible together  *)
(* with the write it tells.                                                *)
LEMMA CommitOrder ==
  ASSUME TypeInv, LockInv, LastEventDecides, NEW w \in Writers, Commit(w)
  PROVE  LockInv' /\ LastEventDecides'
  <1> DEFINE id == tx[w].id
             r == tx[w].row
  <1>1. /\ tx[w].pc = "open" /\ tx' = [tx EXCEPT ![w] = IdleTx]
        /\ outbox' = outbox /\ committed' = committed \cup {id}
        /\ row' = IF r \in Rows THEN [row EXCEPT ![r] = tx[w].new] ELSE row
    BY DEF Commit
  <1>2. outbox[id].row = r /\ id \in Nat /\ id \notin committed
    BY <1>1 DEF TypeInv, TypeOK, TxHold, IdleTx, Tx
  <1>3. \A q \in Rows : EventsAfter(q) = IF q = r THEN EventsOf(q) \cup {id} ELSE EventsOf(q)
    BY <1>1, <1>2 DEF EventsOf, EventsAfter
  <1>4. tx'[w].row = NULL /\ \A v \in Writers : v # w => tx'[v] = tx[v]
    BY <1>1 DEF TypeInv, TypeOK, IdleTx
  <1>5. NULL \notin Rows
    BY OutboxAssumption
  <1>6. \A v \in Writers : v # w /\ tx[v].row \in Rows => tx[v].row # r
    BY DEF LockInv
  <1>7. \A v \in Writers : tx'[v].row \in Rows =>
          /\ v # w /\ tx'[v] = tx[v] /\ EventsAfter(tx'[v].row) = EventsOf(tx[v].row)
    BY <1>3, <1>4, <1>5, <1>6
  <1>8. LockInv'
    <2>1. \A v \in Writers : tx'[v].row \in Rows => \A i \in EventsAfter(tx'[v].row) : i < tx'[v].id
      BY <1>7 DEF LockInv
    <2> QED
      BY <1>1, <1>7, <2>1 DEF LockInv, EventsOf, EventsAfter
  <1>9. ASSUME NEW q \in Rows
        PROVE  /\ EventsAfter(q) = {} => row'[q].status = "none"
               /\ \A i \in EventsAfter(q) : (\A j \in EventsAfter(q) : j <= i) =>
                    /\ row'[q].vendor = outbox'[i].vendor
                    /\ row'[q].status = IF outbox'[i].type = "granted" THEN "active" ELSE "revoked"
    <2>1. CASE q = r
      <3>1. row'[q] = tx[w].new
        BY <1>1, <2>1 DEF TypeInv, TypeOK
      <3>2. \A i \in EventsOf(q) : i < id /\ i \in Nat
        <4>1. EventsOf(q) \subseteq Ids
          BY DEF EventsOf, TypeInv, TypeOK
        <4> QED
          BY <2>1, <4>1 DEF LockInv, Ids
      <3>3. \A i \in EventsAfter(q) : (\A j \in EventsAfter(q) : j <= i) => i = id
        BY <1>2, <1>3, <2>1, <3>2
      <3> QED
        BY <1>1, <1>3, <2>1, <3>1, <3>3 DEF LockInv
    <2>2. CASE q # r
      <3>1. row'[q] = row[q] /\ EventsAfter(q) = EventsOf(q)
        BY <1>1, <1>3, <2>2 DEF TypeInv, TypeOK
      <3> QED
        BY <1>1, <3>1 DEF LastEventDecides, IsLast
    <2> QED
      BY <2>1, <2>2
  <1>10. LastEventDecides'
    BY <1>9 DEF LastEventDecides, IsLast, EventsOf, EventsAfter
  <1> QED
    BY <1>8, <1>10

(* Rollbacks and drains do not change what is committed and told.          *)
LEMMA OtherOrder ==
  ASSUME TypeInv, LockInv, LastEventDecides,
         \/ \E w \in Writers : Rollback(w)
         \/ \E k \in Workers : WorkerStep(k)
         \/ UNCHANGED vars
  PROVE  LockInv' /\ LastEventDecides'
  <1>0. committed \subseteq Ids /\ \A w \in Writers : tx[w].row \in Rows => tx[w].id \in Ids
    BY OutboxAssumption DEF TypeInv, TypeOK, TxHold, IdleTx, Ids
  <1>1. /\ UNCHANGED <<row, committed>>
        /\ \A i \in Ids : /\ outbox'[i].type = outbox[i].type
                          /\ outbox'[i].row = outbox[i].row
                          /\ outbox'[i].vendor = outbox[i].vendor
        /\ \A v \in Writers : tx'[v] = tx[v] \/ tx'[v] = IdleTx
    <2>1. ASSUME NEW w \in Writers, Rollback(w) PROVE <1>1!:
      BY <2>1 DEF Rollback, TypeInv, TypeOK
    <2>2. ASSUME NEW k \in Workers, MarkProcessed(k) PROVE <1>1!:
      BY <2>2 DEF MarkProcessed, TypeInv, TypeOK, Event
    <2>3. ASSUME NEW k \in Workers, WorkerStep(k), ~MarkProcessed(k) PROVE UNCHANGED dbVars
      BY <2>3 DEF WorkerStep, StartDrain, Claim, EndDrain, ApplyOk, ApplyThrows, MarkFailed, Crash, dbVars
    <2>4. UNCHANGED vars => UNCHANGED dbVars
      BY DEF vars
    <2>5. UNCHANGED dbVars => <1>1!:
      BY DEF dbVars
    <2> QED
      BY <2>1, <2>2, <2>3, <2>4, <2>5
  <1>2. LastEventDecides' /\ \A r \in Rows : EventsAfter(r) = EventsOf(r)
    BY <1>0, <1>1, QuietOrder
  <1>3. \A v \in Writers : tx'[v].row \in Rows => tx'[v] = tx[v]
    BY <1>1, OutboxAssumption DEF IdleTx
  <1>4. LockInv'
    <2>1. \A v \in Writers : tx'[v].row \in Rows =>
            /\ \A i \in EventsAfter(tx'[v].row) : i < tx'[v].id
            /\ outbox'[tx'[v].id].vendor = tx'[v].new.vendor
            /\ tx'[v].new.status = IF outbox'[tx'[v].id].type = "granted" THEN "active" ELSE "revoked"
      BY <1>0, <1>1, <1>2, <1>3 DEF LockInv
    <2>2. \A u, v \in Writers : tx'[u].row \in Rows /\ tx'[u].row = tx'[v].row => u = v
      BY <1>3 DEF LockInv
    <2> QED
      BY <2>1, <2>2 DEF LockInv, EventsOf, EventsAfter
  <1> QED
    BY <1>2, <1>4

(* The locks hold and order the events, from the first state on.           *)
LEMMA OrderHolds == Spec => []LockInv /\ []LastEventDecides
  <1>1. Init => LockInv /\ LastEventDecides
    BY OutboxAssumption DEF Init, LockInv, LastEventDecides, EventsOf, IsLast, IdleTx
  <1>2. ASSUME TypeInv, LockInv, LastEventDecides, [Next]_vars
        PROVE  LockInv' /\ LastEventDecides'
    <2>1. ASSUME NEW w \in Writers, WriterStep(w), ~Commit(w), ~Rollback(w)
          PROVE  LockInv' /\ LastEventDecides'
      <3>1. PICK r \in Rows \cup {NULL}, new \in RowState, type \in EventTypes :
              /\ Open(w, r, new, type)
              /\ links' \in 0..MaxLinks
              /\ type # "link" =>
                   /\ r \in Rows /\ Unlocked(r) /\ new.vendor \in Vendors
                   /\ new.status = IF type = "granted" THEN "active" ELSE "revoked"
              /\ type = "link" => r = NULL
        BY <1>2, <2>1, Begins DEF WriterStep
      <3> QED
        BY <1>2, <3>1, OpenOrder
    <2> QED
      BY <1>2, <2>1, CommitOrder, OtherOrder DEF Next
  <1>3. TypeInv /\ LockInv /\ LastEventDecides /\ [Next]_vars => LockInv' /\ LastEventDecides'
    BY <1>2
  <1> QED
    BY <1>1, <1>3, OutboxTypesHold, PTL DEF Spec

(* The last committed event of an access row says what the row says,       *)
(* however many transactions overlap and in whatever order they commit.    *)
THEOREM LastEventsDecide == Spec => []LastEventDecides
  BY OrderHolds, PTL

-----------------------------------------------------------------------------
(* An outbox row is delivered once its worker has called OpenFGA.          *)
Delivered(i) ==
  \/ outbox[i].processed
  \/ \E k \in Workers : worker[k].id = i /\ worker[k].pc = "applied"

(* The last write of a tuple is a committed event on it and says whether   *)
(* the tuple exists; a delivered event has been written, or another since. *)
TupleInv ==
  /\ \A t \in Tuples :
       /\ lastWrite[t] # 0 => lastWrite[t] \in EventsOn(t)
       /\ t \in tuples <=> lastWrite[t] # 0 /\ outbox[lastWrite[t]].type = "granted"
  /\ \A i \in committed :
       outbox[i].type # "link" /\ Delivered(i) => lastWrite[TupleOf(outbox[i])] # 0
  /\ \A w \in Writers : tx[w].pc = "open" => ~outbox[tx[w].id].processed

(* The invariant of the drain.                                            *)
DeliveryInv == ClaimExclusive /\ TupleInv

(* What a step keeps when it makes no committed event appear, delivers     *)
(* nothing and claims nothing: some workers may have let go.               *)
LEMMA QuietDelivery ==
  ASSUME TypeInv, DeliveryInv, UNCHANGED <<committed, tuples, lastWrite>>,
         \A i \in committed : outbox'[i] = outbox[i],
         \A k \in Workers : \/ worker'[k].id = worker[k].id /\
                                (worker'[k].pc = "applied" => worker[k].pc = "applied")
                            \/ worker'[k].id = 0,
         \A w \in Writers : tx'[w].pc = "open" => ~outbox'[tx'[w].id].processed
  PROVE  DeliveryInv'
  <1>1. 0 \notin committed
    BY OutboxAssumption DEF TypeInv, TypeOK
  <1>2. \A k \in Workers : worker[k].id # 0 => worker[k].id \in committed
    BY DEF TypeInv, WorkersHold
  <1>3. ClaimExclusive'
    BY <1>2 DEF DeliveryInv, ClaimExclusive
  <1>4. \A i \in committed : (outbox'[i].processed
          \/ \E k \in Workers : worker'[k].id = i /\ worker'[k].pc = "applied") => Delivered(i)
    BY <1>1 DEF Delivered
  <1>5. \A i \in committed : TupleOf(outbox'[i]) = TupleOf(outbox[i])
    BY DEF TupleOf
  <1>6. \A t \in Tuples : /\ lastWrite'[t] # 0 => lastWrite'[t] \in EventsOn(t)
                          /\ t \in tuples' <=> lastWrite'[t] # 0 /\ outbox[lastWrite'[t]].type = "granted"
    BY DEF DeliveryInv, TupleInv
  <1>7. \A t \in Tuples : /\ lastWrite'[t] # 0 =>
                                /\ lastWrite'[t] \in committed'
                                /\ outbox'[lastWrite'[t]].type # "link"
                                /\ TupleOf(outbox'[lastWrite'[t]]) = t
                          /\ t \in tuples' <=> lastWrite'[t] # 0 /\ outbox'[lastWrite'[t]].type = "granted"
    BY <1>5, <1>6 DEF EventsOn
  <1>8. \A i \in committed' : outbox'[i].type # "link" /\ (outbox'[i].processed
          \/ \E k \in Workers : worker'[k].id = i /\ worker'[k].pc = "applied")
             => lastWrite'[TupleOf(outbox'[i])] # 0
    BY <1>4, <1>5 DEF DeliveryInv, TupleInv
  <1>9. TupleInv'
    BY <1>7, <1>8 DEF TupleInv, EventsOn, TupleOf, Delivered
  <1> QED
    BY <1>3, <1>9 DEF DeliveryInv

(* A beginning transaction writes an outbox row that is not visible, and   *)
(* one that ends makes at most an undelivered one visible.                 *)
LEMMA WriterDelivery ==
  ASSUME TypeInv, DeliveryInv, NEW w \in Writers, WriterStep(w)
  PROVE  DeliveryInv'
  <1>0. 0 \notin committed /\ \A i \in committed : i \in Ids /\ i # nextId
    BY OutboxAssumption DEF TypeInv, TypeOK, Ids
  <1>1. \A v \in Writers : tx[v].pc = "open" =>
          tx[v].id \in Ids /\ tx[v].id # nextId /\ tx[v].id \notin committed
    BY OutboxAssumption DEF TypeInv, TypeOK, TxHold, IdleTx, Ids
  <1>2. IdleTx.pc # "open"
    BY DEF IdleTx
  <1>3. ASSUME NEW r \in Rows \cup {NULL}, NEW new \in RowState, NEW type \in EventTypes,
               Open(w, r, new, type)
        PROVE  DeliveryInv'
    <2>1. nextId \in Ids
      BY <1>3, OutboxAssumption DEF Open, TypeInv, TypeOK, Ids
    <2>2. /\ UNCHANGED <<committed, tuples, lastWrite, worker>>
          /\ ~outbox'[nextId].processed
          /\ \A i \in Ids : i # nextId => outbox'[i] = outbox[i]
          /\ tx'[w].id = nextId /\ \A v \in Writers : v # w => tx'[v] = tx[v]
      BY <1>3, <2>1 DEF Open, workerVars, TypeInv, TypeOK
    <2>3. \A v \in Writers : tx'[v].pc = "open" => ~outbox'[tx'[v].id].processed
      BY <1>1, <2>2 DEF DeliveryInv, TupleInv
    <2>4. \A i \in committed : outbox'[i] = outbox[i]
      BY <1>0, <2>2
    <2> QED
      BY <2>2, <2>3, <2>4, QuietDelivery
  <1>4. CASE Rollback(w)
    <2>1. /\ UNCHANGED <<committed, tuples, lastWrite, worker, outbox>>
          /\ \A v \in Writers : tx'[v] = tx[v] \/ tx'[v] = IdleTx
      BY <1>4 DEF Rollback, workerVars, TypeInv, TypeOK
    <2>2. \A v \in Writers : tx'[v].pc = "open" => ~outbox'[tx'[v].id].processed
      BY <1>2, <2>1 DEF DeliveryInv, TupleInv
    <2> QED
      BY <2>1, <2>2, QuietDelivery
  <1>5. CASE Commit(w)
    <2> DEFINE id == tx[w].id
    <2>1. /\ UNCHANGED <<tuples, lastWrite, worker, outbox>>
          /\ committed' = committed \cup {id}
          /\ \A v \in Writers : tx'[v] = tx[v] \/ tx'[v] = IdleTx
      BY <1>5 DEF Commit, workerVars, TypeInv, TypeOK
    <2>2. ~outbox[id].processed /\ id \notin committed /\ id # 0
      BY <1>1, <1>5, OutboxAssumption DEF Commit, DeliveryInv, TupleInv, Ids
    <2>3. \A k \in Workers : worker[k].id # id
      BY <2>2 DEF TypeInv, WorkersHold
    <2>4. ~Delivered(id)
      BY <2>2, <2>3 DEF Delivered
    <2>5. \A i \in committed' : outbox[i].type # "link" /\ Delivered(i) =>
            lastWrite[TupleOf(outbox[i])] # 0
      BY <2>1, <2>4 DEF DeliveryInv, TupleInv
    <2>6. \A t \in Tuples : lastWrite[t] # 0 =>
            /\ lastWrite[t] \in committed' /\ outbox[lastWrite[t]].type # "link"
            /\ TupleOf(outbox[lastWrite[t]]) = t
      BY <2>1 DEF DeliveryInv, TupleInv, EventsOn
    <2>7. \A v \in Writers : tx'[v].pc = "open" => ~outbox[tx'[v].id].processed
      BY <1>2, <2>1 DEF DeliveryInv, TupleInv
    <2>8. TupleInv'
      BY <2>1, <2>5, <2>6, <2>7 DEF DeliveryInv, TupleInv, EventsOn, TupleOf, Delivered
    <2> QED
      BY <2>1, <2>8 DEF DeliveryInv, ClaimExclusive
  <1>6. CASE \/ \E r \in Rows, v \in Vendors : BeginGrant(w, r, v)
             \/ \E r \in Rows : BeginRevoke(w, r)
             \/ BeginLink(w)
    <2>1. \E r \in Rows \cup {NULL}, new \in RowState, type \in EventTypes : Open(w, r, new, type)
      BY <1>6, Begins
    <2> QED
      BY <1>3, <2>1
  <1> QED
    BY <1>4, <1>5, <1>6 DEF WriterStep

(* A worker delivers what it alone has claimed, and marks what it has      *)
(* delivered.                                                              *)
LEMMA WorkerDelivery ==
  ASSUME TypeInv, DeliveryInv, NEW k \in Workers, WorkerStep(k)
  PROVE  DeliveryInv'
  <1> DEFINE id == worker[k].id
  <1>0. /\ worker \in [Workers -> Worker] /\ outbox \in [Ids -> Event]
        /\ lastWrite \in [Tuples -> 0..MaxEvents] /\ tuples \subseteq Tuples
        /\ committed \subseteq Ids /\ 0 \notin committed
    BY OutboxAssumption DEF TypeInv, TypeOK, Ids
  <1>1. worker[k].pc \in Holding => id \in committed
    BY DEF TypeInv, WorkersHold
  <1>2. ASSUME UNCHANGED <<dbVars, tuples, lastWrite>>,
               \A o \in Workers : o # k => worker'[o] = worker[o],
               \/ worker'[k].id = id /\ (worker'[k].pc = "applied" => worker[k].pc = "applied")
               \/ worker'[k].id = 0
        PROVE  DeliveryInv'
    <2>1. UNCHANGED <<committed, outbox, tx>>
      BY <1>2 DEF dbVars
    <2>2. \A w \in Writers : tx'[w].pc = "open" => ~outbox'[tx'[w].id].processed
      BY <2>1 DEF DeliveryInv, TupleInv
    <2>3. \A o \in Workers : \/ worker'[o].id = worker[o].id /\
                                (worker'[o].pc = "applied" => worker[o].pc = "applied")
                            \/ worker'[o].id = 0
      BY <1>2
    <2> QED
      BY <1>2, <2>1, <2>2, <2>3, QuietDelivery
  <1>3. CASE StartDrain(k) \/ EndDrain(k) \/ MarkFailed(k) \/ Crash(k)
    <2>1. /\ UNCHANGED <<dbVars, tuples, lastWrite>>
          /\ \A o \in Workers : o # k => worker'[o] = worker[o]
          /\ worker'[k].id = 0
      BY <1>0, <1>3 DEF StartDrain, EndDrain, MarkFailed, Crash, IdleWorker, Worker
    <2> QED
      BY <1>2, <2>1
  <1>4. CASE Claim(k)
    <2>1. PICK i \in Claimable(k) : worker' = [worker EXCEPT ![k].pc = "claimed", ![k].id = i]
      BY <1>4 DEF Claim
    <2>2. /\ i \in committed /\ ~outbox[i].processed
          /\ \A o \in Workers : worker[o].id # i
      BY <2>1 DEF Claimable, Visible
    <2>3. /\ worker'[k].id = i /\ worker'[k].pc = "claimed"
          /\ \A o \in Workers : o # k => worker'[o] = worker[o]
          /\ UNCHANGED <<committed, outbox, tx, tuples, lastWrite>>
      BY <1>0, <1>4, <2>1 DEF Claim, dbVars, Worker
    <2>4. ClaimExclusive'
      BY <2>2, <2>3 DEF DeliveryInv, ClaimExclusive
    <2>5. \A j \in committed : (outbox[j].processed
            \/ \E o \in Workers : worker'[o].id = j /\ worker'[o].pc = "applied") => Delivered(j)
      BY <2>3 DEF Delivered
    <2>6. TupleInv'
      BY <2>3, <2>5 DEF DeliveryInv, TupleInv, EventsOn, TupleOf, Delivered
    <2> QED
      BY <2>4, <2>6 DEF DeliveryInv
  <1>5. ASSUME worker[k].pc = "claimed", NEW pc \in {"applied", "threw"},
               worker' = [worker EXCEPT ![k].pc = pc], UNCHANGED <<dbVars, crashes>>,
               Deliver(id) \/ (pc = "threw" /\ UNCHANGED <<tuples, lastWrite>>)
        PROVE  DeliveryInv'
    <2> DEFINE e == outbox[id]
    <2>1. /\ \A o \in Workers : worker'[o].id = worker[o].id
          /\ \A o \in Workers : o # k => worker'[o] = worker[o]
          /\ worker'[k].pc = pc /\ UNCHANGED <<committed, outbox, tx>>
      BY <1>0, <1>5 DEF Worker, dbVars
    <2>2. id \in committed /\ id # 0
      BY <1>0, <1>1, <1>5 DEF Holding
    <2>3. ClaimExclusive'
      BY <2>1 DEF DeliveryInv, ClaimExclusive
    <2>4. \/ UNCHANGED <<tuples, lastWrite>> /\ (pc = "applied" => e.type = "link")
          \/ /\ e.type # "link" /\ TupleOf(e) \in Tuples
             /\ tuples' = Written(e) /\ lastWrite' = [lastWrite EXCEPT ![TupleOf(e)] = id]
      <3>1. Deliver(id) \/ UNCHANGED <<tuples, lastWrite>>
        BY <1>5
      <3>2. e.type = "link" \/ ~UNCHANGED <<tuples, lastWrite>> \/ pc = "threw"
              \/ (tuples' = Written(e) /\ lastWrite' = [lastWrite EXCEPT ![TupleOf(e)] = id])
        BY <1>5 DEF Deliver
      <3>3. Named(id)
        BY <2>2 DEF TypeInv, VendorsNamed
      <3>4. e.type # "link" => TupleOf(e) \in Tuples
        BY <3>3, OutboxAssumption DEF Named, TupleOf, Tuples
      <3> QED
        BY <2>2, <3>1, <3>2, <3>4, Delivers
    <2>5. \A j \in committed : (outbox[j].processed
            \/ \E o \in Workers : worker'[o].id = j /\ worker'[o].pc = "applied")
               => Delivered(j) \/ (j = id /\ pc = "applied")
      BY <2>1 DEF Delivered
    <2>6. CASE UNCHANGED <<tuples, lastWrite>> /\ (pc = "applied" => e.type = "link")
      <3>1. TupleInv'
        BY <2>1, <2>5, <2>6 DEF DeliveryInv, TupleInv, EventsOn, TupleOf, Delivered
      <3> QED
        BY <2>3, <3>1 DEF DeliveryInv
    <2>7. CASE /\ e.type # "link" /\ TupleOf(e) \in Tuples
               /\ tuples' = Written(e) /\ lastWrite' = [lastWrite EXCEPT ![TupleOf(e)] = id]
      <3> DEFINE t0 == TupleOf(e)
      <3>1. /\ lastWrite'[t0] = id
            /\ \A t \in Tuples : t # t0 => lastWrite'[t] = lastWrite[t] /\ (t \in tuples' <=> t \in tuples)
            /\ t0 \in tuples' <=> e.type = "granted"
        BY <1>0, <2>7 DEF Written
      <3>2. \A t \in Tuples : lastWrite'[t] # 0 =>
              /\ lastWrite'[t] \in committed /\ outbox[lastWrite'[t]].type # "link"
              /\ TupleOf(outbox[lastWrite'[t]]) = t
        BY <2>2, <2>7, <3>1 DEF DeliveryInv, TupleInv, EventsOn
      <3>3. \A t \in Tuples : t \in tuples' <=>
              lastWrite'[t] # 0 /\ outbox[lastWrite'[t]].type = "granted"
        BY <2>2, <3>1 DEF DeliveryInv, TupleInv
      <3>4. \A j \in committed : outbox[j].type # "link" /\ (outbox[j].processed
              \/ \E o \in Workers : worker'[o].id = j /\ worker'[o].pc = "applied")
                 => lastWrite'[TupleOf(outbox[j])] # 0
        <4>1. \A j \in committed : outbox[j].type # "link" => TupleOf(outbox[j]) \in Tuples
          BY OutboxAssumption DEF TypeInv, VendorsNamed, Named, TupleOf, Tuples
        <4> QED
          BY <2>2, <2>5, <3>1, <4>1 DEF DeliveryInv, TupleInv
      <3>5. TupleInv'
        BY <2>1, <3>2, <3>3, <3>4 DEF DeliveryInv, TupleInv, EventsOn, TupleOf, Delivered
      <3> QED
        BY <2>3, <3>5 DEF DeliveryInv
    <2> QED
      BY <2>4, <2>6, <2>7
  <1>6. CASE ApplyOk(k)
    BY <1>5, <1>6 DEF ApplyOk
  <1>7. CASE ApplyThrows(k)
    BY <1>5, <1>7 DEF ApplyThrows
  <1>8. CASE MarkProcessed(k)
    <2>1. worker[k].pc = "applied" /\ id \in committed
      BY <1>1, <1>8 DEF MarkProcessed, Marks, Holding
    <2>2. /\ \A o \in Workers : o # k => worker'[o] = worker[o]
          /\ worker'[k].id = 0 /\ UNCHANGED <<committed, tx, tuples, lastWrite>>
          /\ \A i \in Ids : i # id => outbox'[i] = outbox[i]
          /\ \A i \in Ids : /\ outbox'[i].type = outbox[i].type
                            /\ outbox'[i].row = outbox[i].row
                            /\ outbox'[i].vendor = outbox[i].vendor
      BY <1>0, <1>8 DEF MarkProcessed, Worker, Event
    <2>3. ClaimExclusive'
      <3>1. \A o \in Workers : o # k /\ worker[o].id # 0 => worker[o].id \in Ids /\ worker[o].id # id
        BY <1>0, <2>1 DEF TypeInv, WorkersHold, DeliveryInv, ClaimExclusive
      <3> QED
        BY <2>2, <3>1 DEF DeliveryInv, ClaimExclusive
    <2>4. \A j \in committed : (outbox'[j].processed
            \/ \E o \in Workers : worker'[o].id = j /\ worker'[o].pc = "applied") => Delivered(j)
      BY <1>0, <2>1, <2>2 DEF Delivered
    <2>5. \A j \in committed : TupleOf(outbox'[j]) = TupleOf(outbox[j]) /\ outbox'[j].type = outbox[j].type
      BY <1>0, <2>2 DEF TupleOf
    <2>6. \A t \in Tuples : lastWrite[t] # 0 =>
            /\ lastWrite[t] \in committed /\ outbox'[lastWrite[t]].type = outbox[lastWrite[t]].type
            /\ outbox[lastWrite[t]].type # "link" /\ TupleOf(outbox'[lastWrite[t]]) = t
      BY <2>5 DEF DeliveryInv, TupleInv, EventsOn
    <2>7. \A w \in Writers : tx'[w].pc = "open" => ~outbox'[tx'[w].id].processed
      <3>1. \A w \in Writers : tx[w].pc = "open" => tx[w].id \in Ids /\ tx[w].id # id
        BY <2>1, OutboxAssumption DEF TypeInv, TypeOK, TxHold, IdleTx, Ids
      <3> QED
        BY <2>2, <3>1 DEF DeliveryInv, TupleInv
    <2>8. TupleInv'
      <3>1. \A t \in Tuples : t \in tuples <=> lastWrite[t] # 0 /\ outbox'[lastWrite[t]].type = "granted"
        BY <2>6 DEF DeliveryInv, TupleInv
      <3>2. \A j \in committed : outbox'[j].type # "link" /\ (outbox'[j].processed
              \/ \E o \in Workers : worker'[o].id = j /\ worker'[o].pc = "applied")
                 => lastWrite[TupleOf(outbox'[j])] # 0
        BY <2>4, <2>5 DEF DeliveryInv, TupleInv
      <3> QED
        BY <2>2, <2>6, <2>7, <3>1, <3>2 DEF TupleInv, EventsOn, TupleOf, Delivered
    <2> QED
      BY <2>3, <2>8 DEF DeliveryInv
  <1> QED
    BY <1>3, <1>4, <1>6, <1>7, <1>8 DEF WorkerStep

(* Every reachable state keeps the claims apart and the tuples in step     *)
(* with the events delivered.                                              *)
LEMMA DeliveryHolds == Spec => []DeliveryInv
  <1>1. Init => DeliveryInv
    <2> SUFFICES ASSUME Init PROVE DeliveryInv
      OBVIOUS
    <2>1. committed = {} /\ tuples = {} /\ \A t \in Tuples : lastWrite[t] = 0
      BY DEF Init
    <2>2. \A k \in Workers : worker[k].id = 0
      BY DEF Init, IdleWorker
    <2>3. \A w \in Writers : tx[w].pc = "idle"
      BY DEF Init, IdleTx
    <2> QED
      BY <2>1, <2>2, <2>3 DEF DeliveryInv, ClaimExclusive, TupleInv
  <1>2. TypeInv /\ DeliveryInv /\ [Next]_vars => DeliveryInv'
    <2> SUFFICES ASSUME TypeInv, DeliveryInv, [Next]_vars PROVE DeliveryInv'
      OBVIOUS
    <2>1. CASE UNCHANGED vars
      BY <2>1 DEF vars, dbVars, workerVars, DeliveryInv, ClaimExclusive, TupleInv,
                  EventsOn, TupleOf, Delivered
    <2> QED
      BY <2>1, WriterDelivery, WorkerDelivery DEF Next
  <1> QED
    BY <1>1, <1>2, OutboxTypesHold, PTL DEF Spec

(* No two drains ever process the same outbox row at once, and none holds  *)
(* a row that is processed: FOR UPDATE SKIP LOCKED in a transaction that   *)
(* stays open across the delivery.                                         *)
THEOREM ClaimsAreExclusive == Spec => []ClaimExclusive
  <1>1. DeliveryInv => ClaimExclusive
    BY DEF DeliveryInv
  <1> QED
    BY <1>1, DeliveryHolds, PTL

(* Whatever the workers deliver, lose or repeat, a tuple in OpenFGA goes   *)
(* back to a grant that committed.                                         *)
THEOREM TuplesAreGranted == Spec => []TuplesHaveGrants
  <1>1. TypeInv /\ DeliveryInv => TuplesHaveGrants
    <2> SUFFICES ASSUME TypeInv, DeliveryInv, NEW t \in tuples
                 PROVE  \E i \in committed : outbox[i].type = "granted" /\ TupleOf(outbox[i]) = t
      BY DEF TuplesHaveGrants
    <2>1. t \in Tuples
      BY DEF TypeInv, TypeOK
    <2>2. lastWrite[t] \in EventsOn(t) /\ outbox[lastWrite[t]].type = "granted"
      BY <2>1 DEF DeliveryInv, TupleInv
    <2> QED
      BY <2>2 DEF EventsOn
  <1> QED
    BY <1>1, OutboxTypesHold, DeliveryHolds, PTL

(* An outbox row marked processed has been delivered: no crash, throw or   *)
(* lost answer between the two steps skips a delivery.                     *)
THEOREM ProcessedAreDelivered == Spec => []ProcessedWasDelivered
  <1>1. DeliveryInv => ProcessedWasDelivered
    <2> SUFFICES ASSUME DeliveryInv, NEW t \in Tuples, NEW i \in EventsOn(t),
                        \A j \in EventsOn(t) : outbox[j].processed
                 PROVE  lastWrite[t] \in EventsOn(t)
      BY DEF ProcessedWasDelivered
    <2>1. i \in committed /\ outbox[i].type # "link" /\ TupleOf(outbox[i]) = t /\ outbox[i].processed
      BY DEF EventsOn
    <2>2. lastWrite[t] # 0
      BY <2>1 DEF DeliveryInv, TupleInv, Delivered
    <2> QED
      BY <2>2 DEF DeliveryInv, TupleInv
  <1> QED
    BY <1>1, DeliveryHolds, PTL

(* When the last event on a tuple is the last of its access row and was    *)
(* the last delivered, the tuple and the access row agree.                 *)
THEOREM TuplesAreSynced == Spec => []SyncedWhenInOrder
  <1>1. TypeInv /\ DeliveryInv /\ LastEventDecides => SyncedWhenInOrder
    <2> SUFFICES ASSUME TypeInv, DeliveryInv, LastEventDecides,
                        NEW t \in Tuples, NEW i \in EventsOn(t),
                        IsLast(i, EventsOf(outbox[i].row)), lastWrite[t] = i
                 PROVE  t \in tuples <=>
                          row[outbox[i].row] = [status |-> "active", vendor |-> t[2]]
      BY DEF SyncedWhenInOrder
    <2> DEFINE r == outbox[i].row
    <2>1. i \in committed /\ outbox[i].type # "link" /\ TupleOf(outbox[i]) = t
      BY DEF EventsOn
    <2>2. r \in Rows /\ i \in EventsOf(r) /\ outbox[i].vendor = t[2]
      BY <2>1 DEF TypeInv, VendorsNamed, Named, EventsOf, TupleOf
    <2>3. row[r] \in RowState
      BY <2>2 DEF TypeInv, TypeOK
    <2>4. /\ row[r].vendor = t[2]
          /\ row[r].status = IF outbox[i].type = "granted" THEN "active" ELSE "revoked"
      BY <2>2 DEF LastEventDecides
    <2>5. t \in tuples <=> outbox[i].type = "granted"
      <3>1. i # 0
        BY <2>1, OutboxAssumption DEF TypeInv, TypeOK, Ids
      <3> QED
        BY <3>1 DEF DeliveryInv, TupleInv
    <2> QED
      BY <2>3, <2>4, <2>5 DEF RowState
  <1> QED
    BY <1>1, OutboxTypesHold, LastEventsDecide, DeliveryHolds, PTL
-----------------------------------------------------------------------------
(* What an open transaction will tell: a revocation, still of an active    *)
(* row and of the vendor it has; a link row, of no access row.             *)
TellInv ==
  \A w \in Writers : tx[w].pc = "open" =>
    /\ tx[w].row \in Rows =>
         /\ outbox[tx[w].id].type # "link"
         /\ outbox[tx[w].id].type = "revoked" =>
              /\ row[tx[w].row].status = "active"
              /\ tx[w].new = [row[tx[w].row] EXCEPT !.status = "revoked"]
    /\ tx[w].row \notin Rows =>
         outbox[tx[w].id].type = "link" /\ outbox[tx[w].id].vendor = NULL

(* A transaction begins with what it will tell.                            *)
LEMMA OpenTells ==
  ASSUME TypeInv, TellInv, NEW w \in Writers,
         NEW r \in Rows \cup {NULL}, NEW new \in RowState, NEW type \in EventTypes,
         Open(w, r, new, type),
         type # "link" => r \in Rows,
         type = "link" => r = NULL /\ new.vendor = NULL,
         type = "revoked" => row[r].status = "active"
                             /\ new = [row[r] EXCEPT !.status = "revoked"]
  PROVE  TellInv'
  <1>1. nextId \in Ids
    BY OutboxAssumption DEF TypeInv, TypeOK, Open, Ids
  <1>2. /\ outbox'[nextId].type = type /\ outbox'[nextId].vendor = new.vendor
        /\ \A i \in Ids : i # nextId => outbox'[i] = outbox[i]
        /\ row' = row
    BY <1>1 DEF Open, TypeInv, TypeOK
  <1>3. /\ tx'[w].row = r /\ tx'[w].new = new /\ tx'[w].id = nextId
        /\ \A v \in Writers : v # w => tx'[v] = tx[v]
    BY DEF Open, TypeInv, TypeOK
  <1>4. \A v \in Writers : tx[v].pc = "open" => tx[v].id \in Ids /\ tx[v].id # nextId
    BY <1>1, OutboxAssumption DEF TypeInv, TypeOK, TxHold, IdleTx, Ids
  <1>5. NULL \notin Rows
    BY OutboxAssumption
  <1>6. ASSUME NEW v \in Writers, tx'[v].pc = "open"
        PROVE  /\ tx'[v].row \in Rows =>
                    /\ outbox'[tx'[v].id].type # "link"
                    /\ outbox'[tx'[v].id].type = "revoked" =>
                         /\ row'[tx'[v].row].status = "active"
                         /\ tx'[v].new = [row'[tx'[v].row] EXCEPT !.status = "revoked"]
               /\ tx'[v].row \notin Rows =>
                    outbox'[tx'[v].id].type = "link" /\ outbox'[tx'[v].id].vendor = NULL
    <2>1. CASE v = w
      BY <1>2, <1>3, <1>5, <2>1
    <2>2. CASE v # w
      <3>1. tx'[v] = tx[v] /\ outbox'[tx[v].id] = outbox[tx[v].id] /\ tx[v].pc = "open"
        BY <1>2, <1>3, <1>4, <1>6, <2>2
      <3> QED
        BY <1>2, <3>1 DEF TellInv
    <2> QED
      BY <2>1, <2>2
  <1> QED
    BY <1>6 DEF TellInv

(* The lock of its row keeps what a transaction will tell true.            *)
LEMMA TellStep ==
  ASSUME TypeInv, LockInv, TellInv, [Next]_vars
  PROVE  TellInv'
  <1>0. NULL \notin Rows /\ NULL \notin Vendors
    BY OutboxAssumption
  <1>1. ASSUME NEW w \in Writers, NEW r \in Rows, NEW v \in Vendors, BeginGrant(w, r, v)
        PROVE  TellInv'
    <2> DEFINE new == [status |-> "active", vendor |-> v]
    <2>1. Open(w, r, new, "granted") /\ new \in RowState
      BY <1>1 DEF BeginGrant, RowState
    <2> HIDE DEF new
    <2> QED
      BY <2>1, OpenTells DEF EventTypes
  <1>2. ASSUME NEW w \in Writers, NEW r \in Rows, BeginRevoke(w, r)
        PROVE  TellInv'
    <2> DEFINE new == [row[r] EXCEPT !.status = "revoked"]
    <2>1. Open(w, r, new, "revoked") /\ row[r].status = "active"
      BY <1>2 DEF BeginRevoke
    <2>2. new \in RowState
      BY DEF TypeInv, TypeOK, RowState
    <2> HIDE DEF new
    <2>3. new = [row[r] EXCEPT !.status = "revoked"]
      BY DEF new
    <2> QED
      BY <2>1, <2>2, <2>3, OpenTells DEF EventTypes
  <1>3. ASSUME NEW w \in Writers, BeginLink(w)
        PROVE  TellInv'
    <2> DEFINE new == [status |-> "none", vendor |-> NULL]
    <2>1. Open(w, NULL, new, "link") /\ new \in RowState /\ new.vendor = NULL
      BY <1>3 DEF BeginLink, RowState
    <2> HIDE DEF new
    <2> QED
      BY <2>1, OpenTells DEF EventTypes
  <1>4. ASSUME \A v \in Writers : tx'[v] = tx[v] \/ tx'[v] = IdleTx,
               \A i \in Ids : /\ outbox'[i].type = outbox[i].type
                              /\ outbox'[i].vendor = outbox[i].vendor,
               \A v \in Writers : tx'[v].pc = "open" /\ tx[v].row \in Rows =>
                 row'[tx[v].row] = row[tx[v].row]
        PROVE  TellInv'
    <2>1. \A v \in Writers : tx'[v].pc = "open" => tx'[v] = tx[v] /\ tx[v].pc = "open"
      BY <1>4 DEF IdleTx
    <2>2. \A v \in Writers : tx[v].pc = "open" => tx[v].id \in Ids
      BY OutboxAssumption DEF TypeInv, TypeOK, TxHold, IdleTx, Ids
    <2>3. ASSUME NEW v \in Writers, tx'[v].pc = "open"
          PROVE  /\ tx'[v].row \in Rows =>
                      /\ outbox'[tx'[v].id].type # "link"
                      /\ outbox'[tx'[v].id].type = "revoked" =>
                           /\ row'[tx'[v].row].status = "active"
                           /\ tx'[v].new = [row'[tx'[v].row] EXCEPT !.status = "revoked"]
                 /\ tx'[v].row \notin Rows =>
                      outbox'[tx'[v].id].type = "link" /\ outbox'[tx'[v].id].vendor = NULL
      <3>1. /\ tx'[v] = tx[v] /\ tx[v].pc = "open" /\ tx[v].id \in Ids
            /\ tx[v].row \in Rows => row'[tx[v].row] = row[tx[v].row]
        BY <1>4, <2>1, <2>2, <2>3
      <3>2. /\ outbox'[tx[v].id].type = outbox[tx[v].id].type
            /\ outbox'[tx[v].id].vendor = outbox[tx[v].id].vendor
        BY <1>4, <3>1
      <3>3. CASE tx[v].row \in Rows
        BY <3>1, <3>2, <3>3 DEF TellInv
      <3>4. CASE tx[v].row \notin Rows
        BY <3>1, <3>2, <3>4 DEF TellInv
      <3> QED
        BY <3>1, <3>3, <3>4
    <2> QED
      BY <2>3 DEF TellInv
  <1>5. ASSUME NEW w \in Writers, Commit(w)
        PROVE  TellInv'
    <2>1. /\ \A v \in Writers : tx'[v] = tx[v] \/ tx'[v] = IdleTx
          /\ tx'[w].pc = "idle" /\ outbox' = outbox
          /\ \A r \in Rows : r # tx[w].row => row'[r] = row[r]
      BY <1>5 DEF Commit, TypeInv, TypeOK, IdleTx
    <2>2. \A v \in Writers : tx'[v].pc = "open" /\ tx[v].row \in Rows => tx[v].row # tx[w].row
      BY <2>1 DEF LockInv
    <2> QED
      BY <1>4, <2>1, <2>2
  <1>6. ASSUME NEW w \in Writers, Rollback(w)
        PROVE  TellInv'
    BY <1>4, <1>6 DEF Rollback, TypeInv, TypeOK
  <1>7. ASSUME NEW k \in Workers, MarkProcessed(k)
        PROVE  TellInv'
    <2>1. \A i \in Ids : outbox'[i].type = outbox[i].type /\ outbox'[i].vendor = outbox[i].vendor
      BY <1>7 DEF MarkProcessed, TypeInv, TypeOK, Event
    <2> QED
      BY <1>4, <1>7, <2>1 DEF MarkProcessed
  <1>8. ASSUME UNCHANGED dbVars
        PROVE  TellInv'
    BY <1>4, <1>8 DEF dbVars
  <1>9. ASSUME NEW k \in Workers, WorkerStep(k), ~MarkProcessed(k) PROVE UNCHANGED dbVars
    BY <1>9 DEF WorkerStep, StartDrain, Claim, EndDrain, ApplyOk, ApplyThrows, MarkFailed, Crash, dbVars
  <1>10. UNCHANGED vars => UNCHANGED dbVars
    BY DEF vars
  <1> QED
    BY <1>1, <1>2, <1>3, <1>5, <1>6, <1>7, <1>8, <1>9, <1>10 DEF Next, WriterStep

(* What OutboxPromise is told when one event moves from stage to stage.    *)
LEMMA StageMoves ==
  ASSUME TypeInv, NEW i \in Ids, NEW s, UNCHANGED committed,
         \A j \in Ids : /\ outbox'[j].type = outbox[j].type
                        /\ outbox'[j].row = outbox[j].row
                        /\ outbox'[j].vendor = outbox[j].vendor,
         \A j \in Ids \ {i} : Stage(j)' = Stage(j),
         Stage(i)' = s
  PROVE  Events' = [Events EXCEPT ![i].stage = s]
  <1> DEFINE E(j) == IF j \in committed THEN outbox[j] ELSE NoEvent
             N(j) == IF j \in committed' THEN outbox'[j] ELSE NoEvent
             Old(j) == [type |-> E(j).type, row |-> E(j).row, vendor |-> E(j).vendor,
                        stage |-> Stage(j)]
             New(j) == [type |-> N(j).type, row |-> N(j).row, vendor |-> N(j).vendor,
                        stage |-> Stage(j)']
  <1>1. Events = [j \in Ids |-> Old(j)]
    BY DEF Events
  <1>2. Events' = [j \in Ids |-> New(j)]
    BY DEF Events
  <1>3. \A j \in Ids : E(j).type = N(j).type /\ E(j).row = N(j).row /\ E(j).vendor = N(j).vendor
    OBVIOUS
  <1>4. \A j \in Ids \ {i} : New(j) = Old(j)
    <2> HIDE DEF E, N
    <2> QED
      BY <1>3
  <1>5. New(i) = [Old(i) EXCEPT !.stage = s]
    <2>1. Stage(i)' = s
      OBVIOUS
    <2> HIDE DEF E, N
    <2> QED
      BY <1>3, <2>1
  <1> HIDE DEF New, Old
  <1> QED
    BY <1>1, <1>2, <1>4, <1>5

(* No stage moves when nothing is marked and nobody's answer comes or goes.*)
LEMMA StagesStay ==
  ASSUME TypeInv, UNCHANGED committed,
         \A j \in Ids : /\ outbox'[j].type = outbox[j].type
                        /\ outbox'[j].row = outbox[j].row
                        /\ outbox'[j].vendor = outbox[j].vendor,
         \A j \in Ids : Stage(j)' = Stage(j)
  PROVE  Events' = Events
  <1> DEFINE E(j) == IF j \in committed THEN outbox[j] ELSE NoEvent
             N(j) == IF j \in committed' THEN outbox'[j] ELSE NoEvent
  <1>1. Events = [j \in Ids |-> [type |-> E(j).type, row |-> E(j).row, vendor |-> E(j).vendor,
                                 stage |-> Stage(j)]]
    BY DEF Events
  <1>2. Events' = [j \in Ids |-> [type |-> N(j).type, row |-> N(j).row, vendor |-> N(j).vendor,
                                  stage |-> Stage(j)']]
    BY DEF Events
  <1>3. \A j \in Ids : E(j).type = N(j).type /\ E(j).row = N(j).row /\ E(j).vendor = N(j).vendor
    OBVIOUS
  <1> HIDE DEF E, N
  <1> QED
    BY <1>1, <1>2, <1>3

(* A commit is a change of its row with the newest event of that row, or a *)
(* link event.                                                             *)
LEMMA CommitTells ==
  ASSUME TypeInv, LockInv, TellInv, DeliveryInv, NEW w \in Writers, Commit(w)
  PROVE  Promise!Next
  <1> SUFFICES ASSUME NEW i, i = tx[w].id
               PROVE  Promise!Next
    OBVIOUS
  <1> DEFINE r == tx[w].row
             e == [type |-> outbox[i].type, row |-> outbox[i].row,
                   vendor |-> outbox[i].vendor, stage |-> "pending"]
  <1>1. /\ tx[w].pc = "open" /\ committed' = committed \cup {i}
        /\ UNCHANGED <<outbox, worker, tuples>>
        /\ row' = IF r \in Rows THEN [row EXCEPT ![r] = tx[w].new] ELSE row
    BY DEF Commit, workerVars
  <1>2. /\ i \in Ids /\ i \notin committed /\ outbox[i].row = r
        /\ tx[w] \in Tx /\ outbox[i] \in Event /\ ~outbox[i].processed
    BY <1>1, OutboxAssumption DEF TypeInv, TypeOK, TxHold, IdleTx, Ids, DeliveryInv, TupleInv
  <1>3. \A k \in Workers : worker[k].id # i
    <2>1. i # 0
      BY <1>2 DEF Ids
    <2> QED
      BY <1>2, <2>1 DEF TypeInv, WorkersHold
  <1>4. \A j \in Ids \ {i} : Stage(j)' = Stage(j)
    BY <1>1 DEF Stage
  <1>5. Stage(i)' = "pending" /\ Stage(i) = "none"
    BY <1>1, <1>2, <1>3 DEF Stage
  <1>6. /\ Events' = [Events EXCEPT ![i] = e]
        /\ Events[i].stage = "none"
        /\ \A j \in Ids : Events[j].stage = Stage(j)
    <2> DEFINE E(j) == IF j \in committed THEN outbox[j] ELSE NoEvent
               N(j) == IF j \in committed' THEN outbox'[j] ELSE NoEvent
    <2>1. Events = [j \in Ids |-> [type |-> E(j).type, row |-> E(j).row,
                                   vendor |-> E(j).vendor, stage |-> Stage(j)]]
      BY DEF Events
    <2>2. Events' = [j \in Ids |-> [type |-> N(j).type, row |-> N(j).row,
                                    vendor |-> N(j).vendor, stage |-> Stage(j)']]
      BY DEF Events
    <2>3. N(i) = outbox[i] /\ \A j \in Ids \ {i} : N(j) = E(j)
      BY <1>1
    <2> HIDE DEF E, N
    <2> QED
      BY <1>2, <1>4, <1>5, <2>1, <2>2, <2>3
  <1>7. \A j \in Ids : Events[j].stage # "none" => j \in committed /\ Events[j].row = outbox[j].row
    BY <1>6 DEF Stage, Events
  <1>8. CASE r \in Rows
    <2>1. \A j \in EventsOf(r) : j < i
      BY <1>8 DEF LockInv
    <2>2. Promise!IsNewest(i, r)
      BY <1>7, <2>1 DEF Promise!IsNewest, EventsOf
    <2>3. /\ outbox[i].type \in {"granted", "revoked"}
          /\ outbox[i].vendor = tx[w].new.vendor /\ outbox[i].vendor \in Vendors
          /\ tx[w].new.status = IF outbox[i].type = "granted" THEN "active" ELSE "revoked"
      BY <1>1, <1>2, <1>8, OutboxAssumption
      DEF LockInv, TellInv, Event, EventTypes, TypeInv, VendorsNamed
    <2>4. CASE outbox[i].type = "granted"
      <3> DEFINE v == outbox[i].vendor
      <3>1. tx[w].new = [status |-> "active", vendor |-> v]
        BY <1>2, <2>3, <2>4 DEF Tx, RowState
      <3>2. e = [type |-> "granted", row |-> r, vendor |-> v, stage |-> "pending"]
        BY <1>2, <2>4
      <3>3. row' = [row EXCEPT ![r] = [status |-> "active", vendor |-> v]]
        BY <1>1, <1>8, <3>1
      <3> HIDE DEF v, e
      <3>4. Promise!Grant(i, r, v)
        BY <1>1, <1>6, <2>2, <3>2, <3>3 DEF Promise!Grant, Promise!Tell
      <3>5. v \in Vendors
        BY <2>3 DEF v
      <3> QED
        BY <1>2, <1>8, <3>4, <3>5 DEF Promise!Next
    <2>5. CASE outbox[i].type = "revoked"
      <3>1. /\ row[r].status = "active"
            /\ tx[w].new = [row[r] EXCEPT !.status = "revoked"]
        BY <1>1, <1>8, <2>5 DEF TellInv
      <3>2. row[r].vendor = outbox[i].vendor
        BY <1>8, <2>3, <3>1 DEF TypeInv, TypeOK, RowState
      <3>3. e = [type |-> "revoked", row |-> r, vendor |-> row[r].vendor, stage |-> "pending"]
        BY <1>2, <2>5, <3>2
      <3>4. row' = [row EXCEPT ![r].status = "revoked"]
        BY <1>1, <1>8, <3>1
      <3> HIDE DEF e
      <3>5. Promise!Revoke(i, r)
        BY <1>1, <1>6, <2>2, <3>1, <3>3, <3>4 DEF Promise!Revoke, Promise!Tell
      <3> QED
        BY <1>2, <1>8, <3>5 DEF Promise!Next
    <2> QED
      BY <2>3, <2>4, <2>5
  <1>9. CASE r \notin Rows
    <2>1. r = NULL /\ row' = row
      BY <1>1, <1>2, <1>9 DEF Tx
    <2>2. outbox[i].type = "link" /\ outbox[i].vendor = NULL
      BY <1>1, <1>9 DEF TellInv
    <2>3. e = [type |-> "link", row |-> NULL, vendor |-> NULL, stage |-> "pending"]
      BY <1>2, <2>1, <2>2
    <2> HIDE DEF e
    <2>4. Promise!Link(i)
      BY <1>1, <1>6, <2>1, <2>3 DEF Promise!Link, Promise!Tell
    <2> QED
      BY <1>2, <2>4 DEF Promise!Next
  <1> QED
    BY <1>8, <1>9

(* A step of a drain moves the one event it claimed, or none.              *)
LEMMA WorkerTells ==
  ASSUME TypeInv, DeliveryInv, NEW k \in Workers, WorkerStep(k)
  PROVE  [Promise!Next]_(Promise!promiseVars)
  <1> SUFFICES ASSUME NEW i, i = worker[k].id
               PROVE  [Promise!Next]_(Promise!promiseVars)
    OBVIOUS
  <1>0. /\ worker \in [Workers -> Worker] /\ outbox \in [Ids -> Event]
        /\ committed \subseteq Ids /\ 0 \notin committed
    BY OutboxAssumption DEF TypeInv, TypeOK, Ids
  <1>1. worker[k].pc \in Holding =>
          /\ i \in committed /\ i \in Ids /\ ~outbox[i].processed
          /\ \A o \in Workers : worker[o].id = i => o = k
    BY <1>0 DEF TypeInv, WorkersHold, DeliveryInv, ClaimExclusive
  <1>2. \A j \in Ids : Events[j].stage = Stage(j)
    BY DEF Events
  <1>3. \A j \in committed : /\ Events[j].type = outbox[j].type
                             /\ Events[j].row = outbox[j].row
                             /\ Events[j].vendor = outbox[j].vendor
    BY <1>0 DEF Events
  <1>4. ASSUME \A o \in Workers : o # k => worker'[o] = worker[o],
               UNCHANGED <<committed, outbox>>
        PROVE  /\ \A j \in Ids \ {i} : worker'[k].id \in {0, i} => Stage(j)' = Stage(j)
               /\ worker[k].pc # "applied" /\ worker'[k].pc # "applied" =>
                    \A j \in Ids : Stage(j)' = Stage(j)
    BY <1>0, <1>4 DEF Stage, Ids
  <1>5. ASSUME \A o \in Workers : o # k => worker'[o] = worker[o],
               worker[k].pc # "applied", worker'[k].pc # "applied",
               UNCHANGED <<row, committed, outbox, tuples>>
        PROVE  UNCHANGED Promise!promiseVars
    <2>1. \A j \in Ids : Stage(j)' = Stage(j)
      BY <1>4, <1>5
    <2>2. Events' = Events
      BY <1>5, <2>1, StagesStay
    <2> QED
      BY <1>5, <2>2 DEF Promise!promiseVars
  <1>6. CASE StartDrain(k) \/ Claim(k) \/ EndDrain(k) \/ MarkFailed(k)
             \/ (Crash(k) /\ worker[k].pc # "applied")
    <2>1. /\ \A o \in Workers : o # k => worker'[o] = worker[o]
          /\ worker[k].pc # "applied" /\ worker'[k].pc # "applied"
          /\ UNCHANGED <<row, committed, outbox, tuples>>
      BY <1>0, <1>6 DEF StartDrain, Claim, EndDrain, MarkFailed, Crash, IdleWorker, dbVars, Worker
    <2> QED
      BY <1>5, <2>1
  <1>7. ASSUME worker[k].pc = "claimed", Deliver(i)
        PROVE  Promise!Write(i)
    <2>1. i \in committed
      BY <1>1, <1>7 DEF Holding
    <2> QED
      BY <1>3, <1>7, <2>1 DEF Promise!Write, Deliver, Written, TupleOf
  <1>8. CASE ApplyOk(k)
    <2>1. /\ worker[k].pc = "claimed" /\ Deliver(i)
          /\ worker'[k].pc = "applied" /\ worker'[k].id = i
          /\ \A o \in Workers : o # k => worker'[o] = worker[o]
          /\ UNCHANGED <<row, committed, outbox>>
      BY <1>0, <1>8 DEF ApplyOk, dbVars, Worker
    <2>2. Stage(i) = "pending" /\ Stage(i)' = "delivered"
      BY <1>1, <2>1 DEF Stage, Holding
    <2>3. i \in Ids
      BY <1>1, <2>1 DEF Holding
    <2>4. \A j \in Ids \ {i} : Stage(j)' = Stage(j)
      BY <1>4, <2>1
    <2>5. Events' = [Events EXCEPT ![i].stage = "delivered"]
      BY <2>1, <2>2, <2>3, <2>4, StageMoves
    <2>6. Promise!Deliver(i)
      BY <1>2, <1>7, <2>1, <2>2, <2>3, <2>5 DEF Promise!Deliver, Promise!Moves
    <2> QED
      BY <2>3, <2>6 DEF Promise!Next
  <1>9. CASE ApplyThrows(k)
    <2>1. /\ worker[k].pc = "claimed"
          /\ worker'[k].pc = "threw" /\ worker'[k].id = i
          /\ \A o \in Workers : o # k => worker'[o] = worker[o]
          /\ UNCHANGED <<row, committed, outbox>>
      BY <1>0, <1>9 DEF ApplyThrows, dbVars, Worker
    <2>2. CASE UNCHANGED <<tuples, lastWrite>>
      BY <1>5, <2>1, <2>2
    <2>3. CASE Deliver(i)
      <3>1. Stage(i) = "pending" /\ Stage(i)' = "pending"
        BY <1>1, <2>1 DEF Stage, Holding
      <3>2. i \in Ids
        BY <1>1, <2>1 DEF Holding
      <3>3. \A j \in Ids \ {i} : Stage(j)' = Stage(j)
        BY <1>4, <2>1
      <3>4. Events' = [Events EXCEPT ![i].stage = "pending"]
        BY <2>1, <3>1, <3>2, <3>3, StageMoves
      <3>5. Promise!DeliverLost(i)
        BY <1>2, <1>7, <2>1, <2>3, <3>1, <3>2, <3>4 DEF Promise!DeliverLost, Promise!Moves
      <3> QED
        BY <3>2, <3>5 DEF Promise!Next
    <2> QED
      BY <1>9, <2>2, <2>3 DEF ApplyThrows
  <1>10. ASSUME worker[k].pc = "applied"
         PROVE  i \in Ids /\ i \in committed /\ i # 0 /\ Stage(i) = "delivered"
    BY <1>0, <1>1, <1>10 DEF Stage, Holding
  <1>11. CASE MarkProcessed(k)
    <2>1. /\ worker[k].pc = "applied" /\ worker'[k].id = 0
          /\ \A o \in Workers : o # k => worker'[o] = worker[o]
          /\ outbox' = [outbox EXCEPT ![i].processed = TRUE]
          /\ UNCHANGED <<row, committed, tuples>>
      BY <1>0, <1>11 DEF MarkProcessed, Marks, Worker
    <2>2. /\ \A j \in Ids : /\ outbox'[j].type = outbox[j].type
                            /\ outbox'[j].row = outbox[j].row
                            /\ outbox'[j].vendor = outbox[j].vendor
          /\ \A j \in Ids \ {i} : outbox'[j] = outbox[j]
          /\ outbox'[i].processed
      BY <1>0, <1>10, <2>1 DEF Event
    <2>3. Stage(i)' = "processed"
      BY <1>10, <2>1, <2>2 DEF Stage
    <2>4. \A j \in Ids \ {i} : Stage(j)' = Stage(j)
      BY <1>0, <2>1, <2>2 DEF Stage, Ids
    <2>5. Events' = [Events EXCEPT ![i].stage = "processed"]
      BY <1>10, <2>1, <2>2, <2>3, <2>4, StageMoves
    <2>6. Promise!Finish(i)
      BY <1>2, <1>10, <2>1, <2>5 DEF Promise!Finish, Promise!Moves
    <2> QED
      BY <1>10, <2>1, <2>6 DEF Promise!Next
  <1>12. CASE Crash(k) /\ worker[k].pc = "applied"
    <2>1. /\ worker'[k].id = 0
          /\ \A o \in Workers : o # k => worker'[o] = worker[o]
          /\ UNCHANGED <<row, committed, outbox, tuples>>
      BY <1>0, <1>12 DEF Crash, IdleWorker, dbVars
    <2>2. Stage(i)' = "pending"
      BY <1>1, <1>10, <1>12, <2>1 DEF Stage, Holding
    <2>3. \A j \in Ids \ {i} : Stage(j)' = Stage(j)
      BY <1>4, <2>1
    <2>4. Events' = [Events EXCEPT ![i].stage = "pending"]
      BY <1>10, <1>12, <2>1, <2>2, <2>3, StageMoves
    <2>5. Promise!Forget(i)
      BY <1>2, <1>10, <1>12, <2>1, <2>4 DEF Promise!Forget, Promise!Moves
    <2> QED
      BY <1>10, <1>12, <2>5 DEF Promise!Next
  <1> QED
    BY <1>6, <1>8, <1>9, <1>11, <1>12 DEF WorkerStep

(* The outbox, with overlapping transactions, concurrent drains, failures  *)
(* and crashes, implements OutboxPromise: row and event change in one      *)
(* step, in id order for each row, pending events alone are delivered, and *)
(* only an answered delivery is marked.                                    *)
THEOREM OutboxIsKept == Spec => OutboxKept
  <1>1. Init => Promise!Init /\ TellInv
    <2> SUFFICES ASSUME Init PROVE Promise!Init /\ TellInv
      OBVIOUS
    <2>1. \A i \in Ids : Stage(i) = "none"
      BY DEF Init, Stage
    <2>2. Events = [i \in Ids |-> [type |-> "link", row |-> NULL, vendor |-> NULL,
                                   stage |-> "none"]]
      BY <2>1 DEF Init, Events, NoEvent
    <2>3. TellInv
      BY DEF Init, TellInv, IdleTx
    <2> QED
      BY <2>2, <2>3 DEF Init, Promise!Init
  <1>2. TypeInv /\ TellInv /\ LockInv /\ [Next]_vars => TellInv'
    BY TellStep
  <1>3. TypeInv /\ DeliveryInv /\ LockInv /\ TellInv /\ [Next]_vars
          => [Promise!Next]_(Promise!promiseVars)
    <2> SUFFICES ASSUME TypeInv, DeliveryInv, LockInv, TellInv, [Next]_vars
                 PROVE  [Promise!Next]_(Promise!promiseVars)
      OBVIOUS
    <2>1. ASSUME NEW w \in Writers, WriterStep(w), ~Commit(w)
          PROVE  UNCHANGED Promise!promiseVars
      <3>1. /\ UNCHANGED <<row, committed, worker, tuples>>
            /\ \A i \in committed : outbox'[i] = outbox[i]
        <4>1. ASSUME NEW r \in Rows \cup {NULL}, NEW new \in RowState, NEW type \in EventTypes,
                     Open(w, r, new, type)
              PROVE  <3>1!:
          <5>1. \A i \in committed : i # nextId /\ i \in Ids
            BY OutboxAssumption DEF TypeInv, TypeOK, Ids
          <5> QED
            BY <4>1, <5>1 DEF Open, workerVars, TypeInv, TypeOK
        <4>2. CASE Rollback(w)
          BY <4>2 DEF Rollback, workerVars
        <4>3. CASE ~Rollback(w)
          <5>1. \/ \E r \in Rows, v \in Vendors : BeginGrant(w, r, v)
                \/ \E r \in Rows : BeginRevoke(w, r)
                \/ BeginLink(w)
            BY <2>1, <4>3 DEF WriterStep
          <5>2. \E r \in Rows \cup {NULL}, new \in RowState, type \in EventTypes : Open(w, r, new, type)
            BY <5>1, Begins
          <5> QED
            BY <4>1, <5>2
        <4> QED
          BY <4>2, <4>3
      <3>2. Events' = Events
        <4> DEFINE E(j) == IF j \in committed THEN outbox[j] ELSE NoEvent
                   N(j) == IF j \in committed' THEN outbox'[j] ELSE NoEvent
        <4>1. \A j \in Ids : Stage(j)' = Stage(j)
          BY <3>1 DEF Stage
        <4>2. \A j \in Ids : N(j) = E(j)
          BY <3>1
        <4>3. Events = [j \in Ids |-> [type |-> E(j).type, row |-> E(j).row,
                                       vendor |-> E(j).vendor, stage |-> Stage(j)]]
          BY DEF Events
        <4>4. Events' = [j \in Ids |-> [type |-> N(j).type, row |-> N(j).row,
                                        vendor |-> N(j).vendor, stage |-> Stage(j)']]
          BY DEF Events
        <4> HIDE DEF E, N
        <4> QED
          BY <4>1, <4>2, <4>3, <4>4
      <3> QED
        BY <3>1, <3>2 DEF Promise!promiseVars
    <2>2. ASSUME UNCHANGED vars
          PROVE  UNCHANGED Promise!promiseVars
      <3>1. UNCHANGED <<row, committed, outbox, worker, tuples>>
        BY <2>2 DEF vars, dbVars, workerVars
      <3>2. \A j \in Ids : Stage(j)' = Stage(j)
        BY <3>1 DEF Stage
      <3>3. Events' = Events
        BY <3>1, <3>2, StagesStay
      <3> QED
        BY <3>1, <3>3 DEF Promise!promiseVars
    <2> QED
      BY <2>1, <2>2, CommitTells, WorkerTells DEF Next
  <1> QED
    BY <1>1, <1>2, <1>3, OutboxTypesHold, OrderHolds, DeliveryHolds, PTL
    DEF Spec, OutboxKept, Promise!Spec

-----------------------------------------------------------------------------
(* A set of ids that is not empty has a last one.                          *)
LEMMA LastExists ==
  ASSUME NEW S \in SUBSET Ids, S # {}
  PROVE  \E i \in S : IsLast(i, S)
  <1> DEFINE T == {MaxEvents - i : i \in S}
  <1>1. MaxEvents \in Nat
    BY OutboxAssumption
  <1>2. T \subseteq Nat /\ T # {}
    <2>1. \A i \in S : MaxEvents - i \in Nat
      BY <1>1 DEF Ids
    <2>2. \E i \in S : MaxEvents - i \in T
      OBVIOUS
    <2> QED
      BY <2>1, <2>2
  <1>3. PICK m \in T : \A k \in T : ~(<<k, m>> \in OpToRel(<, Nat))
    BY <1>2, NatLessThanWellFounded, WFMin
  <1>4. \A k \in T : m <= k
    <2> TAKE k \in T
    <2>1. k \in Nat /\ m \in Nat
      BY <1>2
    <2>2. ~(k < m)
      BY <1>3, <2>1 DEF OpToRel
    <2> QED
      BY <2>1, <2>2
  <1>5. PICK i \in S : m = MaxEvents - i
    OBVIOUS
  <1>6. \A j \in S : MaxEvents - i <= MaxEvents - j
    BY <1>4, <1>5
  <1>7. \A j \in S : j <= i
    BY <1>1, <1>6 DEF Ids
  <1> QED
    BY <1>7 DEF IsLast

(* A link row is of no access row.                                         *)
LinksHold == \A i \in 1..(nextId - 1) : outbox[i].type = "link" => outbox[i].row = NULL

LEMMA LinksNameNoRow == Spec => []LinksHold
  <1>1. Init => LinksHold
    BY DEF Init, LinksHold
  <1>2. TypeInv /\ LinksHold /\ [Next]_vars => LinksHold'
    <2> SUFFICES ASSUME TypeInv, LinksHold, [Next]_vars PROVE LinksHold'
      OBVIOUS
    <2>1. ASSUME NEW w \in Writers, NEW r \in Rows \cup {NULL}, NEW new \in RowState,
                 NEW type \in EventTypes, Open(w, r, new, type), type = "link" => r = NULL
          PROVE  LinksHold'
      <3>1. nextId \in Ids /\ 1..(nextId - 1) \subseteq Ids /\ nextId' = nextId + 1
        BY <2>1, OutboxAssumption DEF Open, TypeInv, TypeOK, Ids
      <3>2. /\ outbox'[nextId].type = type /\ outbox'[nextId].row = r
            /\ \A i \in Ids : i # nextId => outbox'[i] = outbox[i]
        BY <2>1, <3>1 DEF Open, TypeInv, TypeOK
      <3>3. \A i \in 1..(nextId' - 1) : i = nextId \/ (i \in 1..(nextId - 1) /\ i # nextId)
        BY <3>1 DEF Ids
      <3> QED
        BY <2>1, <3>1, <3>2, <3>3 DEF LinksHold
    <2>2. ASSUME nextId' = nextId,
                 \A i \in Ids : outbox'[i].type = outbox[i].type /\ outbox'[i].row = outbox[i].row
          PROVE  LinksHold'
      <3>1. 1..(nextId - 1) \subseteq Ids
        BY OutboxAssumption DEF TypeInv, TypeOK, Ids
      <3> QED
        BY <2>2, <3>1 DEF LinksHold
    <2>3. ASSUME NEW w \in Writers, WriterStep(w) PROVE LinksHold'
      <3>1. CASE Commit(w) \/ Rollback(w)
        BY <2>2, <3>1 DEF Commit, Rollback
      <3>2. CASE \/ \E r \in Rows, v \in Vendors : BeginGrant(w, r, v)
                 \/ \E r \in Rows : BeginRevoke(w, r)
                 \/ BeginLink(w)
        <4>1. \E r \in Rows \cup {NULL}, new \in RowState, type \in EventTypes :
                Open(w, r, new, type) /\ (type = "link" => r = NULL)
          BY <3>2, Begins
        <4> QED
          BY <2>1, <4>1
      <3> QED
        BY <2>3, <3>1, <3>2 DEF WriterStep
    <2>4. ASSUME NEW k \in Workers, MarkProcessed(k) PROVE LinksHold'
      <3>1. \A i \in Ids : outbox'[i].type = outbox[i].type /\ outbox'[i].row = outbox[i].row
        BY <2>4 DEF MarkProcessed, TypeInv, TypeOK, Event
      <3> QED
        BY <2>2, <2>4, <3>1 DEF MarkProcessed
    <2>5. ASSUME NEW k \in Workers, WorkerStep(k), ~MarkProcessed(k) PROVE UNCHANGED dbVars
      BY <2>5 DEF WorkerStep, StartDrain, Claim, EndDrain, ApplyOk, ApplyThrows, MarkFailed, Crash, dbVars
    <2>6. UNCHANGED vars => UNCHANGED dbVars
      BY DEF vars
    <2>7. UNCHANGED dbVars => LinksHold'
      BY <2>2 DEF dbVars
    <2> QED
      BY <2>3, <2>4, <2>5, <2>6, <2>7 DEF Next
  <1> QED
    BY <1>1, <1>2, OutboxTypesHold, PTL DEF Spec

(* An active access row has an event that names its vendor, and it is the  *)
(* last one of the row.                                                    *)
LEMMA ActiveHasEvent ==
  ASSUME TypeInv, LastEventDecides, NEW r \in Rows, row[r].status = "active"
  PROVE  \E i \in EventsOf(r) :
           /\ IsLast(i, EventsOf(r)) /\ outbox[i].type = "granted"
           /\ i \in EventsOn(<<Subject[r], row[r].vendor>>)
  <1>1. EventsOf(r) \in SUBSET Ids /\ EventsOf(r) # {}
    BY DEF EventsOf, TypeInv, TypeOK, LastEventDecides
  <1>2. PICK i \in EventsOf(r) : IsLast(i, EventsOf(r))
    BY <1>1, LastExists
  <1>3. outbox[i].type = "granted" /\ outbox[i].vendor = row[r].vendor
    BY <1>2 DEF LastEventDecides
  <1>4. i \in committed /\ outbox[i].row = r
    BY DEF EventsOf
  <1> QED
    BY <1>2, <1>3, <1>4 DEF EventsOn, TupleOf

(* The graph disagrees with the access rows about a tuple whose events are *)
(* all processed for three causes and no other, however transactions and   *)
(* drains overlap, fail and crash.                                         *)
THEOREM TuplesErrForThreeCauses == Spec => []TuplesErrForACause
  <1>1. TypeInv /\ LinksHold /\ LastEventDecides /\ DeliveryInv /\ ProcessedWasDelivered
          => TuplesErrForACause
    <2> SUFFICES ASSUME TypeInv, LinksHold, LastEventDecides, DeliveryInv, ProcessedWasDelivered,
                        NEW t \in Tuples, \A i \in EventsOn(t) : outbox[i].processed,
                        ~Overtaken(t), ~Replaced(t), ~Shared(t)
                 PROVE  t \in tuples <=>
                          \E r \in Rows : /\ Subject[r] = t[1]
                                          /\ row[r] = [status |-> "active", vendor |-> t[2]]
      BY DEF TuplesErrForACause
    <2>1. /\ \A i \in EventsOn(t) : /\ i \in committed /\ i \in Nat
                                    /\ outbox[i].type \in {"granted", "revoked"}
                                    /\ outbox[i].row \in Rows /\ i \in EventsOf(outbox[i].row)
                                    /\ Subject[outbox[i].row] = t[1] /\ outbox[i].vendor = t[2]
          /\ 0 \notin EventsOn(t)
      <3>1. committed \subseteq Ids /\ outbox \in [Ids -> Event] /\ 0 \notin Ids /\ Ids \subseteq Nat
        BY DEF TypeInv, TypeOK, Ids
      <3>2. \A i \in committed : Named(i)
        BY DEF TypeInv, VendorsNamed
      <3> QED
        BY <3>1, <3>2 DEF EventsOn, TupleOf, EventsOf, Named, Event, EventTypes
    <2>2. \A i, j \in EventsOn(t) : outbox[i].row = outbox[j].row
      BY DEF Shared
    <2>3. CASE t \in tuples
      <3> DEFINE l == lastWrite[t]
                 r == outbox[l].row
      <3>1. l \in EventsOn(t) /\ outbox[l].type = "granted"
        BY <2>3 DEF DeliveryInv, TupleInv
      <3>2. IsLast(l, EventsOn(t))
        BY <2>1, <3>1 DEF Overtaken, IsLast
      <3>3. r \in Rows /\ l \in EventsOf(r) /\ l \in Nat
        BY <2>1, <3>1
      <3>4. ASSUME NEW j \in EventsOf(r) PROVE j <= l
        <4>1. j \in Nat /\ j \in committed /\ outbox[j].row = r
          BY DEF EventsOf, TypeInv, TypeOK, Ids
        <4>2. CASE outbox[j].vendor = t[2]
          <5>1. outbox[j].type # "link"
            BY <3>3, <4>1, OutboxAssumption DEF TypeInv, LinksHold
          <5>2. j \in EventsOn(t)
            BY <2>1, <3>1, <4>1, <4>2, <5>1 DEF EventsOn, TupleOf, Tuples
          <5> QED
            BY <3>2, <5>2 DEF IsLast
        <4>3. CASE outbox[j].vendor # t[2]
          BY <3>1, <3>2, <3>3, <4>1, <4>3 DEF Replaced
        <4> QED
          BY <4>2, <4>3
      <3>5. row[r].status = "active" /\ row[r].vendor = t[2]
        BY <2>1, <3>1, <3>3, <3>4 DEF LastEventDecides, IsLast
      <3>6. row[r] = [status |-> "active", vendor |-> t[2]]
        BY <3>3, <3>5 DEF TypeInv, TypeOK, RowState
      <3> QED
        BY <2>1, <2>3, <3>1, <3>3, <3>6
    <2>4. ASSUME NEW r \in Rows, Subject[r] = t[1],
                 row[r] = [status |-> "active", vendor |-> t[2]]
          PROVE  t \in tuples
      <3>1. row[r].status = "active" /\ t = <<Subject[r], row[r].vendor>>
        BY <2>4 DEF Tuples
      <3>2. PICK i \in EventsOf(r) : /\ IsLast(i, EventsOf(r)) /\ outbox[i].type = "granted"
                                     /\ i \in EventsOn(t)
        BY <3>1, ActiveHasEvent
      <3>3. lastWrite[t] \in EventsOn(t)
        BY <3>2 DEF ProcessedWasDelivered
      <3>4. outbox[i].row = r
        BY DEF EventsOf
      <3>5. lastWrite[t] \in EventsOf(r)
        BY <2>1, <2>2, <3>2, <3>3, <3>4
      <3>6. lastWrite[t] <= i /\ ~(lastWrite[t] < i)
        BY <3>2, <3>3, <3>5 DEF IsLast, Overtaken
      <3>7. lastWrite[t] = i /\ i # 0
        BY <2>1, <3>2, <3>3, <3>6
      <3> QED
        BY <3>2, <3>7 DEF DeliveryInv, TupleInv
    <2> QED
      BY <2>3, <2>4
  <1> QED
    BY <1>1, OutboxTypesHold, LinksNameNoRow, LastEventsDecide, DeliveryHolds,
       ProcessedAreDelivered, PTL

=============================================================================
