---------------------------- MODULE ResidentProofs ----------------------------
(***************************************************************************)
(* A view of a table kept in memory, proved for every set of rows and      *)
(* callers and every bound: its types and locks, that it lists the rows of *)
(* the table once nothing is under way and shows their records, and that   *)
(* one circle of locks is the only one.                                    *)
(*                                                                         *)
(* Callers, commits and the task that follows them come to the view in any *)
(* order, so the argument is about what the task has yet to hear.  The     *)
(* last event about a row is true of it and a deletion is always told      *)
(* (Telling): a row without events to come is in the view if it is in the  *)
(* table, and only then, but for one that a push has just put there        *)
(* (Members).  An entry is not behind the table unless an update or a      *)
(* deletion is still to come (Fitting): between two events of a row that   *)
(* both insert it is a deletion.  Nor is it ahead of the table, by more    *)
(* than the update that has its lock, unless a deletion is to come or an   *)
(* update was refused or made from another revision (NoneNewer).           *)
(***************************************************************************)
EXTENDS Resident, SequenceTheorems, FiniteSetTheorems, TLAPS

-----------------------------------------------------------------------------
(* The inductive invariant.                                                *)

\* A row that keeps its id has the one that it began with.
Plain(id) == id[1] \notin Temporal

\* The records made so far: their revisions and values are bounded by the calls.
Known == {r \in Record : /\ r.rev <= ops + 1 /\ r.val <= ops
                         /\ Plain(r.id) => r.id = First(r.id[1])}

\* It has the write transaction.
Writes(t) == thread[t].pc \in {"push", "commit"}

\* What threads hold: cells there are, values given out, rows not yet in the table.
Threaded ==
  /\ thread = [t \in Threads |-> thread[t]]
  /\ \A t \in Threads :
       /\ thread[t].pc \in {"idle", "update", "push", "commit", "look", "remove"}
       /\ thread[t].pc \in {"update", "commit", "look"} => thread[t].cell \in DOMAIN cells
       /\ thread[t].pc = "update" => thread[t].val \in 1..ops
       /\ Writes(t) => /\ thread[t].record \in Known /\ thread[t].record.rev = 1
                       /\ thread[t].record.id \notin DOMAIN stored
       /\ thread[t].pc = "remove" => thread[t].id \in Id

\* One writer, one holder of a lock.
Locks ==
  /\ \A t, u \in Threads : Writes(t) /\ Writes(u) => t = u
  /\ \A t, u \in Waiting : thread[t].cell = thread[u].cell => t = u
  /\ task # Idle => ~ViewRead

\* The table has each record under its id.
Table ==
  /\ DOMAIN stored \subseteq Id
  /\ \A i \in DOMAIN stored : stored[i] \in Known /\ stored[i].id = i
  /\ mayWrite \in BOOLEAN /\ missed \subseteq Rows
  /\ ops \in 0..MaxOps /\ drops \in 0..MaxDrops

\* The cells of the view are records of their rows, each of one row.
Cells ==
  /\ cells \in Seq(Record) /\ \A c \in DOMAIN cells : cells[c] \in Known
  /\ handles \subseteq DOMAIN cells
  /\ DOMAIN view \subseteq Id
  /\ \A i \in DOMAIN view :
       /\ view[i] \in DOMAIN cells /\ cells[view[i]].id[1] = i[1]
       /\ Plain(i) => i = First(i[1])
  /\ \A i, j \in DOMAIN view : view[i] = view[j] => i = j

\* Events come while the watch is set, and the task has an entry to look at.
Queued ==
  /\ watch \in {"unset", "set", "ended"}
  /\ watch # "set" => events = <<>> /\ task = Idle
  /\ watch = "unset" => \A t \in Threads : thread[t].pc = "idle"
  /\ events \in Seq(Event) /\ \A k \in DOMAIN events : events[k].record \in Known
  /\ task # Idle => /\ task.event \in Event /\ task.event.record \in Known
                    /\ task.event.kind # "delete" /\ task.event.record.id \in DOMAIN view

\* What an event says is so in the table.
Told(e) ==
  IF e.kind = "delete" THEN e.record.id \notin DOMAIN stored
  ELSE /\ e.record.id \in DOMAIN stored
       /\ Plain(e.record.id) => stored[e.record.id] = e.record

About(k, id) == events[k].record.id = id
InTask(id)   == task # Idle /\ task.event.record.id = id
Pending(id)  == InTask(id) \/ \E k \in DOMAIN events : About(k, id)

\* The last event about a row tells the truth, and a deletion is always told.
Truthful ==
  /\ \A k \in DOMAIN events :
       (\A j \in DOMAIN events : j > k => ~About(j, events[k].record.id)) => Told(events[k])
  /\ task # Idle /\ (\A j \in DOMAIN events : ~About(j, task.event.record.id)) => Told(task.event)

Deletes(m, id) == m \in DOMAIN events /\ About(m, id) /\ events[m].kind = "delete"

DeletesAreTold ==
  \A id \in Id \ DOMAIN stored :
    /\ \A k \in DOMAIN events : About(k, id) => \E m \in DOMAIN events : m >= k /\ Deletes(m, id)
    /\ InTask(id) => \E m \in DOMAIN events : Deletes(m, id)

\* Between two events, of which the second inserts, is a deletion.
Alternate ==
  \A k \in DOMAIN events : LET id == events[k].record.id IN
    events[k].kind = "insert" /\ Plain(id) =>
      /\ \A j \in DOMAIN events : j < k /\ About(j, id) =>
           \E m \in DOMAIN events : j <= m /\ m < k /\ Deletes(m, id)
      /\ InTask(id) => \E m \in DOMAIN events : m < k /\ Deletes(m, id)

\* An entry is as new as record r, and is r if it is not newer.
Fits(r) ==
  LET cell == cells[view[r.id]] IN
  cell.rev >= r.rev /\ (cell.rev = r.rev => cell.val = r.val)

Committing(t, id) == thread[t].pc = "commit" /\ thread[t].record.id = id

\* Without events to come the view is right, but for a row that is being pushed.
Members ==
  \A id \in Id : id[1] \notin missed /\ ~Pending(id) =>
    /\ id \in DOMAIN stored => id \in DOMAIN view
    /\ id \in DOMAIN view \ DOMAIN stored =>
         \E t \in Threads : Committing(t, id) /\ (Plain(id) => Fits(thread[t].record))

OnlyInserts(id) ==
  /\ InTask(id) => task.event.kind = "insert"
  /\ \A k \in DOMAIN events : About(k, id) => events[k].kind = "insert"

\* An insertion that is still to come brings nothing new.
Fitting ==
  \A id \in DOMAIN stored \cap DOMAIN view :
    Plain(id) /\ id[1] \notin missed /\ OnlyInserts(id) => Fits(stored[id])

Shapes == Table /\ Cells /\ Threaded /\ Locks /\ Queued
Telling == Truthful /\ DeletesAreTold /\ Alternate
ViewInv == Shapes /\ Telling /\ (watch # "ended" => Members /\ Fitting)

-----------------------------------------------------------------------------
(* Records, tables and the queue of events.                                *)

LEMMA RecordIs ==
  ASSUME NEW r \in Record
  PROVE  /\ r.id \in Id /\ r.rev \in Nat /\ r.rev \in 1..(MaxOps + 1)
         /\ r.val \in Nat /\ r.val \in 0..MaxOps
         /\ r.id[1] \in Rows /\ r.id[2] \in 0..MaxOps
BY ResidentAssumption DEF Record, Id

LEMMA NewRecordIs ==
  ASSUME NEW row \in Rows, NEW v \in 0..MaxOps
  PROVE  /\ NewRecord(row, v) \in Record
         /\ NewRecord(row, v).id = First(row) /\ NewRecord(row, v).rev = 1
         /\ NewRecord(row, v).val = v
         /\ First(row) \in Id /\ First(row)[1] = row
BY ResidentAssumption DEF NewRecord, Record, Id, First

LEMMA LessIs ==
  ASSUME NEW f, NEW i
  PROVE  /\ DOMAIN Less(f, i) = DOMAIN f \ {i}
         /\ \A j \in DOMAIN f \ {i} : Less(f, i)[j] = f[j]
BY DEF Less

\* Calls are counted, and what was known stays known.
LEMMA Counted ==
  ASSUME Shapes, NEW k \in {ops, ops + 1}, ops' = k, k <= MaxOps
  PROVE  /\ ops \in Nat /\ ops' \in Nat /\ ops' \in 0..MaxOps /\ Known \subseteq Known'
         /\ \A v \in 1..ops : v \in 1..ops'
BY ResidentAssumption, RecordIs DEF Shapes, Table, Known

LEMMA KnownIsRecord == Known \subseteq Record /\ \A r \in Known : r \in Record
BY DEF Known

LEMMA EventIs ==
  ASSUME NEW e \in Event
  PROVE  e.record \in Record /\ e.kind \in {"insert", "update", "delete"} /\ e.record.id \in Id
BY RecordIs DEF Event

LEMMA Positions ==
  ASSUME Shapes
  PROVE  /\ Len(events) \in Nat /\ DOMAIN events = 1..Len(events)
         /\ \A k \in DOMAIN events : events[k] \in Event /\ k \in Nat
         /\ Len(cells) \in Nat /\ DOMAIN cells = 1..Len(cells)
<1>1. events \in Seq(Event) /\ cells \in Seq(Record)
  BY DEF Shapes, Queued, Cells
<1>2. /\ Len(events) \in Nat /\ DOMAIN events = 1..Len(events)
      /\ Len(cells) \in Nat /\ DOMAIN cells = 1..Len(cells)
  BY <1>1, LenProperties
<1> QED
  BY <1>1, <1>2, ElementOfSeq

\* What the view's task sees of a commit comes after what it has yet to see.
LEMMA Seeing ==
  ASSUME Shapes, NEW seen \in Seq(Event), See(seen), watch = "set"
  PROVE  /\ events' \in Seq(Event) /\ missed' = missed
         /\ DOMAIN events \subseteq DOMAIN events'
         /\ \A k \in DOMAIN events : events'[k] = events[k]
         /\ \A j \in DOMAIN seen :
              /\ Len(events) + j \in DOMAIN events' /\ events'[Len(events) + j] = seen[j]
         /\ \A k \in DOMAIN events' \ DOMAIN events :
              k - Len(events) \in DOMAIN seen /\ k > Len(events)
<1>1. events \in Seq(Event) /\ events' = events \o seen /\ missed' = missed
  BY DEF See, Shapes, Queued
<1>2. /\ Len(events) \in Nat /\ DOMAIN events = 1..Len(events)
      /\ Len(seen) \in Nat /\ DOMAIN seen = 1..Len(seen)
  BY <1>1, LenProperties
<1>3. /\ events' \in Seq(Event) /\ Len(events') = Len(events) + Len(seen)
      /\ \A k \in 1..Len(events) + Len(seen) :
           events'[k] = IF k <= Len(events) THEN events[k] ELSE seen[k - Len(events)]
  BY <1>1, ConcatProperties
<1>4. DOMAIN events' = 1..(Len(events) + Len(seen))
  BY <1>3, LenProperties
<1>5. \A k \in DOMAIN events : k \in DOMAIN events' /\ events'[k] = events[k]
  BY <1>2, <1>3, <1>4
<1>6. \A j \in DOMAIN seen : Len(events) + j \in DOMAIN events' /\ events'[Len(events) + j] = seen[j]
  BY <1>2, <1>3, <1>4
<1>7. \A k \in DOMAIN events' \ DOMAIN events : k - Len(events) \in DOMAIN seen /\ k > Len(events)
  BY <1>2, <1>4
<1> QED
  BY <1>1, <1>3, <1>5, <1>6, <1>7

-----------------------------------------------------------------------------
(* Steps that leave the table, the queue and the task's event as they are. *)

LEMMA TellingStays ==
  ASSUME Telling, UNCHANGED <<stored, events, task>>
  PROVE  Telling'
BY DEF Telling, Truthful, DeletesAreTold, Alternate, Told, About, InTask, Deletes

LEMMA ViewStays ==
  ASSUME Members, Fitting, UNCHANGED <<stored, events, task, cells, view, missed>>,
         \A t \in Threads : thread[t].pc = "commit" => thread'[t] = thread[t]
  PROVE  Members' /\ Fitting'
<1>1. Members'
  <2> SUFFICES ASSUME NEW id \in Id, id[1] \notin missed, ~Pending(id)'
               PROVE  /\ id \in DOMAIN stored => id \in DOMAIN view
                      /\ id \in DOMAIN view \ DOMAIN stored =>
                           \E t \in Threads : (Committing(t, id) /\ (Plain(id) => Fits(thread[t].record)))'
    BY DEF Members
  <2>1. ~Pending(id)
    BY DEF Pending, InTask, About
  <2>2. \A t \in Threads : Committing(t, id) /\ (Plain(id) => Fits(thread[t].record))
                             => (Committing(t, id) /\ (Plain(id) => Fits(thread[t].record)))'
    BY DEF Committing, Fits
  <2> QED
    BY <2>1, <2>2 DEF Members
<1>2. Fitting'
  BY DEF Fitting, OnlyInserts, InTask, About, Fits
<1> QED
  BY <1>1, <1>2

-----------------------------------------------------------------------------
(* The steps of a thread that only it can see.                             *)

\* A thread goes from one stage to another that no lock and no commit depends on.
LEMMA ThreadMoves ==
  ASSUME ViewInv, NEW t \in Threads, NEW next,
         UNCHANGED <<stored, events, watch, missed, cells, view, task, handles, drops>>,
         mayWrite' \in BOOLEAN, ops' \in {ops, ops + 1}, ops' <= MaxOps,
         thread' = [thread EXCEPT ![t] = next], watch # "unset",
         thread[t].pc # "commit",
         next.pc \in {"idle", "push", "look", "remove"},
         next.pc = "look" => next.cell \in DOMAIN cells /\ task = Idle,
         next.pc = "remove" => next.id \in Id,
         next.pc = "push" => /\ next.record \in Known' /\ next.record.rev = 1
                             /\ next.record.id \notin DOMAIN stored /\ ~Writing
  PROVE  ViewInv'
<1> USE DEF ViewInv
<1>1. Known \subseteq Known' /\ ops' \in 0..MaxOps /\ \A v \in 1..ops : v \in 1..ops'
  <2>1. PICK k : k = ops'
    OBVIOUS
  <2> QED
    BY <2>1, Counted
<1>2. /\ thread' = [u \in Threads |-> IF u = t THEN next ELSE thread[u]]
      /\ thread'[t] = next /\ \A u \in Threads \ {t} : thread'[u] = thread[u]
  BY DEF Shapes, Threaded
<1>3. Table'
  BY <1>1 DEF Shapes, Table
<1>4. Cells'
  BY <1>1 DEF Shapes, Cells
<1>5. Threaded'
  <2>1. thread' = [u \in Threads |-> thread'[u]]
    BY <1>2
  <2>2. ASSUME NEW u \in Threads
        PROVE  (/\ thread[u].pc \in {"idle", "update", "push", "commit", "look", "remove"}
                /\ thread[u].pc \in {"update", "commit", "look"} => thread[u].cell \in DOMAIN cells
                /\ thread[u].pc = "update" => thread[u].val \in 1..ops
                /\ Writes(u) => /\ thread[u].record \in Known /\ thread[u].record.rev = 1
                                /\ thread[u].record.id \notin DOMAIN stored
                /\ thread[u].pc = "remove" => thread[u].id \in Id)'
    <3>1. CASE u = t
      BY <1>2, <3>1 DEF Writes
    <3>2. CASE u # t
      BY <1>1, <1>2, <3>2 DEF Shapes, Threaded, Writes
    <3> QED
      BY <3>1, <3>2
  <2> QED
    BY <2>1, <2>2 DEF Threaded
<1>6. Locks'
  <2>1. \A u, w \in Threads : (Writes(u) /\ Writes(w))' => u = w
    BY <1>2 DEF Shapes, Locks, Writes, Writing
  <2>2. \A u, w \in Waiting' : thread'[u].cell = thread'[w].cell => u = w
    BY <1>2 DEF Shapes, Locks, Waiting
  <2>3. task' # Idle => ~ViewRead'
    BY <1>2 DEF Shapes, Locks, ViewRead
  <2> QED
    BY <2>1, <2>2, <2>3 DEF Locks
<1>7. Queued'
  BY <1>1 DEF Shapes, Queued
<1>8. Telling'
  BY TellingStays
<1>9. watch' # "ended" => Members' /\ Fitting'
  BY <1>2, ViewStays
<1> QED
  BY <1>3, <1>4, <1>5, <1>6, <1>7, <1>8, <1>9 DEF Shapes

LEMMA RefuseUpdateKeepsView ==
  ASSUME ViewInv, NEW t \in Threads, RefuseUpdate(t)
  PROVE  ViewInv'
<1>1. /\ thread' = [thread EXCEPT ![t] = Idle] /\ thread[t].pc = "update"
      /\ UNCHANGED <<stored, events, watch, missed, cells, view, task, handles, drops, mayWrite, ops>>
  BY DEF RefuseUpdate, Rest, Waiting, watchVars
<1>2. mayWrite' \in BOOLEAN /\ ops' \in {ops, ops + 1} /\ ops' <= MaxOps /\ watch # "unset"
  BY <1>1, ResidentAssumption DEF ViewInv, Shapes, Table, Queued
<1>3. PICK next : next = Idle
  OBVIOUS
<1>4. next.pc = "idle" /\ thread' = [thread EXCEPT ![t] = next]
  BY <1>1, <1>3 DEF Idle
<1>5. /\ thread[t].pc # "commit"
      /\ UNCHANGED <<stored, events, watch, missed, cells, view, task, handles, drops>>
  BY <1>1
<1> QED
  BY <1>2, <1>4, <1>5, ThreadMoves

LEMMA BeginPushKeepsView ==
  ASSUME ViewInv, NEW t \in Threads, NEW row \in Rows, BeginPush(t, row)
  PROVE  ViewInv'
<1>1. PICK r : r = NewRecord(row, ops + 1)
  OBVIOUS
<1>2. /\ thread' = [thread EXCEPT ![t] = [pc |-> "push", record |-> r]]
      /\ ops < MaxOps /\ ops' = ops + 1 /\ watch # "unset" /\ thread[t] = Idle /\ ~Writing
      /\ \A i \in DOMAIN stored : i[1] # row
      /\ UNCHANGED <<stored, events, watch, missed, cells, view, task, handles, drops, mayWrite>>
  BY <1>1 DEF BeginPush, Called, watchVars, viewVars
<1>3. mayWrite' \in BOOLEAN /\ ops' \in {ops, ops + 1} /\ ops' <= MaxOps /\ ops \in Nat
  BY <1>2, ResidentAssumption DEF ViewInv, Shapes, Table
<1>4. r \in Known' /\ r.rev = 1 /\ r.id \notin DOMAIN stored
  <2>1. /\ r \in Record /\ r.id = First(row) /\ r.rev = 1 /\ r.val = ops + 1 /\ r.id[1] = row
    BY <1>1, <1>2, <1>3, NewRecordIs, ResidentAssumption
  <2> QED
    BY <1>2, <1>3, <2>1 DEF Known
<1>5. PICK next : next = [pc |-> "push", record |-> r]
  OBVIOUS
<1>6. /\ next.pc = "push" /\ next.record = r /\ thread' = [thread EXCEPT ![t] = next]
      /\ thread[t].pc # "commit"
      /\ UNCHANGED <<stored, events, watch, missed, cells, view, task, handles, drops>>
  BY <1>2, <1>5 DEF Idle
<1>7. watch # "unset" /\ ~Writing
  BY <1>2
<1>8. next.record \in Known' /\ next.record.rev = 1 /\ next.record.id \notin DOMAIN stored
  BY <1>4, <1>6
<1>9. next.pc \in {"idle", "push", "look", "remove"} /\ next.pc # "look" /\ next.pc # "remove"
  BY <1>6
<1> QED
  BY <1>3, <1>6, <1>7, <1>8, <1>9, ThreadMoves

LEMMA BeginRemoveKeepsView ==
  ASSUME ViewInv, NEW t \in Threads, NEW id \in DOMAIN view, BeginRemove(t, id)
  PROVE  ViewInv'
<1>1. PICK next : next = [pc |-> "look", cell |-> view[id]]
  OBVIOUS
<1>2. /\ thread' = [thread EXCEPT ![t] = next] /\ task = Idle
      /\ ops < MaxOps /\ ops' = ops + 1 /\ watch # "unset" /\ thread[t] = Idle
      /\ UNCHANGED <<stored, events, watch, missed, cells, view, task, handles, drops, mayWrite>>
  BY <1>1 DEF BeginRemove, Called, watchVars, viewVars, ViewWritten
<1>3. mayWrite' \in BOOLEAN /\ ops' \in {ops, ops + 1} /\ ops' <= MaxOps
  BY <1>2, ResidentAssumption DEF ViewInv, Shapes, Table
<1>4. next.pc = "look" /\ next.cell \in DOMAIN cells
  BY <1>1 DEF ViewInv, Shapes, Cells
<1>5. thread[t].pc # "commit" /\ watch # "unset" /\ thread' = [thread EXCEPT ![t] = next]
  BY <1>2 DEF Idle
<1>6. UNCHANGED <<stored, events, watch, missed, cells, view, task, handles, drops>>
  BY <1>2
<1>7. next.pc \in {"idle", "push", "look", "remove"} /\ task = Idle
  BY <1>2, <1>4
<1> QED
  BY <1>3, <1>4, <1>5, <1>6, <1>7, ThreadMoves

LEMMA ReadToRemoveKeepsView ==
  ASSUME ViewInv, NEW t \in Threads, ReadToRemove(t)
  PROVE  ViewInv'
<1>1. PICK next : next = IF mayWrite THEN [pc |-> "remove", id |-> cells[thread[t].cell].id] ELSE Idle
  OBVIOUS
<1>2. /\ thread' = [thread EXCEPT ![t] = next] /\ thread[t].pc = "look"
      /\ UNCHANGED <<stored, events, watch, missed, cells, view, task, handles, drops, mayWrite, ops>>
  BY <1>1 DEF ReadToRemove, watchVars, viewVars
<1>3. mayWrite' \in BOOLEAN /\ ops' \in {ops, ops + 1} /\ ops' <= MaxOps /\ watch # "unset"
  BY <1>2, ResidentAssumption DEF ViewInv, Shapes, Table, Queued
<1>4. cells[thread[t].cell].id \in Id
  BY <1>2, RecordIs, KnownIsRecord DEF ViewInv, Shapes, Threaded, Cells
<1>5. next.pc \in {"idle", "remove"} /\ (next.pc = "remove" => next.id \in Id)
  BY <1>1, <1>4 DEF Idle
<1> QED
  BY <1>2, <1>3, <1>5, ThreadMoves

LEMMA ChangeHandsKeepsView ==
  ASSUME ViewInv, ChangeHands
  PROVE  ViewInv'
<1>1. /\ UNCHANGED <<stored, events, watch, missed, cells, view, thread, task, handles, drops>>
      /\ mayWrite' \in BOOLEAN /\ ops' = ops + 1 /\ ops < MaxOps
  BY DEF ChangeHands, Called, watchVars, viewVars, ViewInv, Shapes, Table
<1>2. Known \subseteq Known' /\ ops' \in 0..MaxOps /\ \A v \in 1..ops : v \in 1..ops'
  BY <1>1, Counted, ResidentAssumption DEF ViewInv, Shapes, Table
<1>3. Table' /\ Cells' /\ Queued'
  BY <1>1, <1>2 DEF ViewInv, Shapes, Table, Cells, Queued
<1>4. Threaded' /\ Locks'
  BY <1>1, <1>2 DEF ViewInv, Shapes, Threaded, Locks, Writes, Waiting, ViewRead
<1>5. Telling' /\ (watch' # "ended" => Members' /\ Fitting')
  BY <1>1, TellingStays, ViewStays DEF ViewInv
<1> QED
  BY <1>3, <1>4, <1>5 DEF ViewInv, Shapes

LEMMA SetWatchKeepsView ==
  ASSUME ViewInv, SetWatch
  PROVE  ViewInv'
<1>1. /\ UNCHANGED <<stored, events, missed, cells, view, thread, task, handles, mayWrite, ops, drops>>
      /\ watch = "unset" /\ watch' = "set"
  BY DEF SetWatch, viewVars
<1>2. Table' /\ Cells' /\ Queued'
  BY <1>1 DEF ViewInv, Shapes, Table, Cells, Queued, Known
<1>3. Threaded' /\ Locks'
  BY <1>1 DEF ViewInv, Shapes, Threaded, Locks, Writes, Waiting, ViewRead, Known
<1>4. Telling' /\ Members' /\ Fitting'
  BY <1>1, TellingStays, ViewStays DEF ViewInv
<1> QED
  BY <1>2, <1>3, <1>4 DEF ViewInv, Shapes

LEMMA DropCloneKeepsView ==
  ASSUME ViewInv, DropClone
  PROVE  ViewInv'
<1>1. /\ UNCHANGED <<stored, missed, cells, view, thread, task, handles, mayWrite, ops>>
      /\ drops < MaxDrops /\ drops' = drops + 1
      /\ watch # "unset" /\ task = Idle /\ watch' = "ended" /\ events' = <<>>
  BY DEF DropClone, viewVars
<1>2. Table' /\ Cells'
  BY <1>1, ResidentAssumption DEF ViewInv, Shapes, Table, Cells, Known
<1>3. Queued'
  <2>1. events' \in Seq(Event) /\ DOMAIN events' = {}
    BY <1>1, EmptySeq, LenProperties
  <2> QED
    BY <1>1, <2>1 DEF ViewInv, Shapes, Queued
<1>4. Threaded' /\ Locks'
  BY <1>1 DEF ViewInv, Shapes, Threaded, Locks, Writes, Waiting, ViewRead, Known
<1>5. Telling'
  BY <1>1 DEF ViewInv, Telling, Truthful, DeletesAreTold, Alternate, InTask
<1> QED
  BY <1>1, <1>2, <1>3, <1>4, <1>5 DEF ViewInv, Shapes

-----------------------------------------------------------------------------
(* Commits: what they add to the queue.                                    *)

IsSeen(seen, id) == \E k \in DOMAIN seen : seen[k].record.id = id

\* A commit tells what it has made of the rows it is about, and of no other.
Publishes(seen) ==
  /\ seen \in Seq(Event) /\ See(seen) /\ UNCHANGED <<watch, task, view>>
  /\ \A k \in DOMAIN seen : seen[k].record \in Known' /\ Told(seen[k])'
  /\ \A id \in Id : ~IsSeen(seen, id) =>
       /\ id \in DOMAIN stored' <=> id \in DOMAIN stored
       /\ id \in DOMAIN stored => stored'[id] = stored[id]
  /\ \A k \in DOMAIN seen : seen[k].kind = "insert" /\ Plain(seen[k].record.id) =>
       seen[k].record.id \notin DOMAIN stored /\ DOMAIN seen = {1}

LEMMA PublishedIsTold ==
  ASSUME Shapes, Telling, NEW seen, Publishes(seen)
  PROVE  Telling'
<1>1. CASE watch # "set"
  <2>1. events = <<>> /\ events' = <<>> /\ task = Idle /\ task' = Idle
    BY <1>1 DEF Shapes, Queued, Publishes, See
  <2> QED
    BY <2>1 DEF Telling, Truthful, DeletesAreTold, Alternate, InTask
<1>2. CASE watch = "set"
  <2>1. /\ DOMAIN events \subseteq DOMAIN events'
        /\ \A k \in DOMAIN events : events'[k] = events[k]
        /\ \A j \in DOMAIN seen : Len(events) + j \in DOMAIN events' /\ events'[Len(events) + j] = seen[j]
        /\ \A k \in DOMAIN events' \ DOMAIN events : k - Len(events) \in DOMAIN seen /\ k > Len(events)
        /\ events' \in Seq(Event) /\ seen \in Seq(Event) /\ task' = task
    BY <1>2, Seeing DEF Publishes
  <2>2. /\ DOMAIN events' = 1..Len(events') /\ Len(events') \in Nat
        /\ DOMAIN seen = 1..Len(seen) /\ Len(seen) \in Nat
    BY <2>1, LenProperties
  <2>3. /\ Len(events) \in Nat /\ DOMAIN events = 1..Len(events)
        /\ \A k \in DOMAIN events : k \in Nat /\ events[k] \in Event
    BY Positions
  <2>4. \A k \in DOMAIN events' \ DOMAIN events : events'[k] = seen[k - Len(events)]
    BY <2>1, <2>2, <2>3
  <2>5. ASSUME NEW e \in Event, ~IsSeen(seen, e.record.id), Told(e) PROVE Told(e)'
    BY <2>5, EventIs DEF Publishes, Told
  <2>6. Truthful'
    <3>1. ASSUME NEW k \in DOMAIN events', NEW e, e = events'[k],
                 \A j \in DOMAIN events' : j > k => ~About(j, e.record.id)'
          PROVE  Told(e)'
      <4>1. CASE k \notin DOMAIN events
        BY <2>1, <2>4, <3>1, <4>1 DEF Publishes
      <4>2. CASE k \in DOMAIN events
        <5>1. e = events[k] /\ e \in Event
          BY <2>1, <2>3, <3>1, <4>2
        <5>2. \A j \in DOMAIN events : j > k => ~About(j, e.record.id)
          BY <2>1, <3>1 DEF About
        <5>3. \A j \in DOMAIN seen : Len(events) + j > k
          BY <2>2, <2>3, <4>2
        <5>4. ~IsSeen(seen, e.record.id)
          BY <2>1, <3>1, <5>3 DEF About, IsSeen
        <5> QED
          BY <2>5, <4>2, <5>1, <5>2, <5>4 DEF Telling, Truthful
      <4> QED
        BY <4>1, <4>2
    <3>2. ASSUME NEW e, e = task.event, task # Idle,
                 \A j \in DOMAIN events' : ~About(j, e.record.id)'
          PROVE  Told(e)'
      <4>1. \A j \in DOMAIN events : ~About(j, e.record.id)
        BY <2>1, <3>2 DEF About
      <4>2. ~IsSeen(seen, e.record.id)
        BY <2>1, <3>2 DEF About, IsSeen
      <4>3. e \in Event /\ Told(e)
        BY <3>2, <4>1 DEF Telling, Truthful, Shapes, Queued
      <4> QED
        BY <2>5, <4>2, <4>3
    <3>3. ASSUME task' # Idle, \A j \in DOMAIN events' : (~About(j, task.event.record.id))'
          PROVE  (Told(task.event))'
      <4>1. PICK e : e = task.event
        OBVIOUS
      <4>2. task' = task /\ task # Idle /\ \A j \in DOMAIN events' : ~About(j, e.record.id)'
        BY <2>1, <3>3, <4>1
      <4>3. Told(e)'
        BY <3>2, <4>1, <4>2
      <4> QED
        BY <4>1, <4>2, <4>3
    <3>4. ASSUME NEW k \in DOMAIN events',
                 \A j \in DOMAIN events' : j > k => (~About(j, events[k].record.id))'
          PROVE  (Told(events[k]))'
      <4>1. PICK e : e = events'[k]
        OBVIOUS
      <4>2. Told(e)'
        BY <3>1, <3>4, <4>1
      <4> QED
        BY <4>1, <4>2
    <3> QED
      BY <3>3, <3>4 DEF Truthful
  <2>7. DeletesAreTold'
    <3> SUFFICES ASSUME NEW id \in Id \ DOMAIN stored'
                 PROVE  /\ \A k \in DOMAIN events' : About(k, id)' =>
                             \E m \in DOMAIN events' : m >= k /\ Deletes(m, id)'
                        /\ InTask(id)' => \E m \in DOMAIN events' : Deletes(m, id)'
      BY DEF DeletesAreTold
    <3>1. \A j \in DOMAIN seen : seen[j].record.id = id => seen[j].kind = "delete"
      BY DEF Publishes, Told
    <3>2. \A m \in DOMAIN events : Deletes(m, id) => m \in DOMAIN events' /\ Deletes(m, id)'
      BY <2>1 DEF Deletes, About
    <3>3. CASE ~IsSeen(seen, id)
      <4>1. id \in Id \ DOMAIN stored
        BY <3>3 DEF Publishes
      <4>2. \A k \in DOMAIN events' : About(k, id)' => k \in DOMAIN events /\ About(k, id)
        BY <2>1, <2>4, <3>3 DEF About, IsSeen
      <4>3. InTask(id)' => InTask(id)
        BY <2>1 DEF InTask
      <4> QED
        BY <3>2, <4>1, <4>2, <4>3 DEF Telling, DeletesAreTold
    <3>4. CASE IsSeen(seen, id)
      <4>1. PICK j \in DOMAIN seen : seen[j].record.id = id
        BY <3>4 DEF IsSeen
      <4>2. PICK m : m = Len(events) + j
        OBVIOUS
      <4>3. m \in DOMAIN events' /\ events'[m] = seen[j] /\ seen[j].kind = "delete"
        BY <2>1, <3>1, <4>1, <4>2
      <4>4. Deletes(m, id)'
        BY <4>1, <4>3 DEF Deletes, About
      <4>5. \A k \in DOMAIN events : m >= k
        BY <2>2, <2>3, <4>1, <4>2
      <4>6. \A k \in DOMAIN events' \ DOMAIN events : About(k, id)' => Deletes(k, id)' /\ k >= k
        BY <2>1, <2>2, <2>4, <3>1 DEF About, Deletes
      <4> QED
        BY <4>3, <4>4, <4>5, <4>6
    <3> QED
      BY <3>3, <3>4
  <2>8. Alternate'
    <3> SUFFICES ASSUME NEW k \in DOMAIN events', NEW id, id = events'[k].record.id,
                        events'[k].kind = "insert", Plain(id)
                 PROVE  /\ \A j \in DOMAIN events' : j < k /\ About(j, id)' =>
                             \E m \in DOMAIN events' : j <= m /\ m < k /\ Deletes(m, id)'
                        /\ InTask(id)' => \E m \in DOMAIN events' : m < k /\ Deletes(m, id)'
      BY DEF Alternate, Plain
    <3>1. \A m \in DOMAIN events : Deletes(m, id) => m \in DOMAIN events' /\ Deletes(m, id)'
      BY <2>1 DEF Deletes, About
    <3>2. InTask(id)' => InTask(id)
      BY <2>1 DEF InTask
    <3>3. CASE k \in DOMAIN events
      <4>1. events[k].kind = "insert" /\ events[k].record.id = id
        BY <2>1, <3>3
      <4>2. \A j \in DOMAIN events' : j < k /\ About(j, id)' => j \in DOMAIN events /\ About(j, id)
        BY <2>1, <2>2, <2>3, <3>3 DEF About
      <4> QED
        BY <3>1, <3>2, <3>3, <4>1, <4>2 DEF Telling, Alternate
    <3>4. CASE k \notin DOMAIN events
      <4>1. k - Len(events) \in DOMAIN seen /\ seen[k - Len(events)] = events'[k]
        BY <2>1, <2>4, <3>4
      <4>2. id \notin DOMAIN stored /\ k - Len(events) = 1
        BY <4>1 DEF Publishes
      <4>3. id \in Id
        BY <2>1, <2>2, EventIs, ElementOfSeq
      <4>4. \A j \in DOMAIN events' : j < k /\ About(j, id)' => j \in DOMAIN events /\ About(j, id)
        BY <2>1, <2>2, <2>3, <4>2 DEF About
      <4>5. \A m \in DOMAIN events : m < k
        BY <2>2, <2>3, <4>2
      <4> QED
        BY <3>1, <3>2, <4>2, <4>3, <4>4, <4>5 DEF Telling, DeletesAreTold
    <3> QED
      BY <3>3, <3>4
  <2> QED
    BY <2>6, <2>7, <2>8 DEF Telling
<1> QED
  BY <1>1, <1>2

LEMMA PublishedIsFollowed ==
  ASSUME Shapes, Telling, Members, Fitting, NEW seen, Publishes(seen), watch # "ended",
         \A id \in DOMAIN view :
           Plain(id) /\ ~IsSeen(seen, id) => cells'[view[id]] = cells[view[id]],
         \A k \in DOMAIN seen : LET id == seen[k].record.id IN
           /\ seen[k].kind = "insert" /\ Plain(id) /\ id \in DOMAIN view
           /\ ~Pending(id) /\ id[1] \notin missed
           => Fits(seen[k].record)',
         \A t \in Threads :
           thread[t].pc = "commit" /\ ~IsSeen(seen, thread[t].record.id) => thread'[t] = thread[t]
  PROVE  Members' /\ Fitting'
<1>1. /\ seen \in Seq(Event) /\ See(seen) /\ watch' = watch /\ task' = task /\ view' = view
      /\ watch \in {"unset", "set"}
  BY DEF Publishes, Shapes, Queued
<1>2. missed \subseteq missed' /\ \A id : IsSeen(seen, id) /\ watch = "unset" => id[1] \in missed'
  BY <1>1 DEF See, IsSeen
<1>3. /\ \A k \in DOMAIN events : k \in DOMAIN events' /\ events'[k] = events[k]
      /\ watch = "set" => \A j \in DOMAIN seen : Len(events) + j \in DOMAIN events'
                                          /\ events'[Len(events) + j] = seen[j]
      /\ watch = "set" => missed' = missed
  <2>1. CASE watch = "set"
    BY <1>1, <2>1, Seeing
  <2>2. CASE watch # "set"
    BY <1>1, <2>2 DEF See
  <2> QED
    BY <2>1, <2>2
<1>4. \A id : Pending(id) => Pending(id)'
  BY <1>1, <1>3 DEF Pending, InTask, About
<1>5. ASSUME NEW r, Plain(r.id), r.id \in DOMAIN view, ~IsSeen(seen, r.id), Fits(r)
      PROVE  Fits(r)'
  BY <1>1, <1>5 DEF Fits
<1>6. Members'
  <2> SUFFICES ASSUME NEW id \in Id, id[1] \notin missed', ~Pending(id)'
               PROVE  /\ id \in DOMAIN stored' => id \in DOMAIN view'
                      /\ id \in DOMAIN view' \ DOMAIN stored' =>
                           \E t \in Threads : (Committing(t, id) /\ (Plain(id) => Fits(thread[t].record)))'
    BY DEF Members, Plain
  <2>1. ~IsSeen(seen, id)
    BY <1>1, <1>2, <1>3 DEF IsSeen, Pending, About
  <2>2. id[1] \notin missed /\ ~Pending(id)
    BY <1>2, <1>4
  <2>3. id \in DOMAIN stored' <=> id \in DOMAIN stored
    BY <2>1 DEF Publishes
  <2>4. ASSUME id \in DOMAIN view \ DOMAIN stored
        PROVE  \E t \in Threads : (Committing(t, id) /\ (Plain(id) => Fits(thread[t].record)))'
    <3>1. PICK t \in Threads : Committing(t, id) /\ (Plain(id) => Fits(thread[t].record))
      BY <2>2, <2>4 DEF Members
    <3>2. thread'[t] = thread[t] /\ thread[t].record.id = id
      BY <2>1, <3>1 DEF Committing
    <3>3. PICK r : r = thread[t].record
      OBVIOUS
    <3>4. Plain(id) => Fits(r)'
      BY <1>5, <2>1, <2>4, <3>1, <3>2, <3>3
    <3> QED
      BY <3>1, <3>2, <3>3, <3>4 DEF Committing
  <2> QED
    BY <1>1, <2>2, <2>3, <2>4 DEF Members
<1>7. Fitting'
  <2> SUFFICES ASSUME NEW id \in DOMAIN stored' \cap DOMAIN view, Plain(id), id[1] \notin missed',
                      OnlyInserts(id)'
               PROVE  (Fits(stored[id]))'
    BY <1>1 DEF Fitting, Plain
  <2>0. id \in Id
    BY DEF Shapes, Cells
  <2>1. OnlyInserts(id)
    BY <1>1, <1>3 DEF OnlyInserts, InTask, About
  <2>2. CASE ~IsSeen(seen, id)
    <3>1. id \in DOMAIN stored /\ stored'[id] = stored[id] /\ stored[id].id = id
      BY <2>0, <2>2 DEF Publishes, Shapes, Table
    <3>2. Fits(stored[id])
      BY <1>2, <2>1, <3>1 DEF Fitting
    <3>3. PICK r : r = stored[id]
      OBVIOUS
    <3>4. Fits(r)'
      BY <1>5, <2>2, <3>1, <3>2, <3>3
    <3> QED
      BY <3>1, <3>3, <3>4
  <2>3. CASE IsSeen(seen, id)
    <3>1. PICK k \in DOMAIN seen : seen[k].record.id = id
      BY <2>3 DEF IsSeen
    <3>2. watch = "set" /\ missed' = missed
      BY <1>1, <1>2, <1>3, <2>3
    <3>3. seen[k].kind = "insert"
      BY <1>3, <3>1, <3>2 DEF OnlyInserts, About
    <3>4. id \notin DOMAIN stored
      BY <3>1, <3>3 DEF Publishes
    <3>5. ~Pending(id)
      BY <2>0, <2>1, <3>4 DEF Pending, Telling, DeletesAreTold, Deletes, OnlyInserts, About
    <3>6. Fits(seen[k].record)'
      BY <3>1, <3>2, <3>3, <3>5
    <3>7. stored'[id] = seen[k].record
      BY <3>1, <3>3 DEF Publishes, Told
    <3> QED
      BY <3>6, <3>7
  <2> QED
    BY <2>2, <2>3
<1> QED
  BY <1>6, <1>7

LEMMA PublishedIsQueued ==
  ASSUME Shapes, NEW seen, Publishes(seen), Known \subseteq Known',
         watch = "unset" => \A t \in Threads : thread'[t].pc = "idle"
  PROVE  Queued'
<1>1. /\ seen \in Seq(Event) /\ See(seen) /\ watch' = watch /\ task' = task /\ view' = view
      /\ \A k \in DOMAIN seen : seen[k].record \in Known'
  BY DEF Publishes
<1>2. events' \in Seq(Event) /\ \A k \in DOMAIN events' : events'[k].record \in Known'
  <2>1. CASE watch # "set"
    BY <1>1, <2>1 DEF See, Shapes, Queued
  <2>2. CASE watch = "set"
    <3>1. /\ events' \in Seq(Event)
          /\ \A k \in DOMAIN events : events'[k] = events[k]
          /\ \A j \in DOMAIN seen : Len(events) + j \in DOMAIN events' /\ events'[Len(events) + j] = seen[j]
          /\ \A k \in DOMAIN events' \ DOMAIN events : k - Len(events) \in DOMAIN seen /\ k > Len(events)
      BY <1>1, <2>2, Seeing
    <3>2. Len(events) \in Nat /\ DOMAIN events' = 1..Len(events') /\ Len(events') \in Nat
      BY <3>1, Positions, LenProperties
    <3>3. \A k \in DOMAIN events' \ DOMAIN events : events'[k] = seen[k - Len(events)]
      BY <3>1, <3>2
    <3>4. \A k \in DOMAIN events : events[k].record \in Known'
      BY DEF Shapes, Queued
    <3> QED
      BY <1>1, <3>1, <3>3, <3>4
  <2> QED
    BY <2>1, <2>2
<1>3. watch # "set" => events' = <<>> /\ task' = Idle
  BY <1>1 DEF See, Shapes, Queued
<1> QED
  BY <1>1, <1>2, <1>3 DEF Shapes, Queued

LEMMA ChangeIs ==
  ASSUME NEW r \in Record
  PROVE  /\ Change(r) \in Event /\ Change(r).record = r /\ Change(r).kind # "delete"
         /\ Change(r).kind = "insert" => r.id \notin DOMAIN stored
BY DEF Change, Event

LEMMA One ==
  ASSUME NEW e \in Event
  PROVE  <<e>> \in Seq(Event) /\ DOMAIN <<e>> = {1} /\ <<e>>[1] = e
OBVIOUS

LEMMA UpsertPublishes ==
  ASSUME Shapes, NEW r \in Record, r \in Known', Upsert(r), UNCHANGED <<watch, task, view>>,
         NEW seen, seen = <<Change(r)>>
  PROVE  /\ Publishes(seen) /\ \A id : IsSeen(seen, id) <=> id = r.id
         /\ DOMAIN seen = {1} /\ seen[1].record = r
<1>1. /\ Change(r) \in Event /\ Change(r).record = r /\ Change(r).kind # "delete"
      /\ Change(r).kind = "insert" => r.id \notin DOMAIN stored
  BY ChangeIs
<1>2. seen \in Seq(Event) /\ DOMAIN seen = {1} /\ seen[1] = Change(r)
  BY <1>1, One
<1>3. \A id : IsSeen(seen, id) <=> id = r.id
  BY <1>1, <1>2 DEF IsSeen
<1>4. /\ DOMAIN stored' = DOMAIN stored \cup {r.id} /\ stored'[r.id] = r
      /\ \A j \in DOMAIN stored : j # r.id => stored'[j] = stored[j]
  BY DEF Upsert, With
<1>5. \A k \in DOMAIN seen : seen[k].record \in Known' /\ Told(seen[k])'
  BY <1>1, <1>2, <1>4 DEF Told
<1>6. See(seen)
  BY DEF Upsert
<1> QED
  BY <1>1, <1>2, <1>3, <1>4, <1>5, <1>6 DEF Publishes

LEMMA DeletePublishes ==
  ASSUME Shapes, NEW id \in Id, Delete(id), UNCHANGED <<watch, task, view>>, Known \subseteq Known'
  PROVE  \E seen : /\ Publishes(seen) /\ \A k \in DOMAIN seen : seen[k].kind = "delete"
                   /\ \A i : IsSeen(seen, i) <=> i = id /\ id \in DOMAIN stored
<1>1. /\ DOMAIN stored' = DOMAIN stored \ {id}
      /\ \A j \in DOMAIN stored : j # id => stored'[j] = stored[j]
  BY LessIs DEF Delete
<1>2. CASE id \in DOMAIN stored
  <2>1. PICK e : e = [kind |-> "delete", record |-> stored[id]]
    OBVIOUS
  <2>2. PICK seen : seen = <<e>>
    OBVIOUS
  <2>3. e \in Event /\ e.kind = "delete" /\ e.record \in Known /\ e.record.id = id
    BY <1>2, <2>1, KnownIsRecord DEF Shapes, Table, Event
  <2>4. seen \in Seq(Event) /\ DOMAIN seen = {1} /\ seen[1] = e
    BY <2>2, <2>3, One
  <2>5. See(seen)
    BY <1>2, <2>1, <2>2 DEF Delete
  <2>6. \A i : IsSeen(seen, i) <=> i = id
    BY <2>3, <2>4 DEF IsSeen
  <2>7. \A k \in DOMAIN seen : seen[k].record \in Known' /\ Told(seen[k])' /\ seen[k].kind = "delete"
    BY <1>1, <2>3, <2>4 DEF Told
  <2> QED
    BY <1>1, <1>2, <2>4, <2>5, <2>6, <2>7 DEF Publishes
<1>3. CASE id \notin DOMAIN stored
  <2>1. PICK seen : seen = <<>>
    OBVIOUS
  <2>2. seen \in Seq(Event) /\ DOMAIN seen = {}
    BY <2>1
  <2>3. See(seen)
    BY <1>3, <2>1 DEF Delete
  <2> QED
    BY <1>1, <1>3, <2>2, <2>3 DEF Publishes, IsSeen
<1> QED
  BY <1>2, <1>3

\* While nobody writes, nothing is in the view that the table lacks but what a
\* deletion to come will take out.
LEMMA PublishedWithoutWriter ==
  ASSUME Shapes, Telling, Members, Fitting, NEW seen, Publishes(seen), watch # "ended", ~Writing,
         \A id \in DOMAIN view :
           Plain(id) /\ ~IsSeen(seen, id) => cells'[view[id]] = cells[view[id]]
  PROVE  Members' /\ Fitting'
<1>1. \A t \in Threads : thread[t].pc # "commit"
  BY DEF Writing
<1>2. \A id \in DOMAIN view : ~Pending(id) /\ id[1] \notin missed => id \in DOMAIN stored
  BY <1>1 DEF Members, Committing, Shapes, Cells
<1>3. \A k \in DOMAIN seen : seen[k].kind = "insert" /\ Plain(seen[k].record.id) =>
        seen[k].record.id \notin DOMAIN stored
  BY DEF Publishes
<1> QED
  BY <1>1, <1>2, <1>3, PublishedIsFollowed

LEMMA CommitRemoveKeepsView ==
  ASSUME ViewInv, NEW t \in Threads, CommitRemove(t)
  PROVE  ViewInv'
<1> USE DEF ViewInv
<1>1. PICK id : id = thread[t].id
  OBVIOUS
<1>2. /\ thread[t].pc = "remove" /\ ~Writing /\ Delete(id)
      /\ thread' = [thread EXCEPT ![t] = Idle]
      /\ UNCHANGED <<watch, cells, view, handles, task, mayWrite, ops, drops>>
      /\ id \in Id /\ Known' = Known /\ missed' \subseteq Rows
  <2>1. id \in Id /\ watch # "unset"
    BY <1>1 DEF CommitRemove, Shapes, Threaded, Queued
  <2> QED
    BY <1>1, <2>1 DEF CommitRemove, Rest, viewVars, Known, Delete, See, Shapes, Table
<1>3. /\ thread' = [u \in Threads |-> thread'[u]] /\ thread'[t].pc = "idle"
      /\ \A u \in Threads \ {t} : thread'[u] = thread[u]
  BY <1>2 DEF Shapes, Threaded, Idle
<1>4. PICK seen : Publishes(seen)
  BY <1>2, DeletePublishes
<1>5. Table'
  <2>1. /\ DOMAIN stored' = DOMAIN stored \ {id}
        /\ \A j \in DOMAIN stored : j # id => stored'[j] = stored[j]
    BY <1>2, LessIs DEF Delete
  <2>2. DOMAIN stored' \subseteq Id /\ \A i \in DOMAIN stored' : stored'[i] \in Known' /\ stored'[i].id = i
    BY <1>2, <2>1 DEF Shapes, Table
  <2> QED
    BY <1>2, <2>2 DEF Shapes, Table
<1>6. Cells'
  BY <1>2 DEF Shapes, Cells
<1>7. Threaded'
  <2>1. DOMAIN stored' \subseteq DOMAIN stored
    BY <1>2, LessIs DEF Delete
  <2> QED
    BY <1>2, <1>3, <2>1 DEF Shapes, Threaded, Writes
<1>8. Locks'
  BY <1>2, <1>3 DEF Shapes, Locks, Waiting, Writes, ViewRead
<1>9. Queued'
  BY <1>2, <1>3, <1>4, PublishedIsQueued DEF Shapes, Queued
<1>10. Telling'
  BY <1>4, PublishedIsTold
<1>11. watch' # "ended" => Members' /\ Fitting'
  BY <1>2, <1>4, PublishedWithoutWriter
<1> QED
  BY <1>5, <1>6, <1>7, <1>8, <1>9, <1>10, <1>11 DEF Shapes

LEMMA ReplicatedDeleteKeepsView ==
  ASSUME ViewInv, NEW id \in DOMAIN stored, ReplicatedDelete(id)
  PROVE  ViewInv'
<1> USE DEF ViewInv
<1>1. /\ ~Writing /\ Delete(id) /\ ops < MaxOps /\ ops' = ops + 1
      /\ UNCHANGED <<watch, cells, view, handles, thread, task, mayWrite, drops>>
      /\ id \in Id /\ missed' \subseteq Rows
  <2>1. id \in Id /\ id[1] \in Rows /\ stored[id].id = id
    BY RecordIs, KnownIsRecord DEF Shapes, Table
  <2> QED
    BY <2>1 DEF ReplicatedDelete, Called, viewVars, Delete, See, Shapes, Table
<1>2. Known \subseteq Known' /\ ops' \in 0..MaxOps /\ \A v \in 1..ops : v \in 1..ops'
  BY <1>1, Counted, ResidentAssumption DEF Shapes, Table
<1>3. PICK seen : Publishes(seen)
  BY <1>1, <1>2, DeletePublishes
<1>4. /\ DOMAIN stored' = DOMAIN stored \ {id}
      /\ \A j \in DOMAIN stored : j # id => stored'[j] = stored[j]
  BY <1>1, LessIs DEF Delete
<1>5. Table'
  <2>1. DOMAIN stored' \subseteq Id /\ \A i \in DOMAIN stored' : stored'[i] \in Known' /\ stored'[i].id = i
    BY <1>2, <1>4 DEF Shapes, Table
  <2> QED
    BY <1>1, <1>2, <2>1 DEF Shapes, Table
<1>6. Cells'
  BY <1>1, <1>2 DEF Shapes, Cells
<1>7. Threaded'
  BY <1>1, <1>2, <1>4 DEF Shapes, Threaded, Writes
<1>8. Locks'
  BY <1>1 DEF Shapes, Locks, Waiting, Writes, ViewRead
<1>9. Queued'
  BY <1>1, <1>2, <1>3, PublishedIsQueued DEF Shapes, Queued
<1>10. Telling'
  BY <1>3, PublishedIsTold
<1>11. watch' # "ended" => Members' /\ Fitting'
  BY <1>1, <1>3, PublishedWithoutWriter
<1> QED
  BY <1>5, <1>6, <1>7, <1>8, <1>9, <1>10, <1>11 DEF Shapes

\* The table after a commit of known records.
LEMMA TableAfter ==
  ASSUME Shapes, UNCHANGED <<mayWrite, drops>>, ops' \in 0..MaxOps, Known \subseteq Known',
         missed' \subseteq Rows,
         NEW upserted, \A r \in upserted : r \in Known',
         DOMAIN stored' = DOMAIN stored \cup {r.id : r \in upserted},
         \A id \in DOMAIN stored' :
           \/ id \in DOMAIN stored /\ stored'[id] = stored[id]
           \/ \E r \in upserted : r.id = id /\ stored'[id] = r
  PROVE  Table'
<1>1. \A r \in upserted : r.id \in Id
  BY RecordIs DEF Known
<1>2. DOMAIN stored' \subseteq Id
  BY <1>1 DEF Shapes, Table
<1>3. \A id \in DOMAIN stored' : stored'[id] \in Known' /\ stored'[id].id = id
  BY DEF Shapes, Table
<1> QED
  BY <1>2, <1>3 DEF Shapes, Table

LEMMA SeenAreRows ==
  ASSUME Shapes, NEW seen, seen \in Seq(Event), See(seen)
  PROVE  missed' \subseteq Rows
<1>1. \A k \in DOMAIN seen : seen[k].record.id[1] \in Rows
  BY LenProperties, ElementOfSeq, EventIs, RecordIs
<1> QED
  BY <1>1 DEF See, Shapes, Table

LEMMA ReplicatedKeepsView ==
  ASSUME ViewInv, NEW row \in Rows, Replicated(row)
  PROVE  ViewInv'
<1> USE DEF ViewInv
<1>0. PICK id : id = First(row)
  OBVIOUS
<1>1. PICK r : r = [id |-> id, val |-> ops + 1, rev |-> IF id \in DOMAIN stored THEN stored[id].rev + 1 ELSE 1]
  OBVIOUS
<1>2. /\ ~Writing /\ Upsert(r) /\ ops < MaxOps /\ ops' = ops + 1
      /\ UNCHANGED <<watch, cells, view, handles, thread, task, mayWrite, drops>>
  BY <1>0, <1>1 DEF Replicated, Called, viewVars
<1>3. Known \subseteq Known' /\ ops' \in 0..MaxOps /\ (\A v \in 1..ops : v \in 1..ops') /\ ops \in Nat
  BY <1>2, Counted, ResidentAssumption DEF Shapes, Table
<1>4. r \in Record /\ r \in Known' /\ r.id = id
  <2>1. id \in Id /\ id[1] = row
    BY <1>0, NewRecordIs, ResidentAssumption
  <2>2. id \in DOMAIN stored => stored[id].rev \in Nat /\ stored[id].rev >= 1 /\ stored[id].rev <= ops + 1
    BY RecordIs DEF Shapes, Table, Known
  <2>3. /\ r.id = id /\ r.val = ops + 1 /\ r.rev \in Nat /\ r.rev >= 1 /\ r.rev <= ops + 2
    BY <1>1, <1>3, <2>2
  <2>4. r \in Record
    BY <1>1, <1>2, <1>3, <2>1, <2>3, ResidentAssumption DEF Record
  <2> QED
    BY <1>0, <1>2, <1>3, <2>1, <2>3, <2>4 DEF Known
<1>5. PICK seen : seen = <<Change(r)>>
  OBVIOUS
<1>6. Publishes(seen)
  BY <1>2, <1>4, <1>5, UpsertPublishes
<1>7. missed' \subseteq Rows
  BY <1>6, SeenAreRows DEF Publishes
<1>8. Table'
  <2>1. PICK upserted : upserted = {r}
    OBVIOUS
  <2>2. /\ DOMAIN stored' = DOMAIN stored \cup {x.id : x \in upserted}
        /\ \A i \in DOMAIN stored' : \/ i \in DOMAIN stored /\ stored'[i] = stored[i]
                                     \/ \E x \in upserted : x.id = i /\ stored'[i] = x
    BY <1>2, <2>1 DEF Upsert, With
  <2> QED
    BY <1>2, <1>3, <1>4, <1>7, <2>1, <2>2, TableAfter
<1>9. Cells'
  BY <1>2, <1>3 DEF Shapes, Cells
<1>10. Threaded'
  BY <1>2, <1>3 DEF Shapes, Threaded, Writes, Writing
<1>11. Locks'
  BY <1>2 DEF Shapes, Locks, Waiting, Writes, ViewRead
<1>12. Queued'
  BY <1>2, <1>3, <1>6, PublishedIsQueued DEF Shapes, Queued
<1>13. Telling'
  BY <1>6, PublishedIsTold
<1>14. watch' # "ended" => Members' /\ Fitting'
  BY <1>2, <1>6, PublishedWithoutWriter
<1> QED
  BY <1>8, <1>9, <1>10, <1>11, <1>12, <1>13, <1>14 DEF Shapes

LEMMA CommitPushKeepsView ==
  ASSUME ViewInv, NEW t \in Threads, CommitPush(t)
  PROVE  ViewInv'
<1> USE DEF ViewInv
<1>0. PICK c, r : c = thread[t].cell /\ r = thread[t].record
  OBVIOUS
<1>1. /\ thread[t].pc = "commit" /\ Upsert(r) /\ handles' = handles \cup {c}
      /\ thread' = [thread EXCEPT ![t] = Idle]
      /\ UNCHANGED <<watch, cells, view, task, mayWrite, ops, drops>>
      /\ Known' = Known
  BY <1>0 DEF CommitPush, Rest, Known
<1>2. /\ c \in DOMAIN cells /\ r \in Record /\ r \in Known /\ r.id \notin DOMAIN stored
      /\ \A u \in Threads : Writes(u) => u = t
  BY <1>0, <1>1, KnownIsRecord DEF Shapes, Threaded, Locks, Writes
<1>3. /\ thread' = [u \in Threads |-> thread'[u]] /\ thread'[t].pc = "idle"
      /\ \A u \in Threads \ {t} : thread'[u] = thread[u]
  BY <1>1 DEF Shapes, Threaded, Idle
<1>5. PICK seen : seen = <<Change(r)>>
  OBVIOUS
<1>6. /\ Publishes(seen) /\ \A id : IsSeen(seen, id) <=> id = r.id
      /\ DOMAIN seen = {1} /\ seen[1].record = r
  BY <1>1, <1>2, <1>5, UpsertPublishes
<1>7. missed' \subseteq Rows /\ ops' \in 0..MaxOps
  BY <1>1, <1>6, SeenAreRows DEF Publishes, Shapes, Table
<1>8. Table'
  <2>1. PICK upserted : upserted = {r}
    OBVIOUS
  <2>2. /\ DOMAIN stored' = DOMAIN stored \cup {x.id : x \in upserted}
        /\ \A i \in DOMAIN stored' : \/ i \in DOMAIN stored /\ stored'[i] = stored[i]
                                     \/ \E x \in upserted : x.id = i /\ stored'[i] = x
    BY <1>1, <2>1 DEF Upsert, With
  <2> QED
    BY <1>1, <1>2, <1>7, <2>1, <2>2, TableAfter
<1>9. Cells'
  BY <1>1, <1>2 DEF Shapes, Cells
<1>10. Threaded'
  BY <1>1, <1>2, <1>3 DEF Shapes, Threaded, Writes
<1>11. Locks'
  BY <1>1, <1>3 DEF Shapes, Locks, Waiting, Writes, ViewRead
<1>12. Queued'
  BY <1>1, <1>3, <1>6, PublishedIsQueued DEF Shapes, Queued
<1>13. Telling'
  BY <1>6, PublishedIsTold
<1>14. ASSUME watch # "ended" PROVE Members' /\ Fitting'
  <2>1. ASSUME r.id \in DOMAIN view, ~Pending(r.id), r.id[1] \notin missed, Plain(r.id)
        PROVE  Fits(r)'
    <3>1. PICK u \in Threads : Committing(u, r.id) /\ Fits(thread[u].record)
      BY <1>2, <1>14, <2>1, RecordIs DEF Members
    <3>2. u = t
      BY <1>2, <3>1 DEF Committing, Writes
    <3>3. Fits(r)
      BY <1>0, <3>1, <3>2
    <3> QED
      BY <1>1, <3>3 DEF Fits
  <2>2. \A k \in DOMAIN seen : seen[k].record = r
    BY <1>6
  <2>3. \A u \in Threads : thread[u].pc = "commit" /\ ~IsSeen(seen, thread[u].record.id) => thread'[u] = thread[u]
    BY <1>0, <1>2, <1>6 DEF Writes
  <2>4. \A k \in DOMAIN seen : LET id == seen[k].record.id IN
           /\ seen[k].kind = "insert" /\ Plain(id) /\ id \in DOMAIN view
           /\ ~Pending(id) /\ id[1] \notin missed
           => Fits(seen[k].record)'
    BY <2>1, <2>2
  <2> QED
    BY <1>1, <1>6, <1>14, <2>3, <2>4, PublishedIsFollowed
<1> QED
  BY <1>1, <1>8, <1>9, <1>10, <1>11, <1>12, <1>13, <1>14 DEF Shapes

-----------------------------------------------------------------------------
(* Updates.                                                                *)

\* A cell of the view is put in another state: for what it is the cell of.
LEMMA CellsAfter ==
  ASSUME Shapes, NEW c \in DOMAIN cells, NEW next \in Record, next \in Known',
         next.id[1] = cells[c].id[1],
         cells' = [cells EXCEPT ![c] = next], Known \subseteq Known', UNCHANGED <<view, handles>>
  PROVE  /\ Cells' /\ DOMAIN cells' = DOMAIN cells /\ cells'[c] = next
         /\ \A d \in DOMAIN cells : d # c => cells'[d] = cells[d]
<1>1. cells \in Seq(Record) /\ c \in 1..Len(cells) /\ DOMAIN cells = 1..Len(cells)
  BY Positions DEF Shapes, Cells
<1>2. /\ cells' \in Seq(Record) /\ Len(cells') = Len(cells)
      /\ \A d \in 1..Len(cells) : cells'[d] = IF d = c THEN next ELSE cells[d]
  BY <1>1, ExceptSeq
<1>3. DOMAIN cells' = DOMAIN cells
  BY <1>1, <1>2, LenProperties
<1>4. \A d \in DOMAIN cells' : cells'[d] \in Known' /\ cells'[d].id[1] = cells[d].id[1]
  BY <1>1, <1>2, <1>3 DEF Shapes, Cells
<1>5. Cells'
  BY <1>2, <1>3, <1>4 DEF Shapes, Cells
<1> QED
  BY <1>1, <1>2, <1>3, <1>5

LEMMA BeginUpdateKeepsView ==
  ASSUME ViewInv, NEW t \in Threads, NEW c \in Held, BeginUpdate(t, c)
  PROVE  ViewInv'
<1> USE DEF ViewInv
<1>0. PICK old, next, busy : /\ old = cells[c] /\ next = [old EXCEPT !.rev = @ + 1]
                             /\ busy = [pc |-> "update", cell |-> c, val |-> ops + 1]
  OBVIOUS
<1>1. /\ ops < MaxOps /\ ops' = ops + 1 /\ watch # "unset" /\ thread[t].pc = "idle" /\ ~Locked(c)
      /\ thread' = [thread EXCEPT ![t] = busy]
      /\ cells' = [cells EXCEPT ![c] = next]
      /\ UNCHANGED <<stored, events, watch, missed, view, task, handles, mayWrite, drops>>
  BY <1>0 DEF BeginUpdate, Called, watchVars, Idle
<1>2. /\ Known \subseteq Known' /\ ops' \in 0..MaxOps /\ (\A v \in 1..ops : v \in 1..ops')
      /\ ops \in Nat /\ ops + 1 \in 1..ops'
  BY <1>1, Counted, ResidentAssumption DEF Shapes, Table
<1>3. c \in DOMAIN cells /\ old \in Record /\ old \in Known
  BY <1>0, KnownIsRecord DEF Held, Shapes, Cells
<1>4. /\ next.id = old.id /\ next.val = old.val /\ next.rev = old.rev + 1
      /\ next \in Record /\ next \in Known'
  <2>1. old.rev \in Nat /\ old.rev >= 1 /\ old.rev <= ops + 1
    BY <1>3, RecordIs DEF Known
  <2>2. next.id = old.id /\ next.val = old.val /\ next.rev = old.rev + 1
    BY <1>0, <1>3 DEF Record
  <2>3. next \in Record
    BY <1>0, <1>1, <1>2, <1>3, <2>1, ResidentAssumption DEF Record
  <2> QED
    BY <1>1, <1>2, <1>3, <2>1, <2>2, <2>3 DEF Known
<1>5. /\ Cells' /\ DOMAIN cells' = DOMAIN cells /\ cells'[c] = next
      /\ \A d \in DOMAIN cells : d # c => cells'[d] = cells[d]
  BY <1>0, <1>1, <1>2, <1>3, <1>4, CellsAfter
<1>6. /\ thread' = [u \in Threads |-> thread'[u]] /\ thread'[t] = busy
      /\ \A u \in Threads \ {t} : thread'[u] = thread[u]
  BY <1>1 DEF Shapes, Threaded
<1>7. Table'
  BY <1>1, <1>2 DEF Shapes, Table
<1>8. Threaded'
  <2>1. ASSUME NEW u \in Threads
        PROVE  (/\ thread[u].pc \in {"idle", "update", "push", "commit", "look", "remove"}
                /\ thread[u].pc \in {"update", "commit", "look"} => thread[u].cell \in DOMAIN cells
                /\ thread[u].pc = "update" => thread[u].val \in 1..ops
                /\ Writes(u) => /\ thread[u].record \in Known /\ thread[u].record.rev = 1
                                /\ thread[u].record.id \notin DOMAIN stored
                /\ thread[u].pc = "remove" => thread[u].id \in Id)'
    <3>1. CASE u = t
      BY <1>0, <1>2, <1>3, <1>5, <1>6, <3>1 DEF Writes
    <3>2. CASE u # t
      BY <1>1, <1>2, <1>5, <1>6, <3>2 DEF Shapes, Threaded, Writes
    <3> QED
      BY <3>1, <3>2
  <2> QED
    BY <1>6, <2>1 DEF Threaded
<1>9. Locks'
  <2>1. Waiting' = Waiting \cup {t} /\ \A u \in Waiting : u # t /\ thread'[u] = thread[u] /\ thread[u].cell # c
    BY <1>0, <1>1, <1>6 DEF Waiting, Locked
  <2>2. \A u \in Threads : Writes(u)' => Writes(u)
    BY <1>0, <1>6 DEF Writes
  <2>3. ViewRead' => ViewRead
    BY <1>0, <1>6 DEF ViewRead
  <2> QED
    BY <1>0, <1>1, <1>6, <2>1, <2>2, <2>3 DEF Shapes, Locks
<1>10. Queued'
  BY <1>1, <1>2 DEF Shapes, Queued
<1>11. Telling'
  BY <1>1, TellingStays
<1>12. ASSUME watch # "ended" PROVE Members' /\ Fitting'
  <2>1. ASSUME NEW r \in Record, r.id \in DOMAIN view, Fits(r) PROVE Fits(r)'
    <3>1. view[r.id] \in DOMAIN cells /\ cells[view[r.id]] \in Record
      BY <2>1, KnownIsRecord DEF Shapes, Cells
    <3>2. cells[view[r.id]].rev \in Nat /\ r.rev \in Nat
      BY <3>1, RecordIs
    <3> QED
      BY <1>0, <1>1, <1>4, <1>5, <2>1, <3>1, <3>2 DEF Fits
  <2>2. Members'
    <3> SUFFICES ASSUME NEW id \in Id, id[1] \notin missed, ~Pending(id)'
                 PROVE  /\ id \in DOMAIN stored => id \in DOMAIN view
                        /\ id \in DOMAIN view \ DOMAIN stored =>
                             \E u \in Threads : (Committing(u, id) /\ (Plain(id) => Fits(thread[u].record)))'
      BY <1>1 DEF Members, Plain
    <3>1. ~Pending(id)
      BY <1>1 DEF Pending, InTask, About
    <3>2. ASSUME NEW u \in Threads, Committing(u, id), Plain(id) => Fits(thread[u].record),
                 id \in DOMAIN view
          PROVE  (Committing(u, id) /\ (Plain(id) => Fits(thread[u].record)))'
      <4>1. thread'[u] = thread[u] /\ thread[u].record.id = id
        BY <1>1, <1>6, <3>2 DEF Committing
      <4>2. PICK r : r = thread[u].record
        OBVIOUS
      <4>3. r \in Record
        BY <3>2, <4>2, KnownIsRecord DEF Shapes, Threaded, Writes, Committing
      <4>4. Plain(id) => Fits(r)'
        BY <2>1, <3>2, <4>1, <4>2, <4>3
      <4> QED
        BY <3>2, <4>1, <4>2, <4>4 DEF Committing, Plain
    <3> QED
      BY <3>1, <3>2, <1>12 DEF Members
  <2>3. Fitting'
    <3> SUFFICES ASSUME NEW id \in DOMAIN stored \cap DOMAIN view, Plain(id), id[1] \notin missed,
                        OnlyInserts(id)'
                 PROVE  (Fits(stored[id]))'
      BY <1>1 DEF Fitting, Plain
    <3>1. Fits(stored[id])
      BY <1>1, <1>12 DEF Fitting, OnlyInserts, InTask, About
    <3>2. PICK r : r = stored[id]
      OBVIOUS
    <3>3. r \in Record /\ r.id = id
      BY <3>2, KnownIsRecord DEF Shapes, Table
    <3>4. Fits(r)'
      BY <2>1, <3>1, <3>2, <3>3
    <3> QED
      BY <1>1, <3>2, <3>4
  <2> QED
    BY <2>2, <2>3
<1> QED
  BY <1>1, <1>5, <1>7, <1>8, <1>9, <1>10, <1>11, <1>12 DEF Shapes

LEMMA CommitUpdateKeepsView ==
  ASSUME ViewInv, NEW t \in Threads, CommitUpdate(t)
  PROVE  ViewInv'
<1> USE DEF ViewInv
<1> DEFINE kept(r) == r.id[1] \in Temporal
<1>0. PICK c, v, last, next, seen :
        /\ c = thread[t].cell /\ v = thread[t].val /\ last = cells[c]
        /\ next = [last EXCEPT !.val = v,
                               !.id = IF @[1] \in Temporal THEN <<@[1], v>> ELSE @]
        /\ seen = IF kept(last) THEN <<Change(next), Change(last)>> ELSE <<Change(next)>>
  OBVIOUS
<1>1. /\ t \in Waiting /\ ~Writing
      /\ kept(last) => stored' = With(With(stored, next.id, next), last.id, last)
      /\ ~kept(last) => stored' = With(stored, next.id, next)
      /\ See(seen)
      /\ cells' = [cells EXCEPT ![c] = next]
      /\ thread' = [thread EXCEPT ![t] = Idle]
      /\ UNCHANGED <<watch, view, task, handles, mayWrite, ops, drops>>
      /\ Known' = Known
  <2>1. /\ t \in Waiting /\ ~Writing
        /\ thread' = [thread EXCEPT ![t] = Idle]
        /\ UNCHANGED <<watch, view, task, handles, mayWrite, ops, drops>>
    BY DEF CommitUpdate, Rest
  <2>2. /\ kept(last) => stored' = With(With(stored, next.id, next), last.id, last)
        /\ ~kept(last) => stored' = With(stored, next.id, next)
    BY <1>0 DEF CommitUpdate
  <2>3. See(seen)
    BY <1>0 DEF CommitUpdate
  <2>4. cells' = [cells EXCEPT ![c] = next]
    BY <1>0 DEF CommitUpdate
  <2>5. Known' = Known
    BY <2>1 DEF Known
  <2> QED
    BY <2>1, <2>2, <2>3, <2>4, <2>5
<1>2. c \in DOMAIN cells /\ v \in 1..ops /\ last \in Known /\ last \in Record /\ ops \in 0..MaxOps
  BY <1>0, <1>1, KnownIsRecord DEF Shapes, Threaded, Cells, Waiting, Table
<1>3. /\ next.rev = last.rev /\ next.val = v
      /\ next.id = IF kept(last) THEN <<last.id[1], v>> ELSE last.id
  BY <1>0, <1>2 DEF Record
<1>4. next \in Known /\ next \in Record /\ next.id[1] = last.id[1]
  <2>1. /\ last.id \in Id /\ last.id[1] \in Rows /\ v \in 0..MaxOps /\ v <= ops /\ last.rev <= ops + 1
    BY <1>2, RecordIs, ResidentAssumption DEF Known
  <2>2. next.id \in Id /\ next.id[1] = last.id[1]
    BY <1>3, <2>1 DEF Id
  <2>3. next \in Record
    BY <1>0, <1>2, <1>3, <2>1, <2>2 DEF Record
  <2> QED
    BY <1>0, <1>2, <1>3, <2>1, <2>2, <2>3 DEF Known, Plain
<1>5. /\ Cells' /\ DOMAIN cells' = DOMAIN cells /\ cells'[c] = next
      /\ \A d \in DOMAIN cells : d # c => cells'[d] = cells[d]
  BY <1>0, <1>1, <1>2, <1>4, CellsAfter
<1>6. PICK upserted : upserted = IF kept(last) THEN {next, last} ELSE {next}
  OBVIOUS
<1>7. /\ DOMAIN stored' = DOMAIN stored \cup {r.id : r \in upserted}
      /\ \A id \in DOMAIN stored' :
           \/ id \in DOMAIN stored /\ stored'[id] = stored[id] /\ \A r \in upserted : r.id # id
           \/ \E r \in upserted : r.id = id /\ stored'[id] = r
  <2>1. CASE kept(last)
    <3>1. stored' = With(With(stored, next.id, next), last.id, last) /\ upserted = {next, last}
      BY <1>1, <1>6, <2>1
    <3> QED
      BY <3>1 DEF With
  <2>2. CASE ~kept(last)
    <3>1. stored' = With(stored, next.id, next) /\ upserted = {next}
      BY <1>1, <1>6, <2>2
    <3> QED
      BY <3>1 DEF With
  <2> QED
    BY <2>1, <2>2
<1>8. /\ Change(next) \in Event /\ Change(next).record = next /\ Change(next).kind # "delete"
      /\ Change(last) \in Event /\ Change(last).record = last /\ Change(last).kind # "delete"
      /\ Change(next).kind = "insert" => next.id \notin DOMAIN stored
  BY <1>2, <1>4, ChangeIs
<1>9. /\ seen \in Seq(Event)
      /\ \A k \in DOMAIN seen : /\ seen[k].record \in upserted /\ seen[k].kind # "delete"
                                /\ ~kept(last) => seen[k] = Change(next)
      /\ ~kept(last) => DOMAIN seen = {1}
      /\ \A r \in upserted : \E k \in DOMAIN seen : seen[k].record = r
  <2>1. CASE kept(last)
    <3>1. PICK a, b : a = Change(next) /\ b = Change(last)
      OBVIOUS
    <3>2. seen = <<a, b>> /\ a \in Event /\ b \in Event
      BY <1>0, <1>8, <2>1, <3>1
    <3>3. seen \in Seq(Event) /\ DOMAIN seen = {1, 2} /\ seen[1] = a /\ seen[2] = b
      BY <3>2
    <3> QED
      BY <1>6, <1>8, <2>1, <3>1, <3>3
  <2>2. CASE ~kept(last)
    <3>1. seen \in Seq(Event) /\ DOMAIN seen = {1} /\ seen[1] = Change(next)
      BY <1>0, <1>8, <2>2, One
    <3> QED
      BY <1>6, <1>8, <2>2, <3>1
  <2> QED
    BY <2>1, <2>2
<1>10. \A id : IsSeen(seen, id) <=> \E r \in upserted : r.id = id
  BY <1>9 DEF IsSeen
<1>11. \A r \in upserted : r \in Known' /\ r.id[1] = last.id[1] /\ (Plain(r.id) => ~kept(last))
  BY <1>0, <1>1, <1>2, <1>4, <1>6 DEF Plain
<1>12. Publishes(seen)
  <2>1. \A k \in DOMAIN seen : seen[k].record \in Known' /\ Told(seen[k])'
    <3> SUFFICES ASSUME NEW k \in DOMAIN seen PROVE seen[k].record \in Known' /\ Told(seen[k])'
      OBVIOUS
    <3>1. PICK r : r = seen[k].record
      OBVIOUS
    <3>2. r \in upserted /\ r.id \in DOMAIN stored' /\ seen[k].kind # "delete"
      BY <1>7, <1>9, <3>1
    <3>3. Plain(r.id) => stored'[r.id] = r
      BY <1>6, <1>7, <1>11, <3>2
    <3> QED
      BY <1>11, <3>1, <3>2, <3>3 DEF Told, Plain
  <2>2. \A id \in Id : ~IsSeen(seen, id) =>
          /\ id \in DOMAIN stored' <=> id \in DOMAIN stored
          /\ id \in DOMAIN stored => stored'[id] = stored[id]
    BY <1>7, <1>10
  <2>3. \A k \in DOMAIN seen : seen[k].kind = "insert" /\ Plain(seen[k].record.id) =>
          seen[k].record.id \notin DOMAIN stored /\ DOMAIN seen = {1}
    BY <1>8, <1>9, <1>11
  <2> QED
    BY <1>1, <1>9, <2>1, <2>2, <2>3 DEF Publishes
<1>13. Table'
  <2>1. missed' \subseteq Rows /\ ops' \in 0..MaxOps /\ UNCHANGED <<mayWrite, drops>>
    BY <1>1, <1>2, <1>9, SeenAreRows
  <2> QED
    BY <1>1, <1>7, <1>11, <2>1, TableAfter
<1>14. /\ thread' = [u \in Threads |-> thread'[u]] /\ thread'[t].pc = "idle"
       /\ \A u \in Threads \ {t} : thread'[u] = thread[u]
  BY <1>1 DEF Shapes, Threaded, Idle
<1>15. Threaded'
  BY <1>1, <1>5, <1>14 DEF Shapes, Threaded, Writes, Writing
<1>16. Locks'
  BY <1>1, <1>14 DEF Shapes, Locks, Waiting, Writes, ViewRead
<1>17. Queued'
  BY <1>1, <1>12, <1>14, PublishedIsQueued DEF Shapes, Queued
<1>18. Telling'
  BY <1>12, PublishedIsTold
<1>19. ASSUME watch # "ended" PROVE Members' /\ Fitting'
  <2>1. ASSUME NEW id \in DOMAIN view, Plain(id), ~IsSeen(seen, id)
        PROVE  cells'[view[id]] = cells[view[id]]
    <3>1. view[id] \in DOMAIN cells /\ cells[view[id]].id[1] = id[1] /\ id = First(id[1])
      BY <2>1 DEF Shapes, Cells
    <3>2. CASE view[id] = c
      <4>1. last.id[1] = id[1] /\ ~kept(last) /\ last.id = First(id[1])
        BY <1>0, <1>2, <2>1, <3>1, <3>2 DEF Known, Plain
      <4>2. next.id = id /\ next \in upserted
        BY <1>3, <1>6, <3>1, <4>1
      <4> QED
        BY <1>10, <2>1, <4>2
    <3> QED
      BY <1>5, <3>1, <3>2
  <2> QED
    BY <1>1, <1>12, <1>19, <2>1, PublishedWithoutWriter
<1> QED
  BY <1>1, <1>5, <1>13, <1>15, <1>16, <1>17, <1>18, <1>19 DEF Shapes

-----------------------------------------------------------------------------
(* The view gets a cell, and the task its events.                          *)

\* A new cell becomes that of its row: the cells of the others stay what they are.
LEMMA CellsAppended ==
  ASSUME Shapes, NEW r \in Record, r \in Known, Known' = Known,
         cells' = Append(cells, r), view' = With(view, r.id, Len(cells) + 1), handles' = handles
  PROVE  /\ Cells'
         /\ \A d \in DOMAIN cells : d \in DOMAIN cells' /\ cells'[d] = cells[d]
         /\ Len(cells) + 1 \in DOMAIN cells'
         /\ DOMAIN view' = DOMAIN view \cup {r.id} /\ cells'[view'[r.id]] = r
         /\ \A i \in DOMAIN view : i # r.id =>
              view'[i] = view[i] /\ cells'[view'[i]] = cells[view[i]]
<1>1. cells \in Seq(Record) /\ Len(cells) \in Nat /\ DOMAIN cells = 1..Len(cells)
  BY Positions DEF Shapes, Cells
<1>2. /\ cells' \in Seq(Record) /\ Len(cells') = Len(cells) + 1
      /\ \A d \in 1..Len(cells) : cells'[d] = cells[d]
      /\ cells'[Len(cells) + 1] = r
  BY <1>1, AppendProperties
<1>3. DOMAIN cells' = 1..(Len(cells) + 1)
  BY <1>2, LenProperties
<1>4. /\ \A d \in DOMAIN cells : d \in DOMAIN cells' /\ cells'[d] = cells[d] /\ d # Len(cells) + 1
      /\ Len(cells) + 1 \in DOMAIN cells'
  BY <1>1, <1>2, <1>3
<1>5. /\ DOMAIN view' = DOMAIN view \cup {r.id} /\ view'[r.id] = Len(cells) + 1
      /\ \A i \in DOMAIN view : i # r.id => view'[i] = view[i]
  BY DEF With
<1>6. \A i \in DOMAIN view : view[i] \in DOMAIN cells
  BY DEF Shapes, Cells
<1>7. \A d \in DOMAIN cells' : cells'[d] \in Known'
  BY <1>1, <1>2, <1>3, <1>4 DEF Shapes, Cells
<1>8. handles' \subseteq DOMAIN cells' /\ DOMAIN view' \subseteq Id
  BY <1>4, <1>5, RecordIs DEF Shapes, Cells
<1>9. \A i \in DOMAIN view' : /\ view'[i] \in DOMAIN cells' /\ cells'[view'[i]].id[1] = i[1]
                              /\ Plain(i) => i = First(i[1])
  <2> SUFFICES ASSUME NEW i \in DOMAIN view'
               PROVE  /\ view'[i] \in DOMAIN cells' /\ cells'[view'[i]].id[1] = i[1]
                      /\ Plain(i) => i = First(i[1])
    OBVIOUS
  <2>1. CASE i = r.id
    BY <1>2, <1>4, <1>5, <2>1 DEF Known
  <2>2. CASE i # r.id
    BY <1>4, <1>5, <1>6, <2>2 DEF Shapes, Cells
  <2> QED
    BY <2>1, <2>2
<1>10. \A i, j \in DOMAIN view' : view'[i] = view'[j] => i = j
  BY <1>4, <1>5, <1>6 DEF Shapes, Cells
<1>11. Cells'
  BY <1>2, <1>7, <1>8, <1>9, <1>10 DEF Cells, Plain
<1> QED
  BY <1>2, <1>4, <1>5, <1>6, <1>11

LEMMA PutInViewKeepsView ==
  ASSUME ViewInv, NEW t \in Threads, PutInView(t)
  PROVE  ViewInv'
<1> USE DEF ViewInv
<1>0. PICK r, c, next : /\ r = thread[t].record /\ c = Len(cells) + 1
                        /\ next = [pc |-> "commit", cell |-> c, record |-> r]
  OBVIOUS
<1>1. /\ thread[t].pc = "push" /\ cells' = Append(cells, r)
      /\ view' = With(view, r.id, Len(cells) + 1)
      /\ thread' = [thread EXCEPT ![t] = next]
      /\ UNCHANGED <<stored, events, watch, missed, task, handles, mayWrite, ops, drops>>
  BY <1>0 DEF PutInView, watchVars
<1>2. /\ Known' = Known /\ r \in Record /\ r \in Known /\ r.rev = 1 /\ r.id \notin DOMAIN stored
      /\ \A u \in Threads : Writes(u) => u = t
  BY <1>0, <1>1, KnownIsRecord DEF Shapes, Threaded, Locks, Writes, Known
<1>3. /\ Cells'
      /\ \A d \in DOMAIN cells : d \in DOMAIN cells' /\ cells'[d] = cells[d]
      /\ c \in DOMAIN cells'
      /\ DOMAIN view' = DOMAIN view \cup {r.id} /\ cells'[view'[r.id]] = r
      /\ \A i \in DOMAIN view : i # r.id =>
           view'[i] = view[i] /\ cells'[view'[i]] = cells[view[i]]
  BY <1>0, <1>1, <1>2, CellsAppended
<1>4. /\ thread' = [u \in Threads |-> thread'[u]] /\ thread'[t] = next
      /\ next.pc = "commit" /\ next.cell = c /\ next.record = r
      /\ \A u \in Threads \ {t} : thread'[u] = thread[u]
  BY <1>0, <1>1 DEF Shapes, Threaded
<1>5. Table'
  BY <1>1, <1>2 DEF Shapes, Table
<1>6. Threaded'
  <2>1. ASSUME NEW u \in Threads
        PROVE  (/\ thread[u].pc \in {"idle", "update", "push", "commit", "look", "remove"}
                /\ thread[u].pc \in {"update", "commit", "look"} => thread[u].cell \in DOMAIN cells
                /\ thread[u].pc = "update" => thread[u].val \in 1..ops
                /\ Writes(u) => /\ thread[u].record \in Known /\ thread[u].record.rev = 1
                                /\ thread[u].record.id \notin DOMAIN stored
                /\ thread[u].pc = "remove" => thread[u].id \in Id)'
    <3>1. CASE u = t
      BY <1>1, <1>2, <1>3, <1>4, <3>1 DEF Writes
    <3>2. CASE u # t
      BY <1>1, <1>2, <1>3, <1>4, <3>2 DEF Shapes, Threaded, Writes
    <3> QED
      BY <3>1, <3>2
  <2> QED
    BY <1>4, <2>1 DEF Threaded
<1>7. Locks'
  BY <1>1, <1>4 DEF Shapes, Locks, Waiting, Writes, ViewRead
<1>8. Queued'
  BY <1>1, <1>2, <1>3 DEF Shapes, Queued
<1>9. Telling'
  BY <1>1, TellingStays
<1>10. ASSUME watch # "ended" PROVE Members' /\ Fitting'
  <2>1. Members'
    <3> SUFFICES ASSUME NEW id \in Id, id[1] \notin missed, ~Pending(id)'
                 PROVE  /\ id \in DOMAIN stored => id \in DOMAIN view'
                        /\ id \in DOMAIN view' \ DOMAIN stored =>
                             \E u \in Threads : (Committing(u, id) /\ (Plain(id) => Fits(thread[u].record)))'
      BY <1>1 DEF Members, Plain
    <3>1. ~Pending(id)
      BY <1>1 DEF Pending, InTask, About
    <3>2. CASE id = r.id
      <4>1. Committing(t, id)'
        BY <1>4, <3>2 DEF Committing
      <4>2. Fits(r)'
        BY <1>2, <1>3, RecordIs DEF Fits
      <4> QED
        BY <1>3, <1>4, <3>2, <4>1, <4>2
    <3>3. CASE id # r.id
      <4>1. \A u \in Threads : ~Committing(u, id)
        BY <1>0, <1>2, <3>3 DEF Committing, Writes
      <4> QED
        BY <1>3, <1>10, <3>1, <3>3, <4>1 DEF Members
    <3> QED
      BY <3>2, <3>3
  <2>2. Fitting'
    <3> SUFFICES ASSUME NEW id \in DOMAIN stored \cap DOMAIN view', Plain(id), id[1] \notin missed,
                        OnlyInserts(id)'
                 PROVE  (Fits(stored[id]))'
      BY <1>1 DEF Fitting, Plain
    <3>1. id # r.id /\ id \in DOMAIN view /\ stored[id].id = id
      BY <1>2, <1>3 DEF Shapes, Table
    <3>2. Fits(stored[id])
      BY <1>1, <1>10, <3>1 DEF Fitting, OnlyInserts, InTask, About
    <3> QED
      BY <1>1, <1>3, <3>1, <3>2 DEF Fits
  <2> QED
    BY <2>1, <2>2
<1> QED
  BY <1>1, <1>3, <1>5, <1>6, <1>7, <1>8, <1>9, <1>10 DEF Shapes

\* The event that is next goes from the queue.
LEMMA Shifted ==
  ASSUME Shapes, events # <<>>, events' = Tail(events)
  PROVE  /\ events' \in Seq(Event) /\ 1 \in DOMAIN events /\ Head(events) = events[1]
         /\ events[1] \in Event
         /\ \A k \in DOMAIN events' : /\ k \in Nat /\ k + 1 \in DOMAIN events
                                      /\ events'[k] = events[k + 1] /\ k + 1 > 1
         /\ \A k \in DOMAIN events : k # 1 => /\ k \in Nat /\ k > 1 /\ k - 1 \in DOMAIN events'
                                              /\ events'[k - 1] = events[k]
         /\ \A k \in DOMAIN events : k \in Nat /\ k >= 1
<1>1. events \in Seq(Event) /\ Len(events) \in Nat /\ DOMAIN events = 1..Len(events)
  BY Positions DEF Shapes, Queued
<1>2. /\ events' \in Seq(Event) /\ Len(events') = Len(events) - 1 /\ Head(events) = events[1]
      /\ Head(events) \in Event
      /\ \A i \in 1..Len(events') : events'[i] = events[i + 1]
  BY <1>1, HeadTailProperties
<1>3. Len(events') \in Nat /\ DOMAIN events' = 1..Len(events')
  BY <1>2, LenProperties
<1>4. 1 \in DOMAIN events
  BY <1>1, <1>2, <1>3
<1>5. \A k \in DOMAIN events' : /\ k \in Nat /\ k + 1 \in DOMAIN events
                                /\ events'[k] = events[k + 1] /\ k + 1 > 1
  BY <1>1, <1>2, <1>3
<1>6. \A k \in DOMAIN events : k # 1 => k \in Nat /\ k > 1 /\ k - 1 \in DOMAIN events'
  BY <1>1, <1>2, <1>3
<1>7. \A k \in DOMAIN events : k # 1 => events'[k - 1] = events[k]
  <2> SUFFICES ASSUME NEW k \in DOMAIN events, k # 1 PROVE events'[k - 1] = events[k]
    OBVIOUS
  <2>1. k - 1 \in DOMAIN events' /\ k \in Nat /\ (k - 1) + 1 = k
    BY <1>6
  <2> QED
    BY <1>5, <2>1
<1> QED
  BY <1>1, <1>2, <1>4, <1>5, <1>6, <1>7

\* It may be in the task's hands instead, if there is more to do for it.
LEMMA HeadIsTold ==
  ASSUME Shapes, Telling, task = Idle, events # <<>>, events' = Tail(events), stored' = stored,
         NEW e, e = events[1],
         task' # Idle => task'.event = e /\ e.kind # "delete"
  PROVE  Telling'
<1>1. /\ \A k \in DOMAIN events' : /\ k \in Nat /\ k + 1 \in DOMAIN events
                                   /\ events'[k] = events[k + 1] /\ k + 1 > 1
      /\ \A k \in DOMAIN events : k # 1 => /\ k \in Nat /\ k > 1 /\ k - 1 \in DOMAIN events'
                                           /\ events'[k - 1] = events[k]
      /\ \A k \in DOMAIN events : k \in Nat /\ k >= 1
      /\ 1 \in DOMAIN events
  BY Shifted
<1>2. \A x : Told(x)' <=> Told(x)
  BY DEF Told, Plain
<1>3. ASSUME NEW id, NEW m \in DOMAIN events, Deletes(m, id), m # 1
      PROVE  m - 1 \in DOMAIN events' /\ Deletes(m - 1, id)' /\ m \in Nat
  BY <1>1, <1>3 DEF Deletes, About
<1>4. \A id : InTask(id)' => About(1, id) /\ ~Deletes(1, id)
  BY DEF InTask, About, Deletes
<1>5. Truthful'
  <2>1. ASSUME NEW k \in DOMAIN events', NEW x, x = events'[k],
               \A j \in DOMAIN events' : j > k => ~About(j, x.record.id)'
        PROVE  Told(x)
    <3>1. k + 1 \in DOMAIN events /\ x = events[k + 1]
      BY <1>1, <2>1
    <3>2. ASSUME NEW j \in DOMAIN events, j > k + 1 PROVE ~About(j, x.record.id)
      <4>1. j - 1 \in DOMAIN events' /\ j - 1 > k /\ events'[j - 1] = events[j]
        BY <1>1, <2>1, <3>2
      <4> QED
        BY <2>1, <4>1 DEF About
    <3> QED
      BY <3>1, <3>2 DEF Telling, Truthful
  <2>2. ASSUME task' # Idle, \A j \in DOMAIN events' : ~About(j, e.record.id)'
        PROVE  Told(e)
    <3>1. ASSUME NEW j \in DOMAIN events, j > 1 PROVE ~About(j, e.record.id)
      BY <1>1, <2>2, <3>1 DEF About
    <3> QED
      BY <1>1, <3>1 DEF Telling, Truthful
  <2>3. ASSUME task' # Idle, \A j \in DOMAIN events' : (~About(j, task.event.record.id))'
        PROVE  (Told(task.event))'
    <3>1. PICK x : x = task'.event
      OBVIOUS
    <3>2. x = e /\ \A j \in DOMAIN events' : ~About(j, e.record.id)'
      BY <2>3, <3>1
    <3>3. Told(x)'
      BY <1>2, <2>2, <2>3, <3>2
    <3> QED
      BY <3>1, <3>3
  <2>4. ASSUME NEW k \in DOMAIN events',
               \A j \in DOMAIN events' : j > k => (~About(j, events[k].record.id))'
        PROVE  (Told(events[k]))'
    <3>1. PICK x : x = events'[k]
      OBVIOUS
    <3>2. Told(x)'
      BY <1>2, <2>1, <2>4, <3>1
    <3> QED
      BY <3>1, <3>2
  <2> QED
    BY <2>3, <2>4 DEF Truthful
<1>6. DeletesAreTold'
  <2> SUFFICES ASSUME NEW id \in Id \ DOMAIN stored
               PROVE  /\ \A k \in DOMAIN events' : About(k, id)' =>
                           \E m \in DOMAIN events' : m >= k /\ Deletes(m, id)'
                      /\ InTask(id)' => \E m \in DOMAIN events' : Deletes(m, id)'
    BY DEF DeletesAreTold
  <2>1. ASSUME NEW k \in DOMAIN events', About(k, id)'
        PROVE  \E m \in DOMAIN events' : m >= k /\ Deletes(m, id)'
    <3>1. k + 1 \in DOMAIN events /\ About(k + 1, id) /\ k \in Nat
      BY <1>1, <2>1 DEF About
    <3>2. PICK m \in DOMAIN events : m >= k + 1 /\ Deletes(m, id)
      BY <3>1 DEF Telling, DeletesAreTold
    <3>3. m # 1 /\ m \in Nat /\ m - 1 >= k
      BY <1>1, <2>1, <3>1, <3>2
    <3> QED
      BY <1>3, <3>2, <3>3
  <2>2. ASSUME InTask(id)' PROVE \E m \in DOMAIN events' : Deletes(m, id)'
    <3>1. PICK m \in DOMAIN events : Deletes(m, id)
      BY <1>1, <1>4, <2>2 DEF Telling, DeletesAreTold
    <3> QED
      BY <1>3, <1>4, <2>2, <3>1
  <2> QED
    BY <2>1, <2>2
<1>7. Alternate'
  <2> SUFFICES ASSUME NEW k \in DOMAIN events', NEW id, id = events'[k].record.id,
                      events'[k].kind = "insert", Plain(id)
               PROVE  /\ \A j \in DOMAIN events' : j < k /\ About(j, id)' =>
                           \E m \in DOMAIN events' : j <= m /\ m < k /\ Deletes(m, id)'
                      /\ InTask(id)' => \E m \in DOMAIN events' : m < k /\ Deletes(m, id)'
    BY DEF Alternate, Plain
  <2>1. /\ k + 1 \in DOMAIN events /\ events[k + 1].kind = "insert" /\ events[k + 1].record.id = id
        /\ k \in Nat /\ k + 1 > 1
    BY <1>1
  <2>2. ASSUME NEW j \in DOMAIN events, j < k + 1, About(j, id)
        PROVE  \E m \in DOMAIN events : j <= m /\ m < k + 1 /\ Deletes(m, id)
    BY <2>1, <2>2 DEF Telling, Alternate
  <2>3. ASSUME NEW j \in DOMAIN events', j < k, About(j, id)'
        PROVE  \E m \in DOMAIN events' : j <= m /\ m < k /\ Deletes(m, id)'
    <3>1. PICK i : i = j + 1
      OBVIOUS
    <3>2. i \in DOMAIN events /\ i < k + 1 /\ About(i, id) /\ i > 1 /\ j \in Nat
      BY <1>1, <2>1, <2>3, <3>1 DEF About
    <3>3. PICK m \in DOMAIN events : i <= m /\ m < k + 1 /\ Deletes(m, id)
      BY <2>2, <3>2
    <3>4. m \in Nat /\ m # 1 /\ j <= m - 1 /\ m - 1 < k
      BY <1>1, <2>1, <3>1, <3>2, <3>3
    <3> QED
      BY <1>3, <3>3, <3>4
  <2>4. ASSUME InTask(id)' PROVE \E m \in DOMAIN events' : m < k /\ Deletes(m, id)'
    <3>1. PICK m \in DOMAIN events : m < k + 1 /\ Deletes(m, id)
      BY <1>1, <1>4, <2>1, <2>2, <2>4
    <3>2. m # 1 /\ m \in Nat /\ m - 1 < k
      BY <1>1, <1>4, <2>1, <2>4, <3>1
    <3> QED
      BY <1>3, <3>1, <3>2
  <2> QED
    BY <2>3, <2>4
<1> QED
  BY <1>5, <1>6, <1>7 DEF Telling

\* The view has followed event e: what is still to be seen is about its row, or
\* what e says of it is so.
LEMMA EventIsFollowed ==
  ASSUME Shapes, Members, Fitting, NEW e \in Event, NEW d, d = e.record.id,
         UNCHANGED <<stored, thread, missed>>,
         \A id : id # d => (Pending(id) => Pending(id)') /\ (OnlyInserts(id)' => OnlyInserts(id)),
         \A id : id # d => /\ id \in DOMAIN view' <=> id \in DOMAIN view
                           /\ id \in DOMAIN view => cells'[view'[id]] = cells[view[id]],
         ~Pending(d)' => Told(e),
         d \in DOMAIN view' <=> e.kind # "delete",
         e.kind # "delete" /\ Plain(d) /\ d[1] \notin missed /\ d \in DOMAIN stored /\ OnlyInserts(d)'
           => (Fits(stored[d]))'
  PROVE  Members' /\ Fitting'
<1>1. ASSUME NEW r, r.id # d, r.id \in DOMAIN view, Fits(r) PROVE Fits(r)'
  BY <1>1 DEF Fits
<1>2. Members'
  <2> SUFFICES ASSUME NEW id \in Id, id[1] \notin missed, ~Pending(id)'
               PROVE  /\ id \in DOMAIN stored => id \in DOMAIN view'
                      /\ id \in DOMAIN view' \ DOMAIN stored =>
                           \E u \in Threads : (Committing(u, id) /\ (Plain(id) => Fits(thread[u].record)))'
    BY DEF Members, Plain
  <2>1. CASE id = d
    BY <2>1 DEF Told
  <2>2. CASE id # d
    <3>1. ~Pending(id)
      BY <2>2
    <3>2. ASSUME id \in DOMAIN view \ DOMAIN stored
          PROVE  \E u \in Threads : (Committing(u, id) /\ (Plain(id) => Fits(thread[u].record)))'
      <4>1. PICK u \in Threads : Committing(u, id) /\ (Plain(id) => Fits(thread[u].record))
        BY <3>1, <3>2 DEF Members
      <4>2. PICK r : r = thread[u].record
        OBVIOUS
      <4>3. Plain(id) => Fits(r)'
        BY <1>1, <2>2, <3>2, <4>1, <4>2 DEF Committing
      <4> QED
        BY <4>1, <4>2, <4>3 DEF Committing, Plain
    <3> QED
      BY <2>2, <3>1, <3>2 DEF Members
  <2> QED
    BY <2>1, <2>2
<1>3. Fitting'
  <2> SUFFICES ASSUME NEW id \in DOMAIN stored \cap DOMAIN view', Plain(id), id[1] \notin missed,
                      OnlyInserts(id)'
               PROVE  (Fits(stored[id]))'
    BY DEF Fitting, Plain
  <2>1. CASE id = d
    BY <2>1
  <2>2. CASE id # d
    <3>1. PICK r : r = stored[id]
      OBVIOUS
    <3>2. r.id = id /\ id \in DOMAIN view /\ Fits(r)
      BY <2>2, <3>1 DEF Shapes, Table, Fitting
    <3>3. Fits(r)'
      BY <1>1, <2>2, <3>2
    <3> QED
      BY <3>1, <3>3
  <2> QED
    BY <2>1, <2>2
<1> QED
  BY <1>2, <1>3

LEMMA SeeEventKeepsView ==
  ASSUME ViewInv, SeeEvent
  PROVE  ViewInv'
<1> USE DEF ViewInv
<1>0. PICK e, r, d : e = events[1] /\ r = e.record /\ d = r.id
  OBVIOUS
<1>1. /\ task = Idle /\ watch = "set" /\ events # <<>> /\ ~ViewRead /\ events' = Tail(events)
      /\ UNCHANGED <<stored, watch, missed, thread, handles, mayWrite, ops, drops>>
      /\ Known' = Known
  BY DEF SeeEvent, watchVars, Known
<1>2. /\ events' \in Seq(Event) /\ 1 \in DOMAIN events /\ Head(events) = e /\ e \in Event
      /\ \A k \in DOMAIN events' : /\ k \in Nat /\ k + 1 \in DOMAIN events
                                   /\ events'[k] = events[k + 1] /\ k + 1 > 1
      /\ \A k \in DOMAIN events : k # 1 => /\ k \in Nat /\ k > 1 /\ k - 1 \in DOMAIN events'
                                           /\ events'[k - 1] = events[k]
      /\ \A k \in DOMAIN events : k \in Nat /\ k >= 1
  BY <1>0, <1>1, Shifted
<1>3. /\ r \in Record /\ r \in Known /\ d \in Id /\ e.kind \in {"insert", "update", "delete"}
      /\ e.record = r
  BY <1>0, <1>2, EventIs DEF Shapes, Queued
<1>4. \/ /\ e.kind = "delete" /\ view' = Less(view, d) /\ cells' = cells /\ task' = Idle
      \/ /\ e.kind # "delete" /\ d \in DOMAIN view
         /\ task' = [pc |-> "entry", event |-> e] /\ cells' = cells /\ view' = view
      \/ /\ e.kind # "delete" /\ d \notin DOMAIN view
         /\ Insert(r) /\ task' = Idle
  BY <1>0, <1>1, <1>2 DEF SeeEvent, SeeDelete
<1>5. task' # Idle => task'.event = e /\ e.kind # "delete" /\ d \in DOMAIN view /\ view' = view
  BY <1>4
<1>6. Table'
  BY <1>1 DEF Shapes, Table
<1>7. /\ Cells' /\ DOMAIN cells \subseteq DOMAIN cells'
      /\ \A id : id # d => /\ id \in DOMAIN view' <=> id \in DOMAIN view
                           /\ id \in DOMAIN view => cells'[view'[id]] = cells[view[id]]
      /\ d \in DOMAIN view' <=> e.kind # "delete"
      /\ e.kind # "delete" /\ task' = Idle => cells'[view'[d]] = r
  <2>1. CASE e.kind = "delete" /\ view' = Less(view, d) /\ cells' = cells
    <3>1. /\ DOMAIN view' = DOMAIN view \ {d}
          /\ \A j \in DOMAIN view' : view'[j] = view[j]
      BY <2>1 DEF Less
    <3>2. Cells'
      BY <1>1, <2>1, <3>1 DEF Shapes, Cells
    <3> QED
      BY <2>1, <3>1, <3>2
  <2>2. CASE e.kind # "delete" /\ d \in DOMAIN view /\ task' # Idle /\ cells' = cells /\ view' = view
    <3>1. Cells'
      BY <1>1, <2>2 DEF Shapes, Cells
    <3> QED
      BY <2>2, <3>1
  <2>3. CASE e.kind # "delete" /\ d \notin DOMAIN view /\ Insert(r)
    <3>1. cells' = Append(cells, r) /\ view' = With(view, r.id, Len(cells) + 1)
      BY <2>3 DEF Insert
    <3>2. /\ Cells'
          /\ \A c \in DOMAIN cells : c \in DOMAIN cells'
          /\ DOMAIN view' = DOMAIN view \cup {r.id} /\ cells'[view'[r.id]] = r
          /\ \A i \in DOMAIN view : i # r.id => cells'[view'[i]] = cells[view[i]]
      BY <1>1, <1>3, <3>1, CellsAppended
    <3> QED
      BY <1>0, <2>3, <3>2
  <2> QED
    BY <1>4, <2>1, <2>2, <2>3 DEF Idle
<1>8. Threaded'
  BY <1>1, <1>7 DEF Shapes, Threaded, Writes
<1>9. Locks'
  BY <1>1 DEF Shapes, Locks, Waiting, Writes, ViewRead
<1>10. Queued'
  <2>1. \A k \in DOMAIN events' : events'[k].record \in Known'
    BY <1>1, <1>2 DEF Shapes, Queued
  <2> QED
    BY <1>0, <1>1, <1>2, <1>3, <1>5, <2>1 DEF Shapes, Queued
<1>11. Telling'
  BY <1>0, <1>1, <1>5, HeadIsTold
<1>12. Members' /\ Fitting'
  <2>1. ASSUME NEW id, NEW k \in DOMAIN events, About(k, id), k # 1
        PROVE  k - 1 \in DOMAIN events' /\ About(k - 1, id)' /\ events'[k - 1].kind = events[k].kind
    BY <1>2, <2>1 DEF About
  <2>2. ASSUME NEW id, id # d PROVE (Pending(id) => Pending(id)') /\ (OnlyInserts(id)' => OnlyInserts(id))
    <3>1. ~InTask(id) /\ ~About(1, id)
      BY <1>0, <1>1, <2>2 DEF InTask, About
    <3> QED
      BY <2>1, <3>1 DEF Pending, OnlyInserts
  <2>3. (\A k \in DOMAIN events' : ~About(k, d)') => Told(e)
    <3>1. ASSUME \A k \in DOMAIN events' : ~About(k, d)', NEW k \in DOMAIN events, k > 1
          PROVE  ~About(k, d)
      BY <1>2, <2>1, <3>1
    <3> QED
      BY <1>0, <1>2, <3>1 DEF Telling, Truthful
  <2>4. CASE task' # Idle
    <3>1. cells' = cells /\ view' = view /\ d \in DOMAIN view /\ InTask(d)' /\ e.kind # "delete" /\ task'.event = e
      BY <1>0, <1>4, <1>5, <2>4 DEF InTask
    <3>2. OnlyInserts(d)' => OnlyInserts(d)
      <4>1. ASSUME OnlyInserts(d)', NEW k \in DOMAIN events, About(k, d) PROVE events[k].kind = "insert"
        <5>1. CASE k = 1
          BY <1>0, <3>1, <4>1, <5>1 DEF OnlyInserts
        <5>2. CASE k # 1
          BY <2>1, <4>1, <5>2 DEF OnlyInserts
        <5> QED
          BY <5>1, <5>2
      <4> QED
        BY <1>1, <4>1 DEF OnlyInserts, InTask
    <3>3. ASSUME NEW id, OnlyInserts(id)' PROVE OnlyInserts(id)
      BY <2>2, <3>2, <3>3
    <3>4. ASSUME NEW id, Pending(id) PROVE Pending(id)'
      BY <2>2, <3>1, <3>4 DEF Pending
    <3>5. ASSUME NEW x, Fits(x) PROVE Fits(x)'
      BY <3>1, <3>5 DEF Fits
    <3>6. Members'
      <4> SUFFICES ASSUME NEW id \in Id, id[1] \notin missed, ~Pending(id)'
                   PROVE  /\ id \in DOMAIN stored => id \in DOMAIN view'
                          /\ id \in DOMAIN view' \ DOMAIN stored =>
                               \E u \in Threads : (Committing(u, id) /\ (Plain(id) => Fits(thread[u].record)))'
        BY <1>1 DEF Members, Plain
      <4>1. ASSUME id \in DOMAIN view \ DOMAIN stored
            PROVE  \E u \in Threads : (Committing(u, id) /\ (Plain(id) => Fits(thread[u].record)))'
        <5>1. PICK u \in Threads : Committing(u, id) /\ (Plain(id) => Fits(thread[u].record))
          BY <1>1, <3>4, <4>1 DEF Members
        <5>2. PICK x : x = thread[u].record
          OBVIOUS
        <5>3. Plain(id) => Fits(x)'
          BY <3>5, <5>1, <5>2
        <5> QED
          BY <1>1, <5>1, <5>2, <5>3 DEF Committing, Plain
      <4> QED
        BY <1>1, <3>1, <3>4, <4>1 DEF Members
    <3>7. Fitting'
      <4> SUFFICES ASSUME NEW id \in DOMAIN stored \cap DOMAIN view, Plain(id), id[1] \notin missed,
                          OnlyInserts(id)'
                   PROVE  (Fits(stored[id]))'
        BY <1>1, <3>1 DEF Fitting, Plain
      <4>1. PICK x : x = stored[id]
        OBVIOUS
      <4>2. Fits(x)'
        BY <1>1, <3>3, <3>5, <4>1 DEF Fitting
      <4> QED
        BY <1>1, <4>1, <4>2
    <3> QED
      BY <3>6, <3>7
  <2>5. CASE task' = Idle
    <3>1. ~Pending(d)' => Told(e)
      BY <2>3 DEF Pending
    <3>2. ASSUME e.kind # "delete", Plain(d), d[1] \notin missed, d \in DOMAIN stored, OnlyInserts(d)'
          PROVE  (Fits(stored[d]))'
      <4>1. ASSUME NEW k \in DOMAIN events', About(k, d)' PROVE FALSE
        <5>0. PICK n : n = k + 1
          OBVIOUS
        <5>1. n \in DOMAIN events /\ events[n].kind = "insert" /\ events[n].record.id = d /\ 1 < n
          BY <1>2, <3>2, <4>1, <5>0 DEF OnlyInserts, About
        <5>2. PICK m \in DOMAIN events : Deletes(m, d)
          <6>1. 1 \in DOMAIN events /\ About(1, d)
            BY <1>0, <1>2 DEF About
          <6> QED
            BY <3>2, <5>1, <6>1 DEF Telling, Alternate
        <5>3. m # 1
          BY <1>0, <3>2, <5>2 DEF Deletes
        <5> QED
          BY <2>1, <3>2, <5>2, <5>3 DEF OnlyInserts, Deletes
      <4>2. Told(e)
        BY <2>3, <4>1
      <4>3. stored[d] = r /\ r.rev \in Nat
        BY <1>0, <1>3, <3>2, <4>2, RecordIs DEF Told
      <4>4. Fits(r)'
        BY <1>0, <1>7, <2>5, <3>2, <4>3 DEF Fits
      <4> QED
        BY <1>1, <4>3, <4>4
    <3>3. e \in Event /\ d = e.record.id /\ UNCHANGED <<stored, thread, missed>>
      BY <1>0, <1>1, <1>2
    <3> QED
      BY <1>1, <1>7, <2>2, <3>1, <3>2, <3>3, EventIsFollowed
  <2> QED
    BY <2>4, <2>5
<1> QED
  BY <1>1, <1>6, <1>7, <1>8, <1>9, <1>10, <1>11, <1>12 DEF Shapes

LEMMA SeeEntryKeepsView ==
  ASSUME ViewInv, SeeEntry
  PROVE  ViewInv'
<1> USE DEF ViewInv
<1>0. PICK e, r, d, c : e = task.event /\ r = e.record /\ d = r.id /\ c = view[d]
  OBVIOUS
<1>1. /\ task # Idle /\ task' = Idle /\ watch = "set"
      /\ UNCHANGED <<stored, events, watch, missed, thread, handles, mayWrite, ops, drops>>
      /\ Known' = Known
  BY DEF SeeEntry, watchVars, Known, Shapes, Queued
<1>2. /\ e \in Event /\ e.record = r /\ r \in Record /\ r \in Known /\ d \in Id
      /\ e.kind \in {"insert", "update"} /\ d \in DOMAIN view /\ InTask(d)
      /\ r.rev \in Nat
  BY <1>0, <1>1, EventIs, RecordIs DEF Shapes, Queued, InTask
<1>3. \/ e.kind = "insert" /\ cells[c].rev = r.rev /\ cells' = cells /\ view' = view
      \/ e.kind = "insert" /\ Insert(r)
      \/ e.kind = "update" /\ cells[c].rev > r.rev /\ cells' = cells /\ view' = view
      \/ e.kind = "update" /\ cells' = [cells EXCEPT ![c] = r] /\ view' = view
  <2>1. c \in DOMAIN cells /\ cells[c] \in Record
    BY <1>0, <1>2, KnownIsRecord DEF Shapes, Cells
  <2>2. cells[c].rev \in Nat /\ (~(r.rev >= cells[c].rev) => cells[c].rev > r.rev)
    BY <1>2, <2>1, RecordIs
  <2> QED
    BY <1>0, <1>2, <2>2 DEF SeeEntry, SeeInsert, Follows
<1>4. /\ Cells' /\ DOMAIN cells \subseteq DOMAIN cells'
      /\ \A id : id # d => /\ id \in DOMAIN view' <=> id \in DOMAIN view
                           /\ id \in DOMAIN view => cells'[view'[id]] = cells[view[id]]
      /\ d \in DOMAIN view'
      /\ \/ e.kind = "insert" /\ cells'[view'[d]] = cells[view[d]]
         \/ cells'[view'[d]] = r
         \/ cells'[view'[d]].rev > r.rev
  <2>1. CASE cells' = cells /\ view' = view /\ (e.kind = "insert" \/ cells[c].rev > r.rev)
    <3>1. Cells'
      BY <1>1, <2>1 DEF Shapes, Cells
    <3> QED
      BY <1>0, <1>2, <2>1, <3>1
  <2>2. CASE Insert(r)
    <3>1. cells' = Append(cells, r) /\ view' = With(view, r.id, Len(cells) + 1)
      BY <2>2 DEF Insert
    <3>2. /\ Cells'
          /\ \A i \in DOMAIN cells : i \in DOMAIN cells'
          /\ DOMAIN view' = DOMAIN view \cup {r.id} /\ cells'[view'[r.id]] = r
          /\ \A i \in DOMAIN view : i # r.id => cells'[view'[i]] = cells[view[i]]
      BY <1>1, <1>2, <3>1, CellsAppended
    <3> QED
      BY <1>0, <2>2, <3>2
  <2>3. CASE cells' = [cells EXCEPT ![c] = r] /\ view' = view
    <3>1. /\ c \in DOMAIN cells /\ r.id[1] = cells[c].id[1]
          /\ \A id \in DOMAIN view : id # d => view[id] # c /\ view[id] \in DOMAIN cells
      BY <1>0, <1>2 DEF Shapes, Cells
    <3>2. /\ Cells' /\ DOMAIN cells' = DOMAIN cells /\ cells'[c] = r
          /\ \A i \in DOMAIN cells : i # c => cells'[i] = cells[i]
      BY <1>1, <1>2, <2>3, <3>1, CellsAfter
    <3> QED
      BY <1>0, <1>2, <2>3, <3>1, <3>2
  <2> QED
    BY <1>3, <2>1, <2>2, <2>3
<1>5. Table' /\ Queued'
  BY <1>1 DEF Shapes, Table, Queued
<1>6. Threaded'
  BY <1>1, <1>4 DEF Shapes, Threaded, Writes
<1>7. Locks'
  BY <1>1 DEF Shapes, Locks, Waiting, Writes, ViewRead
<1>8. Telling'
  BY <1>1 DEF Telling, Truthful, DeletesAreTold, Alternate, Told, About, InTask, Deletes
<1>9. Members' /\ Fitting'
  <2>1. \A id : id # d => (Pending(id) => Pending(id)') /\ (OnlyInserts(id)' => OnlyInserts(id))
    BY <1>0, <1>1 DEF Pending, OnlyInserts, InTask, About
  <2>2. (\A k \in DOMAIN events : ~About(k, d)) => Told(e)
    BY <1>0, <1>1 DEF Telling, Truthful
  <2>3. ~Pending(d)' => Told(e)
    BY <1>1, <2>2 DEF Pending, About
  <2>4. ASSUME Plain(d), d[1] \notin missed, d \in DOMAIN stored, OnlyInserts(d)'
        PROVE  (Fits(stored[d]))'
    <3>1. ASSUME NEW k \in DOMAIN events, About(k, d) PROVE FALSE
      <4>1. events[k].kind = "insert" /\ \A m \in DOMAIN events : ~Deletes(m, d)
        BY <1>1, <2>4, <3>1 DEF OnlyInserts, About, Deletes
      <4> QED
        BY <1>2, <2>4, <3>1, <4>1 DEF Telling, Alternate, About
    <3>2. stored[d] = r
      BY <1>0, <1>2, <2>2, <2>4, <3>1 DEF Told
    <3>3. e.kind = "insert" => Fits(r)
      BY <1>0, <1>1, <1>2, <2>4, <3>1, <3>2 DEF Fitting, OnlyInserts
    <3>4. Fits(r)'
      <4>1. PICK cell : cell = cells'[view'[d]]
        OBVIOUS
      <4>2. cell.rev >= r.rev /\ (cell.rev = r.rev => cell.val = r.val)
        <5>1. cell \in Record
          BY <1>4, <4>1 DEF Cells, Known
        <5>2. cell.rev \in Nat
          BY <5>1, RecordIs
        <5> QED
          BY <1>0, <1>2, <1>4, <3>3, <4>1, <5>2 DEF Fits
      <4> QED
        BY <1>0, <4>1, <4>2 DEF Fits
    <3> QED
      BY <1>1, <3>2, <3>4
  <2>5. e \in Event /\ d = e.record.id /\ UNCHANGED <<stored, thread, missed>> /\ e.kind # "delete"
    BY <1>0, <1>1, <1>2
  <2> QED
    BY <1>1, <1>4, <2>1, <2>3, <2>4, <2>5, EventIsFollowed
<1> QED
  BY <1>1, <1>4, <1>5, <1>6, <1>7, <1>8, <1>9 DEF Shapes

-----------------------------------------------------------------------------
(* The invariant.                                                          *)

LEMMA ViewInitially ==
  ASSUME ResidentInit
  PROVE  ViewInv
<1>1. PICK held \in {<<>>} \cup {<<NewRecord(row, 0)>> : row \in Rows} :
        /\ cells = held
        /\ view = [i \in {held[c].id : c \in DOMAIN held} |-> 1]
        /\ stored = [i \in DOMAIN view |-> held[1]]
  BY DEF ResidentInit
<1>2. /\ events = <<>> /\ watch = "unset" /\ missed = {} /\ handles = {}
      /\ thread = [t \in Threads |-> Idle] /\ task = Idle
      /\ mayWrite \in BOOLEAN /\ ops = 0 /\ drops = 0
      /\ 0 \in 0..MaxOps /\ 0 \in 0..MaxDrops
  BY ResidentAssumption DEF ResidentInit
<1>3. Threaded /\ Locks
  BY <1>2 DEF Threaded, Locks, Idle, Writes, Waiting, ViewRead
<1>4. Queued
  BY <1>2 DEF Queued, Idle
<1>5. Telling
  BY <1>2 DEF Telling, Truthful, DeletesAreTold, Alternate, InTask
<1>6. Table /\ Cells /\ Members /\ Fitting
  <2>1. CASE held = <<>>
    <3>1. DOMAIN view = {} /\ DOMAIN stored = {} /\ cells = <<>> /\ DOMAIN cells = {} /\ cells \in Seq(Record)
      BY <1>1, <2>1
    <3> QED
      BY <1>2, <3>1 DEF Table, Cells, Members, Fitting
  <2>2. CASE \E row \in Rows : held = <<NewRecord(row, 0)>>
    <3>1. PICK row \in Rows : held = <<NewRecord(row, 0)>>
      BY <2>2
    <3>2. PICK r : r = NewRecord(row, 0)
      OBVIOUS
    <3>3. r \in Record /\ r.id = First(row) /\ r.rev = 1 /\ r.val = 0 /\ r.id \in Id /\ r.id[1] = row
      BY <1>2, <3>2, NewRecordIs
    <3>4. r \in Known
      BY <1>2, <3>3 DEF Known
    <3>5. cells = <<r>> /\ cells \in Seq(Record) /\ DOMAIN cells = {1} /\ cells[1] = r
      BY <1>1, <3>1, <3>2, <3>3
    <3>6. /\ DOMAIN view = {r.id} /\ view[r.id] = 1
          /\ DOMAIN stored = {r.id} /\ stored[r.id] = r
      BY <1>1, <3>5
    <3>7. Table
      BY <1>2, <3>3, <3>4, <3>6 DEF Table
    <3>8. Cells
      BY <1>2, <3>3, <3>4, <3>5, <3>6 DEF Cells
    <3>9. Members
      BY <3>6 DEF Members
    <3>10. Fitting
      BY <3>3, <3>5, <3>6 DEF Fitting, Fits
    <3> QED
      BY <3>7, <3>8, <3>9, <3>10
  <2> QED
    BY <2>1, <2>2
<1> QED
  BY <1>3, <1>4, <1>5, <1>6 DEF ViewInv, Shapes

LEMMA ViewInvKept ==
  ASSUME ViewInv, [ResidentNext]_residentVars
  PROVE  ViewInv'
<1>1. CASE UNCHANGED residentVars
  <2>1. UNCHANGED <<stored, events, watch, missed, cells, view, thread, task, handles, mayWrite, ops, drops>>
    BY <1>1 DEF residentVars
  <2>2. Table' /\ Cells' /\ Queued'
    BY <2>1 DEF ViewInv, Shapes, Table, Cells, Queued, Known
  <2>3. Threaded' /\ Locks'
    BY <2>1 DEF ViewInv, Shapes, Threaded, Locks, Writes, Waiting, ViewRead, Known
  <2>4. Telling' /\ (watch # "ended" => Members' /\ Fitting')
    BY <2>1, TellingStays, ViewStays DEF ViewInv
  <2> QED
    BY <2>1, <2>2, <2>3, <2>4 DEF ViewInv, Shapes
<1>2. ASSUME NEW t \in Threads, \E c \in Held : BeginUpdate(t, c) PROVE ViewInv'
  BY <1>2, BeginUpdateKeepsView
<1>3. ASSUME NEW t \in Threads, \E row \in Rows : BeginPush(t, row) PROVE ViewInv'
  BY <1>3, BeginPushKeepsView
<1>4. ASSUME NEW t \in Threads, \E id \in DOMAIN view : BeginRemove(t, id) PROVE ViewInv'
  BY <1>4, BeginRemoveKeepsView
<1>5. ASSUME NEW t \in Threads, ThreadStep(t) PROVE ViewInv'
  BY <1>5, RefuseUpdateKeepsView, CommitUpdateKeepsView, PutInViewKeepsView, CommitPushKeepsView,
     ReadToRemoveKeepsView, CommitRemoveKeepsView DEF ThreadStep
<1>6. CASE \E row \in Rows : Replicated(row)
  BY <1>6, ReplicatedKeepsView
<1>7. CASE \E id \in DOMAIN stored : ReplicatedDelete(id)
  BY <1>7, ReplicatedDeleteKeepsView
<1>8. CASE ChangeHands \/ SetWatch \/ DropClone
  BY <1>8, ChangeHandsKeepsView, SetWatchKeepsView, DropCloneKeepsView
<1>9. CASE TaskStep
  BY <1>9, SeeEventKeepsView, SeeEntryKeepsView DEF TaskStep
<1> QED
  BY <1>1, <1>2, <1>3, <1>4, <1>5, <1>6, <1>7, <1>8, <1>9 DEF ResidentNext

LEMMA ViewInvAlways == ResidentSpec => []ViewInv
<1>1. ResidentInit => ViewInv
  BY ViewInitially
<1>2. ViewInv /\ [ResidentNext]_residentVars => ViewInv'
  BY ViewInvKept
<1> QED
  BY <1>1, <1>2, PTL DEF ResidentSpec

-----------------------------------------------------------------------------
(* How new the view is.                                                    *)

\* A row of which ShowsTable asks for the very record.
Clean(id) == Plain(id) /\ id[1] \notin missed /\ id[1] \notin spoiled

\* It is deleted by event k or by a later one.
Doomed(id, k) == \E m \in DOMAIN events : m >= k /\ Deletes(m, id)

\* The revision in the table, or that of the record a push will put there.
Top(id) == IF id \in DOMAIN stored THEN stored[id].rev ELSE 1

\* An update that waits has raised the revision of its cell.
Raised(c) == IF Locked(c) THEN 1 ELSE 0

CellIsNoNewer(id) ==
  id \in DOMAIN view /\ ~Doomed(id, 1) => cells[view[id]].rev <= Top(id) + Raised(view[id])

QueueIsNoNewer(id) ==
  \A k \in DOMAIN events : About(k, id) /\ ~Doomed(id, k) => events[k].record.rev <= Top(id)

TaskIsNoNewer(id) == InTask(id) /\ ~Doomed(id, 1) => task.event.record.rev <= Top(id)

\* Neither the entry of a row nor what is to be seen of it is newer than the table.
NoneNewer ==
  \A id \in Id : Clean(id) => CellIsNoNewer(id) /\ QueueIsNoNewer(id) /\ TaskIsNoNewer(id)

NewestInv == spoiled \subseteq Rows /\ (watch # "ended" => NoneNewer)

LEMMA Revisions ==
  ASSUME Shapes
  PROVE  /\ \A id : Top(id) \in Nat /\ Top(id) >= 1
         /\ \A c : Raised(c) \in {0, 1}
         /\ \A c \in DOMAIN cells : cells[c].rev \in Nat
         /\ \A id \in DOMAIN view : view[id] \in DOMAIN cells
         /\ \A k \in DOMAIN events : events[k].record.rev \in Nat
         /\ task # Idle => task.event.record.rev \in Nat
<1>1. \A id : Top(id) \in Nat /\ Top(id) >= 1
  BY RecordIs, KnownIsRecord DEF Top, Shapes, Table
<1>2. \A c : Raised(c) \in {0, 1}
  BY DEF Raised
<1>3. /\ \A c \in DOMAIN cells : cells[c].rev \in Nat
      /\ \A id \in DOMAIN view : view[id] \in DOMAIN cells
  BY RecordIs, KnownIsRecord DEF Shapes, Cells
<1>4. /\ \A k \in DOMAIN events : events[k].record.rev \in Nat
      /\ task # Idle => task.event.record.rev \in Nat
  BY RecordIs, KnownIsRecord DEF Shapes, Queued
<1> QED
  BY <1>1, <1>2, <1>3, <1>4

\* The table, the queue and the members of the view stay.
LEMMA NoneNewerStays ==
  ASSUME NoneNewer, UNCHANGED <<stored, events, task, view, missed>>, spoiled \subseteq spoiled',
         \A id \in DOMAIN view :
           Clean(id)' /\ cells[view[id]].rev <= Top(id) + Raised(view[id])
             => cells'[view[id]].rev <= Top(id) + Raised(view[id])'
  PROVE  NoneNewer'
<1> SUFFICES ASSUME NEW id \in Id, Clean(id)'
             PROVE  (CellIsNoNewer(id) /\ QueueIsNoNewer(id) /\ TaskIsNoNewer(id))'
  BY DEF NoneNewer
<1>1. Clean(id)
  BY DEF Clean
<1>2. CellIsNoNewer(id) /\ QueueIsNoNewer(id) /\ TaskIsNoNewer(id)
  BY <1>1 DEF NoneNewer
<1>3. /\ Top(id)' = Top(id) /\ InTask(id)' = InTask(id)
      /\ \A k : (Doomed(id, k)' <=> Doomed(id, k)) /\ (About(k, id)' <=> About(k, id))
  BY DEF Top, InTask, Doomed, Deletes, About
<1>4. CellIsNoNewer(id)'
  BY <1>2, <1>3 DEF CellIsNoNewer
<1>5. QueueIsNoNewer(id)'
  BY <1>2, <1>3 DEF QueueIsNoNewer
<1>6. TaskIsNoNewer(id)'
  BY <1>2, <1>3 DEF TaskIsNoNewer
<1> QED
  BY <1>4, <1>5, <1>6

\* Who begins or ends something else than an update locks and frees no cell.
LEMMA LocksStay ==
  ASSUME Shapes, NEW t \in Threads, thread[t].pc # "update", thread'[t].pc # "update",
         \A u \in Threads \ {t} : thread'[u] = thread[u]
  PROVE  \A c : Raised(c)' = Raised(c)
<1>1. Waiting' = Waiting /\ \A u \in Waiting : thread'[u] = thread[u]
  BY DEF Waiting
<1> QED
  BY <1>1 DEF Raised, Locked

LEMMA MoveKeepsNewest ==
  ASSUME ViewInv, NewestInv, NEW t \in Threads,
         (\E row \in Rows : BeginPush(t, row)) \/ (\E id \in DOMAIN view : BeginRemove(t, id))
           \/ ReadToRemove(t)
  PROVE  NewestInv'
<1>1. /\ UNCHANGED <<stored, events, watch, missed, spoiled, cells, view, task>>
      /\ thread[t].pc # "update" /\ thread'[t].pc # "update"
      /\ \A u \in Threads \ {t} : thread'[u] = thread[u]
  <2>1. thread = [u \in Threads |-> thread[u]]
    BY DEF ViewInv, Shapes, Threaded
  <2>2. CASE \E row \in Rows : BeginPush(t, row)
    BY <2>1, <2>2 DEF BeginPush, watchVars, viewVars, Idle
  <2>3. CASE \E id \in DOMAIN view : BeginRemove(t, id)
    BY <2>1, <2>3 DEF BeginRemove, watchVars, viewVars, Idle
  <2>4. CASE ReadToRemove(t)
    BY <2>1, <2>4 DEF ReadToRemove, watchVars, viewVars, Idle
  <2> QED
    BY <2>2, <2>3, <2>4
<1>2. \A c : Raised(c)' = Raised(c)
  BY <1>1, LocksStay DEF ViewInv
<1>3. ASSUME watch # "ended" PROVE NoneNewer'
  BY <1>1, <1>2, <1>3, NoneNewerStays DEF NewestInv
<1> QED
  BY <1>1, <1>3 DEF NewestInv

LEMMA OutsideKeepsNewest ==
  ASSUME ViewInv, NewestInv, ChangeHands \/ SetWatch \/ DropClone \/ UNCHANGED residentVars
  PROVE  NewestInv'
<1>1. /\ spoiled' = spoiled
      /\ \/ watch' = "ended"
         \/ watch # "ended" /\ UNCHANGED <<stored, events, missed, cells, view, thread, task>>
         \/ watch' = watch /\ UNCHANGED <<stored, events, missed, cells, view, thread, task>>
  BY DEF ChangeHands, SetWatch, DropClone, residentVars, watchVars, viewVars
<1>2. ASSUME watch # "ended", UNCHANGED <<stored, events, missed, cells, view, thread, task>>
      PROVE  NoneNewer'
  <2>1. \A c : Raised(c)' = Raised(c)
    BY <1>2 DEF Raised, Locked, Waiting
  <2> QED
    BY <1>1, <1>2, <2>1, NoneNewerStays DEF NewestInv
<1> QED
  BY <1>1, <1>2 DEF NewestInv

LEMMA BeginUpdateKeepsNewest ==
  ASSUME ViewInv, NewestInv, NEW t \in Threads, NEW c \in Held, BeginUpdate(t, c)
  PROVE  NewestInv'
<1>1. /\ watch' = watch /\ ~Locked(c) /\ thread[t].pc = "idle"
      /\ thread'[t].pc = "update" /\ thread'[t].cell = c
      /\ \A u \in Threads \ {t} : thread'[u] = thread[u]
      /\ cells' = [cells EXCEPT ![c].rev = @ + 1]
      /\ UNCHANGED <<stored, events, missed, spoiled, view, task>>
  BY DEF BeginUpdate, watchVars, Idle, ViewInv, Shapes, Threaded
<1>2. \A d : d # c => Raised(d)' = Raised(d)
  BY <1>1 DEF Raised, Locked, Waiting
<1>3. Raised(c) = 0 /\ Raised(c)' = 1
  BY <1>1 DEF Raised, Locked, Waiting
<1>4. c \in DOMAIN cells /\ cells[c] \in Record /\ cells[c].rev \in Nat
  BY KnownIsRecord, RecordIs DEF Held, ViewInv, Shapes, Cells
<1>5. /\ cells'[c].rev = cells[c].rev + 1
      /\ \A d \in DOMAIN cells : d # c => cells'[d] = cells[d]
  <2>1. cells' = [d \in DOMAIN cells |-> IF d = c THEN [cells[c] EXCEPT !.rev = @ + 1] ELSE cells[d]]
    BY <1>1
  <2>2. [cells[c] EXCEPT !.rev = @ + 1].rev = cells[c].rev + 1
    BY <1>4 DEF Record
  <2> QED
    BY <1>4, <2>1, <2>2
<1>6. ASSUME watch # "ended" PROVE NoneNewer'
  <2>1. ASSUME NEW id \in DOMAIN view, cells[view[id]].rev <= Top(id) + Raised(view[id])
        PROVE  cells'[view[id]].rev <= Top(id) + Raised(view[id])'
    <3>1. view[id] \in DOMAIN cells /\ Top(id) \in Nat /\ view' = view
      BY <1>1, Revisions DEF ViewInv
    <3>2. CASE view[id] = c
      BY <1>3, <1>4, <1>5, <2>1, <3>1, <3>2
    <3>3. CASE view[id] # c
      BY <1>2, <1>5, <2>1, <3>1, <3>3
    <3> QED
      BY <3>2, <3>3
  <2> QED
    BY <1>1, <1>6, <2>1, NoneNewerStays DEF NewestInv
<1> QED
  BY <1>1, <1>6 DEF NewestInv

LEMMA RefuseUpdateKeepsNewest ==
  ASSUME ViewInv, NewestInv, NEW t \in Threads, RefuseUpdate(t)
  PROVE  NewestInv'
<1>0. PICK c : c = thread[t].cell
  OBVIOUS
<1>1. /\ thread[t].pc = "update" /\ spoiled' = spoiled \cup {cells[c].id[1]}
      /\ thread'[t].pc = "idle" /\ \A u \in Threads \ {t} : thread'[u] = thread[u]
      /\ UNCHANGED <<stored, events, watch, missed, cells, view, task>>
  BY <1>0 DEF RefuseUpdate, Rest, Waiting, Idle, ViewInv, Shapes, Threaded
<1>2. c \in DOMAIN cells /\ cells[c].id[1] \in Rows
  BY <1>0, <1>1, KnownIsRecord, RecordIs DEF ViewInv, Shapes, Threaded, Cells
<1>3. \A d : d # c => Raised(d)' = Raised(d)
  BY <1>0, <1>1 DEF Raised, Locked, Waiting
<1>4. ASSUME NEW id \in DOMAIN view, Clean(id)' PROVE view[id] # c
  BY <1>1, <1>4 DEF Clean, ViewInv, Shapes, Cells
<1>5. ASSUME watch # "ended" PROVE NoneNewer'
  BY <1>1, <1>3, <1>4, <1>5, NoneNewerStays DEF NewestInv
<1> QED
  BY <1>1, <1>2, <1>5 DEF NewestInv

\* After a commit: it deletes the row, or the table has it at no lower revision than
\* before, at that of the event at least, and not below its entry.
LEMMA CommittedIsNoneNewer ==
  ASSUME Shapes, NoneNewer, NEW seen \in Seq(Event), See(seen), UNCHANGED <<watch, task, view>>,
         watch # "ended", spoiled \subseteq spoiled',
         \A id \in Id : Clean(id)' =>
           \/ /\ IsSeen(seen, id)
              /\ \A k \in DOMAIN seen : seen[k].record.id = id => seen[k].kind = "delete"
           \/ /\ Top(id)' \in Nat /\ Top(id) <= Top(id)'
              /\ \A k \in DOMAIN seen : seen[k].record.id = id => seen[k].record.rev <= Top(id)'
              /\ id \in DOMAIN view /\ cells[view[id]].rev <= Top(id) + Raised(view[id])
                   => cells'[view[id]].rev <= Top(id)' + Raised(view[id])'
  PROVE  NoneNewer'
<1> SUFFICES ASSUME NEW id \in Id, Clean(id)'
             PROVE  (CellIsNoNewer(id) /\ QueueIsNoNewer(id) /\ TaskIsNoNewer(id))'
  BY DEF NoneNewer
<1>0. missed \subseteq missed' /\ (watch = "unset" => ~IsSeen(seen, id))
  BY DEF See, IsSeen, Clean
<1>1. CellIsNoNewer(id) /\ QueueIsNoNewer(id) /\ TaskIsNoNewer(id)
  BY <1>0 DEF NoneNewer, Clean, Plain
<1>2. Top(id) \in Nat /\ (InTask(id)' <=> InTask(id))
  BY Revisions DEF InTask
<1>3. CASE watch # "set"
  <2>1. /\ events = <<>> /\ events' = <<>> /\ task = Idle /\ task' = Idle /\ watch = "unset"
        /\ DOMAIN events = {} /\ DOMAIN events' = {}
    BY <1>3 DEF Shapes, Queued, See
  <2>2. ~Doomed(id, 1) /\ ~InTask(id)'
    BY <2>1 DEF Doomed, InTask
  <2>3. CellIsNoNewer(id)'
    BY <1>0, <1>1, <2>1, <2>2 DEF CellIsNoNewer
  <2> QED
    BY <2>1, <2>2, <2>3 DEF QueueIsNoNewer, TaskIsNoNewer
<1>4. CASE watch = "set"
  <2>1. /\ DOMAIN events \subseteq DOMAIN events'
        /\ \A k \in DOMAIN events : events'[k] = events[k]
        /\ \A j \in DOMAIN seen : Len(events) + j \in DOMAIN events' /\ events'[Len(events) + j] = seen[j]
        /\ \A k \in DOMAIN events' \ DOMAIN events : k - Len(events) \in DOMAIN seen /\ k > Len(events)
        /\ events' \in Seq(Event)
    BY <1>4, Seeing
  <2>2. /\ DOMAIN events' = 1..Len(events') /\ Len(events') \in Nat
        /\ DOMAIN seen = 1..Len(seen) /\ Len(seen) \in Nat
        /\ Len(events) \in Nat /\ DOMAIN events = 1..Len(events)
    BY <2>1, LenProperties, Positions
  <2>3. \A k \in DOMAIN events' \ DOMAIN events : events'[k] = seen[k - Len(events)]
    BY <2>1, <2>2
  <2>4. \A k : Doomed(id, k) => Doomed(id, k)'
    BY <2>1 DEF Doomed, Deletes, About
  <2>5. CASE IsSeen(seen, id) /\ \A k \in DOMAIN seen : seen[k].record.id = id => seen[k].kind = "delete"
    <3>1. PICK j \in DOMAIN seen : seen[j].record.id = id /\ seen[j].kind = "delete"
      BY <2>5 DEF IsSeen
    <3>2. PICK m : m = Len(events) + j
      OBVIOUS
    <3>3. m \in DOMAIN events' /\ Deletes(m, id)' /\ m >= 1 /\ \A k \in DOMAIN events : m >= k
      BY <2>1, <2>2, <3>1, <3>2 DEF Deletes, About
    <3>4. Doomed(id, 1)' /\ \A k \in DOMAIN events : Doomed(id, k)'
      BY <3>3 DEF Doomed
    <3>5. ASSUME NEW k \in DOMAIN events' \ DOMAIN events, About(k, id)' PROVE Doomed(id, k)'
      <4>1. Deletes(k, id)'
        BY <2>1, <2>3, <2>5, <3>5 DEF Deletes, About
      <4> QED
        BY <2>2, <4>1 DEF Doomed
    <3> QED
      BY <3>4, <3>5 DEF CellIsNoNewer, QueueIsNoNewer, TaskIsNoNewer
  <2>6. CASE ~(IsSeen(seen, id) /\ \A k \in DOMAIN seen : seen[k].record.id = id => seen[k].kind = "delete")
    <3>1. /\ Top(id)' \in Nat /\ Top(id) <= Top(id)'
          /\ \A k \in DOMAIN seen : seen[k].record.id = id => seen[k].record.rev <= Top(id)'
          /\ id \in DOMAIN view /\ cells[view[id]].rev <= Top(id) + Raised(view[id])
               => cells'[view[id]].rev <= Top(id)' + Raised(view[id])'
      BY <2>6
    <3>2. CellIsNoNewer(id)'
      BY <1>1, <2>4, <3>1 DEF CellIsNoNewer
    <3>3. QueueIsNoNewer(id)'
      <4> SUFFICES ASSUME NEW k \in DOMAIN events', About(k, id)', ~Doomed(id, k)'
                   PROVE  events'[k].record.rev <= Top(id)'
        BY DEF QueueIsNoNewer
      <4>1. CASE k \in DOMAIN events
        <5>1. About(k, id) /\ ~Doomed(id, k) /\ events'[k] = events[k]
          BY <2>1, <2>4, <4>1 DEF About
        <5>2. events[k].record.rev <= Top(id) /\ events[k].record.rev \in Nat
          BY <1>1, <4>1, <5>1, Revisions DEF QueueIsNoNewer
        <5> QED
          BY <1>2, <3>1, <5>1, <5>2
      <4>2. CASE k \notin DOMAIN events
        BY <2>1, <2>3, <3>1, <4>2 DEF About
      <4> QED
        BY <4>1, <4>2
    <3>4. TaskIsNoNewer(id)'
      <4> SUFFICES ASSUME InTask(id)', ~Doomed(id, 1)'
                   PROVE  task'.event.record.rev <= Top(id)'
        BY DEF TaskIsNoNewer
      <4>1. InTask(id) /\ ~Doomed(id, 1) /\ task # Idle /\ task' = task
        BY <1>2, <2>4 DEF InTask
      <4>2. task.event.record.rev <= Top(id) /\ task.event.record.rev \in Nat
        BY <1>1, <4>1, Revisions DEF TaskIsNoNewer
      <4> QED
        BY <1>2, <3>1, <4>1, <4>2
    <3> QED
      BY <3>2, <3>3, <3>4
  <2> QED
    BY <2>5, <2>6
<1> QED
  BY <1>3, <1>4

\* A record that replaces one of an earlier revision, or none.
LEMMA UpsertKeepsNewest ==
  ASSUME ViewInv, NewestInv, NEW r \in Record, Upsert(r), UNCHANGED <<watch, task, view, cells>>,
         spoiled' = spoiled, r.id \in DOMAIN stored => r.rev >= stored[r.id].rev,
         \A c : Raised(c)' = Raised(c)
  PROVE  NewestInv'
<1>1. PICK seen : seen = <<Change(r)>>
  OBVIOUS
<1>2. /\ seen \in Seq(Event) /\ See(seen) /\ DOMAIN seen = {1} /\ seen[1].record = r
  BY <1>1, ChangeIs, One DEF Upsert
<1>3. /\ DOMAIN stored' = DOMAIN stored \cup {r.id} /\ stored'[r.id] = r
      /\ \A j \in DOMAIN stored : j # r.id => stored'[j] = stored[j]
  BY DEF Upsert, With
<1>4. r.rev \in Nat /\ r.rev >= 1
  BY RecordIs
<1>5. ASSUME NEW id \in Id
      PROVE  /\ Top(id)' \in Nat /\ Top(id) <= Top(id)'
             /\ \A k \in DOMAIN seen : seen[k].record.id = id => seen[k].record.rev <= Top(id)'
             /\ id \in DOMAIN view /\ cells[view[id]].rev <= Top(id) + Raised(view[id])
                  => cells'[view[id]].rev <= Top(id)' + Raised(view[id])'
  <2>0. Top(id) \in Nat
    BY Revisions DEF ViewInv
  <2>1. Top(id)' \in Nat /\ Top(id) <= Top(id)' /\ (id = r.id => Top(id)' = r.rev)
    <3>1. CASE id = r.id
      BY <1>3, <1>4, <2>0, <3>1 DEF Top
    <3>2. CASE id # r.id
      BY <1>3, <2>0, <3>2 DEF Top
    <3> QED
      BY <3>1, <3>2
  <2>2. ASSUME id \in DOMAIN view, cells[view[id]].rev <= Top(id) + Raised(view[id])
        PROVE  cells'[view[id]].rev <= Top(id)' + Raised(view[id])'
    <3>1. /\ cells[view[id]].rev \in Nat /\ Raised(view[id]) \in {0, 1}
          /\ Raised(view[id])' = Raised(view[id]) /\ cells'[view[id]].rev = cells[view[id]].rev
      BY <2>2, Revisions DEF ViewInv
    <3> QED
      BY <2>0, <2>1, <2>2, <3>1
  <2> QED
    BY <1>2, <1>4, <2>1, <2>2
<1>6. ASSUME watch # "ended" PROVE NoneNewer'
  BY <1>2, <1>5, <1>6, CommittedIsNoneNewer DEF ViewInv, NewestInv
<1> QED
  BY <1>6 DEF NewestInv

LEMMA DeleteKeepsNewest ==
  ASSUME ViewInv, NewestInv, NEW d \in Id, Delete(d), UNCHANGED <<watch, task, view, cells>>,
         spoiled' = spoiled, \A c : Raised(c)' = Raised(c)
  PROVE  NewestInv'
<1>1. /\ DOMAIN stored' = DOMAIN stored \ {d}
      /\ \A j \in DOMAIN stored : j # d => stored'[j] = stored[j]
  BY LessIs DEF Delete
<1>2. PICK e, seen : /\ e = [kind |-> "delete", record |-> stored[d]]
                     /\ seen = IF d \in DOMAIN stored THEN <<e>> ELSE <<>>
  OBVIOUS
<1>3. /\ seen \in Seq(Event) /\ See(seen)
      /\ DOMAIN seen = IF d \in DOMAIN stored THEN {1} ELSE {}
      /\ \A k \in DOMAIN seen : seen[k].record.id = d /\ seen[k].kind = "delete"
  <2>1. CASE d \in DOMAIN stored
    <3>1. e \in Event /\ e.record.id = d /\ e.kind = "delete"
      BY <1>2, <2>1, KnownIsRecord DEF ViewInv, Shapes, Table, Event
    <3>2. seen = <<e>> /\ seen \in Seq(Event) /\ DOMAIN seen = {1} /\ seen[1] = e
      BY <1>2, <2>1, <3>1, One
    <3> QED
      BY <1>2, <2>1, <3>1, <3>2 DEF Delete
  <2>2. CASE d \notin DOMAIN stored
    BY <1>2, <2>2 DEF Delete
  <2> QED
    BY <2>1, <2>2
<1>4. ASSUME NEW id \in Id, ~IsSeen(seen, id)
      PROVE  /\ Top(id)' \in Nat /\ Top(id) <= Top(id)'
             /\ \A k \in DOMAIN seen : seen[k].record.id = id => seen[k].record.rev <= Top(id)'
             /\ id \in DOMAIN view /\ cells[view[id]].rev <= Top(id) + Raised(view[id])
                  => cells'[view[id]].rev <= Top(id)' + Raised(view[id])'
  <2>1. id # d \/ d \notin DOMAIN stored
    BY <1>3, <1>4 DEF IsSeen
  <2>2. Top(id)' = Top(id) /\ Top(id) \in Nat
    BY <1>1, <2>1, Revisions DEF Top, ViewInv
  <2> QED
    BY <1>4, <2>2 DEF IsSeen
<1>5. ASSUME watch # "ended" PROVE NoneNewer'
  BY <1>3, <1>4, <1>5, CommittedIsNoneNewer DEF ViewInv, NewestInv, IsSeen
<1> QED
  BY <1>5 DEF NewestInv

LEMMA CommitKeepsNewest ==
  ASSUME ViewInv, NewestInv, NEW t \in Threads, CommitPush(t) \/ CommitRemove(t)
  PROVE  NewestInv'
<1>1. /\ UNCHANGED <<watch, spoiled, cells, view, task>>
      /\ thread[t].pc # "update" /\ thread'[t].pc # "update"
      /\ \A u \in Threads \ {t} : thread'[u] = thread[u]
  BY DEF CommitPush, CommitRemove, viewVars, Rest, Idle, ViewInv, Shapes, Threaded
<1>2. \A c : Raised(c)' = Raised(c)
  BY <1>1, LocksStay DEF ViewInv
<1>3. CASE CommitPush(t)
  <2>1. PICK r : r = thread[t].record
    OBVIOUS
  <2>2. Upsert(r) /\ r \in Record /\ r.id \notin DOMAIN stored
    BY <1>3, <2>1, KnownIsRecord DEF CommitPush, ViewInv, Shapes, Threaded, Writes
  <2> QED
    BY <1>1, <1>2, <2>2, UpsertKeepsNewest
<1>4. CASE CommitRemove(t)
  <2>1. PICK id : id = thread[t].id
    OBVIOUS
  <2>2. Delete(id) /\ id \in Id
    BY <1>4, <2>1 DEF CommitRemove, ViewInv, Shapes, Threaded
  <2> QED
    BY <1>1, <1>2, <2>2, DeleteKeepsNewest
<1> QED
  BY <1>3, <1>4

LEMMA ReplicationKeepsNewest ==
  ASSUME ViewInv, NewestInv,
         (\E row \in Rows : Replicated(row)) \/ (\E id \in DOMAIN stored : ReplicatedDelete(id))
  PROVE  NewestInv'
<1>1. UNCHANGED <<watch, spoiled, cells, view, task, thread>>
  BY DEF Replicated, ReplicatedDelete, viewVars
<1>2. \A c : Raised(c)' = Raised(c)
  BY <1>1 DEF Raised, Locked, Waiting
<1>3. ASSUME NEW row \in Rows, Replicated(row) PROVE NewestInv'
  <2>1. PICK id : id = First(row)
    OBVIOUS
  <2>2. PICK r : r = [id |-> id, val |-> ops + 1, rev |-> IF id \in DOMAIN stored THEN stored[id].rev + 1 ELSE 1]
    OBVIOUS
  <2>3. Upsert(r) /\ ops < MaxOps /\ ops \in Nat
    BY <1>3, <2>1, <2>2, ResidentAssumption DEF Replicated, Called, ViewInv, Shapes, Table
  <2>4. id \in DOMAIN stored => stored[id].rev \in Nat /\ stored[id].rev >= 1 /\ stored[id].rev <= ops + 1
    BY RecordIs DEF ViewInv, Shapes, Table, Known
  <2>5. r.id = id /\ (id \in DOMAIN stored => r.rev >= stored[id].rev)
    BY <2>2, <2>4
  <2>6. r \in Record
    BY <2>1, <2>2, <2>3, <2>4, NewRecordIs, ResidentAssumption DEF Record
  <2> QED
    BY <1>1, <1>2, <2>3, <2>5, <2>6, UpsertKeepsNewest
<1>4. ASSUME NEW id \in DOMAIN stored, ReplicatedDelete(id) PROVE NewestInv'
  <2>1. Delete(id) /\ id \in Id
    BY <1>4 DEF ReplicatedDelete, ViewInv, Shapes, Table
  <2> QED
    BY <1>1, <1>2, <2>1, DeleteKeepsNewest
<1> QED
  BY <1>3, <1>4

LEMMA CommitUpdateKeepsNewest ==
  ASSUME ViewInv, NewestInv, NEW t \in Threads, CommitUpdate(t)
  PROVE  NewestInv'
<1> DEFINE kept(r) == r.id[1] \in Temporal
<1>0. PICK c, v, last, next, seen :
        /\ c = thread[t].cell /\ v = thread[t].val /\ last = cells[c]
        /\ next = [last EXCEPT !.val = v,
                               !.id = IF @[1] \in Temporal THEN <<@[1], v>> ELSE @]
        /\ seen = IF kept(last) THEN <<Change(next), Change(last)>> ELSE <<Change(next)>>
  OBVIOUS
<1>1. /\ thread[t].pc = "update" /\ UNCHANGED <<watch, view, task, ops>>
      /\ thread'[t].pc = "idle" /\ \A u \in Threads \ {t} : thread'[u] = thread[u]
  BY DEF CommitUpdate, Rest, Waiting, Idle, ViewInv, Shapes, Threaded
<1>2. /\ kept(last) => stored' = With(With(stored, next.id, next), last.id, last)
      /\ ~kept(last) => stored' = With(stored, next.id, next)
  BY <1>0 DEF CommitUpdate
<1>3. /\ See(seen) /\ cells' = [cells EXCEPT ![c] = next]
      /\ spoiled' = IF next.id \in DOMAIN stored /\ next.rev # stored[next.id].rev + 1
                    THEN spoiled \cup {next.id[1]} ELSE spoiled
  BY <1>0 DEF CommitUpdate
<1>4. c \in DOMAIN cells /\ v \in 1..ops /\ last \in Known /\ last \in Record /\ ops \in 0..MaxOps
  BY <1>0, <1>1, KnownIsRecord DEF ViewInv, Shapes, Threaded, Cells, Table
<1>5. /\ next.rev = last.rev /\ next.val = v
      /\ next.id = IF kept(last) THEN <<last.id[1], v>> ELSE last.id
  BY <1>0, <1>4 DEF Record
<1>6. next \in Record /\ next.id[1] = last.id[1] /\ next.id[1] \in Rows /\ next.rev \in Nat /\ next.rev >= 1
  <2>1. /\ last.id \in Id /\ last.id[1] \in Rows /\ v \in 0..MaxOps
    BY <1>4, RecordIs, ResidentAssumption
  <2>2. next.id \in Id /\ next.id[1] = last.id[1]
    BY <1>5, <2>1 DEF Id
  <2>3. next \in Record
    BY <1>0, <1>4, <1>5, <2>1, <2>2 DEF Record
  <2> QED
    BY <2>2, <2>3, RecordIs
<1>7. /\ cells'[c] = next /\ \A d \in DOMAIN cells : d # c => cells'[d] = cells[d]
  BY <1>3, <1>4
<1>8. /\ \A d : d # c => Raised(d)' = Raised(d)
      /\ \A d : Raised(d)' \in {0, 1}
  BY <1>0, <1>1 DEF Raised, Locked, Waiting
<1>9. /\ Change(next) \in Event /\ Change(next).record = next
      /\ Change(last) \in Event /\ Change(last).record = last
  BY <1>4, <1>6, ChangeIs
<1>10. /\ seen \in Seq(Event)
       /\ \A k \in DOMAIN seen : seen[k].record.id[1] = last.id[1]
       /\ ~kept(last) => \A k \in DOMAIN seen : seen[k].record = next
  <2>1. CASE kept(last)
    <3>1. PICK a, b : a = Change(next) /\ b = Change(last)
      OBVIOUS
    <3>2. seen = <<a, b>> /\ a \in Event /\ b \in Event /\ a.record = next /\ b.record = last
      BY <1>0, <1>9, <2>1, <3>1
    <3>3. seen \in Seq(Event) /\ DOMAIN seen = {1, 2} /\ seen[1] = a /\ seen[2] = b
      BY <3>2
    <3> QED
      BY <1>6, <2>1, <3>2, <3>3
  <2>2. CASE ~kept(last)
    <3>1. seen \in Seq(Event) /\ DOMAIN seen = {1} /\ seen[1] = Change(next)
      BY <1>0, <1>9, <2>2, One
    <3> QED
      BY <1>6, <1>9, <2>2, <3>1
  <2> QED
    BY <2>1, <2>2
<1>11. ASSUME NEW id \in Id, Clean(id)'
       PROVE  /\ Top(id)' \in Nat /\ Top(id) <= Top(id)'
              /\ \A k \in DOMAIN seen : seen[k].record.id = id => seen[k].record.rev <= Top(id)'
              /\ id \in DOMAIN view /\ cells[view[id]].rev <= Top(id) + Raised(view[id])
                   => cells'[view[id]].rev <= Top(id)' + Raised(view[id])'
  <2>0. /\ Plain(id) /\ id[1] \notin spoiled' /\ Top(id) \in Nat /\ Top(id) >= 1
        /\ id \in DOMAIN view =>
             /\ view[id] \in DOMAIN cells /\ cells[view[id]].rev \in Nat
             /\ Raised(view[id]) \in {0, 1} /\ cells[view[id]].id[1] = id[1] /\ id = First(id[1])
    BY <1>11, Revisions DEF Clean, Plain, ViewInv, Shapes, Cells
  <2>1. CASE id = last.id
    <3>1. ~kept(last) /\ next.id = id
      BY <1>5, <2>0, <2>1 DEF Plain
    <3>2. id \in DOMAIN stored' /\ stored'[id] = next
      BY <1>2, <3>1 DEF With
    <3>3. Top(id)' = next.rev
      BY <3>2 DEF Top
    <3>4. Top(id) <= next.rev
      <4>1. CASE id \in DOMAIN stored
        <5>1. next.rev = stored[id].rev + 1
          BY <1>3, <2>0, <3>1, <4>1
        <5> QED
          BY <2>0, <4>1, <5>1 DEF Top
      <4>2. CASE id \notin DOMAIN stored
        BY <1>6, <4>2 DEF Top
      <4> QED
        BY <4>1, <4>2
    <3>5. ASSUME id \in DOMAIN view, cells[view[id]].rev <= Top(id) + Raised(view[id])
          PROVE  cells'[view[id]].rev <= Top(id)' + Raised(view[id])'
      <4>1. CASE view[id] = c
        <5>1. cells'[view[id]].rev = next.rev /\ Raised(view[id])' \in {0, 1}
          BY <1>1, <1>7, <1>8, <4>1
        <5> QED
          BY <1>6, <3>3, <5>1
      <4>2. CASE view[id] # c
        <5>1. cells'[view[id]] = cells[view[id]] /\ Raised(view[id])' = Raised(view[id])
          BY <1>1, <1>7, <1>8, <2>0, <3>5, <4>2
        <5> QED
          BY <1>6, <2>0, <3>3, <3>4, <3>5, <5>1
      <4> QED
        BY <4>1, <4>2
    <3> QED
      BY <1>6, <1>10, <3>1, <3>3, <3>4, <3>5
  <2>2. CASE id # last.id
    <3>1. id # next.id
      BY <1>5, <1>6, <2>0, <2>2 DEF Plain
    <3>2. (id \in DOMAIN stored' <=> id \in DOMAIN stored) /\ (id \in DOMAIN stored => stored'[id] = stored[id])
      BY <1>2, <2>2, <3>1 DEF With
    <3>3. Top(id)' = Top(id)
      BY <3>2 DEF Top
    <3>4. \A k \in DOMAIN seen : seen[k].record.id # id
      BY <1>4, <1>10, <2>0, <2>2, <3>1 DEF Plain
    <3>5. id \in DOMAIN view => view[id] # c
      BY <1>0, <1>4, <2>0, <2>2 DEF Known, Plain
    <3>6. id \in DOMAIN view =>
            cells'[view[id]] = cells[view[id]] /\ Raised(view[id])' = Raised(view[id])
      BY <1>1, <1>7, <1>8, <2>0, <3>5
    <3> QED
      BY <2>0, <3>3, <3>4, <3>6
  <2> QED
    BY <2>1, <2>2
<1>12. ASSUME watch # "ended" PROVE NoneNewer'
  <2>1. spoiled \subseteq spoiled'
    BY <1>3
  <2> QED
    BY <1>1, <1>3, <1>10, <1>11, <1>12, <2>1, CommittedIsNoneNewer DEF ViewInv, NewestInv
<1>13. spoiled' \subseteq Rows
  BY <1>3, <1>6 DEF NewestInv
<1> QED
  BY <1>1, <1>12, <1>13 DEF NewestInv

\* The view follows: entries of the row d only, and d's is no newer than the table.
LEMMA FollowedIsNoneNewer ==
  ASSUME Shapes, NoneNewer, NEW d, UNCHANGED <<stored, missed, spoiled, thread>>,
         \A id \in Id, k \in DOMAIN events' :
           /\ events'[k].record.rev \in Nat
           /\ About(k, id)' /\ ~Doomed(id, k)' =>
                \E j \in DOMAIN events : About(j, id) /\ ~Doomed(id, j) /\ events[j] = events'[k],
         \A id \in Id : id # d =>
           /\ ~Doomed(id, 1)' => ~Doomed(id, 1)
           /\ ~InTask(id)'
           /\ id \in DOMAIN view' => id \in DOMAIN view /\ view'[id] = view[id]
                                     /\ cells'[view'[id]] = cells[view[id]],
         Clean(d) /\ d \in Id => (CellIsNoNewer(d) /\ TaskIsNoNewer(d))'
  PROVE  NoneNewer'
<1> SUFFICES ASSUME NEW id \in Id, Clean(id)'
             PROVE  (CellIsNoNewer(id) /\ QueueIsNoNewer(id) /\ TaskIsNoNewer(id))'
  BY DEF NoneNewer
<1>1. Clean(id) /\ Top(id)' = Top(id) /\ \A c : Raised(c)' = Raised(c)
  BY DEF Clean, Plain, Top, Raised, Locked, Waiting
<1>2. CellIsNoNewer(id) /\ QueueIsNoNewer(id) /\ TaskIsNoNewer(id)
  BY <1>1 DEF NoneNewer
<1>3. QueueIsNoNewer(id)'
  <2> SUFFICES ASSUME NEW k \in DOMAIN events', About(k, id)', ~Doomed(id, k)'
               PROVE  events'[k].record.rev <= Top(id)'
    BY DEF QueueIsNoNewer
  <2>1. PICK j \in DOMAIN events : About(j, id) /\ ~Doomed(id, j) /\ events[j] = events'[k]
    OBVIOUS
  <2> QED
    BY <1>1, <1>2, <2>1 DEF QueueIsNoNewer
<1>4. CASE id = d
  BY <1>1, <1>3, <1>4
<1>5. CASE id # d
  <2>1. CellIsNoNewer(id)'
    <3> SUFFICES ASSUME id \in DOMAIN view', ~Doomed(id, 1)'
                 PROVE  cells'[view'[id]].rev <= Top(id)' + Raised(view[id])'
      BY DEF CellIsNoNewer
    <3>1. id \in DOMAIN view /\ view'[id] = view[id] /\ cells'[view'[id]] = cells[view[id]] /\ ~Doomed(id, 1)
      BY <1>5
    <3>2. PICK c : c = view'[id]
      OBVIOUS
    <3>3. Raised(c)' = Raised(c)
      BY <1>1
    <3>4. Raised(view[id])' = Raised(view[id])
      BY <3>1, <3>2, <3>3
    <3> QED
      BY <1>1, <1>2, <3>1, <3>4 DEF CellIsNoNewer
  <2>2. TaskIsNoNewer(id)'
    BY <1>5 DEF TaskIsNoNewer
  <2> QED
    BY <1>3, <2>1, <2>2
<1> QED
  BY <1>4, <1>5

LEMMA PutInViewKeepsNewest ==
  ASSUME ViewInv, NewestInv, NEW t \in Threads, PutInView(t)
  PROVE  NewestInv'
<1>0. PICK r : r = thread[t].record
  OBVIOUS
<1>1. /\ thread[t].pc = "push" /\ cells' = Append(cells, r)
      /\ view' = With(view, r.id, Len(cells) + 1)
      /\ UNCHANGED <<stored, events, watch, missed, spoiled, task, handles, ops>>
      /\ thread'[t].pc = "commit" /\ \A u \in Threads \ {t} : thread'[u] = thread[u]
  BY <1>0 DEF PutInView, watchVars, ViewInv, Shapes, Threaded
<1>2. Known' = Known /\ r \in Record /\ r \in Known /\ r.rev = 1 /\ r.id \in Id
  BY <1>0, <1>1, KnownIsRecord, RecordIs DEF ViewInv, Shapes, Threaded, Writes, Known
<1>3. /\ DOMAIN view' = DOMAIN view \cup {r.id} /\ cells'[view'[r.id]] = r
      /\ \A i \in DOMAIN view : i # r.id =>
           view'[i] = view[i] /\ cells'[view'[i]] = cells[view[i]]
  BY <1>1, <1>2, CellsAppended DEF ViewInv
<1>4. \A c : Raised(c)' = Raised(c)
  BY <1>1, LocksStay DEF ViewInv
<1>5. ASSUME watch # "ended" PROVE NoneNewer'
  <2> SUFFICES ASSUME NEW id \in Id, Clean(id)'
               PROVE  (CellIsNoNewer(id) /\ QueueIsNoNewer(id) /\ TaskIsNoNewer(id))'
    BY DEF NoneNewer
  <2>1. CellIsNoNewer(id) /\ QueueIsNoNewer(id) /\ TaskIsNoNewer(id)
    BY <1>1, <1>5 DEF NewestInv, NoneNewer, Clean, Plain
  <2>2. /\ Top(id)' = Top(id) /\ (InTask(id)' <=> InTask(id))
        /\ \A k : (Doomed(id, k)' <=> Doomed(id, k)) /\ (About(k, id)' <=> About(k, id))
    BY <1>1 DEF Top, InTask, Doomed, Deletes, About
  <2>3. QueueIsNoNewer(id)' /\ TaskIsNoNewer(id)'
    BY <1>1, <2>1, <2>2 DEF QueueIsNoNewer, TaskIsNoNewer
  <2>4. CellIsNoNewer(id)'
    <3>1. CASE id = r.id
      <4>1. PICK c : c = view'[id]
        OBVIOUS
      <4>2. /\ Top(id) \in Nat /\ Top(id) >= 1 /\ Raised(c) \in {0, 1} /\ Raised(c)' = Raised(c)
            /\ cells'[c].rev = 1
        BY <1>2, <1>3, <1>4, <3>1, <4>1, Revisions DEF ViewInv
      <4>3. cells'[c].rev <= Top(id)' + Raised(c)'
        BY <2>2, <4>2
      <4> QED
        BY <4>1, <4>3 DEF CellIsNoNewer
    <3>2. CASE id # r.id
      <4> SUFFICES ASSUME id \in DOMAIN view', ~Doomed(id, 1)'
                   PROVE  cells'[view'[id]].rev <= Top(id)' + Raised(view[id])'
        BY DEF CellIsNoNewer
      <4>1. PICK c : c = view[id]
        OBVIOUS
      <4>2. id \in DOMAIN view /\ view'[id] = c /\ cells'[view'[id]] = cells[c] /\ Raised(c)' = Raised(c)
        BY <1>3, <1>4, <3>2, <4>1
      <4>3. Raised(view[id])' = Raised(c)
        BY <4>2
      <4> QED
        BY <2>1, <2>2, <4>1, <4>2, <4>3 DEF CellIsNoNewer
    <3> QED
      BY <3>1, <3>2
  <2> QED
    BY <2>3, <2>4
<1> QED
  BY <1>1, <1>5 DEF NewestInv

LEMMA SeeEventKeepsNewest ==
  ASSUME ViewInv, NewestInv, SeeEvent
  PROVE  NewestInv'
<1>0. PICK e, r, d : e = events[1] /\ r = e.record /\ d = r.id
  OBVIOUS
<1>1. /\ task = Idle /\ watch = "set" /\ events # <<>> /\ events' = Tail(events)
      /\ UNCHANGED <<stored, watch, missed, spoiled, thread, handles, ops>>
      /\ Known' = Known
  BY DEF SeeEvent, watchVars, Known
<1>2. /\ events' \in Seq(Event) /\ 1 \in DOMAIN events /\ Head(events) = e /\ e \in Event
      /\ \A k \in DOMAIN events' : /\ k \in Nat /\ k + 1 \in DOMAIN events
                                   /\ events'[k] = events[k + 1] /\ k + 1 > 1
      /\ \A k \in DOMAIN events : k # 1 => /\ k \in Nat /\ k > 1 /\ k - 1 \in DOMAIN events'
                                           /\ events'[k - 1] = events[k]
      /\ \A k \in DOMAIN events : k \in Nat /\ k >= 1
  BY <1>0, <1>1, Shifted DEF ViewInv
<1>3. r \in Record /\ r \in Known /\ d \in Id /\ e.record = r /\ r.rev \in Nat
  BY <1>0, <1>2, EventIs, RecordIs DEF ViewInv, Shapes, Queued
<1>4. \/ /\ e.kind = "delete" /\ view' = Less(view, d) /\ cells' = cells /\ task' = Idle
      \/ /\ e.kind # "delete" /\ d \in DOMAIN view
         /\ task' = [pc |-> "entry", event |-> e] /\ cells' = cells /\ view' = view
      \/ /\ e.kind # "delete" /\ d \notin DOMAIN view
         /\ Insert(r) /\ task' = Idle
  BY <1>0, <1>1, <1>2 DEF SeeEvent, SeeDelete
<1>5. ASSUME NEW id, NEW m \in DOMAIN events, Deletes(m, id), m # 1
      PROVE  m - 1 \in DOMAIN events' /\ Deletes(m - 1, id)'
  BY <1>2, <1>5 DEF Deletes, About
<1>6. ASSUME NEW id, NEW k \in DOMAIN events', About(k, id)', ~Doomed(id, k)'
      PROVE  About(k + 1, id) /\ ~Doomed(id, k + 1)
  <2>1. About(k + 1, id) /\ k \in Nat
    BY <1>2, <1>6 DEF About
  <2>2. ASSUME NEW m \in DOMAIN events, m >= k + 1, Deletes(m, id) PROVE FALSE
    <3>1. k >= 1 /\ m \in Nat /\ m # 1 /\ m - 1 >= k
      BY <1>2, <2>1, <2>2
    <3> QED
      BY <1>5, <1>6, <2>2, <3>1 DEF Doomed
  <2> QED
    BY <2>1, <2>2 DEF Doomed
<1>7. ASSUME NEW id, ~Doomed(id, 1)', ~Deletes(1, id)
      PROVE  ~Doomed(id, 1)
  <2>1. ASSUME NEW m \in DOMAIN events, Deletes(m, id) PROVE FALSE
    <3>1. m # 1 /\ m \in Nat /\ m - 1 >= 1
      BY <1>2, <1>7, <2>1
    <3> QED
      BY <1>5, <1>7, <2>1, <3>1 DEF Doomed
  <2> QED
    BY <2>1 DEF Doomed
<1>8. /\ \A id : id # d => (id \in DOMAIN view' => id \in DOMAIN view /\ view'[id] = view[id]
                                                  /\ cells'[view'[id]] = cells[view[id]])
      /\ e.kind = "delete" => d \notin DOMAIN view'
      /\ e.kind # "delete" => \/ task' # Idle /\ d \in DOMAIN view /\ view' = view /\ cells' = cells
                              \/ task' = Idle /\ cells'[view'[d]] = r
  <2>1. CASE e.kind = "delete" /\ view' = Less(view, d) /\ cells' = cells
    <3>1. /\ DOMAIN view' = DOMAIN view \ {d}
          /\ \A j \in DOMAIN view' : view'[j] = view[j]
      BY <2>1 DEF Less
    <3> QED
      BY <2>1, <3>1
  <2>2. CASE e.kind # "delete" /\ d \in DOMAIN view /\ task' # Idle /\ cells' = cells /\ view' = view
    BY <2>2
  <2>3. CASE e.kind # "delete" /\ d \notin DOMAIN view /\ Insert(r) /\ task' = Idle
    <3>1. cells' = Append(cells, r) /\ view' = With(view, r.id, Len(cells) + 1)
      BY <2>3 DEF Insert
    <3>2. /\ DOMAIN view' = DOMAIN view \cup {r.id} /\ cells'[view'[r.id]] = r
          /\ \A i \in DOMAIN view : i # r.id =>
               view'[i] = view[i] /\ cells'[view'[i]] = cells[view[i]]
      BY <1>1, <1>3, <3>1, CellsAppended DEF ViewInv
    <3> QED
      BY <1>0, <2>3, <3>2
  <2> QED
    BY <1>4, <2>1, <2>2, <2>3 DEF Idle
<1>9. ASSUME watch # "ended" PROVE NoneNewer'
  <2>1. ASSUME Clean(d) PROVE (CellIsNoNewer(d) /\ TaskIsNoNewer(d))'
    <3>1. CASE e.kind = "delete"
      BY <1>4, <1>8, <3>1 DEF CellIsNoNewer, TaskIsNoNewer, InTask
    <3>2. CASE e.kind # "delete"
      <4>1. ~Doomed(d, 1)' => ~Doomed(d, 1) /\ r.rev <= Top(d)
        <5> SUFFICES ASSUME ~Doomed(d, 1)' PROVE ~Doomed(d, 1) /\ r.rev <= Top(d)
          OBVIOUS
        <5>1. ~Doomed(d, 1)
          BY <1>0, <1>7, <3>2 DEF Deletes
        <5>2. QueueIsNoNewer(d) /\ About(1, d)
          BY <1>0, <1>3, <1>9, <2>1 DEF NewestInv, NoneNewer, About
        <5> QED
          BY <1>0, <1>2, <1>3, <5>1, <5>2 DEF QueueIsNoNewer
      <4>2. Top(d)' = Top(d) /\ Top(d) \in Nat /\ \A c : Raised(c)' = Raised(c) /\ Raised(c) \in {0, 1}
        BY <1>1, Revisions DEF Top, Raised, Locked, Waiting, ViewInv
      <4>3. TaskIsNoNewer(d)'
        <5>1. task' # Idle => task'.event = e
          BY <1>4
        <5> QED
          BY <1>3, <4>1, <4>2, <5>1 DEF TaskIsNoNewer, InTask
      <4>4. CellIsNoNewer(d)'
        <5> SUFFICES ASSUME d \in DOMAIN view', ~Doomed(d, 1)'
                     PROVE  cells'[view'[d]].rev <= Top(d)' + Raised(view[d])'
          BY DEF CellIsNoNewer
        <5>1. PICK c : c = view'[d]
          OBVIOUS
        <5>2. Raised(c)' = Raised(c) /\ Raised(c) \in {0, 1}
          BY <4>2
        <5>3. CASE d \in DOMAIN view /\ view' = view /\ cells' = cells
          <6>1. cells[view[d]].rev <= Top(d) + Raised(view[d])
            BY <1>3, <1>9, <2>1, <4>1, <5>3 DEF NewestInv, NoneNewer, CellIsNoNewer
          <6> QED
            BY <4>2, <5>1, <5>2, <5>3, <6>1
        <5>4. CASE cells'[view'[d]] = r
          <6>1. cells'[view'[d]].rev <= Top(d)' + Raised(c)'
            BY <1>3, <4>1, <4>2, <5>2, <5>4
          <6> QED
            BY <5>1, <6>1
        <5> QED
          BY <1>8, <3>2, <5>3, <5>4
      <4> QED
        BY <4>3, <4>4
    <3> QED
      BY <3>1, <3>2
  <2>2. ASSUME NEW id \in Id, NEW k \in DOMAIN events'
        PROVE  /\ events'[k].record.rev \in Nat
               /\ About(k, id)' /\ ~Doomed(id, k)' =>
                    \E j \in DOMAIN events : About(j, id) /\ ~Doomed(id, j) /\ events[j] = events'[k]
    <3>1. events'[k].record.rev \in Nat
      BY <1>2, Revisions DEF ViewInv
    <3> QED
      BY <1>2, <1>6, <3>1
  <2>3. ASSUME NEW id \in Id, id # d
        PROVE  /\ ~Doomed(id, 1)' => ~Doomed(id, 1)
               /\ ~InTask(id)'
               /\ id \in DOMAIN view' => id \in DOMAIN view /\ view'[id] = view[id]
                                         /\ cells'[view'[id]] = cells[view[id]]
    <3>1. ~Deletes(1, id)
      BY <1>0, <2>3 DEF Deletes, About
    <3>2. ~InTask(id)'
      BY <1>0, <1>4, <2>3 DEF InTask
    <3> QED
      BY <1>7, <1>8, <2>3, <3>1, <3>2
  <2> QED
    BY <1>1, <1>9, <2>1, <2>2, <2>3, FollowedIsNoneNewer DEF ViewInv, NewestInv
<1> QED
  BY <1>1, <1>9 DEF NewestInv

LEMMA SeeEntryKeepsNewest ==
  ASSUME ViewInv, NewestInv, SeeEntry
  PROVE  NewestInv'
<1>0. PICK e, r, d, c : e = task.event /\ r = e.record /\ d = r.id /\ c = view[d]
  OBVIOUS
<1>1. /\ task # Idle /\ task' = Idle
      /\ UNCHANGED <<stored, events, watch, missed, spoiled, thread, handles, ops>>
      /\ Known' = Known
  BY DEF SeeEntry, watchVars, Known
<1>2. /\ r \in Record /\ r \in Known /\ d \in Id /\ d \in DOMAIN view /\ InTask(d)
      /\ r.rev \in Nat /\ c \in DOMAIN cells
  BY <1>0, <1>1, EventIs, RecordIs DEF ViewInv, Shapes, Queued, InTask, Cells
<1>3. \/ cells' = cells /\ view' = view
      \/ Insert(r)
      \/ cells' = [cells EXCEPT ![c] = r] /\ view' = view
  BY <1>0 DEF SeeEntry, SeeInsert, Follows
<1>4. /\ \A id : id # d => (id \in DOMAIN view' => id \in DOMAIN view /\ view'[id] = view[id]
                                                  /\ cells'[view'[id]] = cells[view[id]])
      /\ \/ view' = view /\ cells' = cells
         \/ cells'[view'[d]] = r
  <2>1. CASE cells' = cells /\ view' = view
    BY <2>1
  <2>2. CASE Insert(r)
    <3>1. cells' = Append(cells, r) /\ view' = With(view, r.id, Len(cells) + 1)
      BY <2>2 DEF Insert
    <3>2. /\ DOMAIN view' = DOMAIN view \cup {r.id} /\ cells'[view'[r.id]] = r
          /\ \A i \in DOMAIN view : i # r.id =>
               view'[i] = view[i] /\ cells'[view'[i]] = cells[view[i]]
      BY <1>1, <1>2, <3>1, CellsAppended DEF ViewInv
    <3> QED
      BY <1>0, <3>2
  <2>3. CASE cells' = [cells EXCEPT ![c] = r] /\ view' = view
    <3>1. \A id \in DOMAIN view : id # d => view[id] # c
      BY <1>0, <1>2 DEF ViewInv, Shapes, Cells
    <3> QED
      BY <1>0, <1>2, <2>3, <3>1
  <2> QED
    BY <1>3, <2>1, <2>2, <2>3
<1>5. ASSUME watch # "ended" PROVE NoneNewer'
  <2>1. \A id, k : (Doomed(id, k)' <=> Doomed(id, k)) /\ (About(k, id)' <=> About(k, id))
    BY <1>1 DEF Doomed, Deletes, About
  <2>2. \A id : ~InTask(id)'
    BY <1>1 DEF InTask
  <2>3. ASSUME Clean(d) PROVE (CellIsNoNewer(d) /\ TaskIsNoNewer(d))'
    <3>1. CellIsNoNewer(d) /\ TaskIsNoNewer(d)
      BY <1>2, <1>5, <2>3 DEF NewestInv, NoneNewer
    <3>2. Top(d)' = Top(d) /\ Top(d) \in Nat /\ \A x : Raised(x)' = Raised(x) /\ Raised(x) \in {0, 1}
      BY <1>1, Revisions DEF Top, Raised, Locked, Waiting, ViewInv
    <3> SUFFICES ASSUME d \in DOMAIN view', ~Doomed(d, 1)'
                 PROVE  cells'[view'[d]].rev <= Top(d)' + Raised(view[d])'
      BY <2>2 DEF CellIsNoNewer, TaskIsNoNewer
    <3>3. PICK x : x = view'[d]
      OBVIOUS
    <3>4. Raised(x)' = Raised(x) /\ Raised(x) \in {0, 1}
      BY <3>2
    <3>5. CASE view' = view /\ cells' = cells
      BY <1>2, <2>1, <3>1, <3>2, <3>3, <3>4, <3>5 DEF CellIsNoNewer
    <3>6. CASE cells'[view'[d]] = r
      <4>1. r.rev <= Top(d)
        BY <1>0, <1>2, <2>1, <3>1 DEF TaskIsNoNewer
      <4>2. cells'[view'[d]].rev <= Top(d)' + Raised(x)'
        BY <1>2, <3>2, <3>4, <3>6, <4>1
      <4> QED
        BY <3>3, <4>2
    <3> QED
      BY <1>4, <3>5, <3>6
  <2>4. ASSUME NEW id \in Id, NEW k \in DOMAIN events'
        PROVE  /\ events'[k].record.rev \in Nat
               /\ About(k, id)' /\ ~Doomed(id, k)' =>
                    \E j \in DOMAIN events : About(j, id) /\ ~Doomed(id, j) /\ events[j] = events'[k]
    BY <1>1, <2>1, Revisions DEF ViewInv
  <2> QED
    BY <1>1, <1>4, <1>5, <2>1, <2>2, <2>3, <2>4, FollowedIsNoneNewer DEF ViewInv, NewestInv
<1> QED
  BY <1>1, <1>5 DEF NewestInv

LEMMA NewestInitially ==
  ASSUME ResidentInit
  PROVE  NewestInv
<1>1. PICK held \in {<<>>} \cup {<<NewRecord(row, 0)>> : row \in Rows} :
        /\ cells = held
        /\ view = [i \in {held[c].id : c \in DOMAIN held} |-> 1]
        /\ stored = [i \in DOMAIN view |-> held[1]]
  BY DEF ResidentInit
<1>2. events = <<>> /\ spoiled = {} /\ task = Idle /\ DOMAIN events = {}
  BY DEF ResidentInit
<1>3. ASSUME NEW id \in DOMAIN view PROVE cells[view[id]].rev <= Top(id) + Raised(view[id])
  <2>1. view[id] = 1 /\ cells[1] = held[1] /\ Top(id) = held[1].rev
    BY <1>1, <1>3 DEF Top
  <2>2. PICK row \in Rows : held = <<NewRecord(row, 0)>>
    BY <1>1, <1>3
  <2>3. held[1].rev = 1 /\ Raised(1) \in {0, 1}
    BY <2>2 DEF NewRecord, Raised
  <2> QED
    BY <2>1, <2>3
<1> QED
  BY <1>2, <1>3 DEF NewestInv, NoneNewer, CellIsNoNewer, QueueIsNoNewer, TaskIsNoNewer, InTask

LEMMA NewestInvAlways == ResidentSpec => []NewestInv
<1>1. ResidentInit => NewestInv
  BY NewestInitially
<1>2. ViewInv /\ NewestInv /\ [ResidentNext]_residentVars => NewestInv'
  <2> SUFFICES ASSUME ViewInv, NewestInv, [ResidentNext]_residentVars PROVE NewestInv'
    OBVIOUS
  <2>1. ASSUME NEW t \in Threads, \E c \in Held : BeginUpdate(t, c) PROVE NewestInv'
    BY <2>1, BeginUpdateKeepsNewest
  <2>2. ASSUME NEW t \in Threads,
               (\E row \in Rows : BeginPush(t, row)) \/ (\E id \in DOMAIN view : BeginRemove(t, id))
        PROVE  NewestInv'
    BY <2>2, MoveKeepsNewest
  <2>3. ASSUME NEW t \in Threads, ThreadStep(t) PROVE NewestInv'
    BY <2>3, RefuseUpdateKeepsNewest, CommitUpdateKeepsNewest, PutInViewKeepsNewest,
       CommitKeepsNewest, MoveKeepsNewest DEF ThreadStep
  <2>4. CASE (\E row \in Rows : Replicated(row)) \/ (\E id \in DOMAIN stored : ReplicatedDelete(id))
    BY <2>4, ReplicationKeepsNewest
  <2>5. CASE ChangeHands \/ SetWatch \/ DropClone \/ UNCHANGED residentVars
    BY <2>5, OutsideKeepsNewest
  <2>6. CASE TaskStep
    BY <2>6, SeeEventKeepsNewest, SeeEntryKeepsNewest DEF TaskStep
  <2> QED
    BY <2>1, <2>2, <2>3, <2>4, <2>5, <2>6 DEF ResidentNext
<1> QED
  BY <1>1, <1>2, ViewInvAlways, PTL DEF ResidentSpec

-----------------------------------------------------------------------------
(* The theorems.                                                           *)

(***************************************************************************)
(* The view, its table and its queue hold records only, each under its own *)
(* id, and of the callers of push, update and remove one at a time writes  *)
(* (the database has one write transaction), one at a time holds the lock  *)
(* of an entry, and none reads the view that its task is changing.         *)
(***************************************************************************)
THEOREM ResidentTypes == ResidentSpec => []ResidentTypeOK
<1>1. ViewInv /\ NewestInv => ResidentTypeOK
  <2> SUFFICES ASSUME ViewInv, NewestInv PROVE ResidentTypeOK
    OBVIOUS
  <2> USE DEF ViewInv, Shapes
  <2>1. /\ DOMAIN stored \subseteq Id
        /\ \A i \in DOMAIN stored : stored[i] \in Record /\ stored[i].id = i
        /\ mayWrite \in BOOLEAN /\ missed \cup spoiled \subseteq Rows
        /\ ops \in 0..MaxOps /\ drops \in 0..MaxDrops
    BY KnownIsRecord DEF Table, NewestInv
  <2>2. /\ cells \in Seq(Record) /\ handles \subseteq DOMAIN cells
        /\ DOMAIN view \subseteq Id /\ \A i \in DOMAIN view : view[i] \in DOMAIN cells
    BY DEF Cells
  <2>3. /\ events \in Seq(Event) /\ watch \in {"unset", "set", "ended"}
        /\ task # Idle => ~ViewRead /\ watch = "set"
    BY DEF Queued, Locks
  <2>4. Cardinality({t \in Threads : thread[t].pc \in {"push", "commit"}}) <= 1
    <3>1. PICK W : W = {t \in Threads : thread[t].pc \in {"push", "commit"}}
      OBVIOUS
    <3>2. \A t, u \in W : t = u
      BY <3>1 DEF Locks, Writes
    <3>3. Cardinality(W) <= 1
      <4>1. CASE W = {}
        <5>1. Cardinality(W) = 0
          BY <4>1, FS_EmptySet, Zenon
        <5> QED
          BY <5>1
      <4>2. CASE W # {}
        <5>1. PICK t : W = {t}
          BY <3>2, <4>2
        <5>2. Cardinality(W) = 1
          BY <5>1, FS_Singleton, Zenon
        <5> QED
          BY <5>2
      <4> QED
        BY <4>1, <4>2
    <3> QED
      BY <3>1, <3>3
  <2>5. \A t, u \in Waiting : thread[t].cell = thread[u].cell => t = u
    BY DEF Locks
  <2> QED
    BY <2>1, <2>2, <2>3, <2>4, <2>5 DEF ResidentTypeOK
<1> QED
  BY <1>1, ViewInvAlways, NewestInvAlways, PTL

(***************************************************************************)
(* MembersFollow, for every number of rows, callers and calls: once        *)
(* nothing is under way, the view lists the rows of the table, in whatever *)
(* order handle_event heard of pushes, updates, removals and replicated    *)
(* records.  What the task has yet to hear of a row is true of it, or is   *)
(* followed by what is.                                                    *)
(***************************************************************************)
THEOREM ViewFollowsTable == ResidentSpec => []MembersFollow
<1>1. ViewInv => MembersFollow
  <2> SUFFICES ASSUME ViewInv, Quiet PROVE Seen(DOMAIN view) = Seen(DOMAIN stored)
    BY DEF MembersFollow
  <2>1. /\ Members /\ task = Idle /\ events = <<>>
        /\ DOMAIN view \subseteq Id /\ DOMAIN stored \subseteq Id
    BY DEF ViewInv, Shapes, Cells, Table, Quiet
  <2>2. \A id : ~Pending(id)
    BY <2>1 DEF Pending, InTask
  <2>3. \A t \in Threads, id \in Id : ~Committing(t, id)
    BY DEF Quiet, Committing, Idle
  <2>4. \A id \in Id : id[1] \notin missed => (id \in DOMAIN view <=> id \in DOMAIN stored)
    BY <2>1, <2>2, <2>3 DEF Members
  <2> QED
    BY <2>1, <2>4 DEF Seen
<1> QED
  BY <1>1, ViewInvAlways, PTL

(***************************************************************************)
(* ShowsTable, for every number of rows, callers and calls: once nothing   *)
(* is under way, the entry of a row of which no update was refused or made *)
(* from another revision than the table's is the record in the table, in   *)
(* whatever order callers that have locked an entry, the commits of others *)
(* and handle_event got there; and no entry of any row differs from a      *)
(* record whose revision it has reached.                                   *)
(***************************************************************************)
THEOREM ViewShowsTable == ResidentSpec => []ShowsTable
<1>1. ViewInv /\ NewestInv => ShowsTable
  <2> SUFFICES ASSUME ViewInv, NewestInv, Quiet, NEW i \in Seen(DOMAIN stored), i[1] \notin Temporal
               PROVE  /\ i[1] \notin spoiled => cells[view[i]] = stored[i]
                      /\ cells[view[i]].rev <= stored[i].rev => cells[view[i]].val = stored[i].val
    BY DEF ShowsTable
  <2>1. /\ Members /\ Fitting /\ task = Idle /\ events = <<>> /\ DOMAIN events = {}
        /\ DOMAIN stored \subseteq Id /\ watch # "ended"
        /\ i \in DOMAIN stored /\ i[1] \notin missed /\ i \in Id
    BY DEF ViewInv, Shapes, Table, Quiet, Seen
  <2>2. ~Pending(i) /\ OnlyInserts(i)
    BY <2>1 DEF Pending, InTask, OnlyInserts
  <2>3. i \in DOMAIN view
    BY <2>1, <2>2 DEF Members
  <2>4. PICK cell, r : cell = cells[view[i]] /\ r = stored[i]
    OBVIOUS
  <2>5. Fits(r) /\ r.id = i
    BY <2>1, <2>2, <2>3, <2>4 DEF Fitting, Plain, ViewInv, Shapes, Table
  <2>6. cell \in Record /\ r \in Record /\ cell.rev \in Nat /\ r.rev \in Nat
    BY <2>1, <2>3, <2>4, KnownIsRecord, RecordIs DEF ViewInv, Shapes, Cells, Table
  <2>7. cell.rev >= r.rev /\ (cell.rev = r.rev => cell.val = r.val)
    BY <2>4, <2>5 DEF Fits
  <2>8. ASSUME i[1] \notin spoiled PROVE cell = r
    <3>1. CellIsNoNewer(i) /\ ~Doomed(i, 1)
      BY <2>1, <2>8 DEF NewestInv, NoneNewer, Clean, Plain, Doomed
    <3>2. Raised(view[i]) = 0
      BY DEF Raised, Locked, Waiting, Quiet, Idle
    <3>3. Top(i) = r.rev
      BY <2>1, <2>4 DEF Top
    <3>4. cell.rev = r.rev /\ cell.val = r.val
      BY <2>3, <2>4, <2>6, <2>7, <3>1, <3>2, <3>3 DEF CellIsNoNewer
    <3>5. cell.id = i
      <4>1. cell.id[1] = i[1] /\ i = First(i[1]) /\ cell \in Known
        BY <2>3, <2>4 DEF ViewInv, Shapes, Cells, Plain
      <4> QED
        BY <4>1 DEF Known, Plain
    <3>6. \A x \in Record : x = [id |-> x.id, rev |-> x.rev, val |-> x.val]
      BY DEF Record
    <3> QED
      BY <2>5, <2>6, <3>4, <3>5, <3>6
  <2> QED
    BY <2>4, <2>6, <2>7, <2>8
<1> QED
  BY <1>1, ViewInvAlways, NewestInvAlways, PTL

-----------------------------------------------------------------------------
(* Locks.                                                                  *)

\* The guards of ThreadStep and of TaskStep: the lock that is waited for is free.
ThreadGoesOn(t) ==
  \/ thread[t].pc = "update" /\ (~mayWrite \/ ~Writing)
  \/ thread[t].pc = "push" /\ ~ViewWritten /\ ~ViewRead
  \/ thread[t].pc = "commit"
  \/ thread[t].pc = "look" /\ ~Locked(thread[t].cell)
  \/ thread[t].pc = "remove" /\ ~Writing

TaskGoesOn ==
  IF task = Idle THEN watch = "set" /\ events # <<>> /\ ~ViewRead
  ELSE ~Locked(view[task.event.record.id])

(***************************************************************************)
(* What OnlyCirclesJam needs of every state, for any number of callers:    *)
(* while something is under way, the one circle of locks is closed, or a   *)
(* call or the task has the lock it needs next.  No longer circle exists,  *)
(* however many callers of update, push and remove there are.              *)
(***************************************************************************)
THEOREM OneCircleOfLocks ==
  ResidentSpec =>
    [](task # Idle \/ events # <<>> \/ (\E t \in Threads : thread[t].pc # "idle")
         => Jammed \/ TaskGoesOn \/ \E t \in Threads : ThreadGoesOn(t))
<1> DEFINE Busy == task # Idle \/ events # <<>> \/ \E t \in Threads : thread[t].pc # "idle"
           Free == Jammed \/ TaskGoesOn \/ \E t \in Threads : ThreadGoesOn(t)
<1>1. ViewInv => (Busy => Free)
  <2> SUFFICES ASSUME ViewInv, Busy, ~Jammed, ~TaskGoesOn,
                      \A t \in Threads : ~ThreadGoesOn(t)
               PROVE  FALSE
    OBVIOUS
  <2>1. CASE Writing
    <3>1. PICK u \in Threads : thread[u].pc = "push" /\ (ViewWritten \/ ViewRead)
      BY <2>1 DEF Writing, ThreadGoesOn
    <3>2. CASE task # Idle
      <4>1. PICK t \in Waiting : thread[t].cell = view[task.event.record.id]
        BY <3>2 DEF TaskGoesOn, Locked
      <4> QED
        BY <3>1, <3>2, <4>1 DEF Jammed
    <3>3. CASE ViewRead
      <4>1. PICK v \in Threads : thread[v].pc = "look"
        BY <3>3 DEF ViewRead
      <4>2. PICK t \in Waiting : thread[t].cell = thread[v].cell
        BY <4>1 DEF ThreadGoesOn, Locked
      <4> QED
        BY <3>1, <4>1, <4>2 DEF Jammed
    <3> QED
      BY <3>1, <3>2, <3>3 DEF ViewWritten
  <2>2. CASE ~Writing
    <3>1. \A t \in Threads : thread[t].pc \notin {"update", "push", "commit", "remove"}
      BY <2>2 DEF Writing, ThreadGoesOn
    <3>2. \A c : ~Locked(c)
      BY <3>1 DEF Locked, Waiting
    <3>3. \A t \in Threads : thread[t].pc = "idle"
      BY <3>1, <3>2 DEF ThreadGoesOn, ViewInv, Shapes, Threaded
    <3>4. ~ViewRead /\ task = Idle
      BY <3>2, <3>3 DEF ViewRead, TaskGoesOn
    <3>5. watch = "set"
      BY <3>3, <3>4 DEF ViewInv, Shapes, Queued
    <3> QED
      BY <3>3, <3>4, <3>5 DEF TaskGoesOn
  <2> QED
    BY <2>1, <2>2
<1> QED
  BY <1>1, ViewInvAlways, PTL
=============================================================================
