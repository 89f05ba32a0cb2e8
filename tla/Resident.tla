------------------------------ MODULE Resident ------------------------------
(***************************************************************************)
(* ResidentVec (database/mod.rs): a view of a table that every process     *)
(* keeps in memory.  Its entries are cells with a lock each; threads push, *)
(* update and remove rows, and a task of its own follows the commits that  *)
(* the database reports, those of replication included.                    *)
(*                                                                         *)
(* The database has one write transaction at a time.  Locks are held while *)
(* waiting for others, so a step ends where the code may have to wait.     *)
(***************************************************************************)
EXTENDS Integers, Sequences, FiniteSets

CONSTANTS
  Rows,     \* records, each with the ids of its revisions
  Temporal, \* the rows that keep their previous revisions under an id of their own
  Threads,  \* callers of the view
  MaxOps,   \* bound: calls and replicated records
  MaxDrops  \* bound: clones of the view dropped

ASSUME ResidentAssumption ==
  /\ Temporal \subseteq Rows
  /\ MaxOps \in Nat /\ MaxDrops \in Nat

\* new_revision keeps the upper half of an id.
Id     == Rows \X (0..MaxOps)
First(row) == <<row, 0>>
NewRecord(row, v) == [id |-> First(row), rev |-> 1, val |-> v]

Record == [id : Id, rev : 1..(MaxOps + 1), val : 0..MaxOps]
Event  == [kind : {"insert", "update", "delete"}, record : Record]

VARIABLES
  stored,  \* the table: the record of each id in it
  events,  \* the commits the view's task has yet to see
  watch,   \* of the view's task: "unset", "set", or "ended"
  missed,  \* the rows changed before the watch was set (history)
  spoiled, \* the rows with an update refused, or one that skipped or took back
           \* revisions of the table (history)
  cells,   \* what residents point to
  view,    \* ResidentVec::inner: the cell of each id
  thread,  \* what each thread is doing
  task,    \* the task: idle, or waiting for the lock of a cell with the view's in hand
  handles, \* the cells that callers got from push
  mayWrite,\* whether this instance holds write authority for the rows
  ops, drops  \* calls so far, clones dropped so far

residentVars == <<stored, events, watch, missed, spoiled, cells, view, thread, task, handles,
                  mayWrite, ops, drops>>
viewVars     == <<cells, view, handles>>
watchVars    == <<watch, missed, spoiled>>

Idle    == [pc |-> "idle"]
Waiting == {t \in Threads : thread[t].pc = "update"}   \* for the write transaction

\* Who holds which lock.
Locked(c)   == \E t \in Waiting : thread[t].cell = c
ViewWritten == task # Idle

\* Mutant of Writing: the transaction begins after the view is changed.
WritingLate == \E t \in Threads : thread[t].pc = "commit"

Writing == \E t \in Threads : thread[t].pc \in {"push", "commit"}

\* Mutant of ViewRead: remove keeps the view's lock until it has removed.
ViewReadLonger == \E t \in Threads : thread[t].pc \in {"look", "remove"}

ViewRead == \E t \in Threads : thread[t].pc = "look"

ResidentTypeOK ==
  /\ DOMAIN stored \subseteq Id /\ \A i \in DOMAIN stored : stored[i] \in Record /\ stored[i].id = i
  /\ events \in Seq(Event) /\ watch \in {"unset", "set", "ended"} /\ missed \cup spoiled \subseteq Rows
  /\ cells \in Seq(Record)
  /\ DOMAIN view \subseteq Id /\ \A i \in DOMAIN view : view[i] \in DOMAIN cells
  /\ handles \subseteq DOMAIN cells
  /\ mayWrite \in BOOLEAN
  /\ Cardinality({t \in Threads : thread[t].pc \in {"push", "commit"}}) <= 1
  /\ \A t, u \in Waiting : thread[t].cell = thread[u].cell => t = u
  /\ task # Idle => ~ViewRead /\ watch = "set"
  /\ ops \in 0..MaxOps /\ drops \in 0..MaxDrops

\* resident_vec has read the table, which may hold a row.
ResidentInit ==
  /\ \E held \in {<<>>} \cup {<<NewRecord(row, 0)>> : row \in Rows} :
       /\ cells = held
       /\ view = [i \in {held[c].id : c \in DOMAIN held} |-> 1]
       /\ stored = [i \in DOMAIN view |-> held[1]]
  /\ events = <<>> /\ watch = "unset" /\ missed = {} /\ spoiled = {} /\ handles = {}
  /\ thread = [t \in Threads |-> Idle] /\ task = Idle
  /\ mayWrite \in BOOLEAN /\ ops = 0 /\ drops = 0

\* The transaction it has read the table in is still open, which stops no writer.
SetWatch ==
  /\ watch = "unset"
  /\ watch' = "set"
  /\ UNCHANGED <<stored, events, missed, spoiled, viewVars, thread, task, mayWrite, ops, drops>>

-----------------------------------------------------------------------------
(* Commits.  The watch sees them in order.                                 *)

With(f, i, x) == [j \in DOMAIN f \cup {i} |-> IF j = i THEN x ELSE f[j]]
Less(f, i)    == [j \in DOMAIN f \ {i} |-> f[j]]

See(seen) ==
  /\ events' = IF watch = "set" THEN events \o seen ELSE events
  /\ missed' = IF watch = "unset" THEN missed \cup {seen[i].record.id[1] : i \in DOMAIN seen} ELSE missed

Change(r) == [kind |-> IF r.id \in DOMAIN stored THEN "update" ELSE "insert", record |-> r]

Upsert(r) == stored' = With(stored, r.id, r) /\ See(<<Change(r)>>)

Delete(id) ==
  /\ stored' = Less(stored, id)
  /\ See(IF id \in DOMAIN stored THEN <<[kind |-> "delete", record |-> stored[id]]>> ELSE <<>>)

Called == ops < MaxOps /\ ops' = ops + 1

-----------------------------------------------------------------------------
(* Resident::update.                                                       *)

Rest(t) == thread' = [thread EXCEPT ![t] = Idle]

\* The cell is locked, and its revision set to the coming one.  Callers have the view
\* once its watch is set.
BeginUpdate(t, c) ==
  /\ Called
  /\ watch # "unset" /\ thread[t] = Idle /\ ~Locked(c)
  /\ thread' = [thread EXCEPT ![t] = [pc |-> "update", cell |-> c, val |-> ops + 1]]
  /\ cells' = [cells EXCEPT ![c].rev = @ + 1]
  /\ UNCHANGED <<stored, events, watchVars, view, task, handles, mayWrite, drops>>

\* Not its owner: the transaction is refused.
RefuseUpdate(t) ==
  /\ t \in Waiting /\ ~mayWrite
  /\ spoiled' = spoiled \cup {cells[thread[t].cell].id[1]}
  /\ Rest(t)
  /\ UNCHANGED <<stored, events, watch, missed, cells, view, task, handles, mayWrite, ops, drops>>

\* A temporal row goes under a new id and its former revision stays.
CommitUpdate(t) ==
  LET c    == thread[t].cell
      last == cells[c]
      next == [last EXCEPT !.val = thread[t].val,
                           !.id = IF @[1] \in Temporal THEN <<@[1], thread[t].val>> ELSE @]
      kept == last.id[1] \in Temporal IN
  /\ t \in Waiting /\ mayWrite /\ ~Writing
  /\ stored' = IF kept THEN With(With(stored, next.id, next), last.id, last)
               ELSE With(stored, next.id, next)
  /\ See(IF kept THEN <<Change(next), Change(last)>> ELSE <<Change(next)>>)
  /\ spoiled' = IF next.id \in DOMAIN stored /\ next.rev # stored[next.id].rev + 1
                THEN spoiled \cup {next.id[1]} ELSE spoiled
  /\ cells' = [cells EXCEPT ![c] = next]
  /\ Rest(t)
  /\ UNCHANGED <<watch, view, task, handles, mayWrite, ops, drops>>

-----------------------------------------------------------------------------
(* ResidentVec::push.                                                      *)

BeginPush(t, row) ==
  /\ Called
  /\ watch # "unset" /\ thread[t] = Idle /\ mayWrite /\ ~Writing
  /\ \A i \in DOMAIN stored \cup DOMAIN view : i[1] # row
  /\ \A c \in DOMAIN cells : cells[c].id[1] # row
  /\ thread' = [thread EXCEPT ![t] = [pc |-> "push", record |-> NewRecord(row, ops + 1)]]
  /\ UNCHANGED <<stored, events, watchVars, viewVars, task, mayWrite, drops>>

PutInView(t) ==
  LET c == Len(cells) + 1 IN
  /\ thread[t].pc = "push" /\ ~ViewWritten /\ ~ViewRead
  /\ cells' = Append(cells, thread[t].record)
  /\ view' = With(view, thread[t].record.id, c)
  /\ thread' = [thread EXCEPT ![t] = [pc |-> "commit", cell |-> c, record |-> @.record]]
  /\ UNCHANGED <<stored, events, watchVars, task, handles, mayWrite, ops, drops>>

CommitPush(t) ==
  LET c == thread[t].cell IN
  /\ thread[t].pc = "commit"
  /\ Upsert(thread[t].record)
  /\ handles' = handles \cup {c}
  /\ Rest(t)
  /\ UNCHANGED <<watch, spoiled, cells, view, task, mayWrite, ops, drops>>

-----------------------------------------------------------------------------
(* ResidentVec::remove.                                                    *)

\* The view is read, and the entry with the view in hand.
BeginRemove(t, id) ==
  /\ Called
  /\ watch # "unset" /\ thread[t] = Idle /\ ~ViewWritten
  /\ id \in DOMAIN view
  /\ thread' = [thread EXCEPT ![t] = [pc |-> "look", cell |-> view[id]]]
  /\ UNCHANGED <<stored, events, watchVars, viewVars, task, mayWrite, drops>>

ReadToRemove(t) ==
  /\ thread[t].pc = "look" /\ ~Locked(thread[t].cell)
  /\ thread' = [thread EXCEPT ![t] =
       IF mayWrite THEN [pc |-> "remove", id |-> cells[thread[t].cell].id] ELSE Idle]
  /\ UNCHANGED <<stored, events, watchVars, viewVars, task, mayWrite, ops, drops>>

CommitRemove(t) ==
  /\ thread[t].pc = "remove" /\ ~Writing
  /\ Delete(thread[t].id)
  /\ Rest(t)
  /\ UNCHANGED <<watch, spoiled, viewVars, task, mayWrite, ops, drops>>

-----------------------------------------------------------------------------
(* Replication, and the write authority it goes with.                      *)

Replicated(row) ==
  /\ Called
  /\ ~mayWrite /\ ~Writing
  /\ LET id == First(row) IN
     Upsert([id |-> id, val |-> ops + 1, rev |-> IF id \in DOMAIN stored THEN stored[id].rev + 1 ELSE 1])
  /\ UNCHANGED <<watch, spoiled, viewVars, thread, task, mayWrite, drops>>

ReplicatedDelete(id) ==
  /\ Called
  /\ ~mayWrite /\ ~Writing
  /\ id \in DOMAIN stored
  /\ Delete(id)
  /\ UNCHANGED <<watch, spoiled, viewVars, thread, task, mayWrite, drops>>

\* A grant, or its revocation.
ChangeHands ==
  /\ Called
  /\ mayWrite' = ~mayWrite
  /\ UNCHANGED <<stored, events, watchVars, viewVars, thread, task, drops>>

-----------------------------------------------------------------------------
(* ResidentVec::handle_event.                                              *)

\* Mutant of Follows: the events of one's own updates are known already.
FollowsNewer(c, r) == IF r.rev > cells[c].rev THEN [cells EXCEPT ![c] = r] ELSE cells

\* Equal revisions are taken.
Follows(c, r) == IF r.rev >= cells[c].rev THEN [cells EXCEPT ![c] = r] ELSE cells

Insert(r) ==
  /\ cells' = Append(cells, r)
  /\ view' = With(view, r.id, Len(cells) + 1)

\* An entry that push has put there is left alone.
SeeInsert(r) ==
  IF cells[view[r.id]].rev = r.rev
    THEN UNCHANGED <<cells, view>> ELSE Insert(r)

\* Mutant of SeeDelete: an entry of another revision stays.
SeeDeleteOfSame(r) ==
  view' = IF r.id \in DOMAIN view /\ cells[view[r.id]].rev = r.rev THEN Less(view, r.id) ELSE view

\* Listeners hear of it when there was an entry.
SeeDelete(r) == view' = Less(view, r.id)

\* The view is locked for the event, and for most the lock of the entry is needed too.
SeeEvent ==
  LET e == Head(events) IN
  /\ task = Idle /\ watch = "set" /\ events # <<>> /\ ~ViewRead
  /\ events' = Tail(events)
  /\ CASE e.kind = "delete" -> SeeDelete(e.record) /\ UNCHANGED <<cells, task>>
       [] e.kind # "delete" /\ e.record.id \in DOMAIN view ->
            task' = [pc |-> "entry", event |-> e] /\ UNCHANGED <<cells, view>>
       [] OTHER -> Insert(e.record) /\ UNCHANGED task
  /\ UNCHANGED <<stored, watchVars, thread, handles, mayWrite, ops, drops>>

SeeEntry ==
  /\ task # Idle
  /\ LET r == task.event.record IN
     /\ ~Locked(view[r.id])
     /\ IF task.event.kind = "insert" THEN SeeInsert(r)
        ELSE cells' = Follows(view[r.id], r) /\ UNCHANGED view
  /\ task' = Idle
  /\ UNCHANGED <<stored, events, watchVars, thread, handles, mayWrite, ops, drops>>

\* Drop of any clone: all share the watch.
DropClone ==
  /\ drops < MaxDrops
  /\ drops' = drops + 1
  /\ watch # "unset" /\ task = Idle
  /\ watch' = "ended" /\ events' = <<>>
  /\ UNCHANGED <<stored, missed, spoiled, viewVars, thread, task, mayWrite, ops>>

-----------------------------------------------------------------------------
Held == handles \cup {view[i] : i \in DOMAIN view}

ThreadStep(t) ==
  \/ RefuseUpdate(t) \/ CommitUpdate(t)
  \/ PutInView(t) \/ CommitPush(t)
  \/ ReadToRemove(t) \/ CommitRemove(t)

TaskStep == SeeEvent \/ SeeEntry

ResidentNext ==
  \/ \E t \in Threads :
       \/ \E c \in Held : BeginUpdate(t, c)
       \/ \E row \in Rows : BeginPush(t, row)
       \/ \E id \in DOMAIN view : BeginRemove(t, id)
       \/ ThreadStep(t)
  \/ \E row \in Rows : Replicated(row)
  \/ \E id \in DOMAIN stored : ReplicatedDelete(id)
  \/ ChangeHands
  \/ SetWatch
  \/ TaskStep
  \/ DropClone

ResidentSpec == ResidentInit /\ [][ResidentNext]_residentVars

\* Threads finish what they do when the locks they need are free, and the task runs.
FairResidentSpec ==
  /\ ResidentSpec
  /\ WF_residentVars(TaskStep)
  /\ \A t \in Threads : WF_residentVars(ThreadStep(t))

-----------------------------------------------------------------------------
(* Properties.                                                             *)

Quiet == watch = "set" /\ events = <<>> /\ task = Idle /\ \A t \in Threads : thread[t] = Idle

\* The ids of the rows that no commit between reading the table and setting the
\* watch has touched.
Seen(ids) == {i \in ids : i[1] \notin missed}

(***************************************************************************)
(* The view has the rows of the table (handle_event): once nothing is      *)
(* under way, whatever order pushes, updates, removals, what is replicated *)
(* in and their events came in, a row is listed if and only if it is       *)
(* there, while the watch lasts and unless the row was changed before the  *)
(* watch was set, which README.md tells of.                                *)
(***************************************************************************)
MembersFollow == Quiet => Seen(DOMAIN view) = Seen(DOMAIN stored)

(***************************************************************************)
(* The view shows the table ("Only accept updates with newer or equal      *)
(* revisions"): once nothing is under way, an entry is the record that the *)
(* table has, revision and value, whatever order updates, pushes, removals *)
(* and replicated records took.  After an update that was refused, or that *)
(* a cell made which was not at the table's revision, the entry can be of  *)
(* a revision ahead of the table's, and then only can it have another      *)
(* value: README.md tells of it.                                           *)
(***************************************************************************)
ShowsTable ==
  Quiet => \A i \in Seen(DOMAIN stored) : i[1] \notin Temporal =>
    /\ i[1] \notin spoiled => cells[view[i]] = stored[i]
    /\ cells[view[i]].rev <= stored[i].rev => cells[view[i]].val = stored[i].val

\* An update has its cell and waits for the write transaction, which a push has that
\* waits for the view, which the task or a removal has that waits for the cell.
Jammed ==
  \E t \in Waiting, u \in Threads :
    /\ thread[u].pc = "push"
    /\ \/ task # Idle /\ view[task.event.record.id] = thread[t].cell
       \/ \E v \in Threads : thread[v].pc = "look" /\ thread[v].cell = thread[t].cell

(***************************************************************************)
(* "Maintains a real-time cache": calls return and the task sees what is   *)
(* committed, whatever threads do with the view, but for one circle: the   *)
(* locks are taken in three orders, and an update, a push and an event can *)
(* wait for one another for good.  There is no other.                      *)
(***************************************************************************)
OnlyCirclesJam ==
  /\ \A t \in Threads : thread[t] # Idle ~> (thread[t] = Idle \/ Jammed)
  /\ (events # <<>> \/ task # Idle) ~> ((events = <<>> /\ task = Idle) \/ Jammed)

(***************************************************************************)
(* "The removal is what fires `connections.listen`, so everything watching *)
(* for a disconnect wakes without polling" (NetworkManager::track_inbound, *)
(* ResidentVec::remove): once nothing is under way no row is listed that   *)
(* callers removed, for its listeners hear of it when it goes.             *)
(***************************************************************************)
RemovalsAreHeard ==
  events = <<>> /\ task = Idle /\ (\A t \in Threads : thread[t] = Idle)
    => Seen(DOMAIN view) \subseteq DOMAIN stored
=============================================================================
