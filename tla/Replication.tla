----------------------------- MODULE Replication -----------------------------
(***************************************************************************)
(* Replication over one connection (network/sync, database/sync).          *)
(*                                                                         *)
(* The replica opens sync streams; the source answers each with a snapshot *)
(* of what matches its filters, then with what its database watches see,   *)
(* until the stream is closed or the connection ends.  A row stands for    *)
(* the one record of its type that a filter matches, so that every row is  *)
(* scanned and watched on its own, as every type is.                       *)
(*                                                                         *)
(* The source's end of the connection is one task: it either sends what    *)
(* its streams have buffered or runs the handler of one message to its     *)
(* end.  A handler that waits for room in its stream's buffer holds it up. *)
(*                                                                         *)
(* An update leaves its stream's buffer when the replica handles it: the   *)
(* transport in between keeps the order of a stream and loses what it      *)
(* holds with the connection, as the buffer does.                          *)
(***************************************************************************)
EXTENDS Integers, Sequences

CONSTANTS
  Rows,        \* the records, one of each synced type
  Requests,    \* the filter lists a stream may ask for
  Capacity,    \* messages a stream buffers on its way to the socket
  MaxRev,      \* bound: revisions of a row
  MaxStreams   \* bound: streams the replica opens

ASSUME ReplicationAssumption ==
  /\ Requests \subseteq Seq((SUBSET Rows) \ {{}}) \ {<<>>}
  /\ Capacity \in Nat \ {0}
  /\ MaxRev \in Nat
  /\ MaxStreams \in Nat

\* No two filters of one request match the same row: the pull of an owner asks for
\* each scope once and for its peer's own, of which there is no grant; all other
\* requests have one filter.
ASSUME FiltersAreApart ==
  \A f \in Requests : \A i, j \in DOMAIN f : i # j => f[i] \cap f[j] = {}

Stream  == 1..MaxStreams
Record  == [row: Rows, rev: 0..MaxRev]   \* revision 0 is a deletion
Request == [op: {"subscribe", "close"}, stream: Stream]
Update  == [records: SUBSET Record, complete: BOOLEAN]

VARIABLES
  source,    \* the revision of each row at the source; 0 when there is none
  removed,   \* the rows deleted at the source (their ids never return)
  replica,   \* the revision of each row at the replica; 0 when there is none
  sourceEnd, \* whether the source's end of the connection is open
  replicaEnd,\* whether the replica's end is open
  asked,     \* the filters of every stream opened so far
  open,      \* the streams the replica has open
  requests,  \* what is on its way to the source
  handler,   \* the message the source's socket task is handling, if any
  watched,   \* the watches of the source's responders
  events,    \* per watch, the commits it has seen and not forwarded
  outbox,    \* per stream, what waits for the socket
  notified,  \* open streams whose snapshot has been reported complete
  atStart,   \* history: per open stream, the source when its Subscribe arrived
  buried     \* history: the rows whose deletion the replica has applied

sourceVars  == <<handler, watched, events, outbox>>
replicaVars == <<open, asked, notified, replica, buried>>
replVars    == <<source, removed, sourceEnd, replicaEnd, requests, atStart,
                 sourceVars, replicaVars>>

Idle    == [stream |-> 0, at |-> 0, pc |-> "idle", left |-> {}, found |-> {}]
Handler == [stream: Stream, at: Nat \ {0}, pc: {"scan", "send", "watch", "mark"},
            left: SUBSET Rows, found: SUBSET Record]

ReplTypeOK ==
  /\ source \in [Rows -> 0..MaxRev]
  /\ removed \in SUBSET Rows
  /\ replica \in [Rows -> 0..MaxRev]
  /\ sourceEnd \in BOOLEAN /\ replicaEnd \in BOOLEAN
  /\ asked \in Seq(Requests) /\ Len(asked) <= MaxStreams
  /\ open \in SUBSET (1..Len(asked))
  /\ requests \in Seq(Request)
  /\ handler \in Handler \cup {Idle}
  /\ watched \in SUBSET (Stream \X Rows)
  /\ events \in [Stream \X Rows -> Seq(Record)]
  /\ outbox \in [Stream -> Seq(Update)]
  /\ \A n \in Stream : Len(outbox[n]) <= Capacity
  /\ notified \in SUBSET open
  /\ atStart \in [Stream -> [Rows -> 0..MaxRev]]
  /\ buried \in SUBSET removed

Nothing == [r \in Rows |-> 0]

ReplInit ==
  /\ source = Nothing
  /\ removed = {}
  /\ replica = Nothing
  /\ sourceEnd = FALSE /\ replicaEnd = FALSE
  /\ asked = <<>>
  /\ open = {}
  /\ requests = <<>>
  /\ handler = Idle
  /\ watched = {}
  /\ events = [w \in Stream \X Rows |-> <<>>]
  /\ outbox = [n \in Stream |-> <<>>]
  /\ notified = {}
  /\ atStart = [n \in Stream |-> Nothing]
  /\ buried = {}

-----------------------------------------------------------------------------
(* Commits at the source.                                                  *)

\* A commit reaches every watch of its row, in commit order.
Commit(r, rev) ==
  /\ source' = [source EXCEPT ![r] = rev]
  /\ events' = [w \in Stream \X Rows |->
       IF w \in watched /\ w[2] = r
         THEN Append(events[w], [row |-> r, rev |-> rev]) ELSE events[w]]
  /\ UNCHANGED <<sourceEnd, replicaEnd, requests, atStart, handler, watched, outbox,
                 replicaVars>>

Write(r) ==
  /\ r \notin removed
  /\ source[r] < MaxRev
  /\ Commit(r, source[r] + 1)
  /\ UNCHANGED removed

Remove(r) ==
  /\ source[r] # 0
  /\ Commit(r, 0)
  /\ removed' = removed \cup {r}

-----------------------------------------------------------------------------
(* The connection.                                                         *)

Connect ==
  /\ ~sourceEnd /\ ~replicaEnd
  /\ sourceEnd' = TRUE /\ replicaEnd' = TRUE
  /\ UNCHANGED <<source, removed, requests, atStart, sourceVars, replicaVars>>

\* The source's end goes: its responders are dropped, and their watches.
DropResponders ==
  /\ sourceEnd' = FALSE
  /\ handler' = Idle
  /\ watched' = {}
  /\ events' = [w \in Stream \X Rows |-> <<>>]
  /\ outbox' = [n \in Stream |-> <<>>]
  /\ requests' = <<>>
  /\ UNCHANGED <<source, removed, replicaEnd, atStart, replicaVars>>

SourceRestarts == sourceEnd /\ DropResponders

\* Mutant of SourceCloses: the deadline is looked at when a message comes.
SourceClosesWhenHeard == sourceEnd /\ handler = Idle /\ requests # <<>> /\ DropResponders

\* The socket fails, or its task finds nothing received before the deadline.
SourceCloses == sourceEnd /\ handler = Idle /\ DropResponders

\* Mutant of Forget: the marker of a closed stream stays reported.
ForgetStreamsOnly(streams) ==
  /\ open' = open \ streams
  /\ notified' = notified
  /\ atStart' = [n \in Stream |-> IF n \in streams THEN Nothing ELSE atStart[n]]

\* The replica's streams go: nothing is delivered to them any more.
Forget(streams) ==
  /\ open' = open \ streams
  /\ notified' = notified \ streams
  /\ atStart' = [n \in Stream |-> IF n \in streams THEN Nothing ELSE atStart[n]]

ReplicaCloses ==
  /\ replicaEnd
  /\ replicaEnd' = FALSE
  /\ Forget(open)
  /\ UNCHANGED <<source, removed, sourceEnd, requests, sourceVars, asked, replica, buried>>

-----------------------------------------------------------------------------
(* The replica's side.                                                     *)

Send(op, n) ==
  requests' = IF sourceEnd THEN Append(requests, [op |-> op, stream |-> n]) ELSE requests

OpenSync(filters) ==
  /\ replicaEnd
  /\ Len(asked) < MaxStreams
  /\ asked' = Append(asked, filters)
  /\ open' = open \cup {Len(asked) + 1}
  /\ Send("subscribe", Len(asked) + 1)
  /\ UNCHANGED <<source, removed, sourceEnd, replicaEnd, atStart, sourceVars, notified, replica,
                 buried>>

\* Close is sent and the stream forgotten: what still arrives on it is dropped.
CloseSync(n) ==
  /\ n \in open
  /\ Forget({n})
  /\ Send("close", n)
  /\ UNCHANGED <<source, removed, sourceEnd, replicaEnd, sourceVars, asked, replica, buried>>

\* Mutants of Applied: the revision check is missing; deletions are ignored.
AppliedUnchecked(records) ==
  [r \in Rows |->
    IF \E x \in records : x.row = r THEN (CHOOSE x \in records : x.row = r).rev ELSE replica[r]]

AppliedUpsertsOnly(records) ==
  [r \in Rows |->
    IF \E x \in records : x.row = r /\ x.rev > replica[r]
      THEN (CHOOSE x \in records : x.row = r).rev ELSE replica[r]]

\* The replica after a batch: an older or equal revision is dropped, a deletion
\* is obeyed whatever its revision.
Applied(records) ==
  [r \in Rows |->
    IF \E x \in records : x.row = r /\ (x.rev = 0 \/ x.rev > replica[r])
      THEN (CHOOSE x \in records : x.row = r).rev ELSE replica[r]]

\* SyncRequester::on_message: the records are applied, then the marker reported.
Receive(n, update) ==
  /\ replica' = Applied(update.records)
  /\ buried' = buried \cup {x.row : x \in {y \in update.records : y.rev = 0}}
  /\ notified' = IF update.complete THEN notified \cup {n} ELSE notified

\* The socket task sends, unless it is handling a message.
SocketSends(n) ==
  /\ sourceEnd /\ handler = Idle
  /\ outbox[n] # <<>>
  /\ outbox' = [outbox EXCEPT ![n] = Tail(@)]
  /\ IF n \in open THEN Receive(n, Head(outbox[n])) ELSE UNCHANGED <<replica, buried, notified>>
  /\ UNCHANGED <<source, removed, sourceEnd, replicaEnd, requests, atStart, handler, watched,
                 events, open, asked>>

-----------------------------------------------------------------------------
(* The source's side: SyncResponder.                                       *)

FilterAt(n, i) == asked[n][i]

ReceiveSubscribe ==
  LET n == Head(requests).stream IN
  /\ sourceEnd /\ handler = Idle
  /\ requests # <<>> /\ Head(requests).op = "subscribe"
  /\ requests' = Tail(requests)
  /\ handler' = [stream |-> n, at |-> 1, pc |-> "scan", left |-> FilterAt(n, 1), found |-> {}]
  /\ atStart' = IF n \in open THEN [atStart EXCEPT ![n] = source] ELSE atStart
  /\ UNCHANGED <<source, removed, sourceEnd, replicaEnd, watched, events, outbox, replicaVars>>

\* One type's read transaction, on behalf of the filter in hand.
Scan(r) ==
  LET exists == source[r] # 0
      left   == handler.left \ {r} IN
  /\ handler.pc = "scan"
  /\ r \in handler.left
  /\ handler' = [handler EXCEPT
       !.left = left,
       !.pc = IF left = {} THEN "send" ELSE @,
       !.found = IF exists THEN @ \cup {[row |-> r, rev |-> source[r]]} ELSE @]
  /\ UNCHANGED <<source, removed, sourceEnd, replicaEnd, requests, watched, events, outbox,
                 atStart, replicaVars>>

HasRoom(n) == Len(outbox[n]) < Capacity

Put(n, records, complete) ==
  outbox' = [outbox EXCEPT ![n] =
    Append(@, [records |-> records, complete |-> complete])]

\* Nothing is sent for an empty snapshot; otherwise wait for room.
SendSnapshot ==
  /\ handler.pc = "send"
  /\ IF handler.found = {} THEN UNCHANGED outbox
     ELSE HasRoom(handler.stream) /\ Put(handler.stream, handler.found, FALSE)
  /\ handler' = [handler EXCEPT !.pc = "watch", !.found = {},
                   !.left = FilterAt(handler.stream, handler.at)]
  /\ UNCHANGED <<source, removed, sourceEnd, replicaEnd, requests, watched, events,
                 atStart, replicaVars>>

\* Mutant of Watch: the marker follows the first filter.
WatchFirstFilterOnly(r) ==
  LET left == handler.left \ {r} IN
  /\ handler.pc = "watch"
  /\ r \in handler.left
  /\ watched' = watched \cup {<<handler.stream, r>>}
  /\ handler' = IF left # {} THEN [handler EXCEPT !.left = left]
                ELSE [handler EXCEPT !.pc = "mark", !.left = {}]
  /\ UNCHANGED <<source, removed, sourceEnd, replicaEnd, requests, events, outbox,
                 atStart, replicaVars>>

\* One type's watch; after the filter's last one, the next filter or the marker.
Watch(r) ==
  LET left == handler.left \ {r}
      next == handler.at + 1 IN
  /\ handler.pc = "watch"
  /\ r \in handler.left
  /\ watched' = watched \cup {<<handler.stream, r>>}
  /\ handler' =
       IF left # {} THEN [handler EXCEPT !.left = left]
       ELSE IF next <= Len(asked[handler.stream])
         THEN [handler EXCEPT !.at = next, !.pc = "scan", !.left = FilterAt(handler.stream, next)]
         ELSE [handler EXCEPT !.pc = "mark", !.left = {}]
  /\ UNCHANGED <<source, removed, sourceEnd, replicaEnd, requests, events, outbox,
                 atStart, replicaVars>>

\* Mutant of SendMarker: an empty snapshot gets no marker.
SendMarkerIfAny ==
  /\ handler.pc = "mark"
  /\ HasRoom(handler.stream)
  /\ IF atStart[handler.stream] = Nothing THEN UNCHANGED outbox
     ELSE Put(handler.stream, {}, TRUE)
  /\ handler' = Idle
  /\ UNCHANGED <<source, removed, sourceEnd, replicaEnd, requests, watched, events,
                 atStart, replicaVars>>

SendMarker ==
  /\ handler.pc = "mark"
  /\ HasRoom(handler.stream)
  /\ Put(handler.stream, {}, TRUE)
  /\ handler' = Idle
  /\ UNCHANGED <<source, removed, sourceEnd, replicaEnd, requests, watched, events,
                 atStart, replicaVars>>

\* Mutant of ReceiveClose: the watches are not cancelled.
ReceiveCloseKeepsWatching ==
  /\ sourceEnd /\ handler = Idle
  /\ requests # <<>> /\ Head(requests).op = "close"
  /\ requests' = Tail(requests)
  /\ UNCHANGED <<source, removed, sourceEnd, replicaEnd, watched, events, handler, outbox,
                 atStart, replicaVars>>

\* Close cancels the responder's watches.
ReceiveClose ==
  LET n == Head(requests).stream IN
  /\ sourceEnd /\ handler = Idle
  /\ requests # <<>> /\ Head(requests).op = "close"
  /\ requests' = Tail(requests)
  /\ watched' = {w \in watched : w[1] # n}
  /\ events' = [w \in Stream \X Rows |-> IF w[1] = n THEN <<>> ELSE events[w]]
  /\ UNCHANGED <<source, removed, sourceEnd, replicaEnd, handler, outbox, atStart,
                 replicaVars>>

\* Mutant of Forward: what has piled up is handed over newest first.
ForwardNewest(w) ==
  LET last == Len(events[w]) IN
  /\ events[w] # <<>>
  /\ HasRoom(w[1])
  /\ Put(w[1], {events[w][last]}, FALSE)
  /\ events' = [events EXCEPT ![w] = SubSeq(@, 1, last - 1)]
  /\ UNCHANGED <<source, removed, sourceEnd, replicaEnd, requests, handler, watched,
                 atStart, replicaVars>>

\* The watch task and the forwarder hand one event to the stream.
Forward(w) ==
  /\ events[w] # <<>>
  /\ HasRoom(w[1])
  /\ Put(w[1], {Head(events[w])}, FALSE)
  /\ events' = [events EXCEPT ![w] = Tail(@)]
  /\ UNCHANGED <<source, removed, sourceEnd, replicaEnd, requests, handler, watched,
                 atStart, replicaVars>>

-----------------------------------------------------------------------------
HandlerStep ==
  \/ \E r \in Rows : Scan(r)
  \/ SendSnapshot
  \/ \E r \in Rows : Watch(r)
  \/ SendMarker

ReplNext ==
  \/ \E r \in Rows : Write(r)
  \/ \E r \in Rows : Remove(r)
  \/ Connect
  \/ SourceRestarts
  \/ SourceCloses
  \/ ReplicaCloses
  \/ \E f \in Requests : OpenSync(f)
  \/ \E n \in Stream : CloseSync(n)
  \/ ReceiveSubscribe
  \/ HandlerStep
  \/ ReceiveClose
  \/ \E w \in Stream \X Rows : Forward(w)
  \/ \E n \in Stream : SocketSends(n)

ReplSpec == ReplInit /\ [][ReplNext]_replVars

\* The source's socket task runs, and the tasks of its watches; an end whose peer
\* is gone closes as soon as its task looks.  The bounds let no task run for ever, so
\* each of a kind has its turn.  Writes, closes, restarts and new streams are
\* promised nothing.
SocketTask == ReceiveSubscribe \/ ReceiveClose \/ HandlerStep \/ \E n \in Stream : SocketSends(n)

ReplFairness ==
  /\ WF_replVars(SocketTask)
  /\ WF_replVars(\E w \in Stream \X Rows : Forward(w))
  /\ WF_replVars(~replicaEnd /\ SourceCloses)
  /\ WF_replVars(~sourceEnd /\ ReplicaCloses)

FairReplSpec == ReplSpec /\ ReplFairness

-----------------------------------------------------------------------------
(* Properties.                                                             *)

(***************************************************************************)
(* A replica never regresses (register_inner's apply): no step lowers the  *)
(* revision of a row but the deletion of one deleted at the source, even   *)
(* with two streams covering the same row.                                 *)
(***************************************************************************)
NeverRegresses ==
  [][\A r \in Rows : replica'[r] < replica[r] => replica'[r] = 0 /\ r \in removed]_replVars

(***************************************************************************)
(* The marker means a complete snapshot (SyncUpdate::snapshot_complete):   *)
(* once it has been handled, every row that matched the filters when the   *)
(* subscription was received is at the replica, as new as it was then,     *)
(* unless the source has deleted it since.                                 *)
(***************************************************************************)
Matching(n) == {r \in Rows : \E i \in DOMAIN asked[n] : r \in FilterAt(n, i)}

MarkerMeansComplete ==
  \A n \in notified : \A r \in Matching(n) :
    replica[r] >= atStart[n][r] \/ r \in removed

\* The socket task handles a message to its end (InstanceConnection::websocket) and
\* waits for room that only it could make: it sends, receives and looks at its
\* deadline no more, and nothing but a restart ends the connection.  README.md says
\* what this means for the code; the four properties below are stated beside it.
Wedged ==
  /\ handler # Idle
  /\ handler.pc = "mark" \/ (handler.pc = "send" /\ handler.found # {})
  /\ ~HasRoom(handler.stream)

(***************************************************************************)
(* What a watch has seen arrives (spawn_watch and the forwarder): a commit *)
(* seen on behalf of an open stream is followed by the replica having what *)
(* the source has, deletions included, or the stream goes, or the source's *)
(* socket task waits for itself.                                           *)
(***************************************************************************)
EventsArrive ==
  \A n \in Stream, r \in Rows :
    (n \in open /\ events[<<n, r>>] # <<>>) ~> (n \notin open \/ replica[r] = source[r] \/ Wedged)

(***************************************************************************)
(* Every subscription is answered, even when nothing matches it            *)
(* (SyncResponder::on_message): its marker arrives, or the stream goes, or *)
(* the source's socket task waits for itself.                              *)
(***************************************************************************)
SubscriptionsAreAnswered ==
  \A n \in Stream : (n \in open) ~> (n \in notified \/ n \notin open \/ Wedged)

(***************************************************************************)
(* Watches end (SyncRequest::Close, Drop of SyncResponder): a stream the   *)
(* replica closed or lost leaves no watch behind at the source, unless the *)
(* socket task that would hear of it waits for itself.                     *)
(***************************************************************************)
WatchesEnd ==
  \A n \in Stream :
    (n \notin open /\ \E r \in Rows : <<n, r>> \in watched)
      ~> (Wedged \/ \A r \in Rows : <<n, r>> \notin watched)

(***************************************************************************)
(* A connection that is gone is noticed (KEEPALIVE_DEADLINE): once the     *)
(* replica's end is closed, the source's end closes too, whatever is asked *)
(* for, half answered or on its way, unless its socket task waits for      *)
(* itself.                                                                 *)
(***************************************************************************)
GoneIsNoticed == (sourceEnd /\ ~replicaEnd) ~> (~sourceEnd \/ Wedged)

(***************************************************************************)
(* "It answers with a snapshot of the matching records and then streams    *)
(* live changes until the requester sends Close" (network/sync.rs): when   *)
(* an open stream has reported its snapshot and nothing is on its way any  *)
(* more, the rows it covers are at the replica as they are at the source.  *)
(***************************************************************************)
Quiet ==
  /\ sourceEnd /\ replicaEnd /\ requests = <<>> /\ handler = Idle
  /\ \A n \in Stream : outbox[n] = <<>>
  /\ \A w \in Stream \X Rows : events[w] = <<>>

LiveChangesAreStreamed ==
  Quiet => \A n \in open \cap notified : \A r \in Matching(n) :
    source[r] # 0 => replica[r] = source[r]

(***************************************************************************)
(* A row whose deletion the replica has applied stays deleted while it has *)
(* subscribed only once (apply, event_to_record): a deletion leaves        *)
(* nothing behind that carries its revision, so it is the order of the     *)
(* snapshot and the events alone that keeps an older record from following *)
(* it.  Two subscriptions that cover one row have no such order, and       *)
(* README.md says what follows.                                            *)
(***************************************************************************)
DeletedStaysDeleted == Quiet /\ Len(asked) = 1 => \A r \in buried : replica[r] = 0
=============================================================================
