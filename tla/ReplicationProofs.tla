-------------------------- MODULE ReplicationProofs --------------------------
(***************************************************************************)
(* Replication over one connection, proved for every set of rows, every    *)
(* capacity and every bound: its types, that a replica never regresses     *)
(* although two streams may carry the same row in any order, that a marker *)
(* that was handled means a complete snapshot, that a deletion that was    *)
(* applied stays, and that no stream is forgotten by its source: not one   *)
(* that waits for its marker, nor one that was closed.                     *)
(*                                                                         *)
(* The argument: a record that says "deleted" is made only by the event of *)
(* a deletion (Truth), and a batch says one thing about a row (OneEach),   *)
(* so that the revision check of Applied decides alone.  For the marker,   *)
(* every row that matches is followed from the read to the replica         *)
(* (MarkerInv).  For deletions, a row is read before it is watched and     *)
(* only once (ReadFirst), so that its deletion is the last that a stream   *)
(* says of it (LastWord).                                                  *)
(***************************************************************************)
EXTENDS Replication, SequenceTheorems, TLAPS

\* The messages in transit name streams that were opened.
Posts == {q \in Request : q.stream \in 1..Len(asked)}

\* A record of revision 0 is about a row deleted at the source.
Truth == {x \in Record : x.rev = 0 => x.row \in removed}

\* A batch says one thing about a row.
OneEach(records) == \A x, y \in records : x.row = y.row => x = y

Batches == {u \in Update : u.records \subseteq Truth /\ OneEach(u.records)}

\* The parts of the state that are not in transit.
Ends ==
  /\ source \in [Rows -> 0..MaxRev]
  /\ removed \in SUBSET Rows
  /\ replica \in [Rows -> 0..MaxRev]
  /\ sourceEnd \in BOOLEAN /\ replicaEnd \in BOOLEAN
  /\ asked \in Seq(Requests) /\ Len(asked) <= MaxStreams
  /\ open \in SUBSET (1..Len(asked))
  /\ watched \in SUBSET (Stream \X Rows)
  /\ notified \in SUBSET open
  /\ atStart \in [Stream -> [Rows -> 0..MaxRev]]
  /\ buried \in SUBSET removed

\* The handler serves a filter of a stream that was opened; its snapshot has no
\* deletions, one record of a row, and none of a row it has still to read; it is
\* gone once sent.
Serving ==
  /\ handler \in Handler \cup {Idle}
  /\ handler # Idle => /\ handler.stream \in 1..Len(asked)
                       /\ handler.at \in 1..Len(asked[handler.stream])
  /\ \A x \in handler.found : x.rev # 0
  /\ OneEach(handler.found)
  /\ handler.pc = "scan" => \A x \in handler.found : x.row \notin handler.left
  /\ handler.pc \in {"watch", "mark"} => handler.found = {}

InTransit ==
  /\ requests \in Seq(Posts)
  /\ events \in [Stream \X Rows -> Seq(Truth)]
  /\ outbox \in [Stream -> Seq(Batches)]
  /\ \A n \in Stream : Len(outbox[n]) <= Capacity

ReplInv == Ends /\ Serving /\ InTransit

-----------------------------------------------------------------------------
(* Helpers.                                                                *)

\* The invariant has the types.
LEMMA InvHasTypes == ReplInv => ReplTypeOK
<1> SUFFICES ASSUME ReplInv PROVE ReplTypeOK
  OBVIOUS
<1>1. /\ Seq(Posts) \subseteq Seq(Request)
      /\ Seq(Truth) \subseteq Seq(Record)
      /\ Seq(Batches) \subseteq Seq(Update)
  BY SeqMonotonic, Posts \subseteq Request, Truth \subseteq Record, Batches \subseteq Update
    DEF Posts, Truth, Batches
<1> QED
  BY <1>1 DEF ReplInv, Ends, Serving, InTransit, ReplTypeOK

\* The filters of a stream that was opened are sets of rows, and it has one.
LEMMA FiltersAreRows ==
  ASSUME Ends, NEW n \in 1..Len(asked)
  PROVE  /\ n \in Stream
         /\ 1 \in 1..Len(asked[n])
         /\ \A i \in 1..Len(asked[n]) : FilterAt(n, i) \in SUBSET Rows
<1>1. asked[n] \in Requests
  BY ElementOfSeq DEF Ends
<1>2. asked[n] \in Seq((SUBSET Rows) \ {{}}) /\ asked[n] # <<>>
  BY <1>1, ReplicationAssumption
<1>3. \A i \in 1..Len(asked[n]) : asked[n][i] \in SUBSET Rows
  BY <1>2, ElementOfSeq
<1>4. Len(asked[n]) \in Nat /\ Len(asked[n]) # 0
  BY <1>2, LenProperties, EmptySeq
<1>5. Len(asked) \in Nat /\ Len(asked) <= MaxStreams
  BY LenProperties DEF Ends
<1>6. n \in Stream
  BY <1>5, ReplicationAssumption DEF Stream
<1>7. 1 \in 1..Len(asked[n])
  BY <1>4
<1> QED
  BY <1>3, <1>6, <1>7 DEF FilterAt

\* Deleting more rows keeps what was said of them true.
LEMMA TruthGrows ==
  ASSUME removed \subseteq removed'
  PROVE  /\ Seq(Truth) \subseteq Seq(Truth')
         /\ Seq(Batches) \subseteq Seq(Batches')
<1>1. Truth \subseteq Truth'
  BY DEF Truth, Record
<1>2. Batches \subseteq Batches'
  BY <1>1 DEF Batches, OneEach, Update, Record
<1> QED
  BY <1>1, <1>2, SeqMonotonic

\* A buffer with room takes one more batch.
LEMMA PutKeepsBuffers ==
  ASSUME InTransit, NEW n \in Stream, NEW records \in SUBSET Truth, OneEach(records),
         NEW complete \in BOOLEAN, HasRoom(n), Put(n, records, complete)
  PROVE  /\ outbox' \in [Stream -> Seq(Batches)]
         /\ \A k \in Stream : Len(outbox'[k]) <= Capacity
<1> DEFINE u == [records |-> records, complete |-> complete]
<1>1. u \in Batches
  BY DEF Batches, Update, Truth
<1>2. outbox[n] \in Seq(Batches)
  BY DEF InTransit
<1>3. Append(outbox[n], u) \in Seq(Batches) /\ Len(Append(outbox[n], u)) = Len(outbox[n]) + 1
  BY <1>1, <1>2, AppendProperties
<1>4. Len(outbox[n]) \in Nat /\ Len(outbox[n]) < Capacity
  BY <1>2, LenProperties DEF HasRoom
<1>5. outbox' = [outbox EXCEPT ![n] = Append(outbox[n], u)]
  BY DEF Put
<1> QED
  BY <1>3, <1>4, <1>5, ReplicationAssumption DEF InTransit

\* A message of a stream that was opened joins what is on its way.
LEMMA SendKeepsPosts ==
  ASSUME ReplInv, asked' \in Seq(Requests), NEW n \in 1..Len(asked'), n \in Stream,
         NEW op \in {"subscribe", "close"}, Send(op, n), Len(asked) <= Len(asked')
  PROVE  requests' \in Seq(Posts')
<1>1. Len(asked) \in Nat /\ Len(asked') \in Nat
  BY LenProperties DEF ReplInv, Ends
<1>2. Posts \subseteq Posts'
  BY <1>1 DEF Posts
<1>3. requests \in Seq(Posts')
  BY <1>2, SeqMonotonic DEF ReplInv, InTransit
<1>4. [op |-> op, stream |-> n] \in Posts'
  BY DEF Posts, Request
<1>5. Append(requests, [op |-> op, stream |-> n]) \in Seq(Posts')
  BY <1>3, <1>4, AppendProperties
<1> QED
  BY <1>3, <1>5 DEF Send

\* What a batch makes of the replica, and what it may lower.
LEMMA AppliedProperties ==
  ASSUME Ends, NEW records \in SUBSET Truth, OneEach(records)
  PROVE  /\ Applied(records) \in [Rows -> 0..MaxRev]
         /\ \A r \in Rows : Applied(records)[r] < replica[r]
                            => Applied(records)[r] = 0 /\ r \in removed
<1> SUFFICES ASSUME NEW r \in Rows
             PROVE  /\ Applied(records)[r] \in 0..MaxRev
                    /\ Applied(records)[r] < replica[r]
                         => Applied(records)[r] = 0 /\ r \in removed
  BY DEF Applied
<1>1. CASE \E x \in records : x.row = r /\ (x.rev = 0 \/ x.rev > replica[r])
  <2>1. PICK x \in records : x.row = r /\ (x.rev = 0 \/ x.rev > replica[r])
    BY <1>1
  <2>2. \A y \in records : y.row = r => y = x
    BY <2>1 DEF OneEach
  <2>3. (CHOOSE y \in records : y.row = r) = x
    BY <2>1, <2>2
  <2>4. Applied(records)[r] = x.rev
    BY <1>1, <2>3 DEF Applied
  <2>5. x.rev \in 0..MaxRev /\ (x.rev = 0 => r \in removed)
    BY <2>1 DEF Truth, Record
  <2> QED
    BY <2>1, <2>4, <2>5, ReplicationAssumption DEF Ends
<1>2. CASE ~ \E x \in records : x.row = r /\ (x.rev = 0 \/ x.rev > replica[r])
  <2>1. Applied(records)[r] = replica[r]
    BY <1>2 DEF Applied
  <2> QED
    BY <2>1, ReplicationAssumption DEF Ends
<1> QED BY <1>1, <1>2

-----------------------------------------------------------------------------
(* The invariant holds initially and every step keeps it.                  *)

LEMMA InvInitially == ReplInit => ReplInv
<1> SUFFICES ASSUME ReplInit PROVE ReplInv
  OBVIOUS
<1>1. \A S : <<>> \in Seq(S)
  BY EmptySeq
<1>2. Nothing \in [Rows -> 0..MaxRev]
  BY ReplicationAssumption DEF Nothing
<1>3. Len(<<>>) = 0
  BY EmptySeq
<1>4. Ends
  <2>1. asked \in Seq(Requests) /\ Len(asked) <= MaxStreams
    BY <1>1, <1>3, ReplicationAssumption DEF ReplInit
  <2>2. /\ source \in [Rows -> 0..MaxRev] /\ replica \in [Rows -> 0..MaxRev]
        /\ atStart \in [Stream -> [Rows -> 0..MaxRev]]
    BY <1>2 DEF ReplInit
  <2> QED
    BY <2>1, <2>2 DEF ReplInit, Ends
<1>5. Serving
  BY DEF ReplInit, Serving, Idle, OneEach
<1>6. InTransit
  BY <1>1, <1>3, ReplicationAssumption DEF ReplInit, InTransit
<1> QED
  BY <1>4, <1>5, <1>6 DEF ReplInv

\* A commit tells the truth to the watches of its row.
LEMMA CommitKeepsInv ==
  ASSUME ReplInv, NEW r \in Rows, Write(r) \/ Remove(r)
  PROVE  ReplInv'
<1> DEFINE rev == IF Write(r) THEN source[r] + 1 ELSE 0
<1>1. /\ Commit(r, rev) /\ rev \in 0..MaxRev
      /\ removed \subseteq removed' /\ removed' \in SUBSET Rows
      /\ rev = 0 => r \in removed'
  <2>1. CASE Write(r)
    <3>1. source[r] \in 0..MaxRev /\ source[r] < MaxRev /\ MaxRev \in Nat
      BY <2>1, ReplicationAssumption DEF ReplInv, Ends, Write
    <3> QED BY <2>1, <3>1 DEF Write, ReplInv, Ends
  <2>2. CASE ~Write(r)
    <3>1. Remove(r) /\ 0 \in 0..MaxRev
      BY <2>2, ReplicationAssumption
    <3> QED BY <2>2, <3>1 DEF Remove, ReplInv, Ends
  <2> QED BY <2>1, <2>2
<1>2. Ends'
  BY <1>1 DEF Commit, ReplInv, Ends, replicaVars
<1>3. Serving'
  BY <1>1 DEF Commit, ReplInv, Serving, replicaVars
<1>4. Posts' = Posts
  BY <1>1 DEF Commit, Posts, replicaVars
<1>5. events' \in [Stream \X Rows -> Seq(Truth')]
  <2>1. Commit(r, rev)
    BY <1>1
  <2>2. \A w \in Stream \X Rows : events[w] \in Seq(Truth')
    BY <1>1, TruthGrows DEF ReplInv, InTransit
  <2>3. [row |-> r, rev |-> rev] \in Truth'
    BY <1>1 DEF Truth, Record
  <2>4. \A w \in Stream \X Rows : Append(events[w], [row |-> r, rev |-> rev]) \in Seq(Truth')
    BY <2>2, <2>3, AppendProperties
  <2> HIDE DEF rev
  <2> QED BY <2>1, <2>2, <2>4 DEF Commit
<1>6. outbox' = outbox /\ outbox \in [Stream -> Seq(Batches')]
  BY <1>1, TruthGrows DEF Commit, ReplInv, InTransit
<1> QED
  BY <1>1, <1>2, <1>3, <1>4, <1>5, <1>6 DEF ReplInv, InTransit, Commit

\* Ends come up and go: what was in transit is gone, and nothing else changes.
LEMMA ConnectionKeepsInv ==
  ASSUME ReplInv, Connect \/ SourceRestarts \/ SourceCloses \/ ReplicaCloses
  PROVE  ReplInv'
<1>1. CASE Connect
  BY <1>1 DEF Connect, ReplInv, Ends, Serving, InTransit, Posts, Truth, Batches, sourceVars,
              replicaVars
<1>2. CASE DropResponders
  <2>1. \A S : <<>> \in Seq(S)
    BY EmptySeq
  <2>2. Len(<<>>) <= Capacity
    BY EmptySeq, ReplicationAssumption
  <2>3. Ends'
    BY <1>2 DEF DropResponders, ReplInv, Ends, replicaVars
  <2>4. Serving'
    BY <1>2 DEF DropResponders, Serving, Idle, OneEach
  <2>5. InTransit'
    BY <1>2, <2>1, <2>2 DEF DropResponders, InTransit
  <2> QED BY <2>3, <2>4, <2>5 DEF ReplInv
<1>3. CASE ReplicaCloses
  <2>1. Ends'
    <3>1. Nothing \in [Rows -> 0..MaxRev]
      BY ReplicationAssumption DEF Nothing
    <3> QED BY <1>3, <3>1 DEF ReplicaCloses, Forget, ReplInv, Ends, sourceVars
  <2>2. Serving' /\ InTransit'
    BY <1>3 DEF ReplicaCloses, ReplInv, Serving, InTransit, Posts, Truth, Batches, sourceVars
  <2> QED BY <2>1, <2>2 DEF ReplInv
<1> QED
  BY <1>1, <1>2, <1>3 DEF SourceRestarts, SourceCloses

\* Opening a stream names one more.
LEMMA OpenSyncKeepsInv ==
  ASSUME ReplInv, NEW f \in Requests, OpenSync(f)
  PROVE  ReplInv'
<1> DEFINE n == Len(asked) + 1
<1>1. Len(asked) \in Nat /\ asked \in Seq(Requests) /\ Len(asked) < MaxStreams
  BY LenProperties DEF ReplInv, Ends, OpenSync
<1>2. /\ asked' \in Seq(Requests) /\ Len(asked') = n
      /\ \A i \in 1..Len(asked) : asked'[i] = asked[i]
  BY <1>1, AppendProperties DEF OpenSync
<1>3. n \in 1..Len(asked') /\ n \in Stream /\ n <= MaxStreams /\ 1..Len(asked) \subseteq 1..Len(asked')
  BY <1>1, <1>2, ReplicationAssumption DEF Stream
<1>4. Ends'
  BY <1>2, <1>3 DEF OpenSync, ReplInv, Ends, sourceVars
<1>5. Serving'
  BY <1>2, <1>3 DEF OpenSync, ReplInv, Serving, sourceVars
<1>6. requests' \in Seq(Posts')
  BY <1>1, <1>2, <1>3, SendKeepsPosts DEF OpenSync
<1>7. InTransit'
  BY <1>6 DEF OpenSync, ReplInv, InTransit, Truth, Batches, sourceVars
<1> QED BY <1>4, <1>5, <1>7 DEF ReplInv

\* Closing one keeps what the others are about.
LEMMA CloseSyncKeepsInv ==
  ASSUME ReplInv, NEW n \in Stream, CloseSync(n)
  PROVE  ReplInv'
<1>1. n \in 1..Len(asked) /\ asked' = asked /\ Len(asked) \in Nat
  BY LenProperties DEF CloseSync, ReplInv, Ends
<1>2. Nothing \in [Rows -> 0..MaxRev]
  BY ReplicationAssumption DEF Nothing
<1>3. Ends'
  BY <1>2 DEF CloseSync, Forget, ReplInv, Ends, sourceVars
<1>4. Serving'
  BY DEF CloseSync, ReplInv, Serving, sourceVars
<1>5. requests' \in Seq(Posts')
  BY <1>1, SendKeepsPosts DEF CloseSync, ReplInv, Ends
<1>6. InTransit'
  BY <1>5 DEF CloseSync, ReplInv, InTransit, Truth, Batches, sourceVars
<1> QED BY <1>3, <1>4, <1>6 DEF ReplInv

\* A batch in a buffer is true and of one mind.
LEMMA HeadBatch ==
  ASSUME InTransit, NEW n \in Stream, outbox[n] # <<>>
  PROVE  /\ Head(outbox[n]).records \in SUBSET Truth
         /\ OneEach(Head(outbox[n]).records)
         /\ Tail(outbox[n]) \in Seq(Batches)
         /\ Len(Tail(outbox[n])) <= Capacity
<1>1. outbox[n] \in Seq(Batches) /\ Len(outbox[n]) <= Capacity
  BY DEF InTransit
<1>2. /\ Head(outbox[n]) \in Batches
      /\ Tail(outbox[n]) \in Seq(Batches)
      /\ Len(Tail(outbox[n])) = Len(outbox[n]) - 1
  BY <1>1, HeadTailProperties
<1>3. Len(outbox[n]) \in Nat
  BY <1>1, LenProperties
<1> QED
  BY <1>1, <1>2, <1>3, ReplicationAssumption DEF Batches

\* Handling a batch at the replica.
LEMMA SocketSendsKeepsInv ==
  ASSUME ReplInv, NEW n \in Stream, SocketSends(n)
  PROVE  ReplInv'
<1> DEFINE batch == Head(outbox[n])
<1>1. /\ batch.records \in SUBSET Truth /\ OneEach(batch.records)
      /\ Tail(outbox[n]) \in Seq(Batches) /\ Len(Tail(outbox[n])) <= Capacity
  BY HeadBatch DEF SocketSends, ReplInv
<1>2. Ends'
  <2>1. CASE n \in open
    <3>1. Receive(n, batch)
      BY <2>1 DEF SocketSends
    <3>2. replica' \in [Rows -> 0..MaxRev]
      BY <1>1, <3>1, AppliedProperties DEF Receive, ReplInv
    <3>3. buried' \in SUBSET removed
      BY <1>1, <3>1 DEF Receive, ReplInv, Ends, Truth
    <3>4. notified' \in SUBSET open
      BY <2>1, <3>1 DEF Receive, ReplInv, Ends
    <3> QED BY <3>2, <3>3, <3>4 DEF SocketSends, ReplInv, Ends
  <2>2. CASE n \notin open
    BY <2>2 DEF SocketSends, ReplInv, Ends
  <2> QED BY <2>1, <2>2
<1>3. Serving'
  BY DEF SocketSends, ReplInv, Serving
<1>4. InTransit'
  <2>1. /\ outbox' \in [Stream -> Seq(Batches)]
        /\ \A k \in Stream : Len(outbox'[k]) <= Capacity
    BY <1>1 DEF SocketSends, ReplInv, InTransit
  <2> QED BY <2>1 DEF SocketSends, ReplInv, InTransit, Posts, Truth, Batches
<1> QED BY <1>2, <1>3, <1>4 DEF ReplInv

\* A request taken in hand names a stream that was opened.
LEMMA HeadPost ==
  ASSUME ReplInv, requests # <<>>
  PROVE  /\ Head(requests).stream \in 1..Len(asked)
         /\ Tail(requests) \in Seq(Posts)
BY HeadTailProperties DEF ReplInv, InTransit, Posts

LEMMA RequestsKeepInv ==
  ASSUME ReplInv, ReceiveSubscribe \/ ReceiveClose
  PROVE  ReplInv'
<1> DEFINE n == Head(requests).stream
<1>1. requests # <<>> /\ requests' = Tail(requests) /\ asked' = asked /\ removed' = removed
  BY DEF ReceiveSubscribe, ReceiveClose, replicaVars
<1>2. n \in 1..Len(asked) /\ requests' \in Seq(Posts')
  BY <1>1, HeadPost DEF Posts
<1>3. CASE ReceiveSubscribe
  <2>1. /\ n \in Stream /\ 1 \in 1..Len(asked[n]) /\ FilterAt(n, 1) \in SUBSET Rows
    BY <1>2, FiltersAreRows DEF ReplInv
  <2>2. handler' = [stream |-> n, at |-> 1, pc |-> "scan", left |-> FilterAt(n, 1), found |-> {}]
    BY <1>3 DEF ReceiveSubscribe
  <2>3. Serving'
    BY <1>1, <1>2, <2>1, <2>2 DEF Serving, Handler, OneEach
  <2>4. Ends'
    BY <1>3 DEF ReceiveSubscribe, ReplInv, Ends, replicaVars
  <2>5. InTransit'
    BY <1>1, <1>2, <1>3 DEF ReceiveSubscribe, ReplInv, InTransit, Truth, Batches
  <2> QED BY <2>3, <2>4, <2>5 DEF ReplInv
<1>4. CASE ReceiveClose
  <2>1. Ends'
    BY <1>4 DEF ReceiveClose, ReplInv, Ends, replicaVars
  <2>2. Serving'
    BY <1>4 DEF ReceiveClose, ReplInv, Serving, replicaVars
  <2>3. InTransit'
    BY <1>1, <1>2, <1>4, EmptySeq DEF ReceiveClose, ReplInv, InTransit, Truth, Batches
  <2> QED BY <2>1, <2>2, <2>3 DEF ReplInv
<1> QED BY <1>3, <1>4

\* The handler between its steps.
LEMMA HandlerAtWork ==
  ASSUME ReplInv, handler.pc # "idle"
  PROVE  /\ handler \in Handler /\ handler # Idle
         /\ handler.stream \in 1..Len(asked) /\ handler.stream \in Stream
         /\ handler.at \in 1..Len(asked[handler.stream])
         /\ \A i \in 1..Len(asked[handler.stream]) : FilterAt(handler.stream, i) \in SUBSET Rows
         /\ handler.found \in SUBSET Truth /\ OneEach(handler.found)
<1>1. handler \in Handler /\ handler # Idle
  BY DEF ReplInv, Serving, Idle
<1>2. handler.stream \in 1..Len(asked) /\ handler.at \in 1..Len(asked[handler.stream])
  BY <1>1 DEF ReplInv, Serving
<1>3. handler.found \in SUBSET Truth
  BY <1>1 DEF ReplInv, Serving, Handler, Truth
<1> QED
  BY <1>1, <1>2, <1>3, FiltersAreRows DEF ReplInv, Serving

LEMMA ScanKeepsInv ==
  ASSUME ReplInv, NEW r \in Rows, Scan(r)
  PROVE  ReplInv'
<1> DEFINE left  == handler.left \ {r}
           pc    == IF left = {} THEN "send" ELSE "scan"
           found == IF source[r] # 0
                      THEN handler.found \cup {[row |-> r, rev |-> source[r]]} ELSE handler.found
<1>1. /\ handler \in Handler /\ handler.pc = "scan" /\ r \in handler.left
      /\ handler' = [handler EXCEPT !.left = left, !.pc = pc, !.found = found]
  BY HandlerAtWork DEF Scan
<1>2. /\ \A x \in handler.found : x.rev # 0 /\ x.row \notin handler.left
      /\ OneEach(handler.found)
      /\ handler.found \in SUBSET Record /\ handler.left \in SUBSET Rows
  BY <1>1 DEF ReplInv, Serving, Handler
<1>3. source[r] # 0 => [row |-> r, rev |-> source[r]] \in Record
  BY DEF ReplInv, Ends, Record
<1>4. found \in SUBSET Record /\ \A x \in found : x.rev # 0 /\ x.row \notin left
  BY <1>1, <1>2, <1>3
<1>5. OneEach(found)
  BY <1>1, <1>2 DEF OneEach
<1>6. handler' \in Handler /\ handler'.stream = handler.stream /\ handler'.at = handler.at
      /\ handler'.found = found /\ handler'.left = left /\ handler'.pc \in {"scan", "send"}
  <2> HIDE DEF found
  <2> QED BY <1>1, <1>2, <1>4 DEF Handler
<1>7. Serving'
  <2>1. handler.stream \in 1..Len(asked) /\ handler.at \in 1..Len(asked[handler.stream])
    BY <1>1, HandlerAtWork
  <2> HIDE DEF found, left
  <2> QED BY <1>4, <1>5, <1>6, <2>1 DEF Serving, Scan, replicaVars
<1>8. Ends' /\ InTransit'
  BY DEF Scan, ReplInv, Ends, InTransit, Posts, Truth, Batches, replicaVars
<1> QED BY <1>7, <1>8 DEF ReplInv

LEMMA SendSnapshotKeepsInv ==
  ASSUME ReplInv, SendSnapshot
  PROVE  ReplInv'
<1>1. handler.pc = "send" /\ asked' = asked /\ removed' = removed
  BY DEF SendSnapshot, replicaVars
<1>2. handler' = [handler EXCEPT !.pc = "watch", !.found = {},
                                 !.left = FilterAt(handler.stream, handler.at)]
  BY DEF SendSnapshot
<1>3. handler' \in Handler /\ handler'.stream = handler.stream /\ handler'.at = handler.at
      /\ handler'.found = {} /\ handler'.pc = "watch"
  BY <1>1, <1>2, HandlerAtWork DEF Handler
<1>4. Serving'
  BY <1>1, <1>3, HandlerAtWork DEF Serving, OneEach
<1>5. Ends'
  BY DEF SendSnapshot, ReplInv, Ends, replicaVars
<1>6. /\ outbox' \in [Stream -> Seq(Batches)]
      /\ \A k \in Stream : Len(outbox'[k]) <= Capacity
  <2>1. CASE handler.found = {}
    BY <2>1 DEF SendSnapshot, ReplInv, InTransit
  <2>2. CASE handler.found # {}
    <3>1. /\ handler.stream \in Stream
          /\ handler.found \in SUBSET Truth /\ OneEach(handler.found)
      BY <1>1, HandlerAtWork
    <3>2. HasRoom(handler.stream) /\ Put(handler.stream, handler.found, FALSE)
      BY <2>2 DEF SendSnapshot
    <3> QED BY <3>1, <3>2, PutKeepsBuffers DEF ReplInv
  <2> QED BY <2>1, <2>2
<1>7. InTransit'
  BY <1>6 DEF SendSnapshot, ReplInv, InTransit, Posts, Truth, Batches, replicaVars
<1> QED BY <1>4, <1>5, <1>7 DEF ReplInv

LEMMA WatchKeepsInv ==
  ASSUME ReplInv, NEW r \in Rows, Watch(r)
  PROVE  ReplInv'
<1> DEFINE left == handler.left \ {r}
           next == handler.at + 1
           n    == handler.stream
<1>1. handler.pc = "watch" /\ asked' = asked
  BY DEF Watch, replicaVars
<1>2. /\ handler \in Handler /\ left \in SUBSET Rows
      /\ n \in 1..Len(asked) /\ n \in Stream /\ handler.at \in 1..Len(asked[n])
      /\ \A i \in 1..Len(asked[n]) : FilterAt(n, i) \in SUBSET Rows
  BY <1>1, HandlerAtWork DEF Handler
<1>3. \/ handler' = [handler EXCEPT !.left = left]
      \/ /\ next <= Len(asked[n])
         /\ handler' = [handler EXCEPT !.at = next, !.pc = "scan", !.left = FilterAt(n, next)]
      \/ handler' = [handler EXCEPT !.pc = "mark", !.left = {}]
  BY DEF Watch
<1>4. handler.found = {}
  BY <1>1 DEF ReplInv, Serving
<1>5. next \in Nat /\ (next <= Len(asked[n]) => next \in 1..Len(asked[n]))
  BY <1>2
<1>6. handler' \in Handler /\ handler'.stream = n /\ handler'.at \in 1..Len(asked[n])
      /\ handler'.found = {}
  <2>1. CASE handler' = [handler EXCEPT !.left = left]
    BY <1>2, <1>4, <2>1 DEF Handler
  <2>2. CASE /\ next <= Len(asked[n])
             /\ handler' = [handler EXCEPT !.at = next, !.pc = "scan", !.left = FilterAt(n, next)]
    <3>1. next \in Nat \ {0} /\ FilterAt(n, next) \in SUBSET Rows
      BY <1>2, <1>5, <2>2
    <3> QED BY <1>2, <1>4, <1>5, <2>2, <3>1 DEF Handler
  <2>3. CASE handler' = [handler EXCEPT !.pc = "mark", !.left = {}]
    BY <1>2, <1>4, <2>3 DEF Handler
  <2> QED BY <1>3, <2>1, <2>2, <2>3
<1>7. Serving'
  BY <1>1, <1>2, <1>6 DEF Serving, OneEach
<1>8. Ends'
  BY <1>2 DEF Watch, ReplInv, Ends, replicaVars
<1>9. InTransit'
  BY DEF Watch, ReplInv, InTransit, Posts, Truth, Batches, replicaVars
<1> QED BY <1>7, <1>8, <1>9 DEF ReplInv

LEMMA SendMarkerKeepsInv ==
  ASSUME ReplInv, SendMarker
  PROVE  ReplInv'
<1>1. handler.stream \in Stream
  BY HandlerAtWork DEF SendMarker
<1>2. {} \in SUBSET Truth /\ OneEach({})
  BY DEF OneEach
<1>3. /\ outbox' \in [Stream -> Seq(Batches)]
      /\ \A k \in Stream : Len(outbox'[k]) <= Capacity
  BY <1>1, <1>2, PutKeepsBuffers DEF SendMarker, ReplInv
<1>4. InTransit'
  BY <1>3 DEF SendMarker, ReplInv, InTransit, Posts, Truth, Batches, replicaVars
<1>5. Serving'
  BY DEF SendMarker, Serving, Idle, OneEach
<1>6. Ends'
  BY DEF SendMarker, ReplInv, Ends, replicaVars
<1> QED BY <1>4, <1>5, <1>6 DEF ReplInv

LEMMA ForwardKeepsInv ==
  ASSUME ReplInv, NEW w \in Stream \X Rows, Forward(w)
  PROVE  ReplInv'
<1>1. w[1] \in Stream /\ events[w] \in Seq(Truth) /\ events[w] # <<>>
  BY DEF Forward, ReplInv, InTransit
<1>2. Head(events[w]) \in Truth /\ Tail(events[w]) \in Seq(Truth)
  BY <1>1, HeadTailProperties
<1>3. {Head(events[w])} \in SUBSET Truth /\ OneEach({Head(events[w])})
  BY <1>2 DEF OneEach
<1>4. /\ outbox' \in [Stream -> Seq(Batches)]
      /\ \A k \in Stream : Len(outbox'[k]) <= Capacity
  BY <1>1, <1>3, PutKeepsBuffers DEF Forward, ReplInv
<1>5. InTransit'
  BY <1>2, <1>4 DEF Forward, ReplInv, InTransit, Posts, Truth, Batches, replicaVars
<1>6. Serving' /\ Ends'
  BY DEF Forward, ReplInv, Serving, Ends, replicaVars
<1> QED BY <1>5, <1>6 DEF ReplInv

-----------------------------------------------------------------------------
(* The theorems.                                                           *)

\* One step, of any actor, keeps the invariant.
LEMMA StepKeepsInv == ReplInv /\ [ReplNext]_replVars => ReplInv'
<1> SUFFICES ASSUME ReplInv, [ReplNext]_replVars PROVE ReplInv'
  OBVIOUS
<1>1. CASE UNCHANGED replVars
  BY <1>1 DEF replVars, sourceVars, replicaVars, ReplInv, Ends, Serving, InTransit, Posts, Truth,
              Batches
<1>2. CASE \E r \in Rows : Write(r) \/ Remove(r)
  BY <1>2, CommitKeepsInv
<1>3. CASE Connect \/ SourceRestarts \/ SourceCloses \/ ReplicaCloses
  BY <1>3, ConnectionKeepsInv
<1>4. CASE \E f \in Requests : OpenSync(f)
  BY <1>4, OpenSyncKeepsInv
<1>5. CASE \E n \in Stream : CloseSync(n)
  BY <1>5, CloseSyncKeepsInv
<1>6. CASE ReceiveSubscribe \/ ReceiveClose
  BY <1>6, RequestsKeepInv
<1>7. CASE HandlerStep
  BY <1>7, ScanKeepsInv, SendSnapshotKeepsInv, WatchKeepsInv, SendMarkerKeepsInv DEF HandlerStep
<1>8. CASE \E w \in Stream \X Rows : Forward(w)
  BY <1>8, ForwardKeepsInv
<1>9. CASE \E n \in Stream : SocketSends(n)
  BY <1>9, SocketSendsKeepsInv
<1> QED
  BY <1>1, <1>2, <1>3, <1>4, <1>5, <1>6, <1>7, <1>8, <1>9 DEF ReplNext

LEMMA ReplInvariant == ReplSpec => []ReplInv
<1> QED
  BY InvInitially, StepKeepsInv, PTL DEF ReplSpec

(***************************************************************************)
(* The state of a subscription is always well-formed; no buffer holds more *)
(* than its capacity, and a marker is reported of open streams only.       *)
(***************************************************************************)
THEOREM ReplicationTypes == ReplSpec => []ReplTypeOK
<1> QED
  BY ReplInvariant, InvHasTypes, PTL

\* A step lowers a row of the replica only to obey a deletion.
LEMMA StepNeverRegresses ==
  ASSUME ReplInv, [ReplNext]_replVars
  PROVE  [\A r \in Rows : replica'[r] < replica[r]
                          => replica'[r] = 0 /\ r \in removed]_replVars
<1> SUFFICES ASSUME NEW r \in Rows, replica'[r] < replica[r]
             PROVE  replica'[r] = 0 /\ r \in removed
  OBVIOUS
<1>1. replica[r] \in Nat
  BY ReplicationAssumption DEF ReplInv, Ends
<1>2. replica' # replica
  BY <1>1
<1>3. PICK n \in Stream : SocketSends(n) /\ n \in open
  BY <1>2 DEF replVars, replicaVars, ReplNext, HandlerStep, Write, Remove, Commit, Connect,
     SourceRestarts, SourceCloses, DropResponders, ReplicaCloses, OpenSync, CloseSync,
     ReceiveSubscribe, ReceiveClose, Scan, SendSnapshot, Watch, SendMarker, Forward, SocketSends
<1> DEFINE records == Head(outbox[n]).records
<1>4. records \in SUBSET Truth /\ OneEach(records)
  BY <1>3, HeadBatch DEF SocketSends, ReplInv
<1>5. replica' = Applied(records)
  BY <1>3 DEF SocketSends, Receive
<1> QED
  BY <1>4, <1>5, AppliedProperties DEF ReplInv

(***************************************************************************)
(* A replica never regresses, whatever streams cover its rows and in       *)
(* whatever order their updates arrive.                                    *)
(***************************************************************************)
THEOREM ReplicasNeverRegress == ReplSpec => NeverRegresses
<1> QED
  BY ReplInvariant, StepNeverRegresses, PTL DEF ReplSpec, NeverRegresses

-----------------------------------------------------------------------------
(* The marker: where the rows of a subscription are until it arrives.      *)

\* Row r of stream n is at the replica, or in one of the updates before the i-th of
\* its buffer, as new as it was when the subscription was received.
Reached(n, r) == replica[r] >= atStart[n][r] \/ r \in removed

Carries(update, n, r) == \E x \in update.records : x.row = r /\ x.rev >= atStart[n][r]

Ahead(n, r, i) ==
  \/ Reached(n, r)
  \/ \E j \in 1..Len(outbox[n]) : j < i /\ Carries(outbox[n][j], n, r)

\* The handler has yet to read row r of the i-th filter; it has read it and holds it.
ToRead(i, r) ==
  \/ handler.pc = "scan" /\ i = handler.at /\ r \in handler.left
  \/ handler.pc \in {"scan", "send", "watch"} /\ i > handler.at

InHand(r) == \E x \in handler.found : x.row = r /\ x.rev >= atStart[handler.stream][r]

Starts ==
  /\ \A n \in Stream \ open : atStart[n] = Nothing
  /\ \A n \in Stream, r \in Rows : source[r] >= atStart[n][r] \/ r \in removed

Reported == \A n \in notified : \A r \in Matching(n) : Reached(n, r)

Markers ==
  \A n \in Stream : \A i \in 1..Len(outbox[n]) : outbox[n][i].complete =>
    /\ n \in 1..Len(asked)
    /\ \A r \in Matching(n) : Ahead(n, r, i)

Answering ==
  LET n == handler.stream IN
  handler # Idle =>
    \A i \in 1..Len(asked[n]) : \A r \in FilterAt(n, i) :
      Ahead(n, r, Len(outbox[n]) + 1) \/ InHand(r) \/ ToRead(i, r)

\* A stream is subscribed once: no request to do so is about one that is answered.
Answered(n) ==
  \/ n \in notified \/ n = handler.stream
  \/ \E i \in 1..Len(outbox[n]) : outbox[n][i].complete

Subscribes(i, n) == requests[i].op = "subscribe" /\ requests[i].stream = n

Once ==
  \A i \in 1..Len(requests), n \in Stream : Subscribes(i, n) =>
    /\ ~Answered(n)
    /\ \A j \in 1..Len(requests) : Subscribes(j, n) => j = i

MarkerInv == Starts /\ Reported /\ Markers /\ Answering /\ Once

\* What the lemmas take for granted of the numbers.
LEMMA Numbers ==
  ASSUME ReplInv
  PROVE  /\ \A r \in Rows : replica[r] \in Nat /\ source[r] \in Nat
         /\ \A n \in Stream, r \in Rows : atStart[n][r] \in Nat
         /\ \A n \in Stream : outbox[n] \in Seq(Batches) /\ Len(outbox[n]) \in Nat
         /\ requests \in Seq(Posts) /\ Len(requests) \in Nat
         /\ Len(asked) \in Nat /\ 1..Len(asked) \subseteq Stream
<1>1. \A n \in Stream : outbox[n] \in Seq(Batches) /\ Len(outbox[n]) \in Nat
  BY LenProperties DEF ReplInv, InTransit
<1>2. requests \in Seq(Posts) /\ Len(requests) \in Nat /\ Len(asked) \in Nat
  BY LenProperties DEF ReplInv, InTransit, Ends
<1> QED
  BY <1>1, <1>2, ReplicationAssumption DEF ReplInv, Ends, Stream

\* A row that is ahead of a place in a buffer stays ahead of it while what is before
\* that place stays, or the stream is gone.
LEMMA AheadStays ==
  ASSUME ReplInv, ReplInv', NEW n \in Stream, NEW r \in Rows, NEW i \in Nat, Ahead(n, r, i),
         atStart'[n] \in {atStart[n], Nothing}, removed \subseteq removed',
         replica'[r] >= replica[r] \/ r \in removed',
         \A j \in 1..Len(outbox[n]) : j < i =>
           j \in 1..Len(outbox'[n]) /\ outbox'[n][j] = outbox[n][j]
  PROVE  Ahead(n, r, i)'
<1>1. /\ replica[r] \in Nat /\ replica'[r] \in Nat /\ atStart[n][r] \in Nat
      /\ Len(outbox[n]) \in Nat /\ Len(outbox'[n]) \in Nat
  BY Numbers, ReplInv' DEF ReplInv, Ends, InTransit
<1>2. CASE atStart'[n] = Nothing
  BY <1>1, <1>2 DEF Ahead, Reached, Nothing
<1>3. CASE atStart'[n] = atStart[n]
  <2>1. CASE Reached(n, r)
    BY <1>1, <1>3, <2>1 DEF Ahead, Reached
  <2>2. CASE \E j \in 1..Len(outbox[n]) : j < i /\ Carries(outbox[n][j], n, r)
    <3>1. PICK j \in 1..Len(outbox[n]) : j < i /\ Carries(outbox[n][j], n, r)
      BY <2>2
    <3>2. j \in 1..Len(outbox'[n]) /\ outbox'[n][j] = outbox[n][j]
      BY <3>1
    <3> QED
      BY <1>3, <3>1, <3>2 DEF Ahead, Carries
  <2> QED
    BY <2>1, <2>2 DEF Ahead
<1> QED
  BY <1>2, <1>3

\* A step that leaves buffers, handler and replica alone keeps what is said of them.
LEMMA Undisturbed ==
  ASSUME ReplInv, ReplInv', MarkerInv,
         \A n \in 1..Len(asked) : n \in 1..Len(asked') /\ asked'[n] = asked[n],
         \A n \in Stream : atStart'[n] \in {atStart[n], Nothing},
         removed \subseteq removed', notified' \subseteq notified,
         replica' = replica, outbox' = outbox, handler' = handler
  PROVE  Reported' /\ Markers' /\ Answering'
<1>1. \A n \in Stream, r \in Rows : \A i \in Nat : Ahead(n, r, i) => Ahead(n, r, i)'
  <2> SUFFICES ASSUME NEW n \in Stream, NEW r \in Rows, NEW i \in Nat, Ahead(n, r, i)
               PROVE  Ahead(n, r, i)'
    OBVIOUS
  <2>1. replica'[r] >= replica[r]
    BY Numbers
  <2> QED
    BY <2>1, AheadStays
<1>2. \A n \in 1..Len(asked) : Matching(n)' = Matching(n)
                               /\ \A i : FilterAt(n, i)' = FilterAt(n, i)
  BY DEF Matching, FilterAt
<1>3. notified \subseteq 1..Len(asked) /\ 1..Len(asked) \subseteq Stream
  BY Numbers DEF ReplInv, Ends
<1>4. Reported'
  <2> SUFFICES ASSUME NEW n \in notified', NEW r \in Matching(n)' PROVE Reached(n, r)'
    BY DEF Reported
  <2>1. n \in notified /\ n \in 1..Len(asked) /\ n \in Stream /\ r \in Matching(n) /\ r \in Rows
    BY <1>2, <1>3 DEF Matching
  <2>2. Reached(n, r)
    BY <2>1 DEF MarkerInv, Reported
  <2> QED
    BY <2>1, <2>2, Numbers DEF Reached, Nothing
<1>5. Markers'
  <2> SUFFICES ASSUME NEW n \in Stream, NEW i \in 1..Len(outbox'[n]), outbox'[n][i].complete
               PROVE  n \in 1..Len(asked') /\ \A r \in Matching(n)' : Ahead(n, r, i)'
    BY DEF Markers
  <2>1. n \in 1..Len(asked) /\ i \in Nat /\ \A r \in Matching(n) : Ahead(n, r, i)
    BY Numbers DEF MarkerInv, Markers
  <2> QED
    BY <1>1, <1>2, <2>1 DEF Matching
<1>6. Answering'
  <2> DEFINE n == handler.stream
  <2> SUFFICES ASSUME handler # Idle, NEW i \in 1..Len(asked'[n]), NEW r \in FilterAt(n, i)'
               PROVE  (Ahead(n, r, Len(outbox[n]) + 1) \/ InHand(r) \/ ToRead(i, r))'
    BY DEF Answering
  <2>1. n \in 1..Len(asked) /\ n \in Stream
    BY <1>3 DEF ReplInv, Serving
  <2>2. i \in 1..Len(asked[n]) /\ r \in FilterAt(n, i) /\ r \in Rows
    BY <1>2, <2>1, FiltersAreRows DEF ReplInv
  <2>3. Ahead(n, r, Len(outbox[n]) + 1) \/ InHand(r) \/ ToRead(i, r)
    BY <2>2 DEF MarkerInv, Answering
  <2>4. Len(outbox[n]) + 1 \in Nat
    BY <2>1, Numbers
  <2>5. ASSUME InHand(r) PROVE InHand(r)' \/ Reached(n, r)'
    <3>1. CASE atStart'[n] = atStart[n]
      BY <2>5, <3>1 DEF InHand
    <3>2. CASE atStart'[n] = Nothing
      BY <2>2, <3>2, Numbers DEF Reached, Nothing
    <3> QED
      BY <2>1, <3>1, <3>2
  <2>6. ASSUME Ahead(n, r, Len(outbox[n]) + 1) PROVE Ahead(n, r, Len(outbox[n]) + 1)'
    <3>1. Ahead(n, r, Len(outbox[n]) + 1)'
      BY <1>1, <2>1, <2>2, <2>4, <2>6 DEF Ahead
    <3> QED
      BY <3>1
  <2>7. ASSUME ToRead(i, r) PROVE ToRead(i, r)'
    BY <2>7 DEF ToRead
  <2> QED
    BY <2>3, <2>5, <2>6, <2>7 DEF Ahead
<1> QED
  BY <1>4, <1>5, <1>6

\* What is asked only once stays so while no request to subscribe is added and no
\* stream is newly answered.
LEMMA OnceStays ==
  ASSUME ReplInv, Once, \A n \in Stream : Answered(n)' => Answered(n),
         \/ requests' = requests
         \/ \E n \in Stream : requests' = Append(requests, [op |-> "close", stream |-> n])
  PROVE  Once'
<1>1. CASE requests' = requests
  BY <1>1 DEF Once, Subscribes
<1>2. CASE \E n \in Stream : requests' = Append(requests, [op |-> "close", stream |-> n])
  <2>1. PICK k \in Stream : requests' = Append(requests, [op |-> "close", stream |-> k])
    BY <1>2
  <2>2. /\ Len(requests') = Len(requests) + 1
        /\ requests'[Len(requests) + 1] = [op |-> "close", stream |-> k]
        /\ \A i \in 1..Len(requests) : requests'[i] = requests[i]
    BY <2>1, Numbers, AppendProperties
  <2>3. \A i \in 1..Len(requests'), n \in Stream :
          Subscribes(i, n)' => i \in 1..Len(requests) /\ Subscribes(i, n)
    BY <2>2, Numbers DEF Subscribes
  <2> QED
    BY <2>3 DEF Once
<1> QED
  BY <1>1, <1>2

\* One more update at the end of a buffer.
LEMMA PutAhead ==
  ASSUME ReplInv, ReplInv', MarkerInv, NEW k \in Stream, NEW records, NEW complete \in BOOLEAN,
         Put(k, records, complete),
         UNCHANGED <<replica, removed, atStart, asked, notified>>,
         complete => /\ k \in 1..Len(asked)
                     /\ \A r \in Matching(k) : Ahead(k, r, Len(outbox[k]) + 1)
  PROVE  /\ Reported' /\ Markers'
         /\ Len(outbox'[k]) = Len(outbox[k]) + 1
         /\ outbox'[k][Len(outbox[k]) + 1] = [records |-> records, complete |-> complete]
         /\ \A n \in Stream, r \in Rows : \A i \in Nat : Ahead(n, r, i) => Ahead(n, r, i)'
         /\ \A n \in Stream, i \in Nat : i \in 1..Len(outbox[n]) =>
              i \in 1..Len(outbox'[n]) /\ outbox'[n][i] = outbox[n][i]
         /\ \A n \in Stream : n # k => outbox'[n] = outbox[n]
<1> DEFINE u == [records |-> records, complete |-> complete]
<1>1. outbox' = [outbox EXCEPT ![k] = Append(outbox[k], u)]
  BY DEF Put
<1>2. /\ Len(outbox'[k]) = Len(outbox[k]) + 1
      /\ outbox'[k][Len(outbox[k]) + 1] = u
      /\ \A i \in 1..Len(outbox[k]) : outbox'[k][i] = outbox[k][i]
  <2>1. outbox'[k] = Append(outbox[k], u)
    BY <1>1 DEF ReplInv, InTransit
  <2>2. outbox[k] \in Seq(Batches \cup {u})
    BY Numbers, SeqMonotonic, Batches \subseteq Batches \cup {u}
  <2> HIDE DEF u
  <2> QED
    BY <2>1, <2>2, AppendProperties
<1>3. \A n \in Stream : n # k => outbox'[n] = outbox[n]
  BY <1>1 DEF ReplInv, InTransit
<1>4. \A n \in Stream, i \in Nat : i \in 1..Len(outbox[n]) =>
        i \in 1..Len(outbox'[n]) /\ outbox'[n][i] = outbox[n][i]
  BY <1>2, <1>3, Numbers
<1>5. \A n \in Stream, r \in Rows : \A i \in Nat : Ahead(n, r, i) => Ahead(n, r, i)'
  <2> SUFFICES ASSUME NEW n \in Stream, NEW r \in Rows, NEW i \in Nat, Ahead(n, r, i)
               PROVE  Ahead(n, r, i)'
    OBVIOUS
  <2>1. replica'[r] >= replica[r]
    BY Numbers
  <2>2. \A j \in 1..Len(outbox[n]) : j \in 1..Len(outbox'[n]) /\ outbox'[n][j] = outbox[n][j]
    BY <1>4
  <2> HIDE DEF u
  <2> QED
    BY <2>1, <2>2, AheadStays
<1>6. Reported'
  BY DEF MarkerInv, Reported, Reached, Matching, FilterAt
<1>7. Markers'
  <2> SUFFICES ASSUME NEW n \in Stream, NEW i \in 1..Len(outbox'[n]), outbox'[n][i].complete
               PROVE  n \in 1..Len(asked') /\ \A r \in Matching(n)' : Ahead(n, r, i)'
    BY DEF Markers
  <2>1. Matching(n)' = Matching(n) /\ Matching(n) \subseteq Rows
    BY DEF Matching, FilterAt
  <2>2. CASE i \in 1..Len(outbox[n])
    <3>1. outbox[n][i].complete /\ i \in Nat
      BY <1>4, <2>2, Numbers
    <3>2. n \in 1..Len(asked) /\ \A r \in Matching(n) : Ahead(n, r, i)
      BY <2>2, <3>1 DEF MarkerInv, Markers
    <3> QED
      BY <1>5, <2>1, <3>1, <3>2
  <2>3. CASE i \notin 1..Len(outbox[n])
    <3>1. n = k /\ i = Len(outbox[k]) + 1 /\ i \in Nat
      BY <1>2, <1>3, <2>3, Numbers
    <3>2. complete
      BY <1>2, <3>1
    <3> QED
      BY <1>5, <2>1, <3>1, <3>2
  <2> QED
    BY <2>2, <2>3
<1> QED
  BY <1>2, <1>3, <1>4, <1>5, <1>6, <1>7

-----------------------------------------------------------------------------
(* Every step keeps it.                                                    *)

LEMMA MarkerInitially == ReplInit => MarkerInv
<1> SUFFICES ASSUME ReplInit PROVE MarkerInv
  OBVIOUS
<1>1. Len(<<>>) = 0
  BY EmptySeq
<1>2. Starts
  BY DEF ReplInit, Starts, Nothing
<1> QED
  BY <1>1, <1>2 DEF ReplInit, MarkerInv, Reported, Markers, Answering, Once

LEMMA CommitKeepsMarker ==
  ASSUME ReplInv, ReplInv', MarkerInv, NEW r \in Rows, Write(r) \/ Remove(r)
  PROVE  MarkerInv'
<1>1. /\ UNCHANGED <<requests, atStart, handler, outbox, asked, open, notified, replica>>
      /\ removed \subseteq removed'
      /\ \A s \in Rows : source'[s] >= source[s] \/ s \in removed'
  <2>1. CASE Write(r)
    BY <2>1, Numbers DEF Write, Commit, replicaVars, ReplInv, Ends
  <2>2. CASE Remove(r)
    BY <2>2, Numbers DEF Remove, Commit, replicaVars, ReplInv, Ends
  <2> QED
    BY <2>1, <2>2
<1>2. Starts'
  BY <1>1, Numbers, ReplInv' DEF MarkerInv, Starts, ReplInv, Ends
<1>3. Reported' /\ Markers' /\ Answering'
  BY <1>1, Undisturbed DEF ReplInv, Ends
<1>4. Once'
  BY <1>1, OnceStays DEF Answered, MarkerInv
<1> QED
  BY <1>2, <1>3, <1>4 DEF MarkerInv

\* Connections coming and going, streams closed and closes received.
LEMMA GoingKeepsMarker ==
  ASSUME ReplInv, ReplInv', MarkerInv,
         Connect \/ ReplicaCloses \/ (\E n \in Stream : CloseSync(n)) \/ UNCHANGED replVars
  PROVE  MarkerInv'
<1>1. /\ UNCHANGED <<source, removed, handler, outbox, asked, replica>>
      /\ open' \subseteq open /\ notified' \subseteq notified
      /\ \A n \in Stream : \/ atStart'[n] = atStart[n] /\ (n \in open' <=> n \in open)
                           \/ atStart'[n] = Nothing
  <2>1. CASE Connect
    BY <2>1 DEF Connect, sourceVars, replicaVars
  <2>2. CASE ReplicaCloses
    BY <2>2 DEF ReplicaCloses, Forget, sourceVars
  <2>3. CASE \E n \in Stream : CloseSync(n)
    BY <2>3 DEF CloseSync, Forget, sourceVars
  <2>4. CASE UNCHANGED replVars
    BY <2>4 DEF replVars, sourceVars, replicaVars
  <2> QED
    BY <2>1, <2>2, <2>3, <2>4
<1>2. Starts'
  BY <1>1, Numbers DEF MarkerInv, Starts, Nothing
<1>3. Reported' /\ Markers' /\ Answering'
  BY <1>1, Undisturbed DEF ReplInv, Ends
<1>4. \/ requests' = requests
      \/ \E n \in Stream : requests' = Append(requests, [op |-> "close", stream |-> n])
  <2>1. CASE Connect
    BY <2>1 DEF Connect
  <2>2. CASE ReplicaCloses
    BY <2>2 DEF ReplicaCloses
  <2>3. CASE \E n \in Stream : CloseSync(n)
    BY <2>3 DEF CloseSync, Send
  <2>4. CASE UNCHANGED replVars
    BY <2>4 DEF replVars
  <2> QED
    BY <2>1, <2>2, <2>3, <2>4
<1>5. Once'
  BY <1>1, <1>4, OnceStays DEF Answered, MarkerInv
<1> QED
  BY <1>2, <1>3, <1>5 DEF MarkerInv

LEMMA DropKeepsMarker ==
  ASSUME ReplInv, ReplInv', MarkerInv, DropResponders
  PROVE  MarkerInv'
<1>1. /\ UNCHANGED <<source, removed, atStart, replica, open, asked, notified>>
      /\ handler' = Idle /\ requests' = <<>> /\ outbox' = [n \in Stream |-> <<>>]
  BY DEF DropResponders, replicaVars
<1>2. Len(<<>>) = 0
  BY EmptySeq
<1>3. Starts' /\ Reported'
  BY <1>1 DEF MarkerInv, Starts, Reported, Reached, Matching, FilterAt
<1>4. Markers' /\ Answering' /\ Once'
  BY <1>1, <1>2 DEF Markers, Answering, Once
<1> QED
  BY <1>3, <1>4 DEF MarkerInv

LEMMA OpenKeepsMarker ==
  ASSUME ReplInv, ReplInv', MarkerInv, NEW f \in Requests, OpenSync(f)
  PROVE  MarkerInv'
<1> DEFINE k == Len(asked) + 1
<1>1. /\ UNCHANGED <<source, removed, atStart, handler, outbox, replica, notified>>
      /\ open' = open \cup {k} /\ asked' = Append(asked, f)
      /\ requests' = requests \/ requests' = Append(requests, [op |-> "subscribe", stream |-> k])
  BY DEF OpenSync, sourceVars, Send
<1>2. \A n \in 1..Len(asked) : n \in 1..Len(asked') /\ asked'[n] = asked[n]
  <2>1. asked \in Seq(Requests)
    BY DEF ReplInv, Ends
  <2> QED
    BY <1>1, <2>1, Numbers, AppendProperties
<1>3. Starts'
  BY <1>1 DEF MarkerInv, Starts
<1>4. Reported' /\ Markers' /\ Answering'
  BY <1>1, <1>2, Undisturbed DEF ReplInv, Ends
<1>5. \A n \in Stream : Answered(n)' = Answered(n)
  BY <1>1 DEF Answered
<1>6. Once'
  <2>1. CASE requests' = requests
    BY <1>5, <2>1, OnceStays DEF MarkerInv
  <2>2. CASE requests' = Append(requests, [op |-> "subscribe", stream |-> k])
    <3>1. /\ Len(requests') = Len(requests) + 1
          /\ requests'[Len(requests) + 1] = [op |-> "subscribe", stream |-> k]
          /\ \A i \in 1..Len(requests) : requests'[i] = requests[i]
      BY <2>2, Numbers, AppendProperties
    <3>2. \A i \in 1..Len(requests) : requests[i].stream # k
      BY Numbers, ElementOfSeq DEF Posts
    <3>3. k \in Nat /\ k \notin 1..Len(asked)
      BY Numbers
    <3>4. ~Answered(k)
      <4>1. k \notin notified
        BY <3>3 DEF ReplInv, Ends
      <4>2. k # handler.stream
        BY <3>3, Numbers DEF ReplInv, Serving, Idle
      <4>3. k \in Stream => \A i \in 1..Len(outbox[k]) : ~outbox[k][i].complete
        BY <3>3 DEF MarkerInv, Markers
      <4>4. k \in Stream
        BY Numbers, ReplInv', <1>2, LenProperties, AppendProperties, ReplicationAssumption
          DEF Stream, OpenSync, ReplInv, Ends
      <4> QED
        BY <4>1, <4>2, <4>3, <4>4 DEF Answered
    <3> HIDE DEF k
    <3>5. \A i \in 1..Len(requests') : i \in 1..Len(requests) \/ i = Len(requests) + 1
      BY <3>1, Numbers
    <3> QED
      BY <1>5, <3>1, <3>2, <3>4, <3>5 DEF Once, Subscribes, MarkerInv
  <2> QED
    BY <1>1, <2>1, <2>2
<1> QED
  BY <1>3, <1>4, <1>6 DEF MarkerInv

\* What is asked only once stays so when the request at the head is taken.
LEMMA TailOnce ==
  ASSUME ReplInv, Once, requests # <<>>, requests' = Tail(requests),
         \A n \in Stream : Answered(n)' => Answered(n) \/ Subscribes(1, n)
  PROVE  Once'
<1>1. /\ Len(requests) \in Nat /\ Len(requests) # 0
      /\ Len(requests') = Len(requests) - 1
      /\ \A i \in 1..Len(requests') : requests'[i] = requests[i + 1]
  BY Numbers, EmptySeq, HeadTailProperties
<1> SUFFICES ASSUME NEW i \in 1..Len(requests'), NEW n \in Stream, Subscribes(i, n)'
             PROVE  /\ ~Answered(n)'
                    /\ \A j \in 1..Len(requests') : Subscribes(j, n)' => j = i
  BY DEF Once
<1>2. i + 1 \in 1..Len(requests) /\ Subscribes(i + 1, n) /\ 1 \in 1..Len(requests) /\ i + 1 # 1
  BY <1>1 DEF Subscribes
<1>3. ~Answered(n) /\ ~Subscribes(1, n)
  BY <1>2 DEF Once
<1>4. \A j \in 1..Len(requests') : Subscribes(j, n)' => j + 1 \in 1..Len(requests) /\ Subscribes(j + 1, n)
  BY <1>1 DEF Subscribes
<1>5. \A j \in 1..Len(requests') : Subscribes(j, n)' => j + 1 = i + 1
  BY <1>2, <1>4 DEF Once
<1> QED
  BY <1>1, <1>3, <1>5

LEMMA ReceiveCloseKeepsMarker ==
  ASSUME ReplInv, ReplInv', MarkerInv, ReceiveClose
  PROVE  MarkerInv'
<1>1. /\ UNCHANGED <<source, removed, handler, outbox, atStart, asked, open, notified, replica>>
      /\ requests # <<>> /\ requests' = Tail(requests)
  BY DEF ReceiveClose, replicaVars
<1>2. Starts'
  BY <1>1 DEF MarkerInv, Starts
<1>3. Reported' /\ Markers' /\ Answering'
  BY <1>1, Undisturbed DEF ReplInv, Ends
<1>4. Once'
  BY <1>1, TailOnce DEF Answered, MarkerInv
<1> QED
  BY <1>2, <1>3, <1>4 DEF MarkerInv

\* Nothing is known yet of the stream that subscribes.
LEMMA ReceiveSubscribeKeepsMarker ==
  ASSUME ReplInv, ReplInv', MarkerInv, ReceiveSubscribe
  PROVE  MarkerInv'
<1>0. PICK n : n = Head(requests).stream
  OBVIOUS
<1>1. /\ UNCHANGED <<source, removed, outbox, asked, open, notified, replica>>
      /\ requests # <<>> /\ requests' = Tail(requests) /\ handler = Idle
      /\ Head(requests).op = "subscribe"
      /\ handler' = [stream |-> n, at |-> 1, pc |-> "scan", left |-> FilterAt(n, 1), found |-> {}]
      /\ atStart' = IF n \in open THEN [atStart EXCEPT ![n] = source] ELSE atStart
  BY <1>0 DEF ReceiveSubscribe, replicaVars
<1>2. /\ n \in 1..Len(asked) /\ n \in Stream
      /\ 1 \in 1..Len(requests) /\ requests[1] = Head(requests) /\ Subscribes(1, n)
  <2>1. n \in 1..Len(asked) /\ n \in Stream
    BY <1>0, <1>1, HeadPost, Numbers
  <2>2. Len(requests) # 0 /\ requests[1] = Head(requests)
    BY <1>1, Numbers, EmptySeq, HeadTailProperties
  <2> QED
    BY <1>0, <1>1, <2>1, <2>2, Numbers DEF Subscribes
<1>3. ~Answered(n)
  BY <1>2 DEF MarkerInv, Once
<1>4. \A k \in Stream : k # n => atStart'[k] = atStart[k]
  BY <1>1 DEF ReplInv, Ends
<1>5. \A k \in Stream : atStart'[k] = atStart[k] \/ (k = n /\ n \in open /\ atStart'[k] = source)
  BY <1>1, <1>2, <1>4 DEF ReplInv, Ends
<1>6. Starts'
  BY <1>1, <1>5, Numbers DEF MarkerInv, Starts
<1>7. Reported'
  <2> SUFFICES ASSUME NEW k \in notified', NEW r \in Matching(k)' PROVE Reached(k, r)'
    BY DEF Reported
  <2>1. k \in notified /\ k # n /\ k \in Stream /\ r \in Matching(k)
    BY <1>1, <1>3, Numbers DEF Answered, Matching, FilterAt, ReplInv, Ends
  <2> QED
    BY <1>1, <1>4, <2>1 DEF MarkerInv, Reported, Reached
<1>8. Markers'
  <2> SUFFICES ASSUME NEW k \in Stream, NEW i \in 1..Len(outbox[k]), outbox[k][i].complete
               PROVE  k \in 1..Len(asked) /\ \A r \in Matching(k)' : Ahead(k, r, i)'
    BY <1>1 DEF Markers
  <2>1. k # n
    BY <1>3 DEF Answered
  <2>2. k \in 1..Len(asked) /\ \A r \in Matching(k) : Ahead(k, r, i)
    BY DEF MarkerInv, Markers
  <2>3. Matching(k)' = Matching(k) /\ atStart'[k] = atStart[k]
    BY <1>1, <1>4, <2>1 DEF Matching, FilterAt
  <2> QED
    BY <1>1, <2>2, <2>3 DEF Ahead, Reached, Carries
<1>9. Answering'
  <2>1. handler'.stream = n /\ handler'.at = 1 /\ handler'.pc = "scan" /\ handler'.left = FilterAt(n, 1)
    BY <1>1
  <2>2. \A i \in 1..Len(asked'[n]) : \A r \in FilterAt(n, i)' : ToRead(i, r)'
    <3> SUFFICES ASSUME NEW i \in 1..Len(asked'[n]), NEW r \in FilterAt(n, i)' PROVE ToRead(i, r)'
      OBVIOUS
    <3>1. FilterAt(n, i)' = FilterAt(n, i)
      BY <1>1 DEF FilterAt
    <3> QED
      BY <2>1, <3>1 DEF ToRead
  <2> QED
    BY <2>1, <2>2 DEF Answering
<1>10. Once'
  <2>1. \A k \in Stream : Answered(k)' => Answered(k) \/ Subscribes(1, k)
    BY <1>1, <1>2 DEF Answered
  <2> QED
    BY <1>1, <2>1, TailOnce DEF MarkerInv
<1> QED
  BY <1>6, <1>7, <1>8, <1>9, <1>10 DEF MarkerInv

\* What the handler has done with the rows of its subscription.
LEMMA Underway ==
  ASSUME ReplInv, MarkerInv, handler.pc # "idle",
         NEW i \in 1..Len(asked[handler.stream]), NEW r \in FilterAt(handler.stream, i)
  PROVE  /\ r \in Rows /\ i \in Nat /\ handler.stream \in Stream /\ handler.at \in Nat
         /\ \/ Ahead(handler.stream, r, Len(outbox[handler.stream]) + 1)
            \/ InHand(r) \/ ToRead(i, r)
BY HandlerAtWork DEF MarkerInv, Answering

\* A row read is one the snapshot has, or one that is not there any more.
LEMMA ScanKeepsMarker ==
  ASSUME ReplInv, ReplInv', MarkerInv, NEW s \in Rows, Scan(s)
  PROVE  MarkerInv'
<1> DEFINE n == handler.stream
           left == handler.left \ {s}
<1>1. /\ UNCHANGED <<source, removed, outbox, atStart, asked, open, notified, replica, requests>>
      /\ handler.pc = "scan" /\ handler \in Handler
      /\ handler' = [handler EXCEPT
           !.left = left,
           !.pc = IF left = {} THEN "send" ELSE @,
           !.found = IF source[s] # 0 THEN @ \cup {[row |-> s, rev |-> source[s]]} ELSE @]
  BY HandlerAtWork DEF Scan, replicaVars
<1>2. /\ handler'.stream = n /\ handler'.at = handler.at /\ handler'.left = left
      /\ handler'.pc = IF left = {} THEN "send" ELSE "scan"
      /\ handler.found \subseteq handler'.found
      /\ source[s] # 0 => [row |-> s, rev |-> source[s]] \in handler'.found
  BY <1>1 DEF Handler
<1> HIDE DEF left
<1>3. Starts' /\ Reported' /\ Markers'
  BY <1>1 DEF MarkerInv, Starts, Reported, Markers, Reached, Matching, FilterAt, Ahead, Carries
<1>4. Answering'
  <2> SUFFICES ASSUME NEW i \in 1..Len(asked'[n]), NEW r \in FilterAt(n, i)'
               PROVE  (Ahead(n, r, Len(outbox[n]) + 1) \/ InHand(r) \/ ToRead(i, r))'
    BY <1>2 DEF Answering
  <2>1. /\ i \in 1..Len(asked[n]) /\ r \in FilterAt(n, i) /\ r \in Rows /\ n \in Stream
        /\ i \in Nat /\ handler.at \in Nat
        /\ Ahead(n, r, Len(outbox[n]) + 1) \/ InHand(r) \/ ToRead(i, r)
    BY <1>1, Underway DEF FilterAt
  <2>2. CASE Ahead(n, r, Len(outbox[n]) + 1)
    BY <1>1, <2>2 DEF Ahead, Reached, Carries
  <2>3. CASE InHand(r)
    BY <1>1, <1>2, <2>3 DEF InHand
  <2>4. CASE ToRead(i, r) /\ ~(i = handler.at /\ r = s)
    BY <1>1, <1>2, <2>1, <2>4 DEF ToRead, left
  <2>5. CASE i = handler.at /\ r = s
    <3>1. source[s] >= atStart[n][s] \/ s \in removed
      BY <2>1 DEF MarkerInv, Starts
    <3>2. CASE source[s] = 0 \/ s \in removed
      BY <1>1, <2>1, <2>5, <3>1, <3>2, Numbers DEF Ahead, Reached
    <3>3. CASE source[s] # 0 /\ source[s] >= atStart[n][s]
      BY <1>1, <1>2, <2>5, <3>3 DEF InHand
    <3> QED
      BY <3>1, <3>2, <3>3
  <2> QED
    BY <2>1, <2>2, <2>3, <2>4, <2>5
<1>5. Once'
  BY <1>1, <1>2, OnceStays DEF Answered, MarkerInv
<1> QED
  BY <1>3, <1>4, <1>5 DEF MarkerInv

\* Steps of the handler, and of a forwarder, that leave it with the rows it had: what
\* was in hand is in the buffer then.
LEMMA AnsweringStays ==
  ASSUME ReplInv, ReplInv', MarkerInv, handler.pc # "idle", handler' # Idle, asked' = asked,
         handler'.stream = handler.stream,
         \A i \in 1..Len(asked[handler.stream]), r \in Rows :
           i \in Nat /\ ToRead(i, r) => ToRead(i, r)',
         \A r \in Rows : Ahead(handler.stream, r, Len(outbox[handler.stream]) + 1)
           => Ahead(handler.stream, r, Len(outbox[handler.stream]) + 1)',
         \A r \in Rows : InHand(r)
           => InHand(r)' \/ Ahead(handler.stream, r, Len(outbox[handler.stream]) + 1)'
  PROVE  Answering'
<1> DEFINE n == handler.stream
<1> SUFFICES ASSUME NEW i \in 1..Len(asked'[n]), NEW r \in FilterAt(n, i)'
             PROVE  (Ahead(n, r, Len(outbox[n]) + 1) \/ InHand(r) \/ ToRead(i, r))'
  BY DEF Answering
<1>1. i \in 1..Len(asked[n]) /\ r \in FilterAt(n, i)
  BY DEF FilterAt
<1> QED
  BY <1>1, Underway

LEMMA SendSnapshotKeepsMarker ==
  ASSUME ReplInv, ReplInv', MarkerInv, SendSnapshot
  PROVE  MarkerInv'
<1>0. PICK n : n = handler.stream
  OBVIOUS
<1>1. /\ UNCHANGED <<source, removed, atStart, asked, open, notified, replica, requests>>
      /\ handler.pc = "send" /\ handler \in Handler /\ n \in Stream /\ handler.at \in Nat
      /\ handler' = [handler EXCEPT !.pc = "watch", !.found = {}, !.left = FilterAt(n, handler.at)]
  BY <1>0, HandlerAtWork DEF SendSnapshot, replicaVars
<1>2. handler'.stream = n /\ handler'.at = handler.at /\ handler'.pc = "watch"
      /\ handler' # Idle
  BY <1>0, <1>1 DEF Handler, Idle
<1>3. Starts'
  BY <1>1 DEF MarkerInv, Starts
<1>4. \A r \in Rows : \A i \in Nat : ToRead(i, r) => ToRead(i, r)'
  BY <1>1, <1>2 DEF ToRead
<1>5. CASE handler.found = {}
  <2>1. outbox' = outbox
    BY <1>5 DEF SendSnapshot
  <2>2. Reported' /\ Markers'
    BY <1>1, <2>1 DEF MarkerInv, Reported, Markers, Reached, Matching, FilterAt, Ahead, Carries
  <2>3. Answering'
    <3>1. \A r \in Rows : ~InHand(r)
      BY <1>5 DEF InHand
    <3>2. \A r \in Rows : Ahead(n, r, Len(outbox[n]) + 1) => Ahead(n, r, Len(outbox[n]) + 1)'
      BY <1>1, <2>1 DEF Ahead, Reached, Carries
    <3>3. \A r \in Rows : Ahead(handler.stream, r, Len(outbox[handler.stream]) + 1)
            => Ahead(handler.stream, r, Len(outbox[handler.stream]) + 1)'
      BY <1>0, <1>2, <3>2
    <3> QED
      BY <1>0, <1>1, <1>2, <1>4, <3>1, <3>3, AnsweringStays
  <2>4. Once'
    BY <1>0, <1>1, <1>2, <2>1, OnceStays DEF Answered, MarkerInv
  <2> QED
    BY <1>3, <2>2, <2>3, <2>4 DEF MarkerInv
<1>6. CASE handler.found # {}
  <2>1. Put(n, handler.found, FALSE)
    BY <1>0, <1>6 DEF SendSnapshot
  <2>2. /\ Reported' /\ Markers'
        /\ Len(outbox'[n]) = Len(outbox[n]) + 1
        /\ outbox'[n][Len(outbox[n]) + 1] = [records |-> handler.found, complete |-> FALSE]
        /\ \A k \in Stream, r \in Rows : \A i \in Nat : Ahead(k, r, i) => Ahead(k, r, i)'
        /\ \A k \in Stream, i \in Nat : i \in 1..Len(outbox[k]) =>
             i \in 1..Len(outbox'[k]) /\ outbox'[k][i] = outbox[k][i]
        /\ \A k \in Stream : k # n => outbox'[k] = outbox[k]
    BY <1>1, <2>1, PutAhead
  <2>3. Len(outbox[n]) \in Nat
    BY <1>1, Numbers
  <2>4. \A r \in Rows : Ahead(n, r, Len(outbox[n]) + 1) => Ahead(n, r, Len(outbox[n]) + 1)'
    <3> SUFFICES ASSUME NEW r \in Rows, Ahead(n, r, Len(outbox[n]) + 1)
                 PROVE  Ahead(n, r, Len(outbox[n]) + 1)'
      OBVIOUS
    <3>1. PICK l \in Nat : l = Len(outbox[n]) + 1
      BY <2>3
    <3>2. Ahead(n, r, l)'
      BY <1>1, <2>2, <3>1
    <3> QED
      BY <2>2, <2>3, <3>1, <3>2 DEF Ahead
  <2>5. \A r \in Rows : InHand(r) => Ahead(n, r, Len(outbox[n]) + 1)'
    <3> SUFFICES ASSUME NEW r \in Rows, InHand(r) PROVE Ahead(n, r, Len(outbox[n]) + 1)'
      OBVIOUS
    <3>1. PICK x \in handler.found : x.row = r /\ x.rev >= atStart[n][r]
      BY <1>0 DEF InHand
    <3>2. Carries(outbox[n][Len(outbox[n])], n, r)'
      BY <1>1, <2>2, <2>3, <3>1 DEF Carries
    <3> QED
      BY <2>2, <2>3, <3>2 DEF Ahead
  <2>6. Answering'
    <3>1. \A r \in Rows : Ahead(handler.stream, r, Len(outbox[handler.stream]) + 1)
            => Ahead(handler.stream, r, Len(outbox[handler.stream]) + 1)'
      BY <1>0, <1>2, <2>4
    <3>2. \A r \in Rows : InHand(r) => Ahead(handler.stream, r, Len(outbox[handler.stream]) + 1)'
      BY <1>0, <1>2, <2>5
    <3> QED
      BY <1>0, <1>1, <1>2, <1>4, <3>1, <3>2, AnsweringStays
  <2>7. \A k \in Stream : Answered(k)' => Answered(k)
    BY <1>0, <1>1, <1>2, <2>2, <2>3, Numbers DEF Answered
  <2>8. Once'
    BY <1>1, <2>7, OnceStays DEF MarkerInv
  <2> QED
    BY <1>3, <2>2, <2>6, <2>8 DEF MarkerInv
<1> QED
  BY <1>5, <1>6

LEMMA WatchKeepsMarker ==
  ASSUME ReplInv, ReplInv', MarkerInv, NEW s \in Rows, Watch(s)
  PROVE  MarkerInv'
<1>0. PICK n : n = handler.stream
  OBVIOUS
<1>1. /\ UNCHANGED <<source, removed, outbox, atStart, asked, open, notified, replica, requests>>
      /\ handler.pc = "watch" /\ handler \in Handler /\ n \in Stream
      /\ handler.at \in 1..Len(asked[n])
  BY <1>0, HandlerAtWork DEF Watch, replicaVars
<1>2. \/ handler' = [handler EXCEPT !.left = handler.left \ {s}]
      \/ handler' = [handler EXCEPT !.at = handler.at + 1, !.pc = "scan",
                                    !.left = FilterAt(n, handler.at + 1)]
      \/ /\ handler.at + 1 > Len(asked[n])
         /\ handler' = [handler EXCEPT !.pc = "mark", !.left = {}]
  <2>1. Len(asked[n]) \in Nat
    BY <1>0, <1>1, ReplicationAssumption, ElementOfSeq, LenProperties, HandlerAtWork
      DEF ReplInv, Ends
  <2> QED
    BY <1>0, <1>1, <2>1 DEF Watch
<1>3. handler'.stream = n /\ handler' # Idle /\ handler'.found = handler.found
  <2>1. handler'.stream = n /\ handler'.found = handler.found
    BY <1>0, <1>1, <1>2 DEF Handler
  <2>2. n # 0
    BY <1>1 DEF Stream
  <2> QED
    BY <2>1, <2>2 DEF Idle
<1>4. Starts' /\ Reported' /\ Markers'
  BY <1>1 DEF MarkerInv, Starts, Reported, Markers, Reached, Matching, FilterAt, Ahead, Carries
<1>5. \A i \in 1..Len(asked[n]) : \A r \in FilterAt(n, i) : ToRead(i, r) => ToRead(i, r)'
  <2> SUFFICES ASSUME NEW i \in 1..Len(asked[n]), NEW r \in FilterAt(n, i), ToRead(i, r)
               PROVE  ToRead(i, r)'
    OBVIOUS
  <2>1. i > handler.at /\ i \in Nat /\ handler.at \in Nat
    BY <1>1 DEF ToRead
  <2>2. CASE handler' = [handler EXCEPT !.left = handler.left \ {s}]
    BY <1>1, <2>1, <2>2 DEF ToRead, Handler
  <2>3. CASE handler' = [handler EXCEPT !.at = handler.at + 1, !.pc = "scan",
                                        !.left = FilterAt(n, handler.at + 1)]
    <3>1. handler'.at = handler.at + 1 /\ handler'.pc = "scan"
          /\ handler'.left = FilterAt(n, handler.at + 1)
      BY <1>1, <2>3 DEF Handler
    <3>2. i = handler.at + 1 \/ i > handler.at + 1
      BY <2>1
    <3> QED
      BY <3>1, <3>2 DEF ToRead
  <2>4. CASE handler.at + 1 > Len(asked[n])
    <3>1. Len(asked[n]) \in Nat
      BY <1>0, <1>1, ReplicationAssumption, ElementOfSeq, LenProperties, HandlerAtWork
        DEF ReplInv, Ends
    <3> QED
      BY <2>1, <2>4, <3>1
  <2> QED
    BY <1>2, <2>2, <2>3, <2>4
<1>6. Answering'
  <2> SUFFICES ASSUME NEW i \in 1..Len(asked[n]), NEW r \in FilterAt(n, i)
               PROVE  (Ahead(n, r, Len(outbox[n]) + 1) \/ InHand(r) \/ ToRead(i, r))'
    BY <1>1, <1>3 DEF Answering, FilterAt
  <2>1. Ahead(n, r, Len(outbox[n]) + 1) \/ InHand(r) \/ ToRead(i, r)
    BY <1>0, <1>1, Underway
  <2>2. Ahead(n, r, Len(outbox[n]) + 1) => Ahead(n, r, Len(outbox[n]) + 1)'
    BY <1>1 DEF Ahead, Reached, Carries
  <2>3. InHand(r) => InHand(r)'
    BY <1>0, <1>1, <1>3 DEF InHand
  <2> QED
    BY <1>5, <2>1, <2>2, <2>3
<1>7. Once'
  BY <1>0, <1>1, <1>3, OnceStays DEF Answered, MarkerInv
<1> QED
  BY <1>4, <1>6, <1>7 DEF MarkerInv

\* Nothing is left to read, and nothing in hand: all that matches is in the buffer.
LEMMA SendMarkerKeepsMarker ==
  ASSUME ReplInv, ReplInv', MarkerInv, SendMarker
  PROVE  MarkerInv'
<1>0. PICK n : n = handler.stream
  OBVIOUS
<1>1. /\ UNCHANGED <<source, removed, atStart, asked, open, notified, replica, requests>>
      /\ handler.pc = "mark" /\ n \in Stream /\ n \in 1..Len(asked) /\ handler' = Idle
      /\ Put(n, {}, TRUE)
  BY <1>0, HandlerAtWork DEF SendMarker, replicaVars
<1>2. \A r \in Matching(n) : Ahead(n, r, Len(outbox[n]) + 1)
  <2> SUFFICES ASSUME NEW r \in Matching(n) PROVE Ahead(n, r, Len(outbox[n]) + 1)
    OBVIOUS
  <2>1. asked[n] \in Seq((SUBSET Rows) \ {{}})
    BY <1>1, ReplicationAssumption, ElementOfSeq DEF ReplInv, Ends
  <2>2. PICK i \in 1..Len(asked[n]) : r \in FilterAt(n, i)
    BY <2>1, LenProperties DEF Matching
  <2>3. Ahead(n, r, Len(outbox[n]) + 1) \/ InHand(r) \/ ToRead(i, r)
    BY <1>0, <1>1, <2>2, Underway
  <2>4. ~InHand(r) /\ ~ToRead(i, r)
    BY <1>1 DEF InHand, ToRead, ReplInv, Serving
  <2> QED
    BY <2>3, <2>4
<1>3. /\ Reported' /\ Markers'
      /\ \A k \in Stream : k # n => outbox'[k] = outbox[k]
  BY <1>1, <1>2, PutAhead
<1>4. Starts'
  BY <1>1 DEF MarkerInv, Starts
<1>5. Answering'
  BY <1>1 DEF Answering
<1>6. Once'
  <2>1. \A k \in Stream : Answered(k)' => Answered(k)
    BY <1>0, <1>1, <1>3, Numbers DEF Answered, Stream, Idle
  <2> QED
    BY <1>1, <2>1, OnceStays DEF MarkerInv
<1> QED
  BY <1>3, <1>4, <1>5, <1>6 DEF MarkerInv

LEMMA ForwardKeepsMarker ==
  ASSUME ReplInv, ReplInv', MarkerInv, NEW w \in Stream \X Rows, Forward(w)
  PROVE  MarkerInv'
<1>0. PICK k \in Stream : k = w[1]
  OBVIOUS
<1>1. /\ UNCHANGED <<source, removed, atStart, asked, open, notified, replica, requests, handler>>
      /\ Put(k, {Head(events[w])}, FALSE)
  BY <1>0 DEF Forward, replicaVars
<1>2. /\ Reported' /\ Markers'
      /\ Len(outbox'[k]) = Len(outbox[k]) + 1
      /\ outbox'[k][Len(outbox[k]) + 1] = [records |-> {Head(events[w])}, complete |-> FALSE]
      /\ \A n \in Stream, r \in Rows : \A i \in Nat : Ahead(n, r, i) => Ahead(n, r, i)'
      /\ \A n \in Stream, i \in Nat : i \in 1..Len(outbox[n]) =>
           i \in 1..Len(outbox'[n]) /\ outbox'[n][i] = outbox[n][i]
      /\ \A n \in Stream : n # k => outbox'[n] = outbox[n]
  BY <1>1, PutAhead
<1>3. Starts'
  BY <1>1 DEF MarkerInv, Starts
<1>4. \A n \in Stream, r \in Rows :
        Ahead(n, r, Len(outbox[n]) + 1) => Ahead(n, r, Len(outbox[n]) + 1)'
  <2> SUFFICES ASSUME NEW n \in Stream, NEW r \in Rows, Ahead(n, r, Len(outbox[n]) + 1)
               PROVE  Ahead(n, r, Len(outbox[n]) + 1)'
    OBVIOUS
  <2>1. PICK l \in Nat : l = Len(outbox[n]) + 1
    BY Numbers
  <2>2. Ahead(n, r, l)'
    BY <1>2, <2>1
  <2>3. l <= Len(outbox'[n]) + 1 /\ Len(outbox'[n]) \in Nat
    <3>1. Len(outbox[n]) \in Nat
      BY Numbers
    <3>2. CASE n = k
      BY <1>2, <2>1, <3>1, <3>2
    <3>3. CASE n # k
      BY <1>2, <2>1, <3>1, <3>3
    <3> QED
      BY <3>2, <3>3
  <2> QED
    BY <2>1, <2>2, <2>3 DEF Ahead
<1>5. Answering'
  <2>1. CASE handler = Idle
    BY <1>1, <2>1 DEF Answering
  <2>2. CASE handler # Idle
    <3>1. handler.pc # "idle" /\ handler.stream \in Stream
      BY <2>2, HandlerAtWork DEF ReplInv, Serving, Handler
    <3>2. \A r \in Rows : Ahead(handler.stream, r, Len(outbox[handler.stream]) + 1)
            => Ahead(handler.stream, r, Len(outbox[handler.stream]) + 1)'
      BY <1>1, <1>4, <3>1
    <3>3. \A r \in Rows : InHand(r) => InHand(r)'
      BY <1>1 DEF InHand
    <3>4. \A i, r : ToRead(i, r) => ToRead(i, r)'
      BY <1>1 DEF ToRead
    <3> QED
      BY <1>1, <2>2, <3>1, <3>2, <3>3, <3>4, AnsweringStays
  <2> QED
    BY <2>1, <2>2
<1>6. Once'
  <2>1. ASSUME NEW n \in Stream, NEW i \in 1..Len(outbox'[n]), outbox'[n][i].complete
        PROVE  Answered(n)
    <3>1. n = k => i \in 1..Len(outbox[k]) \/ i = Len(outbox[k]) + 1
      BY <1>2, Numbers
    <3>2. i \in 1..Len(outbox[n]) /\ outbox[n][i].complete
      BY <1>2, <2>1, <3>1, Numbers
    <3> QED
      BY <3>2 DEF Answered
  <2>2. \A n \in Stream : Answered(n)' => Answered(n)
    BY <1>1, <2>1 DEF Answered
  <2> QED
    BY <1>1, <2>2, OnceStays DEF MarkerInv
<1> QED
  BY <1>2, <1>3, <1>5, <1>6 DEF MarkerInv

\* A batch brings its rows to the replica, as new as they are in it, and keeps the
\* others, but for the deletions.
LEMMA AppliedReaches ==
  ASSUME ReplInv, NEW records \in SUBSET Truth, OneEach(records), replica' = Applied(records),
         NEW r \in Rows
  PROVE  /\ replica'[r] >= replica[r] \/ r \in removed
         /\ \A x \in records : x.row = r => replica'[r] >= x.rev \/ r \in removed
<1>1. replica[r] \in Nat
  BY Numbers
<1>2. \A x \in records : x.rev \in Nat /\ (x.rev = 0 => x.row \in removed)
  BY ReplicationAssumption DEF Truth, Record
<1>3. CASE \E x \in records : x.row = r /\ (x.rev = 0 \/ x.rev > replica[r])
  <2>1. PICK x \in records : x.row = r /\ (x.rev = 0 \/ x.rev > replica[r])
    BY <1>3
  <2>2. \A y \in records : y.row = r => y = x
    BY <2>1 DEF OneEach
  <2>3. (CHOOSE y \in records : y.row = r) = x
    BY <2>1, <2>2
  <2>4. replica'[r] = x.rev
    BY <1>3, <2>3 DEF Applied
  <2> QED
    BY <1>1, <1>2, <2>1, <2>2, <2>4
<1>4. CASE ~ \E x \in records : x.row = r /\ (x.rev = 0 \/ x.rev > replica[r])
  <2>1. replica'[r] = replica[r]
    BY <1>4 DEF Applied
  <2> QED
    BY <1>1, <1>2, <1>4, <2>1
<1> QED
  BY <1>3, <1>4

LEMMA SocketSendsKeepsMarker ==
  ASSUME ReplInv, ReplInv', MarkerInv, NEW n \in Stream, SocketSends(n)
  PROVE  MarkerInv'
<1>0. PICK batch : batch = Head(outbox[n])
  OBVIOUS
<1>1. /\ UNCHANGED <<source, removed, requests, atStart, handler, open, asked>>
      /\ handler = Idle /\ outbox[n] # <<>>
      /\ outbox' = [outbox EXCEPT ![n] = Tail(outbox[n])]
      /\ IF n \in open THEN Receive(n, batch) ELSE UNCHANGED <<replica, buried, notified>>
  BY <1>0 DEF SocketSends
<1>2. /\ Len(outbox[n]) \in Nat /\ Len(outbox[n]) # 0 /\ batch = outbox[n][1]
      /\ Len(outbox'[n]) = Len(outbox[n]) - 1
      /\ \A i \in 1..Len(outbox'[n]) : outbox'[n][i] = outbox[n][i + 1]
      /\ \A k \in Stream : k # n => outbox'[k] = outbox[k]
  <2>1. outbox'[n] = Tail(outbox[n]) /\ \A k \in Stream : k # n => outbox'[k] = outbox[k]
    BY <1>1 DEF ReplInv, InTransit
  <2>2. outbox[n] \in Seq(Batches) /\ outbox[n] # <<>> /\ Len(outbox[n]) \in Nat
    BY <1>1, Numbers
  <2>3. Len(outbox[n]) # 0
    BY <2>2, EmptySeq
  <2>4. batch = outbox[n][1]
    BY <1>0, <2>2
  <2>5. /\ Len(Tail(outbox[n])) = Len(outbox[n]) - 1
        /\ \A i \in 1..Len(Tail(outbox[n])) : Tail(outbox[n])[i] = outbox[n][i + 1]
    BY <2>2, HeadTailProperties
  <2> QED
    BY <2>1, <2>2, <2>3, <2>4, <2>5
<1>3. \A r \in Rows :
        /\ replica'[r] >= replica[r] \/ r \in removed
        /\ n \in open => \A x \in batch.records : x.row = r => replica'[r] >= x.rev \/ r \in removed
  <2>1. CASE n \in open
    <3>1. batch.records \in SUBSET Truth /\ OneEach(batch.records)
      BY <1>0, <1>1, HeadBatch DEF ReplInv
    <3>2. replica' = Applied(batch.records)
      BY <1>1, <2>1 DEF Receive
    <3> QED
      BY <3>1, <3>2, AppliedReaches
  <2>2. CASE n \notin open
    BY <1>1, <2>2, Numbers
  <2> QED
    BY <2>1, <2>2
<1>4. \A r \in Rows : replica[r] \in Nat /\ replica'[r] \in Nat
  BY Numbers, ReplInv', ReplicationAssumption DEF ReplInv, Ends
<1>5. \A k \in Stream, r \in Rows : Reached(k, r) => Reached(k, r)'
  BY <1>1, <1>3, <1>4, Numbers DEF Reached
<1>6. \A r \in Rows : Carries(batch, n, r) => Reached(n, r)'
  <2> SUFFICES ASSUME NEW r \in Rows, Carries(batch, n, r) PROVE Reached(n, r)'
    OBVIOUS
  <2>1. PICK x \in batch.records : x.row = r /\ x.rev >= atStart[n][r]
    BY DEF Carries
  <2>2. CASE n \in open
    <3>1. x \in Record
      BY <1>0, <1>1, <2>1, HeadBatch DEF ReplInv, Truth
    <3> QED
      BY <1>1, <1>3, <1>4, <2>1, <2>2, <3>1, Numbers, ReplicationAssumption DEF Reached, Record
  <2>3. CASE n \notin open
    BY <1>1, <1>4, <2>3 DEF Reached, MarkerInv, Starts, Nothing
  <2> QED
    BY <2>2, <2>3
<1>7. \A r \in Rows : \A i \in 1..Len(outbox'[n]) : Ahead(n, r, i + 1) => Ahead(n, r, i)'
  <2> SUFFICES ASSUME NEW r \in Rows, NEW i \in 1..Len(outbox'[n]), Ahead(n, r, i + 1)
               PROVE  Ahead(n, r, i)'
    OBVIOUS
  <2>1. CASE Reached(n, r)
    BY <1>5, <2>1 DEF Ahead
  <2>2. CASE \E j \in 1..Len(outbox[n]) : j < i + 1 /\ Carries(outbox[n][j], n, r)
    <3>1. PICK j \in 1..Len(outbox[n]) : j < i + 1 /\ Carries(outbox[n][j], n, r)
      BY <2>2
    <3>2. CASE j = 1
      BY <1>2, <1>6, <3>1, <3>2 DEF Ahead
    <3>3. CASE j # 1
      <4>1. PICK l \in 1..Len(outbox'[n]) : j = l + 1 /\ l < i
        <5>1. Len(outbox'[n]) \in Nat /\ j \in Nat /\ i \in Nat
          BY <1>2
        <5>2. j - 1 \in 1..Len(outbox'[n]) /\ j = (j - 1) + 1 /\ j - 1 < i
          BY <1>2, <3>1, <3>3, <5>1
        <5> QED
          BY <5>2
      <4>2. outbox'[n][l] = outbox[n][j]
        BY <1>2, <4>1
      <4>3. Carries(outbox[n][l], n, r)'
        BY <1>1, <3>1, <4>2 DEF Carries
      <4> QED
        BY <4>1, <4>3 DEF Ahead
    <3> QED
      BY <3>2, <3>3
  <2> QED
    BY <2>1, <2>2 DEF Ahead
<1>8. Starts' /\ Answering'
  BY <1>1 DEF MarkerInv, Starts, Answering
<1>9. \A k : Matching(k)' = Matching(k) /\ Matching(k) \subseteq Rows
  BY <1>1 DEF Matching, FilterAt
<1>10. Reported'
  <2> SUFFICES ASSUME NEW k \in notified', NEW r \in Matching(k) PROVE Reached(k, r)'
    BY <1>9 DEF Reported
  <2>1. CASE k \in notified
    <3>1. k \in Stream
      BY <2>1, Numbers DEF ReplInv, Ends
    <3> QED
      BY <1>5, <1>9, <2>1, <3>1 DEF MarkerInv, Reported
  <2>2. CASE k \notin notified
    <3>1. k = n /\ batch.complete
      BY <1>1, <2>2 DEF Receive
    <3>2. 1 \in 1..Len(outbox[n]) /\ outbox[n][1].complete
      BY <1>2, <3>1
    <3>3. Ahead(n, r, 1)
      BY <3>1, <3>2 DEF MarkerInv, Markers
    <3>4. Reached(n, r)
      BY <1>2, <3>3 DEF Ahead
    <3> QED
      BY <1>5, <1>9, <3>1, <3>4
  <2> QED
    BY <2>1, <2>2
<1>11. Markers'
  <2> SUFFICES ASSUME NEW k \in Stream, NEW i \in 1..Len(outbox'[k]), outbox'[k][i].complete
               PROVE  k \in 1..Len(asked) /\ \A r \in Matching(k) : Ahead(k, r, i)'
    BY <1>1, <1>9 DEF Markers
  <2>1. CASE k = n
    <3>1. i + 1 \in 1..Len(outbox[n]) /\ outbox[n][i + 1].complete
      BY <1>2, <2>1
    <3>2. k \in 1..Len(asked) /\ \A r \in Matching(k) : Ahead(n, r, i + 1)
      BY <2>1, <3>1 DEF MarkerInv, Markers
    <3> QED
      BY <1>7, <1>9, <2>1, <3>2
  <2>2. CASE k # n
    <3>1. outbox'[k] = outbox[k]
      BY <1>2, <2>2
    <3>2. k \in 1..Len(asked) /\ \A r \in Matching(k) : Ahead(k, r, i)
      BY <3>1 DEF MarkerInv, Markers
    <3>3. \A r \in Rows : Ahead(k, r, i) => Ahead(k, r, i)'
      BY <1>1, <1>5, <3>1 DEF Ahead, Carries
    <3> QED
      BY <1>9, <3>2, <3>3
  <2> QED
    BY <2>1, <2>2
<1>12. Once'
  <2>1. ASSUME NEW k \in Stream, NEW i \in 1..Len(outbox'[k]), outbox'[k][i].complete
        PROVE  Answered(k)
    <3>1. CASE k = n
      <4>1. i + 1 \in 1..Len(outbox[n]) /\ outbox[n][i + 1].complete
        BY <1>2, <2>1, <3>1
      <4> QED
        BY <3>1, <4>1 DEF Answered
    <3>2. CASE k # n
      BY <1>2, <2>1, <3>2 DEF Answered
    <3> QED
      BY <3>1, <3>2
  <2>2. ASSUME NEW k \in notified', k \notin notified PROVE Answered(k)
    <3>1. k = n /\ batch.complete
      BY <1>1, <2>2 DEF Receive
    <3> QED
      BY <1>2, <3>1 DEF Answered
  <2>3. \A k \in Stream : Answered(k)' => Answered(k)
    BY <1>1, <2>1, <2>2 DEF Answered
  <2> QED
    BY <1>1, <2>3, OnceStays DEF MarkerInv
<1> QED
  BY <1>8, <1>10, <1>11, <1>12 DEF MarkerInv

LEMMA StepKeepsMarker == ReplInv /\ MarkerInv /\ [ReplNext]_replVars => MarkerInv'
<1> SUFFICES ASSUME ReplInv, MarkerInv, [ReplNext]_replVars PROVE MarkerInv'
  OBVIOUS
<1>0. ReplInv'
  BY StepKeepsInv
<1>1. CASE \E r \in Rows : Write(r) \/ Remove(r)
  BY <1>0, <1>1, CommitKeepsMarker
<1>2. CASE Connect \/ ReplicaCloses \/ (\E n \in Stream : CloseSync(n)) \/ UNCHANGED replVars
  BY <1>0, <1>2, GoingKeepsMarker
<1>3. CASE SourceRestarts \/ SourceCloses
  BY <1>0, <1>3, DropKeepsMarker DEF SourceRestarts, SourceCloses
<1>4. CASE \E f \in Requests : OpenSync(f)
  BY <1>0, <1>4, OpenKeepsMarker
<1>5. CASE ReceiveSubscribe
  BY <1>0, <1>5, ReceiveSubscribeKeepsMarker
<1>6. CASE ReceiveClose
  BY <1>0, <1>6, ReceiveCloseKeepsMarker
<1>7. CASE HandlerStep
  BY <1>0, <1>7, ScanKeepsMarker, SendSnapshotKeepsMarker, WatchKeepsMarker, SendMarkerKeepsMarker
    DEF HandlerStep
<1>8. CASE \E w \in Stream \X Rows : Forward(w)
  BY <1>0, <1>8, ForwardKeepsMarker
<1>9. CASE \E n \in Stream : SocketSends(n)
  BY <1>0, <1>9, SocketSendsKeepsMarker
<1> QED
  BY <1>1, <1>2, <1>3, <1>4, <1>5, <1>6, <1>7, <1>8, <1>9 DEF ReplNext

(***************************************************************************)
(* A marker that was handled means a complete snapshot, for any filters,   *)
(* rows and buffers, whatever is written, closed or cut off meanwhile.     *)
(***************************************************************************)
THEOREM MarkersMeanComplete == ReplSpec => []MarkerMeansComplete
<1>1. MarkerInv => MarkerMeansComplete
  BY DEF MarkerInv, Reported, Reached, MarkerMeansComplete
<1> QED
  BY <1>1, ReplInvariant, MarkerInitially, StepKeepsMarker, PTL DEF ReplSpec

-----------------------------------------------------------------------------
(* A deletion: nothing that carries its row follows it on its stream.      *)

\* The source has yet to read row r for stream n, or to set its watch.
ToCome(n, r) ==
  \/ \E i \in 1..Len(requests) : Subscribes(i, n)
  \/ /\ handler.stream = n /\ handler.pc # "mark"
     /\ \E i \in 1..Len(asked[n]) :
          /\ r \in FilterAt(n, i)
          /\ \/ i > handler.at
             \/ i = handler.at /\ (handler.pc = "watch" => r \in handler.left)

Deletes(update, r) == \E x \in update.records : x.row = r /\ x.rev = 0
Revives(update, r) == \E x \in update.records : x.row = r /\ x.rev # 0

\* Row r is followed on behalf of stream n, or was until its deletion.
Followed(n, r) ==
  \/ <<n, r>> \in watched
  \/ events[<<n, r>>] # <<>>
  \/ \E i \in 1..Len(outbox[n]) : Deletes(outbox[n][i], r)

Gone == \A r \in removed : source[r] = 0

\* The snapshot in the making is of the filter in hand.
OfFilter ==
  handler # Idle =>
    /\ handler.left \subseteq FilterAt(handler.stream, handler.at)
    /\ \A x \in handler.found : x.row \in FilterAt(handler.stream, handler.at)

\* A watch tells of its row, and its deletion last.
Watches ==
  \A n \in Stream, r \in Rows : \A k \in 1..Len(events[<<n, r>>]) :
    /\ events[<<n, r>>][k].row = r
    /\ events[<<n, r>>][k].rev = 0 => k = Len(events[<<n, r>>])

\* A row is read before it is followed, and once.
ReadFirst ==
  /\ \A n \in Stream : outbox[n] # <<>> => n \in 1..Len(asked)
  /\ \A n \in Stream, r \in Rows : Followed(n, r) => n \in 1..Len(asked) /\ ~ToCome(n, r)

\* A deletion in a buffer is the last that its stream says of the row.
LastWord ==
  \A n \in Stream, r \in Rows : \A i \in 1..Len(outbox[n]) : Deletes(outbox[n][i], r) =>
    /\ events[<<n, r>>] = <<>>
    /\ \A j \in 1..Len(outbox[n]) : j > i => ~Revives(outbox[n][j], r)

\* With one stream, nothing that is on its way brings a deleted row back.
AtRest(r) ==
  /\ replica[r] = 0 /\ ~ToCome(1, r) /\ events[<<1, r>>] = <<>>
  /\ \A i \in 1..Len(outbox[1]) : ~Revives(outbox[1][i], r)

Buried ==
  /\ buried # {} => asked # <<>>
  /\ Len(asked) = 1 => \A r \in buried : AtRest(r)

DeletionInv == Gone /\ OfFilter /\ Watches /\ ReadFirst /\ LastWord /\ Buried

\* An update that was in its buffer before, and one that may join it at the end.
Stays(n, j) == j \in 1..Len(outbox[n]) /\ outbox'[n][j] = outbox[n][j]

MayJoin(n, j) ==
  /\ n \in 1..Len(asked)
  /\ \A r \in Rows : Deletes(outbox'[n][j], r) =>
       Followed(n, r) /\ events'[<<n, r>>] = <<>> /\ j = Len(outbox'[n])
  /\ \A r \in Rows : Revives(outbox'[n][j], r) =>
       /\ \A i \in 1..Len(outbox[n]) : ~Deletes(outbox[n][i], r)
       /\ Len(asked) = 1 => r \notin buried

\* Only a row that is deleted at the source is said to be.
LEMMA DeletesTheRemoved ==
  ASSUME ReplInv, NEW n \in Stream, NEW i \in 1..Len(outbox[n]), NEW r, Deletes(outbox[n][i], r)
  PROVE  r \in removed
<1>1. outbox[n][i] \in Batches
  BY Numbers, ElementOfSeq
<1> QED
  BY <1>1 DEF Batches, Truth, Deletes

\* What nothing follows, and what is at rest, stays so while the replica handles
\* nothing, no row is read again, and updates join their buffers at the end.
LEMMA DeletionStays ==
  ASSUME ReplInv, ReplInv', DeletionInv, replica' = replica, buried' = buried,
         asked' = asked \/ Len(asked') = Len(asked) + 1,
         \A n \in 1..Len(asked), r \in Rows : ToCome(n, r)' => ToCome(n, r),
         \A n \in Stream, r \in Rows : <<n, r>> \in watched' =>
           <<n, r>> \in watched \/ (n \in 1..Len(asked') /\ ~ToCome(n, r)'),
         \A n \in Stream, r \in Rows :
           \/ events'[<<n, r>>] = <<>> \/ events[<<n, r>>] # <<>>
           \/ <<n, r>> \in watched /\ r \notin removed,
         \A n \in Stream : \A j \in 1..Len(outbox'[n]) : Stays(n, j) \/ MayJoin(n, j)
  PROVE  ReadFirst' /\ LastWord' /\ Buried'
<1>1. /\ Len(asked) \in Nat /\ Len(asked') \in Nat /\ 1..Len(asked) \subseteq 1..Len(asked')
      /\ \A n \in Stream : Len(outbox[n]) \in Nat /\ Len(outbox'[n]) \in Nat
      /\ \A n \in Stream : outbox[n] = <<>> => Len(outbox[n]) = 0
      /\ \A n \in Stream : outbox'[n] # <<>> => Len(outbox'[n]) # 0
  <2>1. Len(asked) \in Nat /\ Len(asked') \in Nat
    BY Numbers, LenProperties DEF ReplInv, Ends
  <2>2. \A n \in Stream : outbox[n] \in Seq(Batches) /\ outbox'[n] \in Seq(Batches')
    BY Numbers DEF ReplInv, InTransit
  <2> QED
    BY <2>1, <2>2, LenProperties, EmptySeq
<1>2. \A n \in Stream, r \in Rows : Followed(n, r) => n \in 1..Len(asked) /\ ~ToCome(n, r)
  BY DEF DeletionInv, ReadFirst
<1>3. ASSUME NEW n \in Stream, NEW r \in Rows, Followed(n, r)'
      PROVE  n \in 1..Len(asked') /\ ~ToCome(n, r)'
  <2>1. CASE Followed(n, r)
    BY <1>1, <1>2, <2>1
  <2>2. CASE <<n, r>> \in watched'
    BY <2>1, <2>2 DEF Followed
  <2>3. CASE events'[<<n, r>>] # <<>>
    BY <2>1, <2>3 DEF Followed
  <2>4. ASSUME NEW i \in 1..Len(outbox'[n]), Deletes(outbox'[n][i], r) PROVE Followed(n, r)
    BY <2>4 DEF Stays, MayJoin, Followed
  <2>5. CASE \E i \in 1..Len(outbox'[n]) : Deletes(outbox'[n][i], r)
    BY <2>1, <2>4, <2>5
  <2>6. \/ <<n, r>> \in watched' \/ events'[<<n, r>>] # <<>>
        \/ \E i \in 1..Len(outbox'[n]) : Deletes(outbox'[n][i], r)
    BY <1>3 DEF Followed, Deletes
  <2> QED
    BY <2>2, <2>3, <2>5, <2>6
<1>4. ASSUME NEW n \in Stream, outbox'[n] # <<>> PROVE n \in 1..Len(asked')
  <2>1. 1 \in 1..Len(outbox'[n])
    BY <1>1, <1>4
  <2>2. CASE Stays(n, 1)
    <3>1. outbox[n] # <<>>
      BY <1>1, <2>2 DEF Stays
    <3> QED
      BY <1>1, <3>1 DEF DeletionInv, ReadFirst
  <2>3. CASE MayJoin(n, 1)
    BY <1>1, <2>3 DEF MayJoin
  <2> QED
    BY <2>1, <2>2, <2>3
<1>5. ReadFirst'
  BY <1>3, <1>4 DEF ReadFirst
<1>6. ASSUME NEW n \in Stream, NEW r \in Rows, NEW i \in 1..Len(outbox'[n]),
             Deletes(outbox'[n][i], r)
      PROVE  /\ events'[<<n, r>>] = <<>>
             /\ \A j \in 1..Len(outbox'[n]) : j > i => ~Revives(outbox'[n][j], r)
  <2>1. CASE Stays(n, i)
    <3>1. i \in 1..Len(outbox[n]) /\ Deletes(outbox[n][i], r)
      BY <1>6, <2>1 DEF Stays
    <3>2. /\ events[<<n, r>>] = <<>>
          /\ \A j \in 1..Len(outbox[n]) : j > i => ~Revives(outbox[n][j], r)
      BY <3>1 DEF DeletionInv, LastWord
    <3>3. r \in removed
      BY <3>1, DeletesTheRemoved
    <3>4. events'[<<n, r>>] = <<>>
      BY <3>2, <3>3
    <3>5. ASSUME NEW j \in 1..Len(outbox'[n]), j > i PROVE ~Revives(outbox'[n][j], r)
      BY <3>1, <3>2, <3>5 DEF Stays, MayJoin
    <3> QED
      BY <3>4, <3>5
  <2>2. CASE MayJoin(n, i)
    BY <1>1, <1>6, <2>2 DEF MayJoin
  <2> QED
    BY <2>1, <2>2
<1>7. LastWord'
  <2> SUFFICES ASSUME NEW n \in Stream, NEW r \in Rows, NEW i \in 1..Len(outbox'[n]),
                      Deletes(outbox'[n][i], r)
               PROVE  /\ events'[<<n, r>>] = <<>>
                      /\ \A j \in 1..Len(outbox'[n]) : j > i => ~Revives(outbox'[n][j], r)
    BY DEF LastWord, Deletes, Revives
  <2> QED
    BY <1>6
<1>8. Buried'
  <2>1. buried' # {} => asked' # <<>>
    <3>1. asked = <<>> => Len(asked) = 0
      BY EmptySeq
    <3>2. asked' = <<>> => Len(asked') = 0
      BY EmptySeq
    <3>3. asked # <<>> => Len(asked) # 0
      BY EmptySeq DEF ReplInv, Ends
    <3> QED
      BY <1>1, <3>1, <3>2, <3>3 DEF DeletionInv, Buried
  <2>2. ASSUME Len(asked') = 1, NEW r \in buried PROVE AtRest(r)'
    <3>1. asked' = asked /\ Len(asked) = 1
      <4>1. Len(asked) # 0
        BY <2>2, EmptySeq DEF DeletionInv, Buried, ReplInv, Ends
      <4> QED
        BY <1>1, <2>2, <4>1
    <3>2. 1 \in 1..Len(asked) /\ 1 \in Stream /\ r \in Rows /\ r \in removed
      BY <1>1, <3>1, Numbers DEF ReplInv, Ends
    <3>3. AtRest(r)
      BY <2>2, <3>1 DEF DeletionInv, Buried
    <3>4. ~ToCome(1, r)'
      BY <3>2, <3>3 DEF AtRest
    <3>5. events'[<<1, r>>] = <<>>
      BY <3>2, <3>3 DEF AtRest
    <3>6. \A i \in 1..Len(outbox'[1]) : ~Revives(outbox'[1][i], r)
      BY <2>2, <3>1, <3>2, <3>3 DEF AtRest, Stays, MayJoin
    <3> QED
      BY <3>3, <3>4, <3>5, <3>6 DEF AtRest, Revives
  <2> QED
    BY <2>1, <2>2 DEF Buried
<1> QED
  BY <1>5, <1>7, <1>8

\* Requests when one is added, and when the first is taken.
LEMMA Added ==
  ASSUME ReplInv, NEW q, requests' = Append(requests, q)
  PROVE  /\ Len(requests) \in Nat /\ Len(requests') = Len(requests) + 1
         /\ requests'[Len(requests) + 1] = q
         /\ \A i \in 1..Len(requests) : i \in 1..Len(requests') /\ requests'[i] = requests[i]
         /\ \A i \in 1..Len(requests') : i \in 1..Len(requests) \/ i = Len(requests) + 1
<1>1. requests \in Seq(Posts \cup {q}) /\ Len(requests) \in Nat
  BY Numbers, SeqMonotonic, Posts \subseteq Posts \cup {q}
<1>2. /\ Len(requests') = Len(requests) + 1 /\ requests'[Len(requests) + 1] = q
      /\ \A i \in 1..Len(requests) : requests'[i] = requests[i]
  BY <1>1, AppendProperties
<1> QED
  BY <1>1, <1>2

LEMMA Taken ==
  ASSUME ReplInv, requests # <<>>, requests' = Tail(requests)
  PROVE  /\ Len(requests) \in Nat /\ 1 \in 1..Len(requests) /\ requests[1] = Head(requests)
         /\ \A i \in 1..Len(requests') :
              i \in Nat /\ i + 1 \in 1..Len(requests) /\ requests'[i] = requests[i + 1]
         /\ \A i \in 1..Len(requests) : i = 1 \/
              (i - 1 \in 1..Len(requests') /\ requests'[i - 1] = requests[i])
<1>1. /\ Len(requests) \in Nat /\ Len(requests) # 0 /\ requests[1] = Head(requests)
      /\ Len(requests') = Len(requests) - 1
      /\ \A i \in 1..Len(requests') : requests'[i] = requests[i + 1]
  BY Numbers, EmptySeq, HeadTailProperties
<1>2. \A i \in 1..Len(requests) : i = 1 \/ i - 1 \in 1..Len(requests')
  BY <1>1
<1>3. \A i \in 1..Len(requests) : i = 1 \/ requests'[i - 1] = requests[i]
  BY <1>1, <1>2
<1> QED
  BY <1>1, <1>2, <1>3

\* Nobody asks for a stream again.
LEMMA NobodyAsksAgain ==
  ASSUME ReplInv, NEW n \in Stream,
         \/ requests' = requests \/ requests' = <<>>
         \/ requests # <<>> /\ requests' = Tail(requests)
         \/ \E op \in {"subscribe", "close"}, k \in Nat :
              /\ requests' = Append(requests, [op |-> op, stream |-> k])
              /\ op = "close" \/ k # n
  PROVE  \A i \in 1..Len(requests') : Subscribes(i, n)' =>
           \E j \in 1..Len(requests) : Subscribes(j, n)
<1>1. CASE requests' = requests
  BY <1>1 DEF Subscribes
<1>2. CASE requests' = <<>>
  BY <1>2, EmptySeq
<1>3. CASE requests # <<>> /\ requests' = Tail(requests)
  BY <1>3, Taken DEF Subscribes
<1>4. ASSUME NEW op \in {"subscribe", "close"}, NEW k \in Nat, op = "close" \/ k # n,
             requests' = Append(requests, [op |-> op, stream |-> k])
      PROVE  \A i \in 1..Len(requests') : Subscribes(i, n)' =>
               \E j \in 1..Len(requests) : Subscribes(j, n)
  <2>1. PICK q : q = [op |-> op, stream |-> k]
    OBVIOUS
  <2>2. /\ requests'[Len(requests) + 1] = q
        /\ \A i \in 1..Len(requests) : requests'[i] = requests[i]
        /\ \A i \in 1..Len(requests') : i \in 1..Len(requests) \/ i = Len(requests) + 1
    BY <1>4, <2>1, Added
  <2>3. q.op = op /\ q.stream = k
    BY <2>1
  <2> QED
    BY <1>4, <2>2, <2>3 DEF Subscribes
<1> QED
  BY <1>1, <1>2, <1>3, <1>4

\* No row is to come again while nobody asks and the handler does not go back.
LEMMA ComesNoMore ==
  ASSUME ReplInv, NEW n \in 1..Len(asked), NEW r \in Rows, asked'[n] = asked[n],
         handler' \in {handler, Idle},
         \A i \in 1..Len(requests') : Subscribes(i, n)' =>
           \E j \in 1..Len(requests) : Subscribes(j, n)
  PROVE  ToCome(n, r)' => ToCome(n, r)
<1>1. \A i : FilterAt(n, i)' = FilterAt(n, i)
  BY DEF FilterAt
<1>2. n # 0
  OBVIOUS
<1> QED
  BY <1>1, <1>2 DEF ToCome, Idle

-----------------------------------------------------------------------------
(* Every step keeps it.                                                    *)

LEMMA DeletionInitially == ReplInit => DeletionInv
<1> SUFFICES ASSUME ReplInit PROVE DeletionInv
  OBVIOUS
<1>1. Len(<<>>) = 0
  BY EmptySeq
<1>2. Gone /\ OfFilter /\ Watches
  BY <1>1 DEF ReplInit, Gone, OfFilter, Watches
<1>3. ReadFirst /\ LastWord /\ Buried
  BY <1>1 DEF ReplInit, ReadFirst, Followed, LastWord, Buried
<1> QED
  BY <1>2, <1>3 DEF DeletionInv

\* Watches that are emptied say nothing wrong.
LEMMA EmptiedStillTells ==
  ASSUME DeletionInv,
         \A n \in Stream, r \in Rows : events'[<<n, r>>] \in {events[<<n, r>>], <<>>}
  PROVE  Watches'
<1> SUFFICES ASSUME NEW n \in Stream, NEW r \in Rows, NEW k \in 1..Len(events'[<<n, r>>])
             PROVE  /\ events'[<<n, r>>][k].row = r
                    /\ events'[<<n, r>>][k].rev = 0 => k = Len(events'[<<n, r>>])
  BY DEF Watches
<1>1. events'[<<n, r>>] # <<>>
  BY EmptySeq
<1>2. events'[<<n, r>>] = events[<<n, r>>]
  BY <1>1
<1> QED
  BY <1>2 DEF DeletionInv, Watches

\* Ends come up and go, and streams are closed: nothing is said that was not before.
LEMMA GoingKeepsDeletion ==
  ASSUME ReplInv, ReplInv', DeletionInv,
         \/ Connect \/ ReplicaCloses \/ DropResponders \/ UNCHANGED replVars
         \/ \E n \in Stream : CloseSync(n)
  PROVE  DeletionInv'
<1>1. /\ UNCHANGED <<source, removed, asked, replica, buried>>
      /\ handler' \in {handler, Idle} /\ watched' \subseteq watched
      /\ outbox' = outbox \/ outbox' = [n \in Stream |-> <<>>]
      /\ events' = events \/ events' = [w \in Stream \X Rows |-> <<>>]
      /\ \/ requests' = requests \/ requests' = <<>>
         \/ \E k \in Stream : requests' = Append(requests, [op |-> "close", stream |-> k])
  <2>1. CASE Connect
    BY <2>1 DEF Connect, sourceVars, replicaVars
  <2>2. CASE ReplicaCloses
    BY <2>2 DEF ReplicaCloses, sourceVars
  <2>3. CASE DropResponders
    BY <2>3 DEF DropResponders, replicaVars
  <2>4. CASE UNCHANGED replVars
    BY <2>4 DEF replVars, sourceVars, replicaVars
  <2>5. ASSUME NEW n \in Stream, CloseSync(n)
        PROVE  /\ UNCHANGED <<source, removed, asked, replica, buried, handler, watched, outbox,
                              events>>
               /\ \/ requests' = requests
                  \/ requests' = Append(requests, [op |-> "close", stream |-> n])
    BY <2>5 DEF CloseSync, sourceVars, Send
  <2> QED
    BY <2>1, <2>2, <2>3, <2>4, <2>5
<1>2. Len(<<>>) = 0
  BY EmptySeq
<1>3. Gone' /\ OfFilter' /\ Watches'
  <2>1. Gone'
    BY <1>1 DEF DeletionInv, Gone
  <2>2. OfFilter'
    BY <1>1 DEF DeletionInv, OfFilter, FilterAt
  <2>3. Watches'
    BY <1>1, EmptiedStillTells
  <2> QED
    BY <2>1, <2>2, <2>3
<1>4. ASSUME NEW n \in 1..Len(asked), NEW r \in Rows PROVE ToCome(n, r)' => ToCome(n, r)
  <2>1. n \in Stream /\ Stream \subseteq Nat
    BY Numbers DEF Stream
  <2>2. \A i \in 1..Len(requests') : Subscribes(i, n)' =>
          \E j \in 1..Len(requests) : Subscribes(j, n)
    BY <1>1, <2>1, NobodyAsksAgain
  <2> QED
    BY <1>1, <2>2, ComesNoMore
<1>5. \A n \in Stream : \A j \in 1..Len(outbox'[n]) : Stays(n, j)
  BY <1>1, <1>2 DEF Stays
<1>6. \A n \in Stream, r \in Rows : events'[<<n, r>>] = <<>> \/ events[<<n, r>>] # <<>>
  BY <1>1
<1>7. ReadFirst' /\ LastWord' /\ Buried'
  BY <1>1, <1>4, <1>5, <1>6, DeletionStays
<1> QED
  BY <1>3, <1>7 DEF DeletionInv

\* A row that was deleted is not written again, so that its deletion stays the last
\* event about it.
LEMMA CommitKeepsDeletion ==
  ASSUME ReplInv, ReplInv', DeletionInv, NEW r \in Rows, Write(r) \/ Remove(r)
  PROVE  DeletionInv'
<1>1. PICK rev \in 0..MaxRev : Commit(r, rev) /\ (rev = 0 => r \in removed')
  <2>1. CASE Write(r)
    <3>1. source[r] \in 0..MaxRev /\ source[r] < MaxRev /\ MaxRev \in Nat
      BY <2>1, ReplicationAssumption DEF ReplInv, Ends, Write
    <3>2. source[r] + 1 \in 0..MaxRev /\ source[r] + 1 # 0
      BY <3>1
    <3> QED
      BY <2>1, <3>2 DEF Write
  <2>2. CASE Remove(r)
    BY <2>2, ReplicationAssumption DEF Remove
  <2> QED
    BY <2>1, <2>2
<1>2. /\ r \notin removed /\ removed \subseteq removed' /\ removed' \subseteq removed \cup {r}
      /\ r \in removed' => rev = 0
  <2>1. r \notin removed
    BY DEF Write, Remove, DeletionInv, Gone
  <2>2. CASE Write(r)
    BY <2>1, <2>2 DEF Write
  <2>3. CASE Remove(r)
    <3>1. source'[r] = 0
      BY <2>3 DEF Remove, Commit, ReplInv, Ends
    <3>2. source'[r] = rev
      BY <1>1 DEF Commit, ReplInv, Ends
    <3> QED
      BY <2>1, <2>3, <3>1, <3>2 DEF Remove
  <2> QED
    BY <2>1, <2>2, <2>3
<1>3. /\ UNCHANGED <<requests, handler, watched, outbox, asked, replica, buried>>
      /\ source' = [source EXCEPT ![r] = rev]
      /\ \A n \in Stream, s \in Rows : events'[<<n, s>>] =
           IF <<n, s>> \in watched /\ s = r
             THEN Append(events[<<n, s>>], [row |-> r, rev |-> rev]) ELSE events[<<n, s>>]
  BY <1>1 DEF Commit, replicaVars
<1>4. Gone'
  BY <1>2, <1>3 DEF DeletionInv, Gone, ReplInv, Ends
<1>5. OfFilter'
  BY <1>3 DEF DeletionInv, OfFilter, FilterAt
<1>6. Watches'
  <2> SUFFICES ASSUME NEW n \in Stream, NEW s \in Rows, NEW k \in 1..Len(events'[<<n, s>>])
               PROVE  /\ events'[<<n, s>>][k].row = s
                      /\ events'[<<n, s>>][k].rev = 0 => k = Len(events'[<<n, s>>])
    BY DEF Watches
  <2>1. CASE ~(<<n, s>> \in watched /\ s = r)
    <3>1. events'[<<n, s>>] = events[<<n, s>>]
      BY <1>3, <2>1
    <3> QED
      BY <3>1 DEF DeletionInv, Watches
  <2>2. CASE <<n, s>> \in watched /\ s = r
    <3>1. PICK x : x = [row |-> r, rev |-> rev]
      OBVIOUS
    <3>2. x \in Record /\ x.row = r
      BY <3>1 DEF Record
    <3>3. events[<<n, s>>] \in Seq(Truth) /\ events[<<n, s>>] \in Seq(Record)
      <4>1. events[<<n, s>>] \in Seq(Truth)
        BY DEF ReplInv, InTransit
      <4> QED
        BY <4>1, SeqMonotonic, Truth \subseteq Record DEF Truth
    <3>4. events'[<<n, s>>] = Append(events[<<n, s>>], x)
      BY <1>3, <2>2, <3>1
    <3>5. /\ Len(events'[<<n, s>>]) = Len(events[<<n, s>>]) + 1
          /\ events'[<<n, s>>][Len(events[<<n, s>>]) + 1] = x
          /\ \A i \in 1..Len(events[<<n, s>>]) : events'[<<n, s>>][i] = events[<<n, s>>][i]
      BY <3>2, <3>3, <3>4, AppendProperties
    <3>6. Len(events[<<n, s>>]) \in Nat
      BY <3>3, LenProperties
    <3>7. CASE k = Len(events[<<n, s>>]) + 1
      BY <2>2, <3>2, <3>5, <3>7
    <3>8. CASE k \in 1..Len(events[<<n, s>>])
      <4>1. events[<<n, s>>][k] \in Truth /\ events[<<n, s>>][k].row = s
        BY <3>3, <3>8, ElementOfSeq DEF DeletionInv, Watches
      <4>2. events[<<n, s>>][k].rev # 0
        BY <1>2, <2>2, <4>1 DEF Truth
      <4> QED
        BY <3>5, <3>8, <4>1, <4>2
    <3> QED
      BY <3>5, <3>6, <3>7, <3>8
  <2> QED
    BY <2>1, <2>2
<1>7. \A n \in 1..Len(asked), s \in Rows : ToCome(n, s)' => ToCome(n, s)
  BY <1>3 DEF ToCome, Subscribes, FilterAt
<1>8. \A n \in Stream, s \in Rows :
        events'[<<n, s>>] = events[<<n, s>>] \/ (<<n, s>> \in watched /\ s \notin removed)
  BY <1>2, <1>3
<1>9. ReadFirst' /\ LastWord' /\ Buried'
  BY <1>3, <1>7, <1>8, DeletionStays DEF Stays
<1> QED
  BY <1>4, <1>5, <1>6, <1>9 DEF DeletionInv

LEMMA OpenKeepsDeletion ==
  ASSUME ReplInv, ReplInv', DeletionInv, NEW f \in Requests, OpenSync(f)
  PROVE  DeletionInv'
<1>0. PICK k : k = Len(asked) + 1
  OBVIOUS
<1>1. /\ UNCHANGED <<source, removed, handler, watched, events, outbox, replica, buried>>
      /\ asked' = Append(asked, f)
      /\ requests' = requests \/ requests' = Append(requests, [op |-> "subscribe", stream |-> k])
  BY <1>0 DEF OpenSync, sourceVars, Send
<1>2. /\ Len(asked) \in Nat /\ k \in Nat /\ Len(asked') = Len(asked) + 1
      /\ \A n \in 1..Len(asked) : n # k /\ asked'[n] = asked[n]
  <2>1. asked \in Seq(Requests) /\ Len(asked) \in Nat
    BY LenProperties DEF ReplInv, Ends
  <2> QED
    BY <1>0, <1>1, <2>1, AppendProperties
<1>3. Gone' /\ Watches'
  BY <1>1 DEF DeletionInv, Gone, Watches
<1>4. OfFilter'
  <2>1. handler # Idle => handler.stream \in 1..Len(asked)
    BY DEF ReplInv, Serving
  <2> QED
    BY <1>1, <1>2, <2>1 DEF DeletionInv, OfFilter, FilterAt
<1>5. ASSUME NEW n \in 1..Len(asked), NEW r \in Rows PROVE ToCome(n, r)' => ToCome(n, r)
  <2>1. n \in Stream /\ n # k
    BY <1>2, Numbers
  <2>2. \A i \in 1..Len(requests') : Subscribes(i, n)' =>
          \E j \in 1..Len(requests) : Subscribes(j, n)
    BY <1>1, <1>2, <2>1, NobodyAsksAgain
  <2> QED
    BY <1>1, <1>2, <2>2, ComesNoMore
<1>6. ReadFirst' /\ LastWord' /\ Buried'
  BY <1>1, <1>2, <1>5, DeletionStays DEF Stays
<1> QED
  BY <1>3, <1>4, <1>6 DEF DeletionInv

\* The stream that subscribes was to be read already.
LEMMA ReceiveSubscribeKeepsDeletion ==
  ASSUME ReplInv, ReplInv', DeletionInv, ReceiveSubscribe
  PROVE  DeletionInv'
<1>0. PICK m : m = Head(requests).stream
  OBVIOUS
<1>1. /\ UNCHANGED <<source, removed, watched, events, outbox, asked, replica, buried>>
      /\ requests # <<>> /\ requests' = Tail(requests) /\ Head(requests).op = "subscribe"
      /\ handler' = [stream |-> m, at |-> 1, pc |-> "scan", left |-> FilterAt(m, 1), found |-> {}]
  BY <1>0 DEF ReceiveSubscribe, replicaVars
<1>2. 1 \in 1..Len(requests) /\ Subscribes(1, m)
  <2>1. Len(requests) # 0 /\ requests[1] = Head(requests)
    BY <1>1, Numbers, EmptySeq, HeadTailProperties
  <2> QED
    BY <1>0, <1>1, <2>1, Numbers DEF Subscribes
<1>3. Gone' /\ Watches'
  BY <1>1 DEF DeletionInv, Gone, Watches
<1>4. OfFilter'
  <2>1. handler'.stream = m /\ handler'.at = 1 /\ handler'.left = FilterAt(m, 1)
        /\ handler'.found = {}
    BY <1>1
  <2> QED
    BY <1>1, <2>1 DEF OfFilter, FilterAt
<1>5. ASSUME NEW n \in 1..Len(asked), NEW r \in Rows PROVE ToCome(n, r)' => ToCome(n, r)
  <2>1. CASE n = m
    BY <1>2, <2>1 DEF ToCome
  <2>2. CASE n # m
    <3>1. n \in Stream
      BY Numbers
    <3>2. \A i \in 1..Len(requests') : Subscribes(i, n)' =>
            \E j \in 1..Len(requests) : Subscribes(j, n)
      BY <1>1, <3>1, NobodyAsksAgain
    <3>3. handler'.stream = m
      BY <1>1
    <3> QED
      BY <2>2, <3>2, <3>3 DEF ToCome
  <2> QED
    BY <2>1, <2>2
<1>6. ReadFirst' /\ LastWord' /\ Buried'
  BY <1>1, <1>5, DeletionStays DEF Stays
<1> QED
  BY <1>3, <1>4, <1>6 DEF DeletionInv

LEMMA ReceiveCloseKeepsDeletion ==
  ASSUME ReplInv, ReplInv', DeletionInv, ReceiveClose
  PROVE  DeletionInv'
<1>1. /\ UNCHANGED <<source, removed, handler, outbox, asked, replica, buried>>
      /\ requests # <<>> /\ requests' = Tail(requests) /\ watched' \subseteq watched
      /\ \A n \in Stream, r \in Rows :
           events'[<<n, r>>] = events[<<n, r>>] \/ events'[<<n, r>>] = <<>>
  BY DEF ReceiveClose, replicaVars
<1>3. Gone' /\ OfFilter'
  BY <1>1 DEF DeletionInv, Gone, OfFilter, FilterAt
<1>4. Watches'
  BY <1>1, EmptiedStillTells
<1>5. ASSUME NEW n \in 1..Len(asked), NEW r \in Rows PROVE ToCome(n, r)' => ToCome(n, r)
  <2>1. n \in Stream
    BY Numbers
  <2>2. \A i \in 1..Len(requests') : Subscribes(i, n)' =>
          \E j \in 1..Len(requests) : Subscribes(j, n)
    BY <1>1, <2>1, NobodyAsksAgain
  <2> QED
    BY <1>1, <2>2, ComesNoMore
<1>6. ReadFirst' /\ LastWord' /\ Buried'
  BY <1>1, <1>5, DeletionStays DEF Stays
<1> QED
  BY <1>3, <1>4, <1>6 DEF DeletionInv

\* A row read is of the filter in hand.
LEMMA ScanKeepsDeletion ==
  ASSUME ReplInv, ReplInv', DeletionInv, NEW s \in Rows, Scan(s)
  PROVE  DeletionInv'
<1>0. PICK left : left = handler.left \ {s}
  OBVIOUS
<1>1. /\ UNCHANGED <<source, removed, requests, watched, events, outbox, asked, replica, buried>>
      /\ handler.pc = "scan" /\ handler \in Handler /\ handler # Idle /\ s \in handler.left
      /\ handler' = [handler EXCEPT
           !.left = left,
           !.pc = IF left = {} THEN "send" ELSE @,
           !.found = IF source[s] # 0 THEN @ \cup {[row |-> s, rev |-> source[s]]} ELSE @]
  BY <1>0, HandlerAtWork DEF Scan, replicaVars
<1>2. /\ handler'.stream = handler.stream /\ handler'.at = handler.at /\ handler'.left = left
      /\ handler'.pc \in {"scan", "send"}
      /\ \A x \in handler'.found : x \in handler.found \/ x.row = s
  BY <1>1 DEF Handler
<1>3. Gone' /\ Watches'
  BY <1>1 DEF DeletionInv, Gone, Watches
<1>4. OfFilter'
  BY <1>0, <1>1, <1>2 DEF DeletionInv, OfFilter, FilterAt
<1>5. \A n \in 1..Len(asked), r \in Rows : ToCome(n, r)' => ToCome(n, r)
  BY <1>1, <1>2 DEF ToCome, Subscribes, FilterAt
<1>6. ReadFirst' /\ LastWord' /\ Buried'
  BY <1>1, <1>5, DeletionStays DEF Stays
<1> QED
  BY <1>3, <1>4, <1>6 DEF DeletionInv

\* One more update at the end of a buffer.
LEMMA JoinsLast ==
  ASSUME ReplInv, NEW k \in Stream, NEW u,
         outbox' = [outbox EXCEPT ![k] = Append(outbox[k], u)]
  PROVE  /\ \A n \in Stream : \A j \in 1..Len(outbox'[n]) :
              Stays(n, j) \/ (n = k /\ j = Len(outbox'[k]) /\ outbox'[n][j] = u)
         /\ \A n \in Stream : \A j \in 1..Len(outbox[n]) :
              j \in 1..Len(outbox'[n]) /\ outbox'[n][j] = outbox[n][j]
         /\ Len(outbox'[k]) \in 1..Len(outbox'[k])
         /\ outbox'[k][Len(outbox'[k])] = u
<1>1. outbox'[k] = Append(outbox[k], u) /\ \A n \in Stream : n # k => outbox'[n] = outbox[n]
  BY DEF ReplInv, InTransit
<1>2. outbox[k] \in Seq(Batches \cup {u}) /\ Len(outbox[k]) \in Nat
  BY Numbers, SeqMonotonic, Batches \subseteq Batches \cup {u}
<1>3. /\ Len(outbox'[k]) = Len(outbox[k]) + 1 /\ outbox'[k][Len(outbox[k]) + 1] = u
      /\ \A i \in 1..Len(outbox[k]) : outbox'[k][i] = outbox[k][i]
  BY <1>1, <1>2, AppendProperties
<1>4. /\ \A j \in 1..Len(outbox'[k]) : j \in 1..Len(outbox[k]) \/ j = Len(outbox[k]) + 1
      /\ \A j \in 1..Len(outbox[k]) : j \in 1..Len(outbox'[k])
      /\ Len(outbox'[k]) \in 1..Len(outbox'[k])
  BY <1>2, <1>3
<1> QED
  BY <1>1, <1>3, <1>4 DEF Stays

\* The rows of a snapshot are not followed yet, and no deletion of one is on its way.
LEMMA SendSnapshotKeepsDeletion ==
  ASSUME ReplInv, ReplInv', DeletionInv, SendSnapshot
  PROVE  DeletionInv'
<1>0. PICK n : n = handler.stream
  OBVIOUS
<1>1. /\ UNCHANGED <<source, removed, requests, watched, events, asked, replica, buried>>
      /\ handler.pc = "send" /\ handler \in Handler /\ handler # Idle
      /\ n \in Stream /\ n \in 1..Len(asked) /\ handler.at \in 1..Len(asked[n])
      /\ handler' = [handler EXCEPT !.pc = "watch", !.found = {}, !.left = FilterAt(n, handler.at)]
  BY <1>0, HandlerAtWork DEF SendSnapshot, replicaVars
<1>2. /\ handler'.stream = n /\ handler'.at = handler.at /\ handler'.pc = "watch"
      /\ handler'.found = {} /\ handler'.left = FilterAt(n, handler.at)
  BY <1>0, <1>1 DEF Handler
<1>3. Gone' /\ Watches'
  BY <1>1 DEF DeletionInv, Gone, Watches
<1>4. OfFilter'
  BY <1>1, <1>2 DEF OfFilter, FilterAt
<1>5. \A k \in 1..Len(asked), r \in Rows : ToCome(k, r)' => ToCome(k, r)
  BY <1>0, <1>1, <1>2 DEF ToCome, Subscribes, FilterAt
<1>6. \A x \in handler.found : x.row \in Rows /\ x.rev # 0 /\ ToCome(n, x.row)
  <2> SUFFICES ASSUME NEW x \in handler.found
               PROVE  x.row \in Rows /\ x.rev # 0 /\ ToCome(n, x.row)
    OBVIOUS
  <2>1. x.row \in FilterAt(n, handler.at)
    BY <1>0, <1>1 DEF DeletionInv, OfFilter
  <2>2. x \in Record /\ x.rev # 0
    BY <1>1 DEF Handler, ReplInv, Serving
  <2> QED
    BY <1>0, <1>1, <2>1, <2>2 DEF ToCome, Record
<1>7. ASSUME NEW r \in Rows, ToCome(n, r)
      PROVE  /\ \A i \in 1..Len(outbox[n]) : ~Deletes(outbox[n][i], r)
             /\ Len(asked) = 1 => r \notin buried
  <2>1. ~Followed(n, r)
    BY <1>1, <1>7 DEF DeletionInv, ReadFirst
  <2>2. Len(asked) = 1 => n = 1
    BY <1>1
  <2>3. Len(asked) = 1 => r \notin buried
    BY <1>7, <2>2 DEF DeletionInv, Buried, AtRest
  <2> QED
    BY <2>1, <2>3 DEF Followed
<1>8. \A k \in Stream : \A j \in 1..Len(outbox'[k]) : Stays(k, j) \/ MayJoin(k, j)
  <2>1. CASE handler.found = {}
    BY <2>1 DEF SendSnapshot, Stays
  <2>2. CASE handler.found # {}
    <3>1. Put(n, handler.found, FALSE)
      BY <1>0, <2>2 DEF SendSnapshot
    <3> SUFFICES ASSUME NEW k \in Stream, NEW j \in 1..Len(outbox'[k]), ~Stays(k, j)
                 PROVE  MayJoin(k, j)
      OBVIOUS
    <3>2. k = n /\ outbox'[k][j].records = handler.found
      <4>1. PICK u : u = [records |-> handler.found, complete |-> FALSE]
        OBVIOUS
      <4>2. outbox' = [outbox EXCEPT ![n] = Append(outbox[n], u)]
        BY <3>1, <4>1 DEF Put
      <4>3. \A m \in Stream : \A i \in 1..Len(outbox'[m]) :
              Stays(m, i) \/ (m = n /\ i = Len(outbox'[n]) /\ outbox'[m][i] = u)
        BY <1>1, <4>2, JoinsLast
      <4>4. u.records = handler.found
        BY <4>1
      <4> QED
        BY <4>3, <4>4
    <3>3. \A r \in Rows : ~Deletes(outbox'[k][j], r)
      BY <1>6, <3>2 DEF Deletes
    <3>4. \A r \in Rows : Revives(outbox'[k][j], r) => ToCome(n, r)
      BY <1>6, <3>2 DEF Revives
    <3> QED
      BY <1>1, <1>7, <3>2, <3>3, <3>4 DEF MayJoin
  <2> QED
    BY <2>1, <2>2
<1>9. ReadFirst' /\ LastWord' /\ Buried'
  BY <1>1, <1>5, <1>8, DeletionStays
<1> QED
  BY <1>3, <1>4, <1>9 DEF DeletionInv

LEMMA SendMarkerKeepsDeletion ==
  ASSUME ReplInv, ReplInv', DeletionInv, SendMarker
  PROVE  DeletionInv'
<1>0. PICK n : n = handler.stream
  OBVIOUS
<1>1. /\ UNCHANGED <<source, removed, requests, watched, events, asked, replica, buried>>
      /\ handler.pc = "mark" /\ handler' = Idle /\ n \in Stream /\ n \in 1..Len(asked)
      /\ Put(n, {}, TRUE)
  BY <1>0, HandlerAtWork DEF SendMarker, replicaVars
<1>2. Gone' /\ OfFilter' /\ Watches'
  BY <1>1 DEF DeletionInv, Gone, OfFilter, Watches
<1>3. ASSUME NEW k \in 1..Len(asked), NEW r \in Rows PROVE ToCome(k, r)' => ToCome(k, r)
  BY <1>1, NobodyAsksAgain, Numbers, ComesNoMore
<1>4. \A k \in Stream : \A j \in 1..Len(outbox'[k]) : Stays(k, j) \/ MayJoin(k, j)
  <2> SUFFICES ASSUME NEW k \in Stream, NEW j \in 1..Len(outbox'[k]), ~Stays(k, j)
               PROVE  MayJoin(k, j)
    OBVIOUS
  <2>1. k = n /\ outbox'[k][j].records = {}
    <3>1. PICK u : u = [records |-> {}, complete |-> TRUE]
      OBVIOUS
    <3>2. outbox' = [outbox EXCEPT ![n] = Append(outbox[n], u)]
      BY <1>1, <3>1 DEF Put
    <3>3. \A m \in Stream : \A i \in 1..Len(outbox'[m]) :
            Stays(m, i) \/ (m = n /\ i = Len(outbox'[n]) /\ outbox'[m][i] = u)
      BY <1>1, <3>2, JoinsLast
    <3>4. u.records = {}
      BY <3>1
    <3> QED
      BY <3>3, <3>4
  <2> QED
    BY <1>1, <2>1 DEF MayJoin, Deletes, Revives
<1>5. ReadFirst' /\ LastWord' /\ Buried'
  BY <1>1, <1>3, <1>4, DeletionStays
<1> QED
  BY <1>2, <1>5 DEF DeletionInv

\* A row is watched when no other filter of the stream matches it.
LEMMA WatchKeepsDeletion ==
  ASSUME ReplInv, ReplInv', MarkerInv, DeletionInv, NEW s \in Rows, Watch(s)
  PROVE  DeletionInv'
<1>0. PICK n : n = handler.stream
  OBVIOUS
<1>1. /\ UNCHANGED <<source, removed, requests, events, outbox, asked, replica, buried>>
      /\ handler.pc = "watch" /\ handler \in Handler /\ handler # Idle /\ s \in handler.left
      /\ n \in Stream /\ n \in 1..Len(asked) /\ handler.at \in 1..Len(asked[n])
      /\ watched' = watched \cup {<<n, s>>}
  BY <1>0, HandlerAtWork DEF Watch, replicaVars
<1>2. PICK left : left = handler.left \ {s}
  OBVIOUS
<1>3. /\ handler'.stream = n /\ handler'.found = {}
      /\ \/ handler'.at = handler.at /\ handler'.pc = "watch" /\ handler'.left = left
         \/ /\ left = {} /\ handler'.at = handler.at + 1 /\ handler'.pc = "scan"
            /\ handler'.left = FilterAt(n, handler.at + 1)
         \/ handler'.pc = "mark" /\ handler'.left = {}
  <2>1. handler.found = {}
    BY <1>1 DEF ReplInv, Serving
  <2>2. CASE left # {}
    <3>1. handler' = [handler EXCEPT !.left = left]
      BY <1>2, <2>2 DEF Watch
    <3> QED
      BY <1>0, <1>1, <2>1, <3>1 DEF Handler
  <2>3. CASE left = {} /\ handler.at + 1 <= Len(asked[n])
    <3>1. handler' = [handler EXCEPT !.at = handler.at + 1, !.pc = "scan",
                                     !.left = FilterAt(n, handler.at + 1)]
      BY <1>0, <1>2, <2>3 DEF Watch
    <3> QED
      BY <1>0, <1>1, <2>1, <2>3, <3>1 DEF Handler
  <2>4. CASE left = {} /\ ~(handler.at + 1 <= Len(asked[n]))
    <3>1. handler' = [handler EXCEPT !.pc = "mark", !.left = {}]
      BY <1>0, <1>2, <2>4 DEF Watch
    <3> QED
      BY <1>0, <1>1, <2>1, <3>1 DEF Handler
  <2> QED
    BY <2>2, <2>3, <2>4
<1>4. Gone' /\ Watches'
  BY <1>1 DEF DeletionInv, Gone, Watches
<1>5. handler.left \subseteq FilterAt(n, handler.at)
  BY <1>0, <1>1 DEF DeletionInv, OfFilter
<1>6. OfFilter'
  BY <1>1, <1>2, <1>3, <1>5 DEF OfFilter, FilterAt
<1>7. ASSUME NEW k \in 1..Len(asked), NEW r \in Rows, ToCome(k, r)' PROVE ToCome(k, r)
  <2>1. CASE \E i \in 1..Len(requests') : Subscribes(i, k)'
    BY <1>1, <2>1 DEF ToCome, Subscribes
  <2>2. CASE ~ \E i \in 1..Len(requests') : Subscribes(i, k)'
    <3>1. /\ k = n /\ handler'.pc # "mark"
          /\ \E i \in 1..Len(asked[n]) : r \in FilterAt(n, i) /\
               (i > handler'.at \/ (i = handler'.at /\ (handler'.pc = "watch" => r \in handler'.left)))
      BY <1>1, <1>3, <1>7, <2>2 DEF ToCome, FilterAt
    <3>2. PICK i \in 1..Len(asked[n]) : r \in FilterAt(n, i) /\
            (i > handler'.at \/ (i = handler'.at /\ (handler'.pc = "watch" => r \in handler'.left)))
      BY <3>1
    <3>3. handler.at \in Nat /\ i \in Nat
      BY <1>1
    <3>4. i > handler.at \/ (i = handler.at /\ r \in handler.left)
      BY <1>2, <1>3, <3>1, <3>2, <3>3
    <3> QED
      BY <1>0, <1>1, <3>1, <3>2, <3>4 DEF ToCome
  <2> QED
    BY <2>1, <2>2
<1>8. ~ToCome(n, s)'
  <2>1. \A i \in 1..Len(requests') : ~Subscribes(i, n)'
    BY <1>0, <1>1 DEF MarkerInv, Once, Answered, Subscribes
  <2>2. \A i \in 1..Len(asked[n]) : s \in FilterAt(n, i) => i = handler.at
    <3>1. asked[n] \in Requests
      BY <1>1, ElementOfSeq DEF ReplInv, Ends
    <3>2. DOMAIN asked[n] = 1..Len(asked[n])
      BY <3>1, ReplicationAssumption, LenProperties
    <3>3. s \in asked[n][handler.at]
      BY <1>1, <1>5 DEF FilterAt
    <3> QED
      BY <1>1, <3>1, <3>2, <3>3, FiltersAreApart DEF FilterAt
  <2>3. ASSUME NEW i \in 1..Len(asked[n]), s \in FilterAt(n, i), handler'.pc # "mark"
        PROVE  ~(i > handler'.at) /\ ~(i = handler'.at /\ (handler'.pc = "watch" => s \in handler'.left))
    <3>1. i = handler.at /\ handler.at \in Nat
      BY <1>1, <2>2, <2>3
    <3> QED
      BY <1>2, <1>3, <2>3, <3>1
  <2> QED
    BY <1>1, <2>1, <2>3 DEF ToCome, FilterAt
<1>9. ReadFirst' /\ LastWord' /\ Buried'
  <2>1. \A k \in Stream, r \in Rows : <<k, r>> \in watched' =>
          <<k, r>> \in watched \/ (k \in 1..Len(asked') /\ ~ToCome(k, r)')
    BY <1>1, <1>8
  <2> QED
    BY <1>1, <1>7, <2>1, DeletionStays DEF Stays
<1> QED
  BY <1>4, <1>6, <1>9 DEF DeletionInv

\* A deletion that leaves its watch leaves it empty.
LEMMA ForwardKeepsDeletion ==
  ASSUME ReplInv, ReplInv', DeletionInv, NEW w \in Stream \X Rows, Forward(w)
  PROVE  DeletionInv'
<1>1. PICK n \in Stream, r \in Rows : w = <<n, r>>
  OBVIOUS
<1>2. PICK x : x = Head(events[w])
  OBVIOUS
<1>3. /\ UNCHANGED <<source, removed, requests, handler, watched, asked, replica, buried>>
      /\ events[w] # <<>> /\ Put(n, {x}, FALSE)
      /\ events' = [events EXCEPT ![w] = Tail(events[w])]
  BY <1>1, <1>2 DEF Forward, replicaVars
<1>4. /\ events[w] \in Seq(Truth) /\ Len(events[w]) \in Nat /\ Len(events[w]) # 0
      /\ events'[w] = Tail(events[w]) /\ x = events[w][1]
      /\ Len(events'[w]) = Len(events[w]) - 1
      /\ \A k \in 1..Len(events'[w]) : events'[w][k] = events[w][k + 1]
      /\ Len(events[w]) = 1 => events'[w] = <<>>
  <2>1. events[w] \in Seq(Truth)
    BY DEF ReplInv, InTransit
  <2>2. Len(events[w]) \in Nat /\ Len(events[w]) # 0
    BY <1>3, <2>1, LenProperties, EmptySeq
  <2>3. events'[w] = Tail(events[w])
    BY <1>3 DEF ReplInv, InTransit
  <2>4. /\ x = events[w][1] /\ Tail(events[w]) \in Seq(Truth)
        /\ Len(Tail(events[w])) = Len(events[w]) - 1
        /\ \A k \in 1..Len(Tail(events[w])) : Tail(events[w])[k] = events[w][k + 1]
    BY <1>2, <1>3, <2>1, HeadTailProperties
  <2>5. Len(events[w]) = 1 => Tail(events[w]) = <<>>
    <3>1. PICK t : t = Tail(events[w])
      OBVIOUS
    <3>2. t \in Seq(Truth) /\ Len(t) = Len(events[w]) - 1
      BY <2>4, <3>1
    <3>3. Len(t) = 0 => t = <<>>
      BY <3>2, EmptySeq
    <3> QED
      BY <2>2, <3>1, <3>2, <3>3
  <2> QED
    BY <2>1, <2>2, <2>3, <2>4, <2>5
<1>5. \A m \in Stream, s \in Rows : <<m, s>> # w => events'[<<m, s>>] = events[<<m, s>>]
  BY <1>3 DEF ReplInv, InTransit
<1>6. \A k \in 1..Len(events[w]) : events[w][k].row = r /\ (events[w][k].rev = 0 => k = Len(events[w]))
  BY <1>1 DEF DeletionInv, Watches
<1>7. Gone' /\ OfFilter'
  BY <1>3 DEF DeletionInv, Gone, OfFilter, FilterAt
<1>8. Watches'
  <2> SUFFICES ASSUME NEW m \in Stream, NEW s \in Rows, NEW k \in 1..Len(events'[<<m, s>>])
               PROVE  /\ events'[<<m, s>>][k].row = s
                      /\ events'[<<m, s>>][k].rev = 0 => k = Len(events'[<<m, s>>])
    BY DEF Watches
  <2>1. CASE <<m, s>> = w
    <3>1. s = r /\ k \in 1..Len(events'[w])
      BY <1>1, <2>1
    <3>2. k + 1 \in 1..Len(events[w]) /\ events'[w][k] = events[w][k + 1] /\ k \in Nat
      BY <1>4, <3>1
    <3>3. events'[w][k].row = r
      BY <1>6, <3>2
    <3>4. events'[w][k].rev = 0 => k + 1 = Len(events[w])
      BY <1>6, <3>2
    <3>5. events'[w][k].rev = 0 => k = Len(events'[w])
      BY <1>4, <3>2, <3>4
    <3> QED
      BY <2>1, <3>1, <3>3, <3>5
  <2>2. CASE <<m, s>> # w
    <3>1. events'[<<m, s>>] = events[<<m, s>>]
      BY <1>5, <2>2
    <3> QED
      BY <3>1 DEF DeletionInv, Watches
  <2> QED
    BY <2>1, <2>2
<1>9. \A k \in 1..Len(asked), s \in Rows : ToCome(k, s)' => ToCome(k, s)
  BY <1>3 DEF ToCome, Subscribes, FilterAt
<1>10. Followed(n, r) /\ n \in 1..Len(asked)
  BY <1>1, <1>3 DEF Followed, DeletionInv, ReadFirst
<1>11. x.row = r /\ (x.rev = 0 => events'[w] = <<>>)
  <2>1. 1 \in 1..Len(events[w])
    BY <1>4
  <2> QED
    BY <1>4, <1>6, <2>1
<1>12. \A k \in Stream : \A j \in 1..Len(outbox'[k]) : Stays(k, j) \/ MayJoin(k, j)
  <2> SUFFICES ASSUME NEW k \in Stream, NEW j \in 1..Len(outbox'[k]), ~Stays(k, j)
               PROVE  MayJoin(k, j)
    OBVIOUS
  <2>1. k = n /\ j = Len(outbox'[k]) /\ outbox'[k][j].records = {x}
    <3>1. PICK u : u = [records |-> {x}, complete |-> FALSE]
      OBVIOUS
    <3>2. outbox' = [outbox EXCEPT ![n] = Append(outbox[n], u)]
      BY <1>3, <3>1 DEF Put
    <3>3. \A m \in Stream : \A i \in 1..Len(outbox'[m]) :
            Stays(m, i) \/ (m = n /\ i = Len(outbox'[n]) /\ outbox'[m][i] = u)
      BY <3>2, JoinsLast
    <3>4. u.records = {x}
      BY <3>1
    <3> QED
      BY <3>3, <3>4
  <2>2. \A s \in Rows : Deletes(outbox'[k][j], s) => s = r /\ events'[<<n, s>>] = <<>>
    BY <1>1, <1>11, <2>1 DEF Deletes
  <2>3. \A s \in Rows : Revives(outbox'[k][j], s) => s = r
    BY <1>11, <2>1 DEF Revives
  <2>4. \A i \in 1..Len(outbox[n]) : ~Deletes(outbox[n][i], r)
    BY <1>1, <1>3 DEF DeletionInv, LastWord
  <2>5. Len(asked) = 1 => r \notin buried
    <3>1. Len(asked) = 1 => n = 1
      BY <1>10
    <3> QED
      BY <1>1, <1>3, <3>1 DEF DeletionInv, Buried, AtRest
  <2> QED
    BY <1>10, <2>1, <2>2, <2>3, <2>4, <2>5 DEF MayJoin
<1>13. \A m \in Stream, s \in Rows :
         events'[<<m, s>>] = <<>> \/ events[<<m, s>>] # <<>>
  BY <1>3, <1>5
<1>14. ReadFirst' /\ LastWord' /\ Buried'
  BY <1>3, <1>9, <1>12, <1>13, DeletionStays
<1> QED
  BY <1>7, <1>8, <1>14 DEF DeletionInv

\* What is buried stays at rest, and what is buried now is at rest from now on.
LEMMA SocketSendsKeepsDeletion ==
  ASSUME ReplInv, ReplInv', DeletionInv, NEW n \in Stream, SocketSends(n)
  PROVE  DeletionInv'
<1>0. PICK batch : batch = Head(outbox[n])
  OBVIOUS
<1>1. /\ UNCHANGED <<source, removed, requests, handler, watched, events, asked>>
      /\ outbox[n] # <<>> /\ outbox' = [outbox EXCEPT ![n] = Tail(outbox[n])]
      /\ IF n \in open THEN Receive(n, batch) ELSE UNCHANGED <<replica, buried, notified>>
  BY <1>0 DEF SocketSends
<1>2. /\ Len(outbox[n]) \in Nat /\ Len(outbox[n]) # 0 /\ batch = outbox[n][1]
      /\ Len(outbox'[n]) = Len(outbox[n]) - 1
      /\ \A j \in 1..Len(outbox'[n]) : outbox'[n][j] = outbox[n][j + 1]
      /\ \A m \in Stream : m # n => outbox'[m] = outbox[m]
  <2>1. outbox[n] \in Seq(Batches) /\ Len(outbox[n]) \in Nat
    BY Numbers
  <2>2. Len(outbox[n]) # 0
    BY <1>1, <2>1, EmptySeq
  <2>3. outbox'[n] = Tail(outbox[n]) /\ \A m \in Stream : m # n => outbox'[m] = outbox[m]
    BY <1>1 DEF ReplInv, InTransit
  <2>4. /\ batch = outbox[n][1] /\ Len(Tail(outbox[n])) = Len(outbox[n]) - 1
        /\ \A j \in 1..Len(Tail(outbox[n])) : Tail(outbox[n])[j] = outbox[n][j + 1]
    BY <1>0, <1>1, <2>1, HeadTailProperties
  <2> QED
    BY <2>1, <2>2, <2>3, <2>4
<1>3. \A j \in 1..Len(outbox'[n]) :
        j + 1 \in 1..Len(outbox[n]) /\ outbox'[n][j] = outbox[n][j + 1]
  BY <1>2
<1>4. Gone' /\ OfFilter' /\ Watches'
  BY <1>1 DEF DeletionInv, Gone, OfFilter, FilterAt, Watches
<1>5. \A m, r : ToCome(m, r)' = ToCome(m, r)
  BY <1>1 DEF ToCome, Subscribes, FilterAt
<1>6. ReadFirst'
  <2>1. ASSUME NEW m \in Stream, outbox'[m] # <<>> PROVE m \in 1..Len(asked)
    BY <1>1, <1>2, <2>1 DEF DeletionInv, ReadFirst
  <2>2. ASSUME NEW m \in Stream, NEW r \in Rows, Followed(m, r)' PROVE Followed(m, r)
    <3>1. CASE m = n
      BY <1>1, <1>3, <2>2, <3>1 DEF Followed, Deletes
    <3>2. CASE m # n
      BY <1>1, <1>2, <2>2, <3>2 DEF Followed, Deletes
    <3> QED
      BY <3>1, <3>2
  <2> QED
    BY <1>1, <1>5, <2>1, <2>2 DEF DeletionInv, ReadFirst
<1>7. LastWord'
  <2> SUFFICES ASSUME NEW m \in Stream, NEW r \in Rows, NEW i \in 1..Len(outbox'[m]),
                      Deletes(outbox'[m][i], r)
               PROVE  /\ events'[<<m, r>>] = <<>>
                      /\ \A j \in 1..Len(outbox'[m]) : j > i => ~Revives(outbox'[m][j], r)
    BY DEF LastWord, Deletes, Revives
  <2>1. CASE m # n
    BY <1>1, <1>2, <2>1 DEF DeletionInv, LastWord
  <2>2. CASE m = n
    <3>1. i + 1 \in 1..Len(outbox[n]) /\ Deletes(outbox[n][i + 1], r) /\ i \in Nat
      BY <1>3, <2>2
    <3>2. /\ events[<<n, r>>] = <<>>
          /\ \A j \in 1..Len(outbox[n]) : j > i + 1 => ~Revives(outbox[n][j], r)
      BY <3>1 DEF DeletionInv, LastWord
    <3>3. ASSUME NEW j \in 1..Len(outbox'[m]), j > i PROVE ~Revives(outbox'[m][j], r)
      <4>1. j + 1 \in 1..Len(outbox[n]) /\ outbox'[n][j] = outbox[n][j + 1] /\ j + 1 > i + 1
        BY <1>3, <2>2, <3>1, <3>3
      <4> QED
        BY <2>2, <3>2, <4>1
    <3> QED
      BY <1>1, <2>2, <3>2, <3>3
  <2> QED
    BY <2>1, <2>2
<1>8. Buried'
  <2>1. n \in 1..Len(asked) /\ asked # <<>>
    <3>1. n \in 1..Len(asked)
      BY <1>1 DEF DeletionInv, ReadFirst
    <3> QED
      BY <3>1, EmptySeq
  <2>2. ASSUME Len(asked) = 1, NEW r \in buried' PROVE AtRest(r)'
    <3>1. n = 1 /\ r \in Rows /\ 1 \in 1..Len(outbox[n])
      BY <1>2, <2>1, <2>2, ReplInv' DEF ReplInv, Ends
    <3>2. r \in buried => AtRest(r)
      BY <2>2 DEF DeletionInv, Buried
    <3>3. r \notin buried => n \in open /\ Deletes(batch, r)
      BY <1>1, <2>2 DEF Receive, Deletes
    <3>4. r \notin buried => Followed(n, r) /\ events[<<n, r>>] = <<>>
                             /\ \A j \in 1..Len(outbox[n]) : j > 1 => ~Revives(outbox[n][j], r)
      BY <1>2, <3>1, <3>3 DEF Followed, DeletionInv, LastWord
    <3>5. ~ToCome(1, r)' /\ events'[<<1, r>>] = <<>>
      BY <1>1, <1>5, <3>1, <3>2, <3>4 DEF AtRest, DeletionInv, ReadFirst
    <3>6. ASSUME NEW j \in 1..Len(outbox'[n]) PROVE ~Revives(outbox'[n][j], r)
      <4>1. j + 1 \in 1..Len(outbox[n]) /\ outbox'[n][j] = outbox[n][j + 1] /\ j + 1 > 1
        BY <1>3
      <4> QED
        BY <3>1, <3>2, <3>4, <4>1 DEF AtRest
    <3>7. replica'[r] = 0
      <4>1. CASE n \notin open
        BY <1>1, <3>2, <3>3, <4>1 DEF AtRest
      <4>2. CASE n \in open
        <5>1. replica' = Applied(batch.records)
          BY <1>1, <4>2 DEF Receive
        <5>2. ASSUME NEW x \in batch.records, x.row = r PROVE x.rev = 0
          <6>1. CASE r \in buried
            BY <1>2, <3>1, <3>2, <5>2, <6>1 DEF AtRest, Revives
          <6>2. CASE r \notin buried
            <7>1. PICK y \in batch.records : y.row = r /\ y.rev = 0
              BY <3>3, <6>2 DEF Deletes
            <7>2. OneEach(batch.records)
              BY <1>0, <1>1, HeadBatch DEF ReplInv
            <7> QED
              BY <5>2, <7>1, <7>2 DEF OneEach
          <6> QED
            BY <6>1, <6>2
        <5>3. CASE \E x \in batch.records : x.row = r
          <6>1. PICK z : z = CHOOSE x \in batch.records : x.row = r
            OBVIOUS
          <6>2. z \in batch.records /\ z.row = r
            BY <5>3, <6>1
          <6> QED
            BY <3>1, <5>1, <5>2, <5>3, <6>1, <6>2 DEF Applied
        <5>4. CASE ~ \E x \in batch.records : x.row = r
          <6>1. replica[r] = 0
            BY <3>2, <3>3, <5>4 DEF AtRest, Deletes
          <6> QED
            BY <3>1, <5>1, <5>4, <6>1 DEF Applied
        <5> QED
          BY <5>3, <5>4
      <4> QED
        BY <4>1, <4>2
    <3> QED
      BY <3>1, <3>5, <3>6, <3>7 DEF AtRest, Revives
  <2> QED
    BY <1>1, <2>1, <2>2 DEF Buried
<1> QED
  BY <1>4, <1>6, <1>7, <1>8 DEF DeletionInv

LEMMA StepKeepsDeletion ==
  ReplInv /\ MarkerInv /\ DeletionInv /\ [ReplNext]_replVars => DeletionInv'
<1> SUFFICES ASSUME ReplInv, MarkerInv, DeletionInv, [ReplNext]_replVars PROVE DeletionInv'
  OBVIOUS
<1>0. ReplInv'
  BY StepKeepsInv
<1>1. CASE \E r \in Rows : Write(r) \/ Remove(r)
  BY <1>0, <1>1, CommitKeepsDeletion
<1>2. CASE Connect \/ ReplicaCloses \/ (\E n \in Stream : CloseSync(n)) \/ UNCHANGED replVars
  BY <1>0, <1>2, GoingKeepsDeletion
<1>3. CASE SourceRestarts \/ SourceCloses
  BY <1>0, <1>3, GoingKeepsDeletion DEF SourceRestarts, SourceCloses
<1>4. CASE \E f \in Requests : OpenSync(f)
  BY <1>0, <1>4, OpenKeepsDeletion
<1>5. CASE ReceiveSubscribe
  BY <1>0, <1>5, ReceiveSubscribeKeepsDeletion
<1>6. CASE ReceiveClose
  BY <1>0, <1>6, ReceiveCloseKeepsDeletion
<1>7. CASE HandlerStep
  BY <1>0, <1>7, ScanKeepsDeletion, SendSnapshotKeepsDeletion, WatchKeepsDeletion,
     SendMarkerKeepsDeletion DEF HandlerStep
<1>8. CASE \E w \in Stream \X Rows : Forward(w)
  BY <1>0, <1>8, ForwardKeepsDeletion
<1>9. CASE \E n \in Stream : SocketSends(n)
  BY <1>0, <1>9, SocketSendsKeepsDeletion
<1> QED
  BY <1>1, <1>2, <1>3, <1>4, <1>5, <1>6, <1>7, <1>8, <1>9 DEF ReplNext

(***************************************************************************)
(* A row whose deletion a replica has applied stays deleted while it has   *)
(* subscribed once, for any rows, buffers and requests whose filters are   *)
(* apart, whatever is written, closed or cut off meanwhile.                *)
(***************************************************************************)
THEOREM DeletionsStay == ReplSpec => []DeletedStaysDeleted
<1>1. DeletionInv => DeletedStaysDeleted
  BY DEF DeletionInv, Buried, AtRest, DeletedStaysDeleted
<1> QED
  BY <1>1, ReplInvariant, MarkerInitially, StepKeepsMarker, DeletionInitially, StepKeepsDeletion, PTL
    DEF ReplSpec

-----------------------------------------------------------------------------
(* What liveness needs of every state: nobody waits for what will not come. *)

Closes(i, n) == requests[i].op = "close" /\ requests[i].stream = n

\* A subscription that is waiting for its marker is on its way, in hand or answered, or
\* its connection is gone at the other end.
Attended(n) ==
  \/ ~sourceEnd \/ Answered(n)
  \/ \E i \in 1..Len(requests) : Subscribes(i, n)

\* The source may still watch for a stream.
Serves(n) == n = handler.stream \/ \E r \in Rows : <<n, r>> \in watched

\* A stream that is gone at the replica is one whose close is on its way, behind its
\* subscription, or whose connection is gone at the replica as well.
Dismissed(n) ==
  \/ ~replicaEnd
  \/ /\ Serves(n) => \E i \in 1..Len(requests) : Closes(i, n)
     /\ \A i \in 1..Len(requests) : Subscribes(i, n) =>
          \E j \in 1..Len(requests) : j > i /\ Closes(j, n)

\* Nothing is left of a connection that ended, at either end.
EndsClean ==
  /\ ~replicaEnd => open = {}
  /\ ~sourceEnd => watched = {} /\ handler = Idle /\ requests = <<>>

StreamInv ==
  /\ EndsClean
  /\ \A n \in open : Attended(n)
  /\ \A n \in Stream \ open : Dismissed(n)

\* Steps that open or close nothing, and answer no request.
LEMMA StreamsStay ==
  ASSUME ReplInv, StreamInv, UNCHANGED <<sourceEnd, replicaEnd, open, requests>>,
         ~sourceEnd => watched' = watched /\ handler' = handler,
         \A n \in open : Answered(n) => Answered(n)',
         \A n \in Stream \ open : Serves(n)' => Serves(n)
  PROVE  StreamInv'
<1>1. EndsClean'
  BY DEF StreamInv, EndsClean
<1>2. \A n \in open' : Attended(n)'
  BY DEF StreamInv, Attended, Subscribes
<1>3. \A n \in Stream \ open' : Dismissed(n)'
  BY DEF StreamInv, Dismissed, Subscribes, Closes
<1> QED
  BY <1>1, <1>2, <1>3 DEF StreamInv

LEMMA CommitKeepsStreams ==
  ASSUME ReplInv, StreamInv, NEW r \in Rows, Write(r) \/ Remove(r)
  PROVE  StreamInv'
<1>1. UNCHANGED <<sourceEnd, replicaEnd, open, requests, watched, handler, notified, outbox>>
  BY DEF Write, Remove, Commit, replicaVars
<1> QED
  BY <1>1, StreamsStay DEF Answered, Serves

LEMMA HandlerKeepsStreams ==
  ASSUME ReplInv, StreamInv, HandlerStep
  PROVE  StreamInv'
<1>0. PICK k : k = handler.stream
  OBVIOUS
<1>1. /\ UNCHANGED <<sourceEnd, replicaEnd, open, requests, notified>>
      /\ handler.pc # "idle"
  BY DEF HandlerStep, Scan, SendSnapshot, Watch, SendMarker, replicaVars
<1>2. /\ handler \in Handler /\ handler # Idle /\ k \in Stream /\ sourceEnd
      /\ open \subseteq Stream
  BY <1>0, <1>1, HandlerAtWork, Numbers DEF StreamInv, EndsClean, ReplInv, Ends
<1>3. CASE SendMarker
  <2>1. handler' = Idle /\ watched' = watched /\ Put(k, {}, TRUE)
    BY <1>0, <1>3 DEF SendMarker
  <2>2. /\ \E i \in 1..Len(outbox'[k]) : outbox'[k][i].complete
        /\ \A n \in Stream : \A j \in 1..Len(outbox[n]) :
             j \in 1..Len(outbox'[n]) /\ outbox'[n][j] = outbox[n][j]
    <3>1. PICK u : u = [records |-> {}, complete |-> TRUE]
      OBVIOUS
    <3>2. outbox' = [outbox EXCEPT ![k] = Append(outbox[k], u)]
      BY <2>1, <3>1 DEF Put
    <3>3. u.complete
      BY <3>1
    <3>4. /\ Len(outbox'[k]) \in 1..Len(outbox'[k])
          /\ outbox'[k][Len(outbox'[k])] = u
          /\ \A n \in Stream : \A j \in 1..Len(outbox[n]) :
               j \in 1..Len(outbox'[n]) /\ outbox'[n][j] = outbox[n][j]
      BY <1>2, <3>2, JoinsLast
    <3> QED
      BY <3>3, <3>4
  <2>3. \A n \in open : Answered(n) => Answered(n)'
    BY <1>0, <1>1, <1>2, <2>2 DEF Answered
  <2>4. \A n \in Stream : Serves(n)' => Serves(n)
    BY <2>1 DEF Serves, Idle, Stream
  <2> QED
    BY <1>1, <1>2, <2>3, <2>4, StreamsStay
<1>4. CASE ~SendMarker
  <2>1. /\ handler'.stream = k
        /\ watched' = watched \/ \E r \in Rows : watched' = watched \cup {<<k, r>>}
        /\ outbox' = outbox \/ Put(k, handler.found, FALSE)
    <3>1. CASE \E r \in Rows : Scan(r)
      BY <1>0, <1>2, <3>1 DEF Scan, Handler
    <3>2. CASE SendSnapshot
      BY <1>0, <1>2, <3>2 DEF SendSnapshot, Handler
    <3>3. CASE \E r \in Rows : Watch(r)
      BY <1>0, <1>2, <3>3 DEF Watch, Handler
    <3> QED
      BY <1>4, <3>1, <3>2, <3>3 DEF HandlerStep
  <2>2. \A n \in Stream : \A j \in 1..Len(outbox[n]) :
          j \in 1..Len(outbox'[n]) /\ outbox'[n][j] = outbox[n][j]
    BY <1>2, <2>1, JoinsLast DEF Put
  <2>3. \A n \in open : Answered(n) => Answered(n)'
    BY <1>0, <1>1, <1>2, <2>1, <2>2 DEF Answered
  <2>4. \A n \in Stream : Serves(n)' => Serves(n)
    BY <1>0, <2>1 DEF Serves
  <2> QED
    BY <1>1, <1>2, <2>3, <2>4, StreamsStay
<1> QED
  BY <1>3, <1>4

LEMMA ForwardKeepsStreams ==
  ASSUME ReplInv, StreamInv, NEW w \in Stream \X Rows, Forward(w)
  PROVE  StreamInv'
<1>1. /\ UNCHANGED <<sourceEnd, replicaEnd, open, requests, notified, watched, handler>>
      /\ Put(w[1], {Head(events[w])}, FALSE) /\ w[1] \in Stream
  BY DEF Forward, replicaVars
<1>2. \A n \in Stream : \A j \in 1..Len(outbox[n]) :
        j \in 1..Len(outbox'[n]) /\ outbox'[n][j] = outbox[n][j]
  BY <1>1, JoinsLast DEF Put
<1>3. \A n \in open : Answered(n) => Answered(n)'
  BY <1>1, <1>2, Numbers DEF Answered, ReplInv, Ends
<1> QED
  BY <1>1, <1>3, StreamsStay DEF Serves

\* A marker that leaves its buffer is reported while its stream is open.
LEMMA SocketSendsKeepsStreams ==
  ASSUME ReplInv, StreamInv, NEW n \in Stream, SocketSends(n)
  PROVE  StreamInv'
<1>1. /\ UNCHANGED <<sourceEnd, replicaEnd, open, requests, watched, handler>>
      /\ outbox[n] # <<>> /\ outbox' = [outbox EXCEPT ![n] = Tail(outbox[n])]
      /\ notified \subseteq notified'
      /\ n \in open /\ Head(outbox[n]).complete => n \in notified'
  BY DEF SocketSends, Receive
<1>2. /\ \A i \in 1..Len(outbox[n]) : i # 1 =>
           i - 1 \in 1..Len(outbox'[n]) /\ outbox'[n][i - 1] = outbox[n][i]
      /\ Head(outbox[n]) = outbox[n][1]
      /\ \A m \in Stream : m # n => outbox'[m] = outbox[m]
  <2>1. outbox[n] \in Seq(Batches) /\ Len(outbox[n]) \in Nat
    BY Numbers
  <2>2. outbox'[n] = Tail(outbox[n]) /\ \A m \in Stream : m # n => outbox'[m] = outbox[m]
    BY <1>1 DEF ReplInv, InTransit
  <2>3. /\ Head(outbox[n]) = outbox[n][1] /\ Len(Tail(outbox[n])) = Len(outbox[n]) - 1
        /\ \A j \in 1..Len(Tail(outbox[n])) : Tail(outbox[n])[j] = outbox[n][j + 1]
    BY <1>1, <2>1, HeadTailProperties
  <2>4. \A i \in 1..Len(outbox[n]) : i # 1 => i - 1 \in 1..Len(outbox'[n]) /\ (i - 1) + 1 = i
    BY <2>1, <2>2, <2>3
  <2> QED
    BY <2>2, <2>3, <2>4
<1>3. ASSUME NEW m \in open, Answered(m) PROVE Answered(m)'
  <2>1. CASE m \in notified \/ m = handler.stream
    BY <1>1, <2>1 DEF Answered
  <2>2. ASSUME NEW i \in 1..Len(outbox[m]), outbox[m][i].complete PROVE Answered(m)'
    <3>1. CASE m # n
      BY <1>2, <2>2, <3>1, Numbers DEF Answered, ReplInv, Ends
    <3>2. CASE m = n /\ i = 1
      BY <1>1, <1>2, <2>2, <3>2 DEF Answered
    <3>3. CASE m = n /\ i # 1
      <4>1. i - 1 \in 1..Len(outbox'[n]) /\ outbox'[n][i - 1] = outbox[n][i]
        BY <1>2, <3>3
      <4> QED
        BY <2>2, <3>3, <4>1 DEF Answered
    <3> QED
      BY <3>1, <3>2, <3>3
  <2> QED
    BY <1>3, <2>1, <2>2 DEF Answered
<1> QED
  BY <1>1, <1>3, StreamsStay DEF Serves

\* Connections come up over nothing, and leave nothing.
LEMMA ConnectionKeepsStreams ==
  ASSUME ReplInv, StreamInv, Connect \/ DropResponders \/ ReplicaCloses
  PROVE  StreamInv'
<1>0. Len(<<>>) = 0 /\ \A n \in Stream : n # 0
  BY EmptySeq DEF Stream
<1>1. CASE Connect
  <2>1. /\ open' = {} /\ watched' = {} /\ handler' = Idle /\ requests' = <<>>
        /\ sourceEnd' = TRUE /\ replicaEnd' = TRUE
    BY <1>1 DEF Connect, sourceVars, replicaVars, StreamInv, EndsClean
  <2>2. \A n \in Stream : Dismissed(n)'
    BY <1>0, <2>1 DEF Dismissed, Serves, Idle
  <2> QED
    BY <2>1, <2>2 DEF StreamInv, EndsClean
<1>2. CASE DropResponders
  <2>1. /\ watched' = {} /\ handler' = Idle /\ requests' = <<>> /\ sourceEnd' = FALSE
        /\ replicaEnd' = replicaEnd /\ open' = open
    BY <1>2 DEF DropResponders, replicaVars
  <2>2. \A n \in Stream : Dismissed(n)'
    BY <1>0, <2>1 DEF Dismissed, Serves, Idle
  <2>3. EndsClean' /\ \A n \in open' : Attended(n)'
    BY <2>1 DEF StreamInv, EndsClean, Attended
  <2> QED
    BY <2>2, <2>3 DEF StreamInv
<1>3. CASE ReplicaCloses
  <2>1. /\ open' = {} /\ replicaEnd' = FALSE
        /\ UNCHANGED <<sourceEnd, watched, handler, requests>>
    BY <1>3 DEF ReplicaCloses, Forget, sourceVars
  <2> QED
    BY <2>1 DEF StreamInv, EndsClean, Dismissed
<1> QED
  BY <1>1, <1>2, <1>3

\* What is asked is on its way, or its connection is gone at the source.
LEMMA OpenKeepsStreams ==
  ASSUME ReplInv, StreamInv, NEW f \in Requests, OpenSync(f)
  PROVE  StreamInv'
<1>0. PICK k : k = Len(asked) + 1
  OBVIOUS
<1>1. /\ UNCHANGED <<sourceEnd, replicaEnd, watched, handler, outbox, notified>>
      /\ replicaEnd /\ open' = open \cup {k}
      /\ IF sourceEnd THEN requests' = Append(requests, [op |-> "subscribe", stream |-> k])
         ELSE requests' = requests
  BY <1>0 DEF OpenSync, sourceVars, Send
<1>2. CASE ~sourceEnd
  <2>1. EndsClean' /\ \A n \in open' : Attended(n)'
    BY <1>1, <1>2 DEF StreamInv, EndsClean, Attended
  <2>2. watched' = {} /\ handler' = Idle /\ requests' = <<>>
    BY <1>1, <1>2 DEF StreamInv, EndsClean
  <2>3. \A n \in Stream : Dismissed(n)'
    BY <2>2, EmptySeq DEF Dismissed, Serves, Idle, Stream
  <2> QED
    BY <2>1, <2>3 DEF StreamInv
<1>3. CASE sourceEnd
  <2>1. PICK q : q = [op |-> "subscribe", stream |-> k]
    OBVIOUS
  <2>2. /\ Len(requests) \in Nat /\ Len(requests') = Len(requests) + 1
        /\ requests'[Len(requests) + 1] = q
        /\ \A i \in 1..Len(requests) : i \in 1..Len(requests') /\ requests'[i] = requests[i]
        /\ \A i \in 1..Len(requests') : i \in 1..Len(requests) \/ i = Len(requests) + 1
    BY <1>1, <1>3, <2>1, Added
  <2>3. Len(requests) + 1 \in 1..Len(requests') /\ q.op = "subscribe" /\ q.stream = k
    BY <2>1, <2>2
  <2>4. Attended(k)'
    BY <2>2, <2>3 DEF Attended, Subscribes
  <2>5. \A n \in open : Attended(n)'
    BY <1>1, <2>2 DEF StreamInv, Attended, Answered, Subscribes
  <2>6. ASSUME NEW n \in Stream \ open, n # k PROVE Dismissed(n)'
    <3>1. /\ Serves(n) => \E i \in 1..Len(requests) : Closes(i, n)
          /\ \A i \in 1..Len(requests) : Subscribes(i, n) =>
               \E j \in 1..Len(requests) : j > i /\ Closes(j, n)
      BY <1>1 DEF StreamInv, Dismissed
    <3>2. \A i \in 1..Len(requests') : Subscribes(i, n)' =>
            i \in 1..Len(requests) /\ Subscribes(i, n)
      BY <2>2, <2>3, <2>6 DEF Subscribes
    <3>3. \A i \in 1..Len(requests) : Closes(i, n) => Closes(i, n)'
      BY <2>2 DEF Closes
    <3>4. Serves(n)' = Serves(n)
      BY <1>1 DEF Serves
    <3> QED
      BY <2>2, <3>1, <3>2, <3>3, <3>4 DEF Dismissed
  <2>7. EndsClean'
    BY <1>1, <1>3 DEF EndsClean
  <2> QED
    BY <1>1, <2>4, <2>5, <2>6, <2>7 DEF StreamInv
<1> QED
  BY <1>2, <1>3

\* A close goes behind the subscription of its stream.
LEMMA CloseKeepsStreams ==
  ASSUME ReplInv, StreamInv, NEW k \in Stream, CloseSync(k)
  PROVE  StreamInv'
<1>1. /\ UNCHANGED <<sourceEnd, replicaEnd, watched, handler, outbox>>
      /\ open' = open \ {k} /\ notified' = notified \ {k}
      /\ IF sourceEnd THEN requests' = Append(requests, [op |-> "close", stream |-> k])
         ELSE requests' = requests
  BY DEF CloseSync, Forget, sourceVars, Send
<1>2. EndsClean'
  BY <1>1 DEF StreamInv, EndsClean
<1>3. CASE ~sourceEnd
  <2>1. watched' = {} /\ handler' = Idle /\ requests' = <<>>
    BY <1>1, <1>3 DEF StreamInv, EndsClean
  <2>2. \A n \in Stream : Dismissed(n)'
    BY <2>1, EmptySeq DEF Dismissed, Serves, Idle, Stream
  <2> QED
    BY <1>1, <1>2, <1>3, <2>2 DEF StreamInv, Attended
<1>4. CASE sourceEnd
  <2>1. PICK q : q = [op |-> "close", stream |-> k]
    OBVIOUS
  <2>2. /\ Len(requests) \in Nat /\ Len(requests') = Len(requests) + 1
        /\ requests'[Len(requests) + 1] = q
        /\ \A i \in 1..Len(requests) : i \in 1..Len(requests') /\ requests'[i] = requests[i]
        /\ \A i \in 1..Len(requests') : i \in 1..Len(requests) \/ i = Len(requests) + 1
    BY <1>1, <1>4, <2>1, Added
  <2>3. /\ Len(requests) + 1 \in 1..Len(requests') /\ q.op = "close" /\ q.stream = k
        /\ \A i \in 1..Len(requests) : Len(requests) + 1 > i
    BY <2>1, <2>2
  <2>4. \A n \in open' : Attended(n)'
    BY <1>1, <2>2 DEF StreamInv, Attended, Answered, Subscribes
  <2>5. \A n \in Stream, i \in 1..Len(requests') : Subscribes(i, n)' =>
          i \in 1..Len(requests) /\ Subscribes(i, n)
    BY <2>2, <2>3 DEF Subscribes
  <2>6. Dismissed(k)'
    BY <2>2, <2>3, <2>5 DEF Dismissed, Closes
  <2>7. ASSUME NEW n \in Stream \ open PROVE Dismissed(n)'
    <3>1. \A i \in 1..Len(requests) : Closes(i, n) => Closes(i, n)'
      BY <2>2 DEF Closes
    <3>2. Serves(n)' = Serves(n)
      BY <1>1 DEF Serves
    <3>3. Dismissed(n)
      BY DEF StreamInv
    <3> QED
      BY <1>1, <2>2, <2>5, <3>1, <3>2, <3>3 DEF Dismissed
  <2> QED
    BY <1>1, <1>2, <2>4, <2>6, <2>7 DEF StreamInv
<1> QED
  BY <1>3, <1>4

\* A subscription is in hand when it is taken; a close that is taken is the last of its
\* stream, whose watches it ends.
LEMMA RequestsKeepStreams ==
  ASSUME ReplInv, StreamInv, ReceiveSubscribe \/ ReceiveClose
  PROVE  StreamInv'
<1>0. PICK k : k = Head(requests).stream
  OBVIOUS
<1>1. /\ UNCHANGED <<sourceEnd, replicaEnd, open, outbox, notified>> /\ sourceEnd /\ handler = Idle
      /\ requests # <<>> /\ requests' = Tail(requests)
  BY DEF ReceiveSubscribe, ReceiveClose, replicaVars
<1>2. /\ 1 \in 1..Len(requests) /\ requests[1] = Head(requests)
      /\ \A i \in 1..Len(requests') :
           i \in Nat /\ i + 1 \in 1..Len(requests) /\ requests'[i] = requests[i + 1]
      /\ \A i \in 1..Len(requests) : i = 1 \/
           (i - 1 \in 1..Len(requests') /\ requests'[i - 1] = requests[i])
  BY <1>1, Taken
<1>3. EndsClean'
  BY <1>1 DEF StreamInv, EndsClean
<1>4. \A n \in Stream : ~(n = 0) /\ n # handler.stream
  BY <1>1 DEF Stream, Idle
<1>5. ASSUME NEW n \in Stream, NEW i \in 1..Len(requests'), Subscribes(i, n)',
             \A a \in 1..Len(requests) : Subscribes(a, n) =>
               \E b \in 1..Len(requests) : b > a /\ Closes(b, n)
      PROVE  \E j \in 1..Len(requests') : j > i /\ Closes(j, n)'
  <2>1. i \in Nat /\ i + 1 \in 1..Len(requests) /\ Subscribes(i + 1, n)
    BY <1>2, <1>5 DEF Subscribes
  <2>2. PICK b \in 1..Len(requests) : b > i + 1 /\ Closes(b, n)
    BY <1>5, <2>1
  <2>3. b # 1 /\ b - 1 > i
    BY <2>1, <2>2
  <2>4. b - 1 \in 1..Len(requests') /\ requests'[b - 1] = requests[b]
    BY <1>2, <2>3
  <2> QED
    BY <2>2, <2>3, <2>4 DEF Closes
<1>6. CASE ReceiveSubscribe
  <2>1. handler'.stream = k /\ watched' = watched /\ requests[1].op = "subscribe"
    BY <1>0, <1>2, <1>6 DEF ReceiveSubscribe
  <2>2. ASSUME NEW n \in open PROVE Attended(n)'
    <3>1. CASE n = k
      BY <2>1, <3>1 DEF Attended, Answered
    <3>2. CASE n # k
      <4>1. ~Subscribes(1, n)
        BY <1>0, <1>2, <3>2 DEF Subscribes
      <4>2. \A i \in 1..Len(requests) : Subscribes(i, n) => i - 1 \in 1..Len(requests') /\ Subscribes(i - 1, n)'
        BY <1>2, <4>1 DEF Subscribes
      <4>3. Answered(n) => Answered(n)'
        BY <1>1, <1>4, Numbers DEF Answered, ReplInv, Ends
      <4>4. Attended(n)
        BY DEF StreamInv
      <4> QED
        BY <1>1, <4>2, <4>3, <4>4 DEF Attended
    <3> QED
      BY <3>1, <3>2
  <2>3. ASSUME NEW n \in Stream \ open, replicaEnd PROVE Dismissed(n)'
    <3>1. /\ Serves(n) => \E i \in 1..Len(requests) : Closes(i, n)
          /\ \A i \in 1..Len(requests) : Subscribes(i, n) =>
               \E j \in 1..Len(requests) : j > i /\ Closes(j, n)
      BY <2>3 DEF StreamInv, Dismissed
    <3>2. Serves(n)' => \E i \in 1..Len(requests) : Closes(i, n)
      <4>1. CASE n = k
        <5>1. Subscribes(1, n)
          BY <1>0, <1>2, <2>1, <4>1 DEF Subscribes
        <5> QED
          BY <1>2, <3>1, <5>1
      <4>2. CASE n # k
        BY <1>4, <2>1, <3>1, <4>2 DEF Serves
      <4> QED
        BY <4>1, <4>2
    <3>3. \A i \in 1..Len(requests) : Closes(i, n) => i - 1 \in 1..Len(requests') /\ Closes(i - 1, n)'
      BY <1>2, <2>1 DEF Closes
    <3>4. Serves(n)' => \E i \in 1..Len(requests') : Closes(i, n)'
      BY <3>2, <3>3
    <3>5. \A i \in 1..Len(requests') : Subscribes(i, n)' =>
            \E j \in 1..Len(requests') : j > i /\ Closes(j, n)'
      BY <1>5, <3>1
    <3> QED
      BY <3>4, <3>5 DEF Dismissed
  <2>4. \A n \in Stream \ open' : Dismissed(n)'
    BY <1>1, <2>3 DEF Dismissed
  <2> QED
    BY <1>1, <1>3, <2>2, <2>4 DEF StreamInv
<1>7. CASE ReceiveClose
  <2>1. /\ handler' = handler /\ watched' = {w \in watched : w[1] # k}
        /\ requests[1].op = "close"
    BY <1>0, <1>2, <1>7 DEF ReceiveClose
  <2>2. ASSUME NEW n \in open PROVE Attended(n)'
    <3>1. ~Subscribes(1, n)
      BY <2>1 DEF Subscribes
    <3>2. \A i \in 1..Len(requests) : Subscribes(i, n) => i - 1 \in 1..Len(requests') /\ Subscribes(i - 1, n)'
      BY <1>2, <3>1 DEF Subscribes
    <3>3. Answered(n) => Answered(n)'
      BY <1>1, <2>1 DEF Answered
    <3>4. Attended(n)
      BY DEF StreamInv
    <3> QED
      BY <1>1, <3>2, <3>3, <3>4 DEF Attended
  <2>3. ASSUME NEW n \in Stream \ open, replicaEnd PROVE Dismissed(n)'
    <3>1. /\ Serves(n) => \E i \in 1..Len(requests) : Closes(i, n)
          /\ \A i \in 1..Len(requests) : Subscribes(i, n) =>
               \E j \in 1..Len(requests) : j > i /\ Closes(j, n)
      BY <2>3 DEF StreamInv, Dismissed
    <3>2. Serves(n)' => n # k /\ Serves(n)
      BY <1>4, <2>1 DEF Serves
    <3>3. n # k => ~Closes(1, n)
      BY <1>0, <1>2 DEF Closes
    <3>4. \A i \in 1..Len(requests) : Closes(i, n) /\ i # 1 =>
            i - 1 \in 1..Len(requests') /\ Closes(i - 1, n)'
      BY <1>2 DEF Closes
    <3>5. Serves(n)' => \E i \in 1..Len(requests') : Closes(i, n)'
      BY <3>1, <3>2, <3>3, <3>4
    <3>6. \A i \in 1..Len(requests') : Subscribes(i, n)' =>
            \E j \in 1..Len(requests') : j > i /\ Closes(j, n)'
      BY <1>5, <3>1
    <3> QED
      BY <3>5, <3>6 DEF Dismissed
  <2>4. \A n \in Stream \ open' : Dismissed(n)'
    BY <1>1, <2>3 DEF Dismissed
  <2> QED
    BY <1>1, <1>3, <2>2, <2>4 DEF StreamInv
<1> QED
  BY <1>6, <1>7

LEMMA StepKeepsStreams == ReplInv /\ StreamInv /\ [ReplNext]_replVars => StreamInv'
<1> SUFFICES ASSUME ReplInv, StreamInv, [ReplNext]_replVars PROVE StreamInv'
  OBVIOUS
<1>1. CASE \E r \in Rows : Write(r) \/ Remove(r)
  BY <1>1, CommitKeepsStreams
<1>2. CASE Connect \/ SourceRestarts \/ SourceCloses \/ ReplicaCloses
  BY <1>2, ConnectionKeepsStreams DEF SourceRestarts, SourceCloses
<1>3. CASE \E f \in Requests : OpenSync(f)
  BY <1>3, OpenKeepsStreams
<1>4. CASE \E n \in Stream : CloseSync(n)
  BY <1>4, CloseKeepsStreams
<1>5. CASE ReceiveSubscribe \/ ReceiveClose
  BY <1>5, RequestsKeepStreams
<1>6. CASE HandlerStep
  BY <1>6, HandlerKeepsStreams
<1>7. CASE \E w \in Stream \X Rows : Forward(w)
  BY <1>7, ForwardKeepsStreams
<1>8. CASE \E n \in Stream : SocketSends(n)
  BY <1>8, SocketSendsKeepsStreams
<1>9. CASE UNCHANGED replVars
  <2>1. UNCHANGED <<sourceEnd, replicaEnd, open, requests, watched, handler, notified, outbox>>
    BY <1>9 DEF replVars, sourceVars, replicaVars
  <2> QED
    BY <2>1, StreamsStay DEF Answered, Serves
<1> QED
  BY <1>1, <1>2, <1>3, <1>4, <1>5, <1>6, <1>7, <1>8, <1>9 DEF ReplNext

LEMMA StreamInvariant == ReplSpec => []StreamInv
<1>1. ReplInit => StreamInv
  BY EmptySeq DEF ReplInit, StreamInv, EndsClean, Dismissed, Serves, Idle, Stream
<1> QED
  BY <1>1, ReplInvariant, StepKeepsStreams, PTL DEF ReplSpec

(***************************************************************************)
(* What SubscriptionsAreAnswered needs of every state: a stream that has   *)
(* not been told its snapshot is complete is asked for, in the handler's   *)
(* hand, or has its marker in its buffer, while the source's end is open.  *)
(* No interleaving of opening, closing and losing the connection makes the *)
(* source forget a stream that the replica waits for.                      *)
(***************************************************************************)
THEOREM SubscriptionsAreAttended ==
  ReplSpec => [](\A n \in open : n \notin notified /\ sourceEnd =>
    \/ \E i \in 1..Len(requests) : Subscribes(i, n)
    \/ handler.stream = n
    \/ \E i \in 1..Len(outbox[n]) : outbox[n][i].complete)
<1> DEFINE Waits == \A n \in open : n \notin notified /\ sourceEnd =>
                      \/ \E i \in 1..Len(requests) : Subscribes(i, n)
                      \/ handler.stream = n
                      \/ \E i \in 1..Len(outbox[n]) : outbox[n][i].complete
<1>1. StreamInv => Waits
  BY DEF StreamInv, Attended, Answered
<1> QED
  BY <1>1, StreamInvariant, PTL

(***************************************************************************)
(* What WatchesEnd needs of every state: a watch of a stream that the      *)
(* replica closed or lost has its Close on the way, or the replica's end   *)
(* of the connection is gone, which ends them all.                         *)
(***************************************************************************)
THEOREM WatchesAreDismissed ==
  ReplSpec => [](\A n \in Stream \ open, r \in Rows : <<n, r>> \in watched =>
    ~replicaEnd \/ \E i \in 1..Len(requests) : Closes(i, n))
<1> DEFINE Ending == \A n \in Stream \ open, r \in Rows : <<n, r>> \in watched =>
                       ~replicaEnd \/ \E i \in 1..Len(requests) : Closes(i, n)
<1>1. StreamInv => Ending
  BY DEF StreamInv, Dismissed, Serves
<1> QED
  BY <1>1, StreamInvariant, PTL
=============================================================================
