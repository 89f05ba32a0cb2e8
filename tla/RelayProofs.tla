----------------------------- MODULE RelayProofs -----------------------------
(***************************************************************************)
(* The relay, proved for any number of servers, clients and agents, any    *)
(* queue and every bound: its types, and that a message is never passed on *)
(* so often that MAX_HOPS drops it.                                        *)
(*                                                                         *)
(* The argument: a local server listens on one link only, the newest it    *)
(* dialed (OneLink), so that what came down it cannot go up it or another. *)
(* A message therefore goes up once at most, down once at most, and then   *)
(* only to the instance; where it waits bounds how often it was passed on  *)
(* (Placed).                                                               *)
(***************************************************************************)
EXTENDS Relay, SequenceTheorems, WellFoundedInduction, TLAPS

Dials == [from : Locals \cup Instances, to : Servers]
EndPoint == Conn \X (Servers \cup Instances)

\* The connections, and what the servers know of them.
Links ==
  /\ conns \in Seq(Dials) /\ Len(conns) <= MaxConns
  /\ \A k \in Dialed : From(k) \in Locals => To(k) = Global
  /\ ends \subseteq UNION {End(k) : k \in Dialed}
  /\ inbound \subseteq Dialed /\ watching \subseteq Link
  /\ upstream \in [Locals -> {NoConn} \cup Link]
  /\ \A l \in Locals : upstream[l] # NoConn => From(upstream[l]) = l
  /\ reachable \in [Instances -> {NoConn} \cup Link]
  /\ told \in [Conn -> {Unknown} \cup SUBSET Instances]

\* A local server has one link whose end runs, the one it uses.
OneLink == \A k \in Link : <<k, From(k)>> \in ends => upstream[From(k)] = k

\* The streams and what is noted of them.
Streams ==
  /\ streams \in Seq([conn : Dialed, dst : Agents])
  /\ \A n \in DOMAIN streams : From(streams[n].conn) \in Clients
  /\ asks \in Seq(DOMAIN streams) /\ Len(streams) <= Len(asks) /\ Len(asks) <= MaxAsks
  /\ took \in [Ask -> SUBSET Conn]
  /\ routes \in [Servers -> [Ask -> {NoConn} \cup Dialed]]
  /\ \A s \in Servers, n \in Ask : routes[s][n] # NoConn => <<routes[s][n], s>> \in End(routes[s][n])
  /\ got \subseteq DOMAIN asks

\* A message at the end x of a connection, or on its way to that end's queue: where
\* it is bounds how often it was passed on.
Placed(k, x, m) ==
  /\ k \in Dialed /\ m \in Message
  /\ m.op \in {"ask", "answer"} => m.ask \in DOMAIN asks
  /\ m.op = "advert" => x \in Locals /\ From(k) = x
  /\ m.op = "ask" => \/ x \in Clients /\ m.hops = 0
                     \/ x \in Locals /\ From(k) = x /\ m.hops <= 1
                     \/ x = Global /\ m.hops <= 2
                     \/ x \in Locals /\ From(k) \in Agents /\ m.hops <= 3

Sound(queues) ==
  /\ queues \in [EndPoint -> Seq(Message)]
  /\ \A e \in EndPoint : \A i \in DOMAIN queues[e] : Placed(e[1], e[2], queues[e][i])
  /\ \A e \in EndPoint : e[2] \notin Agents => Len(queues[e]) <= Capacity

Queues ==
  /\ Sound(outbox)
  /\ holding \in [EndPoint -> [msg : Message \cup {Silent}, via : {NoConn} \cup Conn]]
  /\ \A e \in EndPoint : holding[e] # Free => Placed(holding[e].via, e[2], holding[e].msg)

RelayInv == Links /\ OneLink /\ Streams /\ Queues

-----------------------------------------------------------------------------
(* Helpers.                                                                *)

\* Numbers have a least.
LEMMA LeastConn ==
  ASSUME NEW S \in SUBSET Conn, S # {}
  PROVE  Min(S) \in S
<1> DEFINE R == {p \in Nat \X Nat : p[1] < p[2]}
<1>1. OpToRel(<, Nat) = R
  BY DEF OpToRel
<1>2. IsWellFoundedOn(R, Nat)
  BY NatLessThanWellFounded, <1>1
<1>3. S \subseteq Nat
  BY RelayAssumption DEF Conn
<1>4. PICK x \in S : \A y \in S : <<y, x>> \notin R
  <2> HIDE DEF R
  <2> QED
    BY <1>2, <1>3, WFMin
<1>5. \A y \in S : x <= y
  <2> SUFFICES ASSUME NEW y \in S PROVE x <= y
    OBVIOUS
  <2>1. x \in Nat /\ y \in Nat
    BY <1>3
  <2>2. ~(y < x)
    BY <1>4, <2>1
  <2> QED
    BY <2>1, <2>2
<1> QED
  BY <1>5 DEF Min

\* The invariant has the types.
LEMMA InvHasTypes == RelayInv => RelayTypeOK
<1> SUFFICES ASSUME RelayInv PROVE RelayTypeOK
  OBVIOUS
<1> USE DEF RelayInv
<1>1. Dialed \subseteq Conn
  BY RelayAssumption DEF Links, Dialed, Conn
<1>2. \A k \in Link : told[k] = Unknown \/ told[k] \subseteq Instances
  BY <1>1 DEF Links, Link
<1>3. /\ ends \subseteq UNION {End(k) : k \in Dialed}
      /\ inbound \subseteq Dialed /\ watching \subseteq Link
      /\ upstream \in [Locals -> {NoConn} \cup Link]
      /\ reachable \in [Instances -> {NoConn} \cup Link]
  BY DEF Links
<1>4. /\ \A s \in Servers, n \in Ask : routes[s][n] # NoConn => <<routes[s][n], s>> \in End(routes[s][n])
      /\ got \subseteq DOMAIN asks
  BY DEF Streams
<1>5. \A e \in DOMAIN outbox : /\ e[2] \notin Agents => Len(outbox[e]) <= Capacity
                               /\ \A i \in DOMAIN outbox[e] : outbox[e][i] \in Message
  BY DEF Queues, Sound, Placed
<1>6. \A e \in DOMAIN holding : holding[e] = Free \/ holding[e].msg \in Message
  BY DEF Queues, Placed
<1> QED
  BY <1>1, <1>2, <1>3, <1>4, <1>5, <1>6 DEF RelayTypeOK

\* What is an end's is an end point; the two ends of a connection differ, and a local
\* server is at the far end of instances' connections only.
LEMMA EndsApart ==
  ASSUME Links, NEW k \in Dialed
  PROVE  /\ k \in Conn /\ conns[k] \in Dials
         /\ From(k) \in Locals \cup Instances /\ To(k) \in Servers
         /\ From(k) # To(k)
         /\ To(k) \in Locals => From(k) \in Instances
         /\ From(k) # Global
<1>1. k \in Conn /\ conns[k] \in Dials
  BY RelayAssumption DEF Links, Dialed, Conn
<1> QED
  BY <1>1, RelayAssumption DEF Links, From, To, Dials, Servers, Instances

\* An end that runs is one of a connection dialed.
LEMMA RunningEnds ==
  ASSUME Links, NEW k, NEW x, <<k, x>> \in ends
  PROVE  k \in Dialed /\ x \in {From(k), To(k)}
BY DEF Links, End

\* A message that is an ask, an answer or an advertisement.
LEMMA MessageKinds ==
  ASSUME NEW m \in Message
  PROVE  /\ m.op \in {"ask", "answer", "advert"}
         /\ m.op = "ask" => m.ask \in Ask /\ m.hops \in 0..MaxHops
         /\ m.op = "answer" => m.ask \in Ask
BY DEF Message, Asking, Answer, Advert

\* Passing a message on makes a message.
LEMMA PassedOn ==
  ASSUME NEW r \in Ask, NEW h \in 0..MaxHops
  PROVE  /\ Answer(r) \in Message /\ Answer(r).op = "answer" /\ Answer(r).ask = r
         /\ Asking(r, h) \in Message /\ Asking(r, h).op = "ask"
         /\ Asking(r, h).ask = r /\ Asking(r, h).hops = h
BY DEF Message, Asking, Answer

-----------------------------------------------------------------------------
(* The queues.                                                             *)

\* What is placed stays so while connections and messages are only added.
LEMMA PlacedStays ==
  ASSUME NEW k, NEW x, NEW m, Placed(k, x, m),
         DOMAIN conns \subseteq DOMAIN conns', \A j \in Dialed : conns'[j] = conns[j],
         DOMAIN asks \subseteq DOMAIN asks'
  PROVE  Placed(k, x, m)'
BY DEF Placed, Dialed, From

\* Queues stay sound when one of them changes to a sound one.
LEMMA QueuesChange ==
  ASSUME NEW Q, Sound(Q), NEW e \in EndPoint, NEW q \in Seq(Message),
         \A i \in DOMAIN q : Placed(e[1], e[2], q[i]),
         e[2] \notin Agents => Len(q) <= Capacity
  PROVE  Sound([Q EXCEPT ![e] = q])
<1> DEFINE P == [Q EXCEPT ![e] = q]
<1>1. Q \in [EndPoint -> Seq(Message)]
  BY DEF Sound
<1>2. \A f \in EndPoint : P[f] = IF f = e THEN q ELSE Q[f]
  BY <1>1
<1>3. P \in [EndPoint -> Seq(Message)]
  BY <1>1
<1> HIDE DEF P
<1>4. Sound(P)
  BY <1>2, <1>3 DEF Sound
<1> QED
  BY <1>4 DEF P

\* One more message in a queue.
LEMMA PlacedInQueue ==
  ASSUME NEW Q, Sound(Q), NEW e \in EndPoint, NEW m, Placed(e[1], e[2], m)
  PROVE  /\ Append(Q[e], m) \in Seq(Message) /\ Len(Append(Q[e], m)) = Len(Q[e]) + 1
         /\ \A i \in DOMAIN Append(Q[e], m) : Placed(e[1], e[2], Append(Q[e], m)[i])
<1> DEFINE q == Append(Q[e], m)
<1>1. Q[e] \in Seq(Message) /\ m \in Message
  BY DEF Sound, Placed
<1>2. q \in Seq(Message) /\ Len(q) = Len(Q[e]) + 1
      /\ \A i \in DOMAIN q : q[i] = IF i = Len(q) THEN m ELSE Q[e][i]
  BY <1>1
<1>3. \A i \in DOMAIN q : i = Len(q) \/ i \in DOMAIN Q[e]
  BY <1>1
<1>4. \A i \in DOMAIN Q[e] : Placed(e[1], e[2], Q[e][i])
  BY DEF Sound
<1> QED
  BY <1>2, <1>3, <1>4

\* One message less.
LEMMA PlacedAfterHead ==
  ASSUME NEW Q, Sound(Q), NEW e \in EndPoint, Q[e] # <<>>
  PROVE  /\ Placed(e[1], e[2], Head(Q[e]))
         /\ Tail(Q[e]) \in Seq(Message)
         /\ Len(Tail(Q[e])) = Len(Q[e]) - 1
         /\ \A i \in DOMAIN Tail(Q[e]) : Placed(e[1], e[2], Tail(Q[e])[i])
<1>1. Q[e] \in Seq(Message) /\ \A i \in DOMAIN Q[e] : Placed(e[1], e[2], Q[e][i])
  BY DEF Sound
<1>2. /\ Head(Q[e]) = Q[e][1] /\ 1 \in DOMAIN Q[e]
      /\ Tail(Q[e]) \in Seq(Message) /\ Len(Tail(Q[e])) = Len(Q[e]) - 1
      /\ \A i \in DOMAIN Tail(Q[e]) :
           i + 1 \in DOMAIN Q[e] /\ Tail(Q[e])[i] = Q[e][i + 1]
  BY <1>1, Q[e] # <<>>
<1> QED
  BY <1>1, <1>2

\* What is sound stays so while connections and messages are only added.
LEMMA SoundStays ==
  ASSUME NEW Q, Sound(Q),
         DOMAIN conns \subseteq DOMAIN conns', \A j \in Dialed : conns'[j] = conns[j],
         DOMAIN asks \subseteq DOMAIN asks'
  PROVE  Sound(Q)'
<1>1. \A e \in EndPoint : \A i \in DOMAIN Q[e] : Placed(e[1], e[2], Q[e][i])'
  BY PlacedStays DEF Sound
<1> QED
  BY <1>1 DEF Sound

-----------------------------------------------------------------------------
(* Connections.                                                            *)

LEMMA StartIsSound == RelayInit => RelayInv
<1> SUFFICES ASSUME RelayInit PROVE RelayInv
  OBVIOUS
<1>1. /\ conns \in Seq(Dials) /\ Len(conns) <= MaxConns
      /\ \A i, j \in Dialed : /\ From(i) \in Locals => To(i) = Global
                              /\ From(i) = From(j) => i = j
  BY RelayAssumption DEF RelayInit, Dials, Dialed, From, To
<1>2. upstream \in [Locals -> {NoConn} \cup Link]
      /\ \A l \in Locals : upstream[l] # NoConn => From(upstream[l]) = l
  <2>1. \A l \in Locals : (\E k \in Link : From(k) = l) =>
           (CHOOSE k \in Link : From(k) = l) \in Link /\ From(CHOOSE k \in Link : From(k) = l) = l
    OBVIOUS
  <2> QED
    BY <2>1 DEF RelayInit
<1>3. NoConn \notin Link
  BY <1>1 DEF Link, Dialed, NoConn
<1>4. OneLink
  <2> SUFFICES ASSUME NEW k \in Link PROVE upstream[From(k)] = k
    BY DEF OneLink
  <2>1. From(k) \in Locals /\ k \in Dialed
    BY DEF Link
  <2>2. upstream[From(k)] = CHOOSE j \in Link : From(j) = From(k)
    BY <2>1 DEF RelayInit
  <2>3. \A j \in Link : From(j) = From(k) => j = k
    BY <1>1, <2>1 DEF Link
  <2> QED
    BY <2>2, <2>3
<1>5. Links
  BY <1>1, <1>2 DEF RelayInit, Links, Unknown
<1>6. Streams
  BY RelayAssumption DEF RelayInit, Streams, Ask
<1>7. Queues
  <2>1. \A e \in EndPoint : outbox[e] = <<>> /\ holding[e] = Free
    BY DEF RelayInit, EndPoint
  <2>2. outbox \in [EndPoint -> Seq(Message)]
    BY DEF RelayInit, EndPoint
  <2>3. holding \in [EndPoint -> [msg : Message \cup {Silent}, via : {NoConn} \cup Conn]]
    BY DEF RelayInit, EndPoint, Free
  <2>4. Capacity \in Nat /\ Len(<<>>) = 0 /\ DOMAIN <<>> = {}
    BY RelayAssumption
  <2> QED
    BY <2>1, <2>2, <2>3, <2>4 DEF Queues, Sound
<1> QED
  BY <1>4, <1>5, <1>6, <1>7 DEF RelayInv

\* Queues stand if they and the streams are as they were, and connections are only added.
LEMMA QueuesStand ==
  ASSUME Queues, Sound(outbox'), UNCHANGED holding,
         DOMAIN conns \subseteq DOMAIN conns', \A j \in Dialed : conns'[j] = conns[j],
         DOMAIN asks \subseteq DOMAIN asks'
  PROVE  Queues'
<1>1. PICK Q : Q = outbox'
  OBVIOUS
<1>2. Sound(Q)'
  BY <1>1, SoundStays
<1>3. Sound(outbox)'
  BY <1>1, <1>2 DEF Sound, Placed
<1>4. \A e \in EndPoint : holding[e] # Free => Placed(holding[e].via, e[2], holding[e].msg)'
  BY PlacedStays DEF Queues
<1> QED
  BY <1>3, <1>4 DEF Queues, Placed, Dialed, From

\* Streams stand, likewise.
LEMMA StreamsStand ==
  ASSUME Streams, Links, UNCHANGED dataVars,
         DOMAIN conns \subseteq DOMAIN conns', \A j \in Dialed : conns'[j] = conns[j]
  PROVE  Streams'
<1>1. Dialed \subseteq Dialed' /\ \A j \in Dialed : From(j)' = From(j) /\ End(j)' = End(j)
  BY DEF Dialed, From, To, End
<1>2. streams \in Seq([conn : Dialed', dst : Agents])
  BY <1>1, SeqMonotonic, [conn : Dialed, dst : Agents] \subseteq [conn : Dialed', dst : Agents]
    DEF Streams
<1>3. \A n \in DOMAIN streams : streams[n].conn \in Dialed
  <2> SUFFICES ASSUME NEW n \in DOMAIN streams PROVE streams[n].conn \in Dialed
    OBVIOUS
  <2>1. streams \in Seq([conn : Dialed, dst : Agents]) /\ n \in 1..Len(streams)
    BY DEF Streams
  <2>2. streams[n] \in [conn : Dialed, dst : Agents]
    BY <2>1, ElementOfSeq
  <2> QED
    BY <2>2
<1>4. \A s \in Servers, n \in Ask : routes[s][n] # NoConn => routes[s][n] \in Dialed
  BY DEF Streams
<1>5. routes \in [Servers -> [Ask -> {NoConn} \cup Dialed']]
  BY <1>1 DEF Streams
<1> QED
  BY <1>1, <1>2, <1>3, <1>4, <1>5 DEF Streams, dataVars

\* A connection is dialed by who has none left.
LEMMA DialStands ==
  ASSUME RelayInv, NEW x \in Locals \cup Instances, NEW s \in Servers, Dial(x, s)
  PROVE  RelayInv'
<1> USE DEF RelayInv
<1>a. PICK k : k = Len(conns) + 1
  OBVIOUS
<1>1. /\ conns \in Seq(Dials) /\ [from |-> x, to |-> s] \in Dials
      /\ conns' = Append(conns, [from |-> x, to |-> s])
  BY DEF Links, Dial, Dials
<1>2. /\ conns' \in Seq(Dials) /\ Len(conns') = k
      /\ Dialed' = Dialed \cup {k} /\ k \notin Dialed /\ k # NoConn
      /\ \A j \in Dialed : conns'[j] = conns[j]
      /\ conns'[k] = [from |-> x, to |-> s]
  BY <1>a, <1>1 DEF Dialed, NoConn
<1>3. /\ \A j \in Dialed : From(j)' = From(j) /\ To(j)' = To(j) /\ End(j)' = End(j)
      /\ From(k)' = x /\ To(k)' = s /\ End(k)' = {<<k, x>>, <<k, s>>}
  BY <1>2 DEF From, To, End
<1>4. Link' = IF x \in Locals THEN Link \cup {k} ELSE Link
  BY <1>1, <1>2, <1>3 DEF Link, Dials
<1>5. Len(conns') <= MaxConns
  BY <1>a, <1>2, RelayAssumption DEF Dial, Conn
<1>6. \A j \in Dialed' : From(j)' \in Locals => To(j)' = Global
  BY <1>2, <1>3 DEF Links, Dial
<1>7. ends' \subseteq UNION {End(j)' : j \in Dialed'}
  <2> SUFFICES ASSUME NEW e \in ends' PROVE \E j \in Dialed' : e \in End(j)'
    OBVIOUS
  <2>1. CASE e \in ends
    BY <2>1, <1>2, <1>3 DEF Links
  <2>2. CASE e \in {<<k, x>>, <<k, s>>}
    BY <2>2, <1>2, <1>3
  <2> QED
    BY <1>a, <2>1, <2>2 DEF Dial
<1>8. inbound' \subseteq Dialed' /\ watching' \subseteq Link'
  BY <1>a, <1>2, <1>4 DEF Links, Dial
<1>9. /\ upstream' \in [Locals -> {NoConn} \cup Link']
      /\ (\A l \in Locals : upstream[l] # NoConn => From(upstream[l]) = l)'
  <2>1. \A l \in Locals : upstream[l] # NoConn => upstream[l] \in Dialed
    BY DEF Links, Link
  <2>2. CASE x \in Locals
    BY <1>a, <2>1, <2>2, <1>3, <1>4 DEF Links, Dial
  <2>3. CASE x \notin Locals
    BY <2>1, <2>3, <1>3, <1>4 DEF Links, Dial
  <2> QED
    BY <2>2, <2>3
<1>10. Links'
  BY <1>2, <1>4, <1>5, <1>6, <1>7, <1>8, <1>9 DEF Links, Dial
<1>11. OneLink'
  <2> SUFFICES ASSUME NEW j \in Link', <<j, From(j)'>> \in ends' PROVE upstream'[From(j)'] = j
    BY DEF OneLink
  <2>1. CASE j = k
    BY <1>a, <2>1, <1>3, <1>4, <1>2 DEF Dial, Links, Link
  <2>2. CASE j # k
    <3>1. j \in Link /\ From(j)' = From(j) /\ <<j, From(j)>> \in ends
      <4>1. j \in Link /\ Link \subseteq Dialed
        BY <2>2, <1>4 DEF Link
      <4>2. ends' = ends \cup {<<k, x>>, <<k, s>>}
        BY <1>a DEF Dial
      <4> QED
        BY <4>1, <4>2, <2>2, <1>3
    <3>2. upstream[From(j)] = j /\ From(j) \in Locals
      BY <3>1 DEF OneLink, Link
    <3>3. From(j) # x
      BY <3>1 DEF Dial, Link
    <3> QED
      BY <3>1, <3>2, <3>3 DEF Dial, Links
  <2> QED
    BY <2>1, <2>2
<1>12. Streams' /\ Queues'
  <2>1. Sound(outbox')
    BY DEF Dial, dataVars, Queues
  <2> QED
    BY <1>2, <2>1, StreamsStand, QueuesStand DEF Dial, dataVars, Dialed
<1> QED
  BY <1>10, <1>11, <1>12

\* What is unchanged with the connections.
LEMMA SameConns ==
  ASSUME UNCHANGED conns
  PROVE  /\ Dialed' = Dialed /\ Link' = Link
         /\ \A k \in Dialed : From(k)' = From(k) /\ To(k)' = To(k) /\ End(k)' = End(k)
BY DEF Dialed, Link, From, To, End

\* An end closes.
LEMMA CloseStands ==
  ASSUME RelayInv, NEW k \in Dialed, NEW x \in {From(k), To(k)}, Close(k, x)
  PROVE  RelayInv'
<1> USE DEF RelayInv
<1>1. UNCHANGED conns /\ ends' \subseteq ends
  BY DEF Close
<1>2. Links' /\ OneLink'
  BY <1>1, SameConns DEF Links, OneLink, Close, Link, Dialed, From, To, End
<1>3. Streams'
  BY <1>1 DEF Streams, Close, Dialed, From, To, End
<1>4. PICK e \in EndPoint : e = <<k, x>>
  BY EndsApart DEF EndPoint, Servers
<1>5. PICK q \in Seq(Message) : q = <<>> /\ Len(q) <= Capacity /\ DOMAIN q = {}
  <2>1. <<>> \in Seq(Message) /\ Len(<<>>) = 0 /\ DOMAIN <<>> = {} /\ 0 <= Capacity
    BY RelayAssumption
  <2> QED
    BY <2>1
<1>6. outbox' = [outbox EXCEPT ![e] = q]
  BY <1>4, <1>5 DEF Close
<1>7. Sound([outbox EXCEPT ![e] = q])
  BY <1>5, QueuesChange DEF Queues
<1>8. Sound(outbox')
  BY <1>6, <1>7
<1>9. Queues'
  BY <1>1, <1>8, QueuesStand DEF Close, Dialed
<1> QED
  BY <1>2, <1>3, <1>9

\* Routes that a withdrawal leaves are links.
LEMMA WithoutIsSound ==
  ASSUME Links, NEW peer
  PROVE  Without(peer) \in [Instances -> {NoConn} \cup Link]
BY DEF Links, Without

LEMMA UntrackStands ==
  ASSUME RelayInv, NEW k \in Dialed, Untrack(k)
  PROVE  RelayInv'
<1>1. UNCHANGED conns /\ UNCHANGED dataVars
  BY DEF Untrack
<1>2. Links' /\ OneLink'
  BY <1>1 DEF RelayInv, Links, OneLink, Untrack, Link, Dialed, From, To, End
<1>3. Streams' /\ Queues'
  <2>1. Sound(outbox')
    BY <1>1 DEF RelayInv, dataVars, Queues
  <2> QED
    BY <1>1, <2>1, StreamsStand, QueuesStand DEF RelayInv, dataVars, Dialed
<1> QED
  BY <1>2, <1>3 DEF RelayInv

LEMMA WithdrawStands ==
  ASSUME RelayInv, NEW k \in Dialed, Withdraw(k)
  PROVE  RelayInv'
<1>1. UNCHANGED conns /\ UNCHANGED dataVars
  BY DEF Withdraw
<1>2. reachable' \in [Instances -> {NoConn} \cup Link]
  BY WithoutIsSound DEF RelayInv, Withdraw
<1>3. Links' /\ OneLink'
  BY <1>1, <1>2 DEF RelayInv, Links, OneLink, Withdraw, Link, Dialed, From, To, End
<1>4. Streams' /\ Queues'
  <2>1. Sound(outbox')
    BY <1>1 DEF RelayInv, dataVars, Queues
  <2> QED
    BY <1>1, <2>1, StreamsStand, QueuesStand DEF RelayInv, dataVars, Dialed
<1> QED
  BY <1>3, <1>4 DEF RelayInv

-----------------------------------------------------------------------------
(* Messages that are sent.                                                 *)

\* Room taken by one more message.
LEMMA PutIsSound ==
  ASSUME Sound(outbox), NEW e \in EndPoint, NEW m, Placed(e[1], e[2], m), HasRoom(e), Put(e, m)
  PROVE  Sound(outbox')
<1>1. PICK q \in Seq(Message) : /\ q = Append(outbox[e], m) /\ Len(q) = Len(outbox[e]) + 1
                                /\ \A i \in DOMAIN q : Placed(e[1], e[2], q[i])
  BY PlacedInQueue
<1>2. Len(q) <= Capacity
  <2>1. Len(outbox[e]) \in Nat
    BY DEF Sound
  <2> QED
    BY <1>1, <2>1, RelayAssumption DEF HasRoom
<1>3. Sound([outbox EXCEPT ![e] = q])
  BY <1>1, <1>2, QueuesChange
<1>4. outbox' = [outbox EXCEPT ![e] = q]
  BY <1>1 DEF Put
<1> QED
  BY <1>3, <1>4

LEMMA AdvertiseStands ==
  ASSUME RelayInv, NEW l \in Locals, Advertise(l)
  PROVE  RelayInv'
<1> USE DEF RelayInv
<1>1. PICK k : k = upstream[l]
  OBVIOUS
<1>2. k \in Link /\ k \in Dialed /\ From(k) = l /\ k \in Conn
  <2>1. k \in Link /\ From(k) = l
    BY <1>1 DEF Advertise, Links
  <2> QED
    BY <2>1, EndsApart DEF Link
<1>3. Attached(l) \subseteq Instances
  <2> SUFFICES ASSUME NEW j \in inbound, To(j) = l PROVE From(j) \in Instances
    BY DEF Attached
  <2> QED
    BY EndsApart DEF Links
<1>4. PICK m : m = Advert(Attached(l))
  OBVIOUS
<1>5. m \in Message /\ m.op = "advert"
  BY <1>3, <1>4 DEF Message, Advert
<1>6. PICK e \in EndPoint : e = <<k, l>>
  BY <1>2 DEF EndPoint, Servers
<1>7. Placed(e[1], e[2], m)
  BY <1>2, <1>5, <1>6 DEF Placed
<1>8. Sound(outbox')
  BY <1>1, <1>4, <1>6, <1>7, PutIsSound DEF Advertise, Queues
<1>9. told' \in [Conn -> {Unknown} \cup SUBSET Instances]
  BY <1>3 DEF Links, Advertise
<1>10. Links' /\ OneLink'
  BY <1>9 DEF Links, OneLink, Advertise, Link, Dialed, From, To, End
<1>11. Streams'
  BY DEF Streams, Advertise, Dialed, From, To, End
<1>12. Queues'
  BY <1>8, QueuesStand DEF Advertise, Dialed
<1> QED
  BY <1>10, <1>11, <1>12

\* A message a client sends.
LEMMA SendStands ==
  ASSUME RelayInv, NEW k \in Dialed, From(k) \in Clients, NEW r \in Ask,
         r = Len(asks) + 1, NEW n \in DOMAIN streams', asks' = Append(asks, n),
         streams' \in Seq([conn : Dialed, dst : Agents]),
         \A i \in DOMAIN streams' : From(streams'[i].conn) \in Clients,
         Len(streams') <= r, DOMAIN streams \subseteq DOMAIN streams',
         HasRoom(<<k, From(k)>>), Put(<<k, From(k)>>, Asking(r, 0)),
         took' = [took EXCEPT ![r] = {k}],
         UNCHANGED <<linkVars, routes, holding, got>>
  PROVE  RelayInv'
<1> USE DEF RelayInv
<1>1. UNCHANGED conns /\ k \in Conn
  BY EndsApart DEF linkVars
<1>2. /\ asks \in Seq(DOMAIN streams') /\ asks' \in Seq(DOMAIN streams')
      /\ Len(asks') = r /\ DOMAIN asks' = DOMAIN asks \cup {r}
  <2>1. asks \in Seq(DOMAIN streams')
    BY SeqMonotonic DEF Streams
  <2> QED
    BY <2>1
<1>3. Links' /\ OneLink'
  BY DEF linkVars, Links, OneLink, Link, Dialed, From, To, End
<1>4. took' \in [Ask -> SUBSET Conn]
  BY <1>1 DEF Streams
<1>5. Streams'
  <2>1. r <= MaxAsks
    BY RelayAssumption DEF Ask
  <2>2. got' \subseteq DOMAIN asks'
    BY <1>2 DEF Streams
  <2>3. routes \in [Servers -> [Ask -> {NoConn} \cup Dialed]]
        /\ \A s \in Servers, i \in Ask : routes[s][i] # NoConn => <<routes[s][i], s>> \in End(routes[s][i])
    BY DEF Streams
  <2> QED
    BY <1>1, <1>2, <1>4, <2>1, <2>2, <2>3, SameConns DEF Streams, Dialed, From, To, End
<1>6. PICK m : m = Asking(r, 0)
  OBVIOUS
<1>7. m \in Message /\ m.op = "ask" /\ m.ask = r /\ m.hops = 0
  BY <1>6, PassedOn, RelayAssumption
<1>8. PICK e \in EndPoint : e = <<k, From(k)>>
  BY <1>1 DEF EndPoint, Instances
<1>9. PICK Q : Q = outbox
  OBVIOUS
<1>10. Sound(Q)'
  BY <1>1, <1>2, <1>9, SoundStays DEF Queues, Dialed
<1>11. Placed(e[1], e[2], m)'
  BY <1>1, <1>2, <1>7, <1>8, SameConns DEF Placed
<1>12. Sound(outbox)'
  <2>1. PICK q : q = Append(Q[e], m)
    OBVIOUS
  <2>2. Q \in [EndPoint -> Seq(Message)] /\ m \in Message
    BY <1>7, <1>9 DEF Queues, Sound
  <2>3. /\ q \in Seq(Message) /\ Len(q) = Len(Q[e]) + 1
        /\ \A i \in DOMAIN q : (i \in DOMAIN Q[e] /\ q[i] = Q[e][i]) \/ q[i] = m
    BY <2>1, <2>2
  <2>4. outbox' = [Q EXCEPT ![e] = q]
    BY <1>6, <1>8, <1>9, <2>1 DEF Put
  <2>5. Len(q) <= Capacity
    BY <2>2, <2>3, <1>8, <1>9, RelayAssumption DEF HasRoom
  <2>6. outbox' \in [EndPoint -> Seq(Message)] /\ \A f \in EndPoint : outbox'[f] = IF f = e THEN q ELSE Q[f]
    BY <2>2, <2>3, <2>4
  <2>7. \A f \in EndPoint : \A i \in DOMAIN Q[f] : Placed(f[1], f[2], Q[f][i])'
    BY <1>10 DEF Sound
  <2>8. \A f \in EndPoint : f[2] \notin Agents => Len(Q[f]) <= Capacity
    BY <1>10 DEF Sound
  <2>9. \A f \in EndPoint : \A i \in DOMAIN outbox'[f] : Placed(f[1], f[2], outbox[f][i])'
    BY <1>11, <2>3, <2>6, <2>7
  <2> QED
    BY <2>5, <2>6, <2>8, <2>9 DEF Sound
<1>13. \A f \in EndPoint : holding[f] # Free => Placed(holding[f].via, f[2], holding[f].msg)'
  BY <1>1, <1>2, PlacedStays DEF Queues, Dialed
<1>14. Queues'
  BY <1>12, <1>13 DEF Queues, Placed, Dialed, From
<1> QED
  BY <1>3, <1>5, <1>14

LEMMA OpenStands ==
  ASSUME RelayInv, NEW c \in Clients, NEW a \in Agents, Open(c, a)
  PROVE  RelayInv'
<1>1. PICK r, n : r = Len(asks) + 1 /\ n = Len(streams) + 1
  OBVIOUS
<1>2. PICK k \in Dialed :
        /\ From(k) = c /\ <<k, c>> \in ends /\ HasRoom(<<k, c>>)
        /\ streams' = Append(streams, [conn |-> k, dst |-> a])
        /\ asks' = Append(asks, n)
        /\ took' = [took EXCEPT ![r] = {k}]
        /\ Put(<<k, c>>, Asking(r, 0))
  BY <1>1 DEF Open
<1>3. r \in Ask /\ UNCHANGED <<linkVars, routes, holding, got>>
  BY <1>1 DEF Open
<1>4. /\ streams \in Seq([conn : Dialed, dst : Agents]) /\ Len(streams) <= Len(asks)
      /\ \A i \in DOMAIN streams : From(streams[i].conn) \in Clients
      /\ Len(asks) \in Nat
  BY DEF RelayInv, Streams
<1>5. /\ streams' \in Seq([conn : Dialed, dst : Agents]) /\ Len(streams') = n
      /\ DOMAIN streams' = DOMAIN streams \cup {n}
      /\ \A i \in DOMAIN streams' : streams'[i] = IF i = n THEN [conn |-> k, dst |-> a] ELSE streams[i]
  <2>1. [conn |-> k, dst |-> a] \in [conn : Dialed, dst : Agents]
    OBVIOUS
  <2> QED
    BY <1>1, <1>2, <1>4, <2>1
<1>6. \A i \in DOMAIN streams' : From(streams'[i].conn) \in Clients
  <2> SUFFICES ASSUME NEW i \in DOMAIN streams' PROVE From(streams'[i].conn) \in Clients
    OBVIOUS
  <2>1. CASE i = n
    BY <1>2, <1>5, <2>1
  <2>2. CASE i # n
    BY <1>4, <1>5, <2>2
  <2> QED
    BY <2>1, <2>2
<1>7. Len(streams') <= r
  BY <1>1, <1>4, <1>5
<1> QED
  BY <1>1, <1>2, <1>3, <1>5, <1>6, <1>7, SendStands

LEMMA AskAgainStands ==
  ASSUME RelayInv, NEW n \in DOMAIN streams, AskAgain(n)
  PROVE  RelayInv'
<1>1. PICK r, k : r = Len(asks) + 1 /\ k = streams[n].conn
  OBVIOUS
<1>2. /\ streams \in Seq([conn : Dialed, dst : Agents]) /\ Len(streams) <= Len(asks)
      /\ \A i \in DOMAIN streams : From(streams[i].conn) \in Clients
      /\ Len(asks) \in Nat
  BY DEF RelayInv, Streams
<1>3. k \in Dialed /\ From(k) \in Clients
  <2>1. streams[n] \in [conn : Dialed, dst : Agents]
    <3>1. n \in 1..Len(streams)
      BY <1>2
    <3> QED
      BY <1>2, <3>1, ElementOfSeq
  <2> QED
    BY <1>1, <1>2, <2>1
<1>4. /\ r \in Ask /\ HasRoom(<<k, From(k)>>) /\ Put(<<k, From(k)>>, Asking(r, 0))
      /\ asks' = Append(asks, n) /\ took' = [took EXCEPT ![r] = {k}] /\ streams' = streams
      /\ UNCHANGED <<linkVars, routes, holding, got>>
  BY <1>1 DEF AskAgain
<1>5. Len(streams) <= r
  BY <1>1, <1>2
<1> QED
  BY <1>1, <1>2, <1>3, <1>4, <1>5, SendStands

-----------------------------------------------------------------------------
(* Messages that are handed on.                                            *)

\* The message in hand is where it goes to already.
LEMMA HandOnStands ==
  ASSUME RelayInv, NEW k \in Dialed, NEW s \in {From(k), To(k)}, HandOn(k, s)
  PROVE  RelayInv'
<1> USE DEF RelayInv
<1>1. PICK here \in EndPoint : here = <<k, s>>
  BY EndsApart DEF EndPoint, Servers
<1>2. PICK h : h = holding[here] /\ h # Free
  BY <1>1 DEF HandOn
<1>3. Placed(h.via, s, h.msg)
  BY <1>1, <1>2 DEF Queues
<1>4. h.via \in Conn
  BY <1>3, EndsApart DEF Placed
<1>5. PICK e \in EndPoint : e = <<h.via, s>>
  BY <1>1, <1>4 DEF EndPoint
<1>6. Sound(outbox')
  <2>1. CASE e \in ends
    <3>1. HasRoom(e) /\ Put(e, h.msg) /\ Placed(e[1], e[2], h.msg)
      BY <1>1, <1>2, <1>3, <1>5, <2>1 DEF HandOn
    <3> QED
      BY <3>1, PutIsSound DEF Queues
  <2>2. CASE e \notin ends
    BY <1>1, <1>2, <1>5, <2>2 DEF HandOn, Queues
  <2> QED
    BY <2>1, <2>2
<1>7. UNCHANGED conns /\ UNCHANGED asks
  BY DEF HandOn, linkVars
<1>8. /\ holding' \in [EndPoint -> [msg : Message \cup {Silent}, via : {NoConn} \cup Conn]]
      /\ \A f \in EndPoint : holding'[f] = IF f = here THEN Free ELSE holding[f]
  <2>1. Free \in [msg : Message \cup {Silent}, via : {NoConn} \cup Conn]
    BY DEF Free
  <2> QED
    BY <1>1, <2>1 DEF Queues, HandOn
<1>9. Queues'
  <2>1. PICK Q : Q = outbox'
    OBVIOUS
  <2>2. Sound(Q)'
    BY <1>6, <1>7, <2>1, SoundStays
  <2>3. Sound(outbox)'
    BY <2>1, <2>2 DEF Sound, Placed
  <2>4. \A f \in EndPoint : holding'[f] # Free => Placed(holding'[f].via, f[2], holding'[f].msg)
    BY <1>8 DEF Queues
  <2>5. (\A f \in EndPoint : holding[f] # Free => Placed(holding[f].via, f[2], holding[f].msg))'
    BY <1>7, <2>4 DEF Placed, Dialed, From
  <2> QED
    BY <1>8, <2>3, <2>5 DEF Queues
<1>10. Links' /\ OneLink' /\ Streams'
  BY DEF HandOn, linkVars, Links, OneLink, Streams, Link, Dialed, From, To, End
<1> QED
  BY <1>9, <1>10

\* The ways on: to the instance, from the global server, or up.
Leads(j, s, a, k) ==
  /\ j \in Dialed /\ j # k /\ <<j, s>> \in End(j)
  /\ \/ To(j) = s /\ From(j) = a
     \/ s = Global
     \/ s \in Locals /\ j = upstream[s] /\ From(j) = s

LEMMA NextHops ==
  ASSUME Links, NEW s \in Servers, NEW a \in Agents, NEW k \in Dialed, NextHop(s, a, k) # NoConn
  PROVE  Leads(NextHop(s, a, k), s, a, k)
<1> PICK j : j = NextHop(s, a, k)
  OBVIOUS
<1> SUFFICES Leads(j, s, a, k)
  OBVIOUS
<1> USE DEF Leads
<1> DEFINE direct == {i \in inbound \ {k} : To(i) = s /\ From(i) = a}
<1>1. inbound \subseteq Dialed /\ Dialed \subseteq Conn
  BY EndsApart DEF Links
<1>2. a \in Instances
  BY DEF Instances
<1>3. CASE direct # {}
  <2>1. Min(direct) \in direct
    <3>1. direct \in SUBSET Conn
      BY <1>1
    <3> HIDE DEF direct
    <3> QED
      BY <1>3, <3>1, LeastConn
  <2>2. j = Min(direct)
    BY <1>3 DEF NextHop
  <2> QED
    BY <1>1, <2>1, <2>2 DEF End
<1>4. CASE direct = {} /\ s = Global /\ reachable[a] \in inbound \ {k}
  <2>1. j = reachable[a]
    BY <1>4, RelayAssumption DEF NextHop
  <2>2. j \in Link /\ j # k
    BY <2>1, <1>2, <1>4 DEF Links
  <2> QED
    BY <2>2, <1>4 DEF Links, Link, End
<1>5. CASE direct = {} /\ s \in Locals /\ upstream[s] # k /\ <<upstream[s], s>> \in ends
  <2>1. s # Global
    BY <1>5, RelayAssumption
  <2>2. j = upstream[s]
    BY <2>1, <1>5 DEF NextHop
  <2>3. j \in Link /\ From(j) = s
    BY <2>2, <1>5 DEF Links
  <2> QED
    BY <2>2, <2>3, <1>5 DEF Link, End
<1>6. QED
  BY <1>3, <1>4, <1>5 DEF NextHop

\* Where a message goes next it has been passed on as often as its place allows.
LEMMA NextIsPlaced ==
  ASSUME Links, OneLink, NEW k \in Dialed, NEW x \in Servers, NEW y \in {From(k), To(k)},
         x \in {From(k), To(k)}, x # y, <<k, x>> \in ends,
         NEW m, Placed(k, y, m), m.op = "ask", m.hops < MaxHops,
         NEW j \in Dialed, j # k,
         \/ To(j) = x /\ From(j) \in Agents
         \/ x = Global
         \/ x \in Locals /\ j = upstream[x] /\ From(j) = x
  PROVE  Placed(j, x, Asking(m.ask, m.hops + 1))
<1>1. m \in Message /\ m.ask \in Ask /\ m.hops \in 0..MaxHops /\ m.ask \in DOMAIN asks
  BY MessageKinds DEF Placed
<1>2. m.hops + 1 \in 0..MaxHops
  BY <1>1, RelayAssumption
<1>3. PICK n : n = Asking(m.ask, m.hops + 1)
  OBVIOUS
<1>4. n \in Message /\ n.op = "ask" /\ n.ask = m.ask /\ n.hops = m.hops + 1
  BY <1>1, <1>2, <1>3, PassedOn
<1>5. From(k) \in Locals \cup Instances /\ To(k) \in Servers /\ From(k) # Global
      /\ (From(k) \in Locals => To(k) = Global)
  BY EndsApart DEF Links
<1>6. CASE x = Global
  <2>1. y = From(k)
    BY <1>5, <1>6
  <2>2. m.hops <= 1
    BY <2>1, <1>1, <1>5, <1>6, RelayAssumption DEF Placed, Instances
  <2> QED
    BY <1>1, <1>3, <1>4, <1>6, <2>2 DEF Placed
<1>7. CASE x \in Locals /\ x = To(k)
  <2>1. y = From(k) /\ From(k) \in Instances
    BY <1>5, <1>7, RelayAssumption
  <2>2. m.hops = 0
    BY <2>1, <1>1, <1>5, RelayAssumption DEF Placed, Instances
  <2> QED
    BY <1>1, <1>3, <1>4, <1>7, <2>2, RelayAssumption DEF Placed
<1>8. CASE x \in Locals /\ x = From(k)
  <2>1. y = Global /\ m.hops <= 2
    BY <1>1, <1>5, <1>8, RelayAssumption DEF Placed, Instances
  <2>2. upstream[x] = k
    BY <1>8 DEF OneLink, Link
  <2>3. To(j) = x /\ From(j) \in Agents
    BY <1>8, <2>2, RelayAssumption
  <2> QED
    BY <1>1, <1>3, <1>4, <1>8, <2>1, <2>3 DEF Placed
<1> QED
  BY <1>6, <1>7, <1>8 DEF Servers

\* The other end, and the message that is read.
Other(k, x) == IF x = From(k) THEN To(k) ELSE From(k)
Read(k, x)  == Head(outbox[<<k, Other(k, x)>>])

\* A task reads a message: what the queues then hold.
LEMMA ReceivedIsSound ==
  ASSUME RelayInv, NEW k \in Dialed, NEW x \in {From(k), To(k)}, Receive(k, x)
  PROVE  Placed(k, Other(k, x), Read(k, x)) /\ Sound(outbox')
<1>1. PICK y, m : y = Other(k, x) /\ m = Read(k, x)
  OBVIOUS
<1>2. PICK rest : rest = [outbox EXCEPT ![<<k, y>>] = Tail(@)]
  OBVIOUS
<1>3. y \in {From(k), To(k)} /\ x # y
  BY <1>1, EndsApart DEF RelayInv, Other
<1>4. /\ m = Head(outbox[<<k, y>>]) /\ outbox[<<k, y>>] # <<>>
      /\ outbox' = IF x \in Agents /\ m.op = "ask"
                     THEN [rest EXCEPT ![<<k, x>>] = Append(@, Answer(m.ask))] ELSE rest
  BY <1>1, <1>2 DEF Receive, Read, Other
<1>5. PICK ex, ey \in EndPoint : ex = <<k, x>> /\ ey = <<k, y>>
  BY <1>3, EndsApart DEF RelayInv, EndPoint, Servers
<1>6. Sound(outbox)
  BY DEF RelayInv, Queues
<1>7. Placed(k, y, m)
  BY <1>5, <1>6, <1>4, PlacedAfterHead
<1>8. PICK q \in Seq(Message) : /\ q = Tail(outbox[ey]) /\ Len(q) = Len(outbox[ey]) - 1
                                /\ \A i \in DOMAIN q : Placed(ey[1], ey[2], q[i])
  BY <1>5, <1>6, <1>4, PlacedAfterHead
<1>9. ey[2] \notin Agents => Len(q) <= Capacity
  <2>1. Len(outbox[ey]) \in Nat /\ (ey[2] \notin Agents => Len(outbox[ey]) <= Capacity)
    BY <1>6 DEF Sound
  <2> QED
    BY <1>8, <2>1, RelayAssumption
<1>10. Sound(rest)
  <2>1. Sound([outbox EXCEPT ![ey] = q])
    BY <1>6, <1>8, <1>9, QueuesChange
  <2> QED
    BY <1>5, <1>8, <1>2, <2>1
<1>11. CASE x \in Agents /\ m.op = "ask"
  <2>1. PICK n : n = Answer(m.ask)
    OBVIOUS
  <2>2. m.ask \in Ask /\ m.ask \in DOMAIN asks
    BY <1>7, <1>11, MessageKinds DEF Placed
  <2>3. n \in Message /\ n.op = "answer" /\ n.ask = m.ask
    BY <2>1, <2>2 DEF Message, Answer
  <2>4. Placed(ex[1], ex[2], n)
    BY <1>5, <2>2, <2>3 DEF Placed
  <2>5. PICK p \in Seq(Message) : /\ p = Append(rest[ex], n)
                                  /\ \A i \in DOMAIN p : Placed(ex[1], ex[2], p[i])
    BY <1>10, <2>4, PlacedInQueue
  <2>6. Sound([rest EXCEPT ![ex] = p])
    BY <1>5, <1>10, <1>11, <2>5, QueuesChange
  <2> QED
    BY <1>5, <1>7, <1>11, <1>1, <1>4, <2>1, <2>5, <2>6
<1>12. CASE ~(x \in Agents /\ m.op = "ask")
  BY <1>7, <1>10, <1>12, <1>1, <1>4
<1> QED
  BY <1>11, <1>12

\* What the task that has read a message does with it: the message it has to hand on
\* is placed where it goes, and so are the notes of the way back.
LEMMA RoutedIsSound ==
  ASSUME RelayInv, NEW k \in Dialed, NEW x \in {From(k), To(k)}, NEW y \in {From(k), To(k)}, x # y,
         <<k, x>> \in ends, NEW m, Placed(k, y, m),
         \/ x \in Servers /\ m.op = "ask" /\ RouteAsk(x, k, m)
         \/ x \in Servers /\ m.op = "answer" /\ RouteAnswer(x, k, m)
  PROVE  /\ UNCHANGED <<reachable, got>>
         /\ took' \in [Ask -> SUBSET Conn]
         /\ routes' \in [Servers -> [Ask -> {NoConn} \cup Dialed]]
         /\ \A s \in Servers, n \in Ask : routes'[s][n] # NoConn => <<routes'[s][n], s>> \in End(routes'[s][n])
         /\ holding' \in [EndPoint -> [msg : Message \cup {Silent}, via : {NoConn} \cup Conn]]
         /\ \A f \in EndPoint : holding'[f] # Free => Placed(holding'[f].via, f[2], holding'[f].msg)
<1> USE DEF RelayInv
<1>1. m \in Message /\ m.ask \in Ask /\ m.ask \in DOMAIN asks
  BY MessageKinds DEF Placed
<1>2. PICK here \in EndPoint : here = <<k, x>>
  BY EndsApart DEF EndPoint, Servers
<1>3. k \in Conn /\ x \in Servers
  BY EndsApart
<1>4. PICK n : n = asks[m.ask] /\ n \in DOMAIN streams /\ n \in Ask
  <2>1. asks \in Seq(DOMAIN streams) /\ m.ask \in 1..Len(asks)
    BY <1>1 DEF Streams
  <2>2. asks[m.ask] \in DOMAIN streams
    BY <2>1, ElementOfSeq
  <2>3. DOMAIN streams = 1..Len(streams) /\ Len(streams) \in Nat /\ Len(streams) <= Len(asks)
        /\ Len(asks) <= MaxAsks
    BY DEF Streams
  <2>4. asks[m.ask] \in Ask
    BY <2>1, <2>2, <2>3, RelayAssumption DEF Ask
  <2> QED
    BY <2>2, <2>4
\* Holding a message that is placed where it goes.
<1>5. ASSUME NEW j \in Dialed, NEW p, Placed(j, x, p), Hold(here, p, j)
      PROVE  /\ holding' \in [EndPoint -> [msg : Message \cup {Silent}, via : {NoConn} \cup Conn]]
             /\ \A f \in EndPoint : holding'[f] # Free => Placed(holding'[f].via, f[2], holding'[f].msg)
  <2>1. p \in Message /\ j \in Conn
    BY <1>5, EndsApart DEF Placed
  <2>2. PICK h : h = [msg |-> p, via |-> j]
    OBVIOUS
  <2>3. h \in [msg : Message \cup {Silent}, via : {NoConn} \cup Conn] /\ h.msg = p /\ h.via = j
    BY <2>1, <2>2
  <2>4. holding' = [holding EXCEPT ![here] = h]
    BY <1>5, <2>2 DEF Hold
  <2>5. /\ holding' \in [EndPoint -> [msg : Message \cup {Silent}, via : {NoConn} \cup Conn]]
        /\ \A f \in EndPoint : holding'[f] = IF f = here THEN h ELSE holding[f]
    BY <2>3, <2>4 DEF Queues
  <2> QED
    BY <1>2, <1>5, <2>3, <2>5 DEF Queues
<1>6. ASSUME UNCHANGED holding
      PROVE  /\ holding' \in [EndPoint -> [msg : Message \cup {Silent}, via : {NoConn} \cup Conn]]
             /\ \A f \in EndPoint : holding'[f] # Free => Placed(holding'[f].via, f[2], holding'[f].msg)
  BY <1>6 DEF Queues
<1>7. CASE x \in Servers /\ m.op = "answer" /\ RouteAnswer(x, k, m)
  <2>1. PICK j : j = routes[x][n]
    OBVIOUS
  <2>2. UNCHANGED <<routes, took, reachable, got>>
    BY <1>7 DEF RouteAnswer
  <2>3. CASE j = NoConn
    <3>1. UNCHANGED holding
      BY <1>4, <1>7, <2>1, <2>3 DEF RouteAnswer
    <3> QED
      BY <1>6, <2>2, <3>1 DEF Streams
  <2>4. CASE j # NoConn
    <3>1. j \in Dialed /\ Hold(here, m, j)
      BY <1>2, <1>3, <1>4, <1>7, <2>1, <2>4 DEF RouteAnswer, Streams
    <3>2. Placed(j, x, m)
      BY <1>1, <1>7, <3>1 DEF Placed
    <3> QED
      BY <1>5, <2>2, <3>1, <3>2 DEF Streams
  <2> QED
    BY <2>3, <2>4
<1>8. CASE x \in Servers /\ m.op = "ask" /\ RouteAsk(x, k, m)
  <2>1. PICK a : a = streams[n].dst /\ a \in Agents
    <3>1. streams \in Seq([conn : Dialed, dst : Agents]) /\ n \in 1..Len(streams)
      BY <1>4 DEF Streams
    <3>2. streams[n] \in [conn : Dialed, dst : Agents]
      BY <3>1, ElementOfSeq
    <3> QED
      BY <3>2
  <2>2. UNCHANGED <<reachable, got>>
    BY <1>8 DEF RouteAsk
  <2>3. CASE m.hops >= MaxHops \/ NextHop(x, a, k) = NoConn
    <3>1. UNCHANGED <<routes, took, holding>>
      BY <1>4, <1>8, <2>1, <2>3 DEF RouteAsk
    <3> QED
      BY <1>6, <2>2, <3>1 DEF Streams
  <2>4. CASE ~(m.hops >= MaxHops) /\ NextHop(x, a, k) # NoConn
    <3>1. PICK j : j = NextHop(x, a, k) /\ Leads(j, x, a, k)
      <4>1. Leads(NextHop(x, a, k), x, a, k)
        BY <1>3, <2>1, <2>4, NextHops
      <4> QED
        BY <4>1
    <3>2. /\ routes' = [routes EXCEPT ![x][n] = k]
          /\ took' = [took EXCEPT ![m.ask] = @ \cup {j}]
          /\ Hold(here, Asking(m.ask, m.hops + 1), j)
      <4>1. j # NoConn
        BY <2>4, <3>1
      <4> QED
        BY <1>2, <1>4, <1>8, <2>1, <2>4, <3>1, <4>1 DEF RouteAsk, Noted
    <3>3. m.hops < MaxHops
      BY <1>8, <2>4, MessageKinds, RelayAssumption DEF Placed
    <3>4. PICK p : p = Asking(m.ask, m.hops + 1)
      OBVIOUS
    <3>5. Placed(j, x, Asking(m.ask, m.hops + 1))
      BY <1>3, <1>8, <2>1, <3>1, <3>3, NextIsPlaced DEF Leads
    <3>6. Placed(j, x, p) /\ Hold(here, p, j)
      BY <3>2, <3>4, <3>5
    <3>7. took' \in [Ask -> SUBSET Conn]
      BY <1>1, <3>1, <3>2, EndsApart DEF Streams, Leads
    <3>8. /\ routes' \in [Servers -> [Ask -> {NoConn} \cup Dialed]]
          /\ \A s \in Servers, i \in Ask : routes'[s][i] # NoConn => <<routes'[s][i], s>> \in End(routes'[s][i])
      <4>1. routes \in [Servers -> [Ask -> {NoConn} \cup Dialed]]
        BY DEF Streams
      <4>2. /\ routes' \in [Servers -> [Ask -> {NoConn} \cup Dialed]]
            /\ \A s \in Servers, i \in Ask : routes'[s][i] = IF s = x /\ i = n THEN k ELSE routes[s][i]
        BY <1>3, <1>4, <3>2, <4>1
      <4>3. <<k, x>> \in End(k)
        BY DEF End
      <4> QED
        BY <4>2, <4>3 DEF Streams
    <3> QED
      BY <1>5, <2>2, <3>1, <3>6, <3>7, <3>8 DEF Leads
  <2> QED
    BY <2>3, <2>4
<1> QED
  BY <1>7, <1>8

LEMMA ReceiveStands ==
  ASSUME RelayInv, NEW k \in Dialed, NEW x \in {From(k), To(k)}, Receive(k, x)
  PROVE  RelayInv'
<1> USE DEF RelayInv
<1>1. PICK y, m : y = Other(k, x) /\ m = Read(k, x)
  OBVIOUS
<1>2. y \in {From(k), To(k)} /\ x # y
  BY <1>1, EndsApart DEF Other
<1>3. Placed(k, y, m) /\ Sound(outbox')
  BY <1>1, ReceivedIsSound
<1>4. /\ <<k, x>> \in ends
      /\ CASE x \in Servers /\ m.op = "ask"    -> RouteAsk(x, k, m)
           [] x \in Servers /\ m.op = "answer" -> RouteAnswer(x, k, m)
           [] m.op = "advert"                  -> TakeAdvert(k, m)
           [] x \in Clients -> got' = got \cup {m.ask} /\ UNCHANGED <<routes, took, holding, reachable>>
           [] x \in Agents  -> UNCHANGED <<routes, took, holding, reachable, got>>
      /\ UNCHANGED <<conns, ends, inbound, upstream, watching, told, streams, asks>>
  BY <1>1 DEF Receive, Read, Other
<1>5. /\ m.op \in {"ask", "answer", "advert"}
      /\ m.op \in {"ask", "answer"} => m.ask \in DOMAIN asks
      /\ m.op = "advert" => y \in Locals /\ From(k) = y
  BY <1>3, MessageKinds DEF Placed
<1>6. x \in Servers \cup Clients \cup Agents
  BY EndsApart DEF Instances, Servers
<1>7. Servers \cap Instances = {} /\ Clients \cap Agents = {}
  BY RelayAssumption DEF Servers, Instances
<1> DEFINE Kept ==
      /\ took' \in [Ask -> SUBSET Conn]
      /\ routes' \in [Servers -> [Ask -> {NoConn} \cup Dialed]]
      /\ \A s \in Servers, n \in Ask : routes'[s][n] # NoConn => <<routes'[s][n], s>> \in End(routes'[s][n])
      /\ holding' \in [EndPoint -> [msg : Message \cup {Silent}, via : {NoConn} \cup Conn]]
      /\ \A f \in EndPoint : holding'[f] # Free => Placed(holding'[f].via, f[2], holding'[f].msg)
<1> DEFINE Known ==
      /\ got' \subseteq DOMAIN asks
      /\ reachable' \in [Instances -> {NoConn} \cup Link]
<1>8. ASSUME UNCHANGED <<routes, took, holding>> PROVE Kept
  BY <1>8 DEF Streams, Queues
<1>9. Kept /\ Known
  <2>0. got \subseteq DOMAIN asks /\ reachable \in [Instances -> {NoConn} \cup Link]
    BY DEF Streams, Links
  <2>1. CASE x \in Servers /\ m.op = "ask"
    <3>1. RouteAsk(x, k, m)
      BY <1>4, <1>7, <2>1 DEF Instances
    <3>2. Kept /\ UNCHANGED <<reachable, got>>
      BY <1>2, <1>3, <1>4, <2>1, <3>1, RoutedIsSound
    <3> QED
      BY <2>0, <3>2
  <2>2. CASE x \in Servers /\ m.op = "answer"
    <3>1. RouteAnswer(x, k, m)
      BY <1>4, <1>7, <2>2 DEF Instances
    <3>2. Kept /\ UNCHANGED <<reachable, got>>
      BY <1>2, <1>3, <1>4, <2>2, <3>1, RoutedIsSound
    <3> QED
      BY <2>0, <3>2
  <2>3. CASE m.op = "advert"
    <3>1. y = From(k) /\ From(k) \in Locals /\ x = To(k)
      BY <1>2, <1>5, <2>3
    <3>2. x \in Servers /\ k \in Link
      BY <3>1, EndsApart DEF Link
    <3>3. TakeAdvert(k, m)
      BY <1>4, <1>7, <2>3, <3>2 DEF Instances
    <3>4. reachable' \in [Instances -> {NoConn} \cup Link]
      BY <2>0, <3>2, <3>3, WithoutIsSound DEF TakeAdvert
    <3>5. Kept
      BY <1>8, <3>3 DEF TakeAdvert
    <3> QED
      BY <2>0, <3>3, <3>4, <3>5 DEF TakeAdvert
  <2>4. CASE x \notin Servers /\ m.op # "advert" /\ x \in Clients
    <3>1. got' = got \cup {m.ask} /\ UNCHANGED <<routes, took, holding, reachable>>
      BY <1>4, <1>7, <2>4 DEF Instances
    <3>2. Kept
      BY <1>8, <3>1
    <3> QED
      BY <1>5, <2>0, <2>4, <3>1, <3>2
  <2>5. CASE x \notin Servers /\ m.op # "advert" /\ x \in Agents
    <3>1. UNCHANGED <<routes, took, holding, reachable, got>>
      BY <1>4, <1>7, <2>5
    <3>2. Kept
      BY <1>8, <3>1
    <3> QED
      BY <2>0, <3>1, <3>2
  <2> QED
    BY <1>5, <1>6, <2>1, <2>2, <2>3, <2>4, <2>5
<1> HIDE DEF Known
<1>10. Links' /\ OneLink'
  BY <1>4, <1>9 DEF Known, Links, OneLink, Link, Dialed, From, To, End
<1>11. Streams'
  BY <1>4, <1>9 DEF Known, Streams, Dialed, From, To, End
<1>12. Queues'
  <2>1. PICK Q : Q = outbox'
    OBVIOUS
  <2>2. Sound(Q)'
    BY <1>3, <1>4, <2>1, SoundStays DEF Dialed
  <2>3. Sound(outbox)'
    BY <2>1, <2>2 DEF Sound, Placed
  <2>4. (\A f \in EndPoint : holding[f] # Free => Placed(holding[f].via, f[2], holding[f].msg))'
    BY <1>4, <1>9 DEF Placed, Dialed, From
  <2> QED
    BY <1>9, <2>3, <2>4 DEF Queues
<1> QED
  BY <1>10, <1>11, <1>12

-----------------------------------------------------------------------------
(* The theorems.                                                           *)

LEMMA RelayStep == RelayInv /\ [RelayNext]_relayVars => RelayInv'
<1> SUFFICES ASSUME RelayInv, [RelayNext]_relayVars PROVE RelayInv'
  OBVIOUS
<1>1. ASSUME NEW x \in Locals \cup Instances, NEW s \in Servers, Dial(x, s) PROVE RelayInv'
  BY <1>1, DialStands
<1>2. ASSUME NEW k \in Dialed, NEW x \in {From(k), To(k)},
             Close(k, x) \/ Receive(k, x) \/ HandOn(k, x)
      PROVE  RelayInv'
  <2>1. CASE Close(k, x)
    BY <2>1, CloseStands
  <2>2. CASE Receive(k, x)
    BY <2>2, ReceiveStands
  <2>3. CASE HandOn(k, x)
    BY <2>3, HandOnStands
  <2> QED
    BY <1>2, <2>1, <2>2, <2>3
<1>3. ASSUME NEW k \in Dialed, Untrack(k) PROVE RelayInv'
  BY <1>3, UntrackStands
<1>4. ASSUME NEW k \in Dialed, Withdraw(k) PROVE RelayInv'
  BY <1>4, WithdrawStands
<1>5. ASSUME NEW l \in Locals, Advertise(l) PROVE RelayInv'
  BY <1>5, AdvertiseStands
<1>6. ASSUME NEW c \in Clients, NEW a \in Agents, Open(c, a) PROVE RelayInv'
  BY <1>6, OpenStands
<1>7. ASSUME NEW n \in DOMAIN streams, AskAgain(n) PROVE RelayInv'
  BY <1>7, AskAgainStands
<1>8. CASE UNCHANGED relayVars
  <2>1. UNCHANGED <<conns, ends, inbound, upstream, watching, reachable, told>>
        /\ UNCHANGED <<routes, streams, asks, took, outbox, holding, got>>
    BY <1>8 DEF relayVars, linkVars, dataVars
  <2>2. Links' /\ OneLink'
    BY <2>1 DEF RelayInv, Links, OneLink, Link, Dialed, From, To, End
  <2>3. Streams'
    BY <2>1 DEF RelayInv, Streams, Dialed, From, To, End
  <2>4. Queues'
    BY <2>1 DEF RelayInv, Queues, Sound, Placed, Dialed, From
  <2> QED
    BY <2>2, <2>3, <2>4 DEF RelayInv
<1> QED
  BY <1>1, <1>2, <1>3, <1>4, <1>5, <1>6, <1>7, <1>8 DEF RelayNext

\* The invariant holds in every state.
LEMMA RelayIsSound == RelaySpec => []RelayInv
BY StartIsSound, RelayStep, PTL DEF RelaySpec

\* Type correctness: queues never hold more than they have room for, and notes and
\* routes name connections of the server that has them.
THEOREM RelayTypes == RelaySpec => []RelayTypeOK
BY RelayIsSound, InvHasTypes, PTL

\* A message in flight has been passed on three times at most.
LEMMA ThreeHops ==
  ASSUME RelayInv, MaxHops >= 4
  PROVE  HopsToSpare
<1> SUFFICES ASSUME NEW r \in Ask, InFlight(Asking(r, MaxHops)) PROVE FALSE
  BY DEF HopsToSpare
<1> DEFINE m == Asking(r, MaxHops)
<1>1. m.op = "ask" /\ m.hops = MaxHops
  BY DEF Asking
<1>2. outbox \in [EndPoint -> Seq(Message)]
      /\ holding \in [EndPoint -> [msg : Message \cup {Silent}, via : {NoConn} \cup Conn]]
  BY DEF RelayInv, Queues, Sound
<1>3. \E k, x : Placed(k, x, m)
  <2>1. CASE \E e \in DOMAIN outbox : \E i \in DOMAIN outbox[e] : outbox[e][i] = m
    BY <2>1, <1>2 DEF RelayInv, Queues, Sound
  <2>2. CASE \E e \in DOMAIN holding : holding[e].msg = m
    <3>1. PICK e \in EndPoint : holding[e].msg = m
      BY <2>2, <1>2
    <3>2. holding[e] # Free
      BY <3>1, <1>1 DEF Free, Silent
    <3> QED
      BY <3>1, <3>2 DEF RelayInv, Queues
  <2> QED
    BY <2>1, <2>2 DEF InFlight
<1> HIDE DEF m
<1>4. m.hops <= 3
  BY <1>1, <1>3, RelayAssumption DEF Placed
<1> QED
  BY <1>1, <1>4, RelayAssumption, MaxHops >= 4

\* The hop limit drops no message, however many servers there are and whatever they
\* wrongly believe of one another, if it is 4 or more (MAX_HOPS is 4).
THEOREM NoMessageGoesRound ==
  ASSUME MaxHops >= 4
  PROVE  RelaySpec => []HopsToSpare
<1>1. RelayInv => HopsToSpare
  BY ThreeHops, MaxHops >= 4
<1> QED
  BY <1>1, RelayIsSound, PTL
==============================================================================
