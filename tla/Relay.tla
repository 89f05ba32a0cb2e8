-------------------------------- MODULE Relay --------------------------------
(***************************************************************************)
(* The relay of the servers (network/stream.rs, network/reachability.rs):  *)
(* a client addresses a stream to an instance, and the servers find the    *)
(* way.  A server sends a message to the instance if it is connected here, *)
(* else through the server that advertised it, else up to the global       *)
(* server; it notes where a stream's messages come from, and the answers,  *)
(* which carry no address, go back along those notes.                      *)
(*                                                                         *)
(* One task per connection end reads the socket, handles each message to   *)
(* its end and empties the end's queue.  A message for another connection  *)
(* waits for room there in the hands of the task that read it.  What is on *)
(* the wire is still in the sender's queue here: the wire adds delay only, *)
(* and loses what it holds with the connection as the queue does.          *)
(***************************************************************************)
EXTENDS Integers, Sequences, FiniteSets, FiniteSetsExt

CONSTANTS
  Global, Locals, \* the servers
  Clients, Agents,\* the other instances
  Starts,         \* what behaviours start with: sequences of connections
  MaxHops,        \* MAX_HOPS
  Capacity,       \* the room in the queue of a connection end
  MaxConns,       \* bound: connections dialed in the behaviour
  MaxFailed,      \* bound: connections that fail
  MaxAsks         \* bound: messages clients send

Servers   == Locals \cup {Global}
Instances == Clients \cup Agents
Conn      == 1..MaxConns
Ask       == 1..MaxAsks
NoConn    == 0

ASSUME RelayAssumption ==
  /\ Global \notin Locals
  /\ (Locals \cup {Global}) \cap (Clients \cup Agents) = {} /\ Clients \cap Agents = {}
  /\ \A start \in Starts :
       /\ start \in Seq([from : Locals \cup Instances, to : Servers]) /\ Len(start) <= MaxConns
       /\ \A i, j \in DOMAIN start :
            /\ start[i].from \in Locals => start[i].to = Global
            /\ start[i].from = start[j].from => i = j
  /\ MaxHops \in Nat \ {0} /\ Capacity \in Nat \ {0}
  /\ MaxConns \in Nat /\ MaxFailed \in Nat /\ MaxAsks \in Nat

VARIABLES
  conns,     \* the two instances of each connection dialed so far
  ends,      \* the ends <<k, x>> whose socket task runs
  inbound,   \* NetworkManager::inbound of all servers: accepted, not yet removed
  upstream,  \* Relay::upstream of each local server
  watching,  \* the links whose routes wait to be withdrawn when they end
  reachable, \* Relay::reachable of the global server
  told,      \* per link, the set last advertised; {Global}: none yet
  routes,    \* Relay::routes of each server, per stream
  streams,   \* the streams clients have opened
  asks,      \* the stream of each message clients have sent
  took,      \* the connections each of them has been put on (history)
  outbox,    \* the queue of each connection end
  holding,   \* the message an end's task waits to hand on, and to which connection
  got        \* the messages whose answer has reached the client

linkVars == <<conns, ends, inbound, upstream, watching, reachable, told>>
dataVars == <<routes, streams, asks, took, outbox, holding, got>>
relayVars == <<linkVars, dataVars>>

From(k) == conns[k].from
To(k)   == conns[k].to
Dialed  == DOMAIN conns
Link    == {k \in Dialed : From(k) \in Locals}

Unknown == {Global}
Silent == [op |-> "none"]
Free   == [msg |-> Silent, via |-> NoConn]

\* A message: an ask, its answer, or the set a server advertises.
Asking(r, h) == [op |-> "ask", ask |-> r, hops |-> h]
Answer(r)    == [op |-> "answer", ask |-> r]
Advert(set)  == [op |-> "advert", set |-> set]

Message == {Asking(r, h) : r \in Ask, h \in 0..MaxHops} \cup {Answer(r) : r \in Ask}
             \cup {Advert(set) : set \in SUBSET Instances}

End(k) == {<<k, From(k)>>, <<k, To(k)>>}

RelayTypeOK ==
  /\ Dialed \subseteq Conn /\ ends \subseteq UNION {End(k) : k \in Dialed}
  /\ inbound \subseteq Dialed /\ watching \subseteq Link
  /\ upstream \in [Locals -> {NoConn} \cup Link]
  /\ reachable \in [Instances -> {NoConn} \cup Link]
  /\ \A k \in Link : told[k] = Unknown \/ told[k] \subseteq Instances
  /\ \A s \in Servers, n \in Ask : routes[s][n] # NoConn => <<routes[s][n], s>> \in End(routes[s][n])
  /\ \A e \in DOMAIN outbox : /\ e[2] \notin Agents => Len(outbox[e]) <= Capacity
                              /\ \A i \in DOMAIN outbox[e] : outbox[e][i] \in Message
  /\ \A e \in DOMAIN holding : holding[e] = Free \/ holding[e].msg \in Message
  /\ got \subseteq DOMAIN asks

\* The processes run, and connections of theirs are up.
RelayInit ==
  /\ conns \in Starts
  /\ ends = UNION {End(k) : k \in Dialed} /\ inbound = Dialed /\ watching = Link
  /\ upstream = [l \in Locals |-> IF \E k \in Link : From(k) = l
                                   THEN CHOOSE k \in Link : From(k) = l ELSE NoConn]
  /\ reachable = [i \in Instances |-> NoConn]
  /\ told = [k \in Conn |-> Unknown]
  /\ routes = [s \in Servers |-> [n \in Ask |-> NoConn]]
  /\ streams = <<>> /\ asks = <<>> /\ got = {} /\ took = [r \in Ask |-> {}]
  /\ outbox = [e \in Conn \X (Servers \cup Instances) |-> <<>>]
  /\ holding = [e \in Conn \X (Servers \cup Instances) |-> Free]

-----------------------------------------------------------------------------
(* Connections.                                                            *)

\* Everyone but the global server dials when the connection it had has ended on
\* its side; local servers dial the global server only.
Dial(x, s) ==
  LET k == Len(conns) + 1 IN
  /\ k \in Conn
  /\ x \in Locals => s = Global
  /\ \A j \in Dialed : From(j) = x => <<j, x>> \notin ends
  /\ conns' = Append(conns, [from |-> x, to |-> s])
  /\ ends' = ends \cup {<<k, x>>, <<k, s>>}
  /\ inbound' = inbound \cup {k}
  /\ upstream' = IF x \in Locals THEN [upstream EXCEPT ![x] = k] ELSE upstream
  /\ watching' = IF x \in Locals THEN watching \cup {k} ELSE watching
  /\ UNCHANGED <<reachable, told, dataVars>>

Failed == {k \in Dialed : ~(End(k) \subseteq ends)}

\* A socket task ends, which takes its queue; it must not be in a handler.
Close(k, x) ==
  /\ <<k, x>> \in ends /\ holding[<<k, x>>] = Free
  /\ k \in Failed \/ Cardinality(Failed) < MaxFailed
  /\ ends' = ends \ {<<k, x>>}
  /\ outbox' = [outbox EXCEPT ![<<k, x>>] = <<>>]
  /\ UNCHANGED <<conns, inbound, upstream, watching, reachable, told, routes, streams, asks, took, holding, got>>

\* track_inbound's task: the last strong reference to the connection goes.
Untrack(k) ==
  /\ k \in inbound /\ <<k, To(k)>> \notin ends
  /\ inbound' = inbound \ {k}
  /\ UNCHANGED <<conns, ends, upstream, watching, reachable, told, dataVars>>

\* What a peer advertised goes, and with it every entry that is dead.
Without(peer) ==
  [i \in Instances |->
    IF reachable[i] \in inbound /\ From(reachable[i]) # peer THEN reachable[i] ELSE NoConn]

\* accept_advertisements' task.
Withdraw(k) ==
  /\ k \in watching /\ <<k, Global>> \notin ends
  /\ watching' = watching \ {k}
  /\ reachable' = Without(From(k))
  /\ UNCHANGED <<conns, ends, inbound, upstream, told, dataVars>>

-----------------------------------------------------------------------------
(* Queues.                                                                 *)

\* Mutant of HasRoom: one message too many.
HasRoomForMore(e) == Len(outbox[e]) <= Capacity

HasRoom(e) == Len(outbox[e]) < Capacity

Put(e, m) == outbox' = [outbox EXCEPT ![e] = Append(@, m)]

Attached(l) == {From(k) : k \in {j \in inbound : To(j) = l /\ <<j, l>> \in ends}}

\* run_link's watcher advertises the attached set whenever it is another one.
Advertise(l) ==
  LET k == upstream[l] IN
  /\ k # NoConn /\ <<k, l>> \in ends
  /\ told[k] # Attached(l)
  /\ HasRoom(<<k, l>>)
  /\ Put(<<k, l>>, Advert(Attached(l)))
  /\ told' = [told EXCEPT ![k] = Attached(l)]
  /\ UNCHANGED <<conns, ends, inbound, upstream, watching, reachable, routes, streams, asks, took, holding, got>>

\* A client opens a stream addressed to an agent, with its first message.
Open(c, a) ==
  LET r == Len(asks) + 1
      n == Len(streams) + 1 IN
  /\ r \in Ask
  /\ \E k \in Dialed :
       /\ From(k) = c /\ <<k, c>> \in ends /\ HasRoom(<<k, c>>)
       /\ streams' = Append(streams, [conn |-> k, dst |-> a])
       /\ asks' = Append(asks, n)
       /\ took' = [took EXCEPT ![r] = {k}]
       /\ Put(<<k, c>>, Asking(r, 0))
  /\ UNCHANGED <<linkVars, routes, holding, got>>

\* A further message on an open stream.
AskAgain(n) ==
  LET r == Len(asks) + 1
      k == streams[n].conn IN
  /\ r \in Ask
  /\ <<k, From(k)>> \in ends /\ HasRoom(<<k, From(k)>>)
  /\ asks' = Append(asks, n)
  /\ took' = [took EXCEPT ![r] = {k}]
  /\ Put(<<k, From(k)>>, Asking(r, 0))
  /\ UNCHANGED <<linkVars, streams, routes, holding, got>>

-----------------------------------------------------------------------------
(* dispatch and route.                                                     *)

\* Mutant of NextHop: the connection the message came from is not left out.
NextHopAnyway(s, a, k) ==
  LET direct == {j \in inbound : To(j) = s /\ From(j) = a} IN
  CASE direct # {} -> Min(direct)
    [] direct = {} /\ s = Global /\ reachable[a] \in inbound -> reachable[a]
    [] direct = {} /\ s \in Locals /\ <<upstream[s], s>> \in ends -> upstream[s]
    [] OTHER -> NoConn

\* next_hop: connected here, advertised, or up; never the connection k it came on.
NextHop(s, a, k) ==
  LET direct == {j \in inbound \ {k} : To(j) = s /\ From(j) = a} IN
  CASE direct # {} -> Min(direct)
    [] direct = {} /\ s = Global /\ reachable[a] \in inbound \ {k} -> reachable[a]
    [] direct = {} /\ s \in Locals /\ upstream[s] # k /\ <<upstream[s], s>> \in ends -> upstream[s]
    [] OTHER -> NoConn

Noted(s, n, k) == [routes EXCEPT ![s][n] = k]

Hold(e, m, k) == holding' = [holding EXCEPT ![e] = [msg |-> m, via |-> k]]

\* An addressed message is noted and handed on, or dropped.
RouteAsk(s, k, m) ==
  LET n == asks[m.ask]
      j == IF m.hops >= MaxHops THEN NoConn ELSE NextHop(s, streams[n].dst, k) IN
  /\ IF j = NoConn THEN UNCHANGED <<routes, took, holding>>
     ELSE /\ routes' = Noted(s, n, k)
          /\ took' = [took EXCEPT ![m.ask] = @ \cup {j}]
          /\ Hold(<<k, s>>, Asking(m.ask, m.hops + 1), j)
  /\ UNCHANGED <<reachable, got>>

\* An answer goes where its stream's messages come from; if nobody knows, there is
\* no handler for it either.
RouteAnswer(s, k, m) ==
  LET j == routes[s][asks[m.ask]] IN
  /\ IF j = NoConn THEN UNCHANGED holding ELSE Hold(<<k, s>>, m, j)
  /\ UNCHANGED <<routes, took, reachable, got>>

\* advertise: the peer's former advertisement is replaced.
TakeAdvert(k, m) ==
  /\ reachable' = IF k \notin inbound THEN reachable
                  ELSE [i \in Instances |-> IF i \in m.set THEN k ELSE Without(From(k))[i]]
  /\ UNCHANGED <<routes, took, holding, got>>

\* The end's task reads the next message; the other end's task must be free to
\* send it.  An agent answers on the connection the message came on, through
\* queues of its own, which are not what is short here.
Receive(k, x) ==
  LET y == IF x = From(k) THEN To(k) ELSE From(k)
      m == Head(outbox[<<k, y>>])
      rest == [outbox EXCEPT ![<<k, y>>] = Tail(@)] IN
  /\ {<<k, x>>, <<k, y>>} \subseteq ends
  /\ holding[<<k, x>>] = Free /\ holding[<<k, y>>] = Free
  /\ outbox[<<k, y>>] # <<>>
  /\ outbox' = IF x \in Agents /\ m.op = "ask"
                 THEN [rest EXCEPT ![<<k, x>>] = Append(@, Answer(m.ask))] ELSE rest
  /\ CASE x \in Servers /\ m.op = "ask"    -> RouteAsk(x, k, m)
       [] x \in Servers /\ m.op = "answer" -> RouteAnswer(x, k, m)
       [] m.op = "advert"                  -> TakeAdvert(k, m)
       [] x \in Clients -> got' = got \cup {m.ask} /\ UNCHANGED <<routes, took, holding, reachable>>
       [] x \in Agents  -> UNCHANGED <<routes, took, holding, reachable, got>>
  /\ UNCHANGED <<conns, ends, inbound, upstream, watching, told, streams, asks>>

\* Mutant of HandOn: it does not wait, and a full queue loses the message.
HandOnIfRoom(k, s) ==
  LET h == holding[<<k, s>>]
      e == <<h.via, s>> IN
  /\ h # Free
  /\ IF e \in ends /\ HasRoom(e) THEN Put(e, h.msg) ELSE UNCHANGED outbox
  /\ holding' = [holding EXCEPT ![<<k, s>>] = Free]
  /\ UNCHANGED <<linkVars, routes, streams, asks, took, got>>

\* The message in hand is put into the other connection's queue, or lost with it.
HandOn(k, s) ==
  LET h == holding[<<k, s>>]
      e == <<h.via, s>> IN
  /\ h # Free
  /\ IF e \in ends THEN HasRoom(e) /\ Put(e, h.msg) ELSE UNCHANGED outbox
  /\ holding' = [holding EXCEPT ![<<k, s>>] = Free]
  /\ UNCHANGED <<linkVars, routes, streams, asks, took, got>>

-----------------------------------------------------------------------------
Notices(k, x) == k \in Failed /\ Close(k, x)

RelayNext ==
  \/ \E x \in Locals \cup Instances, s \in Servers : Dial(x, s)
  \/ \E k \in Dialed :
       \/ \E x \in {From(k), To(k)} : Close(k, x) \/ Receive(k, x) \/ HandOn(k, x)
       \/ Untrack(k)
       \/ Withdraw(k)
  \/ \E l \in Locals : Advertise(l)
  \/ \E c \in Clients, a \in Agents : Open(c, a)
  \/ \E n \in DOMAIN streams : AskAgain(n)

RelaySpec == RelayInit /\ [][RelayNext]_relayVars

\* The tasks of all processes run; an end whose peer is gone closes, by the
\* keepalive deadline at the latest; a local server dials again.
TaskStep ==
  \/ \E k \in Dialed :
       \/ \E x \in {From(k), To(k)} : Receive(k, x) \/ HandOn(k, x) \/ Notices(k, x)
       \/ Untrack(k)
       \/ Withdraw(k)
  \/ \E l \in Locals : Advertise(l) \/ Dial(l, Global)

FairRelaySpec == RelaySpec /\ WF_relayVars(TaskStep)

-----------------------------------------------------------------------------
(* Properties.                                                             *)

InFlight(m) == \/ \E e \in DOMAIN outbox : \E i \in DOMAIN outbox[e] : outbox[e][i] = m
               \/ \E e \in DOMAIN holding : holding[e].msg = m

(***************************************************************************)
(* The hop limit never drops a message (MAX_HOPS): whatever advertisements *)
(* and connections are stale, an addressed message is never passed on so   *)
(* often, so it does not go round in a loop.                               *)
(***************************************************************************)
HopsToSpare == \A r \in Ask : ~InFlight(Asking(r, MaxHops))

\* Ends whose tasks hold messages for each other's full queues: a queue is emptied
\* only when neither end of its connection holds one.
Jammed ==
  \E C \in SUBSET {e \in ends : holding[e] # Free} \ {{}} :
    \A e \in C : LET to == <<holding[e].via, e[2]>> IN
      to \in ends /\ ~HasRoom(to) /\ C \cap End(to[1]) # {}

(***************************************************************************)
(* Answers find their way back (route): an answer under way reaches the    *)
(* client that asked unless a connection it or its question has taken      *)
(* fails, whatever else is asked, dialed, lost or advertised meanwhile,    *)
(* but for one circle: the task of a connection waits in its handler for   *)
(* room in the queue of another (dispatch), and two that wait for each     *)
(* other's wait for good.  One server with a client's and an agent's       *)
(* connection is enough for it.  There is no other way to get stuck.       *)
(***************************************************************************)
AnswersReturn ==
  \A r \in Ask : InFlight(Answer(r)) ~> (r \in got \/ took[r] \cap Failed # {} \/ Jammed)

(***************************************************************************)
(* "Forget every route advertised through `via` (its connection dropped)"  *)
(* (Relay::withdraw): an instance that stays attached to a local server    *)
(* whose link stays up is reachable through that server in the end.        *)
(***************************************************************************)
Linked(l) == upstream[l] # NoConn /\ End(upstream[l]) \subseteq ends

RoutesFollow ==
  \A l \in Locals, i \in Instances :
    <>[](Linked(l) /\ Attached(l) = {i}) => <>[](reachable[i] = upstream[l])
=============================================================================
