------------------------------ MODULE ClientSync ------------------------------
(***************************************************************************)
(* The client's subscriptions (sandpolis-client/sync) and the loop that    *)
(* keeps its server connections up (sandpolis/client spawn_client_sync).   *)
(*                                                                         *)
(* One handle serves every view of the process.  It holds the connection   *)
(* that new subscriptions are opened on and a map from what is subscribed  *)
(* to the stream that brings it.  Views call subscribe and unsubscribe     *)
(* from their own threads; opening and closing a stream are tasks; the     *)
(* loop replaces the connection under all of them.                         *)
(*                                                                         *)
(* Every call of subscribe that inserts an entry leads to one stream, so   *)
(* the call's number is also its stream's.  A stream reaches its server    *)
(* through its own channel, in order, and a connection that fails takes    *)
(* what is on its way and its streams at the server with it.               *)
(***************************************************************************)
EXTENDS Integers, Sequences

CONSTANTS
  Servers,     \* the servers this client is configured with
  Keys,        \* what can be subscribed: a model, perhaps of one instance
  Standing,    \* the keys the loop subscribes after every connect, in order
  MaxConns,    \* bound: connections opened in the behaviour
  MaxViewCalls \* bound: calls of subscribe by views

ASSUME ClientSyncAssumption ==
  /\ Standing \in Seq(Keys)
  /\ MaxConns \in Nat
  /\ MaxViewCalls \in Nat

Conn == 1..MaxConns
NoConn == 0
None == 0      \* no server's turn in the loop is under way

VARIABLES
  serverOf,  \* the server of each connection opened so far
  alive,     \* the connections whose socket is not cancelled
  slot,      \* ServerConnection::inner of each server
  entry,     \* the connection each server is listed with in CONNECTIONS
  current,   \* the connection in the handle; NoConn before the first init
  subs,      \* the map of subscriptions
  calls,     \* the calls of subscribe that inserted an entry, and their tasks
  registered,\* the streams registered at the client
  channel,   \* per stream, the requests on their way to the server
  serving,   \* the streams a server has a responder for
  loop,      \* what the loop is doing with a connection it has just opened
  viewCalls  \* calls made by views

connVars == <<serverOf, alive, slot, entry, current>>
callVars == <<calls, registered, channel, serving>>
csVars   == <<connVars, subs, callVars, loop, viewCalls>>

Absent    == [is |-> "absent", stream |-> 0]
Pending   == [is |-> "pending", stream |-> 0]
Active(n) == [is |-> "active", stream |-> n]

\* A call: "clone" reads the handle's connection, "open" registers the stream
\* and sends Subscribe, "settle" looks at the map again; a stream taken out of
\* the map is "dropped", and "close" ends it.
CallStage == {"clone", "open", "settle", "kept", "dropped", "close", "done"}
Call == [key: Keys, conn: Conn \cup {NoConn}, pc: CallStage, via: Conn \cup {NoConn}]

LoopIdle == [pc |-> "poll", conn |-> NoConn, todo |-> <<>>]
Loop     == [pc: {"poll", "register", "clear", "swap", "standing"},
             conn: Conn \cup {NoConn}, todo: Seq(Keys)]

ClientTypeOK ==
  /\ serverOf \in Seq(Servers) /\ Len(serverOf) <= MaxConns
  /\ alive \in SUBSET DOMAIN serverOf
  /\ slot \in [Servers -> {NoConn} \cup DOMAIN serverOf]
  /\ entry \in [Servers -> {NoConn} \cup DOMAIN serverOf]
  /\ current \in {NoConn} \cup DOMAIN serverOf
  /\ calls \in Seq(Call)
  /\ subs \in [Keys -> {Absent, Pending} \cup {Active(n) : n \in DOMAIN calls}]
  /\ registered \in SUBSET DOMAIN calls
  /\ channel \in Seq(Seq({"subscribe", "close"})) /\ Len(channel) = Len(calls)
  /\ serving \in SUBSET DOMAIN calls
  /\ loop \in Loop
  /\ viewCalls \in 0..MaxViewCalls
  /\ \A n \in DOMAIN calls : calls[n].pc # "clone" => calls[n].conn \in DOMAIN serverOf

ClientInit ==
  /\ serverOf = <<>>
  /\ alive = {}
  /\ slot = [s \in Servers |-> NoConn]
  /\ entry = [s \in Servers |-> NoConn]
  /\ current = NoConn
  /\ subs = [k \in Keys |-> Absent]
  /\ calls = <<>>
  /\ registered = {}
  /\ channel = <<>>
  /\ serving = {}
  /\ loop = LoopIdle
  /\ viewCalls = 0

-----------------------------------------------------------------------------
(* Connections and the loop.                                               *)

\* The loop finds a server's slot empty and its upgrade succeeds.
Dial(s) ==
  LET c == Len(serverOf) + 1 IN
  /\ loop.pc = "poll"
  /\ slot[s] = NoConn
  /\ c <= MaxConns
  /\ serverOf' = Append(serverOf, s)
  /\ alive' = alive \cup {c}
  /\ slot' = [slot EXCEPT ![s] = c]
  /\ loop' = [pc |-> "register", conn |-> c, todo |-> <<>>]
  /\ UNCHANGED <<entry, current, subs, callVars, viewCalls>>

\* The socket ends, whatever ended it.
Fail(c) ==
  LET here == {n \in DOMAIN calls : calls[n].conn = c} IN
  /\ c \in alive
  /\ alive' = alive \ {c}
  /\ serving' = serving \ here
  /\ channel' = [n \in DOMAIN calls |-> IF n \in here THEN <<>> ELSE channel[n]]
  /\ UNCHANGED <<serverOf, slot, entry, current, subs, calls, registered, loop, viewCalls>>

\* The task that waits for the socket's end empties the slot.
EmptySlot(s) ==
  /\ slot[s] # NoConn
  /\ slot[s] \notin alive
  /\ slot' = [slot EXCEPT ![s] = NoConn]
  /\ UNCHANGED <<serverOf, alive, entry, current, subs, callVars, loop, viewCalls>>

\* Mutant of RegisterConnection: a server that has an entry keeps it.
RegisterConnectionOnce ==
  LET s == serverOf[loop.conn] IN
  /\ loop.pc = "register"
  /\ entry' = [entry EXCEPT ![s] = IF @ = NoConn THEN loop.conn ELSE @]
  /\ loop' = [loop EXCEPT !.pc = "clear"]
  /\ UNCHANGED <<serverOf, alive, slot, current, subs, callVars, viewCalls>>

\* register_connection: only a dead entry is replaced.
RegisterConnection ==
  LET s == serverOf[loop.conn] IN
  /\ loop.pc = "register"
  /\ entry' = [entry EXCEPT ![s] = IF @ \in alive THEN @ ELSE loop.conn]
  /\ loop' = [loop EXCEPT !.pc = "clear"]
  /\ UNCHANGED <<serverOf, alive, slot, current, subs, callVars, viewCalls>>

\* Mutant of ForgetSubscriptions: the map survives the reconnect.
ForgetNothing ==
  /\ loop.pc = "clear"
  /\ loop' = [loop EXCEPT !.pc = "swap"]
  /\ UNCHANGED <<connVars, subs, callVars, viewCalls>>

\* init, first half: the subscriptions on the connection it replaces go.
ForgetSubscriptions ==
  /\ loop.pc = "clear"
  /\ subs' = [k \in Keys |-> Absent]
  /\ loop' = [loop EXCEPT !.pc = "swap"]
  /\ UNCHANGED <<connVars, callVars, viewCalls>>

\* init, second half: the handle's connection is swapped.
Swap ==
  /\ loop.pc = "swap"
  /\ current' = loop.conn
  /\ loop' = [loop EXCEPT !.pc = "standing", !.todo = Standing]
  /\ UNCHANGED <<serverOf, alive, slot, entry, subs, callVars, viewCalls>>

-----------------------------------------------------------------------------
(* subscribe and its task.                                                 *)

\* An entry that is there already, in whatever state, is left alone.
Insert(k, c, pc) ==
  IF subs[k] # Absent THEN UNCHANGED <<subs, callVars>>
  ELSE /\ subs' = [subs EXCEPT ![k] = Pending]
       /\ calls' = Append(calls, [key |-> k, conn |-> c, pc |-> pc, via |-> NoConn])
       /\ channel' = Append(channel, <<>>)
       /\ UNCHANGED <<registered, serving>>

\* The loop subscribes what is wanted as long as the client runs.  Only the loop
\* swaps the connection, so for its own calls the clone is part of the insert.
SubscribeStanding ==
  /\ loop.pc = "standing"
  /\ loop.todo # <<>>
  /\ Insert(Head(loop.todo), current, "open")
  /\ loop' = [loop EXCEPT !.todo = Tail(@)]
  /\ UNCHANGED <<connVars, viewCalls>>

BackToPolling ==
  /\ loop.pc = "standing"
  /\ loop.todo = <<>>
  /\ loop' = LoopIdle
  /\ UNCHANGED <<connVars, subs, callVars, viewCalls>>

StandingKeys == {Standing[i] : i \in DOMAIN Standing}

\* A view's call; before the first init there is no handle to call.
Subscribe(k) ==
  /\ current # NoConn
  /\ k \notin StandingKeys
  /\ viewCalls < MaxViewCalls
  /\ viewCalls' = viewCalls + 1
  /\ Insert(k, NoConn, "clone")
  /\ UNCHANGED <<connVars, loop>>

At(n, pc) == n \in DOMAIN calls /\ calls[n].pc = pc

\* Mutant of CloneConnection: the connection is taken from a slot.
CloneFromSlot(n) ==
  /\ At(n, "clone")
  /\ \E s \in Servers : calls' = [calls EXCEPT ![n].conn = slot[s], ![n].pc = "open"]
  /\ UNCHANGED <<connVars, subs, registered, channel, serving, loop, viewCalls>>

CloneConnection(n) ==
  /\ At(n, "clone")
  /\ calls' = [calls EXCEPT ![n].conn = current, ![n].pc = "open"]
  /\ UNCHANGED <<connVars, subs, registered, channel, serving, loop, viewCalls>>

Send(n, request) ==
  channel' = IF calls[n].conn \in alive
               THEN [channel EXCEPT ![n] = Append(@, request)] ELSE channel

OpenSync(n) ==
  /\ At(n, "open")
  /\ registered' = registered \cup {n}
  /\ Send(n, "subscribe")
  /\ calls' = [calls EXCEPT ![n].pc = "settle"]
  /\ UNCHANGED <<connVars, subs, serving, loop, viewCalls>>

\* Mutants of Settle: only a stream of the handle's connection is settled; a
\* stream that was unsubscribed meanwhile is closed but listed.
SettleIfCurrent(n) ==
  LET k == calls[n].key IN
  /\ At(n, "settle")
  /\ IF subs[k] # Absent /\ calls[n].conn = current
       THEN /\ subs' = [subs EXCEPT ![k] = Active(n)]
            /\ calls' = [calls EXCEPT ![n].pc = "kept"]
            /\ UNCHANGED registered
       ELSE /\ registered' = registered \ {n}
            /\ calls' = [calls EXCEPT ![n].pc = "done"]
            /\ UNCHANGED subs
  /\ UNCHANGED <<connVars, channel, serving, loop, viewCalls>>

SettleListed(n) ==
  LET k == calls[n].key IN
  /\ At(n, "settle")
  /\ subs' = [subs EXCEPT ![k] = Active(n)]
  /\ calls' = [calls EXCEPT ![n].pc = "kept"]
  /\ registered' = IF subs[k] # Absent THEN registered ELSE registered \ {n}
  /\ UNCHANGED <<connVars, channel, serving, loop, viewCalls>>

\* The stream is kept if the key is still in the map, whoever put it there;
\* otherwise it was unsubscribed, and the stream is forgotten on this side only.
Settle(n) ==
  LET k == calls[n].key IN
  /\ At(n, "settle")
  /\ IF subs[k] # Absent
       THEN /\ subs' = [subs EXCEPT ![k] = Active(n)]
            /\ calls' = [calls EXCEPT ![n].pc = "kept"]
            /\ UNCHANGED registered
       ELSE /\ registered' = registered \ {n}
            /\ calls' = [calls EXCEPT ![n].pc = "done"]
            /\ UNCHANGED subs
  /\ UNCHANGED <<connVars, channel, serving, loop, viewCalls>>

-----------------------------------------------------------------------------
(* unsubscribe and its task.                                               *)

Unsubscribe(k) ==
  LET n == subs[k].stream IN
  /\ k \notin StandingKeys
  /\ subs[k] # Absent
  /\ subs' = [subs EXCEPT ![k] = Absent]
  /\ calls' = IF subs[k] = Pending THEN calls ELSE [calls EXCEPT ![n].pc = "dropped"]
  /\ UNCHANGED <<connVars, registered, channel, serving, loop, viewCalls>>

\* The handle's connection is read again: it need not be the stream's.
CloneToClose(n) ==
  /\ At(n, "dropped")
  /\ calls' = [calls EXCEPT ![n].via = current, ![n].pc = "close"]
  /\ UNCHANGED <<connVars, subs, registered, channel, serving, loop, viewCalls>>

\* Mutant of CloseSync: the stream is only forgotten on this side.
CloseSyncLocally(n) ==
  /\ At(n, "close")
  /\ registered' = IF calls[n].via = calls[n].conn THEN registered \ {n} ELSE registered
  /\ calls' = [calls EXCEPT ![n].pc = "done", ![n].via = NoConn]
  /\ UNCHANGED <<connVars, subs, channel, serving, loop, viewCalls>>

\* close_sync sends through the stream's own channel, then forgets the stream in
\* the registry of the connection it was given.
CloseSync(n) ==
  /\ At(n, "close")
  /\ Send(n, "close")
  /\ registered' = IF calls[n].via = calls[n].conn THEN registered \ {n} ELSE registered
  /\ calls' = [calls EXCEPT ![n].pc = "done", ![n].via = NoConn]
  /\ UNCHANGED <<connVars, subs, serving, loop, viewCalls>>

\* The server's responder handles the next request of a stream.
Serve(n) ==
  /\ n \in DOMAIN calls /\ channel[n] # <<>>
  /\ channel' = [channel EXCEPT ![n] = Tail(@)]
  /\ serving' = IF Head(channel[n]) = "subscribe" THEN serving \cup {n} ELSE serving \ {n}
  /\ UNCHANGED <<connVars, subs, calls, registered, loop, viewCalls>>

-----------------------------------------------------------------------------
LoopStep ==
  RegisterConnection \/ ForgetSubscriptions \/ Swap \/ SubscribeStanding \/ BackToPolling

CallStep(n) ==
  \/ CloneConnection(n) \/ OpenSync(n) \/ Settle(n)
  \/ CloneToClose(n) \/ CloseSync(n)
  \/ Serve(n)

ClientNext ==
  \/ \E s \in Servers : Dial(s) \/ EmptySlot(s)
  \/ \E c \in alive : Fail(c)
  \/ LoopStep
  \/ \E k \in Keys : Subscribe(k) \/ Unsubscribe(k)
  \/ \E n \in DOMAIN calls : CallStep(n)

ClientSpec == ClientInit /\ [][ClientNext]_csVars

\* The process's tasks run, and so do the server's.  Whether a dial succeeds, a
\* socket fails or a view calls is not promised.
ClientFairness ==
  /\ WF_csVars(LoopStep)
  /\ WF_csVars(\E s \in Servers : EmptySlot(s))
  /\ WF_csVars(\E n \in DOMAIN calls : CallStep(n))

FairClientSpec == ClientSpec /\ ClientFairness

-----------------------------------------------------------------------------
(* Properties.                                                             *)

(***************************************************************************)
(* An entry that says Pending is settled (SyncHandle::subscribe): a task   *)
(* that will look at it is under way, whatever unsubscribes, subscribes    *)
(* again or reconnects meanwhile.  Otherwise every later subscribe would   *)
(* find the key taken and nothing would ever be opened for it.             *)
(***************************************************************************)
PendingIsAttended ==
  \A k \in Keys : subs[k] = Pending =>
    \E n \in DOMAIN calls : calls[n].key = k /\ calls[n].pc \in {"clone", "open", "settle"}

(***************************************************************************)
(* An entry that says Active stands for a stream that brings its key's     *)
(* data (SubState::Active): the client has it registered, and as long as   *)
(* its connection lives the server serves it or is about to.               *)
(***************************************************************************)
ActiveIsOpen ==
  \A k \in Keys, n \in DOMAIN calls : subs[k] = Active(n) =>
    /\ calls[n].key = k
    /\ n \in registered
    /\ calls[n].conn \in alive => n \in serving \/ channel[n] # <<>>

(***************************************************************************)
(* A server that came back is listed with the connection that lives        *)
(* (register_connection: "a reconnect replaces the dead entry rather than  *)
(* being ignored"), once the loop has registered it.                       *)
(***************************************************************************)
EntriesFollow ==
  \A s \in Servers :
    (slot[s] \in alive /\ ~(loop.pc = "register" /\ loop.conn = slot[s])) => entry[s] = slot[s]

(***************************************************************************)
(* What unsubscribe takes out of the map ends (unsubscribe, close_sync):   *)
(* in the end the server no longer serves the stream, even if the client   *)
(* has reconnected before the task that closes it runs.                    *)
(***************************************************************************)
Dropped(n) == At(n, "dropped")
Ended(n)   == n \notin serving /\ channel[n] = <<>>

DroppedEnds ==
  \A n \in 1..(MaxViewCalls + MaxConns * Len(Standing)) :
    Dropped(n) ~> [](n \in DOMAIN calls /\ Ended(n))

(***************************************************************************)
(* The standing subscriptions follow the connection (spawn_client_sync):   *)
(* while a server is connected, what the client always wants is served on  *)
(* a live connection, through every reconnect.                             *)
(***************************************************************************)
Served(k) ==
  \E n \in registered \cap serving : calls[n].key = k /\ calls[n].conn \in alive

StandingIsServed == []<>(alive = {} \/ \A k \in StandingKeys : Served(k))
=============================================================================
