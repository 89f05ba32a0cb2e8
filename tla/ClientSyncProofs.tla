--------------------------- MODULE ClientSyncProofs ---------------------------
(***************************************************************************)
(* The client's subscriptions, proved for any servers, keys, standing      *)
(* subscriptions and bounds: types, that a pending entry is attended, that *)
(* an active one is open, and that a server's entry follows its slot.      *)
(***************************************************************************)
EXTENDS ClientSync, SequenceTheorems, TLAPS

-----------------------------------------------------------------------------
(* Types, in two parts.                                                    *)

ConnTypes ==
  /\ serverOf \in Seq(Servers) /\ Len(serverOf) <= MaxConns
  /\ alive \in SUBSET DOMAIN serverOf
  /\ slot \in [Servers -> {NoConn} \cup DOMAIN serverOf]
  /\ entry \in [Servers -> {NoConn} \cup DOMAIN serverOf]
  /\ current \in {NoConn} \cup DOMAIN serverOf
  /\ loop \in Loop
  /\ loop.pc # "poll" => loop.conn \in DOMAIN serverOf
  /\ loop.pc = "standing" => current # NoConn
  /\ viewCalls \in 0..MaxViewCalls

CallTypes ==
  /\ calls \in Seq(Call)
  /\ channel \in Seq(Seq({"subscribe", "close"})) /\ Len(channel) = Len(calls)
  /\ subs \in [Keys -> {Absent, Pending} \cup {Active(n) : n \in DOMAIN calls}]
  /\ registered \in SUBSET DOMAIN calls
  /\ serving \in SUBSET DOMAIN calls
  /\ \A n \in DOMAIN calls : calls[n].pc # "clone" => calls[n].conn \in DOMAIN serverOf
  /\ DOMAIN calls # {} => current # NoConn

\* An entry that says Active stands for a call of its key that was kept.
ActiveIsKept ==
  \A k \in Keys, n \in DOMAIN calls :
    subs[k] = Active(n) => calls[n].key = k /\ calls[n].pc = "kept"

LEMMA TypesSplit == (ConnTypes /\ CallTypes) => ClientTypeOK
  BY DEF ConnTypes, CallTypes, ClientTypeOK

LEMMA ConnsAreNumbers ==
  ASSUME ConnTypes
  PROVE  /\ DOMAIN serverOf = 1..Len(serverOf) /\ Len(serverOf) \in Nat
         /\ DOMAIN serverOf \subseteq Conn /\ NoConn \notin DOMAIN serverOf
  BY ClientSyncAssumption DEF ConnTypes, Conn, NoConn

LEMMA ConnTypesInitially == ClientInit => ConnTypes
  BY ClientSyncAssumption DEF ClientInit, ConnTypes, Loop, LoopIdle, NoConn

LEMMA CallTypesInitially == ClientInit => CallTypes
<1> SUFFICES ASSUME ClientInit PROVE CallTypes
  OBVIOUS
<1>1. calls = <<>> /\ channel = <<>> /\ DOMAIN calls = {} /\ Len(calls) = 0 /\ Len(channel) = 0
  BY DEF ClientInit
<1> QED BY <1>1 DEF ClientInit, CallTypes

LEMMA ConnTypesKept ==
  ASSUME ConnTypes, CallTypes, [ClientNext]_csVars PROVE ConnTypes'
<1> USE ConnsAreNumbers, ClientSyncAssumption
<1>1. CASE UNCHANGED csVars
  BY <1>1 DEF csVars, connVars, ConnTypes
<1>2. ASSUME NEW s \in Servers, Dial(s) PROVE ConnTypes'
  <2>1. /\ serverOf' = Append(serverOf, s) /\ serverOf' \in Seq(Servers)
        /\ Len(serverOf') = Len(serverOf) + 1 /\ Len(serverOf') <= MaxConns
        /\ DOMAIN serverOf' = 1..(Len(serverOf) + 1)
    BY <1>2 DEF Dial, ConnTypes
  <2>2. Len(serverOf) + 1 \in DOMAIN serverOf' /\ DOMAIN serverOf \subseteq DOMAIN serverOf'
    BY <2>1
  <2>3. loop' \in Loop /\ loop'.conn = Len(serverOf) + 1 /\ loop'.pc = "register"
    BY <1>2, <2>1 DEF Dial, Loop, Conn
  <2> QED BY <1>2, <2>1, <2>2, <2>3 DEF Dial, ConnTypes
<1>3. ASSUME NEW s \in Servers, EmptySlot(s) PROVE ConnTypes'
  BY <1>3 DEF EmptySlot, ConnTypes
<1>4. ASSUME NEW c \in alive, Fail(c) PROVE ConnTypes'
  BY <1>4 DEF Fail, ConnTypes
<1>5. CASE LoopStep
  <2>1. CASE RegisterConnection
    <3>1. loop.pc = "register" /\ loop.conn \in DOMAIN serverOf
      BY <2>1 DEF RegisterConnection, ConnTypes
    <3>2. serverOf[loop.conn] \in Servers
      BY <3>1 DEF ConnTypes
    <3>3. loop' = [loop EXCEPT !.pc = "clear"]
      BY <2>1 DEF RegisterConnection
    <3>4. loop' \in Loop /\ loop'.conn = loop.conn /\ loop'.pc = "clear"
      BY <3>3 DEF ConnTypes, Loop
    <3>5. entry' \in [Servers -> {NoConn} \cup DOMAIN serverOf]
      BY <2>1, <3>1, <3>2 DEF RegisterConnection, ConnTypes
    <3> QED BY <2>1, <3>1, <3>4, <3>5 DEF RegisterConnection, ConnTypes
  <2>2. CASE ForgetSubscriptions
    BY <2>2 DEF ForgetSubscriptions, ConnTypes, Loop, connVars
  <2>3. CASE Swap
    BY <2>3 DEF Swap, ConnTypes, Loop
  <2>4. CASE SubscribeStanding
    <3>1. Tail(loop.todo) \in Seq(Keys)
      BY <2>4 DEF SubscribeStanding, ConnTypes, Loop
    <3> QED BY <2>4, <3>1 DEF SubscribeStanding, ConnTypes, Loop, connVars
  <2>5. CASE BackToPolling
    BY <2>5 DEF BackToPolling, ConnTypes, Loop, LoopIdle, connVars
  <2> QED BY <1>5, <2>1, <2>2, <2>3, <2>4, <2>5 DEF LoopStep
<1>6. ASSUME NEW k \in Keys, Subscribe(k) PROVE ConnTypes'
  BY <1>6 DEF Subscribe, ConnTypes, connVars
<1>7. ASSUME NEW k \in Keys, Unsubscribe(k) PROVE ConnTypes'
  BY <1>7 DEF Unsubscribe, ConnTypes, connVars
<1>8. ASSUME NEW n \in DOMAIN calls, CallStep(n) PROVE ConnTypes'
  BY <1>8 DEF CallStep, CloneConnection, OpenSync, Settle, CloneToClose, CloseSync, Serve,
     ConnTypes, connVars
<1> QED BY <1>1, <1>2, <1>3, <1>4, <1>5, <1>6, <1>7, <1>8 DEF ClientNext

-----------------------------------------------------------------------------
(* The calls.                                                              *)

\* One call moves on; the others stay as they are.
Rewritten(n, c) == calls' = [calls EXCEPT ![n] = c]

LEMMA RewrittenCalls ==
  ASSUME CallTypes, NEW n \in DOMAIN calls, NEW c \in Call, Rewritten(n, c)
  PROVE  /\ calls' \in Seq(Call) /\ Len(calls') = Len(calls) /\ DOMAIN calls' = DOMAIN calls
         /\ calls'[n] = c
         /\ \A i \in DOMAIN calls : i # n => calls'[i] = calls[i]
  BY ExceptSeq DEF CallTypes, Rewritten

LEMMA RewrittenChannel ==
  ASSUME CallTypes, NEW n \in DOMAIN calls, NEW q \in Seq({"subscribe", "close"}),
         channel' = [channel EXCEPT ![n] = q]
  PROVE  /\ channel' \in Seq(Seq({"subscribe", "close"})) /\ Len(channel') = Len(channel)
         /\ channel'[n] = q
         /\ \A i \in DOMAIN calls : i # n => channel'[i] = channel[i]
<1>1. n \in 1..Len(channel) /\ DOMAIN channel = DOMAIN calls
  BY DEF CallTypes
<1> QED BY <1>1, ExceptSeq DEF CallTypes

\* What each step of a call's task makes of the call.
LEMMA CallMoves ==
  ASSUME CallTypes, ConnTypes, NEW n \in DOMAIN calls
  PROVE  /\ CloneConnection(n) => Rewritten(n, [calls[n] EXCEPT !.conn = current, !.pc = "open"])
         /\ OpenSync(n) => Rewritten(n, [calls[n] EXCEPT !.pc = "settle"])
         /\ Settle(n) => Rewritten(n, [calls[n] EXCEPT
                           !.pc = IF subs[calls[n].key] # Absent THEN "kept" ELSE "done"])
         /\ CloneToClose(n) => Rewritten(n, [calls[n] EXCEPT !.via = current, !.pc = "close"])
         /\ CloseSync(n) => Rewritten(n, [calls[n] EXCEPT !.pc = "done", !.via = NoConn])
  BY DEF CallTypes, Rewritten, CloneConnection, OpenSync, Settle, CloneToClose, CloseSync

LEMMA CallStepKeepsTypes ==
  ASSUME CallTypes, ConnTypes, NEW n \in DOMAIN calls, CallStep(n)
  PROVE  CallTypes'
<1> USE ConnsAreNumbers
<1>1. UNCHANGED <<serverOf, current>>
  BY DEF CallStep, CloneConnection, OpenSync, Settle, CloneToClose, CloseSync, Serve, connVars
<1>2. calls[n] \in Call /\ n \in 1..Len(channel) /\ calls[n].key \in Keys
  <2>1. calls[n] \in Call /\ DOMAIN calls = 1..Len(channel)
    BY DEF CallTypes
  <2>2. calls[n].key \in Keys
    BY <2>1 DEF Call
  <2> QED BY <2>1, <2>2
<1>3. channel' \in Seq(Seq({"subscribe", "close"})) /\ Len(channel') = Len(channel)
  <2>1. channel[n] \in Seq({"subscribe", "close"})
    BY <1>2 DEF CallTypes
  <2>2. /\ Append(channel[n], "subscribe") \in Seq({"subscribe", "close"})
        /\ Append(channel[n], "close") \in Seq({"subscribe", "close"})
        /\ channel[n] # <<>> => Tail(channel[n]) \in Seq({"subscribe", "close"})
    BY <2>1
  <2>3. \/ UNCHANGED channel
        \/ \E q \in Seq({"subscribe", "close"}) : channel' = [channel EXCEPT ![n] = q]
    BY <2>2 DEF CallStep, CloneConnection, OpenSync, Settle, CloneToClose, CloseSync, Serve, Send
  <2> QED BY <2>3, RewrittenChannel DEF CallTypes
<1>4. /\ registered' \in SUBSET DOMAIN calls /\ serving' \in SUBSET DOMAIN calls
      /\ subs' \in [Keys -> {Absent, Pending} \cup {Active(i) : i \in DOMAIN calls}]
  <2>1. registered' \in SUBSET DOMAIN calls
    BY DEF CallStep, CloneConnection, OpenSync, Settle, CloneToClose, CloseSync, Serve, CallTypes
  <2>2. serving' \in SUBSET DOMAIN calls
    BY DEF CallStep, CloneConnection, OpenSync, Settle, CloneToClose, CloseSync, Serve, CallTypes
  <2>3. subs' = subs \/ subs' = [subs EXCEPT ![calls[n].key] = Active(n)]
    BY DEF CallStep, CloneConnection, OpenSync, Settle, CloneToClose, CloseSync, Serve
  <2>4. Active(n) \in {Active(i) : i \in DOMAIN calls}
    OBVIOUS
  <2>5. subs \in [Keys -> {Absent, Pending} \cup {Active(i) : i \in DOMAIN calls}]
    BY DEF CallTypes
  <2> HIDE DEF Active, Absent, Pending
  <2>6. subs' \in [Keys -> {Absent, Pending} \cup {Active(i) : i \in DOMAIN calls}]
    BY <1>2, <2>3, <2>4, <2>5
  <2> QED BY <2>1, <2>2, <2>6
<1>5. CASE Serve(n)
  BY <1>1, <1>3, <1>4, <1>5 DEF Serve, CallTypes
<1>6. ASSUME NEW c \in Call, Rewritten(n, c), c.pc # "clone" => c.conn \in DOMAIN serverOf
      PROVE  CallTypes'
  <2>1. /\ calls' \in Seq(Call) /\ Len(calls') = Len(calls) /\ DOMAIN calls' = DOMAIN calls
        /\ calls'[n] = c
        /\ \A i \in DOMAIN calls : i # n => calls'[i] = calls[i]
    BY <1>6, RewrittenCalls
  <2>2. \A i \in DOMAIN calls' : calls'[i].pc # "clone" => calls'[i].conn \in DOMAIN serverOf'
    BY <1>1, <1>6, <2>1 DEF CallTypes
  <2>3. DOMAIN calls' # {} => current' # NoConn
    BY <1>1, <2>1 DEF CallTypes
  <2> QED BY <1>3, <1>4, <2>1, <2>2, <2>3 DEF CallTypes
<1>7. calls[n].pc # "clone" => calls[n].conn \in DOMAIN serverOf
  BY DEF CallTypes
<1>8. current \in Conn \cup {NoConn} /\ NoConn \in Conn \cup {NoConn}
  BY DEF ConnTypes
<1>9. (calls[n].pc = "clone" \/ calls[n].pc = "dropped") => current \in DOMAIN serverOf
  BY DEF ConnTypes, CallTypes
<1>10. CASE CloneConnection(n)
  <2> DEFINE c == [calls[n] EXCEPT !.conn = current, !.pc = "open"]
  <2>1. c \in Call /\ c.conn = current /\ c.pc = "open"
    BY <1>2, <1>8 DEF Call, CallStage
  <2>2. calls[n].pc = "clone" /\ Rewritten(n, c)
    BY <1>10, CallMoves DEF CloneConnection, At
  <2> HIDE DEF c
  <2> QED BY <1>6, <1>9, <2>1, <2>2
<1>11. CASE OpenSync(n)
  <2> DEFINE c == [calls[n] EXCEPT !.pc = "settle"]
  <2>1. c \in Call /\ c.conn = calls[n].conn /\ c.pc = "settle"
    BY <1>2 DEF Call, CallStage
  <2>2. calls[n].pc = "open" /\ Rewritten(n, c)
    BY <1>11, CallMoves DEF OpenSync, At
  <2> HIDE DEF c
  <2> QED BY <1>6, <1>7, <2>1, <2>2
<1>12. CASE Settle(n)
  <2> DEFINE c == [calls[n] EXCEPT !.pc = IF subs[calls[n].key] # Absent THEN "kept" ELSE "done"]
  <2>1. c \in Call /\ c.conn = calls[n].conn /\ c.pc \in {"kept", "done"}
    BY <1>2 DEF Call, CallStage
  <2>2. calls[n].pc = "settle" /\ Rewritten(n, c)
    BY <1>12, CallMoves DEF Settle, At
  <2> HIDE DEF c
  <2> QED BY <1>6, <1>7, <2>1, <2>2
<1>13. CASE CloneToClose(n)
  <2> DEFINE c == [calls[n] EXCEPT !.via = current, !.pc = "close"]
  <2>1. c \in Call /\ c.conn = calls[n].conn /\ c.pc = "close"
    BY <1>2, <1>8 DEF Call, CallStage
  <2>2. calls[n].pc = "dropped" /\ Rewritten(n, c)
    BY <1>13, CallMoves DEF CloneToClose, At
  <2> HIDE DEF c
  <2> QED BY <1>6, <1>7, <2>1, <2>2
<1>14. CASE CloseSync(n)
  <2> DEFINE c == [calls[n] EXCEPT !.pc = "done", !.via = NoConn]
  <2>1. c \in Call /\ c.conn = calls[n].conn /\ c.pc = "done"
    BY <1>2 DEF Call, CallStage
  <2>2. calls[n].pc = "close" /\ Rewritten(n, c)
    BY <1>14, CallMoves DEF CloseSync, At
  <2> HIDE DEF c
  <2> QED BY <1>6, <1>7, <2>1, <2>2
<1> QED BY <1>5, <1>10, <1>11, <1>12, <1>13, <1>14 DEF CallStep

\* A new call is appended, its key pending.
Inserted(k, c, pc, n) ==
  /\ calls' \in Seq(Call) /\ Len(calls') = n /\ DOMAIN calls' = DOMAIN calls \cup {n}
  /\ calls'[n] = [key |-> k, conn |-> c, pc |-> pc, via |-> NoConn]
  /\ n \notin DOMAIN calls /\ n = Len(calls) + 1
  /\ \A i \in DOMAIN calls : calls'[i] = calls[i] /\ channel'[i] = channel[i]
  /\ channel' \in Seq(Seq({"subscribe", "close"})) /\ Len(channel') = n
  /\ channel'[n] = <<>>
  /\ subs' = [subs EXCEPT ![k] = Pending]
  /\ registered' = registered /\ serving' = serving

LEMMA InsertedCall ==
  ASSUME CallTypes, NEW k \in Keys, NEW c \in Conn \cup {NoConn}, NEW pc \in {"clone", "open"},
         Insert(k, c, pc), subs[k] = Absent
  PROVE  \E n \in Nat : Inserted(k, c, pc, n)
<1> DEFINE e == [key |-> k, conn |-> c, pc |-> pc, via |-> NoConn]
<1>1. e \in Call
  BY DEF Call, CallStage
<1>2. calls' = Append(calls, e) /\ channel' = Append(channel, <<>>)
      /\ subs' = [subs EXCEPT ![k] = Pending] /\ UNCHANGED <<registered, serving>>
  BY DEF Insert
<1>3. <<>> \in Seq({"subscribe", "close"})
  OBVIOUS
<1> HIDE DEF e
<1>4. /\ calls' \in Seq(Call) /\ Len(calls') = Len(calls) + 1
      /\ calls'[Len(calls) + 1] = e
      /\ \A i \in 1..Len(calls) : calls'[i] = calls[i]
  BY <1>1, <1>2, AppendProperties DEF CallTypes
<1>5. /\ channel' \in Seq(Seq({"subscribe", "close"})) /\ Len(channel') = Len(calls) + 1
      /\ channel'[Len(calls) + 1] = <<>>
      /\ \A i \in 1..Len(calls) : channel'[i] = channel[i]
  BY <1>2, <1>3, AppendProperties DEF CallTypes
<1>6. Len(calls) + 1 \in Nat /\ Len(calls) + 1 \notin DOMAIN calls
      /\ DOMAIN calls' = DOMAIN calls \cup {Len(calls) + 1} /\ DOMAIN calls = 1..Len(calls)
  BY <1>4 DEF CallTypes
<1>7. Inserted(k, c, pc, Len(calls) + 1)
  BY <1>2, <1>4, <1>5, <1>6 DEF e, Inserted
<1> QED BY <1>6, <1>7

LEMMA InsertKeepsTypes ==
  ASSUME CallTypes, ConnTypes, NEW k \in Keys, NEW c \in Conn \cup {NoConn},
         NEW pc \in {"clone", "open"}, Insert(k, c, pc), UNCHANGED <<serverOf, current>>,
         current # NoConn, pc # "clone" => c \in DOMAIN serverOf
  PROVE  CallTypes'
<1>1. CASE subs[k] # Absent
  BY <1>1 DEF Insert, CallTypes, callVars
<1>2. CASE subs[k] = Absent
  <2>1. PICK n \in Nat : Inserted(k, c, pc, n)
    BY <1>2, InsertedCall
  <2> USE DEF Inserted
  <2>2. \A i \in DOMAIN calls' : calls'[i].pc # "clone" => calls'[i].conn \in DOMAIN serverOf'
    <3> SUFFICES ASSUME NEW i \in DOMAIN calls', calls'[i].pc # "clone"
                 PROVE  calls'[i].conn \in DOMAIN serverOf
      OBVIOUS
    <3>1. CASE i = n
      BY <2>1, <3>1
    <3>2. CASE i # n
      <4>1. i \in DOMAIN calls /\ calls'[i] = calls[i]
        BY <2>1, <3>2
      <4> QED BY <4>1 DEF CallTypes
    <3> QED BY <3>1, <3>2
  <2>3. subs' \in [Keys -> {Absent, Pending} \cup {Active(i) : i \in DOMAIN calls'}]
    BY <2>1 DEF CallTypes
  <2>4. registered' \in SUBSET DOMAIN calls' /\ serving' \in SUBSET DOMAIN calls'
    BY <2>1 DEF CallTypes
  <2> QED BY <2>1, <2>2, <2>3, <2>4 DEF CallTypes
<1> QED BY <1>1, <1>2

LEMMA CallTypesKept ==
  ASSUME CallTypes, ConnTypes, ActiveIsKept, [ClientNext]_csVars PROVE CallTypes'
<1> USE ConnsAreNumbers, ClientSyncAssumption
<1>1. CASE UNCHANGED csVars
  BY <1>1 DEF csVars, connVars, callVars, CallTypes
<1>2. ASSUME NEW s \in Servers, Dial(s) PROVE CallTypes'
  <2>1. DOMAIN serverOf \subseteq DOMAIN serverOf'
    BY <1>2 DEF Dial, ConnTypes
  <2> QED BY <1>2, <2>1 DEF Dial, CallTypes, callVars
<1>3. ASSUME NEW s \in Servers, EmptySlot(s) PROVE CallTypes'
  BY <1>3 DEF EmptySlot, CallTypes, callVars
<1>4. ASSUME NEW c \in alive, Fail(c) PROVE CallTypes'
  <2>1. channel' \in [1..Len(calls) -> Seq({"subscribe", "close"})]
    BY <1>4 DEF Fail, CallTypes
  <2>2. channel' \in Seq(Seq({"subscribe", "close"})) /\ Len(channel') = Len(calls)
    <3>1. Len(calls) \in Nat
      BY DEF CallTypes
    <3>2. channel' \in Seq(Seq({"subscribe", "close"}))
      BY <2>1, <3>1, SeqDef
    <3> QED BY <2>1, <3>1, <3>2, LenProperties
  <2> QED BY <1>4, <2>2 DEF Fail, CallTypes
<1>5. CASE LoopStep
  <2>1. CASE RegisterConnection \/ BackToPolling
    BY <2>1 DEF RegisterConnection, BackToPolling, CallTypes, connVars, callVars
  <2>2. CASE ForgetSubscriptions
    BY <2>2 DEF ForgetSubscriptions, CallTypes, connVars, callVars
  <2>3. CASE Swap
    BY <2>3 DEF Swap, CallTypes, ConnTypes, callVars
  <2>4. CASE SubscribeStanding
    <3>1. Head(loop.todo) \in Keys /\ current \in DOMAIN serverOf
      BY <2>4 DEF SubscribeStanding, ConnTypes, Loop
    <3> QED BY <2>4, <3>1, InsertKeepsTypes DEF SubscribeStanding, connVars
  <2> QED BY <1>5, <2>1, <2>2, <2>3, <2>4 DEF LoopStep
<1>6. ASSUME NEW k \in Keys, Subscribe(k) PROVE CallTypes'
  BY <1>6, InsertKeepsTypes DEF Subscribe, connVars
<1>7. ASSUME NEW k \in Keys, Unsubscribe(k) PROVE CallTypes'
  <2>1. UNCHANGED <<serverOf, current, registered, channel, serving>>
        /\ subs' \in [Keys -> {Absent, Pending} \cup {Active(i) : i \in DOMAIN calls}]
    BY <1>7 DEF Unsubscribe, CallTypes, connVars
  <2>2. CASE subs[k] = Pending
    BY <1>7, <2>1, <2>2 DEF Unsubscribe, CallTypes
  <2>3. CASE subs[k] # Pending
    <3> DEFINE n == subs[k].stream
               c == [calls[n] EXCEPT !.pc = "dropped"]
    <3>1. n \in DOMAIN calls /\ subs[k] = Active(n)
      BY <1>7, <2>3 DEF Unsubscribe, CallTypes, Active
    <3>2. Rewritten(n, c)
      BY <1>7, <2>3, <3>1 DEF Unsubscribe, Rewritten
    <3>3. calls[n] \in Call
      BY <3>1 DEF CallTypes
    <3>4. c \in Call /\ c.conn = calls[n].conn /\ c.pc = "dropped"
      BY <3>3 DEF Call, CallStage
    <3>5. c.conn \in DOMAIN serverOf
      BY <3>1, <3>4 DEF CallTypes, ActiveIsKept
    <3> HIDE DEF n, c
    <3>6. /\ calls' \in Seq(Call) /\ Len(calls') = Len(calls) /\ DOMAIN calls' = DOMAIN calls
          /\ calls'[n] = c
          /\ \A i \in DOMAIN calls : i # n => calls'[i] = calls[i]
      BY <3>1, <3>2, <3>4, RewrittenCalls
    <3> QED BY <3>1, <3>2, <3>4, <3>5, <2>1, <3>6 DEF CallTypes
  <2> QED BY <2>2, <2>3
<1>8. ASSUME NEW n \in DOMAIN calls, CallStep(n) PROVE CallTypes'
  BY <1>8, CallStepKeepsTypes
<1> QED BY <1>1, <1>2, <1>3, <1>4, <1>5, <1>6, <1>7, <1>8 DEF ClientNext

-----------------------------------------------------------------------------
(* What is under way for an entry, and for a stream.                       *)

LEMMA AttendedKept ==
  ASSUME CallTypes, ConnTypes, ActiveIsKept, PendingIsAttended, [ClientNext]_csVars
  PROVE  PendingIsAttended'
<1>1. ASSUME UNCHANGED calls, \A k \in Keys : subs'[k] = Pending => subs[k] = Pending
      PROVE  PendingIsAttended'
  BY <1>1 DEF PendingIsAttended
<1>2. ASSUME NEW k \in Keys, NEW c \in Conn \cup {NoConn}, NEW pc \in {"clone", "open"}, Insert(k, c, pc)
      PROVE  PendingIsAttended'
  <2>1. CASE subs[k] # Absent
    BY <1>1, <1>2, <2>1 DEF Insert, callVars
  <2>2. CASE subs[k] = Absent
    <3>1. PICK n \in Nat : Inserted(k, c, pc, n)
      BY <1>2, <2>2, InsertedCall
    <3>2. ASSUME NEW j \in Keys, subs'[j] = Pending
          PROVE  \E i \in DOMAIN calls' :
                   calls'[i].key = j /\ calls'[i].pc \in {"clone", "open", "settle"}
      <4>1. CASE j = k
        <5>1. n \in DOMAIN calls' /\ calls'[n].key = k /\ calls'[n].pc = pc
          BY <3>1 DEF Inserted
        <5> QED BY <4>1, <5>1
      <4>2. CASE j # k
        <5>1. subs[j] = Pending
          BY <3>1, <3>2, <4>2 DEF Inserted, CallTypes
        <5>2. PICK i \in DOMAIN calls : calls[i].key = j /\ calls[i].pc \in {"clone", "open", "settle"}
          BY <5>1 DEF PendingIsAttended
        <5>3. i \in DOMAIN calls' /\ calls'[i] = calls[i]
          BY <3>1 DEF Inserted
        <5> QED BY <5>2, <5>3
      <4> QED BY <4>1, <4>2
    <3> QED BY <3>2 DEF PendingIsAttended
  <2> QED BY <2>1, <2>2
<1>3. ASSUME NEW n \in DOMAIN calls, NEW c \in Call, Rewritten(n, c), c.key = calls[n].key,
             \A k \in Keys : subs'[k] = Pending => subs[k] = Pending,
             \/ calls[n].pc \notin {"clone", "open", "settle"}
             \/ c.pc \in {"clone", "open", "settle"}
             \/ subs'[calls[n].key] # Pending
      PROVE  PendingIsAttended'
  <2>1. /\ DOMAIN calls' = DOMAIN calls /\ calls'[n] = c
        /\ \A i \in DOMAIN calls : i # n => calls'[i] = calls[i]
    BY <1>3, RewrittenCalls
  <2> QED BY <1>3, <2>1 DEF PendingIsAttended
<1>4. Absent # Pending /\ \A n : Active(n) # Pending
  BY DEF Absent, Pending, Active
<1>5. CASE UNCHANGED csVars
  BY <1>1, <1>5 DEF csVars, callVars
<1>6. ASSUME NEW s \in Servers, Dial(s) \/ EmptySlot(s) PROVE PendingIsAttended'
  BY <1>1, <1>6 DEF Dial, EmptySlot, callVars
<1>7. ASSUME NEW c \in alive, Fail(c) PROVE PendingIsAttended'
  BY <1>1, <1>7 DEF Fail
<1>8. CASE LoopStep
  <2>1. CASE RegisterConnection \/ BackToPolling \/ Swap
    BY <1>1, <2>1 DEF RegisterConnection, BackToPolling, Swap, callVars
  <2>2. CASE ForgetSubscriptions
    BY <1>1, <1>4, <2>2 DEF ForgetSubscriptions, callVars
  <2>3. CASE SubscribeStanding
    <3>1. Head(loop.todo) \in Keys /\ current \in Conn \cup {NoConn}
      BY <2>3, ConnsAreNumbers DEF SubscribeStanding, ConnTypes, Loop
    <3> QED BY <1>2, <2>3, <3>1 DEF SubscribeStanding
  <2> QED BY <1>8, <2>1, <2>2, <2>3 DEF LoopStep
<1>9. ASSUME NEW k \in Keys, Subscribe(k) PROVE PendingIsAttended'
  BY <1>2, <1>9 DEF Subscribe
<1>10. ASSUME NEW k \in Keys, Unsubscribe(k) PROVE PendingIsAttended'
  <2>1. \A j \in Keys : subs'[j] = Pending => subs[j] = Pending
    BY <1>4, <1>10 DEF Unsubscribe, CallTypes
  <2>2. CASE subs[k] = Pending
    BY <1>1, <1>10, <2>1, <2>2 DEF Unsubscribe
  <2>3. CASE subs[k] # Pending
    <3>1. PICK n \in DOMAIN calls : subs[k] = Active(n)
      BY <1>10, <2>3 DEF Unsubscribe, CallTypes
    <3>2. subs[k].stream = n /\ calls[n].pc = "kept" /\ calls[n] \in Call
      BY <3>1 DEF Active, ActiveIsKept, CallTypes
    <3> DEFINE c == [calls[n] EXCEPT !.pc = "dropped"]
    <3>3. c \in Call /\ c.key = calls[n].key
      BY <3>2 DEF Call, CallStage
    <3>4. Rewritten(n, c)
      BY <1>10, <2>3, <3>2 DEF Unsubscribe, Rewritten
    <3> HIDE DEF c
    <3> QED BY <1>3, <2>1, <3>2, <3>3, <3>4
  <2> QED BY <2>2, <2>3
<1>11. ASSUME NEW n \in DOMAIN calls, CallStep(n) PROVE PendingIsAttended'
  <2>1. calls[n] \in Call /\ calls[n].key \in Keys
    <3>1. calls[n] \in Call
      BY DEF CallTypes
    <3> QED BY <3>1 DEF Call
  <2>2. CASE CloneConnection(n)
    <3> DEFINE c == [calls[n] EXCEPT !.conn = current, !.pc = "open"]
    <3>1. c \in Call /\ c.key = calls[n].key /\ c.pc = "open"
      BY <2>1, ConnsAreNumbers DEF Call, CallStage, ConnTypes
    <3>2. Rewritten(n, c) /\ UNCHANGED subs
      BY <2>2, CallMoves DEF CloneConnection
    <3> HIDE DEF c
    <3> QED BY <1>3, <3>1, <3>2
  <2>3. CASE OpenSync(n)
    <3> DEFINE c == [calls[n] EXCEPT !.pc = "settle"]
    <3>1. c \in Call /\ c.key = calls[n].key /\ c.pc = "settle"
      BY <2>1 DEF Call, CallStage
    <3>2. Rewritten(n, c) /\ UNCHANGED subs
      BY <2>3, CallMoves DEF OpenSync
    <3> HIDE DEF c
    <3> QED BY <1>3, <3>1, <3>2
  <2>4. CASE Settle(n)
    <3> DEFINE c == [calls[n] EXCEPT !.pc = IF subs[calls[n].key] # Absent THEN "kept" ELSE "done"]
    <3>1. c \in Call /\ c.key = calls[n].key
      BY <2>1 DEF Call, CallStage
    <3>2. Rewritten(n, c)
      BY <2>4, CallMoves
    <3>3. subs'[calls[n].key] # Pending /\ \A k \in Keys : subs'[k] = Pending => subs[k] = Pending
      BY <1>4, <2>1, <2>4 DEF Settle, CallTypes
    <3> HIDE DEF c
    <3> QED BY <1>3, <3>1, <3>2, <3>3
  <2>5. CASE CloneToClose(n)
    <3> DEFINE c == [calls[n] EXCEPT !.via = current, !.pc = "close"]
    <3>1. c \in Call /\ c.key = calls[n].key /\ calls[n].pc = "dropped"
      BY <2>1, <2>5, ConnsAreNumbers DEF Call, CallStage, ConnTypes, CloneToClose, At
    <3>2. Rewritten(n, c) /\ UNCHANGED subs
      BY <2>5, CallMoves DEF CloneToClose
    <3> HIDE DEF c
    <3> QED BY <1>3, <3>1, <3>2
  <2>6. CASE CloseSync(n)
    <3> DEFINE c == [calls[n] EXCEPT !.pc = "done", !.via = NoConn]
    <3>1. c \in Call /\ c.key = calls[n].key /\ calls[n].pc = "close"
      BY <2>1, <2>6 DEF Call, CallStage, CloseSync, At
    <3>2. Rewritten(n, c) /\ UNCHANGED subs
      BY <2>6, CallMoves DEF CloseSync
    <3> HIDE DEF c
    <3> QED BY <1>3, <3>1, <3>2
  <2>7. CASE Serve(n)
    BY <1>1, <2>7 DEF Serve
  <2> QED BY <1>11, <2>2, <2>3, <2>4, <2>5, <2>6, <2>7 DEF CallStep
<1> QED BY <1>5, <1>6, <1>7, <1>8, <1>9, <1>10, <1>11 DEF ClientNext

\* A stream that is opening has nothing on its way; one that is open is
\* registered, and served or asked for as long as its connection lives.
Stream(n) ==
  /\ calls[n].pc \in {"clone", "open"} => channel[n] = <<>>
  /\ calls[n].pc \in {"settle", "kept"} =>
       /\ n \in registered
       /\ channel[n] \in {<<>>, <<"subscribe">>}
       /\ calls[n].conn \in alive => n \in serving \/ channel[n] = <<"subscribe">>

StreamsHold == \A n \in DOMAIN calls : Stream(n)

LEMMA StreamUntouched ==
  ASSUME NEW n, Stream(n), calls'[n] = calls[n], channel'[n] = channel[n],
         n \in registered' <=> n \in registered, n \in serving' <=> n \in serving,
         calls[n].conn \in alive' => calls[n].conn \in alive
  PROVE  Stream(n)'
  BY DEF Stream

LEMMA StreamsKept ==
  ASSUME CallTypes, ConnTypes, ActiveIsKept, StreamsHold, [ClientNext]_csVars
  PROVE  StreamsHold'
<1>1. ASSUME UNCHANGED <<calls, registered, channel, serving>>, alive' \subseteq alive
      PROVE  StreamsHold'
  BY <1>1 DEF StreamsHold, Stream
<1>2. ASSUME NEW k \in Keys, NEW c \in Conn \cup {NoConn}, NEW pc \in {"clone", "open"},
             Insert(k, c, pc), UNCHANGED alive
      PROVE  StreamsHold'
  <2>1. CASE subs[k] # Absent
    BY <1>1, <1>2, <2>1 DEF Insert, callVars
  <2>2. CASE subs[k] = Absent
    <3>1. PICK n \in Nat : Inserted(k, c, pc, n)
      BY <1>2, <2>2, InsertedCall
    <3>2. calls'[n].pc = pc /\ channel'[n] = <<>>
      BY <3>1 DEF Inserted
    <3>3. Stream(n)'
      BY <3>2 DEF Stream
    <3>4. ASSUME NEW i \in DOMAIN calls PROVE Stream(i)'
      <4>1. Stream(i)
        BY DEF StreamsHold
      <4>2. calls'[i] = calls[i] /\ channel'[i] = channel[i] /\ registered' = registered
            /\ serving' = serving
        BY <3>1 DEF Inserted
      <4> QED BY <1>2, <4>1, <4>2, StreamUntouched
    <3>5. DOMAIN calls' = DOMAIN calls \cup {n}
      BY <3>1 DEF Inserted
    <3> QED BY <3>3, <3>4, <3>5 DEF StreamsHold
  <2> QED BY <2>1, <2>2
<1>3. ASSUME NEW n \in DOMAIN calls, DOMAIN calls' = DOMAIN calls, Stream(n)', UNCHANGED alive,
             \A i \in DOMAIN calls : i # n =>
               /\ calls'[i] = calls[i] /\ channel'[i] = channel[i]
               /\ i \in registered' <=> i \in registered
               /\ i \in serving' <=> i \in serving
      PROVE  StreamsHold'
  <2>1. ASSUME NEW i \in DOMAIN calls, i # n PROVE Stream(i)'
    <3>1. Stream(i)
      BY DEF StreamsHold
    <3> QED BY <1>3, <2>1, <3>1, StreamUntouched
  <2> QED BY <1>3, <2>1 DEF StreamsHold
<1>4. CASE UNCHANGED csVars
  BY <1>1, <1>4 DEF csVars, callVars, connVars
<1>5. ASSUME NEW s \in Servers, Dial(s) PROVE StreamsHold'
  <2>1. UNCHANGED <<calls, registered, channel, serving>> /\ alive' = alive \cup {Len(serverOf) + 1}
    BY <1>5 DEF Dial, callVars
  <2>2. Len(serverOf) + 1 \notin DOMAIN serverOf
    BY ConnsAreNumbers
  <2>3. ASSUME NEW n \in DOMAIN calls PROVE Stream(n)'
    <3>1. calls[n].pc # "clone" => calls[n].conn # Len(serverOf) + 1
      BY <2>2 DEF CallTypes
    <3> QED BY <2>1, <3>1 DEF StreamsHold, Stream
  <2> QED BY <2>1, <2>3 DEF StreamsHold
<1>6. ASSUME NEW s \in Servers, EmptySlot(s) PROVE StreamsHold'
  BY <1>1, <1>6 DEF EmptySlot, callVars
<1>7. ASSUME NEW c \in alive, Fail(c) PROVE StreamsHold'
  <2>1. ASSUME NEW n \in DOMAIN calls PROVE Stream(n)'
    <3>1. CASE calls[n].conn = c
      BY <1>7, <3>1 DEF Fail, StreamsHold, Stream
    <3>2. CASE calls[n].conn # c
      <4>1. calls'[n] = calls[n] /\ channel'[n] = channel[n] /\ registered' = registered
            /\ (n \in serving' <=> n \in serving) /\ alive' \subseteq alive
        BY <1>7, <3>2 DEF Fail
      <4>2. Stream(n)
        BY DEF StreamsHold
      <4> QED BY <4>1, <4>2, StreamUntouched
    <3> QED BY <3>1, <3>2
  <2> QED BY <1>7, <2>1 DEF Fail, StreamsHold
<1>8. CASE LoopStep
  <2>1. CASE RegisterConnection \/ BackToPolling \/ Swap \/ ForgetSubscriptions
    BY <1>1, <2>1 DEF RegisterConnection, BackToPolling, Swap, ForgetSubscriptions, callVars, connVars
  <2>2. CASE SubscribeStanding
    <3>1. Head(loop.todo) \in Keys /\ current \in Conn \cup {NoConn}
      BY <2>2, ConnsAreNumbers DEF SubscribeStanding, ConnTypes, Loop
    <3> QED BY <1>2, <2>2, <3>1 DEF SubscribeStanding, connVars
  <2> QED BY <1>8, <2>1, <2>2 DEF LoopStep
<1>9. ASSUME NEW k \in Keys, Subscribe(k) PROVE StreamsHold'
  BY <1>2, <1>9 DEF Subscribe, connVars
<1>10. ASSUME NEW k \in Keys, Unsubscribe(k) PROVE StreamsHold'
  <2>1. UNCHANGED <<registered, channel, serving, alive>>
    BY <1>10 DEF Unsubscribe, connVars
  <2>2. CASE subs[k] = Pending
    BY <1>1, <1>10, <2>1, <2>2 DEF Unsubscribe
  <2>3. CASE subs[k] # Pending
    <3>1. PICK n \in DOMAIN calls : subs[k] = Active(n)
      BY <1>10, <2>3 DEF Unsubscribe, CallTypes
    <3>2. subs[k].stream = n /\ calls[n] \in Call
      BY <3>1 DEF Active, CallTypes
    <3> DEFINE c == [calls[n] EXCEPT !.pc = "dropped"]
    <3>3. c \in Call /\ c.pc = "dropped"
      BY <3>2 DEF Call, CallStage
    <3>4. Rewritten(n, c)
      BY <1>10, <2>3, <3>2 DEF Unsubscribe, Rewritten
    <3> HIDE DEF c
    <3>5. DOMAIN calls' = DOMAIN calls /\ calls'[n] = c
          /\ \A i \in DOMAIN calls : i # n => calls'[i] = calls[i]
      BY <3>3, <3>4, RewrittenCalls
    <3>6. Stream(n)'
      BY <3>3, <3>5 DEF Stream
    <3> QED BY <1>3, <2>1, <3>5, <3>6
  <2> QED BY <2>2, <2>3
<1>11. ASSUME NEW n \in DOMAIN calls, CallStep(n) PROVE StreamsHold'
  <2>1. calls[n] \in Call /\ channel[n] \in Seq({"subscribe", "close"}) /\ Stream(n)
        /\ DOMAIN channel = DOMAIN calls
    BY DEF CallTypes, StreamsHold
  <2>2. UNCHANGED alive
    BY <1>11 DEF CallStep, CloneConnection, OpenSync, Settle, CloneToClose, CloseSync, Serve, connVars
  <2>3. \A i \in DOMAIN calls : i # n =>
          /\ channel'[i] = channel[i]
          /\ i \in registered' <=> i \in registered
          /\ i \in serving' <=> i \in serving
    BY <1>11, <2>1 DEF CallStep, CloneConnection, OpenSync, Settle, CloneToClose, CloseSync, Serve, Send
  <2>4. ASSUME NEW c \in Call, Rewritten(n, c),
               (calls'[n] = c) => Stream(n)'
        PROVE  StreamsHold'
    <3>1. DOMAIN calls' = DOMAIN calls /\ calls'[n] = c
          /\ \A i \in DOMAIN calls : i # n => calls'[i] = calls[i]
      BY <2>4, RewrittenCalls
    <3> QED BY <1>3, <2>2, <2>3, <2>4, <3>1
  <2>5. CASE CloneConnection(n)
    <3> DEFINE c == [calls[n] EXCEPT !.conn = current, !.pc = "open"]
    <3>1. c \in Call /\ c.pc = "open" /\ calls[n].pc = "clone"
      BY <2>1, <2>5, ConnsAreNumbers DEF Call, CallStage, ConnTypes, CloneConnection, At
    <3>2. Rewritten(n, c) /\ UNCHANGED channel
      BY <2>5, CallMoves DEF CloneConnection
    <3> HIDE DEF c
    <3> QED BY <2>1, <2>4, <3>1, <3>2 DEF Stream
  <2>6. CASE OpenSync(n)
    <3> DEFINE c == [calls[n] EXCEPT !.pc = "settle"]
    <3>1. c \in Call /\ c.pc = "settle" /\ calls[n].pc = "open" /\ c.conn = calls[n].conn
      BY <2>1, <2>6 DEF Call, CallStage, OpenSync, At
    <3>2. Rewritten(n, c) /\ n \in registered'
      BY <2>6, CallMoves DEF OpenSync
    <3>3. /\ calls[n].conn \in alive => channel'[n] = <<"subscribe">>
          /\ calls[n].conn \notin alive => channel'[n] = <<>>
      BY <2>1, <2>6, <3>1 DEF OpenSync, Send, Stream
    <3> HIDE DEF c
    <3> QED BY <2>2, <2>4, <3>1, <3>2, <3>3 DEF Stream
  <2>7. CASE Settle(n)
    <3> DEFINE c == [calls[n] EXCEPT !.pc = IF subs[calls[n].key] # Absent THEN "kept" ELSE "done"]
    <3>1. c \in Call /\ c.conn = calls[n].conn /\ calls[n].pc = "settle"
          /\ c.pc = IF subs[calls[n].key] # Absent THEN "kept" ELSE "done"
      BY <2>1, <2>7 DEF Call, CallStage, Settle, At
    <3>2. Rewritten(n, c) /\ UNCHANGED <<channel, serving>>
          /\ (subs[calls[n].key] # Absent => UNCHANGED registered)
      BY <2>7, CallMoves DEF Settle
    <3> HIDE DEF c
    <3> QED BY <2>1, <2>2, <2>4, <3>1, <3>2 DEF Stream
  <2>8. CASE CloneToClose(n)
    <3> DEFINE c == [calls[n] EXCEPT !.via = current, !.pc = "close"]
    <3>1. c \in Call /\ c.pc = "close"
      BY <2>1, ConnsAreNumbers DEF Call, CallStage, ConnTypes
    <3>2. Rewritten(n, c)
      BY <2>8, CallMoves
    <3> HIDE DEF c
    <3> QED BY <2>4, <3>1, <3>2 DEF Stream
  <2>9. CASE CloseSync(n)
    <3> DEFINE c == [calls[n] EXCEPT !.pc = "done", !.via = NoConn]
    <3>1. c \in Call /\ c.pc = "done"
      BY <2>1 DEF Call, CallStage
    <3>2. Rewritten(n, c)
      BY <2>9, CallMoves
    <3> HIDE DEF c
    <3> QED BY <2>4, <3>1, <3>2 DEF Stream
  <2>10. CASE Serve(n)
    <3>1. /\ UNCHANGED <<calls, registered>> /\ channel[n] # <<>> /\ channel'[n] = Tail(channel[n])
          /\ serving' = IF Head(channel[n]) = "subscribe" THEN serving \cup {n} ELSE serving \ {n}
      BY <2>1, <2>10 DEF Serve
    <3>2. channel[n] = <<"subscribe">> => channel'[n] = <<>> /\ n \in serving'
      BY <3>1
    <3>3. Stream(n)'
      BY <2>1, <2>2, <3>1, <3>2 DEF Stream
    <3> QED BY <1>3, <2>2, <2>3, <3>1, <3>3
  <2> QED BY <1>11, <2>5, <2>6, <2>7, <2>8, <2>9, <2>10 DEF CallStep
<1> QED BY <1>4, <1>5, <1>6, <1>7, <1>8, <1>9, <1>10, <1>11 DEF ClientNext

LEMMA ActiveIsNamed == \A n, i : Active(n) # Absent /\ Active(n) # Pending /\ (Active(n) = Active(i) => n = i)
<1> SUFFICES ASSUME NEW n, NEW i
             PROVE  Active(n) # Absent /\ Active(n) # Pending /\ (Active(n) = Active(i) => n = i)
  OBVIOUS
<1>1. Active(n).is = "active" /\ Active(n).stream = n /\ Active(i).stream = i
  BY DEF Active
<1> QED BY <1>1 DEF Absent, Pending

LEMMA ActiveKept ==
  ASSUME CallTypes, ConnTypes, ActiveIsKept, [ClientNext]_csVars PROVE ActiveIsKept'
<1> USE ActiveIsNamed
<1>1. ASSUME UNCHANGED calls,
             \A k \in Keys, n \in DOMAIN calls : subs'[k] = Active(n) => subs[k] = Active(n)
      PROVE  ActiveIsKept'
  BY <1>1 DEF ActiveIsKept
<1>2. ASSUME NEW k \in Keys, NEW c \in Conn \cup {NoConn}, NEW pc \in {"clone", "open"}, Insert(k, c, pc)
      PROVE  ActiveIsKept'
  <2>1. CASE subs[k] # Absent
    BY <1>1, <1>2, <2>1 DEF Insert, callVars
  <2>2. CASE subs[k] = Absent
    <3>1. PICK n \in Nat : Inserted(k, c, pc, n)
      BY <1>2, <2>2, InsertedCall
    <3>2. ASSUME NEW j \in Keys, NEW i \in DOMAIN calls', subs'[j] = Active(i)
          PROVE  calls'[i].key = j /\ calls'[i].pc = "kept"
      <4>1. subs[j] = Active(i)
        BY <3>1, <3>2 DEF Inserted, CallTypes
      <4>2. PICK m \in DOMAIN calls : subs[j] = Active(m)
        BY <4>1 DEF CallTypes
      <4>3. i \in DOMAIN calls
        BY <4>1, <4>2
      <4>4. calls[i].key = j /\ calls[i].pc = "kept" /\ calls'[i] = calls[i]
        BY <3>1, <4>1, <4>3 DEF ActiveIsKept, Inserted
      <4> QED BY <4>4
    <3> QED BY <3>2 DEF ActiveIsKept
  <2> QED BY <2>1, <2>2
<1>3. ASSUME NEW n \in DOMAIN calls, NEW c \in Call, Rewritten(n, c), calls[n].pc # "kept", UNCHANGED subs
      PROVE  ActiveIsKept'
  <2>1. /\ DOMAIN calls' = DOMAIN calls
        /\ \A i \in DOMAIN calls : i # n => calls'[i] = calls[i]
    BY <1>3, RewrittenCalls
  <2> QED BY <1>3, <2>1 DEF ActiveIsKept
<1>4. CASE UNCHANGED csVars
  BY <1>1, <1>4 DEF csVars, callVars
<1>5. ASSUME NEW s \in Servers, Dial(s) \/ EmptySlot(s) PROVE ActiveIsKept'
  BY <1>1, <1>5 DEF Dial, EmptySlot, callVars
<1>6. ASSUME NEW c \in alive, Fail(c) PROVE ActiveIsKept'
  BY <1>1, <1>6 DEF Fail
<1>7. CASE LoopStep
  <2>1. CASE RegisterConnection \/ BackToPolling \/ Swap
    BY <1>1, <2>1 DEF RegisterConnection, BackToPolling, Swap, callVars
  <2>2. CASE ForgetSubscriptions
    BY <1>1, <2>2 DEF ForgetSubscriptions, callVars
  <2>3. CASE SubscribeStanding
    <3>1. Head(loop.todo) \in Keys /\ current \in Conn \cup {NoConn}
      BY <2>3, ConnsAreNumbers DEF SubscribeStanding, ConnTypes, Loop
    <3> QED BY <1>2, <2>3, <3>1 DEF SubscribeStanding
  <2> QED BY <1>7, <2>1, <2>2, <2>3 DEF LoopStep
<1>8. ASSUME NEW k \in Keys, Subscribe(k) PROVE ActiveIsKept'
  BY <1>2, <1>8 DEF Subscribe
<1>9. ASSUME NEW k \in Keys, Unsubscribe(k) PROVE ActiveIsKept'
  <2>1. subs' = [subs EXCEPT ![k] = Absent]
    BY <1>9 DEF Unsubscribe
  <2>2. \A j \in Keys, i \in DOMAIN calls : subs'[j] = Active(i) => j # k /\ subs[j] = Active(i)
    BY <2>1 DEF CallTypes
  <2>3. CASE subs[k] = Pending
    BY <1>1, <1>9, <2>2, <2>3 DEF Unsubscribe
  <2>4. CASE subs[k] # Pending
    <3>1. PICK n \in DOMAIN calls : subs[k] = Active(n)
      BY <1>9, <2>4 DEF Unsubscribe, CallTypes
    <3>2. subs[k].stream = n /\ calls[n].key = k /\ calls[n] \in Call
      BY <3>1 DEF Active, ActiveIsKept, CallTypes
    <3> DEFINE c == [calls[n] EXCEPT !.pc = "dropped"]
    <3>3. c \in Call
      BY <3>2 DEF Call, CallStage
    <3>4. Rewritten(n, c)
      BY <1>9, <2>4, <3>2 DEF Unsubscribe, Rewritten
    <3> HIDE DEF c
    <3>5. DOMAIN calls' = DOMAIN calls /\ \A i \in DOMAIN calls : i # n => calls'[i] = calls[i]
      BY <3>3, <3>4, RewrittenCalls
    <3> QED BY <2>2, <3>2, <3>5 DEF ActiveIsKept
  <2> QED BY <2>3, <2>4
<1>10. ASSUME NEW n \in DOMAIN calls, CallStep(n) PROVE ActiveIsKept'
  <2>1. calls[n] \in Call /\ calls[n].key \in Keys
    <3>1. calls[n] \in Call
      BY DEF CallTypes
    <3> QED BY <3>1 DEF Call
  <2>2. CASE CloneConnection(n)
    <3>1. [calls[n] EXCEPT !.conn = current, !.pc = "open"] \in Call /\ calls[n].pc # "kept"
      BY <2>1, <2>2, ConnsAreNumbers DEF Call, CallStage, ConnTypes, CloneConnection, At
    <3> QED BY <1>3, <2>2, <3>1, CallMoves DEF CloneConnection
  <2>3. CASE OpenSync(n)
    <3>1. [calls[n] EXCEPT !.pc = "settle"] \in Call /\ calls[n].pc # "kept"
      BY <2>1, <2>3 DEF Call, CallStage, OpenSync, At
    <3> QED BY <1>3, <2>3, <3>1, CallMoves DEF OpenSync
  <2>4. CASE Settle(n)
    <3> DEFINE k == calls[n].key
               c == [calls[n] EXCEPT !.pc = IF subs[k] # Absent THEN "kept" ELSE "done"]
    <3>1. c \in Call /\ c.key = k /\ (subs[k] # Absent => c.pc = "kept") /\ calls[n].pc = "settle"
      BY <2>1, <2>4 DEF Call, CallStage, Settle, At
    <3>2. Rewritten(n, c)
      BY <2>4, CallMoves
    <3>3. CASE subs[k] = Absent
      BY <1>3, <2>4, <3>1, <3>2, <3>3 DEF Settle
    <3>4. CASE subs[k] # Absent
      <4>1. subs' = [subs EXCEPT ![k] = Active(n)]
        BY <2>4, <3>4 DEF Settle
      <4> HIDE DEF c
      <4>2. /\ DOMAIN calls' = DOMAIN calls /\ calls'[n] = c
            /\ \A i \in DOMAIN calls : i # n => calls'[i] = calls[i]
        BY <3>1, <3>2, RewrittenCalls
      <4>3. ASSUME NEW j \in Keys, NEW i \in DOMAIN calls, subs'[j] = Active(i)
            PROVE  calls'[i].key = j /\ calls'[i].pc = "kept"
        <5>1. CASE j = k
          <6>1. subs'[k] = Active(n)
            BY <2>1, <4>1 DEF CallTypes
          <6>2. i = n
            BY <4>3, <5>1, <6>1
          <6> QED BY <3>1, <3>4, <4>2, <5>1, <6>2
        <5>2. CASE j # k
          <6>1. subs[j] = Active(i)
            BY <4>1, <4>3, <5>2 DEF CallTypes
          <6>2. calls[i].key = j /\ calls[i].pc = "kept"
            BY <6>1 DEF ActiveIsKept
          <6>3. i # n
            BY <5>2, <6>2
          <6> QED BY <4>2, <6>2, <6>3
        <5> QED BY <5>1, <5>2
      <4> QED BY <4>2, <4>3 DEF ActiveIsKept
    <3> QED BY <3>3, <3>4
  <2>5. CASE CloneToClose(n)
    <3>1. [calls[n] EXCEPT !.via = current, !.pc = "close"] \in Call /\ calls[n].pc # "kept"
      BY <2>1, <2>5, ConnsAreNumbers DEF Call, CallStage, ConnTypes, CloneToClose, At
    <3> QED BY <1>3, <2>5, <3>1, CallMoves DEF CloneToClose
  <2>6. CASE CloseSync(n)
    <3>1. [calls[n] EXCEPT !.pc = "done", !.via = NoConn] \in Call /\ calls[n].pc # "kept"
      BY <2>1, <2>6 DEF Call, CallStage, CloseSync, At
    <3> QED BY <1>3, <2>6, <3>1, CallMoves DEF CloseSync
  <2>7. CASE Serve(n)
    BY <1>1, <2>7 DEF Serve
  <2> QED BY <1>10, <2>2, <2>3, <2>4, <2>5, <2>6, <2>7 DEF CallStep
<1> QED BY <1>4, <1>5, <1>6, <1>7, <1>8, <1>9, <1>10 DEF ClientNext

-----------------------------------------------------------------------------
(* The servers' entries.                                                   *)

EntriesHold ==
  /\ \A s \in Servers : slot[s] # NoConn => serverOf[slot[s]] = s
  /\ \A s \in Servers : entry[s] \in alive => slot[s] = entry[s]
  /\ loop.pc = "register" =>
       /\ entry[serverOf[loop.conn]] \notin alive
       /\ loop.conn \in alive => slot[serverOf[loop.conn]] = loop.conn
  /\ EntriesFollow

LEMMA EntriesKept ==
  ASSUME ConnTypes, EntriesHold, [ClientNext]_csVars PROVE EntriesHold'
<1> USE ConnsAreNumbers
<1>1. ASSUME UNCHANGED <<serverOf, alive, slot, entry>>,
             loop'.pc = "register" => loop' = loop,
             loop.pc # "register" \/ loop' = loop
      PROVE  EntriesHold'
  BY <1>1 DEF EntriesHold, EntriesFollow
<1>2. CASE UNCHANGED csVars
  BY <1>1, <1>2 DEF csVars, connVars
<1>3. ASSUME NEW s \in Servers, Dial(s) PROVE EntriesHold'
  <2> DEFINE c == Len(serverOf) + 1
  <2>1. /\ loop.pc = "poll" /\ slot[s] = NoConn /\ serverOf' = Append(serverOf, s)
        /\ alive' = alive \cup {c} /\ slot' = [slot EXCEPT ![s] = c] /\ UNCHANGED entry
        /\ loop'.pc = "register" /\ loop'.conn = c
    BY <1>3 DEF Dial
  <2>2. c \notin DOMAIN serverOf /\ c # NoConn /\ \A t \in Servers : entry[t] # c /\ slot[t] # c
    BY DEF ConnTypes, NoConn
  <2>3. serverOf'[c] = s /\ \A i \in DOMAIN serverOf : serverOf'[i] = serverOf[i]
    BY <2>1 DEF ConnTypes
  <2>4. alive \subseteq DOMAIN serverOf /\ slot \in [Servers -> {NoConn} \cup DOMAIN serverOf]
    BY DEF ConnTypes
  <2>5. entry[s] \notin alive
    BY <2>1, <2>4 DEF EntriesHold
  <2> HIDE DEF c
  <2>6. slot'[s] = c /\ \A t \in Servers : t # s => slot'[t] = slot[t]
    BY <2>1, <2>4
  <2>7. \A t \in Servers : slot'[t] # NoConn => serverOf'[slot'[t]] = t
    BY <2>3, <2>4, <2>6 DEF EntriesHold
  <2>8. \A t \in Servers : entry'[t] \in alive' => slot'[t] = entry'[t]
    BY <2>1, <2>2, <2>5, <2>6 DEF EntriesHold
  <2>9. EntriesFollow'
    BY <2>1, <2>2, <2>6 DEF EntriesHold, EntriesFollow
  <2> QED BY <2>1, <2>2, <2>3, <2>5, <2>6, <2>7, <2>8, <2>9 DEF EntriesHold
<1>4. ASSUME NEW s \in Servers, EmptySlot(s) PROVE EntriesHold'
  <2>1. slot[s] \notin alive /\ slot' = [slot EXCEPT ![s] = NoConn] /\ UNCHANGED <<serverOf, alive, entry, loop>>
    BY <1>4 DEF EmptySlot
  <2>2. slot'[s] = NoConn /\ \A t \in Servers : t # s => slot'[t] = slot[t]
    BY <2>1 DEF ConnTypes
  <2>3. NoConn \notin alive
    BY DEF ConnTypes
  <2>4. entry[s] \notin alive
    BY <2>1 DEF EntriesHold
  <2>5. loop.pc = "register" => serverOf[loop.conn] \in Servers
    BY DEF ConnTypes
  <2> QED BY <2>1, <2>2, <2>3, <2>4, <2>5 DEF EntriesHold, EntriesFollow
<1>5. ASSUME NEW c \in alive, Fail(c) PROVE EntriesHold'
  <2>1. alive' \subseteq alive /\ UNCHANGED <<serverOf, slot, entry, loop>>
    BY <1>5 DEF Fail
  <2> QED BY <2>1 DEF EntriesHold, EntriesFollow
<1>6. CASE RegisterConnection
  <2> DEFINE s == serverOf[loop.conn]
  <2>1. /\ loop.pc = "register" /\ loop'.pc = "clear" /\ UNCHANGED <<serverOf, alive, slot>>
        /\ entry' = [entry EXCEPT ![s] = IF @ \in alive THEN @ ELSE loop.conn]
    BY <1>6 DEF RegisterConnection, ConnTypes, Loop
  <2>2. s \in Servers
    BY <2>1 DEF ConnTypes
  <2>3. entry[s] \notin alive /\ (loop.conn \in alive => slot[s] = loop.conn)
    BY <2>1 DEF EntriesHold
  <2>4. entry'[s] = loop.conn /\ \A t \in Servers : t # s => entry'[t] = entry[t]
    BY <2>1, <2>2, <2>3 DEF ConnTypes
  <2>5. \A t \in Servers : t # s /\ slot[t] \in alive => slot[t] # loop.conn
    BY DEF EntriesHold, ConnTypes
  <2>6. slot[s] \in alive => slot[s] = loop.conn
    BY <2>2, <2>3 DEF EntriesHold, EntriesFollow
  <2> HIDE DEF s
  <2>7. \A t \in Servers : slot'[t] \in alive' => entry'[t] = slot'[t]
    BY <2>1, <2>4, <2>5, <2>6 DEF EntriesHold, EntriesFollow
  <2>8. \A t \in Servers : entry'[t] \in alive' => slot'[t] = entry'[t]
    BY <2>1, <2>3, <2>4 DEF EntriesHold
  <2> QED BY <2>1, <2>7, <2>8 DEF EntriesHold, EntriesFollow
<1>7. CASE ForgetSubscriptions \/ Swap \/ SubscribeStanding \/ BackToPolling
  <2>1. UNCHANGED <<serverOf, alive, slot, entry>> /\ loop.pc # "register"
    BY <1>7 DEF ForgetSubscriptions, Swap, SubscribeStanding, BackToPolling, connVars
  <2>2. loop \in Loop
    BY DEF ConnTypes
  <2>3. CASE ForgetSubscriptions \/ Swap \/ BackToPolling
    <3>1. ForgetSubscriptions => loop'.pc = "swap"
      BY <2>2 DEF ForgetSubscriptions, Loop
    <3>2. Swap => loop'.pc = "standing"
      BY <2>2 DEF Swap, Loop
    <3>3. BackToPolling => loop'.pc = "poll"
      BY DEF BackToPolling, LoopIdle
    <3> QED BY <1>1, <2>1, <2>3, <3>1, <3>2, <3>3
  <2>4. CASE SubscribeStanding
    <3>1. loop' = [loop EXCEPT !.todo = Tail(@)] /\ loop.pc = "standing"
      BY <2>4 DEF SubscribeStanding
    <3>2. loop'.pc = "standing"
      BY <2>2, <3>1 DEF Loop
    <3> QED BY <1>1, <2>1, <3>2
  <2> QED BY <1>7, <2>3, <2>4
<1>8. ASSUME NEW k \in Keys, Subscribe(k) \/ Unsubscribe(k) PROVE EntriesHold'
  BY <1>1, <1>8 DEF Subscribe, Unsubscribe, connVars
<1>9. ASSUME NEW n \in DOMAIN calls, CallStep(n) PROVE EntriesHold'
  BY <1>1, <1>9 DEF CallStep, CloneConnection, OpenSync, Settle, CloneToClose, CloseSync, Serve, connVars
<1> QED BY <1>2, <1>3, <1>4, <1>5, <1>6, <1>7, <1>8, <1>9 DEF ClientNext, LoopStep

-----------------------------------------------------------------------------
(* The theorems.                                                           *)

ClientInv ==
  ConnTypes /\ CallTypes /\ ActiveIsKept /\ PendingIsAttended /\ StreamsHold /\ EntriesHold

LEMMA ClientInvariant == ClientSpec => []ClientInv
<1>1. ClientInit => ClientInv
  <2> SUFFICES ASSUME ClientInit PROVE ClientInv
    OBVIOUS
  <2>1. ConnTypes /\ CallTypes
    BY ConnTypesInitially, CallTypesInitially
  <2>2. DOMAIN calls = {} /\ alive = {} /\ loop.pc = "poll"
    BY DEF ClientInit, LoopIdle
  <2>3. ActiveIsKept /\ StreamsHold
    BY <2>2 DEF ActiveIsKept, StreamsHold
  <2>4. PendingIsAttended
    BY DEF ClientInit, PendingIsAttended, Absent, Pending
  <2>5. EntriesHold
    BY <2>2 DEF ClientInit, EntriesHold, EntriesFollow
  <2> QED BY <2>1, <2>3, <2>4, <2>5 DEF ClientInv
<1>2. ClientInv /\ [ClientNext]_csVars => ClientInv'
  BY ConnTypesKept, CallTypesKept, ActiveKept, AttendedKept, StreamsKept, EntriesKept DEF ClientInv
<1> QED BY <1>1, <1>2, PTL DEF ClientSpec

(***************************************************************************)
(* Every variable keeps its type, and a call that has read its connection  *)
(* has read one that was opened.                                           *)
(***************************************************************************)
THEOREM ClientTypes == ClientSpec => []ClientTypeOK
<1>1. ClientInv => ClientTypeOK
  BY TypesSplit DEF ClientInv
<1> QED BY <1>1, ClientInvariant, PTL

(***************************************************************************)
(* An entry that says Pending has a task that will settle it: no order of  *)
(* subscribe, unsubscribe and reconnect leaves a key taken for ever.       *)
(***************************************************************************)
THEOREM PendingAttended == ClientSpec => []PendingIsAttended
<1>1. ClientInv => PendingIsAttended
  BY DEF ClientInv
<1> QED BY <1>1, ClientInvariant, PTL

(***************************************************************************)
(* An entry that says Active stands for a stream of its key, registered at *)
(* the client and served, or asked for, while its connection lives.        *)
(***************************************************************************)
THEOREM ActiveOpen == ClientSpec => []ActiveIsOpen
<1>1. ClientInv => ActiveIsOpen
  BY DEF ClientInv, ActiveIsKept, StreamsHold, Stream, ActiveIsOpen
<1> QED BY <1>1, ClientInvariant, PTL

(***************************************************************************)
(* A server that came back is listed with the connection that lives.       *)
(***************************************************************************)
THEOREM EntriesFollowSlots == ClientSpec => []EntriesFollow
<1>1. ClientInv => EntriesFollow
  BY DEF ClientInv, EntriesHold
<1> QED BY <1>1, ClientInvariant, PTL
=============================================================================
