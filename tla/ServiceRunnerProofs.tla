-------------------------- MODULE ServiceRunnerProofs --------------------------
(***************************************************************************)
(* The service runner, proved for any number of clients, calls and         *)
(* restarts: its types, that one schedule at most drives the service, that *)
(* a choice holds once no call is under way, and that no request is lost.  *)
(***************************************************************************)
EXTENDS ServiceRunner, TLAPS

-----------------------------------------------------------------------------
\* A step of a task touches neither the calls nor what they decide on, and gives
\* life to no task.
TaskMoves ==
  /\ UNCHANGED <<schedule, running, made, cancelled, call, chosen, crossed, upsets>>
  /\ row'.enabled = row.enabled
  /\ \A t \in Token : Live(t)' => Live(t)

LEMMA TaskStepsTouch ==
  ASSUME ServiceTypeOK, NEW t \in Token,
         Ticks(t) \/ Notified(t) \/ RunReturns(t) \/ TaskStep(t)
  PROVE  TaskMoves /\ ServiceTypeOK'
<1>1. /\ UNCHANGED <<schedule, running, made, cancelled, call, chosen, crossed, upsets>>
      /\ permit' \in {permit, FALSE} /\ asked' \in {asked, 0}
  BY DEF Ticks, Notified, RunReturns, TaskStep, Begin, MarkRunning, ReadCancelled, Record, Leave
<1>2. row' \in Row /\ row'.enabled = row.enabled
  <2>1. \/ UNCHANGED row
        \/ \E state \in {"idle", "failed", "running"} : row' = [row EXCEPT !.state = state]
    BY DEF Ticks, Notified, RunReturns, TaskStep, Begin, MarkRunning, ReadCancelled, Record, Leave
  <2> QED BY <2>1 DEF ServiceTypeOK, Row, State
<1>3. \E from \in TaskStage \ {"none", "ended"}, to \in TaskStage : Moves(t, from, to)
  <2>1. TaskStage \ {"none", "ended"} = {"waiting", "woken", "marking", "running", "returned",
                                         "recording", "recordingLate"}
    BY DEF TaskStage
  <2> QED BY <2>1 DEF Ticks, Notified, RunReturns, TaskStep, Begin, MarkRunning, ReadCancelled,
             Record, Leave, TaskStage
<1>4. /\ task' \in [Token -> TaskStage] /\ \A u \in Token : Live(u)' => Live(u)
      /\ \A u \in Token : task'[u] # "none" => u <= made
  <2>1. PICK from \in TaskStage \ {"none", "ended"}, to \in TaskStage : Moves(t, from, to)
    BY <1>3
  <2> QED BY <2>1 DEF Moves, Live, ServiceTypeOK
<1>5. asked' \in 0..made
  BY <1>1, ServiceAssumption DEF ServiceTypeOK
<1> QED BY <1>1, <1>2, <1>4, <1>5 DEF TaskMoves, ServiceTypeOK

-----------------------------------------------------------------------------
(* Types.                                                                  *)

LEMMA TypesInitially == ServiceInit => ServiceTypeOK
<1> SUFFICES ASSUME ServiceInit PROVE ServiceTypeOK
  OBVIOUS
<1>1. row = [enabled |-> TRUE, state |-> "stopped"]
  BY DEF ServiceInit, Reconciled
<1>2. row \in Row
  BY <1>1 DEF Row, State
<1>3. Booting(row) \in [Callers -> Call]
  BY DEF Booting, Call, NoCall, Stage
<1>4. \A c \in Callers : Booting(row)[c].stage \notin {"starting", "stopping"}
  BY DEF Booting, NoCall
<1>5. /\ made \in 0..MaxTokens /\ running \in 0..made /\ asked \in 0..made
      /\ upsets \in 0..MaxUpsets /\ cancelled \subseteq 1..made
  BY ServiceAssumption DEF ServiceInit
<1>6. task \in [Token -> TaskStage] /\ \A t \in Token : task[t] = "none"
  BY DEF ServiceInit, TaskStage
<1>7. chosen \in BOOLEAN /\ crossed \in BOOLEAN /\ permit \in BOOLEAN /\ schedule \in Schedule
  BY DEF ServiceInit
<1>8. call = Booting(row)
  BY DEF ServiceInit
<1> QED BY <1>2, <1>3, <1>4, <1>5, <1>6, <1>7, <1>8 DEF ServiceTypeOK

LEMMA CallsKeepTypes ==
  ASSUME ServiceTypeOK, NEW c \in Callers, CallStep(c)
  PROVE  ServiceTypeOK'
<1>1. UNCHANGED <<schedule, permit, asked, chosen, crossed, upsets>>
  BY DEF CallStep, TakeToken, Launch, TakeRunning, Cancel, MarkStopped
<1>2. NoCall \in Call /\ NoCall.stage = "none"
  BY DEF NoCall, Call, Stage
<1>3. made \in Nat /\ made <= MaxTokens /\ running \in Nat /\ running <= made
  BY ServiceAssumption DEF ServiceTypeOK
<1>4. CASE TakeToken(c)
  <2>1. CASE Returns(c) /\ UNCHANGED <<running, made>>
    BY <1>1, <1>2, <1>4, <2>1 DEF TakeToken, Returns, ServiceTypeOK
  <2>2. CASE /\ made < MaxTokens
             /\ made' = made + 1
             /\ running' = made + 1
             /\ call' = [call EXCEPT ![c].stage = "starting", ![c].token = made + 1]
    <3>1. made + 1 \in Token /\ made' \in 0..MaxTokens /\ running' \in 0..made'
      BY <1>3, <2>2, ServiceAssumption DEF Token
    <3>2. call' \in [Callers -> Call]
      BY <2>2, <3>1 DEF ServiceTypeOK, Call, Stage
    <3>3. \A d \in Callers : call'[d].stage \in {"starting", "stopping"} =>
                               call'[d].token \in 1..made'
      BY <1>3, <2>2 DEF ServiceTypeOK, Call
    <3>4. UNCHANGED <<row, cancelled, task>>
      BY <1>4 DEF TakeToken
    <3>5. \A t \in Token : task[t] # "none" => t <= made + 1
      BY <1>3 DEF ServiceTypeOK, Token
    <3>6. cancelled \subseteq 1..(made + 1) /\ asked \in 0..(made + 1)
      BY <1>3 DEF ServiceTypeOK
    <3> QED BY <1>1, <2>2, <3>1, <3>2, <3>3, <3>4, <3>5, <3>6 DEF ServiceTypeOK
  <2> QED BY <1>4, <2>1, <2>2 DEF TakeToken
<1>5. CASE Launch(c)
  <2>1. call[c].token \in 1..made
    BY <1>5 DEF Launch, ServiceTypeOK
  <2>2. row' \in Row
    BY <1>5 DEF Launch, ServiceTypeOK, Row, State
  <2>3. task' \in [Token -> TaskStage] /\ \A t \in Token : task'[t] # "none" => t <= made
    <3>1. \E stage \in TaskStage : task' = [task EXCEPT ![call[c].token] = stage]
      BY <1>5 DEF Launch, TaskStage
    <3>2. call[c].token <= made
      BY <1>3, <2>1
    <3> QED BY <3>1, <3>2 DEF ServiceTypeOK
  <2> QED BY <1>1, <1>2, <1>5, <2>2, <2>3 DEF Launch, Returns, ServiceTypeOK
<1>6. CASE TakeRunning(c)
  <2>1. CASE Returns(c)
    BY <1>1, <1>2, <1>3, <1>6, <2>1 DEF TakeRunning, Returns, ServiceTypeOK
  <2>2. CASE running # 0 /\ call' = [call EXCEPT ![c].stage = "stopping", ![c].token = running]
    <3>1. running \in 1..made /\ running \in Token
      BY <1>3, <2>2, ServiceAssumption DEF Token
    <3>2. call' \in [Callers -> Call]
      BY <2>2, <3>1 DEF ServiceTypeOK, Call, Stage
    <3>3. \A d \in Callers : call'[d].stage \in {"starting", "stopping"} =>
                               call'[d].token \in 1..made
      BY <2>2, <3>1 DEF ServiceTypeOK, Call
    <3> QED BY <1>1, <1>3, <1>6, <3>2, <3>3 DEF TakeRunning, ServiceTypeOK
  <2> QED BY <1>6, <2>1, <2>2 DEF TakeRunning
<1>7. CASE Cancel(c)
  <2>1. call[c].token \in 1..made
    BY <1>7 DEF Cancel, ServiceTypeOK
  <2>2. call' \in [Callers -> Call]
    BY <1>7 DEF Cancel, ServiceTypeOK, Call, Stage
  <2> QED BY <1>1, <1>7, <2>1, <2>2 DEF Cancel, ServiceTypeOK, Call
<1>8. CASE MarkStopped(c)
  <2>1. row' \in Row
    BY <1>8 DEF MarkStopped, ServiceTypeOK, Row, State
  <2> QED BY <1>1, <1>2, <1>8, <2>1 DEF MarkStopped, Returns, ServiceTypeOK
<1> QED BY <1>4, <1>5, <1>6, <1>7, <1>8 DEF CallStep

LEMMA TypesKept == ServiceTypeOK /\ [ServiceNext]_serviceVars => ServiceTypeOK'
<1> SUFFICES ASSUME ServiceTypeOK, [ServiceNext]_serviceVars PROVE ServiceTypeOK'
  OBVIOUS
<1>1. CASE UNCHANGED serviceVars
  BY <1>1 DEF serviceVars, ServiceTypeOK
<1>2. CASE Restart
  <2>1. row' \in Row
    BY <1>2 DEF Restart, Reconciled, ServiceTypeOK, Row, State
  <2>2. call' \in [Callers -> Call] /\ \A c \in Callers : call'[c].stage \in {"none", "persisted"}
    BY <1>2 DEF Restart, Booting, Call, NoCall, Stage
  <2>3. /\ made' \in 0..MaxTokens /\ running' \in 0..made' /\ asked' \in 0..made'
        /\ upsets' \in 0..MaxUpsets /\ cancelled' \subseteq 1..made'
    BY <1>2, ServiceAssumption DEF Restart, ServiceTypeOK
  <2>4. task' \in [Token -> TaskStage] /\ \A t \in Token : task'[t] = "none"
    BY <1>2 DEF Restart, TaskStage
  <2>5. UNCHANGED <<schedule, chosen>> /\ crossed' = FALSE /\ permit' = FALSE
    BY <1>2 DEF Restart
  <2> QED BY <2>1, <2>2, <2>3, <2>4, <2>5 DEF ServiceTypeOK
<1>3. ASSUME NEW c \in Clients, NEW want \in BOOLEAN, Persist(c, want) PROVE ServiceTypeOK'
  <2>1. row' \in Row
    BY <1>3 DEF Persist, ServiceTypeOK, Row
  <2>2. /\ call' \in [Callers -> Call]
        /\ \A d \in Callers : call'[d].stage \in {"starting", "stopping"} =>
                                call'[d].token \in 1..made
    BY <1>3 DEF Persist, ServiceTypeOK, Call, Stage, Callers
  <2>3. upsets' \in 0..MaxUpsets /\ crossed' \in BOOLEAN
    BY <1>3, ServiceAssumption DEF Persist, ServiceTypeOK
  <2> QED BY <1>3, <2>1, <2>2, <2>3 DEF Persist, ServiceTypeOK
<1>4. ASSUME NEW c \in Callers, CallStep(c) PROVE ServiceTypeOK'
  BY <1>4, CallsKeepTypes
<1>5. CASE RunNow
  BY <1>5, ServiceAssumption DEF RunNow, ServiceTypeOK
<1>6. ASSUME NEW t \in Token, Ticks(t) \/ Notified(t) \/ RunReturns(t) \/ TaskStep(t)
      PROVE  ServiceTypeOK'
  BY <1>6, TaskStepsTouch
<1> QED BY <1>1, <1>2, <1>3, <1>4, <1>5, <1>6 DEF ServiceNext

(***************************************************************************)
(* Type correctness; in particular every token in use has been made.       *)
(***************************************************************************)
THEOREM ServiceTypes == ServiceSpec => []ServiceTypeOK
<1> QED BY TypesInitially, TypesKept, PTL DEF ServiceSpec

-----------------------------------------------------------------------------
(* One schedule.                                                           *)

BeingStopped(t) == \E c \in Callers : call[c].stage = "stopping" /\ call[c].token = t

\* A token that drives a task or is about to is also found and stopped.
TokensFound == \A t \in Token : Driving(t) /\ t \notin cancelled => running = t \/ BeingStopped(t)

LEMMA CallsKeepTokens ==
  ASSUME ServiceTypeOK, TokensFound, NEW c \in Callers, CallStep(c)
  PROVE  TokensFound'
<1> SUFFICES ASSUME NEW t \in Token, Driving(t)', t \notin cancelled'
             PROVE  running' = t \/ BeingStopped(t)'
  BY DEF TokensFound
<1>1. call \in [Callers -> Call] /\ running \in Nat /\ made \in Nat
  BY ServiceAssumption DEF ServiceTypeOK
<1>2. NoCall.stage = "none"
  BY DEF NoCall
<1>3. CASE TakeToken(c)
  <2>1. CASE Returns(c) /\ running' = running
    <3>1. Driving(t) /\ t \notin cancelled
      BY <1>1, <1>2, <1>3, <2>1 DEF TakeToken, Returns, Driving, Live
    <3>2. running = t \/ BeingStopped(t)
      BY <3>1 DEF TokensFound
    <3>3. BeingStopped(t) => BeingStopped(t)'
      BY <1>1, <1>3, <2>1 DEF TakeToken, Returns, BeingStopped
    <3> QED BY <2>1, <3>2, <3>3
  <2>2. CASE running = 0 /\ running' = made + 1
    <3>1. CASE t = made + 1
      BY <2>2, <3>1
    <3>2. CASE t # made + 1
      <4>1. call' = [call EXCEPT ![c].stage = "starting", ![c].token = made + 1]
        BY <1>1, <1>3, <2>2 DEF TakeToken, ServiceTypeOK
      <4>2. Driving(t) /\ t \notin cancelled
        BY <1>1, <1>3, <3>2, <4>1 DEF TakeToken, Driving, Live, Call
      <4>3. running # t
        BY <2>2 DEF Token
      <4>4. BeingStopped(t)
        BY <4>2, <4>3 DEF TokensFound
      <4> QED BY <1>1, <1>3, <4>1, <4>4 DEF TakeToken, BeingStopped, Call
    <3> QED BY <3>1, <3>2
  <2> QED BY <1>3, <2>1, <2>2 DEF TakeToken
<1>4. CASE Launch(c)
  <2>1. \A u \in Token : u # call[c].token => task'[u] = task[u]
    BY <1>4 DEF Launch, ServiceTypeOK
  <2>2. Driving(t) /\ t \notin cancelled
    BY <1>1, <1>2, <1>4, <2>1 DEF Launch, Returns, Driving, Live
  <2>3. running = t \/ BeingStopped(t)
    BY <2>2 DEF TokensFound
  <2> QED BY <1>1, <1>4, <2>3 DEF Launch, Returns, BeingStopped
<1>5. CASE TakeRunning(c)
  <2>1. Driving(t) /\ t \notin cancelled
    BY <1>1, <1>2, <1>5 DEF TakeRunning, Returns, Driving, Live, Call
  <2>2. running = t \/ BeingStopped(t)
    BY <2>1 DEF TokensFound
  <2>3. CASE running = t
    <3>1. running # 0
      BY <2>3 DEF Token
    <3>2. call'[c].stage = "stopping" /\ call'[c].token = t
      BY <1>1, <1>5, <2>3, <3>1 DEF TakeRunning, Call
    <3> QED BY <3>2 DEF BeingStopped
  <2>4. CASE BeingStopped(t)
    BY <1>1, <1>5, <2>4 DEF TakeRunning, Returns, BeingStopped, Call
  <2> QED BY <2>2, <2>3, <2>4
<1>6. CASE Cancel(c)
  <2>1. Driving(t) /\ t \notin cancelled /\ t # call[c].token
    BY <1>1, <1>6 DEF Cancel, Driving, Live, Call
  <2>2. running = t \/ BeingStopped(t)
    BY <2>1 DEF TokensFound
  <2> QED BY <1>1, <1>6, <2>1, <2>2 DEF Cancel, BeingStopped, Call
<1>7. CASE MarkStopped(c)
  <2>1. Driving(t) /\ t \notin cancelled
    BY <1>1, <1>2, <1>7 DEF MarkStopped, Returns, Driving, Live
  <2>2. running = t \/ BeingStopped(t)
    BY <2>1 DEF TokensFound
  <2> QED BY <1>1, <1>7, <2>2 DEF MarkStopped, Returns, BeingStopped
<1> QED BY <1>3, <1>4, <1>5, <1>6, <1>7 DEF CallStep

LEMMA TokensKept ==
  ServiceTypeOK /\ TokensFound /\ [ServiceNext]_serviceVars => TokensFound'
<1> SUFFICES ASSUME ServiceTypeOK, TokensFound, [ServiceNext]_serviceVars PROVE TokensFound'
  OBVIOUS
<1>1. CASE UNCHANGED serviceVars
  BY <1>1 DEF serviceVars, TokensFound, Driving, Live, BeingStopped
<1>2. CASE Restart
  <2>1. \A t \in Token : ~Driving(t)'
    BY <1>2 DEF Restart, Driving, Live, Booting, NoCall
  <2> QED BY <2>1 DEF TokensFound
<1>3. ASSUME NEW c \in Clients, NEW want \in BOOLEAN, Persist(c, want) PROVE TokensFound'
  <2>1. /\ UNCHANGED <<running, cancelled, task>>
        /\ c \in Callers /\ call[c].stage = "none"
        /\ call' = [call EXCEPT ![c] = [stage |-> "persisted", want |-> want, token |-> 0]]
    BY <1>3 DEF Persist, InCall, Callers
  <2>2. \A d \in Callers : /\ call[d].stage = "stopping" => call'[d] = call[d]
                           /\ call'[d].stage = "starting" => call'[d] = call[d]
    BY <2>1 DEF ServiceTypeOK
  <2> QED BY <2>1, <2>2 DEF TokensFound, Driving, Live, BeingStopped
<1>4. ASSUME NEW c \in Callers, CallStep(c) PROVE TokensFound'
  BY <1>4, CallsKeepTokens
<1>5. CASE RunNow
  BY <1>5 DEF RunNow, TokensFound, Driving, Live, BeingStopped
<1>6. ASSUME NEW t \in Token, Ticks(t) \/ Notified(t) \/ RunReturns(t) \/ TaskStep(t)
      PROVE  TokensFound'
  BY <1>6, TaskStepsTouch DEF TaskMoves, TokensFound, Driving, BeingStopped
<1> QED BY <1>1, <1>2, <1>3, <1>4, <1>5, <1>6 DEF ServiceNext

(***************************************************************************)
(* However many clients call however often, at most one task drives the    *)
(* service, and it is the one set_enabled would stop.                      *)
(***************************************************************************)
THEOREM ServiceHasOneSchedule == ServiceSpec => []OneSchedule
<1>1. ServiceInit => TokensFound
  BY DEF ServiceInit, TokensFound, Driving, Live, Booting, NoCall
<1>2. TokensFound => OneSchedule
  BY DEF TokensFound, Driving, BeingStopped, OneSchedule
<1> QED BY <1>1, <1>2, ServiceTypes, TokensKept, PTL DEF ServiceSpec

-----------------------------------------------------------------------------
(* The choice.                                                             *)

\* How far a call that nothing crossed has come in making the choice true.
OnItsWay(c) ==
  /\ call[c].want = chosen
  /\ call[c].stage = "starting" => chosen /\ running # 0
  /\ call[c].stage \in {"stopping", "cancelled"} => ~chosen /\ running = 0

ChoiceInv ==
  /\ row.enabled = chosen
  /\ ~crossed => /\ \A c, d \in Callers : InCall(c) /\ InCall(d) => c = d
                 /\ \A c \in Callers : InCall(c) => OnItsWay(c)
                 /\ Quiet => (running # 0 <=> chosen)

\* A row says that something runs only in a process that has made a token.
RowRests == made = 0 => row.state = "stopped"

LEMMA RowRestsKept == ServiceTypeOK /\ RowRests /\ [ServiceNext]_serviceVars => RowRests'
<1> SUFFICES ASSUME ServiceTypeOK, RowRests, [ServiceNext]_serviceVars, made' = 0
             PROVE  row'.state = "stopped"
  BY DEF RowRests
<1>0. made \in Nat /\ row \in Row
  BY ServiceAssumption DEF ServiceTypeOK
<1>1. CASE UNCHANGED serviceVars
  BY <1>1 DEF serviceVars, RowRests
<1>2. CASE Restart
  BY <1>0, <1>2 DEF Restart, Reconciled, Row
<1>3. ASSUME NEW c \in Clients, NEW want \in BOOLEAN, Persist(c, want) PROVE row'.state = "stopped"
  BY <1>0, <1>3 DEF Persist, RowRests, Row
<1>4. ASSUME NEW c \in Callers, CallStep(c) PROVE row'.state = "stopped"
  <2>1. CASE Launch(c)
    <3>1. call[c].token \in 1..made /\ made' = made
      BY <2>1 DEF Launch, ServiceTypeOK
    <3> QED BY <1>0, <3>1
  <2>2. CASE MarkStopped(c)
    BY <1>0, <2>2 DEF MarkStopped, Row
  <2>3. CASE TakeToken(c) \/ TakeRunning(c) \/ Cancel(c)
    BY <1>0, <2>3 DEF TakeToken, TakeRunning, Cancel, RowRests
  <2> QED BY <1>4, <2>1, <2>2, <2>3 DEF CallStep
<1>5. CASE RunNow
  BY <1>5 DEF RunNow, RowRests
<1>6. ASSUME NEW t \in Token, Ticks(t) \/ Notified(t) \/ RunReturns(t) \/ TaskStep(t)
      PROVE  row'.state = "stopped"
  <2>1. made' = made /\ task[t] # "none"
    BY <1>6 DEF Ticks, Notified, RunReturns, TaskStep, Begin, MarkRunning, ReadCancelled, Record,
       Leave, Moves
  <2>2. t <= made
    BY <2>1 DEF ServiceTypeOK
  <2> QED BY <1>0, <2>1, <2>2 DEF Token
<1> QED BY <1>1, <1>2, <1>3, <1>4, <1>5, <1>6 DEF ServiceNext

LEMMA CallsKeepChoice ==
  ASSUME ServiceTypeOK, ChoiceInv, NEW c \in Callers, CallStep(c)
  PROVE  ChoiceInv'
<1>1. UNCHANGED <<chosen, crossed>> /\ row'.enabled = row.enabled
  BY DEF CallStep, TakeToken, Launch, TakeRunning, Cancel, MarkStopped, ServiceTypeOK, Row
<1>2. call \in [Callers -> Call] /\ chosen \in BOOLEAN /\ made \in Nat
  BY ServiceAssumption DEF ServiceTypeOK
<1>3. NoCall.stage = "none"
  BY DEF NoCall
<1>4. ASSUME ~crossed
      PROVE  /\ \A d, e \in Callers : InCall(d)' /\ InCall(e)' => d = e
             /\ \A d \in Callers : InCall(d)' => OnItsWay(d)'
             /\ Quiet' => (running' # 0 <=> chosen)
  <2>1. InCall(c) /\ OnItsWay(c) /\ \A d \in Callers : d # c => ~InCall(d)
    <3>1. InCall(c)
      BY DEF CallStep, TakeToken, Launch, TakeRunning, Cancel, MarkStopped, InCall
    <3> QED BY <1>4, <3>1 DEF ChoiceInv
  <2>2. \A d \in Callers : d # c => ~InCall(d)'
    <3>1. \A d \in Callers : d # c => call'[d] = call[d]
      BY <1>2 DEF CallStep, TakeToken, Launch, TakeRunning, Cancel, MarkStopped, Returns
    <3> QED BY <2>1, <3>1 DEF InCall
  <2>3. CASE Returns(c)
    <3>1. ~InCall(c)'
      BY <1>2, <1>3, <2>3 DEF Returns, InCall
    <3>2. running' # 0 <=> chosen
      BY <1>2, <1>3, <2>1, <2>3 DEF CallStep, TakeToken, Launch, TakeRunning, Cancel, MarkStopped,
         OnItsWay, Returns
    <3> QED BY <2>2, <3>1, <3>2
  <2>4. CASE ~Returns(c)
    <3>1. \/ TakeToken(c) /\ running' = made + 1
               /\ call' = [call EXCEPT ![c].stage = "starting", ![c].token = made + 1]
          \/ TakeRunning(c) /\ running' = 0
               /\ call' = [call EXCEPT ![c].stage = "stopping", ![c].token = running]
          \/ Cancel(c) /\ running' = running /\ call' = [call EXCEPT ![c].stage = "cancelled"]
      BY <2>4 DEF CallStep, TakeToken, Launch, TakeRunning, Cancel, MarkStopped
    <3>2. InCall(c)' /\ OnItsWay(c)'
      BY <1>1, <1>2, <2>1, <3>1 DEF InCall, OnItsWay, TakeToken, TakeRunning, Cancel, Call
    <3>3. ~Quiet'
      BY <3>2 DEF Quiet
    <3> QED BY <2>2, <3>2, <3>3
  <2> QED BY <2>3, <2>4
<1> QED BY <1>1, <1>4 DEF ChoiceInv

LEMMA ChoiceKept == ServiceTypeOK /\ ChoiceInv /\ [ServiceNext]_serviceVars => ChoiceInv'
<1> SUFFICES ASSUME ServiceTypeOK, ChoiceInv, [ServiceNext]_serviceVars PROVE ChoiceInv'
  OBVIOUS
<1>1. CASE UNCHANGED serviceVars
  BY <1>1 DEF serviceVars, ChoiceInv, Quiet, InCall, OnItsWay
<1>2. CASE Restart
  <2>1. row'.enabled = chosen' /\ running' = 0 /\ crossed' = FALSE
    BY <1>2 DEF Restart, Reconciled, ChoiceInv, ServiceTypeOK, Row
  <2>2. \A c \in Callers : /\ InCall(c)' => c = Boot
                           /\ InCall(c)' => call'[c].stage = "persisted" /\ call'[c].want = chosen'
    BY <1>2, <2>1 DEF Restart, Booting, InCall, NoCall
  <2>3. chosen' => InCall(Boot)'
    BY <1>2, <2>1 DEF Restart, Booting, InCall, NoCall, Callers
  <2>4. \A c \in Callers : InCall(c)' => OnItsWay(c)'
    BY <2>2 DEF OnItsWay
  <2>5. Quiet' => (running' # 0 <=> chosen')
    BY <2>1, <2>3 DEF Quiet, Callers
  <2> QED BY <2>1, <2>2, <2>4, <2>5 DEF ChoiceInv
<1>3. ASSUME NEW c \in Clients, NEW want \in BOOLEAN, Persist(c, want) PROVE ChoiceInv'
  <2>1. /\ row'.enabled = want /\ chosen' = want
        /\ c \in Callers
        /\ call' = [call EXCEPT ![c] = [stage |-> "persisted", want |-> want, token |-> 0]]
    BY <1>3 DEF Persist, ServiceTypeOK, Row, Callers
  <2>2. \A d \in Callers : call'[d] = IF d = c THEN [stage |-> "persisted", want |-> want, token |-> 0]
                                      ELSE call[d]
    BY <2>1 DEF ServiceTypeOK
  <2>3. InCall(c)' /\ OnItsWay(c)'
    BY <2>1, <2>2 DEF InCall, OnItsWay
  <2>4. ~crossed' => \A d \in Callers : d # c => ~InCall(d)'
    BY <1>3, <2>2 DEF Persist, InCall, Callers
  <2>5. ~Quiet'
    BY <2>1, <2>3 DEF Quiet
  <2> QED BY <2>1, <2>3, <2>4, <2>5 DEF ChoiceInv
<1>4. ASSUME NEW c \in Callers, CallStep(c) PROVE ChoiceInv'
  BY <1>4, CallsKeepChoice
<1>5. CASE RunNow
  BY <1>5 DEF RunNow, ChoiceInv, Quiet, InCall, OnItsWay
<1>6. ASSUME NEW t \in Token, Ticks(t) \/ Notified(t) \/ RunReturns(t) \/ TaskStep(t)
      PROVE  ChoiceInv'
  BY <1>6, TaskStepsTouch DEF TaskMoves, ChoiceInv, Quiet, InCall, OnItsWay
<1> QED BY <1>1, <1>2, <1>3, <1>4, <1>5, <1>6 DEF ServiceNext

(***************************************************************************)
(* A choice that no other call crossed holds, in the database and on the   *)
(* schedule, whatever crossed before it and wherever the process was       *)
(* restarted; and no row outlives its process saying that something runs.  *)
(***************************************************************************)
THEOREM ServiceChoiceHolds == ServiceSpec => []ChoiceHolds
<1>1. ServiceInit => ChoiceInv
  <2> SUFFICES ASSUME ServiceInit PROVE ChoiceInv
    OBVIOUS
  <2>1. row = [enabled |-> TRUE, state |-> "stopped"] /\ chosen = TRUE
    BY DEF ServiceInit, Reconciled
  <2>2. \A c \in Callers : IF c = Boot THEN call[c].stage = "persisted" /\ call[c].want = TRUE
                           ELSE call[c].stage = "none"
    BY <2>1 DEF ServiceInit, Booting, NoCall
  <2> QED BY <2>1, <2>2 DEF ChoiceInv, InCall, OnItsWay, Quiet, Callers
<1>2. ServiceInit => RowRests
  BY DEF ServiceInit, Reconciled, RowRests
<1>3. ChoiceInv /\ RowRests => ChoiceHolds
  BY DEF ChoiceInv, RowRests, ChoiceHolds
<1> QED BY <1>1, <1>2, <1>3, ServiceTypes, ChoiceKept, RowRestsKept, PTL DEF ServiceSpec

-----------------------------------------------------------------------------
(* Requests for a pass.                                                    *)

\* What AskedPassRuns needs of every state: a request that is not heard yet is
\* stored, or its task has been woken.
RequestKept == asked # 0 /\ running = asked => permit \/ task[asked] = "woken"

\* The running token is not cancelled and about to be cancelled by nobody; a token
\* is started by one call, which has spawned nothing yet; and while a request is
\* out, no other task is there to take it.
RequestInv ==
  /\ running \notin cancelled
  /\ \A c \in Callers : call[c].stage = "stopping" => call[c].token # running
  /\ \A c \in Callers : call[c].stage = "starting" => task[call[c].token] = "none"
  /\ \A c, d \in Callers : /\ call[c].stage = "starting" /\ call[d].stage = "starting"
                            /\ call[c].token = call[d].token => c = d
  /\ asked # 0 /\ running = asked => Departing = {}
  /\ RequestKept

LEMMA CallsKeepRequests ==
  ASSUME ServiceTypeOK, RequestInv, NEW c \in Callers, CallStep(c)
  PROVE  RequestInv'
<1>1. /\ call \in [Callers -> Call] /\ running \in Nat /\ made \in Nat /\ asked \in Nat
      /\ running <= made /\ asked <= made /\ cancelled \subseteq 1..made
      /\ task \in [Token -> TaskStage] /\ permit \in BOOLEAN
      /\ \A t \in Token : task[t] # "none" => t <= made
      /\ \A d \in Callers : call[d].stage \in {"starting", "stopping"} => call[d].token \in 1..made
  BY ServiceAssumption DEF ServiceTypeOK
<1>2. NoCall.stage = "none"
  BY DEF NoCall
<1>3. UNCHANGED <<asked, permit>>
  BY DEF CallStep, TakeToken, Launch, TakeRunning, Cancel, MarkStopped
<1>4. CASE /\ Returns(c)
           /\ UNCHANGED <<running, cancelled, task>>
  <2>1. \A d \in Callers : call'[d] = IF d = c THEN NoCall ELSE call[d]
    BY <1>1, <1>4 DEF Returns
  <2>2. Departing' \subseteq Departing
    BY <1>2, <1>4, <2>1 DEF Departing, Driving, Live
  <2> QED BY <1>2, <1>3, <1>4, <2>1, <2>2 DEF RequestInv, RequestKept
<1>5. CASE TakeToken(c) /\ ~Returns(c)
  <2>1. /\ running = 0 /\ running' = made + 1 /\ made < MaxTokens
        /\ UNCHANGED <<cancelled, task>>
        /\ call' = [call EXCEPT ![c].stage = "starting", ![c].token = made + 1]
    BY <1>5 DEF TakeToken
  <2>2. \A d \in Callers : d # c => call'[d] = call[d]
    BY <1>1, <2>1
  <2>3. call'[c].stage = "starting" /\ call'[c].token = made + 1
    BY <1>1, <2>1 DEF Call
  <2>4. made + 1 \in Token /\ task[made + 1] = "none"
    <3>1. made + 1 \in Token /\ ~(made + 1 <= made)
      BY <1>1, <2>1, ServiceAssumption DEF Token
    <3> QED BY <1>1, <3>1
  <2>5. running' \notin cancelled' /\ running' # asked'
    BY <1>1, <1>3, <2>1
  <2>6. \A d \in Callers : d # c /\ call[d].stage \in {"starting", "stopping"}
                             => call[d].token # made + 1
    BY <1>1
  <2>7. \A d \in Callers : call'[d].stage = "stopping" => call'[d].token # running'
    BY <2>1, <2>2, <2>3, <2>6
  <2>8. \A d \in Callers : call'[d].stage = "starting" => task'[call'[d].token] = "none"
    BY <2>1, <2>2, <2>3, <2>4 DEF RequestInv
  <2>9. ASSUME NEW d \in Callers, NEW e \in Callers, call'[d].stage = "starting",
               call'[e].stage = "starting", call'[d].token = call'[e].token
        PROVE  d = e
    BY <2>2, <2>3, <2>6, <2>9 DEF RequestInv
  <2> QED BY <2>5, <2>7, <2>8, <2>9 DEF RequestInv, RequestKept
<1>6. CASE Launch(c)
  <2>1. /\ call[c].stage = "starting" /\ call[c].token \in Token
        /\ \E stage \in TaskStage : task' = [task EXCEPT ![call[c].token] = stage]
        /\ UNCHANGED <<running, cancelled>>
        /\ \A d \in Callers : call'[d] = IF d = c THEN NoCall ELSE call[d]
    <3>1. call[c].stage = "starting" /\ call[c].token \in 1..made /\ Returns(c)
      BY <1>1, <1>6 DEF Launch
    <3>2. call[c].token \in Token
      BY <3>1, ServiceAssumption DEF ServiceTypeOK, Token
    <3>3. \A stage \in {"waiting", "woken"} : stage \in TaskStage
      BY DEF TaskStage
    <3>4. \E stage \in TaskStage : task' = [task EXCEPT ![call[c].token] = stage]
      BY <1>6, <3>3 DEF Launch
    <3> QED BY <1>1, <1>6, <3>1, <3>2, <3>4 DEF Launch, Returns
  <2>2. \A t \in Token : t # call[c].token => task'[t] = task[t]
    BY <1>1, <2>1
  <2>3. task[call[c].token] = "none"
    BY <2>1 DEF RequestInv
  <2>4. Departing' \subseteq Departing
    BY <1>2, <2>1, <2>2 DEF Departing, Driving, Live
  <2>5. \A d \in Callers : d # c /\ call[d].stage = "starting" =>
           /\ call[d].token # call[c].token /\ call[d].token \in Token
    BY <1>1, <2>1 DEF RequestInv, Call
  <2>6. \A d \in Callers : call'[d].stage = "starting" => task'[call'[d].token] = "none"
    BY <1>2, <2>1, <2>2, <2>5 DEF RequestInv
  <2>7. ASSUME asked # 0, running = asked PROVE permit \/ task'[asked] = "woken"
    <3>1. asked \in Token
      BY <1>1, <2>7, ServiceAssumption DEF ServiceTypeOK, Token
    <3>2. CASE asked = call[c].token
      BY <2>3, <2>7, <3>2 DEF RequestInv, RequestKept
    <3>3. CASE asked # call[c].token
      BY <2>2, <2>7, <3>1, <3>3 DEF RequestInv, RequestKept
    <3> QED BY <3>2, <3>3
  <2> QED BY <1>2, <1>3, <2>1, <2>4, <2>6, <2>7 DEF RequestInv, RequestKept
<1>7. CASE TakeRunning(c) /\ ~Returns(c)
  <2>1. /\ running # 0 /\ running' = 0 /\ UNCHANGED <<cancelled, task>>
        /\ call' = [call EXCEPT ![c].stage = "stopping", ![c].token = running]
    BY <1>7 DEF TakeRunning
  <2>2. \A d \in Callers : d # c => call'[d] = call[d]
    BY <1>1, <2>1
  <2>3. call'[c].stage = "stopping" /\ call'[c].token = running
    BY <1>1, <2>1 DEF Call
  <2>4. \A d \in Callers : call[d].stage = "stopping" => call[d].token # 0
    BY <1>1
  <2>5. 0 \notin cancelled
    BY <1>1
  <2>6. \A d \in Callers : call'[d].stage = "stopping" => call'[d].token # running'
    BY <2>1, <2>2, <2>3, <2>4
  <2>7. \A d \in Callers : call'[d].stage = "starting" => call'[d] = call[d]
    BY <2>2, <2>3
  <2>8. asked' # 0 => running' # asked'
    BY <2>1
  <2>9. \A d \in Callers : call'[d].stage = "starting" => task'[call'[d].token] = "none"
    BY <2>1, <2>7 DEF RequestInv
  <2>10. ASSUME NEW d \in Callers, NEW e \in Callers, call'[d].stage = "starting",
                call'[e].stage = "starting", call'[d].token = call'[e].token
         PROVE  d = e
    BY <2>7, <2>10 DEF RequestInv
  <2>11. running' \notin cancelled'
    BY <2>1, <2>5
  <2> QED BY <2>6, <2>8, <2>9, <2>10, <2>11 DEF RequestInv, RequestKept
<1>8. CASE Cancel(c)
  <2>1. /\ call[c].stage = "stopping" /\ cancelled' = cancelled \cup {call[c].token}
        /\ call' = [call EXCEPT ![c].stage = "cancelled"]
        /\ UNCHANGED <<running, task>>
    BY <1>8 DEF Cancel
  <2>2. \A d \in Callers : d # c => call'[d] = call[d]
    BY <1>1, <2>1
  <2>3. call'[c].stage = "cancelled"
    BY <1>1, <2>1 DEF Call
  <2>4. Departing' \subseteq Departing
    BY <2>1, <2>2, <2>3 DEF Departing, Driving, Live
  <2> QED BY <1>3, <2>1, <2>2, <2>3, <2>4 DEF RequestInv, RequestKept
<1>9. CASE TakeRunning(c) /\ Returns(c)
  <2>1. running = 0
    BY <1>1, <1>2, <1>9 DEF TakeRunning, Returns, Call
  <2> QED BY <1>4, <1>9, <2>1 DEF TakeRunning
<1>10. CASE (TakeToken(c) /\ Returns(c)) \/ MarkStopped(c)
  <2>1. CASE MarkStopped(c)
    BY <1>4, <2>1 DEF MarkStopped
  <2>2. CASE TakeToken(c) /\ Returns(c)
    <3>1. running' = running
      BY <1>1, <1>2, <2>2 DEF TakeToken, Returns, Call
    <3> QED BY <1>4, <2>2, <3>1 DEF TakeToken
  <2> QED BY <1>10, <2>1, <2>2
<1> QED BY <1>5, <1>6, <1>7, <1>8, <1>9, <1>10 DEF CallStep

\* A task takes the notification only to be woken, and once woken it hears the
\* request or finds itself cancelled.
LEMMA TasksKeepRequests ==
  ASSUME ServiceTypeOK, RequestInv, NEW t \in Token,
         Ticks(t) \/ Notified(t) \/ RunReturns(t) \/ TaskStep(t)
  PROVE  RequestInv'
<1>1. /\ UNCHANGED <<running, cancelled, call>>
      /\ task[t] # "none" /\ task[t] # "ended"
      /\ \A u \in Token : u # t => task'[u] = task[u]
  BY DEF ServiceTypeOK, Ticks, Notified, RunReturns, TaskStep, Begin, MarkRunning, ReadCancelled,
     Record, Leave, Moves
<1>2. \A c \in Callers : call[c].stage = "starting" => call[c].token \in Token /\ call[c].token # t
  BY <1>1, ServiceAssumption DEF ServiceTypeOK, RequestInv, Token
<1>3. Departing' \subseteq Departing
  BY <1>1, TaskStepsTouch DEF TaskMoves, Departing, Driving
<1>4. asked' \in {asked, 0}
  BY DEF Ticks, Notified, RunReturns, TaskStep, Begin, MarkRunning, ReadCancelled, Record, Leave
<1>5. ASSUME asked' # 0, running = asked' PROVE permit' \/ task'[asked'] = "woken"
  <2>1. asked' = asked /\ running = asked /\ Departing = {} /\ (permit \/ task[asked] = "woken")
    BY <1>4, <1>5 DEF RequestInv, RequestKept
  <2>2. t = asked
    <3>1. t \in Token \ {running} => t \in Departing
      BY <1>1 DEF Departing, Driving, Live
    <3> QED BY <2>1, <3>1
  <2>3. asked \notin cancelled
    BY <2>1 DEF RequestInv
  <2>4. CASE Notified(t)
    <3>1. task'[t] = "woken"
      BY <2>4 DEF Notified, Moves, ServiceTypeOK
    <3> QED BY <2>1, <2>2, <3>1
  <2>5. CASE Begin(t)
    BY <1>5, <2>1, <2>2, <2>5 DEF Begin
  <2>6. CASE ~Notified(t) /\ ~Begin(t)
    <3>1. permit' = permit
      BY <2>6 DEF Ticks, RunReturns, TaskStep, MarkRunning, ReadCancelled, Record, Leave
    <3>2. ~Leave(t)
      BY <2>2, <2>3 DEF Leave
    <3>3. task[t] # "woken"
      BY <2>6, <3>2 DEF Ticks, RunReturns, TaskStep, MarkRunning, ReadCancelled, Record, Moves
    <3> QED BY <2>1, <2>2, <3>1, <3>3
  <2> QED BY <2>4, <2>5, <2>6
<1>6. asked' # 0 /\ running' = asked' => Departing' = {}
  BY <1>1, <1>3, <1>4 DEF RequestInv
<1>7. \A c \in Callers : call'[c].stage = "starting" => task'[call'[c].token] = "none"
  BY <1>1, <1>2 DEF RequestInv
<1> QED BY <1>1, <1>5, <1>6, <1>7 DEF RequestInv, RequestKept

LEMMA RequestsKept == ServiceTypeOK /\ RequestInv /\ [ServiceNext]_serviceVars => RequestInv'
<1> SUFFICES ASSUME ServiceTypeOK, RequestInv, [ServiceNext]_serviceVars PROVE RequestInv'
  OBVIOUS
<1>1. CASE UNCHANGED serviceVars
  BY <1>1 DEF serviceVars, RequestInv, RequestKept, Departing, Driving, Live
<1>2. CASE Restart
  <2>1. running' = 0 /\ cancelled' = {} /\ asked' = 0
    BY <1>2 DEF Restart
  <2>2. \A c \in Callers : call'[c].stage \notin {"starting", "stopping"}
    BY <1>2 DEF Restart, Booting, NoCall
  <2> QED BY <2>1, <2>2 DEF RequestInv, RequestKept
<1>3. ASSUME NEW c \in Clients, NEW want \in BOOLEAN, Persist(c, want) PROVE RequestInv'
  <2>1. /\ UNCHANGED <<running, cancelled, task, asked, permit>>
        /\ c \in Callers /\ call[c].stage = "none"
        /\ call' = [call EXCEPT ![c] = [stage |-> "persisted", want |-> want, token |-> 0]]
    BY <1>3 DEF Persist, InCall, Callers
  <2>2. \A d \in Callers : call'[d].stage \in {"starting", "stopping"} => call'[d] = call[d]
    BY <2>1 DEF ServiceTypeOK
  <2>3. Departing' \subseteq Departing
    BY <2>1, <2>2 DEF Departing, Driving, Live
  <2> QED BY <2>1, <2>2, <2>3 DEF RequestInv, RequestKept
<1>4. ASSUME NEW c \in Callers, CallStep(c) PROVE RequestInv'
  BY <1>4, CallsKeepRequests
<1>5. CASE RunNow
  <2>1. /\ UNCHANGED <<running, cancelled, task, call>> /\ permit' = TRUE
        /\ Departing' = Departing
        /\ asked' = asked \/ (asked' = running /\ Departing = {})
    BY <1>5 DEF RunNow, Departing, Driving, Live
  <2> QED BY <2>1 DEF RequestInv, RequestKept
<1>6. ASSUME NEW t \in Token, Ticks(t) \/ Notified(t) \/ RunReturns(t) \/ TaskStep(t)
      PROVE  RequestInv'
  BY <1>6, TasksKeepRequests
<1> QED BY <1>1, <1>2, <1>3, <1>4, <1>5, <1>6 DEF ServiceNext

(***************************************************************************)
(* A pass asked of the running task, when no other task was about, is not  *)
(* forgotten, however calls and passes interleave: until the task hears of *)
(* it, the notification is stored or the task has been woken.              *)
(***************************************************************************)
THEOREM RequestsAreKept == ServiceSpec => []RequestKept
<1>1. ServiceInit => RequestInv
  BY DEF ServiceInit, RequestInv, RequestKept, Booting, NoCall
<1>2. RequestInv => RequestKept
  BY DEF RequestInv
<1> QED BY <1>1, <1>2, ServiceTypes, RequestsKept, PTL DEF ServiceSpec
=============================================================================
