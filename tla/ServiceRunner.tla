---------------------------- MODULE ServiceRunner ----------------------------
(***************************************************************************)
(* One service under its runner (service/runner).                          *)
(*                                                                         *)
(* Clients enable and disable the service, each over a connection of its   *)
(* own, so that their calls run on different threads.  A call persists the *)
(* choice and then puts the service on its schedule or takes it off; the   *)
(* lock on the running token is held for neither.  Every schedule is a     *)
(* task with a cancel token, which the task looks at between its steps, so *)
(* that a cancelled task departs in its own time, writing the service's    *)
(* row meanwhile.                                                          *)
(*                                                                         *)
(* What startup does after reconciling the row is a call too, made by      *)
(* Boot; no client reaches the service before it returns.  An update of    *)
(* the row is one transaction; its failures are not modelled.              *)
(***************************************************************************)
EXTENDS Integers

CONSTANTS
  Clients,     \* who may call set_enabled
  Boot,        \* the start of the process
  MaxUpsets,   \* bound: calls of set_enabled and restarts of the process
  MaxTokens    \* bound: starts of the service since the process began

ASSUME ServiceAssumption ==
  /\ Boot \notin Clients
  /\ MaxUpsets \in Nat
  /\ MaxTokens \in Nat

Callers  == Clients \cup {Boot}
Token    == 1..MaxTokens   \* cancel tokens made since the process began
Schedule == {"startup", "delayed", "continuous"}
State    == {"stopped", "idle", "running", "failed"}
Row      == [enabled: BOOLEAN, state: State]

\* A call: before it starts or stops the service, with a token made but not yet
\* spawned, with one taken but not yet cancelled, or not yet marked as stopped.
Stage == {"none", "persisted", "starting", "stopping", "cancelled"}
Call  == [stage: Stage, want: BOOLEAN, token: Token \cup {0}]
NoCall == [stage |-> "none", want |-> FALSE, token |-> 0]

\* Where a task is: before its token is spawned; waiting for a tick; woken, and
\* about to look at its token; about to mark the row; in the service's run;
\* back from it; about to record it, having seen its token uncancelled or
\* cancelled; ended.
TaskStage == {"none", "waiting", "woken", "marking", "running", "returned",
              "recording", "recordingLate", "ended"}

VARIABLES
  schedule,   \* how the service is driven
  row,        \* its row in the database
  running,    \* the running token, 0 for none
  made,       \* how many tokens have been made
  cancelled,  \* the cancelled tokens
  task,       \* where each token's task is
  call,       \* the call each caller is in
  permit,     \* the stored notification of run_now
  asked,      \* history: the token run_now last found, until its next pass, if no
              \* task of another token was about, or about to be spawned, then
  chosen,     \* history: the choice persisted last
  crossed,    \* history: whether the last call began while another ran
  upsets      \* calls and restarts so far, up to MaxUpsets

serviceVars == <<schedule, row, running, made, cancelled, task, call, permit, asked,
                 chosen, crossed, upsets>>

ServiceTypeOK ==
  /\ schedule \in Schedule
  /\ row \in Row
  /\ made \in 0..MaxTokens
  /\ running \in 0..made
  /\ cancelled \subseteq 1..made
  /\ task \in [Token -> TaskStage]
  /\ \A t \in Token : task[t] # "none" => t <= made
  /\ call \in [Callers -> Call]
  /\ \A c \in Callers : call[c].stage \in {"starting", "stopping"} => call[c].token \in 1..made
  /\ permit \in BOOLEAN
  /\ asked \in 0..made
  /\ chosen \in BOOLEAN
  /\ crossed \in BOOLEAN
  /\ upsets \in 0..MaxUpsets

Live(t) == task[t] \notin {"none", "ended"}

\* A token that has a task, or a call about to spawn one.
Driving(t) == Live(t) \/ \E c \in Callers : call[c].stage = "starting" /\ call[c].token = t
Departing  == {t \in Token \ {running} : Driving(t)}

InCall(c) == call[c].stage # "none"
Quiet     == \A c \in Callers : ~InCall(c)

-----------------------------------------------------------------------------
\* Startup: a row seen for the first time is enabled, and nothing runs yet.

\* Mutant: every start takes the row for a new one.
ReconciledAsNew(r) == [enabled |-> TRUE, state |-> "stopped"]

\* What reconcile makes of the row it finds.
Reconciled(r) == [r EXCEPT !.state = "stopped"]

\* The calls of a process that has reconciled row r: it is about to start the
\* service if that is enabled.
Booting(r) ==
  [c \in Callers |->
     IF c = Boot /\ r.enabled THEN [NoCall EXCEPT !.stage = "persisted", !.want = TRUE]
     ELSE NoCall]

ServiceInit ==
  /\ schedule \in Schedule
  /\ row = Reconciled([enabled |-> TRUE, state |-> "stopped"])
  /\ call = Booting(row)
  /\ running = 0 /\ made = 0 /\ cancelled = {}
  /\ task = [t \in Token |-> "none"]
  /\ permit = FALSE
  /\ asked = 0 /\ chosen = TRUE /\ crossed = FALSE
  /\ upsets = 0

\* The process ends at any point and starts again: the row is what is left.
Restart ==
  /\ upsets < MaxUpsets
  /\ row' = Reconciled(row)
  /\ call' = Booting(row')
  /\ running' = 0 /\ made' = 0 /\ cancelled' = {}
  /\ task' = [t \in Token |-> "none"]
  /\ permit' = FALSE
  /\ asked' = 0 /\ crossed' = FALSE
  /\ upsets' = upsets + 1
  /\ UNCHANGED <<schedule, chosen>>

-----------------------------------------------------------------------------
\* Calls.

\* set_enabled writes the choice first.
Persist(c, want) ==
  /\ ~InCall(Boot) /\ ~InCall(c)
  /\ upsets < MaxUpsets
  /\ row' = [row EXCEPT !.enabled = want]
  /\ call' = [call EXCEPT ![c] = [stage |-> "persisted", want |-> want, token |-> 0]]
  /\ chosen' = want
  /\ crossed' = \E d \in Clients : InCall(d)
  /\ upsets' = upsets + 1
  /\ UNCHANGED <<schedule, running, made, cancelled, task, permit, asked>>

Returns(c) == call' = [call EXCEPT ![c] = NoCall]

\* Mutants of TakeToken: it does not look whether the service is running; or
\* the token it makes is not its own.
TakeTokenUnchecked(c) ==
  /\ call[c].stage = "persisted" /\ call[c].want
  /\ made < MaxTokens
  /\ made' = made + 1
  /\ running' = made + 1
  /\ call' = [call EXCEPT ![c].stage = "starting", ![c].token = made + 1]
  /\ UNCHANGED <<schedule, row, cancelled, task, permit, asked, chosen, crossed, upsets>>

TakeTokenStale(c) ==
  /\ call[c].stage = "persisted" /\ call[c].want
  /\ \/ running # 0 /\ Returns(c) /\ UNCHANGED <<running, made>>
     \/ /\ running = 0 /\ made < MaxTokens
        /\ made' = made + 1
        /\ running' = made
        /\ call' = [call EXCEPT ![c].stage = "starting", ![c].token = made]
  /\ UNCHANGED <<schedule, row, cancelled, task, permit, asked, chosen, crossed, upsets>>

\* start, under the lock: a service that is running is left alone.  (Every start
\* but the first needs a call to stop and a call to start, so that 1 + MaxUpsets \div 2
\* tokens are as many as there can be.)
TakeToken(c) ==
  /\ call[c].stage = "persisted" /\ call[c].want
  /\ \/ running # 0 /\ Returns(c) /\ UNCHANGED <<running, made>>
     \/ /\ running = 0 /\ made < MaxTokens
        /\ made' = made + 1
        /\ running' = made + 1
        /\ call' = [call EXCEPT ![c].stage = "starting", ![c].token = made + 1]
  /\ UNCHANGED <<schedule, row, cancelled, task, permit, asked, chosen, crossed, upsets>>

\* start, after it: the row is marked and the task spawned.  Only a delayed
\* schedule waits before it first looks at its token.
Launch(c) ==
  /\ call[c].stage = "starting"
  /\ row' = [row EXCEPT !.state = "idle"]
  /\ task' = [task EXCEPT ![call[c].token] = IF schedule = "delayed" THEN "waiting" ELSE "woken"]
  /\ Returns(c)
  /\ UNCHANGED <<schedule, running, made, cancelled, permit, asked, chosen, crossed, upsets>>

\* stop, under the lock: there may be nothing to stop.
TakeRunning(c) ==
  /\ call[c].stage = "persisted" /\ ~call[c].want
  /\ \/ running = 0 /\ Returns(c)
     \/ running # 0 /\ call' = [call EXCEPT ![c].stage = "stopping", ![c].token = running]
  /\ running' = 0
  /\ UNCHANGED <<schedule, row, made, cancelled, task, permit, asked, chosen, crossed, upsets>>

\* stop, after it: the token is cancelled, then the row marked.
Cancel(c) ==
  /\ call[c].stage = "stopping"
  /\ cancelled' = cancelled \cup {call[c].token}
  /\ call' = [call EXCEPT ![c].stage = "cancelled"]
  /\ UNCHANGED <<schedule, row, running, made, task, permit, asked, chosen, crossed, upsets>>

MarkStopped(c) ==
  /\ call[c].stage = "cancelled"
  /\ row' = [row EXCEPT !.state = "stopped"]
  /\ Returns(c)
  /\ UNCHANGED <<schedule, running, made, cancelled, task, permit, asked, chosen, crossed, upsets>>

CallStep(c) == TakeToken(c) \/ Launch(c) \/ TakeRunning(c) \/ Cancel(c) \/ MarkStopped(c)

\* Mutant of RunNow: the notification wakes who waits for it and is not stored.
RunNowUnstored ==
  /\ ~InCall(Boot)
  /\ running # 0
  /\ permit' = (task[running] = "waiting")
  /\ asked' = IF schedule = "continuous" \/ Departing # {} THEN asked ELSE running
  /\ UNCHANGED <<schedule, row, running, made, cancelled, task, call, chosen, crossed, upsets>>

\* run_now: refused when nothing runs; otherwise the notification is stored
\* until a task waits for it.
RunNow ==
  /\ ~InCall(Boot)
  /\ running # 0
  /\ permit' = TRUE
  /\ asked' = IF schedule = "continuous" \/ Departing # {} THEN asked ELSE running
  /\ UNCHANGED <<schedule, row, running, made, cancelled, task, call, chosen, crossed, upsets>>

-----------------------------------------------------------------------------
\* Tasks.

Moves(t, from, to) == task[t] = from /\ task' = [task EXCEPT ![t] = to]

\* The wait for the next pass, or for the back-off, is over.  Its token was
\* looked at before, perhaps just before it was cancelled.
Ticks(t) ==
  /\ Moves(t, "waiting", "woken")
  /\ UNCHANGED <<schedule, row, running, made, cancelled, call, permit, asked, chosen,
                 crossed, upsets>>

Notified(t) ==
  /\ schedule # "continuous"
  /\ permit /\ permit' = FALSE
  /\ Moves(t, "waiting", "woken")
  /\ UNCHANGED <<schedule, row, running, made, cancelled, call, asked, chosen, crossed, upsets>>

\* The pass begins unless the token is cancelled by now.
Begin(t) ==
  /\ t \notin cancelled
  /\ Moves(t, "woken", "marking")
  /\ asked' = IF asked = t THEN 0 ELSE asked
  /\ UNCHANGED <<schedule, row, running, made, cancelled, call, permit, chosen, crossed, upsets>>

MarkRunning(t) ==
  /\ Moves(t, "marking", "running")
  /\ row' = [row EXCEPT !.state = "running"]
  /\ UNCHANGED <<schedule, running, made, cancelled, call, permit, asked, chosen, crossed, upsets>>

\* The service's run returns; the token was looked at before.
RunReturns(t) ==
  /\ Moves(t, "running", "returned")
  /\ UNCHANGED <<schedule, row, running, made, cancelled, call, permit, asked, chosen,
                 crossed, upsets>>

\* Whether the token is cancelled is read before the row is written.
ReadCancelled(t) ==
  /\ Moves(t, "returned", IF t \in cancelled THEN "recordingLate" ELSE "recording")
  /\ UNCHANGED <<schedule, row, running, made, cancelled, call, permit, asked, chosen,
                 crossed, upsets>>

\* The outcome goes to the row; its state is left to stop when that was seen.
Record(t) ==
  /\ \/ /\ Moves(t, "recording", "waiting")
        /\ \E outcome \in {"idle", "failed"} : row' = [row EXCEPT !.state = outcome]
     \/ /\ Moves(t, "recordingLate", "waiting")
        /\ UNCHANGED row
  /\ UNCHANGED <<schedule, running, made, cancelled, call, permit, asked, chosen, crossed, upsets>>

\* Mutant of Leave: a run is not given up when its token is cancelled.
LeaveAfterRun(t) ==
  /\ t \in cancelled
  /\ \E stage \in {"waiting", "woken"} : Moves(t, stage, "ended")
  /\ UNCHANGED <<schedule, row, running, made, cancelled, call, permit, asked, chosen,
                 crossed, upsets>>

\* Everywhere it waits the task watches its token, and drops the run it is in.
Leave(t) ==
  /\ t \in cancelled
  /\ \E stage \in {"waiting", "woken", "running"} : Moves(t, stage, "ended")
  /\ UNCHANGED <<schedule, row, running, made, cancelled, call, permit, asked, chosen,
                 crossed, upsets>>

TaskStep(t) == Begin(t) \/ MarkRunning(t) \/ ReadCancelled(t) \/ Record(t) \/ Leave(t)

-----------------------------------------------------------------------------
ServiceNext ==
  \/ Restart
  \/ \E c \in Clients, want \in BOOLEAN : Persist(c, want)
  \/ \E c \in Callers : CallStep(c)
  \/ RunNow
  \/ \E t \in Token : Ticks(t) \/ Notified(t) \/ RunReturns(t) \/ TaskStep(t)

ServiceSpec == ServiceInit /\ [][ServiceNext]_serviceVars

\* What a task does without a tick.  A notification wakes it.  The run of a
\* periodic service is "one bounded pass"; that of a continuous one may never
\* return.
Progress(t) == TaskStep(t) \/ Notified(t) \/ (schedule # "continuous" /\ RunReturns(t))

\* Threads run.  Nothing is assumed of ticks, which may be hours apart, of clients
\* or of restarts.
ServiceFairness ==
  /\ \A c \in Callers : WF_serviceVars(CallStep(c))
  /\ \A t \in Token : WF_serviceVars(Progress(t))

FairServiceSpec == ServiceSpec /\ ServiceFairness

-----------------------------------------------------------------------------
\* Properties.

(***************************************************************************)
(* However calls cross, one schedule drives the service: a task whose      *)
(* token is not cancelled is the one set_enabled can find and stop, unless *)
(* a call has just taken its token to cancel it.                           *)
(***************************************************************************)
OneSchedule ==
  \A t \in Token :
    Live(t) /\ t \notin cancelled
      => running = t \/ \E c \in Callers : call[c].stage = "stopping" /\ call[c].token = t

(***************************************************************************)
(* A choice holds: once no call is under way, and unless the last one      *)
(* began while another ran, the row has the choice persisted last and the  *)
(* service is on its schedule exactly if it is enabled, whatever crossed   *)
(* before, whatever tasks are still departing, and across restarts at any  *)
(* point of a call ("persist the desire first") or of a pass.  And in a    *)
(* process that has started nothing yet the row does not say, from the     *)
(* process before, that something runs.                                    *)
(***************************************************************************)
ChoiceHolds ==
  /\ Quiet /\ ~crossed => row.enabled = chosen /\ (running # 0 <=> chosen)
  /\ made = 0 => row.state = "stopped"

(***************************************************************************)
(* A cancelled task ends, whatever the service's run does.                 *)
(***************************************************************************)
CancelledEnds ==
  \A t \in Token : (t \in cancelled /\ Live(t)) ~> ~(t \in cancelled /\ Live(t))

(***************************************************************************)
(* run_now makes the running periodic service pass once more, also when it *)
(* is asked in the middle of a pass and without any tick, unless the       *)
(* service is stopped first.  If a task that was stopped, or was stopped   *)
(* before it was even spawned, was still about when run_now was asked, it  *)
(* may take the notification (supervise waits for its token and for the    *)
(* notification in one select), hence asked leaves such a request out.     *)
(***************************************************************************)
AskedPassRuns ==
  (asked # 0 /\ running = asked) ~> (asked = 0 \/ running # asked)
=============================================================================
