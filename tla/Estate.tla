-------------------------------- MODULE Estate --------------------------------
(***************************************************************************)
(* Ownership composed with the data it is about.  An agent mints the       *)
(* revisions of its own record; the server that owns it pulls them from    *)
(* the agent, the global server pulls them from that owner over its link,  *)
(* and a hydration carries the global server's record to a new owner.      *)
(* Replication only ever raises a revision (database/sync.rs), so a record *)
(* is its revision number here.  A pull is a sync stream: its responder    *)
(* reads a snapshot first and registers its watch in a later step; what is *)
(* committed between the two is in neither (network/sync.rs).              *)
(***************************************************************************)
EXTENDS Ownership

CONSTANT MaxRev   \* bound: the revisions each agent mints

ASSUME EstateAssumption == MaxRev \in Nat

\* The answer to a hydration's Subscribe, on its way to the task that asked.
Snapshot == [scope: Scope, link: Link, rev: 0..MaxRev]

\* One agent's record on a pull: whether it was asked for, read into the snapshot
\* (revision 0 is no row) and watched, and the revisions sent and not applied yet.
\* `missed` is history: the last change of the record fell into the gap.
Pull == [pc: {"none", "asked", "read", "live"}, sent: SUBSET (1..MaxRev), missed: BOOLEAN]

NoPull == [pc |-> "none", sent |-> {}, missed |-> FALSE]
Asked  == [NoPull EXCEPT !.pc = "asked"]

VARIABLES
  agentRev,   \* the revision of each agent's record in its own database
  rev,        \* the revision each server has of it
  agentPulls, \* per server and agent, the pull toward that agent
  ownerPulls, \* per link and agent, the pull of what its local server owns
  snapshots,  \* per local server, the snapshots under way to its tasks
  baseline    \* history: the global server's revision when it last moved a grant

dataVars   == <<agentRev, rev, agentPulls, ownerPulls, snapshots, baseline>>
estateVars == <<vars, dataVars>>

EstateTypeOK ==
  /\ agentRev \in [Agents -> 0..MaxRev]
  /\ rev \in [Servers -> [Agents -> 0..MaxRev]]
  /\ agentPulls \in [Servers -> [Agents -> Pull]]
  /\ ownerPulls \in [Link -> [Agents -> Pull]]
  /\ snapshots \in [Locals -> SUBSET Snapshot]
  /\ baseline \in [Agents -> 0..MaxRev]

EstateInit ==
  /\ Init
  /\ agentRev = [a \in Agents |-> 0]
  /\ rev = [s \in Servers |-> [a \in Agents |-> 0]]
  /\ agentPulls = [s \in Servers |-> [a \in Agents |-> NoPull]]
  /\ ownerPulls = [l \in Link |-> [a \in Agents |-> NoPull]]
  /\ snapshots = [s \in Locals |-> {}]
  /\ baseline = [a \in Agents |-> 0]

-----------------------------------------------------------------------------
\* Mutants of Applied: the replica is written like a local update, which mints
\* a revision of its own; or through the ownership gate, which is shut while a
\* scope hydrates.
AppliedAndMinted(s, a, r) == IF rev[s][a] >= r THEN rev[s][a] ELSE r + 1

AppliedIfWritable(s, a, r) ==
  IF s \in Locals /\ table[s][a].state # "owned" THEN rev[s][a]
  ELSE IF rev[s][a] >= r THEN rev[s][a] ELSE r

\* What a server has of a's record once revision r reached it: replica_write
\* asks nobody, and an older or equal revision is dropped.
Applied(s, a, r) == IF rev[s][a] >= r THEN rev[s][a] ELSE r

\* What pull p makes of a commit of revision r at its source.
Hears(p, r) ==
  CASE p.pc = "live" -> [p EXCEPT !.sent = @ \cup {r}, !.missed = FALSE]
    [] p.pc = "read" -> [p EXCEPT !.missed = TRUE]
    [] OTHER         -> p

\* SyncResponder answers pull p of a record at revision r, or registers its watch.
Answered(p, r) ==
  IF p.pc = "asked" THEN [p EXCEPT !.pc = "read", !.sent = {r} \ {0}]
  ELSE [p EXCEPT !.pc = "live"]

\* The stream delivers in the order the record was written in.
First(p, r) == \A q \in p.sent : r <= q

\* Server s applies revision r of a's record, and the pulls of s hear of a change.
Apply(s, a, r) ==
  /\ rev' = [rev EXCEPT ![s][a] = Applied(s, a, r)]
  /\ ownerPulls' = [l \in Link |->
       IF l[1] = s /\ Applied(s, a, r) # rev[s][a]
         THEN [ownerPulls[l] EXCEPT ![a] = Hears(@, Applied(s, a, r))]
         ELSE ownerPulls[l]]

AgentWrite(a) ==
  /\ agentRev[a] < MaxRev
  /\ agentRev' = [agentRev EXCEPT ![a] = @ + 1]
  /\ agentPulls' = [s \in Servers |->
       [agentPulls[s] EXCEPT ![a] = Hears(@, agentRev[a] + 1)]]
  /\ UNCHANGED <<vars, rev, ownerPulls, snapshots, baseline>>

\* One pass of maintain_agent_sync: pulls toward agents that left or whose scope
\* was lost are dropped, pulls toward owned and attached agents are opened.
ReconcileAgentPulls(s) ==
  LET wanted == {a \in attached[s] : table[s][a].state = "owned"} IN
  /\ \E a \in Agents : (a \in wanted) # (agentPulls[s][a] # NoPull)
  /\ agentPulls' = [agentPulls EXCEPT ![s] = [a \in Agents |->
       IF a \notin wanted THEN NoPull
       ELSE IF agentPulls[s][a] = NoPull THEN Asked ELSE agentPulls[s][a]]]
  /\ UNCHANGED <<vars, agentRev, rev, ownerPulls, snapshots, baseline>>

\* The agent's end and then the server's end of the pull of s toward a.
AgentAnswers(s, a) ==
  /\ home[a] = s
  /\ agentPulls[s][a].pc \in {"asked", "read"}
  /\ agentPulls' = [agentPulls EXCEPT ![s][a] = Answered(@, agentRev[a])]
  /\ UNCHANGED <<vars, agentRev, rev, ownerPulls, snapshots, baseline>>

PullFromAgent(s, a) ==
  /\ home[a] = s
  /\ \E r \in agentPulls[s][a].sent :
       /\ First(agentPulls[s][a], r)
       /\ agentPulls' = [agentPulls EXCEPT ![s][a].sent = @ \ {r}]
       /\ Apply(s, a, r)
  /\ UNCHANGED <<vars, agentRev, snapshots, baseline>>

\* The owner's end and then the global server's end of the pull that
\* OwnershipResponder's watcher keeps on link l.
OwnerAnswers(l, a) ==
  /\ l \in localEnd \cap globalEnd
  /\ ownerPulls[l][a].pc \in {"asked", "read"}
  /\ ownerPulls' = [ownerPulls EXCEPT ![l][a] = Answered(@, rev[l[1]][a])]
  /\ UNCHANGED <<vars, agentRev, rev, agentPulls, snapshots, baseline>>

PullFromOwner(l, a) ==
  /\ l \in localEnd \cap globalEnd
  /\ \E r \in ownerPulls[l][a].sent :
       /\ First(ownerPulls[l][a], r)
       /\ ownerPulls' = [ownerPulls EXCEPT ![l][a].sent = @ \ {r}]
       /\ rev' = [rev EXCEPT ![Global][a] = Applied(Global, a, r)]
  /\ UNCHANGED <<vars, agentRev, agentPulls, snapshots, baseline>>

\* SyncResponder on the global server answers the hydration's Subscribe.
ServeSnapshot(s, t) ==
  LET answer == [scope |-> t.scope, link |-> t.link, rev |-> rev[Global][t.scope.instance]] IN
  /\ t.pc = "waiting"
  /\ t.link \in localEnd \cap globalEnd
  /\ \A x \in snapshots[s] : <<x.scope, x.link>> # <<t.scope, t.link>>
  /\ snapshots' = [snapshots EXCEPT ![s] = @ \cup {answer}]
  /\ UNCHANGED <<vars, agentRev, rev, agentPulls, ownerPulls, baseline>>

SnapshotArrives(s, t) ==
  \E x \in snapshots[s] :
    /\ <<x.scope, x.link>> = <<t.scope, t.link>>
    /\ SnapshotComplete(s, t)
    /\ Apply(s, x.scope.instance, x.rev)
    /\ snapshots' = [snapshots EXCEPT ![s] = @ \ {x}]
    /\ UNCHANGED <<agentRev, agentPulls, baseline>>

\* The pulls a step of the protocol leaves open on link l: the watcher rebuilds
\* them for the set it announces, and they die with either end.
OwnerPullsFollow ==
  ownerPulls' = [l \in Link |-> [a \in Agents |->
    IF l \notin localEnd' \cap globalEnd' THEN NoPull
    ELSE IF told'[l] = told[l] THEN ownerPulls[l][a]
    ELSE IF a \in Instances(told'[l]) THEN Asked ELSE NoPull]]

\* What it does to the snapshots on their way, which nobody may wait for any more,
\* and to the history.
SnapshotsFollow ==
  /\ snapshots' = [s \in Locals |->
       {x \in snapshots[s] : \E t \in tasks'[s] :
          t.pc = "waiting" /\ <<x.scope, x.link>> = <<t.scope, t.link>>}]
  /\ baseline' = [a \in Agents |->
       IF grants'[a] # grants[a] THEN rev[Global][a] ELSE baseline[a]]

\* Mutant of StreamsFollow: the connect handler opens no pull.
StreamsFollowOnlyDown ==
  /\ agentPulls' = [s \in Servers |-> [a \in Agents |->
       IF home'[a] = home[a] /\ a \in attached'[s] THEN agentPulls[s][a] ELSE NoPull]]
  /\ OwnerPullsFollow
  /\ SnapshotsFollow
  /\ UNCHANGED <<agentRev, rev>>

\* What a step of the protocol does to the data streams: a pull toward an agent
\* dies with its connection, and the global server opens one when it accepts one.
StreamsFollow ==
  /\ agentPulls' = [s \in Servers |-> [a \in Agents |->
       IF s = Global /\ home[a] # Global /\ home'[a] = Global THEN Asked
       ELSE IF home'[a] = home[a] /\ a \in attached'[s] THEN agentPulls[s][a] ELSE NoPull]]
  /\ OwnerPullsFollow
  /\ SnapshotsFollow
  /\ UNCHANGED <<agentRev, rev>>

EstateNext ==
  \/ ControlStep /\ StreamsFollow
  \/ \E a \in Agents : AgentWrite(a)
  \/ \E s \in Locals : ReconcileAgentPulls(s)
  \/ \E s \in Servers, a \in Agents : AgentAnswers(s, a)
  \/ \E s \in Servers, a \in Agents : PullFromAgent(s, a)
  \/ \E l \in Link, a \in Agents : OwnerAnswers(l, a)
  \/ \E l \in Link, a \in Agents : PullFromOwner(l, a)
  \/ \E s \in Locals : \E t \in tasks[s] : ServeSnapshot(s, t)
  \/ \E s \in Locals : \E t \in tasks[s] : SnapshotArrives(s, t)

EstateSpec == EstateInit /\ [][EstateNext]_estateVars

\* The protocol's fairness (Ownership), and that of the streams' two ends.
DataFairness ==
  /\ \A s \in Locals :
       /\ WF_estateVars(ReconcileAgentPulls(s))
       /\ WF_estateVars(\E t \in tasks[s] : ServeSnapshot(s, t) \/ SnapshotArrives(s, t))
  /\ \A a \in Agents :
       /\ \A s \in Servers : WF_estateVars(AgentAnswers(s, a) \/ PullFromAgent(s, a))
       /\ \A l \in Link : WF_estateVars(OwnerAnswers(l, a) \/ PullFromOwner(l, a))

FairEstateSpec == EstateSpec /\ Fairness /\ DataFairness

-----------------------------------------------------------------------------
(***************************************************************************)
(* Hydration hands over the data with the right to write it (hydrate): an  *)
(* owner that has hydrated its current grant holds at least the revision   *)
(* the global server held when it made that grant.                         *)
(***************************************************************************)
HydratedContinues ==
  \A s \in Locals, a \in Agents :
    /\ grants[a].owner = s
    /\ [instance |-> a, epoch |-> grants[a].epoch] \in hydrated[s]
    => rev[s][a] >= baseline[a]

(***************************************************************************)
(* The estate converges.  Once an agent, its grant, its owner's scope      *)
(* table and the link between the owner and the global server have settled *)
(* on the server the agent is attached to, what the agent wrote last       *)
(* reaches the global server, unless a pull on its way took its snapshot   *)
(* before and its watch after it came: that one is lost for as long as the *)
(* pull lives (replication_gap).  And whatever was claimed on links that   *)
(* died, a link that stays up carries the claim of what is attached, which *)
(* the global server has handled.                                          *)
(***************************************************************************)
Settled(a, s) ==
  /\ home[a] = s
  /\ grants[a].owner = s
  /\ s \in Locals => /\ table[s][a].state = "owned"
                     /\ Current(s) \in localEnd \cap globalEnd

FellInGap(a, s) ==
  \/ agentPulls[s][a].missed
  \/ \E l \in Link : l[1] = s /\ ownerPulls[l][a].missed

EstateConverges ==
  /\ \A a \in Agents, s \in Servers :
       <>[]Settled(a, s) => <>[](rev[Global][a] = agentRev[a] \/ FellInGap(a, s))
  /\ \A l \in Link :
       <>[](l \in localEnd \cap globalEnd)
         => <>[](claimed[l] = attached[l[1]] /\ claimQ[l] = <<>>)
===============================================================================
