------------------------------ MODULE Ownership ------------------------------
(***************************************************************************)
(* Per-instance data ownership across strata (sandpolis-server/ownership). *)
(*                                                                         *)
(* Agents attach to servers.  One global stratum server arbitrates: every  *)
(* server claims the agents attached to it, the global server resolves the *)
(* claims against one grant table and bumps a fencing epoch each time      *)
(* ownership moves.  A local stratum server hears its owned set over the   *)
(* claim stream of its upstream link, hydrates each new grant from the     *)
(* global server and only then may write the agent's data.                 *)
(*                                                                         *)
(* A link is one websocket between a local server and the global one, and  *)
(* its two ends notice its death separately.  Messages of one link are     *)
(* FIFO in each direction and die with the end that would receive them.    *)
(***************************************************************************)
EXTENDS Integers, Sequences

CONSTANTS
  Global,       \* the global stratum server
  Locals,       \* the local stratum servers
  Agents,       \* the instances whose data is owned
  None,         \* "no value": an unset Option, an agent attached nowhere
  MaxLinks,     \* bound: links each local server dials
  MaxUpsets     \* bound: agents connecting or vanishing, links failing, restarts

Servers == Locals \cup {Global}

ASSUME OwnershipAssumption ==
  /\ Global \notin Locals
  /\ None \notin Servers
  /\ MaxLinks \in Nat
  /\ MaxUpsets \in Nat

Link  == Locals \X (1..MaxLinks)
Scope == [instance: Agents, epoch: Nat \ {0}]
Grant == [owner: Servers \cup {None}, epoch: Nat]
Task  == [scope: Scope, link: Link, pc: {"waiting", "complete", "commit", "mirror"}]

\* A local server's state for one scope: absent from its ScopeTable,
\* Hydrating, or Owned at an epoch.
Released   == [state |-> "released", epoch |-> 0]
Hydrating  == [state |-> "hydrating", epoch |-> 0]
Owned(e)   == [state |-> "owned", epoch |-> e]
ScopeState == [state: {"released", "hydrating", "owned"}, epoch: Nat]

VARIABLES
  home,       \* where each agent is really connected
  attached,   \* the live inbound agents each server believes it has
  grants,     \* the global server's grant table; epoch 0 is "no row"
  localClaim, \* maintain_local_claims: the set claimed last
  dialed,     \* links each local server has dialed; the last is the current one
  localEnd,   \* links whose local end is open
  globalEnd,  \* links whose global end is open
  claimed,    \* per link, the set its claim watcher sent last
  claimQ,     \* per link, claims on their way up
  watching,   \* links whose OwnershipResponder has started its watcher
  told,       \* per link, the owned set its watcher announced (and pulls) last
  eventQ,     \* per link, owned sets on their way down
  table,      \* each local server's ScopeTable
  mirror,     \* each local server's persisted grants; epoch 0 is "no row"
  tasks,      \* each local server's running hydration tasks
  hydrated,   \* history: the grants whose snapshot each local server applied
  upsets      \* what the environment has done so far

linkVars == <<dialed, localEnd, globalEnd, claimed, claimQ, watching, told, eventQ>>
edgeVars == <<table, mirror, tasks, hydrated>>
vars     == <<home, attached, grants, localClaim, linkVars, edgeVars, upsets>>

TypeOK ==
  /\ home \in [Agents -> Servers \cup {None}]
  /\ attached \in [Servers -> SUBSET Agents]
  /\ grants \in [Agents -> Grant]
  /\ localClaim \in (SUBSET Agents) \cup {None}
  /\ dialed \in [Locals -> 0..MaxLinks]
  /\ localEnd \in SUBSET Link
  /\ globalEnd \in SUBSET Link
  /\ claimed \in [Link -> (SUBSET Agents) \cup {None}]
  /\ claimQ \in [Link -> Seq(SUBSET Agents)]
  /\ watching \in SUBSET Link
  /\ told \in [Link -> (SUBSET Scope) \cup {None}]
  /\ eventQ \in [Link -> Seq(SUBSET Scope)]
  /\ table \in [Locals -> [Agents -> ScopeState]]
  /\ mirror \in [Locals -> [Agents -> Nat]]
  /\ tasks \in [Locals -> SUBSET Task]
  /\ hydrated \in [Locals -> SUBSET Scope]
  /\ upsets \in 0..MaxUpsets

Init ==
  /\ home = [a \in Agents |-> None]
  /\ attached = [s \in Servers |-> {}]
  /\ grants = [a \in Agents |-> [owner |-> None, epoch |-> 0]]
  /\ localClaim = None
  /\ dialed = [s \in Locals |-> 0]
  /\ localEnd = {}
  /\ globalEnd = {}
  /\ claimed = [l \in Link |-> None]
  /\ claimQ = [l \in Link |-> <<>>]
  /\ watching = {}
  /\ told = [l \in Link |-> None]
  /\ eventQ = [l \in Link |-> <<>>]
  /\ table = [s \in Locals |-> [a \in Agents |-> Released]]
  /\ mirror = [s \in Locals |-> [a \in Agents |-> 0]]
  /\ tasks = [s \in Locals |-> {}]
  /\ hydrated = [s \in Locals |-> {}]
  /\ upsets = 0

-----------------------------------------------------------------------------
(* Agents come, roam and vanish; a server notices a departure late.        *)

\* A connection of agent a reaches server s, which tracks it at once.
AgentConnect(a, s) ==
  /\ upsets < MaxUpsets
  /\ home[a] # s
  /\ home' = [home EXCEPT ![a] = s]
  /\ attached' = [attached EXCEPT ![s] = @ \cup {a}]
  /\ upsets' = upsets + 1
  /\ UNCHANGED <<grants, localClaim, linkVars, edgeVars>>

AgentVanish(a) ==
  /\ upsets < MaxUpsets
  /\ home[a] # None
  /\ home' = [home EXCEPT ![a] = None]
  /\ upsets' = upsets + 1
  /\ UNCHANGED <<attached, grants, localClaim, linkVars, edgeVars>>

\* The connection's cancel token fires (close or missed keepalive) and the
\* janitor drops it from the inbound list.
NoticeGone(a, s) ==
  /\ a \in attached[s]
  /\ home[a] # s
  /\ attached' = [attached EXCEPT ![s] = @ \ {a}]
  /\ UNCHANGED <<home, grants, localClaim, linkVars, edgeVars, upsets>>

-----------------------------------------------------------------------------
(* The grant table of the global server.                                   *)

\* Mutants of Claim: a new row keeps the default epoch; a move keeps the epoch.
ClaimAtDefaultEpoch(claimer, instances) ==
  [a \in Agents |->
    IF a \in instances /\ grants[a].owner # claimer
      THEN [owner |-> claimer,
            epoch |-> IF grants[a].owner = None THEN 0 ELSE grants[a].epoch + 1]
      ELSE grants[a]]

ClaimWithoutBump(claimer, instances) ==
  [a \in Agents |->
    IF a \in instances THEN [owner |-> claimer, epoch |-> 1] ELSE grants[a]]

\* The table after `claimer` reports `instances` as attached: whatever it does
\* not own yet moves to it with the next epoch, the rest is left alone.
Claim(claimer, instances) ==
  [a \in Agents |->
    IF a \in instances /\ grants[a].owner # claimer
      THEN [owner |-> claimer, epoch |-> grants[a].epoch + 1]
      ELSE grants[a]]

\* Mutant of OwnedBy: the owner filter is missing.
OwnedByAnyone(s) ==
  {[instance |-> a, epoch |-> grants[a].epoch] : a \in {b \in Agents : grants[b].owner # None}}

OwnedBy(s) ==
  {[instance |-> a, epoch |-> grants[a].epoch] : a \in {b \in Agents : grants[b].owner = s}}

\* maintain_local_claims: the global server claims for itself what is attached
\* to it, each time that set differs from the one it claimed before.
LocalClaim ==
  /\ localClaim # attached[Global]
  /\ grants' = Claim(Global, attached[Global])
  /\ localClaim' = attached[Global]
  /\ UNCHANGED <<home, attached, linkVars, edgeVars, upsets>>

-----------------------------------------------------------------------------
(* Links.                                                                  *)

Current(s) == <<s, dialed[s]>>

LinkUp(s) ==
  /\ dialed[s] < MaxLinks
  /\ Current(s) \notin localEnd
  /\ dialed' = [dialed EXCEPT ![s] = @ + 1]
  /\ localEnd' = localEnd \cup {<<s, dialed[s] + 1>>}
  /\ globalEnd' = globalEnd \cup {<<s, dialed[s] + 1>>}
  /\ UNCHANGED <<home, attached, grants, localClaim, claimed, claimQ, watching,
                 told, eventQ, edgeVars, upsets>>

\* An end closes: on its own (a network failure, which the other end learns
\* of later) or because its keepalive finds the other end gone.
Closes(l, other) ==
  IF l \in other THEN upsets < MaxUpsets /\ upsets' = upsets + 1 ELSE UNCHANGED upsets

\* The local end goes away: nothing more is received on it, its claim watcher
\* stops, and the tasks parked on its cancel token will find it fired.
LocalClose(l) ==
  /\ l \in localEnd
  /\ Closes(l, globalEnd)
  /\ localEnd' = localEnd \ {l}
  /\ claimed' = [claimed EXCEPT ![l] = None]
  /\ eventQ' = [eventQ EXCEPT ![l] = <<>>]
  /\ UNCHANGED <<home, attached, grants, localClaim, dialed, globalEnd,
                 claimQ, watching, told, edgeVars>>

\* The global end goes away, and with it the responder, its watcher and the pull.
GlobalClose(l) ==
  /\ l \in globalEnd
  /\ Closes(l, localEnd)
  /\ globalEnd' = globalEnd \ {l}
  /\ claimQ' = [claimQ EXCEPT ![l] = <<>>]
  /\ watching' = watching \ {l}
  /\ told' = [told EXCEPT ![l] = None]
  /\ UNCHANGED <<home, attached, grants, localClaim, dialed, localEnd, claimed,
                 eventQ, edgeVars>>

-----------------------------------------------------------------------------
(* The claim stream.                                                       *)

\* run_link's watcher: the first pass of a link always claims, even nothing;
\* later ones only when the attached set differs from the one claimed last.
SendClaim(s) ==
  LET l == Current(s) IN
  /\ l \in localEnd
  /\ claimed[l] # attached[s]
  /\ claimed' = [claimed EXCEPT ![l] = attached[s]]
  /\ claimQ' = [claimQ EXCEPT ![l] = IF l \in globalEnd THEN Append(@, attached[s]) ELSE @]
  /\ UNCHANGED <<home, attached, grants, localClaim, dialed, localEnd, globalEnd,
                 watching, told, eventQ, edgeVars, upsets>>

\* OwnershipResponder::on_message: resolve the claim, start the watcher once.
HandleClaim(l) ==
  /\ l \in globalEnd
  /\ claimQ[l] # <<>>
  /\ grants' = Claim(l[1], Head(claimQ[l]))
  /\ claimQ' = [claimQ EXCEPT ![l] = Tail(@)]
  /\ watching' = watching \cup {l}
  /\ UNCHANGED <<home, attached, localClaim, dialed, localEnd, globalEnd, claimed,
                 told, eventQ, edgeVars, upsets>>

\* Mutant of WatcherPass: it answers the first claim and never looks again.
WatcherPassOnce(l) ==
  /\ l \in watching
  /\ told[l] = None
  /\ told' = [told EXCEPT ![l] = OwnedBy(l[1])]
  /\ eventQ' = [eventQ EXCEPT ![l] = IF l \in localEnd THEN Append(@, OwnedBy(l[1])) ELSE @]
  /\ UNCHANGED <<home, attached, grants, localClaim, dialed, localEnd, globalEnd,
                 claimed, claimQ, watching, edgeVars, upsets>>

\* One pass of the responder's watcher: when the peer's owned set differs from
\* the one announced last, announce it and rebuild the pull of it.
WatcherPass(l) ==
  /\ l \in watching
  /\ told[l] # OwnedBy(l[1])
  /\ told' = [told EXCEPT ![l] = OwnedBy(l[1])]
  /\ eventQ' = [eventQ EXCEPT ![l] = IF l \in localEnd THEN Append(@, OwnedBy(l[1])) ELSE @]
  /\ UNCHANGED <<home, attached, grants, localClaim, dialed, localEnd, globalEnd,
                 claimed, claimQ, watching, edgeVars, upsets>>

-----------------------------------------------------------------------------
(* The local server's scope table.                                         *)

Instances(scopes) == {o.instance : o \in scopes}

\* Granted scopes this server is neither hydrating nor already owns at that epoch.
Unfamiliar(s, scopes) ==
  {o \in scopes : table[s][o.instance] \notin {Hydrating, Owned(o.epoch)}}

\* OwnershipRequester::on_message: drop what is tracked but no longer granted,
\* then start hydrating everything unfamiliar.
HandleOwned(l) ==
  LET s      == l[1]
      scopes == Head(eventQ[l])
      fresh  == Unfamiliar(s, scopes)
      lost   == {a \in Agents \ Instances(scopes) : table[s][a] # Released}
  IN
  /\ l \in localEnd
  /\ eventQ[l] # <<>>
  /\ eventQ' = [eventQ EXCEPT ![l] = Tail(@)]
  /\ table' = [table EXCEPT ![s] = [a \in Agents |->
                 IF a \in lost THEN Released
                 ELSE IF a \in Instances(fresh) THEN Hydrating ELSE table[s][a]]]
  /\ mirror' = [mirror EXCEPT ![s] = [a \in Agents |->
                 IF a \in lost \cup Instances(fresh) THEN 0 ELSE mirror[s][a]]]
  /\ tasks' = [tasks EXCEPT ![s] = @ \cup [scope: fresh, link: {l}, pc: {"waiting"}]]
  /\ UNCHANGED <<home, attached, grants, localClaim, dialed, localEnd, globalEnd,
                 claimed, claimQ, watching, told, hydrated, upsets>>

\* The rest of task t of server s, once it has moved to `pc`.
Advance(s, t, pc) == [tasks EXCEPT ![s] = (@ \ {t}) \cup {[t EXCEPT !.pc = pc]}]
Finish(s, t)      == [tasks EXCEPT ![s] = @ \ {t}]

\* The marker that follows the last snapshot record arrives over the link.
SnapshotComplete(s, t) ==
  /\ t.pc = "waiting"
  /\ t.link \in localEnd \cap globalEnd
  /\ tasks' = Advance(s, t, "complete")
  /\ hydrated' = [hydrated EXCEPT ![s] = @ \cup {t.scope}]
  /\ UNCHANGED <<home, attached, grants, localClaim, linkVars, table, mirror, upsets>>

\* The task wakes and reads the scope's state: no lock covers what follows.
CheckHydrating(s, t) ==
  /\ t.pc = "complete"
  /\ tasks' = IF table[s][t.scope.instance] = Hydrating
                THEN Advance(s, t, "commit") ELSE Finish(s, t)
  /\ UNCHANGED <<home, attached, grants, localClaim, linkVars, table, mirror,
                 hydrated, upsets>>

SetOwned(s, t) ==
  /\ t.pc = "commit"
  /\ table' = [table EXCEPT ![s][t.scope.instance] = Owned(t.scope.epoch)]
  /\ tasks' = Advance(s, t, "mirror")
  /\ UNCHANGED <<home, attached, grants, localClaim, linkVars, mirror, hydrated, upsets>>

MirrorSet(s, t) ==
  /\ t.pc = "mirror"
  /\ mirror' = [mirror EXCEPT ![s][t.scope.instance] = t.scope.epoch]
  /\ tasks' = Finish(s, t)
  /\ UNCHANGED <<home, attached, grants, localClaim, linkVars, table, hydrated, upsets>>

\* Mutants of AbandonHydration: own what arrived so far; end without a release.
AbandonAsOwned(s, t) ==
  /\ t.pc \in {"waiting", "complete"}
  /\ t.link \notin localEnd
  /\ table' = [table EXCEPT ![s][t.scope.instance] = Owned(t.scope.epoch)]
  /\ tasks' = Finish(s, t)
  /\ UNCHANGED <<home, attached, grants, localClaim, linkVars, mirror, hydrated, upsets>>

AbandonSilently(s, t) ==
  /\ t.pc \in {"waiting", "complete"}
  /\ t.link \notin localEnd
  /\ tasks' = Finish(s, t)
  /\ UNCHANGED <<home, attached, grants, localClaim, linkVars, table, mirror, hydrated, upsets>>

\* The link died first.  With the marker already in, either arm may be taken.
AbandonHydration(s, t) ==
  /\ t.pc \in {"waiting", "complete"}
  /\ t.link \notin localEnd
  /\ table' = [table EXCEPT ![s][t.scope.instance] = Released]
  /\ tasks' = Finish(s, t)
  /\ UNCHANGED <<home, attached, grants, localClaim, linkVars, mirror, hydrated, upsets>>

TaskStep(s, t) ==
  \/ SnapshotComplete(s, t)
  \/ CheckHydrating(s, t)
  \/ SetOwned(s, t)
  \/ MirrorSet(s, t)
  \/ AbandonHydration(s, t)

-----------------------------------------------------------------------------
(* Restarts: memory and connections go, the database stays.                *)

\* ServerManager::new restores the mirrored grants before anything connects.
LocalRestart(s) ==
  /\ upsets < MaxUpsets
  /\ upsets' = upsets + 1
  /\ home' = [a \in Agents |-> IF home[a] = s THEN None ELSE home[a]]
  /\ attached' = [attached EXCEPT ![s] = {}]
  /\ localEnd' = {l \in localEnd : l[1] # s}
  /\ claimed' = [l \in Link |-> IF l[1] = s THEN None ELSE claimed[l]]
  /\ eventQ' = [l \in Link |-> IF l[1] = s THEN <<>> ELSE eventQ[l]]
  /\ table' = [table EXCEPT ![s] = [a \in Agents |->
                 IF mirror[s][a] # 0 THEN Owned(mirror[s][a]) ELSE Released]]
  /\ tasks' = [tasks EXCEPT ![s] = {}]
  /\ UNCHANGED <<grants, localClaim, dialed, globalEnd, claimQ, watching, told,
                 mirror, hydrated>>

GlobalRestart ==
  /\ upsets < MaxUpsets
  /\ upsets' = upsets + 1
  /\ home' = [a \in Agents |-> IF home[a] = Global THEN None ELSE home[a]]
  /\ attached' = [attached EXCEPT ![Global] = {}]
  /\ localClaim' = None
  /\ globalEnd' = {}
  /\ claimQ' = [l \in Link |-> <<>>]
  /\ watching' = {}
  /\ told' = [l \in Link |-> None]
  /\ UNCHANGED <<grants, dialed, localEnd, claimed, eventQ, edgeVars>>

-----------------------------------------------------------------------------
\* Every step but the arrival of a snapshot, which carries data (see Estate).
ControlStep ==
  \/ \E a \in Agents, s \in Servers : AgentConnect(a, s)
  \/ \E a \in Agents : AgentVanish(a)
  \/ \E a \in Agents, s \in Servers : NoticeGone(a, s)
  \/ LocalClaim
  \/ \E s \in Locals : LinkUp(s)
  \/ \E l \in Link : LocalClose(l)
  \/ \E l \in Link : GlobalClose(l)
  \/ \E s \in Locals : SendClaim(s)
  \/ \E l \in Link : HandleClaim(l)
  \/ \E l \in Link : WatcherPass(l)
  \/ \E l \in Link : HandleOwned(l)
  \/ \E s \in Locals : \E t \in tasks[s] : CheckHydrating(s, t)
  \/ \E s \in Locals : \E t \in tasks[s] : SetOwned(s, t)
  \/ \E s \in Locals : \E t \in tasks[s] : MirrorSet(s, t)
  \/ \E s \in Locals : \E t \in tasks[s] : AbandonHydration(s, t)
  \/ \E s \in Locals : LocalRestart(s)
  \/ GlobalRestart

Next ==
  \/ ControlStep
  \/ \E s \in Locals : \E t \in tasks[s] : SnapshotComplete(s, t)

Spec == Init /\ [][Next]_vars

\* What the runtime does sooner or later: every loop and handler of the two
\* servers runs, and a closed peer is noticed by the keepalive.  Agents, link
\* failures and restarts are the environment's and are promised nothing.
Fairness ==
  /\ WF_vars(LocalClaim)
  /\ \A a \in Agents, s \in Servers : WF_vars(NoticeGone(a, s))
  /\ \A s \in Locals :
       /\ WF_vars(LinkUp(s))
       /\ WF_vars(SendClaim(s))
       /\ WF_vars(\E t \in tasks[s] : TaskStep(s, t))
  /\ \A l \in Link :
       /\ WF_vars(HandleClaim(l))
       /\ WF_vars(WatcherPass(l))
       /\ WF_vars(HandleOwned(l))
       /\ WF_vars(l \notin globalEnd /\ LocalClose(l))
       /\ WF_vars(l \notin localEnd /\ GlobalClose(l))

FairSpec == Spec /\ Fairness

-----------------------------------------------------------------------------
(* Properties.                                                             *)

\* Every grant server s has hold of: in its scope table, in its mirror, in a
\* running hydration, or in an owned set still on its way to it.
Held(s) ==
  {[instance |-> a, epoch |-> table[s][a].epoch] :
     a \in {b \in Agents : table[s][b].state = "owned"}}
  \cup {[instance |-> a, epoch |-> mirror[s][a]] : a \in {b \in Agents : mirror[s][b] # 0}}
  \cup {t.scope : t \in tasks[s]}
  \cup UNION {UNION {eventQ[l][i] : i \in DOMAIN eventQ[l]} : l \in {k \in Link : k[1] = s}}

Fenced == INSTANCE FencedGrants WITH
  Items <- Agents, Arbiter <- Global, Holders <- Locals, NoHolder <- None,
  owner <- [a \in Agents |-> grants[a].owner],
  epoch <- [a \in Agents |-> grants[a].epoch],
  held  <- [s \in Locals |-> Held(s)]

(***************************************************************************)
(* The protocol implements fenced grants: whatever the interleaving of     *)
(* claims, announcements, hydrations, link losses and restarts, a local    *)
(* server only ever gets hold of a grant the global server had just made   *)
(* to it.                                                                  *)
(***************************************************************************)
RefinesFencedGrants == Fenced!FencedSpec

(***************************************************************************)
(* Fencing (the epoch of OwnershipData).  Two local servers never hold the *)
(* same grant, not even in a mirror or a queue, and a grant at the table's *)
(* current epoch is only ever held by the table's current owner.           *)
(***************************************************************************)
EpochsAreExclusive == Fenced!TokensAreExclusive /\ Fenced!CurrentTokensAreOwners

(***************************************************************************)
(* "A half-hydrated scope must never be restored as owned" (mirror_set):   *)
(* what is writable, or would be after a restart, is a grant whose whole   *)
(* snapshot reached this server.                                           *)
(***************************************************************************)
OnlyHydratedIsOwned ==
  \A s \in Locals, a \in Agents :
    /\ table[s][a].state = "owned" =>
         [instance |-> a, epoch |-> table[s][a].epoch] \in hydrated[s]
    /\ mirror[s][a] # 0 => [instance |-> a, epoch |-> mirror[s][a]] \in hydrated[s]

(***************************************************************************)
(* A scope never hangs in Hydrating with nobody left to finish it: some    *)
(* task of that scope still has its check or its write ahead of it.        *)
(***************************************************************************)
HydratingHasATask ==
  \A s \in Locals, a \in Agents :
    table[s][a] = Hydrating =>
      \E t \in tasks[s] : t.scope.instance = a /\ t.pc # "mirror"

(***************************************************************************)
(* Hydration ends: every scope leaves Hydrating, whatever happens to the   *)
(* link that carries its snapshot.                                         *)
(***************************************************************************)
HydrationEnds ==
  \A s \in Locals, a \in Agents : table[s][a] = Hydrating ~> table[s][a] # Hydrating

(***************************************************************************)
(* The fence closes: once ownership of an instance has moved away from a   *)
(* local server, the global server's pull of it from that server (the set  *)
(* its watcher announced last) is rebuilt without it.                      *)
(***************************************************************************)
FenceCloses ==
  \A l \in Link, a \in Agents :
    (told[l] # None /\ a \in Instances(told[l]) /\ grants[a].owner # l[1])
      ~> (told[l] = None \/ a \notin Instances(told[l]) \/ grants[a].owner = l[1])

(***************************************************************************)
(* "Exactly one server owns a given instance's data at a time: the server  *)
(* that instance is directly connected to" (ownership.rs).  When an agent  *)
(* has settled on one server, and both ends of every link have settled     *)
(* too, that server ends up as its owner.                                  *)
(***************************************************************************)
HomeEventuallyOwns ==
  \A a \in Agents, s \in Servers :
    <>[](home[a] = s /\ localEnd = globalEnd /\ \A r \in Locals : Current(r) \in localEnd)
      => <>[](grants[a].owner = s)
=============================================================================
