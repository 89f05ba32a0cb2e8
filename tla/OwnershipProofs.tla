--------------------------- MODULE OwnershipProofs ---------------------------
(***************************************************************************)
(* The ownership protocol and the data it moves, proved for every set of   *)
(* servers and agents and for every bound.  Four layers: the types (with a *)
(* grant table whose rows are numbered from 1), the edge (what a local     *)
(* server may write has been hydrated), the fence (every step is a step of *)
(* FencedGrants), and the data: every step of Estate is a step of          *)
(* Ownership or none, so that its theorems carry over, and an owner that   *)
(* has hydrated continues from where the estate stood when it was granted  *)
(* the scope.                                                              *)
(***************************************************************************)
EXTENDS Estate, SequenceTheorems, TLAPS

-----------------------------------------------------------------------------
(* Types.                                                                  *)

\* A row of the grant table has an epoch of at least 1.
GrantsNumbered == \A a \in Agents : grants[a].owner # None => grants[a].epoch # 0

TypeInv == TypeOK /\ GrantsNumbered

\* A link belongs to a local server, and a server is an owner but not None.
LEMMA LinkEnds ==
  ASSUME NEW l \in Link
  PROVE  l[1] \in Locals /\ l[1] \in Servers
BY DEF Link, Servers

\* Resolving a claim keeps the grant table well-formed and numbered.
LEMMA ClaimType ==
  ASSUME TypeInv, NEW s \in Servers, NEW instances
  PROVE  /\ Claim(s, instances) \in [Agents -> Grant]
         /\ \A a \in Agents : Claim(s, instances)[a].owner # None
                                => Claim(s, instances)[a].epoch # 0
BY DEF TypeInv, TypeOK, GrantsNumbered, Claim, Grant

\* What a server is told it owns are scopes: their epochs are never 0.
LEMMA OwnedByType ==
  ASSUME TypeInv, NEW s \in Servers
  PROVE  OwnedBy(s) \in SUBSET Scope
BY OwnershipAssumption DEF TypeInv, TypeOK, GrantsNumbered, OwnedBy, Grant, Scope

\* The initial state has its types.
LEMMA TypeInitially == Init => TypeInv
<1> SUFFICES ASSUME Init PROVE TypeInv
  OBVIOUS
<1>1. \A S : <<>> \in Seq(S)
  BY EmptySeq
<1>2. GrantsNumbered
  BY DEF Init, GrantsNumbered
<1>3. 0 \in 0..MaxLinks /\ 0 \in 0..MaxUpsets
  BY OwnershipAssumption
<1>4. Released \in ScopeState
  BY DEF Released, ScopeState
<1> QED
  BY <1>1, <1>2, <1>3, <1>4 DEF Init, TypeInv, TypeOK, Grant, Servers

\* No step of the agents or of the connections breaks the types.
LEMMA AgentsKeepTypes ==
  ASSUME TypeInv, NEW a \in Agents, NEW s \in Servers,
         AgentConnect(a, s) \/ AgentVanish(a) \/ NoticeGone(a, s)
  PROVE  TypeInv'
<1> USE OwnershipAssumption DEF TypeInv, TypeOK, GrantsNumbered, linkVars, edgeVars
<1>1. CASE AgentConnect(a, s)
  BY <1>1 DEF AgentConnect
<1>2. CASE AgentVanish(a)
  BY <1>2 DEF AgentVanish
<1>3. CASE NoticeGone(a, s)
  BY <1>3 DEF NoticeGone
<1> QED BY <1>1, <1>2, <1>3

\* Nor does the global server's claim for itself.
LEMMA LocalClaimKeepsTypes ==
  ASSUME TypeInv, LocalClaim
  PROVE  TypeInv'
<1>1. attached[Global] \in SUBSET Agents /\ Global \in Servers
  BY DEF TypeInv, TypeOK, Servers
<1>2. grants' = Claim(Global, attached[Global])
  BY DEF LocalClaim
<1> QED
  BY <1>1, <1>2, ClaimType DEF LocalClaim, TypeInv, TypeOK, GrantsNumbered, linkVars, edgeVars

\* Links come up and their ends close.
LEMMA LinksKeepTypes ==
  ASSUME TypeInv, NEW s \in Locals, NEW l \in Link,
         LinkUp(s) \/ LocalClose(l) \/ GlobalClose(l)
  PROVE  TypeInv'
<1> USE OwnershipAssumption DEF TypeInv, TypeOK, GrantsNumbered, edgeVars
<1>1. CASE LinkUp(s)
  <2>1. dialed[s] + 1 \in 1..MaxLinks
    BY <1>1 DEF LinkUp
  <2>2. <<s, dialed[s] + 1>> \in Link
    BY <2>1 DEF Link
  <2>3. dialed' \in [Locals -> 0..MaxLinks]
    BY <1>1, <2>1 DEF LinkUp
  <2>4. localEnd' \in SUBSET Link /\ globalEnd' \in SUBSET Link
    BY <1>1, <2>2 DEF LinkUp
  <2> QED BY <1>1, <2>3, <2>4 DEF LinkUp
<1>2. CASE LocalClose(l)
  <2>1. <<>> \in Seq(SUBSET Scope)
    BY EmptySeq
  <2>2. upsets' \in 0..MaxUpsets
    BY <1>2 DEF LocalClose, Closes
  <2> QED BY <1>2, <2>1, <2>2 DEF LocalClose
<1>3. CASE GlobalClose(l)
  <2>1. <<>> \in Seq(SUBSET Agents)
    BY EmptySeq
  <2>2. upsets' \in 0..MaxUpsets
    BY <1>3 DEF GlobalClose, Closes
  <2> QED BY <1>3, <2>1, <2>2 DEF GlobalClose
<1> QED BY <1>1, <1>2, <1>3

\* The claim stream carries sets of agents up and sets of scopes down.
LEMMA ClaimStreamKeepsTypes ==
  ASSUME TypeInv, NEW s \in Locals, NEW l \in Link,
         SendClaim(s) \/ HandleClaim(l) \/ WatcherPass(l)
  PROVE  TypeInv'
<1> USE DEF TypeInv, TypeOK, GrantsNumbered, edgeVars
<1>1. CASE SendClaim(s)
  <2> DEFINE k == Current(s)
  <2>1. k \in Link /\ attached[s] \in SUBSET Agents
    BY <1>1 DEF SendClaim, Servers
  <2>2. Append(claimQ[k], attached[s]) \in Seq(SUBSET Agents)
    BY <2>1, AppendProperties
  <2> QED BY <1>1, <2>1, <2>2 DEF SendClaim
<1>2. CASE HandleClaim(l)
  <2>1. /\ Head(claimQ[l]) \in SUBSET Agents
        /\ Tail(claimQ[l]) \in Seq(SUBSET Agents)
    BY <1>2, HeadTailProperties DEF HandleClaim
  <2>2. grants' = Claim(l[1], Head(claimQ[l])) /\ l[1] \in Servers
    BY <1>2, LinkEnds DEF HandleClaim
  <2>3. grants' \in [Agents -> Grant] /\ GrantsNumbered'
    BY <2>1, <2>2, ClaimType
  <2> QED BY <1>2, <2>1, <2>3 DEF HandleClaim
<1>3. CASE WatcherPass(l)
  <2>1. OwnedBy(l[1]) \in SUBSET Scope
    BY LinkEnds, OwnedByType
  <2>2. Append(eventQ[l], OwnedBy(l[1])) \in Seq(SUBSET Scope)
    BY <2>1, AppendProperties
  <2> QED BY <1>3, <2>1, <2>2 DEF WatcherPass
<1> QED BY <1>1, <1>2, <1>3

\* Handling an owned set fills the table, the mirror and the task list.
LEMMA HandleOwnedKeepsTypes ==
  ASSUME TypeInv, NEW l \in Link, HandleOwned(l)
  PROVE  TypeInv'
<1> USE DEF TypeInv, TypeOK
<1> DEFINE s == l[1]
           scopes == Head(eventQ[l])
           fresh == Unfamiliar(s, scopes)
           lost == {a \in Agents \ Instances(scopes) : table[s][a] # Released}
<1>1. /\ scopes \in SUBSET Scope
      /\ Tail(eventQ[l]) \in Seq(SUBSET Scope)
  BY HeadTailProperties DEF HandleOwned
<1>2. s \in Locals
  BY LinkEnds
<1>3. eventQ' \in [Link -> Seq(SUBSET Scope)]
  BY <1>1 DEF HandleOwned
<1>4. table' \in [Locals -> [Agents -> ScopeState]]
  <2>1. Released \in ScopeState /\ Hydrating \in ScopeState
    BY DEF Released, Hydrating, ScopeState
  <2>2. table' = [table EXCEPT ![s] = [a \in Agents |->
                    IF a \in lost THEN Released
                    ELSE IF a \in Instances(fresh) THEN Hydrating ELSE table[s][a]]]
    BY DEF HandleOwned
  <2> HIDE DEF s, fresh, lost
  <2> QED BY <1>2, <2>1, <2>2
<1>5. mirror' \in [Locals -> [Agents -> Nat]]
  <2>1. mirror' = [mirror EXCEPT ![s] = [a \in Agents |->
                     IF a \in lost \cup Instances(fresh) THEN 0 ELSE mirror[s][a]]]
    BY DEF HandleOwned
  <2> HIDE DEF s, fresh, lost
  <2> QED BY <1>2, <2>1
<1>6. tasks' \in [Locals -> SUBSET Task]
  <2>1. fresh \in SUBSET Scope
    BY <1>1 DEF Unfamiliar
  <2>2. [scope: fresh, link: {l}, pc: {"waiting"}] \in SUBSET Task
    BY <2>1 DEF Task
  <2>3. tasks' = [tasks EXCEPT ![s] = @ \cup [scope: fresh, link: {l}, pc: {"waiting"}]]
    BY DEF HandleOwned
  <2> HIDE DEF s, fresh
  <2> QED BY <1>2, <2>2, <2>3
<1> QED BY <1>3, <1>4, <1>5, <1>6 DEF HandleOwned, GrantsNumbered

\* Moving a task along, or ending it, leaves a set of tasks.
LEMMA AdvanceType ==
  ASSUME TypeInv, NEW s \in Locals, NEW t \in tasks[s],
         NEW pc \in {"waiting", "complete", "commit", "mirror"}
  PROVE  /\ t \in Task
         /\ t.scope \in Scope /\ t.scope.instance \in Agents /\ t.scope.epoch \in Nat
         /\ Advance(s, t, pc) \in [Locals -> SUBSET Task]
         /\ Finish(s, t) \in [Locals -> SUBSET Task]
<1>1. t \in Task
  BY DEF TypeInv, TypeOK
<1>2. t.scope \in Scope /\ t.scope.instance \in Agents /\ t.scope.epoch \in Nat
  BY <1>1 DEF Task, Scope
<1>3. [t EXCEPT !.pc = pc] \in Task
  BY <1>1 DEF Task
<1> QED
  BY <1>1, <1>2, <1>3 DEF TypeInv, TypeOK, Advance, Finish

\* A hydration task only ever writes table states, epochs and scopes.
LEMMA TasksKeepTypes ==
  ASSUME TypeInv, NEW s \in Locals, NEW t \in tasks[s], TaskStep(s, t)
  PROVE  TypeInv'
<1>1. /\ t.scope \in Scope /\ t.scope.instance \in Agents /\ t.scope.epoch \in Nat
      /\ \A pc \in {"waiting", "complete", "commit", "mirror"} :
           Advance(s, t, pc) \in [Locals -> SUBSET Task]
      /\ Finish(s, t) \in [Locals -> SUBSET Task]
  BY AdvanceType
<1>2. Released \in ScopeState /\ Owned(t.scope.epoch) \in ScopeState
  BY <1>1 DEF Released, Owned, ScopeState
<1> USE DEF TypeInv, TypeOK, GrantsNumbered, linkVars
<1>3. CASE SnapshotComplete(s, t)
  BY <1>1, <1>3 DEF SnapshotComplete
<1>4. CASE CheckHydrating(s, t)
  BY <1>1, <1>4 DEF CheckHydrating
<1>5. CASE SetOwned(s, t)
  BY <1>1, <1>2, <1>5 DEF SetOwned
<1>6. CASE MirrorSet(s, t)
  BY <1>1, <1>6 DEF MirrorSet
<1>7. CASE AbandonHydration(s, t)
  BY <1>1, <1>2, <1>7 DEF AbandonHydration
<1> QED BY <1>3, <1>4, <1>5, <1>6, <1>7 DEF TaskStep

\* A local restart forgets memory and rebuilds the table from typed rows.
LEMMA LocalRestartKeepsTypes ==
  ASSUME TypeInv, NEW s \in Locals, LocalRestart(s)
  PROVE  TypeInv'
<1> USE DEF TypeInv, TypeOK, GrantsNumbered
<1>1. table' \in [Locals -> [Agents -> ScopeState]]
  <2>1. \A a \in Agents : Owned(mirror[s][a]) \in ScopeState /\ Released \in ScopeState
    BY DEF Owned, Released, ScopeState
  <2> QED BY <2>1 DEF LocalRestart
<1>2. upsets' \in 0..MaxUpsets /\ home' \in [Agents -> Servers \cup {None}]
  BY OwnershipAssumption DEF LocalRestart
<1>3. eventQ' \in [Link -> Seq(SUBSET Scope)]
  BY EmptySeq DEF LocalRestart
<1>4. claimed' \in [Link -> (SUBSET Agents) \cup {None}]
  BY DEF LocalRestart
<1> QED BY <1>1, <1>2, <1>3, <1>4 DEF LocalRestart

\* The global server's restart keeps its grant table.
LEMMA GlobalRestartKeepsTypes ==
  ASSUME TypeInv, GlobalRestart
  PROVE  TypeInv'
<1>1. Global \in Servers /\ <<>> \in Seq(SUBSET Agents)
  BY EmptySeq DEF Servers
<1> QED
  BY <1>1, OwnershipAssumption
     DEF GlobalRestart, TypeInv, TypeOK, GrantsNumbered, edgeVars

\* The types are inductive.
LEMMA TypesKept == TypeInv /\ [Next]_vars => TypeInv'
<1> SUFFICES ASSUME TypeInv, [Next]_vars
             PROVE  TypeInv'
  OBVIOUS
<1>1. CASE UNCHANGED vars
  BY <1>1 DEF vars, linkVars, edgeVars, TypeInv, TypeOK, GrantsNumbered
<1>2. CASE \E s \in Locals : \E t \in tasks[s] : TaskStep(s, t)
  BY <1>2, TasksKeepTypes
<1>3. CASE \E a \in Agents, s \in Servers : AgentConnect(a, s) \/ NoticeGone(a, s)
  BY <1>3, AgentsKeepTypes
<1>4. CASE \E a \in Agents : AgentVanish(a)
  BY <1>4, AgentsKeepTypes DEF Servers
<1>5. CASE LocalClaim
  BY <1>5, LocalClaimKeepsTypes
<1>6. CASE \E l \in Link : LocalClose(l) \/ GlobalClose(l)
  BY <1>6, LinksKeepTypes, LinkEnds
<1>7. CASE \E l \in Link : HandleClaim(l) \/ WatcherPass(l)
  BY <1>7, ClaimStreamKeepsTypes, LinkEnds
<1>8. CASE \E l \in Link : HandleOwned(l)
  BY <1>8, HandleOwnedKeepsTypes
<1>9. CASE \E s \in Locals : LinkUp(s)
  <2>1. PICK s \in Locals : LinkUp(s)
    BY <1>9
  <2>2. <<s, dialed[s] + 1>> \in Link
    BY <2>1, OwnershipAssumption DEF LinkUp, TypeInv, TypeOK, Link
  <2> QED BY <2>1, <2>2, LinksKeepTypes
<1>10. CASE \E s \in Locals : SendClaim(s)
  <2>1. PICK s \in Locals : SendClaim(s)
    BY <1>10
  <2>2. Current(s) \in Link
    BY <2>1 DEF SendClaim, TypeInv, TypeOK
  <2> QED BY <2>1, <2>2, ClaimStreamKeepsTypes
<1>11. CASE \E s \in Locals : LocalRestart(s)
  BY <1>11, LocalRestartKeepsTypes
<1>12. CASE GlobalRestart
  BY <1>12, GlobalRestartKeepsTypes
<1> QED
  BY <1>1, <1>2, <1>3, <1>4, <1>5, <1>6, <1>7, <1>8, <1>9, <1>10, <1>11, <1>12
     DEF Next, ControlStep, TaskStep

(***************************************************************************)
(* Every reachable state has its types, and every row of the grant table   *)
(* is numbered: what the global server announces is never an epoch of 0,   *)
(* the value an unset field would have.                                    *)
(***************************************************************************)
THEOREM OwnershipTypes == Spec => [](TypeOK /\ GrantsNumbered)
<1>1. TypeInv => TypeOK /\ GrantsNumbered
  BY DEF TypeInv
<1> QED BY <1>1, TypeInitially, TypesKept, PTL DEF Spec

-----------------------------------------------------------------------------
(* The edge: what a local server may write has been hydrated.              *)

\* Past its wait, a task has its snapshot.
SnapshotsPrecedeCommits ==
  \A s \in Locals : \A t \in tasks[s] : t.pc # "waiting" => t.scope \in hydrated[s]

EdgeInv ==
  /\ TypeInv
  /\ SnapshotsPrecedeCommits
  /\ OnlyHydratedIsOwned
  /\ HydratingHasATask

\* At the start nothing is owned, mirrored or hydrating.
LEMMA EdgeInitially == Init => EdgeInv
<1>1. Init => TypeInv
  BY TypeInitially
<1>2. Init => SnapshotsPrecedeCommits
  BY DEF Init, SnapshotsPrecedeCommits
<1>3. Init => OnlyHydratedIsOwned /\ HydratingHasATask
  BY DEF Init, OnlyHydratedIsOwned, HydratingHasATask, Released, Hydrating
<1> QED BY <1>1, <1>2, <1>3 DEF EdgeInv

\* Whoever leaves the edge alone leaves its invariant alone.
LEMMA EdgeUntouched ==
  ASSUME EdgeInv, TypeInv', UNCHANGED edgeVars
  PROVE  EdgeInv'
BY DEF edgeVars, EdgeInv, SnapshotsPrecedeCommits, OnlyHydratedIsOwned, HydratingHasATask

\* An owned set starts every fresh hydration with a waiting task.
LEMMA HandleOwnedKeepsEdge ==
  ASSUME EdgeInv, TypeInv', NEW l \in Link, HandleOwned(l)
  PROVE  EdgeInv'
<1> DEFINE s == l[1]
           scopes == Head(eventQ[l])
           fresh == Unfamiliar(s, scopes)
           lost == {a \in Agents \ Instances(scopes) : table[s][a] # Released}
<1>1. s \in Locals
  BY LinkEnds
<1>2. \A r \in Locals, a \in Agents :
        /\ table'[r][a] \in {table[r][a], Released, Hydrating}
        /\ table'[r][a] = Hydrating /\ table[r][a] # Hydrating
             => r = s /\ a \in Instances(fresh)
        /\ mirror'[r][a] \in {mirror[r][a], 0}
  <2>1. table' = [table EXCEPT ![s] = [a \in Agents |->
                    IF a \in lost THEN Released
                    ELSE IF a \in Instances(fresh) THEN Hydrating ELSE table[s][a]]]
    BY DEF HandleOwned
  <2>2. mirror' = [mirror EXCEPT ![s] = [a \in Agents |->
                     IF a \in lost \cup Instances(fresh) THEN 0 ELSE mirror[s][a]]]
    BY DEF HandleOwned
  <2>3. Released # Hydrating
    BY DEF Released, Hydrating
  <2> HIDE DEF s, fresh, lost
  <2> QED BY <1>1, <2>1, <2>2, <2>3 DEF EdgeInv, TypeInv, TypeOK
<1>3. /\ tasks[s] \subseteq tasks'[s]
      /\ tasks'[s] = tasks[s] \cup [scope: fresh, link: {l}, pc: {"waiting"}]
      /\ \A r \in Locals \ {s} : tasks'[r] = tasks[r]
  BY <1>1 DEF HandleOwned, EdgeInv, TypeInv, TypeOK
<1>4. hydrated' = hydrated
  BY DEF HandleOwned
<1>5. SnapshotsPrecedeCommits'
  <2> SUFFICES ASSUME NEW r \in Locals, NEW t \in tasks'[r], t.pc # "waiting"
               PROVE  t.scope \in hydrated[r]
    BY <1>4 DEF SnapshotsPrecedeCommits
  <2>1. t \in tasks[r]
    BY <1>3
  <2> QED BY <2>1 DEF EdgeInv, SnapshotsPrecedeCommits
<1>6. OnlyHydratedIsOwned'
  <2> SUFFICES ASSUME NEW r \in Locals, NEW a \in Agents
               PROVE  /\ table'[r][a].state = "owned" =>
                           [instance |-> a, epoch |-> table'[r][a].epoch] \in hydrated[r]
                      /\ mirror'[r][a] # 0 =>
                           [instance |-> a, epoch |-> mirror'[r][a]] \in hydrated[r]
    BY <1>4 DEF OnlyHydratedIsOwned
  <2>1. Released.state # "owned" /\ Hydrating.state # "owned"
    BY DEF Released, Hydrating
  <2>2. table'[r][a].state = "owned" => table'[r][a] = table[r][a]
    BY <1>2, <2>1
  <2>3. mirror'[r][a] # 0 => mirror'[r][a] = mirror[r][a]
    BY <1>2
  <2> QED BY <2>2, <2>3 DEF EdgeInv, OnlyHydratedIsOwned
<1>7. HydratingHasATask'
  <2> SUFFICES ASSUME NEW r \in Locals, NEW a \in Agents, table'[r][a] = Hydrating
               PROVE  \E t \in tasks'[r] : t.scope.instance = a /\ t.pc # "mirror"
    BY DEF HydratingHasATask
  <2>1. CASE table[r][a] = Hydrating
    BY <2>1, <1>3 DEF EdgeInv, HydratingHasATask
  <2>2. CASE table[r][a] # Hydrating
    <3>1. r = s /\ a \in Instances(fresh)
      BY <1>2, <2>2
    <3>2. PICK o \in fresh : o.instance = a
      BY <3>1 DEF Instances
    <3>3. [scope |-> o, link |-> l, pc |-> "waiting"] \in tasks'[s]
      BY <1>3, <3>2
    <3> QED BY <3>1, <3>2, <3>3
  <2> QED BY <2>1, <2>2
<1> QED BY <1>5, <1>6, <1>7 DEF EdgeInv

\* What a task's step leaves of the tasks: the others, and itself further on.
LEMMA TasksAfter ==
  ASSUME TypeInv, NEW s \in Locals, NEW t \in tasks[s], NEW pc
  PROVE  /\ \A r \in Locals : \A u \in Advance(s, t, pc)[r] :
              \/ u \in tasks[r]
              \/ r = s /\ u.scope = t.scope /\ u.pc = pc
         /\ \E u \in Advance(s, t, pc)[s] : u.scope = t.scope /\ u.pc = pc
         /\ \A r \in Locals : \A u \in tasks[r] :
              r # s \/ u # t => u \in Advance(s, t, pc)[r] /\ u \in Finish(s, t)[r]
         /\ \A r \in Locals : Finish(s, t)[r] \subseteq tasks[r]
<1> DEFINE n == [t EXCEPT !.pc = pc]
<1>1. t \in Task
  BY DEF TypeInv, TypeOK
<1>2. n.scope = t.scope /\ n.pc = pc
  BY <1>1 DEF Task
<1>3. Advance(s, t, pc) = [tasks EXCEPT ![s] = (tasks[s] \ {t}) \cup {n}]
  BY DEF Advance
<1>4. Finish(s, t) = [tasks EXCEPT ![s] = tasks[s] \ {t}]
  BY DEF Finish
<1> HIDE DEF n
<1> QED BY <1>2, <1>3, <1>4 DEF TypeInv, TypeOK

\* The snapshot enters the history no later than its task leaves the wait.
LEMMA TasksKeepSnapshots ==
  ASSUME EdgeInv, NEW s \in Locals, NEW t \in tasks[s], TaskStep(s, t)
  PROVE  SnapshotsPrecedeCommits'
<1> USE DEF EdgeInv
<1>1. SnapshotsPrecedeCommits /\ TypeInv
  OBVIOUS
<1>2. CASE SnapshotComplete(s, t)
  <2>1. hydrated' = [hydrated EXCEPT ![s] = @ \cup {t.scope}]
        /\ tasks' = Advance(s, t, "complete")
    BY <1>2 DEF SnapshotComplete
  <2> SUFFICES ASSUME NEW r \in Locals, NEW u \in tasks'[r], u.pc # "waiting"
               PROVE  u.scope \in hydrated'[r]
    BY DEF SnapshotsPrecedeCommits
  <2>2. /\ hydrated[r] \subseteq hydrated'[r]
        /\ t.scope \in hydrated'[s]
    BY <1>1, <2>1 DEF TypeInv, TypeOK
  <2>3. u \in tasks[r] \/ (r = s /\ u.scope = t.scope)
    BY <1>1, <2>1, TasksAfter
  <2> QED BY <1>1, <2>2, <2>3 DEF SnapshotsPrecedeCommits
<1>3. CASE ~SnapshotComplete(s, t)
  <2>1. hydrated' = hydrated
    BY <1>3 DEF TaskStep, CheckHydrating, SetOwned, MirrorSet, AbandonHydration
  <2>2. CASE tasks' = Finish(s, t)
    BY <1>1, <2>1, <2>2, TasksAfter DEF SnapshotsPrecedeCommits
  <2>3. CASE t.pc # "waiting" /\ \E pc \in {"commit", "mirror"} : tasks' = Advance(s, t, pc)
    <3>1. PICK pc \in {"commit", "mirror"} : tasks' = Advance(s, t, pc)
      BY <2>3
    <3>2. t.scope \in hydrated[s]
      BY <1>1, <2>3 DEF SnapshotsPrecedeCommits
    <3> SUFFICES ASSUME NEW r \in Locals, NEW u \in tasks'[r], u.pc # "waiting"
                 PROVE  u.scope \in hydrated[r]
      BY <2>1 DEF SnapshotsPrecedeCommits
    <3>3. u \in tasks[r] \/ (r = s /\ u.scope = t.scope)
      BY <1>1, <3>1, TasksAfter
    <3> QED BY <1>1, <3>2, <3>3 DEF SnapshotsPrecedeCommits
  <2> QED
    BY <1>3, <2>2, <2>3 DEF TaskStep, CheckHydrating, SetOwned, MirrorSet, AbandonHydration
<1> QED BY <1>2, <1>3

\* A task only makes writable, or mirrors, a scope whose snapshot it has.
LEMMA TasksKeepOwned ==
  ASSUME EdgeInv, NEW s \in Locals, NEW t \in tasks[s], TaskStep(s, t)
  PROVE  OnlyHydratedIsOwned'
<1>1. /\ TypeInv /\ OnlyHydratedIsOwned
      /\ t.scope \in Scope /\ t.scope.instance \in Agents
      /\ [instance |-> t.scope.instance, epoch |-> t.scope.epoch] = t.scope
      /\ t.pc # "waiting" => t.scope \in hydrated[s]
  BY AdvanceType DEF EdgeInv, SnapshotsPrecedeCommits, Scope
<1>2. Released.state # "owned"
  BY DEF Released
<1>3. CASE SnapshotComplete(s, t)
  <2>1. /\ table' = table /\ mirror' = mirror
        /\ \A r \in Locals : hydrated[r] \subseteq hydrated'[r]
    BY <1>1, <1>3 DEF SnapshotComplete, TypeInv, TypeOK
  <2> QED BY <1>1, <2>1 DEF OnlyHydratedIsOwned
<1>4. CASE CheckHydrating(s, t)
  BY <1>1, <1>4 DEF CheckHydrating, OnlyHydratedIsOwned
<1>5. CASE SetOwned(s, t)
  <2>1. t.scope \in hydrated[s] /\ mirror' = mirror /\ hydrated' = hydrated
    BY <1>1, <1>5 DEF SetOwned
  <2>2. \A r \in Locals, a \in Agents :
          IF r = s /\ a = t.scope.instance THEN table'[r][a].epoch = t.scope.epoch
                                           ELSE table'[r][a] = table[r][a]
    BY <1>1, <1>5 DEF SetOwned, Owned, TypeInv, TypeOK
  <2> QED BY <1>1, <2>1, <2>2 DEF OnlyHydratedIsOwned
<1>6. CASE MirrorSet(s, t)
  <2>1. t.scope \in hydrated[s] /\ table' = table /\ hydrated' = hydrated
    BY <1>1, <1>6 DEF MirrorSet
  <2>2. \A r \in Locals, a \in Agents :
          IF r = s /\ a = t.scope.instance THEN mirror'[r][a] = t.scope.epoch
                                           ELSE mirror'[r][a] = mirror[r][a]
    BY <1>1, <1>6 DEF MirrorSet, TypeInv, TypeOK
  <2> QED BY <1>1, <2>1, <2>2 DEF OnlyHydratedIsOwned
<1>7. CASE AbandonHydration(s, t)
  <2>1. mirror' = mirror /\ hydrated' = hydrated
    BY <1>7 DEF AbandonHydration
  <2>2. \A r \in Locals, a \in Agents : table'[r][a] \in {table[r][a], Released}
    BY <1>1, <1>7 DEF AbandonHydration, TypeInv, TypeOK
  <2> QED BY <1>1, <1>2, <2>1, <2>2 DEF OnlyHydratedIsOwned
<1> QED BY <1>3, <1>4, <1>5, <1>6, <1>7 DEF TaskStep

\* A task leaves only after it has decided its scope's state.
LEMMA TasksKeepHydrating ==
  ASSUME EdgeInv, NEW s \in Locals, NEW t \in tasks[s], TaskStep(s, t)
  PROVE  HydratingHasATask'
<1> DEFINE b == t.scope.instance
<1>1. TypeInv /\ HydratingHasATask /\ b \in Agents
  BY AdvanceType DEF EdgeInv
<1> SUFFICES ASSUME NEW r \in Locals, NEW a \in Agents, table'[r][a] = Hydrating
             PROVE  \E u \in tasks'[r] : u.scope.instance = a /\ u.pc # "mirror"
  BY DEF HydratingHasATask
<1>2. /\ Released # Hydrating
      /\ Owned(t.scope.epoch) # Hydrating
  BY DEF Released, Hydrating, Owned
<1>3. table[r][a] = Hydrating
  <2>1. \/ table' = table
        \/ table' = [table EXCEPT ![s][b] = Owned(t.scope.epoch)]
        \/ table' = [table EXCEPT ![s][b] = Released]
    BY DEF TaskStep, SnapshotComplete, CheckHydrating, SetOwned, MirrorSet, AbandonHydration
  <2>2. table \in [Locals -> [Agents -> ScopeState]]
    BY <1>1 DEF TypeInv, TypeOK
  <2> HIDE DEF b
  <2>3. table'[r][a] \in {table[r][a], Owned(t.scope.epoch), Released}
    <3>1. CASE table' = table
      BY <3>1
    <3>2. CASE table' = [table EXCEPT ![s][b] = Owned(t.scope.epoch)]
      BY <1>1, <2>2, <3>2
    <3>3. CASE table' = [table EXCEPT ![s][b] = Released]
      BY <1>1, <2>2, <3>3
    <3> QED BY <2>1, <3>1, <3>2, <3>3
  <2> QED BY <1>2, <2>3
<1>4. PICK u \in tasks[r] : u.scope.instance = a /\ u.pc # "mirror"
  BY <1>1, <1>3 DEF HydratingHasATask
<1>5. CASE r # s \/ u # t
  <2>1. u \in tasks'[r]
    BY <1>1, <1>5, TasksAfter
       DEF TaskStep, SnapshotComplete, CheckHydrating, SetOwned, MirrorSet, AbandonHydration
  <2> QED BY <1>4, <2>1
<1>6. CASE r = s /\ u = t
  <2>1. ~MirrorSet(s, t)
    BY <1>4, <1>6 DEF MirrorSet
  <2>2. ~SetOwned(s, t) /\ ~AbandonHydration(s, t)
    BY <1>1, <1>2, <1>4, <1>6 DEF SetOwned, AbandonHydration, TypeInv, TypeOK
  <2>3. \E pc \in {"complete", "commit"} : tasks' = Advance(s, t, pc)
    BY <1>3, <1>4, <1>6, <2>1, <2>2 DEF TaskStep, SnapshotComplete, CheckHydrating
  <2>4. PICK n \in tasks'[s] : n.scope = t.scope /\ n.pc \in {"complete", "commit"}
    BY <1>1, <2>3, TasksAfter
  <2> QED BY <1>4, <1>6, <2>4
<1> QED BY <1>5, <1>6

\* A restart drops the tasks, and with them everything hydrating.
LEMMA LocalRestartKeepsEdge ==
  ASSUME EdgeInv, TypeInv', NEW s \in Locals, LocalRestart(s)
  PROVE  EdgeInv'
<1>1. /\ tasks'[s] = {}
      /\ hydrated' = hydrated /\ mirror' = mirror
      /\ \A r \in Locals \ {s} : tasks'[r] = tasks[r] /\ table'[r] = table[r]
      /\ \A a \in Agents : \/ table'[s][a] = Released
                           \/ mirror[s][a] # 0 /\ table'[s][a] = Owned(mirror[s][a])
  BY DEF LocalRestart, EdgeInv, TypeInv, TypeOK
<1>2. /\ Released.state # "owned" /\ Released # Hydrating
      /\ \A e : Owned(e).epoch = e /\ Owned(e) # Hydrating
  BY DEF Released, Hydrating, Owned
<1>3. SnapshotsPrecedeCommits'
  BY <1>1 DEF EdgeInv, SnapshotsPrecedeCommits
<1>4. OnlyHydratedIsOwned'
  <2> SUFFICES ASSUME NEW r \in Locals, NEW a \in Agents, table'[r][a].state = "owned"
               PROVE  [instance |-> a, epoch |-> table'[r][a].epoch] \in hydrated[r]
    BY <1>1 DEF EdgeInv, OnlyHydratedIsOwned
  <2>1. CASE r = s
    <3>1. mirror[s][a] # 0 /\ table'[s][a].epoch = mirror[s][a]
      BY <1>1, <1>2, <2>1
    <3> QED BY <2>1, <3>1 DEF EdgeInv, OnlyHydratedIsOwned
  <2>2. CASE r # s
    BY <1>1, <2>2 DEF EdgeInv, OnlyHydratedIsOwned
  <2> QED BY <2>1, <2>2
<1>5. HydratingHasATask'
  <2> SUFFICES ASSUME NEW r \in Locals, NEW a \in Agents, table'[r][a] = Hydrating
               PROVE  \E t \in tasks'[r] : t.scope.instance = a /\ t.pc # "mirror"
    BY DEF HydratingHasATask
  <2>1. r # s
    BY <1>1, <1>2
  <2> QED BY <1>1, <2>1 DEF EdgeInv, HydratingHasATask
<1> QED BY <1>3, <1>4, <1>5 DEF EdgeInv

\* The edge's invariant is inductive.
LEMMA EdgeKept == EdgeInv /\ [Next]_vars => EdgeInv'
<1> SUFFICES ASSUME EdgeInv, [Next]_vars
             PROVE  EdgeInv'
  OBVIOUS
<1>1. TypeInv'
  BY TypesKept DEF EdgeInv
<1>2. CASE UNCHANGED edgeVars
  BY <1>1, <1>2, EdgeUntouched
<1>3. CASE \E l \in Link : HandleOwned(l)
  BY <1>1, <1>3, HandleOwnedKeepsEdge
<1>4. CASE \E s \in Locals : \E t \in tasks[s] : TaskStep(s, t)
  BY <1>1, <1>4, TasksKeepSnapshots, TasksKeepOwned, TasksKeepHydrating DEF EdgeInv
<1>5. CASE \E s \in Locals : LocalRestart(s)
  BY <1>1, <1>5, LocalRestartKeepsEdge
<1>6. \/ UNCHANGED edgeVars
      \/ \E l \in Link : HandleOwned(l)
      \/ \E s \in Locals : \E t \in tasks[s] : TaskStep(s, t)
      \/ \E s \in Locals : LocalRestart(s)
  BY DEF Next, ControlStep, TaskStep, vars, AgentConnect, AgentVanish, NoticeGone, LocalClaim,
         LinkUp, LocalClose, GlobalClose, SendClaim, HandleClaim, WatcherPass, GlobalRestart
<1> QED BY <1>2, <1>3, <1>4, <1>5, <1>6

(***************************************************************************)
(* "A half-hydrated scope must never be restored as owned": for every set  *)
(* of servers and agents, what is writable, or mirrored for a restart, is  *)
(* a grant whose whole snapshot reached this server.                       *)
(***************************************************************************)
THEOREM OwnedIsHydrated == Spec => []OnlyHydratedIsOwned
<1>1. EdgeInv => OnlyHydratedIsOwned
  BY DEF EdgeInv
<1> QED BY <1>1, EdgeInitially, EdgeKept, PTL DEF Spec

(***************************************************************************)
(* No scope hangs in Hydrating without a task that will still decide it.   *)
(***************************************************************************)
THEOREM HydratingIsAttended == Spec => []HydratingHasATask
<1>1. EdgeInv => HydratingHasATask
  BY DEF EdgeInv
<1> QED BY <1>1, EdgeInitially, EdgeKept, PTL DEF Spec

-----------------------------------------------------------------------------
(* The fence: every step is a step of fenced grants.                       *)

\* What is on its way to s in a state of its queues.
OnTheWay(q, s) == UNION {UNION {q[l][i] : i \in DOMAIN q[l]} : l \in {k \in Link : k[1] = s}}

\* The places a grant can be held in.
LEMMA HeldIn ==
  ASSUME NEW s \in Locals, NEW x
  PROVE  x \in Held(s) <=>
           \/ \E a \in Agents : /\ table[s][a].state = "owned"
                                /\ x = [instance |-> a, epoch |-> table[s][a].epoch]
           \/ \E a \in Agents : /\ mirror[s][a] # 0
                                /\ x = [instance |-> a, epoch |-> mirror[s][a]]
           \/ \E t \in tasks[s] : x = t.scope
           \/ x \in OnTheWay(eventQ, s)
BY DEF Held, OnTheWay

\* All that is held are tokens.
LEMMA HeldType ==
  ASSUME TypeInv, NEW s \in Locals
  PROVE  Held(s) \in SUBSET Fenced!Token
<1> SUFFICES ASSUME NEW x \in Held(s) PROVE x \in Fenced!Token
  OBVIOUS
<1> USE DEF TypeInv, TypeOK, Fenced!Token
<1>1. CASE \E a \in Agents : /\ table[s][a].state = "owned"
                             /\ x = [instance |-> a, epoch |-> table[s][a].epoch]
  BY <1>1 DEF ScopeState
<1>2. CASE \E a \in Agents : mirror[s][a] # 0 /\ x = [instance |-> a, epoch |-> mirror[s][a]]
  BY <1>2
<1>3. CASE \E t \in tasks[s] : x = t.scope
  <2>1. x \in Scope
    BY <1>3 DEF Task
  <2> QED BY <2>1 DEF Scope
<1>4. CASE x \in OnTheWay(eventQ, s)
  <2>1. PICK l \in Link : \E i \in DOMAIN eventQ[l] : x \in eventQ[l][i]
    BY <1>4 DEF OnTheWay
  <2>2. PICK i \in DOMAIN eventQ[l] : x \in eventQ[l][i]
    BY <2>1
  <2>3. eventQ[l][i] \in SUBSET Scope
    BY ElementOfSeq, LenProperties
  <2> QED BY <2>2, <2>3 DEF Scope
<1> QED BY <1>1, <1>2, <1>3, <1>4, HeldIn

\* Appending an owned set to a queue adds that set and nothing else.
LEMMA AppendOnTheWay ==
  ASSUME TypeInv, NEW l \in Link, NEW owned \in SUBSET Scope, NEW s \in Locals, NEW q,
         q = [eventQ EXCEPT ![l] = Append(@, owned)]
  PROVE  \A x \in OnTheWay(q, s) : x \in OnTheWay(eventQ, s) \/ (l[1] = s /\ x \in owned)
<1> SUFFICES ASSUME NEW k \in Link, k[1] = s, NEW i \in DOMAIN q[k], NEW x \in q[k][i]
             PROVE  x \in OnTheWay(eventQ, s) \/ (l[1] = s /\ x \in owned)
  BY DEF OnTheWay
<1>1. eventQ \in [Link -> Seq(SUBSET Scope)]
  BY DEF TypeInv, TypeOK
<1>2. CASE k # l
  BY <1>1, <1>2 DEF OnTheWay
<1>3. CASE k = l
  <2>1. q[l] = Append(eventQ[l], owned)
    BY <1>1
  <2>2. i \in 1..(Len(eventQ[l]) + 1)
    BY <1>1, <1>3, <2>1, AppendProperties, LenProperties
  <2>3. CASE i = Len(eventQ[l]) + 1
    <3>1. q[k][i] = owned
      BY <1>1, <1>3, <2>1, <2>3, AppendProperties
    <3> QED BY <1>3, <3>1
  <2>4. CASE i # Len(eventQ[l]) + 1
    <3>1. i \in DOMAIN eventQ[l] /\ q[k][i] = eventQ[l][i]
      BY <1>1, <1>3, <2>1, <2>2, <2>4, AppendProperties, LenProperties
    <3> QED BY <1>3, <3>1 DEF OnTheWay
  <2> QED BY <2>3, <2>4
<1> QED BY <1>2, <1>3

\* Taking the head of a queue adds nothing.
LEMMA TailOnTheWay ==
  ASSUME TypeInv, NEW l \in Link, eventQ[l] # <<>>, NEW s \in Locals, NEW q,
         q = [eventQ EXCEPT ![l] = Tail(@)]
  PROVE  OnTheWay(q, s) \subseteq OnTheWay(eventQ, s)
<1> SUFFICES ASSUME NEW k \in Link, k[1] = s, NEW i \in DOMAIN q[k], NEW x \in q[k][i]
             PROVE  x \in OnTheWay(eventQ, s)
  BY DEF OnTheWay
<1>1. eventQ \in [Link -> Seq(SUBSET Scope)]
  BY DEF TypeInv, TypeOK
<1>2. CASE k # l
  BY <1>1, <1>2 DEF OnTheWay
<1>3. CASE k = l
  <2>1. q[l] = Tail(eventQ[l]) /\ eventQ[l] \in Seq(SUBSET Scope)
    BY <1>1
  <2>2. /\ Tail(eventQ[l]) \in Seq(SUBSET Scope)
        /\ Len(Tail(eventQ[l])) = Len(eventQ[l]) - 1
        /\ \A j \in 1..Len(Tail(eventQ[l])) : Tail(eventQ[l])[j] = eventQ[l][j + 1]
    BY <2>1, HeadTailProperties
  <2>3. i \in 1..Len(Tail(eventQ[l])) /\ Len(eventQ[l]) \in Nat
    BY <1>3, <2>1, <2>2, LenProperties
  <2>4. i + 1 \in DOMAIN eventQ[l] /\ q[k][i] = eventQ[l][i + 1]
    <3>1. DOMAIN eventQ[l] = 1..Len(eventQ[l])
      BY <2>1, LenProperties
    <3>2. i \in Int /\ 1 <= i /\ i <= Len(eventQ[l]) - 1
      BY <2>2, <2>3
    <3>3. i + 1 \in 1..Len(eventQ[l])
      BY <2>3, <3>2
    <3>4. q[k][i] = eventQ[l][i + 1]
      BY <1>3, <2>1, <2>2, <2>3
    <3> QED BY <3>1, <3>3, <3>4
  <2> QED BY <1>3, <2>4 DEF OnTheWay
<1> QED BY <1>2, <1>3

\* The head of a queue of s is on its way to s.
LEMMA HeadOnTheWay ==
  ASSUME TypeInv, NEW l \in Link, eventQ[l] # <<>>
  PROVE  Head(eventQ[l]) \subseteq OnTheWay(eventQ, l[1])
<1>1. eventQ[l] \in Seq(SUBSET Scope)
  BY DEF TypeInv, TypeOK
<1>2. 1 \in DOMAIN eventQ[l] /\ Head(eventQ[l]) = eventQ[l][1]
  BY <1>1, HeadTailProperties, LenProperties, EmptySeq
<1> QED BY <1>2 DEF OnTheWay

\* Emptying queues adds nothing.
LEMMA ClearOnTheWay ==
  ASSUME NEW s \in Locals, NEW q, \A l \in Link : q[l] \in {eventQ[l], <<>>}
  PROVE  OnTheWay(q, s) \subseteq OnTheWay(eventQ, s)
<1> SUFFICES ASSUME NEW k \in Link, k[1] = s, NEW i \in DOMAIN q[k], NEW x \in q[k][i]
             PROVE  x \in OnTheWay(eventQ, s)
  BY DEF OnTheWay
<1>1. q[k] # <<>>
  OBVIOUS
<1> QED BY <1>1 DEF OnTheWay

\* What a server holds after a step, when everything it holds then it held
\* before or has just been told.
LEMMA HeldBound ==
  ASSUME NEW s \in Locals,
         \A a \in Agents : table'[s][a].state = "owned" =>
           [instance |-> a, epoch |-> table'[s][a].epoch] \in Held(s),
         \A a \in Agents : mirror'[s][a] # 0 =>
           [instance |-> a, epoch |-> mirror'[s][a]] \in Held(s),
         \A t \in tasks'[s] : t.scope \in Held(s),
         \A x \in OnTheWay(eventQ', s) : x \in Held(s) \cup OwnedBy(s)
  PROVE  Held(s)' \subseteq Held(s) \cup OwnedBy(s)
<1> SUFFICES ASSUME NEW x \in Held(s)'
             PROVE  x \in Held(s) \cup OwnedBy(s)
  OBVIOUS
<1>1. \/ \E a \in Agents : /\ table'[s][a].state = "owned"
                           /\ x = [instance |-> a, epoch |-> table'[s][a].epoch]
      \/ \E a \in Agents : /\ mirror'[s][a] # 0
                           /\ x = [instance |-> a, epoch |-> mirror'[s][a]]
      \/ \E t \in tasks'[s] : x = t.scope
      \/ x \in OnTheWay(eventQ', s)
  BY DEF Held, OnTheWay
<1> QED BY <1>1

\* A step that leaves the edge and the event queues alone leaves what is held.
LEMMA HeldSame ==
  ASSUME UNCHANGED <<edgeVars, eventQ>>
  PROVE  \A s \in Locals : Held(s)' = Held(s)
BY DEF edgeVars, Held

\* Closing a link or announcing over it touches the queues only.
LEMMA QueueStepsLearn ==
  ASSUME TypeInv, NEW l \in Link, LocalClose(l) \/ WatcherPass(l), NEW s \in Locals
  PROVE  Held(s)' \subseteq Held(s) \cup OwnedBy(s)
<1>1. table' = table /\ mirror' = mirror /\ tasks' = tasks
  BY DEF LocalClose, WatcherPass, edgeVars
<1>2. CASE LocalClose(l)
  <2>1. \A k \in Link : eventQ'[k] \in {eventQ[k], <<>>}
    BY <1>2 DEF LocalClose, TypeInv, TypeOK
  <2>2. OnTheWay(eventQ', s) \subseteq OnTheWay(eventQ, s)
    BY <2>1, ClearOnTheWay
  <2> QED BY <1>1, <2>2, HeldIn, HeldBound
<1>3. CASE WatcherPass(l)
  <2>1. OwnedBy(l[1]) \in SUBSET Scope
    BY LinkEnds, OwnedByType
  <2>2. eventQ' = [eventQ EXCEPT ![l] = Append(@, OwnedBy(l[1]))] \/ eventQ' = eventQ
    BY <1>3 DEF WatcherPass, TypeInv, TypeOK
  <2>3. \A x \in OnTheWay(eventQ', s) : x \in OnTheWay(eventQ, s) \cup OwnedBy(s)
    BY <2>1, <2>2, AppendOnTheWay
  <2> QED BY <1>1, <2>3, HeldIn, HeldBound
<1> QED BY <1>2, <1>3

\* Handling an owned set moves its grants from the queue to the tasks.
LEMMA HandleOwnedLearns ==
  ASSUME TypeInv, NEW l \in Link, HandleOwned(l), NEW s \in Locals
  PROVE  Held(s)' \subseteq Held(s) \cup OwnedBy(s)
<1> DEFINE scopes == Head(eventQ[l])
           fresh == Unfamiliar(l[1], scopes)
           lost == {a \in Agents \ Instances(scopes) : table[l[1]][a] # Released}
<1>1. l[1] \in Locals /\ eventQ[l] # <<>>
  BY LinkEnds DEF HandleOwned
<1>2. \A x \in OnTheWay(eventQ', s) : x \in Held(s)
  BY <1>1, TailOnTheWay, HeldIn DEF HandleOwned
<1>3. \A t \in tasks'[s] : t.scope \in Held(s)
  <2>1. tasks' = [tasks EXCEPT ![l[1]] = @ \cup [scope: fresh, link: {l}, pc: {"waiting"}]]
    BY DEF HandleOwned
  <2>2. fresh \subseteq OnTheWay(eventQ, l[1])
    BY <1>1, HeadOnTheWay DEF Unfamiliar
  <2> HIDE DEF fresh
  <2>3. \A t \in tasks'[s] : t \in tasks[s] \/ (s = l[1] /\ t.scope \in fresh)
    BY <1>1, <2>1 DEF TypeInv, TypeOK
  <2> QED BY <2>2, <2>3, HeldIn
<1>4. \A a \in Agents : table'[s][a].state = "owned" => table'[s][a] = table[s][a]
  <2>1. table' = [table EXCEPT ![l[1]] = [a \in Agents |->
                    IF a \in lost THEN Released
                    ELSE IF a \in Instances(fresh) THEN Hydrating ELSE table[l[1]][a]]]
    BY DEF HandleOwned
  <2> HIDE DEF fresh, lost
  <2>2. \A a \in Agents : table'[s][a] \in {Released, Hydrating, table[s][a]}
    BY <1>1, <2>1 DEF TypeInv, TypeOK
  <2>3. Released.state # "owned" /\ Hydrating.state # "owned"
    BY DEF Released, Hydrating
  <2> QED BY <2>2, <2>3
<1>5. \A a \in Agents : mirror'[s][a] \in {0, mirror[s][a]}
  <2>1. mirror' = [mirror EXCEPT ![l[1]] = [a \in Agents |->
                     IF a \in lost \cup Instances(fresh) THEN 0 ELSE mirror[l[1]][a]]]
    BY DEF HandleOwned
  <2> HIDE DEF fresh, lost
  <2> QED BY <1>1, <2>1 DEF TypeInv, TypeOK
<1> HIDE DEF scopes, fresh, lost
<1> QED BY <1>2, <1>3, <1>4, <1>5, HeldIn, HeldBound

\* A task only passes its own grant on.
LEMMA TasksLearnNothing ==
  ASSUME TypeInv, NEW r \in Locals, NEW t \in tasks[r], TaskStep(r, t), NEW s \in Locals
  PROVE  Held(s)' \subseteq Held(s) \cup OwnedBy(s)
<1>1. /\ t.scope \in Scope /\ t.scope.instance \in Agents
      /\ t.scope = [instance |-> t.scope.instance, epoch |-> t.scope.epoch]
  BY AdvanceType DEF Scope
<1>2. t.scope \in Held(r)
  BY HeldIn
<1>3. eventQ' = eventQ
  BY DEF TaskStep, SnapshotComplete, CheckHydrating, SetOwned, MirrorSet, AbandonHydration,
         linkVars
<1>4. \A u \in tasks'[s] : u.scope \in Held(s)
  <2>1. \A u \in tasks'[s] : u \in tasks[s] \/ (s = r /\ u.scope = t.scope)
    BY TasksAfter
       DEF TaskStep, SnapshotComplete, CheckHydrating, SetOwned, MirrorSet, AbandonHydration
  <2> QED BY <1>2, <2>1, HeldIn
<1>5. \A a \in Agents : table'[s][a].state = "owned" =>
        [instance |-> a, epoch |-> table'[s][a].epoch] \in Held(s)
  <2> DEFINE b == t.scope.instance
  <2>1. \/ table' = table
        \/ table' = [table EXCEPT ![r][b] = Owned(t.scope.epoch)]
        \/ table' = [table EXCEPT ![r][b] = Released]
    BY DEF TaskStep, SnapshotComplete, CheckHydrating, SetOwned, MirrorSet, AbandonHydration
  <2>2. b \in Agents /\ table \in [Locals -> [Agents -> ScopeState]]
    BY <1>1 DEF TypeInv, TypeOK
  <2>3. Owned(t.scope.epoch).epoch = t.scope.epoch /\ Released.state # "owned"
    BY DEF Owned, Released
  <2>4. t.scope = [instance |-> b, epoch |-> t.scope.epoch]
    BY <1>1
  <2> HIDE DEF b
  <2>5. CASE table' = [table EXCEPT ![r][b] = Owned(t.scope.epoch)]
    <3>1. \A a \in Agents : table'[s][a] = IF s = r /\ a = b THEN Owned(t.scope.epoch)
                                                             ELSE table[s][a]
      BY <2>2, <2>5
    <3> QED BY <1>2, <2>3, <2>4, <3>1, HeldIn
  <2>6. CASE table' = [table EXCEPT ![r][b] = Released]
    <3>1. \A a \in Agents : table'[s][a] \in {Released, table[s][a]}
      BY <2>2, <2>6
    <3> QED BY <2>3, <3>1, HeldIn
  <2>7. CASE table' = table
    BY <2>7, HeldIn
  <2> QED BY <2>1, <2>5, <2>6, <2>7
<1>6. \A a \in Agents : mirror'[s][a] # 0 =>
        [instance |-> a, epoch |-> mirror'[s][a]] \in Held(s)
  <2>1. CASE mirror' = mirror
    BY <2>1, HeldIn
  <2>2. CASE MirrorSet(r, t)
    <3>1. \A a \in Agents : mirror'[s][a] =
            IF s = r /\ a = t.scope.instance THEN t.scope.epoch ELSE mirror[s][a]
      BY <1>1, <2>2 DEF MirrorSet, TypeInv, TypeOK
    <3> QED BY <1>1, <1>2, <3>1, HeldIn
  <2> QED
    BY <2>1, <2>2 DEF TaskStep, SnapshotComplete, CheckHydrating, SetOwned, AbandonHydration
<1> QED BY <1>3, <1>4, <1>5, <1>6, HeldIn, HeldBound

\* A restart recovers what the mirror held.
LEMMA LocalRestartLearnsNothing ==
  ASSUME TypeInv, NEW r \in Locals, LocalRestart(r), NEW s \in Locals
  PROVE  Held(s)' \subseteq Held(s) \cup OwnedBy(s)
<1>1. \A k \in Link : eventQ'[k] \in {eventQ[k], <<>>}
  BY DEF LocalRestart
<1>2. OnTheWay(eventQ', s) \subseteq OnTheWay(eventQ, s)
  BY <1>1, ClearOnTheWay
<1>3. mirror' = mirror /\ tasks'[s] \subseteq tasks[s]
  BY DEF LocalRestart, TypeInv, TypeOK
<1>4. \A a \in Agents : \/ table'[s][a] = table[s][a]
                        \/ table'[s][a] = Released
                        \/ mirror[s][a] # 0 /\ table'[s][a] = Owned(mirror[s][a])
  BY DEF LocalRestart, TypeInv, TypeOK
<1>5. Released.state # "owned" /\ \A e : Owned(e).epoch = e
  BY DEF Released, Owned
<1> QED BY <1>2, <1>3, <1>4, <1>5, HeldIn, HeldBound

\* Resolving a claim is a move of what the claimer did not own.
LEMMA ClaimMoves ==
  ASSUME TypeInv, NEW s \in Servers, NEW instances \in SUBSET Agents,
         grants' = Claim(s, instances), UNCHANGED <<edgeVars, eventQ>>
  PROVE  Fenced!FencedNext
<1> DEFINE moved == {a \in instances : grants[a].owner # s}
<1>1. [r \in Locals |-> Held(r)'] = [r \in Locals |-> Held(r)]
  BY HeldSame
<1>2. \A a \in Agents : IF a \in moved
        THEN grants'[a].owner = s /\ grants'[a].epoch = grants[a].epoch + 1
        ELSE grants'[a] = grants[a]
  BY DEF Claim
<1>3. \A a \in moved : grants[a].owner # s
  OBVIOUS
<1>4. PICK h \in Locals \cup {Global}, m \in SUBSET Agents : h = s /\ m = moved
  BY DEF Servers
<1> HIDE DEF moved
<1>5. Fenced!Move(h, m)
  BY <1>1, <1>2, <1>3, <1>4 DEF Fenced!Move
<1> QED BY <1>5 DEF Fenced!FencedNext

\* All that is ever held are tokens, now and after a step.
LEMMA HeldTokens == TypeInv => \A s \in Locals : Held(s) \in SUBSET Fenced!Token
BY HeldType

\* A step that keeps the grant table learns what was told and forgets the rest.
LEMMA HoldersLearn ==
  ASSUME TypeInv, TypeInv', UNCHANGED grants,
         \A s \in Locals : Held(s)' \subseteq Held(s) \cup OwnedBy(s)
  PROVE  Fenced!FencedNext
<1>1. (TypeInv => \A s \in Locals : Held(s) \in SUBSET Fenced!Token)'
  BY HeldTokens, PTL
<1>2. \A s \in Locals : Held(s)' \in SUBSET Fenced!Token
  BY <1>1
<1>3. \A s \in Locals : \A x \in Held(s)' :
        \/ x \in Held(s)
        \/ grants[x.instance].owner = s /\ x.epoch = grants[x.instance].epoch
  BY DEF OwnedBy
<1>4. \A s \in Locals : \A x \in Held(s)' : x.instance \in Agents
  BY <1>2 DEF Fenced!Token
<1>5. Fenced!LearnAndForget
  BY <1>2, <1>3, <1>4 DEF Fenced!LearnAndForget
<1> QED BY <1>5 DEF Fenced!FencedNext

\* The initial state is an initial state of fenced grants.
LEMMA FenceInitially == Init => Fenced!FencedInit
<1> SUFFICES ASSUME Init PROVE Fenced!FencedInit
  OBVIOUS
<1>1. \A s \in Locals : OnTheWay(eventQ, s) = {}
  BY DEF Init, OnTheWay
<1>2. \A s \in Locals : Held(s) = {}
  BY <1>1, HeldIn DEF Init, Released
<1> QED BY <1>2 DEF Init, Fenced!FencedInit

\* Every step is a move, a learning, or no step at all of fenced grants.
LEMMA FenceStep ==
  TypeInv /\ TypeInv' /\ [Next]_vars => [Fenced!FencedNext]_(Fenced!fencedVars)
<1> SUFFICES ASSUME TypeInv, TypeInv', [Next]_vars
             PROVE  Fenced!FencedNext \/ UNCHANGED Fenced!fencedVars
  BY DEF Fenced!fencedVars
<1>1. CASE UNCHANGED <<grants, edgeVars, eventQ>>
  BY <1>1, HeldSame DEF Fenced!fencedVars
<1>2. CASE LocalClaim
  <2>1. Global \in Servers /\ attached[Global] \in SUBSET Agents
    BY DEF TypeInv, TypeOK, Servers
  <2> QED BY <1>2, <2>1, ClaimMoves DEF LocalClaim, linkVars
<1>3. CASE \E l \in Link : HandleClaim(l)
  <2>1. PICK l \in Link : HandleClaim(l)
    BY <1>3
  <2>2. l[1] \in Servers /\ Head(claimQ[l]) \in SUBSET Agents
    BY <2>1, LinkEnds, HeadTailProperties DEF HandleClaim, TypeInv, TypeOK
  <2> QED BY <2>1, <2>2, ClaimMoves DEF HandleClaim
<1>4. CASE \E l \in Link : LocalClose(l) \/ WatcherPass(l)
  <2>1. UNCHANGED grants
    BY <1>4 DEF LocalClose, WatcherPass
  <2> QED BY <1>4, <2>1, QueueStepsLearn, HoldersLearn
<1>5. CASE \E l \in Link : HandleOwned(l)
  <2>1. UNCHANGED grants
    BY <1>5 DEF HandleOwned
  <2> QED BY <1>5, <2>1, HandleOwnedLearns, HoldersLearn
<1>6. CASE \E r \in Locals : \E t \in tasks[r] : TaskStep(r, t)
  <2>1. UNCHANGED grants
    BY <1>6 DEF TaskStep, SnapshotComplete, CheckHydrating, SetOwned, MirrorSet, AbandonHydration
  <2> QED BY <1>6, <2>1, TasksLearnNothing, HoldersLearn
<1>7. CASE \E r \in Locals : LocalRestart(r)
  <2>1. UNCHANGED grants
    BY <1>7 DEF LocalRestart
  <2> QED BY <1>7, <2>1, LocalRestartLearnsNothing, HoldersLearn
<1>8. \/ UNCHANGED <<grants, edgeVars, eventQ>>
      \/ LocalClaim
      \/ \E l \in Link : HandleClaim(l)
      \/ \E l \in Link : LocalClose(l) \/ WatcherPass(l)
      \/ \E l \in Link : HandleOwned(l)
      \/ \E r \in Locals : \E t \in tasks[r] : TaskStep(r, t)
      \/ \E r \in Locals : LocalRestart(r)
  BY DEF Next, ControlStep, TaskStep, vars, linkVars, AgentConnect, AgentVanish, NoticeGone,
         LinkUp, GlobalClose, SendClaim, GlobalRestart
<1> QED BY <1>1, <1>2, <1>3, <1>4, <1>5, <1>6, <1>7, <1>8

(***************************************************************************)
(* The protocol implements fenced grants, for every set of servers and     *)
(* agents: a local server only ever gets hold of a grant that the global   *)
(* server had just made to it, and nothing but a claim moves one.          *)
(***************************************************************************)
THEOREM OwnershipIsFenced == Spec => RefinesFencedGrants
<1>1. Spec => []TypeInv
  BY TypeInitially, TypesKept, PTL DEF Spec
<1> QED
  BY <1>1, FenceInitially, FenceStep, PTL
     DEF Spec, RefinesFencedGrants, Fenced!FencedSpec

\* Fenced grants with their theorem, over the same mapping as Fenced.
Proved == INSTANCE FencedGrantsProofs WITH
  Items <- Agents, Arbiter <- Global, Holders <- Locals, NoHolder <- None,
  owner <- [a \in Agents |-> grants[a].owner],
  epoch <- [a \in Agents |-> grants[a].epoch],
  held  <- [s \in Locals |-> Held(s)]

(***************************************************************************)
(* Fencing: no two local servers ever hold the same grant, and the current *)
(* one is held by nobody but the owner in the global server's table.       *)
(***************************************************************************)
THEOREM GrantsAreExclusive == Spec => []EpochsAreExclusive
<1>1. Fenced!FencedInit => Proved!FencedInit
  BY DEF Fenced!FencedInit, Proved!FencedInit
<1>2. [Fenced!FencedNext]_(Fenced!fencedVars) => [Proved!FencedNext]_(Proved!fencedVars)
  BY DEF Fenced!FencedNext, Proved!FencedNext, Fenced!fencedVars, Proved!fencedVars,
         Fenced!Move, Proved!Move, Fenced!LearnAndForget, Proved!LearnAndForget,
         Fenced!Token, Proved!Token
<1>3. Proved!TokensAreExclusive /\ Proved!CurrentTokensAreOwners => EpochsAreExclusive
  BY DEF EpochsAreExclusive, Fenced!TokensAreExclusive, Proved!TokensAreExclusive,
         Fenced!CurrentTokensAreOwners, Proved!CurrentTokensAreOwners
<1> QED
  BY <1>1, <1>2, <1>3, OwnershipIsFenced, Proved!FencedGrantsFence, PTL
     DEF RefinesFencedGrants, Fenced!FencedSpec, Proved!FencedSpec

-----------------------------------------------------------------------------
(* The composition is ownership.                                           *)

LEMMA EstateStep ==
  ASSUME EstateNext
  PROVE  \/ ControlStep /\ StreamsFollow
         \/ UNCHANGED vars
         \/ \E s \in Locals : \E t \in tasks[s] : SnapshotArrives(s, t) /\ SnapshotComplete(s, t)
BY DEF EstateNext, AgentWrite, ReconcileAgentPulls, AgentAnswers, PullFromAgent, OwnerAnswers,
       PullFromOwner, ServeSnapshot, SnapshotArrives

LEMMA EstateStepsAreOwnershipSteps == [EstateNext]_estateVars => [Next]_vars
<1>1. ASSUME EstateNext PROVE [Next]_vars
  BY <1>1, EstateStep DEF Next
<1>2. UNCHANGED estateVars => UNCHANGED vars
  BY DEF estateVars
<1> QED BY <1>1, <1>2

(***************************************************************************)
(* The composition implements the ownership protocol: whatever is proved   *)
(* of Ownership holds with the data streams beside it.                     *)
(***************************************************************************)
THEOREM EstateIsOwnership == EstateSpec => Spec
<1>1. EstateInit => Init
  BY DEF EstateInit
<1> QED BY <1>1, EstateStepsAreOwnershipSteps, PTL DEF EstateSpec, Spec

-----------------------------------------------------------------------------
(* The data.                                                               *)

\* What a snapshot or a server has of scope o is enough to own it: a grant that
\* is still current was made at or before that revision.
Suffices(s, o, r) ==
  /\ o.epoch <= grants[o.instance].epoch
  /\ grants[o.instance].owner = s /\ o.epoch = grants[o.instance].epoch
       => r >= baseline[o.instance]

DataInv ==
  /\ EstateTypeOK
  /\ \A a \in Agents : baseline[a] <= rev[Global][a]
  /\ \A s \in Locals : \A x \in snapshots[s] : Suffices(s, x.scope, x.rev)
  /\ \A s \in Locals : \A o \in hydrated[s] : Suffices(s, o, rev[s][o.instance])

\* What is known of the protocol in every state of the composition.
Known == TypeInv /\ EpochsAreExclusive

LEMMA OwnershipIsKnown == EstateSpec => []Known
<1>1. Spec => []TypeInv
  BY TypeInitially, TypesKept, PTL DEF Spec
<1> QED BY <1>1, EstateIsOwnership, GrantsAreExclusive, PTL DEF Known

\* A row of the grant table is left alone or renumbered by one.
LEMMA GrantsMoveUp ==
  ASSUME TypeInv, ControlStep, NEW a \in Agents
  PROVE  grants'[a] = grants[a] \/ grants'[a].epoch = grants[a].epoch + 1
<1>1. \A s, instances : \/ Claim(s, instances)[a] = grants[a]
                        \/ Claim(s, instances)[a].epoch = grants[a].epoch + 1
  BY DEF Claim
<1>2. CASE LocalClaim
  BY <1>1, <1>2 DEF LocalClaim
<1>3. CASE \E l \in Link : HandleClaim(l)
  BY <1>1, <1>3 DEF HandleClaim
<1>4. CASE ~LocalClaim /\ ~ \E l \in Link : HandleClaim(l)
  BY <1>4 DEF ControlStep, AgentConnect, AgentVanish, NoticeGone, LinkUp, LocalClose, GlobalClose,
     SendClaim, WatcherPass, HandleOwned, CheckHydrating, SetOwned, MirrorSet, AbandonHydration,
     LocalRestart, GlobalRestart
<1> QED BY <1>2, <1>3, <1>4

LEMMA ControlHydratesNothing == ControlStep => hydrated' = hydrated
BY DEF ControlStep, AgentConnect, AgentVanish, NoticeGone, LocalClaim, LinkUp, LocalClose,
   GlobalClose, SendClaim, HandleClaim, WatcherPass, HandleOwned, CheckHydrating, SetOwned,
   MirrorSet, AbandonHydration, LocalRestart, GlobalRestart, edgeVars

\* The records of pulls.
LEMMA NewPullTypes == NoPull \in Pull /\ Asked \in Pull
BY DEF NoPull, Asked, Pull

LEMMA PullTypes ==
  ASSUME NEW p \in Pull, NEW r \in 0..MaxRev
  PROVE  /\ r # 0 => Hears(p, r) \in Pull
         /\ Answered(p, r) \in Pull
         /\ [p EXCEPT !.sent = @ \ {r}] \in Pull
<1>1. r # 0 => r \in 1..MaxRev
  BY EstateAssumption
<1>2. ASSUME r # 0 PROVE Hears(p, r) \in Pull
  <2>1. CASE p.pc = "live"
    <3>1. Hears(p, r) = [p EXCEPT !.sent = @ \cup {r}, !.missed = FALSE]
      BY <2>1 DEF Hears
    <3> QED BY <1>1, <1>2, <3>1 DEF Pull
  <2>2. CASE p.pc = "read"
    <3>1. Hears(p, r) = [p EXCEPT !.missed = TRUE]
      BY <2>2 DEF Hears
    <3> QED BY <3>1 DEF Pull
  <2>3. CASE p.pc # "live" /\ p.pc # "read"
    BY <2>3 DEF Hears
  <2> QED BY <2>1, <2>2, <2>3
<1>3. Answered(p, r) \in Pull
  <2>1. {r} \ {0} \in SUBSET (1..MaxRev)
    BY <1>1
  <2> DEFINE first == {r} \ {0}
  <2> HIDE DEF first
  <2>2. [p EXCEPT !.pc = "read", !.sent = first] \in Pull /\ [p EXCEPT !.pc = "live"] \in Pull
    BY <2>1 DEF Pull, first
  <2> QED BY <2>2 DEF Answered, first
<1>4. [p EXCEPT !.sent = @ \ {r}] \in Pull
  BY DEF Pull
<1> QED BY <1>2, <1>3, <1>4

LEMMA DataInitially == EstateInit => DataInv
<1> SUFFICES ASSUME EstateInit PROVE DataInv
  OBVIOUS
<1>1. Global \in Servers /\ 0 \in 0..MaxRev
  BY EstateAssumption DEF Servers
<1>2. EstateTypeOK
  BY <1>1, NewPullTypes DEF EstateInit, EstateTypeOK
<1>3. \A s \in Locals : hydrated[s] = {} /\ snapshots[s] = {}
  BY DEF EstateInit, Init
<1> QED BY <1>1, <1>2, <1>3 DEF EstateInit, DataInv

\* Types of a scope a task carries, and that it is no newer than the table.
LEMMA TaskScope ==
  ASSUME Known, NEW s \in Locals, NEW t \in tasks[s]
  PROVE  /\ t.scope \in Scope /\ t.scope.instance \in Agents /\ t.link \in Link
         /\ t.scope.epoch <= grants[t.scope.instance].epoch
<1>1. t \in Task /\ t.scope \in Scope /\ t.scope.instance \in Agents
  BY AdvanceType DEF Known
<1>2. t.scope \in Held(s)
  BY DEF Held
<1>3. t.scope.epoch <= grants[t.scope.instance].epoch
  BY <1>1, <1>2 DEF Known, EpochsAreExclusive, Fenced!CurrentTokensAreOwners
<1> QED BY <1>1, <1>3 DEF Task

\* What suffices still does when the table only moves up, the baseline only
\* moves with it, and the data only grows.
LEMMA StillSuffices ==
  ASSUME Known, EstateTypeOK, NEW s \in Locals, NEW o \in Scope, o.instance \in Agents,
         NEW r \in Nat, NEW q \in Nat, q >= r, Suffices(s, o, r),
         \/ grants'[o.instance] = grants[o.instance] /\ baseline'[o.instance] = baseline[o.instance]
         \/ grants'[o.instance].epoch = grants[o.instance].epoch + 1
  PROVE  Suffices(s, o, q)'
<1> DEFINE a == o.instance
<1>1. /\ grants[a].epoch \in Nat /\ o.epoch \in Nat /\ baseline[a] \in Nat
  BY EstateAssumption DEF Known, TypeInv, TypeOK, Grant, Scope, EstateTypeOK
<1> QED BY <1>1 DEF Suffices

\* A step of the protocol: grants move with their baseline, data stays.
LEMMA ControlKeepsData ==
  ASSUME Known, DataInv, ControlStep, StreamsFollow
  PROVE  DataInv'
<1>1. Global \in Servers /\ \A s \in Locals : s \in Servers
  BY DEF Servers
<1>2. /\ rev \in [Servers -> [Agents -> 0..MaxRev]]
      /\ rev' = rev /\ agentRev' = agentRev /\ hydrated' = hydrated
  BY ControlHydratesNothing DEF StreamsFollow, DataInv, EstateTypeOK
<1>3. EstateTypeOK'
  <2>1. snapshots' \in [Locals -> SUBSET Snapshot]
    BY DEF StreamsFollow, SnapshotsFollow, DataInv, EstateTypeOK
  <2>2. baseline' \in [Agents -> 0..MaxRev]
    BY <1>1 DEF StreamsFollow, SnapshotsFollow, DataInv, EstateTypeOK
  <2>3. agentPulls' \in [Servers -> [Agents -> Pull]]
    BY NewPullTypes DEF StreamsFollow, DataInv, EstateTypeOK
  <2>4. ownerPulls' \in [Link -> [Agents -> Pull]]
    BY NewPullTypes DEF StreamsFollow, OwnerPullsFollow, DataInv, EstateTypeOK
  <2> QED BY <1>2, <2>1, <2>2, <2>3, <2>4 DEF DataInv, EstateTypeOK
<1>4. \A a \in Agents : baseline'[a] <= rev'[Global][a]
  <2> TAKE a \in Agents
  <2>1. baseline'[a] = IF grants'[a] # grants[a] THEN rev[Global][a] ELSE baseline[a]
    BY DEF StreamsFollow, SnapshotsFollow
  <2>2. rev[Global][a] \in 0..MaxRev /\ baseline[a] <= rev[Global][a]
    BY <1>1, <1>2 DEF DataInv
  <2> QED BY <1>2, <2>1, <2>2, EstateAssumption
<1>5. \A a \in Agents : \/ grants'[a] = grants[a] /\ baseline'[a] = baseline[a]
                        \/ grants'[a].epoch = grants[a].epoch + 1
  BY GrantsMoveUp DEF StreamsFollow, SnapshotsFollow, Known
<1>6. \A s \in Locals : \A x \in snapshots'[s] : Suffices(s, x.scope, x.rev)'
  <2> TAKE s \in Locals
  <2> TAKE x \in snapshots'[s]
  <2>1. x \in snapshots[s] /\ x \in Snapshot /\ Suffices(s, x.scope, x.rev)
    BY DEF StreamsFollow, SnapshotsFollow, DataInv, EstateTypeOK
  <2>2. x.scope \in Scope /\ x.scope.instance \in Agents /\ x.rev \in Nat /\ x.rev >= x.rev
    BY <2>1, EstateAssumption DEF Snapshot, Scope
  <2> QED BY <1>5, <2>1, <2>2, StillSuffices DEF DataInv
<1>7. \A s \in Locals : \A o \in hydrated'[s] : Suffices(s, o, rev[s][o.instance])'
  <2> TAKE s \in Locals
  <2> TAKE o \in hydrated'[s]
  <2>1. o \in Scope /\ o.instance \in Agents /\ Suffices(s, o, rev[s][o.instance])
    BY <1>2 DEF DataInv, Known, TypeInv, TypeOK, Scope
  <2>2. rev[s][o.instance] \in Nat /\ rev'[s][o.instance] = rev[s][o.instance]
    BY <1>1, <1>2, <2>1, EstateAssumption
  <2>3. rev[s][o.instance] >= rev[s][o.instance]
    BY <2>2
  <2> HIDE DEF Suffices
  <2>4. \A q : q = rev[s][o.instance] => Suffices(s, o, q)'
    BY <1>5, <2>1, <2>2, <2>3, StillSuffices DEF DataInv
  <2> QED BY <2>2, <2>4 DEF Suffices
<1> QED BY <1>3, <1>4, <1>6, <1>7 DEF DataInv

\* Revisions only rise, and stay in bounds.
RevRises ==
  /\ rev' \in [Servers -> [Agents -> 0..MaxRev]]
  /\ \A s \in Servers, a \in Agents : rev'[s][a] >= rev[s][a]

LEMMA ApplyRises ==
  ASSUME DataInv, NEW s \in Servers, NEW a \in Agents, NEW r \in 0..MaxRev,
         rev' = [rev EXCEPT ![s][a] = Applied(s, a, r)]
  PROVE  RevRises /\ rev'[s][a] >= r
<1>1. rev \in [Servers -> [Agents -> 0..MaxRev]]
  BY DEF DataInv, EstateTypeOK
<1>2. rev[s][a] \in 0..MaxRev /\ MaxRev \in Nat
  BY <1>1, EstateAssumption
<1>3. Applied(s, a, r) \in 0..MaxRev /\ Applied(s, a, r) >= rev[s][a] /\ Applied(s, a, r) >= r
  BY <1>2 DEF Applied
<1>4. rev' \in [Servers -> [Agents -> 0..MaxRev]] /\ rev'[s][a] = Applied(s, a, r)
  BY <1>1, <1>3
<1>5. ASSUME NEW p \in Servers, NEW b \in Agents PROVE rev'[p][b] >= rev[p][b]
  <2>1. rev[p][b] \in Nat
    BY <1>1, EstateAssumption
  <2>2. CASE p = s /\ b = a
    BY <1>3, <1>4, <2>2
  <2>3. CASE ~(p = s /\ b = a)
    <3>1. rev'[p][b] = rev[p][b]
      BY <1>1, <2>3
    <3> QED BY <2>1, <3>1
  <2> QED BY <2>2, <2>3
<1> QED BY <1>3, <1>4, <1>5 DEF RevRises

\* The pulls that hear of an applied revision keep their type.
LEMMA ApplyTypes ==
  ASSUME DataInv, NEW s \in Servers, NEW a \in Agents, NEW r \in 0..MaxRev, Apply(s, a, r)
  PROVE  /\ RevRises /\ rev'[s][a] >= r
         /\ ownerPulls' \in [Link -> [Agents -> Pull]]
<1>1. rev[s][a] \in 0..MaxRev /\ ownerPulls \in [Link -> [Agents -> Pull]] /\ MaxRev \in Nat
  BY EstateAssumption DEF DataInv, EstateTypeOK
<1>2. Applied(s, a, r) \in 0..MaxRev /\ (Applied(s, a, r) # rev[s][a] => Applied(s, a, r) # 0)
  BY <1>1 DEF Applied
<1> DEFINE n == Applied(s, a, r)
<1> HIDE DEF n
<1>3. ASSUME NEW l \in Link, n # rev[s][a] PROVE Hears(ownerPulls[l][a], n) \in Pull
  BY <1>1, <1>2, <1>3, PullTypes DEF n
<1>4. ownerPulls' = [l \in Link |->
         IF l[1] = s /\ n # rev[s][a] THEN [ownerPulls[l] EXCEPT ![a] = Hears(@, n)]
         ELSE ownerPulls[l]]
  BY DEF Apply, n
<1>5. ownerPulls' \in [Link -> [Agents -> Pull]]
  BY <1>1, <1>3, <1>4
<1> QED BY <1>5, ApplyRises DEF Apply

\* Whatever sufficed still does while the grants rest and revisions rise.
LEMMA RestKeepsHydrated ==
  ASSUME Known, DataInv, RevRises, UNCHANGED <<grants, baseline>>
  PROVE  /\ \A a \in Agents : baseline'[a] <= rev'[Global][a]
         /\ \A s \in Locals : \A x \in snapshots[s] : Suffices(s, x.scope, x.rev)'
         /\ \A s \in Locals : \A o \in hydrated[s] : Suffices(s, o, rev[s][o.instance])'
<1>1. Global \in Servers /\ \A s \in Locals : s \in Servers
  BY DEF Servers
<1>2. /\ rev \in [Servers -> [Agents -> 0..MaxRev]] /\ baseline \in [Agents -> 0..MaxRev]
      /\ rev' \in [Servers -> [Agents -> 0..MaxRev]]
  BY DEF DataInv, EstateTypeOK, RevRises
<1>3. ASSUME NEW a \in Agents PROVE baseline'[a] <= rev'[Global][a]
  <2>1. /\ baseline[a] <= rev[Global][a] /\ rev'[Global][a] >= rev[Global][a]
        /\ baseline'[a] = baseline[a]
    BY <1>1 DEF DataInv, RevRises
  <2>2. baseline[a] \in Nat /\ rev[Global][a] \in Nat /\ rev'[Global][a] \in Nat
    BY <1>1, <1>2, EstateAssumption
  <2> QED BY <2>1, <2>2
<1>4. \A s \in Locals : \A x \in snapshots[s] : Suffices(s, x.scope, x.rev)'
  BY DEF DataInv, Suffices
<1>5. ASSUME NEW s \in Locals, NEW o \in hydrated[s]
      PROVE  Suffices(s, o, rev[s][o.instance])'
  <2>1. o \in Scope /\ o.instance \in Agents /\ Suffices(s, o, rev[s][o.instance])
    BY DEF DataInv, Known, TypeInv, TypeOK, Scope
  <2>2. /\ rev[s][o.instance] \in Nat /\ rev'[s][o.instance] \in Nat
        /\ baseline[o.instance] \in Nat
        /\ rev'[s][o.instance] >= rev[s][o.instance]
    BY <1>1, <1>2, <2>1, EstateAssumption DEF RevRises
  <2> QED BY <2>1, <2>2 DEF Suffices
<1> QED BY <1>3, <1>4, <1>5

\* Writes and pulls: each kind of step keeps the types and only raises revisions.
DataStep ==
  \/ \E a \in Agents : AgentWrite(a)
  \/ \E s \in Locals : ReconcileAgentPulls(s)
  \/ \E s \in Servers, a \in Agents : AgentAnswers(s, a)
  \/ \E s \in Servers, a \in Agents : PullFromAgent(s, a)
  \/ \E l \in Link, a \in Agents : OwnerAnswers(l, a)
  \/ \E l \in Link, a \in Agents : PullFromOwner(l, a)

LEMMA DataStepTypes ==
  ASSUME Known, DataInv, DataStep
  PROVE  EstateTypeOK' /\ RevRises
<1>1. Global \in Servers /\ \A l \in Link : l[1] \in Servers
  BY LinkEnds DEF Servers
<1>2. /\ rev \in [Servers -> [Agents -> 0..MaxRev]] /\ agentRev \in [Agents -> 0..MaxRev]
      /\ agentPulls \in [Servers -> [Agents -> Pull]] /\ ownerPulls \in [Link -> [Agents -> Pull]]
      /\ snapshots \in [Locals -> SUBSET Snapshot] /\ baseline \in [Agents -> 0..MaxRev]
  BY DEF DataInv, EstateTypeOK
<1>3. \A s \in Servers, a \in Agents : rev[s][a] >= rev[s][a]
  BY <1>2, EstateAssumption
<1>4. ASSUME NEW a \in Agents, AgentWrite(a) PROVE EstateTypeOK' /\ RevRises
  <2>1. agentRev[a] + 1 \in 0..MaxRev /\ agentRev[a] + 1 # 0
    BY <1>2, <1>4, EstateAssumption DEF AgentWrite
  <2> DEFINE n == agentRev[a] + 1
  <2> HIDE DEF n
  <2>2. \A s \in Servers : Hears(agentPulls[s][a], n) \in Pull
    BY <1>2, <2>1, PullTypes DEF n
  <2>3. /\ agentRev' = [agentRev EXCEPT ![a] = n]
        /\ agentPulls' = [s \in Servers |-> [agentPulls[s] EXCEPT ![a] = Hears(@, n)]]
        /\ UNCHANGED <<rev, ownerPulls, snapshots, baseline>>
    BY <1>2, <1>4 DEF AgentWrite, n
  <2>4. agentRev' \in [Agents -> 0..MaxRev]
    BY <1>2, <2>1, <2>3 DEF n
  <2>5. agentPulls' \in [Servers -> [Agents -> Pull]]
    BY <1>2, <2>2, <2>3
  <2> QED BY <1>2, <1>3, <2>3, <2>4, <2>5 DEF EstateTypeOK, RevRises
<1>5. ASSUME NEW s \in Locals, ReconcileAgentPulls(s) PROVE EstateTypeOK' /\ RevRises
  <2>1. agentPulls' \in [Servers -> [Agents -> Pull]]
    BY <1>2, <1>5, NewPullTypes DEF ReconcileAgentPulls, Servers
  <2> QED BY <1>2, <1>3, <1>5, <2>1 DEF ReconcileAgentPulls, EstateTypeOK, RevRises
<1>6. ASSUME NEW s \in Servers, NEW a \in Agents, AgentAnswers(s, a)
      PROVE  EstateTypeOK' /\ RevRises
  <2>1. Answered(agentPulls[s][a], agentRev[a]) \in Pull
    BY <1>2, PullTypes
  <2>2. agentPulls' \in [Servers -> [Agents -> Pull]]
    BY <1>2, <1>6, <2>1 DEF AgentAnswers
  <2> QED BY <1>2, <1>3, <1>6, <2>2 DEF AgentAnswers, EstateTypeOK, RevRises
<1>7. ASSUME NEW s \in Servers, NEW a \in Agents, PullFromAgent(s, a)
      PROVE  EstateTypeOK' /\ RevRises
  <2>1. PICK r \in agentPulls[s][a].sent :
          /\ agentPulls' = [agentPulls EXCEPT ![s][a].sent = @ \ {r}]
          /\ Apply(s, a, r)
    BY <1>7 DEF PullFromAgent
  <2>2. agentPulls[s][a] \in Pull /\ r \in 0..MaxRev
    BY <1>2, <2>1, EstateAssumption DEF Pull
  <2>3. [agentPulls[s][a] EXCEPT !.sent = @ \ {r}] \in Pull
    BY <2>2, PullTypes
  <2>4. agentPulls' \in [Servers -> [Agents -> Pull]]
    BY <1>2, <2>1, <2>3
  <2>5. RevRises /\ ownerPulls' \in [Link -> [Agents -> Pull]]
    BY <2>1, <2>2, ApplyTypes
  <2> QED BY <1>2, <1>7, <2>4, <2>5 DEF PullFromAgent, EstateTypeOK, RevRises
<1>8. ASSUME NEW l \in Link, NEW a \in Agents, OwnerAnswers(l, a)
      PROVE  EstateTypeOK' /\ RevRises
  <2>1. Answered(ownerPulls[l][a], rev[l[1]][a]) \in Pull
    BY <1>1, <1>2, PullTypes
  <2>2. ownerPulls' \in [Link -> [Agents -> Pull]]
    BY <1>2, <1>8, <2>1 DEF OwnerAnswers
  <2> QED BY <1>2, <1>3, <1>8, <2>2 DEF OwnerAnswers, EstateTypeOK, RevRises
<1>9. ASSUME NEW l \in Link, NEW a \in Agents, PullFromOwner(l, a)
      PROVE  EstateTypeOK' /\ RevRises
  <2>1. PICK r \in ownerPulls[l][a].sent :
          /\ ownerPulls' = [ownerPulls EXCEPT ![l][a].sent = @ \ {r}]
          /\ rev' = [rev EXCEPT ![Global][a] = Applied(Global, a, r)]
    BY <1>9 DEF PullFromOwner
  <2>2. ownerPulls[l][a] \in Pull /\ r \in 0..MaxRev
    BY <1>2, <2>1, EstateAssumption DEF Pull
  <2>3. [ownerPulls[l][a] EXCEPT !.sent = @ \ {r}] \in Pull
    BY <2>2, PullTypes
  <2>4. ownerPulls' \in [Link -> [Agents -> Pull]]
    BY <1>2, <2>1, <2>3
  <2>5. RevRises
    BY <1>1, <2>1, <2>2, ApplyRises
  <2> QED BY <1>2, <1>9, <2>4, <2>5 DEF PullFromOwner, EstateTypeOK, RevRises
<1> QED BY <1>4, <1>5, <1>6, <1>7, <1>8, <1>9 DEF DataStep

LEMMA PullsKeepData ==
  ASSUME Known, DataInv, DataStep
  PROVE  DataInv'
<1>1. /\ UNCHANGED <<grants, baseline, hydrated, snapshots>>
  BY DEF DataStep, AgentWrite, ReconcileAgentPulls, AgentAnswers, PullFromAgent, OwnerAnswers,
     PullFromOwner, vars, edgeVars
<1> QED BY <1>1, DataStepTypes, RestKeepsHydrated DEF DataInv

\* An answer is cut from what the global server has, which is never less than
\* what it had when it made the grant.
LEMMA ServeKeepsData ==
  ASSUME Known, DataInv, NEW s \in Locals, NEW t \in tasks[s], ServeSnapshot(s, t)
  PROVE  DataInv'
<1> DEFINE a == t.scope.instance
           x == [scope |-> t.scope, link |-> t.link, rev |-> rev[Global][a]]
<1>1. /\ t.scope \in Scope /\ a \in Agents /\ t.link \in Link
      /\ t.scope.epoch <= grants[a].epoch
  BY TaskScope
<1>2. Global \in Servers /\ rev[Global][a] \in 0..MaxRev /\ rev[Global][a] \in Nat
  BY <1>1, EstateAssumption DEF DataInv, EstateTypeOK, Servers
<1>3. /\ UNCHANGED <<grants, baseline, hydrated, rev, agentRev, agentPulls, ownerPulls>>
      /\ snapshots' = [snapshots EXCEPT ![s] = @ \cup {x}]
  BY DEF ServeSnapshot, vars, edgeVars
<1>4. EstateTypeOK'
  <2>1. x \in Snapshot
    BY <1>1, <1>2 DEF Snapshot
  <2> HIDE DEF x
  <2> QED BY <1>3, <2>1 DEF DataInv, EstateTypeOK
<1>5. Suffices(s, t.scope, rev[Global][a])
  <2>1. baseline[a] <= rev[Global][a] /\ baseline[a] \in Nat
    BY <1>1, EstateAssumption DEF DataInv, EstateTypeOK
  <2> QED BY <1>1, <1>2, <2>1 DEF Suffices
<1>6. ASSUME NEW p \in Locals, NEW y \in snapshots'[p] PROVE Suffices(p, y.scope, y.rev)'
  <2>1. y \in snapshots[p] \/ (p = s /\ y = x)
    <3>1. snapshots'[p] = IF p = s THEN snapshots[s] \cup {x} ELSE snapshots[p]
      BY <1>3 DEF DataInv, EstateTypeOK
    <3> HIDE DEF x
    <3> QED BY <3>1
  <2>2. CASE y \in snapshots[p]
    BY <1>3, <2>2 DEF DataInv, Suffices
  <2>3. CASE p = s /\ y = x
    <3>1. y.scope = t.scope /\ y.rev = rev[Global][a]
      BY <2>3
    <3> QED BY <1>3, <1>5, <2>3, <3>1 DEF Suffices
  <2> QED BY <2>1, <2>2, <2>3
<1> QED BY <1>3, <1>4, <1>6 DEF DataInv, Suffices

\* A snapshot that arrives is applied before its scope counts as hydrated.
LEMMA ArrivalKeepsData ==
  ASSUME Known, DataInv, NEW s \in Locals, NEW t \in tasks[s], SnapshotArrives(s, t)
  PROVE  DataInv'
<1> DEFINE a == t.scope.instance
<1>1. t.scope \in Scope /\ a \in Agents /\ s \in Servers
  BY TaskScope DEF Servers
<1>2. PICK x \in snapshots[s] :
        /\ x.scope = t.scope
        /\ Apply(s, a, x.rev)
        /\ snapshots' = [snapshots EXCEPT ![s] = @ \ {x}]
  BY DEF SnapshotArrives
<1>3. /\ UNCHANGED <<grants, baseline, agentRev, agentPulls>>
      /\ hydrated' = [hydrated EXCEPT ![s] = @ \cup {t.scope}]
  BY DEF SnapshotArrives, SnapshotComplete
<1>4. x \in Snapshot /\ Suffices(s, t.scope, x.rev)
  BY <1>2 DEF DataInv, EstateTypeOK
<1>5. x.rev \in 0..MaxRev /\ x.rev \in Nat
  BY <1>4, EstateAssumption DEF Snapshot
<1>6. RevRises /\ rev'[s][a] >= x.rev /\ ownerPulls' \in [Link -> [Agents -> Pull]]
  BY <1>1, <1>2, <1>5, ApplyTypes
<1>7. EstateTypeOK'
  <2>1. snapshots' \in [Locals -> SUBSET Snapshot]
    BY <1>2 DEF DataInv, EstateTypeOK
  <2> QED BY <1>3, <1>6, <2>1 DEF DataInv, EstateTypeOK, RevRises
<1>8. /\ \A b \in Agents : baseline'[b] <= rev'[Global][b]
      /\ \A p \in Locals : \A y \in snapshots[p] : Suffices(p, y.scope, y.rev)'
      /\ \A p \in Locals : \A o \in hydrated[p] : Suffices(p, o, rev[p][o.instance])'
  BY <1>3, <1>6, RestKeepsHydrated
<1>9. \A p \in Locals : \A y \in snapshots'[p] : Suffices(p, y.scope, y.rev)'
  <2>1. \A p \in Locals : snapshots'[p] \subseteq snapshots[p]
    BY <1>2 DEF DataInv, EstateTypeOK
  <2> QED BY <1>8, <2>1
<1>10. Suffices(s, t.scope, rev[s][a])'
  <2>1. rev'[s][a] \in Nat /\ baseline[a] \in Nat
    BY <1>1, <1>6, EstateAssumption DEF RevRises, DataInv, EstateTypeOK
  <2> QED BY <1>3, <1>4, <1>5, <1>6, <2>1 DEF Suffices
<1>11. ASSUME NEW p \in Locals, NEW o \in hydrated'[p]
       PROVE  Suffices(p, o, rev[p][o.instance])'
  <2>1. o \in hydrated[p] \/ (p = s /\ o = t.scope)
    BY <1>3 DEF Known, TypeInv, TypeOK
  <2>2. CASE o \in hydrated[p]
    BY <1>8, <2>2
  <2>3. CASE p = s /\ o = t.scope
    BY <1>10, <2>3
  <2> QED BY <2>1, <2>2, <2>3
<1> QED BY <1>7, <1>8, <1>9, <1>11 DEF DataInv

LEMMA DataKept == Known /\ DataInv /\ [EstateNext]_estateVars => DataInv'
<1> SUFFICES ASSUME Known, DataInv, [EstateNext]_estateVars PROVE DataInv'
  OBVIOUS
<1>1. CASE UNCHANGED estateVars
  BY <1>1 DEF estateVars, dataVars, vars, edgeVars, DataInv, EstateTypeOK, Suffices
<1>2. CASE ControlStep /\ StreamsFollow
  BY <1>2, ControlKeepsData
<1>3. CASE DataStep
  BY <1>3, PullsKeepData
<1>4. CASE \E s \in Locals : \E t \in tasks[s] : ServeSnapshot(s, t)
  BY <1>4, ServeKeepsData
<1>5. CASE \E s \in Locals : \E t \in tasks[s] : SnapshotArrives(s, t)
  BY <1>5, ArrivalKeepsData
<1> QED BY <1>1, <1>2, <1>3, <1>4, <1>5 DEF EstateNext, DataStep

LEMMA DataInvariant == EstateSpec => [](Known /\ DataInv)
<1> QED
  BY OwnershipIsKnown, DataInitially, DataKept, PTL DEF EstateSpec

(***************************************************************************)
(* The types of the data streams; no server has a revision nobody minted   *)
(* beyond the bound.                                                       *)
(***************************************************************************)
THEOREM EstateTypes == EstateSpec => []EstateTypeOK
<1>1. DataInv => EstateTypeOK
  BY DEF DataInv
<1> QED BY <1>1, DataInvariant, PTL

(***************************************************************************)
(* Hydration hands over the data with the right to write it, for any       *)
(* number of servers, agents and links: an owner that has hydrated its     *)
(* current grant starts from nothing older than what the global server     *)
(* held when it made that grant, so that the revisions it replicates back  *)
(* are not discarded as old.                                               *)
(***************************************************************************)
THEOREM HydratedOwnersContinue == EstateSpec => []HydratedContinues
<1>1. ASSUME DataInv, Known PROVE HydratedContinues
  <2> SUFFICES ASSUME NEW s \in Locals, NEW a \in Agents, grants[a].owner = s,
                      [instance |-> a, epoch |-> grants[a].epoch] \in hydrated[s]
               PROVE  rev[s][a] >= baseline[a]
    BY DEF HydratedContinues
  <2> DEFINE o == [instance |-> a, epoch |-> grants[a].epoch]
  <2>1. Suffices(s, o, rev[s][o.instance])
    BY <1>1 DEF DataInv
  <2>2. o.instance = a /\ o.epoch = grants[a].epoch
    OBVIOUS
  <2> QED BY <2>1, <2>2 DEF Suffices
<1> QED BY <1>1, DataInvariant, PTL
=============================================================================
