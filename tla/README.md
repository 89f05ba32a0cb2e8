# Sandpolis in TLA+

Sandpolis runs a *server* that administers *instances* (agents on hosts, clients
with a user interface, other servers). One server is the *global stratum* (GS)
server of a network and holds the whole estate; *local stratum* (LS) servers sit
near some of the agents and keep working when the GS is out of reach. Every
instance has its own database, and data moves between databases by
subscription. This directory holds the TLA+ model of that machinery, the TLC
configurations that check it and the proofs TLAPS checks.

Paths below are relative to the repository's `src/`.

## 1. Inventory

| Component | State it keeps | Operations | Correct when | Model |
|---|---|---|---|---|
| Data ownership, `sandpolis-server/src/ownership.rs` | the GS's grant table (owner, epoch per instance); per LS a scope table (Hydrating / Owned) and a mirror on disk | `claim`, the claim stream's two ends, `hydrate`, `mirror_set/remove`, `restore`, `maintain_local_claims`, `maintain_agent_sync` | epochs fence: no two servers hold one grant; only hydrated scopes are written; the server an agent is attached to ends up owning it | `Ownership`, `FencedGrants` |
| Upstream link, `sandpolis-server/src/stratum.rs` | the current link, the set claimed last on it | `maintain_upstream`, `attempt_link`, `run_link` | a lost claim is made again; no link, no hot loop | `Ownership`, `Relay` |
| Write authority, `ScopeTable` in `sandpolis-instance/src/database/mod.rs` | who may write which scope | `begin_hydrating`, `set_owned`, `release`, `may_write` | a write is only made by the owner | `Ownership`, `Estate` |
| Resident views, `sandpolis-instance/src/database/mod.rs` | cached rows kept fresh by a task that follows the database's events | `push`, `update`, `remove`, `handle_event`, clones | once all is quiet the view lists and shows what the table holds; its locks do not jam | `Resident` |
| Replication, `network/sync.rs`, `database/sync.rs` | per subscription a responder with watches and a requester | `Subscribe`, snapshot, live updates, `Close`, `apply` | no replica regresses; the marker means a complete snapshot; live changes arrive | `Replication`, `Estate` |
| Streams and relay, `network/stream.rs`, `network/reachability.rs` | streams, responder factories, routes, reachable instances, bounded queues | `dispatch`, `register`, `route`, `advertise`, `withdraw` | replies find their origin; no message goes round; routes follow the links | `Relay` |
| Connections, `network/mod.rs` | inbound list, connection rows | `track_inbound`, keepalive | the list follows the sockets | `Ownership`, `Replication`, `Relay` |
| Service runner, `service/runner.rs` | a row per service, a cancel token per running one | `start`, `stop`, `set_enabled`, `pass`, `record`, `reconcile` | the row tells what runs; a toggle survives a restart | `ServiceRunner` |
| Client subscriptions, `sandpolis-client/src/sync.rs` | a map from subscription to its stream | `subscribe`, `unsubscribe`, `init` | one open stream per wanted subscription, none for the others | `ClientSync` |
| Agent loop, `sandpolis/src/agent/mod.rs` | the current connection | connect, wait, reconnect, poll windows | a disconnected agent dials again | none |
| Accounts, `sandpolis-account/src/management.rs` | accounts, links, a config file | create, delete, seed, recompute, persist | links are those the accounts imply; the file lists the accounts | `Accounts` |
| Users and login, `sandpolis-server/src/login`, `user` | users, passwords, TOTP secrets | login, first setup, enrolment | one password per user | none |
| Liveness, notifications | rows | append, trim, mark offline | rows follow connections | none |

The parts interact through four mechanisms: *streams* over a websocket (FIFO per
direction, lost with the socket), *database watches* (every commit is announced
to watchers, asynchronously), *notifiers* that wake loops (edge-triggered, with
a debounce and a slow resync behind them), and the *scope table* that every
gated write consults.

What is hard here is concurrency across processes: agents roam between servers,
claims of different servers race, links die with messages on them and each end
learns of it alone, tasks outlive the link they were started for, a lock is
released between reading a state and acting on it, and a restart finds what the
last commit left. `PROJECT.json` lists the hazards at their lines, with the
properties that would catch each one.

## 2. The modules

| Module | Models |
|---|---|
| `FencedGrants` | the abstract specification: fencing tokens. An arbiter moves items between holders and numbers every move; a holder learns only current tokens of its own and forgets any time it likes |
| `Ownership` | ownership as the code does it: agents, links, claims, watchers, announcements, hydration tasks, mirrors, restarts |
| `Estate` | `Ownership` composed with the data: revisions minted by the agent, pulls from agents and owners, hydration snapshots |
| `Replication` | one replica's subscriptions over one connection: both ends, the responder's handler step by step, watches, buffers, closing and losing the connection |
| `ServiceRunner` | one service under its runner: calls that toggle it, passes, departing tasks, restarts |
| `ClientSync` | the client's subscriptions: the handle all views share, the tasks that open and close streams, the loop that reconnects under them |
| `Relay` | messages between a client and an agent over local and global servers: routing, the notes of where answers go, advertisements, one queue per connection end |
| `Resident` | a view of a table kept in memory: its locks, its callers and the task that follows the database |
| `Accounts` | the account manager: calls of several commits that overlap, startup's import, restarts between any two commits |
| `MCReplication`, `MCClientSync`, `MCRelay` | filter lists, standing subscriptions, topologies and their bounds for TLC |
| `MCEstate`, `MCService` | bounds of `Estate` and `ServiceRunner` that a constant does not express |
| `FencedGrantsProofs`, `OwnershipProofs`, `ReplicationProofs`, `ResidentProofs`, `ServiceRunnerProofs`, `ClientSyncProofs`, `RelayProofs`, `AccountsProofs` | the theorems |

`Estate` composes ownership with the data it moves. The others stand alone: what
they take from their neighbours (a connection that fails at any point, a record
that replicates in, a restart) is an action of the environment.

### Ownership

State to code: `grants` is `Ownership::grants` on the GS (epoch 0 stands for "no
row"); `table` is each LS's `ScopeTable` and `mirror` its `OwnershipData` rows;
`attached[s]` is `attached_instances` (live inbound connections that are not
servers), `home` where the agent really is. A link `<<s, n>>` is the n-th
websocket LS `s` dialed; `localEnd` and `globalEnd` hold the links whose end
still lives, `claimQ` and `eventQ` what is on its way. `claimed` and `told` are
the `previous` variables of the two watchers. A task of `tasks[s]` is one
spawned `hydrate`; its `pc` names the points between which other threads run.

| Action | Code |
|---|---|
| `AgentConnect`, `AgentVanish`, `NoticeGone` | the connect handler; an agent leaving; `track_inbound`'s janitor |
| `LocalClaim` | a pass of `maintain_local_claims` that claims |
| `LinkUp`, `LocalClose`, `GlobalClose` | `maintain_upstream`/`attempt_link`; a socket dying at one end, by itself or because the keepalive misses the other |
| `SendClaim` | a pass of `run_link`'s watcher that claims (the first of a link always does) |
| `HandleClaim`, `WatcherPass` | `OwnershipResponder::on_message`; a pass of `ensure_watcher`'s loop that announces and rebuilds the pull |
| `HandleOwned` | `OwnershipRequester::on_message` with `hydrate` up to its spawn |
| `SnapshotComplete`, `CheckHydrating`, `SetOwned`, `MirrorSet`, `AbandonHydration` | the spawned task: the marker, the read of the scope's state, the two writes that follow with no lock held across them, and the cancelled arm |
| `LocalRestart`, `GlobalRestart` | memory and sockets go; `ServerManager::new` and `restore` |

Abstractions: a claim pass, which the code makes on a notification or on a
resync, is an action enabled whenever it would do something; debounce and
back-off are delays and any delay is allowed; `claim` runs under the grant
table's lock, so a claim is one step. A mutation that fails in the database is
not modelled. The scan of `tracked` scopes and the loop over granted ones are
one step: an announcement is handled by one task, and a hydration task slipping
between two of its scopes commutes with the rest because each iteration touches
one scope.

### Estate

Extends `Ownership`: every step that is not the arrival of a snapshot is a
`ControlStep` conjoined with `StreamsFollow`, which says what it does to the
data streams (a pull dies with its connection, the GS opens one in its connect
handler, the watcher rebuilds those of its link with the set it announces, an
answer nobody waits for is lost). A record is its revision number:
`apply` in `database/sync.rs` drops what is not newer. `baseline` is a history
variable: the GS's revision when it last moved the grant.

A pull (`agentPulls`, toward an agent; `ownerPulls`, toward the owner of a link) is
a sync stream with the three points at which its responder can be: asked, snapshot
read, watching. A commit at its source reaches it only when it watches (`Hears`),
and `missed` is history: it says that the last change of the record fell between
the snapshot and the watch.

| Action | Code |
|---|---|
| `AgentWrite` | a commit at the agent |
| `ReconcileAgentPulls` | a pass of `maintain_agent_sync` |
| `AgentAnswers`, `OwnerAnswers` | the responder's snapshot; then its watch |
| `PullFromAgent`, `PullFromOwner` | the requester applies what was sent, in order |
| `ServeSnapshot`, `SnapshotArrives` | the answer to a hydration; its arrival with the marker |

### Replication

State to code: `source` and `replica` are one realm database at each end (a
record is its revision; 0 is no row), `asked` and `open` the sync streams the
replica registered, `requests` what `open_sync` and `close_sync` sent,
`watched` and `events` the watch tasks of the responders with the commits they
have yet to forward, `outbox` the queues between a responder and the socket.
`handler` is the one message the source's socket task has in hand: `dispatch` is
awaited inline, so while a handler waits the task neither sends, receives nor
looks at its deadline. `atStart` and `buried` are history.

| Action | Code |
|---|---|
| `Write`, `Remove` | a commit at the source, announced to the watches of the row |
| `OpenSync`, `CloseSync` | `open_sync`; `close_sync` (the stream is forgotten at once) |
| `ReceiveSubscribe`, `ReceiveClose` | the socket task dispatches to `SyncResponder::on_message` |
| `Scan`, `SendSnapshot`, `Watch`, `SendMarker` | its steps: one read transaction per type, the wait for room, one watch per type, the marker |
| `Forward` | a watch task and its forwarder |
| `SocketSends` | the socket task sends; `SyncRequester::on_message` applies |
| `Connect`, `SourceCloses`, `SourceRestarts`, `ReplicaCloses` | the connection and its ends |

Abstractions: the three queues of 32 in a row between a responder and the socket are one
buffer of `Capacity`; the last of them is shared by the streams of a connection in the
code, here every stream has its own. `Wedged` names the state in which the socket task
waits in its handler for room that only it could make. An update is in the buffer until
the replica handles it: what the transport adds is delay, and it loses what it holds
with the connection as the buffer does. A filter that matches no type is left out.
Storage errors are not modelled.

### ServiceRunner

State to code: `row` is the service's `ServiceData`, `running` the token in
`Supervisor::running` (0 for none), `cancelled` what has been cancelled,
`task[t]` where the task spawned with token t is in `supervise` and `pass`,
`call[c]` where a caller is in `set_enabled`, `permit` the stored notification
of `notify`. Startup is the caller `Boot`. `asked`, `chosen` and `crossed` are
history.

| Action | Code |
|---|---|
| `Restart` | the process ends; `reconcile` |
| `Persist` | the transaction at the head of `set_enabled` |
| `TakeToken`, `Launch` | `start`: under the lock; the row and the spawn after it |
| `TakeRunning`, `Cancel`, `MarkStopped` | `stop`: under the lock; the cancellation; the row |
| `RunNow` | `run_now` |
| `Ticks`, `Notified`, `Begin`, `Leave` | the `select!`s of `supervise`, each of which looks at the token first |
| `MarkRunning`, `RunReturns`, `ReadCancelled`, `Record` | `pass` and `record` |

Abstractions: a `select!` may have looked at the token before it was cancelled and then
take its other branch, so waking up asks nothing of the token; the next look does.
`Driving` is a token with a task, or with a call about to spawn one; `Departing` are
those other than the current. The counters and error texts of a row are left out. The
record of a pass writes what its own transaction read, so no choice can be lost in it.

### ClientSync

State to code: `slot` is `ServerConnection::inner` of each server, `entry` its
entry in `CONNECTIONS`, `current` and `subs` the connection and the map in the
handle that all views share. `calls` are the calls of `subscribe` that inserted an
entry, each with its task; since each registers one stream, a call's number is its
stream's. `registered` is the client's side of the streams, `channel` what is on its way to
the server, `serving` the responders there. `loop` is where the loop is with a
connection it has just opened.

| Action | Code |
|---|---|
| `Dial`, `EmptySlot`, `Fail` | `spawn_client_sync` dials an empty slot; the task that waits for the socket's end; that end |
| `RegisterConnection` | `register_connection`: only a dead entry is replaced |
| `ForgetSubscriptions`, `Swap` | `init`: the map is cleared, then the connection swapped, under two locks |
| `SubscribeStanding`, `BackToPolling` | the loop subscribes what is always wanted |
| `Subscribe`, `CloneConnection`, `OpenSync`, `Settle` | `subscribe` and its task |
| `Unsubscribe`, `CloneToClose`, `CloseSync` | `unsubscribe` and its task |
| `Serve` | the server's responder |

Abstractions: data on the streams is `Replication`'s business. The branch for a
failed open is left out: opening fails only when the receiver of a channel made
just before is gone.

### Relay

State to code: `conns` are the connections dialed, `ends` their two socket tasks
(`InstanceConnection::websocket` and its client twin), each of which handles one
message at a time; `inbound` is `NetworkManager::inbound`, `upstream`, `reachable`
and `routes` the fields of `Relay`, `watching` the tasks that
`accept_advertisements` leaves, `told` the set `run_link`'s watcher advertised
last. `outbox[e]` is the queue of an end, `holding[e]` the message its task has
routed and waits to put into another connection's queue. `took` is history; `Jammed`
names the circles of tasks that hold messages for each other's full queues.

| Action | Code |
|---|---|
| `Dial`, `Close`, `Untrack` | a new connection; a socket task ends; `track_inbound`'s janitor |
| `Advertise`, `TakeAdvert`, `Withdraw` | the watcher sends its set; `advertise`; `withdraw` |
| `Open`, `AskAgain` | `register_to` and what the requester sends later |
| `Receive` | `dispatch`: `RouteAsk` and `RouteAnswer` are the two halves of `route` |
| `HandOn` | `send_raw` into the next connection's queue |

Abstractions: an ask is one message to an agent and every ask gets one answer. The
advertisements of one link share its queue with everything else (in the code each has a
stream of its own in the same socket). Agents answer without waiting for room, as their
queues are not what a server waits for. Closing a relayed stream is not in the model
because the code never sends a close on: a note in `routes` is only ever replaced.

### Resident

State to code: `stored` is the table, `events` what the database has reported and
the view's task has yet to handle, `cells` what the residents point to, `view` is
`ResidentVec::inner`, `handles` the residents that callers keep from `push`.
`thread[t]` and `task` say where a caller or the task waits, and so which locks
are held (`Locked`, `ViewWritten`, `ViewRead`, `Writing`). `missed` and `spoiled` are
history: the rows that changed before the watch was set, and those of which an update
was refused, or committed from another revision than the table's.

| Action | Code |
|---|---|
| `SetWatch` | the end of `resident_vec` |
| `BeginUpdate`, `RefuseUpdate`, `CommitUpdate` | `update`: the row's lock and the new revision; the transaction, refused or committed |
| `BeginPush`, `PutInView`, `CommitPush` | `push`: the transaction opens; the view is changed; the commit |
| `BeginRemove`, `ReadToRemove`, `CommitRemove` | `remove` with the view in hand, then the entry, then the transaction |
| `Replicated`, `ReplicatedDelete`, `ChangeHands` | `apply` of replication; write authority |
| `SeeEvent`, `SeeEntry` | `handle_event`: under the view's lock; under the entry's too |
| `DropClone` | `Drop` |

Abstractions: a record is its revision and the number of the call that wrote it. A push
is of an id nobody has (`push` does not serve two callers with one id at a time: both
would pass its check), and its insert and commit do not fail in the database. Listeners
and the conditions of a view are left out.

### Accounts

State to code: `accounts` and `links` are the two tables, `file` the realm's config
file, `call[c]` where the handler of a client's request is, `boot` where startup
is. `crossed` and `lost` are history.

| Action | Code |
|---|---|
| `Create`, `Delete` | the first transaction of `create` and of `delete`; the latter takes the account's links along |
| `RecomputeLinks` | `recompute_links` |
| `ScanAccounts`, `PersistAccounts` | `persist`: the list is read, then written under the config's lock |
| `SeedInsert`, `SeedInserted`, `SeedRecompute`, `SeedPersist` | `seed` at startup |
| `Restart` | the process ends between any two of these |

Abstractions: an account is its identity and two accounts are linked if theirs
share something (`derive_links` is a comparison of fields). Validation is left
out, and a config file that fails to be written: the code logs it and goes on.

## 3. The runs

| Run | Checks | Shows |
|---|---|---|
| `ownership` | `TypeOK`, `EpochsAreExclusive`, `OnlyHydratedIsOwned`, `HydratingHasATask`, `RefinesFencedGrants`, `HydrationEnds`, `FenceCloses` | fencing and hydration, the refinement, and that hydrations and pulls of revoked instances end |
| `own_stuck` | violated: `HomeEventuallyOwns` | a late claim leaves an agent owned by a server it is not attached to, for good |
| `estate` | `EstateTypeOK`, `HydratedContinues`, `EstateConverges` | data follows ownership, over pulls that read a snapshot before they watch; claims survive the links they were lost on |
| `replication` | `ReplTypeOK`, `MarkerMeansComplete`, `DeletedStaysDeleted`, `NeverRegresses`, `EventsArrive`, `WatchesEnd`, `SubscriptionsAreAnswered`, `GoneIsNoticed` | two subscriptions to one row, or one with two filters as the pull of a server that owns two scopes; rows written and deleted, the connection closed or cut off anywhere, the socket task stopped by full buffers |
| `replication_gap` | violated: `LiveChangesAreStreamed` | a change between the snapshot and the watch is never sent |
| `service` | `ServiceTypeOK`, `OneSchedule`, `ChoiceHolds`, `CancelledEnds`, `AskedPassRuns` | two clients toggle a service of each schedule, with restarts at any point |
| `client_sync` | `ClientTypeOK`, `PendingIsAttended`, `ActiveIsOpen`, `EntriesFollow`, `DroppedEnds`, `StandingIsServed` | a view subscribes and unsubscribes while the connection is replaced under it |
| `relay` | `RelayTypeOK`, `HopsToSpare`, `AnswersReturn` | a client and an agent, each on any of three servers, dialing again elsewhere; and both on one, whose queues they fill |
| `relay_withdrawn` | violated: `RoutesFollow` | a late withdrawal forgets what the new link advertised |
| `resident` | `ResidentTypeOK`, `MembersFollow`, `ShowsTable`, `OnlyCirclesJam` | two threads and the task on a view of two rows, one of them temporal, while write authority changes hands |
| `resident_clones` | violated: `RemovalsAreHeard` | dropping a clone ends the watch of all |
| `accounts` | `AccountsTypeOK`, `NoDanglingLinks`, `LinksFollow`, `FileFollows` | two clients create and delete accounts, the process dies between any two commits |

Bounds. `Ownership`: `MaxLinks` bounds the links a local server dials, `MaxUpsets`
what the environment does (an agent connecting or vanishing, a link end failing
first, a restart). Two links are the least with which a task of a dead link meets one of
its successor, two local servers the least that can contend, two upsets the least
with which an agent roams or connects to a server that fails. One agent is
enough for the invariants, which speak of one scope at a time; for more of
everything the safety properties are proved (section 4). `Estate` has three upsets,
with which an agent attaches, roams and comes back, and needs no second local
server: the global server is itself an owner an agent can roam to. `MaxRev`
bounds the revisions an agent mints; one revision is the least that a pull can miss.
`MCEstate` keeps the third upset for states in which no server has redialed before the
end of its old link was noticed (239 793 states).

`Replication`: two streams are the least with which updates of one row can cross,
two revisions the least with which one can be older, two filters the least with
which a marker can come too early. `Capacity` 3 is less than an answer of two filters
and the events that come meanwhile: the socket task that stops for good is reached
(99 649 states), and the liveness properties except it by name (`Wedged`) and nothing else.

`ServiceRunner`: `MaxUpsets` counts calls and restarts; three are the least with
which two calls cross and a third sets right what they left, or with which a
service is stopped, started and stopped while the first task departs. The fourth is
what it takes for a task to be spawned with a token that was cancelled before, and to
take a request meant for its successor; `MCService` keeps it for the delayed
schedule, the only one whose tasks wait before their first pass. `MaxTokens` 3 bounds
the starts of one process (248 698 states).

`ClientSync`: one server, two connections (one is replaced by the next while
streams are being opened on it) and two calls by views, the least with which two
tasks settle one entry. One key is standing, one a view's (237 192 states).

`Relay`: connections start up in one of four topologies. In three of them the bound
`MaxConns` of 4 leaves room to dial again, one connection may fail at a time to be
noticed (`MaxFailed`), and two messages, the least that can be in each other's way, are
asked. In the fourth a client and an agent are on one server and ask four times on one
stream: with room for one message in each queue, the hardest case, four are the least
with which the two socket tasks of that server wait for each other (131 571 states).
`MCRelay` states these bounds. `AnswersReturn` excepts that circle (`Jammed`) and
nothing else.

`Resident`: two threads are the least for the circle of locks (an update, a push
and the task), two rows the least of which one is temporal, four calls the least
with which a row is pushed, updated, removed and pushed again, or with which an update
is refused, and the row replicated and updated after it (240 081 states).

`Accounts`: three identities, two of which share a name; two callers; four accounts
are enough for duplicates and for a deleted account to be made again; two restarts
for one to start from what the other left (186 544 states).

Deadlock checking is off: once the environment's budget is spent and every
queue is empty the model rests, which is a legal state of the system.

Fairness is weak and only on what the runtime does by itself: loops wake at the latest
on their resync timer, a spawned task is polled, a handler gets its message, a closed
peer is noticed by the keepalive deadline, and a link is dialed again. Nothing is
assumed of agents, views, clients, link failures or restarts. In `Ownership` it is
stated per server and link and not per message, since one task handles all messages of a
stream. In `ServiceRunner` a task gets on where it does not wait for a tick; the run of
a periodic service returns ("one bounded pass", `service/mod.rs`), that of a continuous
one need not. `ClientSync` does not promise that a dial succeeds. `Relay` has one
condition for all tasks, which suffices because within the bounds no task can run for
ever and starve another. `Estate` adds the two ends of each pull, per connection.
`Resident` has one for the task and one for each thread; a lock that is free in between
is one that was given back. `Accounts` has none: only safety is claimed of it.

Each property was shown to be falsifiable by a mutation of the code's behaviour
(`mutants` in `PROJECT.json`; their definitions stand before the ones they
mutate).

## 4. What is proved

`FencedGrantsProofs`: `FencedGrantsFence`, the two fencing invariants of the
abstract specification, by one induction (every token held is at most as new as
the arbiter's and, at that number, its owner's; two holders of one token would
both have been its owner under one number).

`OwnershipProofs`, from `OwnershipAssumption` alone (any number of local
servers, agents, links and upsets):

- `OwnershipTypes`: type correctness. The strengthening `GrantsNumbered` (a row
  with an owner has an epoch of at least 1) is needed because an announced
  scope must have a positive epoch.
- `OwnedIsHydrated` and `HydratingIsAttended`: the inductive invariant `EdgeInv`
  adds `SnapshotsPrecedeCommits`: a task past the marker has its grant in
  `hydrated`. Without it `SetOwned` could own a scope nothing is known of.
- `OwnershipIsFenced`: the simulation. Only `LocalClaim` and `HandleClaim` change
  the grant table (lemma `ClaimMoves`: a claim is a `Move` of the instances the
  claimer did not own); every other step leaves it and lets each local server
  hold only what it held or what the table grants it now (lemma `HoldersLearn`).
- `GrantsAreExclusive`: the property `EpochsAreExclusive` of the implementation,
  from the refinement and the theorem about the abstract specification.

`OwnershipProofs` on the composition `Estate`, from `OwnershipAssumption` and
`EstateAssumption`:

- `EstateIsOwnership`: every step of the composition is a step of `Ownership` or
  a stutter, so that everything above holds with the data streams beside it.
- `EstateTypes`, and `HydratedOwnersContinue`, the property `HydratedContinues`.
  The inductive invariant `DataInv` says `Suffices` of every snapshot under way
  and every scope hydrated: if its grant is still the current one, its revision
  is at least `baseline`. A claim preserves it because it renumbers what it
  moves (lemma `GrantsMoveUp`), with a number no snapshot or hydrated scope has
  yet; a revision in a server's database never falls, and a snapshot is only
  served for a grant the global server has made.

`ReplicationProofs`, from `ReplicationAssumption` (any rows, filters, buffer sizes
and number of streams): `ReplicationTypes`, `ReplicasNeverRegress`,
`MarkersMeanComplete`, `DeletionsStay`, `SubscriptionsAreAttended` and
`WatchesAreDismissed`. The inductive invariant `ReplInv` says of what is in
transit that a record marked deleted is of a row deleted at the source (`Truth`)
and that a batch says one thing about a row (`OneEach`); for a snapshot in the
making this needs that it holds no record of a row still to be read (`Serving`).
The theorem about the marker needs `MarkerInv` beside it, which follows each row that
matches a subscription until it is at the replica: before the marker is sent, the row
has yet to be read by the handler (`ToRead`), or is in its hand (`InHand`), or is in
the stream's buffer (`Ahead`); once the marker is in the buffer, every row is ahead of
it (`Markers`); and since a stream is subscribed once (`Once`), no later answer moves
the point the snapshot is measured from.

`DeletionsStay`, the property `DeletedStaysDeleted`, rests on `DeletionInv` and on a
second assumption, `FiltersAreApart`: no two filters of one request match the same
row. That is what the code asks for: the one request with several filters is the pull
from an owner (`ownership.rs`:495-499), one filter for each grant and one for the
peer itself, a claim makes one grant of an instance and none of the claimer's own
(137-141), and every other caller of `open_sync` has one filter. Without it the
property is false: the second filter reads what the first one's watch then reports
deleted, and its snapshot may be sent last. The invariant says that a row is followed
on behalf of a stream only when the stream will not read it again (`ReadFirst`, with
`Once` of `MarkerInv`), that a deletion is the last event of its watch (`Watches`,
since a deleted row is never written again, `Gone`) and the last that its stream's
buffer says of the row (`LastWord`); so once the replica has applied it, nothing on its
way brings the row back (`AtRest`). Only this last step needs that one stream was
asked for; the others are about every stream. The invariant holds while batches are
still in transit, where the property speaks of what the replica shows.

`SubscriptionsAreAttended` and `WatchesAreDismissed` are what the liveness properties
`SubscriptionsAreAnswered` and `WatchesEnd` need of every state, by the inductive
invariant `StreamInv`: an open stream without its marker is asked for, in the handler's
hand, or has the marker in its buffer (`Attended`); a stream the replica no longer has
is served or asked for only with its `Close` on the way behind, unless the replica's
end of the connection is gone (`Dismissed`); and an end that closed left nothing
behind (`EndsClean`). That those steps are then taken is fairness, and stays with TLC.

`ResidentProofs`, from `ResidentAssumption` alone (any rows, temporal or not, any
number of threads and bounds): `ResidentTypes`; `ViewFollowsTable`, the property
`MembersFollow`; and `ViewShowsTable`, the property `ShowsTable`. Callers, commits and
the task that follows them touch the view in any order and under different locks, so
the inductive invariant `ViewInv` is about what the task has yet to hear:

- `Locks`: there is one writer, a cell has one holder, and the view is not being
  read while the task is inside it; without that two calls could leave from the
  same record.
- `Telling`: the last event about a row is true of the table, a row that is gone has a
  deletion among the events to come if it has any, and between two events of one row,
  of which the second inserts it, is a deletion. Commits send their events in commit
  order, and this is what that order is good for.
- `Members`: a row without an event to come is listed if it is in the table, and only
  then, but for the row that a push has put into the view and not committed yet.
- `Fitting`: a listed row about which at most insertions are to come has a cell as
  new as the table's record: with `Telling`, such an insertion is of that very record,
  and finds its revision there or puts the record in its place. Updates and deletions
  that are to come may find anything.

`Members` and `Fitting` are claimed while the watch lasts, for rows that did not change
before it was set; section 5 tells what happens otherwise. `Fitting` says that an entry
is not behind. That it is not ahead either, which makes it the very record, is the
invariant `NewestInv` (`NoneNewer`): of a row that is not `spoiled`, neither the entry,
nor an event to come, nor the one in the task's hand has a revision above the table's,
unless a deletion is still ahead of it; a call that has locked the entry is the one
exception, by one revision, until it commits. A refused update leaves the entry at that
revision, which is why the property speaks of it apart.

`OneCircleOfLocks`, by `Locks`, is what `OnlyCirclesJam` needs of every state, for any
number of callers: while something is under way, the circle of `Jammed` is closed or
the task or some call has the lock it needs next. The guards are written out
(`ThreadGoesOn`, `TaskGoesOn`) since the provers cannot reason about ENABLED.

`ServiceRunnerProofs`, from `ServiceAssumption` alone (any clients and bounds):
`ServiceTypes`; `ServiceHasOneSchedule`, by the inductive invariant
`TokensFound`, which extends `OneSchedule` to the tokens about to be spawned;
`ServiceChoiceHolds`, by `ChoiceInv`: unless the last call crossed another, at
most one call is under way and the schedule is what that call has made of it so
far (`OnItsWay`), and the row says stopped while the process has started nothing; and
`RequestsAreKept`, what `AskedPassRuns` needs of every state: a request made while no
other task is about is stored, or has woken its task, until the task hears of it.

`ClientSyncProofs`, from `ClientSyncAssumption` alone (any servers, keys, standing
subscriptions and calls): `ClientTypes`; `PendingAttended`, `ActiveOpen` and
`EntriesFollowSlots`. The inductive invariant says of every stream what its call's
stage promises of it (`StreamsHold`: registered once it is open, and asked for, or
served, while its connection lives), that an active entry's call is kept
(`ActiveIsKept`), and that a server's entry is dead or that of its slot
(`EntriesHold`).

`RelayProofs`, from `RelayAssumption` alone (any servers, clients, agents, queues,
starting topologies and failures): `RelayTypes`, and `NoMessageGoesRound`, the
property `HopsToSpare` for a limit of at least 4; `MAX_HOPS` is 4, so the theorem
needs all that the code allows. It rests on `OneLink`, that a local server has one
link whose end runs, the newest it dialed: `next_hop` never sends a message back
where it came from, so one that came down the link cannot go up again. `Placed`
bounds the hops of a message by where it is: none at its client, one on its way
up, two at the global server, three on its way down or at a second local server.
That holds whatever is stale in `reachable`, `inbound` and `routes`.

`AccountsProofs`, from `AccountsAssumption` alone: `AccountsTypes`,
`LinksNeverDangle`, `LinksFollowAccounts` and `FileFollowsAccounts`. The
strengthening `Uncrossed` says that without a crossed call at most one call is under
way and that the list it is about to write is that of the accounts.

Liveness (`HydrationEnds`, `FenceCloses`, `EstateConverges`, `EventsArrive`,
`WatchesEnd`, `SubscriptionsAreAnswered`, `GoneIsNoticed`, `CancelledEnds`,
`AskedPassRuns`, `DroppedEnds`, `StandingIsServed`, `AnswersReturn`, `OnlyCirclesJam`)
is model-checked only: it is out of the prover's reach, though `HydratingIsAttended`,
`PendingAttended`, `SubscriptionsAreAttended`, `WatchesAreDismissed`, `RequestsAreKept`
and `OneCircleOfLocks` prove what it needs of every state. Every invariant and every
action property that a passing run checks is proved.

## 5. Where the code and its documentation part

See `findings` in `PROJECT.json`; the traces come out of the runs `own_stuck`,
`replication_gap`, `relay_withdrawn` and `resident_clones`. What follows was met
while modelling and has no run of its own.

Ownership (`sandpolis-server/src/ownership.rs`):

- The documentation says the global server "only ever pulls an instance's records
  from that instance's current owner". A pull outlives the move of its grant until
  the watcher's next pass (`PullFromOwner` asks what `told` holds, not for the
  owner). `FenceCloses` says it ends, `HydratedContinues` that it does no harm.
- A newer grant announced while an older hydration of the same scope runs is
  ignored (line 592), and the scope is set owned when the older one ends, against
  the rehydration that lines 99-100 promise.
- A hydration reads the scope's state and sets it owned in two steps (637-641). A
  revocation between them is overwritten: the scope is writable, and mirrored, until
  the next owned set. Its epoch stays the older one, so fencing holds, and no property
  speaks of it.
- A task whose link died releases its scope whatever has happened since (654): a
  hydration that the next link has begun is released with it, its task then finds
  nothing to set, and the scope is not hydrated until an owned set is announced again.

Replication:

- A row deleted at the source comes back at a replica through a second,
  overlapping subscription whose snapshot is older (`database/sync.rs`:151, against
  the comment at 140-141), and stays. `DeletedStaysDeleted` is stated for a replica
  that has subscribed once.
- A snapshot larger than the queues between a responder and the socket stops the
  socket task for good, and its keepalive with it (`network/server.rs`:87, against
  `network/mod.rs`:80-83). The run reaches it; `GoneIsNoticed` and the other liveness
  properties except that state (`Wedged`).
- A change that falls between the snapshot and the watch of a pull is lost for as long
  as the pull lives, in the estate as well (`EstateConverges` excepts it by `FellInGap`).
- A record that fails to apply is logged and the marker still says "complete"
  (`network/sync.rs`:92).
- After `close_sync` an update that is still under way looks like a stream the
  peer opens, and makes a responder at the requester (`network/sync.rs`:248).

Relay (`network/stream.rs`):

- The two socket tasks of one server that relays between a client and an agent wait for
  each other once each holds a message for the other's full queue (`dispatch` awaits the
  handler inline, line 321), and so do those of two servers. Nothing fails, and the
  answers never come. `AnswersReturn` excepts it by `Jammed`.
- Notes in `routes` are never removed (line 603).

Resident views (`database/mod.rs`):

- `update` holds its row and waits for the write transaction, `push` holds the
  transaction and waits for the view, the task holds the view and waits for the row.
  `OnlyCirclesJam` says that this circle, or the same with a `remove` in place of the
  task, is the only way to wait for good. It is reachable.
- "Hold onto this transaction until we've created the watch channel so we don't miss
  any updates" (498-499) does not hold: a read transaction stops no writer. The
  variable `missed` names the rows this can happen to, and the properties except them.
- An insert event that comes after an update replaces the pushed cell (the comment at 1333
  says it "shouldn't happen"), and the handle that `push` returned is detached.
- A refused update leaves the cell's revision ahead of the table (916-925): later
  replicated updates of that revision are taken, older ones not, and a later update
  skips a revision. `ShowsTable` excepts such rows (`spoiled`) but for this: an entry that
  is no newer than the record is that record's.
- `push` puts its row into the view (1472) before it inserts and commits: when either
  fails, the row stays in the view. Failures of the database are not in the model.
- The former revision of a temporal row is stored after the new one with the same
  revision number, and its event, taken through `>=`, puts the older value into the
  entry. `ShowsTable` excepts temporal rows.
- `ConnectionData` is temporal: every latency pong (`network/mod.rs`:244) puts a row
  under a new id, and the janitor removes only the first (141-151).
- A handle kept beyond the removal of its row inserts it again when it is updated.

Service runner: a departing task overwrites the `Stopped` that `stop` wrote
(`runner.rs`:286 and 302, against the comment at 203-205); the row is wrong until the
service is enabled again or the process restarts. All tasks of a service share one
notification: one that is departing, or that a crossed call spawns with a token already
cancelled (189-198), may take the request of `run_now` (the `select!` at 234 is unbiased)
and end, and the task that was asked waits for its tick. `AskedPassRuns` is stated for
requests made while no other task runs or is about to be spawned.

Client subscriptions (`sandpolis-client/src/sync.rs`): the first entry is described as
the primary connection (24-26), but `init` (140-155) swaps to every server's connection,
and the last wins. Its comment says the map is cleared "so the views that want them ask
again", and views ask once (`sandpolis-account/src/client/gui.rs`:117-127). A view that
subscribes between the clearing and the swap leaves an entry of the old connection,
which makes its later calls no-ops; `ActiveIsOpen` asks nothing of a stream whose
connection is gone, and `StandingIsServed` speaks of the loop's own subscriptions only.
A subscription that is cancelled while it is Pending, and one that a second settle of
its key replaces, are only forgotten at the client (318-321: `close_stream` sends no
`Close`, and the replaced entry is dropped): the server goes on serving them for as long
as the connection lives. `DroppedEnds` is about Active entries that are closed, and does
not cover it.

Accounts: a process that dies between an account and its links leaves the links
stale until the next change (`sandpolis-account/src/lib.rs`:6-8 says the server
derives them "whenever the account set changes"); startup derives them only if it
imported something. Crossed persists, or a process that dies before its own, leave an
old file, and a restart imports the deleted account from it. `create` does not look for a
duplicate as `seed` does. `RealmConfig::modify` truncates and then writes.

Read, not modelled: an agent whose websocket upgrade fails never dials again
(`sandpolis/src/agent/mod.rs`:117, it waits for a token that only its own connection
cancels). An agent that reconnects as continuous while still shown online keeps its
old deadline, and stays online until then after its socket dies
(`sandpolis-server/src/liveness.rs`:125-135, against lines 5-6).

## 6. What is left

Next, with what each would need:

1. The singleton `Resident`, whose event order is the same with one cell.
2. Closing of relayed streams, once the code sends it on.
3. The device list of `sandpolis-probe/src/management.rs`, which has the
   races of the accounts' config file and hands out the id of a deleted device again.

Not modelled:

- The agent's connection loop: one task that dials and waits, no second actor. What
  can go wrong in it is read off its lines (section 5).
- Liveness and notifications: rows written by one loop each, from the connection view.
- Users and login, realms and certificates: handlers that check a credential and
  write one row; what is hard in them is cryptography, and it is not a matter of order.
- Transports, TLS, platform I/O (desktop, shell, probes, collectors, snapshots,
  deployment, boot agent): what they do is outside of the process, and their state in
  it is a session behind a stream.
- User interfaces, the command line, code generation, the mobile shell and stubs.

By lines these are most of the repository: the model covers the parts whose
correctness depends on the order of steps.
