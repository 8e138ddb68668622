# AgentsAssemble: a verification project

AgentsAssemble is a room server in Rust in which people and AI agents talk. An
agent is a *session*: a row in SQLite, a provider process (Codex, Claude, an ACP or
OpenCode program, a remote model) and an adapter that owns the process. This
directory models what is hard to get right about it: who may speak next and on
which input, what becomes of a turn when it ends, dies, is muted, interrupted or
stopped, who owns a provider process across crashes, and what people, browsers and
external programs may rely on over connections that break. Paths are relative to
the repository root, which the manifest `PROJECT.json` calls `src/`; `p/`, `s/` and
`v/` stand for `crates/agentsassemble-persistence/src/`, `...-server/src/` and
`...-provider/src/`.

## The system

| part | state | operations | who calls it | module |
|---|---|---|---|---|
| **Room turn floor** (`p/room_turn_*.rs`, `turn_authority.rs`, `turn_queue.rs`) | per session: active turn, pending and inflight input, cursor; per room: events, mode, restart barrier | route, assign, complete, vote, decline, fail, requeue, delete | room actor, reconciler | `RoomFloor` |
| **Moderation and lifecycle on the floor** (`p/participant_mute.rs`, `agent_interrupt.rs`, `agent_lifecycle*.rs`, `agent_stop_lifecycle.rs`) | mute flag, interrupt, lifecycle intent and its step | mute, interrupt, prepare, authorize, complete, reject | room actor | `AgentFloor` |
| **Turn execution, interrupt effects, reconciliation, exact-turn slot** (`p/provider_turn_*.rs`, `s/provider_turn*.rs`, `v/runtime_exact_turn.rs`) | execution row, effect row with its claim, slot in the adapter | assign, start, run, commit, interrupt, claim, hand over, reconcile | tasks, actor, reconciler | `ProviderTurn`, `TurnPromise` |
| **Agent custody** (`p/agent_reconciliation.rs`, `agent_create_start.rs`, `agent_pause.rs`, `agent_readd.rs`, `s/agent_create_runtime.rs`) | reservations, session row, slot, clean-up rows | create, start, stop, pause, remove, recover, watch | actor, watch, startup | `AgentCustody` |
| **Process custody** (`v/guardian*.rs`, `runtime_lease.rs`, `unix_custody.rs`, `runtime_recovery.rs`) | lock files, anchor, process group, receipts | launch, hand over, reap, scan | adapter, guardian, next server | `RuntimeCustody` |
| **Commands, publication, subscription** (`s/room_runtime.rs`, `room_socket*.rs`, `event_publication.rs`, `p/command_admission.rs`) | receipts, budget, queue, events, cursor, receivers, tombstones | admit, execute, replay, publish, snapshot, catch up, revoke, delete | sockets, room task | `RoomCommands` |
| **Admission of people** (invites, sessions, pairing, tickets, sign-in, recovery) | invites, rows, sessions, codes, tickets | redeem, retry, revoke, leave, kick, export, recover | HTTP, sockets | `RoomAccess` |
| **Runtime restart** | restart record, server lives, process generations | snapshot, prepare, drain, hand over, recover, fail | operator, supervisor, two server lives | `RuntimeRestart` |
| **Public ingress and stable entry** | controls, tunnel, trust, remote key, ownership lock | start, stop, publish, shut down | operator, tunnel, publisher | `PublicIngress` |
| **Network limits** | permits, leases, rate windows, history pages | acquire, release, read, page | HTTP, sockets | `AdmissionLimits` |
| **Provider drivers** (`v/codex*.rs`, `claude_sdk*.rs`, `acp*.rs`, `opencode*.rs`, `remote_openai.rs`) | turn, outstanding requests, streams | run, cancel, answer, ignore what is late | adapter, external program | `CodexDriver`, `ClaudeDriver`, `AcpDriver`, `OpenCodeDriver`, `RemoteDriver` |
| **Room portal and managed bridge** | observation, tool reservations, connections, exchanges | observe, reserve, execute, relay | drivers, room | `RoomPortal`, `ManagedBridge` |
| **Provider requests** | request rows, live broker, drivers that wait | open, answer, expire, drop, restart | drivers, people | `ProviderRequests` |
| **External AI** | attendee, connector and local attendee sessions | admit, deliver, report, interrupt, leave; wait, say; create, cancel | remote processes | `Attendee`, `Connector`, `LocalAttendee` |
| **Provider operations** | catalog, update and login processes | discover, update, log in, cancel | operator | `ProviderOps` |
| **Room content** | messages, attachments, pins, votes, search index | send, edit, delete, pin, vote, search, expire | members | `RoomContent` |
| **Browser** | command map, view, cursor, socket; side-chat view | send, retry, reconnect, merge | a person | `RoomClient`, `SideChat` |
| Schema, codecs, screens, avatars, preferences, profiles | records | record keeping | | none |

How they meet. Every store method is one SQLite transaction. Each room has one
actor with a bounded command queue; it runs commands inline, one after another, and
awaits the provider inside an interrupt or a stop. Turn tasks run beside it and
report to it. The reconcilers (of turns, of agent lifecycles) are sequential tasks
beside both and read rows that may be stale by the time they act on them; actor and
lifecycle watch claim an exact request before they work on it, the clean-up of a
removed agent does not. The adapter's slot is shared memory under a lock, and is
gone after a crash while the rows stay; the provider's process is outside both, held
by lock files and a guardian process. Browsers and remote programs see only answers
and frames that may be lost, and repeat what they sent.

So the hard behaviours are: transactions of different processes interleaved around
one row; a row and its partner row written at different times; an effect on the
outside world between two transactions; a claim that expires; an answer that is
lost or late, and its retry; a crash between any two steps; a queue at its limit.
`PROJECT.json` lists them at their lines as `hazards`, with the properties that
guard each.

What makes each part correct:

* floor: one speaker in an ordered room, input neither lost nor repeated, queues
  the scheduler can always serve, no idle floor with work for it;
* moderation and lifecycle: a muted agent does not run a turn without an interrupt;
  a start or stop, confirmed or not, leaves a row the floor accepts;
* turns: the two rows stay a pair that somebody can finish, no turn is settled while
  its provider may still act, and every result and interrupt is settled;
* custody: no process runs that no row names, a launch proved gone stays gone, every
  pending command, removal and orphan ends;
* commands: committed once, published to everybody who follows, never to anybody
  who lost his authority;
* admission: what admits is spent once per admission, whoever repeats it;
* restart: nothing works while a restart is recorded, no agent is run twice, the
  server opens again;
* drivers, bridges, requests: everything late is credited to the turn it belongs to
  or to none;
* external AI: a turn enters the provider once however often the connection breaks,
  and what the other side is told is true;
* content and browser: what is shown is what is stored, and what is reported as
  done or failed is so.

## Modules

One module per component. A step of a model is one transaction, one locked section
or one call on the outside world, so that everything the code awaits is a point
where the others may act. A transaction that returns an error changes nothing, so
its action is then not enabled, unless somebody acts on the error. External programs
(providers, tunnel, remote room, operating system) appear as what they may do to the
code, marked external in the map.

The `MC` modules instantiate for TLC. Components that do not share state are checked
side by side in one run: the variable `focus`, chosen at the start, names the
component whose steps a behaviour takes, and the other variables keep one initial
value. `ProviderDrivers` puts the drivers, portal and bridge side by side for their common
property. `MCAgentFloor` and `MCProviderTurn` use `focus` for instances with different
bounds of one module.

### RoomFloor and AgentFloor

State: `log` (canonical messages; the position is the sequence number), `mode`,
`quiescing` (the restart barrier), `session` (the row with its current execution
and effect), `participant`, and `wake` (a committed command that still owes its
`assign_pending_turn`). An action is a whole transaction: `CompleteMessage`, for
example, closes the execution, appends the message, routes it, and runs the
scheduler, which is the operator `Scheduled` over the intermediate rows. Errors that
the whole room shares (an inconsistent row, an unservable queue) are guards
(`RouterAccepts`, `SchedulerAccepts`), and properties say whether a reachable state
can make them false. Where a reply must fit into a size limit, the scheduler may
take any non-empty prefix of the first run of inputs of one kind. Execution phases
are coarse here (assigned, started, quarantined, interrupted); `ProviderTurn` has
them all. `AgentFloor` adds start and stop, and the properties of both.

### ProviderTurn and TurnPromise

State: the durable rows (`turn`, `exec`, `started`, `effect`, `muted`,
`stopping`), the adapter (`runtime`, `bound`, `slot`, `prep`), the turn tasks, and
the two drivers (actor and reconciler) with a program counter, the turn they work
on, the preparation whose latch they hold, and the reconciler's snapshot. `prep`
outlives the slot: a waiter holds the latch of *its* preparation whatever the slot
holds by then. The provider is `Finish`: any result, at any time, or never. A claim
may expire (`Expire`) and a wait may give up (`Unconfirmed`) at any moment, except
that claims expiring under a working owner are counted by `MaxLate`. `Look` takes
the three adapter reads of `reconcile_live_candidate` in one step.

`TurnPromise` is what the rest of the server relies on: turns come one after the
other, end once, are acted on only between authorization and end, and never end
while the provider acts. `KeepsPromise` is its specification under the mapping
`Promise` (open phases to "open", authorized starts, tasks inside the provider).

`Duplicates` states an assumption. The reconciler decides from a snapshot that an
assigned turn has no owner; the task spawned with the assignment may be about to
prepare it. With `Duplicates = FALSE` this window is closed and all properties
hold; with `TRUE` the code's own window is open, and the run `shared_preparation`
shows what follows.

### AgentCustody and RuntimeCustody

`AgentCustody`: the session row with its lifecycle intent, the request reservations,
the clean-up row, the adapter's slot, the launches alive, and the program counters
of actor, watch and clean-up. Commands are scripts of three requests (create, start,
stop, pause, resume, re-add, kick, export); the crash loses slot and counters, and
`Boot` runs the startup pass. A launch may fail before its effect, after it, or
without anybody knowing. `RuntimeCustody` goes below the slot: the launch with its
two lock files, the anchor process, the guardian, the provider and the child it may
leave (`Escapes`), the receipts, and the scans of a later server, across kills,
server crashes and a reboot. Unix only.

### RoomCommands

Two clients with sockets that break, command receipts and write budget, the bounded
queue and its permits, worker notifications, the room task (which may die; it then
stays in the map with a closed channel until a restart), a store that may fail, the
publication cursor with its acknowledgement, snapshot, catch-up, live stream, lag,
revocation, and the deletion of a room with its tombstone, clean-up and a room made
anew under its name. The bounded retry of publication is the code's own
(`docs/specs/local-authority-surface-admission-moderation-slice.md:247`).

### RoomAccess, RoomContent, RoomClient, SideChat

`RoomAccess`: devices that redeem a one-use and a reusable invite, repeat their
request with another credential or id, lose sessions, are kicked, leave or are
exported, recover with codes, sign in, pair and consume tickets. The exact retry of
a one-use invite precedes the gates of the invite, that of a reusable one follows
them (`docs/verification/2026-08-26-human-invite-schema.md:767`).
`RoomContent`: uploads, messages, edits, deletions, pins, votes and ballots, a
channel, expiry, and the search with its pages. Members are fixed and may be muted.
A vote without attachments cannot be pinned, and channel messages go only with their
channel: both as the code has it. `RoomClient`: the browser's socket client against a
server that answers late, is closed, or serves a room made anew. A command
may be refused at any time, for the room is looked at before the stored result
(`s/room_turns.rs:316`) and the write budget is of the moment: the refusal of a retry
says nothing of the copies before it, and `ClientIsTrue` takes "rejected" at its word
only of a command that was sent once, as the client does not
(`docs/specs/local-authority-surface-admission-moderation-slice.md:257`). `SideChat`: retained messages with
eviction and expiry, receipts without durability, the snapshot and the updates as the
browser merges them, repeated sends, process restarts; clocks do not run backwards.

### RuntimeRestart, PublicIngress, AdmissionLimits

`RuntimeRestart`: the restart record, the agents' rows and processes, and up to three
lives of the server with crashes at every step; the last life has no fault and is
asked for nothing. The future of a request is dropped with its HTTP connection, at any
await (`Dropped`; `s/http_transport.rs:55`, `:77`): dropped between the commit of
`quiescing` and the send (`s/runtime_restart.rs:125`) it leaves a restart nobody hands
on. The same operation then gets only its receipt, another one is busy, and admission
stays closed to the end of that life; `AdmissionReturns` excepts exactly this state
(`Stranded`) and shows that a later life repairs it. `abort_runtime_restart` is
unreachable, and no action.
`PublicIngress`: two runtimes that share one remote key and one ownership lock;
publishers that outlive their runtime set the history flag `escaped`.
`AdmissionLimits`: permits, leases, windows and the fitting of a page to a frame.

### Drivers, portal, bridge, requests

Each driver module keeps what its driver uses to tell turns apart (ids, generations,
queues, scopes), the external program being anything that may send what the
protocol allows, late or twice. A late Codex notification after a turn's end and a
late OpenCode idle report after an abort are allowed once. A request written to
OpenCode's loopback server is taken as received before a later one, and a failed
interrupt makes the caller stop the process. An ACP handler may take a token after
`finish_requests`, but holds a cancelled scope. `RemoteDriver` extends `RoomPortal`: an
error result of a tool means that it was not executed. `ManagedBridge`: attachments
are relayed like tools and left out; a worker's death or timeout ends the runtime.
`ProviderRequests`: a turn's end closes its pending rows in the same transaction, a
restart fails them before admission, live broker entries are reconciled after the
next room input, and the store may fail at a completion.

### Attendee, Connector, LocalAttendee, ProviderOps

`Attendee`: the host's rows, two socket tasks, and the client with its runtime, from
admission to leaving; posts are atomic and lost before or after their commit. Its
client process does not die. `Connector`: one conversation over two connections,
local or remote, with repeated calls; expiry of a session is its revocation. The answer
of the room to the hub may be lost, before or after its commit, and so may the answer of
the hub to the conversation: the cursor moves between the two
(`s/connector_client.rs:300`), so a page whose MCP reply is lost
(`docs/specs/external-ai-admission-slice.md:661`) is behind the cursor, no later wait
repeats it, and `ConversationIsTrue` promises no more than that the hub gave it. A
message whose answer was given up may still be in the room's queue. `LocalAttendee`: two operations against a remote room, abstracted to
membership and a running flag. `ProviderOps`: discovery generations, updates, logins
and the processes whose end is not proven; a refresh that joins a discovery which has
read already is marked late (`late`), for it is answered by that reading.

## What the runs check

| run | modules | properties |
|---|---|---|
| `floor` | `MCAgentFloor` | `TurnAuthority` (the fields of a row agree), `ExecutionTracksTurn`, `QueuesServable`, `MutedTurnsInterrupted`, `OrderedFloorExclusive`, `InputConserved`, `FloorNeverIdles` |
| `turn` | `MCProviderTurn` | `PairConsistent`, `SlotServesOpenTurn`, `KeepsPromise` (refinement), `InterruptsSettle`, `ResultsSettle` |
| `agent` | `MCAgentCustody` | `AuthorityHolds` (row, reservation and process agree), `RemovalEndsRuntime`, `LifecycleResolves` |
| `room_commands` | `MCRoomCommands` | `NothingMissed`, `CommittedOnce`, `RevokedIsOut`, `DeletedWhenQuiet`, `SubscribersCatchUp` |
| `custody` | `MCRuntimeCustody`: `RuntimeCustody`, `ProviderRequests`, `Attendee` | `CustodyHolds`, `OrphansEnd`; `RequestsSettle`; `EachTurnOnce`, `AbsenceIsTrue`, `RoomSettles` |
| `peers` | `MCPeers`: `RoomAccess`, `RoomContent`, `RoomClient`, `SideChat`, `Connector`, `LocalAttendee`, `ProviderOps`, drivers, portal, bridge | `AdmissionHolds`, `ContentIsTrue`, `ClientIsTrue`, `SideChatTrue`, `ConversationIsTrue`, `SettledIsTrue`, `RefreshFollowsEffect`, `OwnTurnOnly`, `SafeToRepeat` |
| `host` | `MCHost`: `RuntimeRestart`, `PublicIngress`, `AdmissionLimits` | `TargetsFrozen`, `NeverTwice`, `AdmissionReturns`; `IngressIsTrue`; `LimitsAreExact` |
| `turn_refused` | `ProviderTurn` | violation of `ResultSettles` |
| `shared_preparation` | `ProviderTurn` | violation of `KeepsPromise` |
| `absence_fenced` | `MCAgentCustody` | violation of `ErasedIdentityUnfenced` |
| `exported_returns` | `MCRoomAccess` | violation of `ExportedIsFinal` |
| `stale_refresh` | `ProviderOps` | violation of `RefreshSeesEffect` |

Each property is stated in English above its definition. Each property of a
passing run has a mutant: a definition with a plausible bug (they are marked
`Mutant` in the modules) under which TLC refutes the property.

## Bounds

A bound is a constant of its module, or `Within`/`Messages` of its MC module.

* **floor**: two agents are enough for every pairwise rule, since the choice among
  candidates compares two rows at a time. Two messages give an inflight and a pending
  input (focus `messages`, in one mode throughout), the focus `lifecycle` has one message,
  a start and a stop of the agent that may be muted, and changes of mode, the focus `backlog` has one running agent beside a stopped one and three messages,
  which a requeue behind newer input and a full queue need. The code's 256 and 50 are
  `MaxQueue = 2` and `MaxBatch = 2`. Sessions are numbers because the scheduler breaks
  ties by id, so no symmetry is used.
* **turn**: one fault of each kind (restart, refusal, late claim, stop) on one turn
  (focus `faults`), a second turn, which a stale process can hurt (`second`), and the
  fault-free instance with fairness (`progress`). Two tasks: recovery adds one.
* **agent**: scripts of three requests, two launches, one crash, one store fault, one
  launch whose end cannot be proved.
* **room_commands**: queue capacity 1, two commands in flight, receiver buffer 1,
  catch-up page 1, write quota 2, two publication retries: each limit is met.
* **custody**: two launches, two server crashes, one reboot, one kill from outside;
  two requests of one session, two answers, a limit of one live request, two
  turns; two connections, two turns, one order (interrupt, stop or removal), one loss.
* **peers**: two devices, an invite of each kind (limit 3 of the reusable one), two
  credentials, ids and seats (a script with one admission asks for it in one way); two attachments, one channel, two texts and options, at
  most three or four events; one browser command with two attempts, three sockets, two
  rooms, one fault; one side-chat send, one retained message, two lives (an instance
  with two sends was checked once); three events and one loss of a connector's room (its own answers are lost freely); two
  local attendees, one loss; two versions, refreshes and runs of a provider; two turns
  of every driver (of Claude one), and two or three requests or tools.
* **host**: two agents, two operations, two builds, three server lives, one agent
  command beside the restart; two runtimes with three origins; limits of one to four
  with windows of two ticks.

## Fairness

Fairness is assumed of tasks the code runs in a loop or awaits with a deadline, never
of people, providers, connections or losses.

* `MCProviderTurn` (focus `progress`): weak fairness of the actor (its waits have
  deadlines), of the reconciler (its tick never stops) and of the expiry of claims.
  Crashes are excluded because a result in memory dies with the process and the
  successor may find the old runtime neither gone nor adoptable for ever
  (`Inconclusive`), which the design accepts. Claims that expire under a working owner
  are excluded too: with `MaxLate = 1` and a runtime that stops by itself, the pair
  claimed / interrupt_pending is refused by the hand-over, by `begin_exact_turn` and by
  the failure transaction, and the reconciler retries without effect. That takes a
  30-second pause of the actor between two transactions (`s/provider_turn.rs:287`).
* `AgentCustody`: weak fairness of the actor, of a started watch pass, of orphans'
  ends and of the boot after a crash; strong fairness of the watch's load, claim and
  clean-up, which a command may keep interrupting but which come back every tick.
* `RoomCommands`: weak fairness of the room task, the workers, the clean-up, the
  sockets and the enqueueing of an admitted command; strong fairness of the request
  that finalizes a deletion, which is repeated until it is accepted.
* `RuntimeCustody`: the guardian of a launch makes progress.
  `ProviderRequests`: the drivers' steps, the room task's inputs, the deadlines, the end
  of a turn whose driver calls returned. `Attendee`: host clean-up, socket tasks, client,
  posts, quiescence, tool.
* `RuntimeRestart`: the steps of a life and of its recovery, the answering of a
  request that is not dropped, the guardian, authorization, launch and completion of a
  command; strong fairness of the exit of a life that is closing, since after the cancel
  each connection answers one request more at most (`graceful_shutdown`).

`RoomAccess`, the drivers, `Connector`, `LocalAttendee`, `PublicIngress`,
`AdmissionLimits`, `RoomContent`, `RoomClient` and `SideChat` state safety only.

## Findings

Each is a run with `expect: violation`, quoted in full in `PROJECT.json`.

1. `turn_refused`: a completion is two transactions; when the second is refused, the
   first cannot be repeated and the retained result is never committed.
2. `shared_preparation`: two tasks of one assigned turn; the refused one writes
   not-started proof over the other one's preparation, and the turn is ended while its
   provider runs it.
3. `absence_fenced`: a recovered and refused start leaves a row without identity that
   still demands recovery; a later clean-up of it is never finished.
4. `exported_returns`: a guest removed for good returns with a reusable invite.
5. `stale_refresh`: an update completes with a catalog read before it.

Further divergences, seen while modelling and expressed as exceptions of a property or
as a weaker property:

* an unconfirmed start of a busy session leaves a turn on a disconnected row
  (`p/agent_start_failure.rs:324`), and routing in the room then fails; `TurnAuthority`
  excepts `StartUnconfirmed`;
* an ambient room with two speakers that becomes ordered has two active turns, against
  "Exactly one room turn may be active." (`docs/specs/agent-session-slice.md:249`);
  `OrderedFloorExclusive` is what does hold;
* a mute of a quarantined turn leaves an interrupt no transaction accepts
  (`p/provider_turn_effect.rs:176`); `PairConsistent` excepts `QuarantinedClaim`;
* the observation of a vacant slot (`v/runtime_observation.rs:44`) against
  `docs/specs/agent-session-slice.md:254`;
* a connector runtime without a hub entry (`s/connector_runtime.rs:61`,
  `connector_hub.rs:71`) against `docs/specs/external-ai-admission-slice.md:757`;
* a connector command or a side-chat send whose answer was lost is told "rejected" on
  its retry when the session was revoked, or the sender muted, meanwhile
  (`p/side_chat.rs:201`); `SaidOnce` and `SideChatTrue` allow for it;
* a restart stays recorded and is not handed on when its connection is dropped at the
  wrong moment (above), until that process ends;
* an attendee's interrupt or mute that commits while a turn or a report is on its way
  is answered by a refusal, after which the client ends its session and leaves.

## What is proved

Eight modules hold theorems. Each proof of an invariant has the same plan: the
property is implied by an inductive invariant, `Init` implies that invariant, every
action keeps it (one step per action, under it one per conjunct the action can
disturb), and the last step is temporal. TLC checked each inductive invariant on the
instance of the run before it was proved. The theorems hold for every value of the
constants that the named assumptions admit; the assumptions say no more than that
bounds are natural numbers, that a code's "none" is not an identity and that sets
which name different things are disjoint.

| module, specification | assumptions | theorems |
|---|---|---|
| `AgentFloorProofs` (`AgentFloor!Spec`) | `SessionsAssumption`, `BoundsAssumption`, `ManagedAssumption` | `FloorInvariant`, `TypeCorrect`, `ExecutionTracking`, `MutedTurns`, `OrderedExclusion`; `QueueInvariant`, `TurnAuthorityHolds`, `QueuesAreServable`, `InputIsConserved`, `FloorProgress` |
| `ProviderTurnProofs` (`ProviderTurn!Spec`) | `BoundsAssumption`; from `ExactInvariant` on `~Duplicates` | `TurnInvariant`, `TypeCorrect`, `PairsAgree`; `ExactInvariant`, `PromiseKept`, `SlotIsServed` |
| `HostProofs` (`RuntimeRestart!Spec`, `IngressSpec`, `OpSpec`, `ScSpec`) | `RestartBounds`; `IngressConstants`; `ScAssumption` | `RestartInvariant`, `RestartFreezesTargets`, `RestartNeverTwice`; `IngressInvariant`, `IngressTruth`; `OpsInvariant`, `RefreshIsTrue`; `SideChatIsTrue` |
| `SessionCustodyProofs` (`AgentCustodySpec`) | `AgentCustodyAssumption` | `SessionInvariant`, `RowsAreAuthority`, `RemovedStaysDown` |
| `CustodyProofs` (`CustodySpec`, `AtSpec`, `LaSpec`, `CnSpec`) | `CustodyAssumption`; `AtConstants`; `LaNames`; `CnAssumption` | `CustodyInvariant`, `CustodyIsHeld`; `AtInvariant`, `AtEachTurnOnce`, `AtAbsence`; `AttendeeInvariant`, `AttendeeSettled`; `ConnectorInvariant`, `ConversationTrue` |
| `DriverProofs` (`CxSpec`, `ClSpec`, `AcSpec`, `OcSpec`, `RdSpec`, `RpSpec`) | `CxAssumption` | `CodexInvariant`, `CodexTrue`; `ClaudeInvariant`, `ClaudeTrue`; `AcpInvariant`, `AcpTrue`; `OpenCodeInvariant`, `OpenCodeTrue`; `RemoteInvariant`, `RemoteSafe`; `PortalInvariant`, `PortalTrue`, `RemotePortalTrue` |
| `BridgeProofs` (`MbSpec`, `DriversSpec`) | `MbAssumption`, and those of `DriverProofs` | `BridgeInvariant`, `BridgeTrue`; `DriversOwnTurn` |
| `RoomProofs` (`RoomCommandsSpec`) | `RoomCommandsAssumption` | `RoomInvariant`, `SubscribersMissNothing`, `CommandsTakeEffectOnce`, `RevokedStaysOut`, `RoomsGoQuietly` |

### The floor

`FloorInv` is `TypeOK` and, for every session, `RowInv` of its row and participant. The
properties alone are not inductive, because the phase of an execution, the interrupt and
the lifecycle intent constrain each other; `RowInv` says how. It speaks of one row at a
time, which is what makes it inductive although a transaction may rewrite every row of
the room: router and scheduler change a row only into one described by `AssignedFrom`
or `SameTurn`. `StepShape` says of any step that its rows come from good rows through
at most one run of the scheduler; `EveryStepShape` shows it action by action. The
exclusion of the ordered floor follows from it and from lemmas about the scheduler's
operators: the batch is a non-empty prefix of one kind, the filtered queue selects from
the old one, the earliest candidate exists and is unique in an ordered room.

`QueueInv` adds what the queues hold. A transaction rewrites rows by hand, then may
append a routed message, then may run the scheduler; the relation `Moved` says of these
three stages together what both the invariant and `InputConserved` need, so an action
only has to be put into that form. `TurnAuthority` needs one thing more than its own
fields: in which phases a runtime is held (`RowRuntime`). `FloorNeverIdles` is an
action property: where the scheduler runs, its candidate is the earliest session that
is ready, so nobody is left in front of a free floor; where it does not, the step frees
no floor, makes no session ready, owes a wake, or is an exception the property names.

### Provider turns

Three layers. `TurnInv` holds whatever the reconciler hands out: the start of a turn is
authorized to one task (`OneAuthority`), provider I/O happens in the slot of a running
runtime, the two rows fit each other, and each driver's snapshot is of a turn that was
open. `ExactInv` adds what is true when no assigned turn is handed out twice: one task
and one preparation per turn, and whoever releases a slot or holds not-started proof
has seen that task give up its authority. `PromiseKept` then maps every step to a step
or a stutter of `TurnPromise`. `ServeInv` follows an ended turn to its slot: a stop is
committed as a stop, a slot is released while the runtime runs and vacated when it does
not, and a stop that finds the runtime stopped by a turn finds that turn's task.
`~Duplicates` is a hypothesis and not a detail: with `Duplicates` the run
`shared_preparation` refutes `KeepsPromise`.

### Restart and ingress

`RestartInv` ties the restart record, the rows and the processes together. Under a closed
record no agent works; while the life that wrote it serves, no agent is on its way to a
turn and the recorded targets and pauses are what the rows say; a stopped row has no
process, and a starting one has none while somebody may still launch it, save the one
recovery launched itself; recovery starts only its targets. `NeverTwice` is an action
property from it.

`IngressInv` has four parts. The newest control is the last that took effect, a watched
tunnel that is not cancelled is the work of a start, and trust needs one
(`ControlHolds`); a stable operation belongs to the publication or the clearing that
waits for it (`OperationHolds`); the remote key is written by the owner, under the lock
(`LockHolds`); what an owner shows, has cleared or has shut down cleanly is what the key
holds, unless a publisher escaped (`EntryHolds`).

### Provider operations, local attendee, remote driver

`OpsInv`: a generation is asked for, taken by a discovery and completed in that order, and
what is published was read before what the discovery under way has read, and that before
the world of now (`CatalogHolds`); so a request that was not late has a generation above
every reading made before its effect, and what completes it has seen it (`Answers`).
`AttendeeInv`: an operation works on the invitation of its receipt, has no runtime before
its start, has not used the invitation on its first attempt to join, and is called
stopped or failed only by an end that left nothing behind. `RemoteInv`: nothing can come
of a turn reported safe to repeat, nor of one whose `uncertain` flag is down; while a
call is out whose refusal would take the flag down again, that call alone can have an
effect.

### Session custody

`CustInv` of `SessionCustodyProofs` follows the row, its reservation and its process
through actor, watch and clean-up. The fields of an intent come and go together with the
one pending reservation (`BooksHold`); what a fresh owner has loaded is the stored row
(`CopiesHold`), for whoever commits makes the others stale; a recorded stop, and an
absence a fresh owner is about to commit, is one (`EvidenceHolds`); and while the actor
may begin a launch the row names it, there is no clean-up row, and a watch that loaded
the row meanwhile has not claimed it or can stop nothing (`LaunchGuarded`). The last is
what makes `NamedRuntime` inductive: a launch is authorized in one transaction and made
after it, and nothing but this keeps the row from being rewritten in between. Of each
step three things are shown, action by action: what it does to the rows (`RowsMove`), to
the runtime (`WorldMove`) and to the evidence an owner acts on (`ControlMove`).
`RowsAreAuthority` is part of the invariant; `RemovedStaysDown` needs, beside it, that an
exported agent whose clean-up is over has neither identity nor intent.

### Process custody

`CustodyInv`: both lock files name the newest launch, every held lock names its launch,
and a receipt or the evidence of a scan implies that the launch is over. Over is
absorbing, which is why absence proved once is absence for good.

### Attendee

`AtInv`: what the client runs is what it was given last; a turn in flight that is newer is
the one the room has open; a report in flight is of a turn that was given and runs no
more. Most steps change none of this (`AtFrame`); a turn assigned, entered, published or
rolled back and an interrupt taken have a proof of their own.

### Connector

`ConnectorInv` says that every cursor is within the log, that an admitted client is the
one the invitation was consumed by, that a message has one place in the log, and that
what a conversation was told of its messages is so. Nothing of the log is ever
rewritten (`Grows`), so what is behind a cursor stays what it was (`OthersStay`): so
the answer that moves the cursor over a stretch carries all of it, an answer of the room
that was lost left the cursor behind, and no answer carries what an earlier one did. What
was heard (`Heard`) and what was said (`SaidOnce`) share nothing but the log, and are
shown apart; a message left in the queue is one more way to the same store.

### Drivers

Each driver has an invariant of its own about what may still be under way.
`CodexInv`: whatever stands in a pipe or in the driver's queue names a request below the
next identifier, and only the answer to the pending `turn/start` can open a turn, which is
then the one the app-server started for it (`AnswersTold`, `OutputsTold`). `ClaudeInv`:
while nothing failed, one relation (`Row`) says for every question where host, driver and
room are, given what both pipes carry of it; as in the bridge, the order within a pipe is
part of it. `AcpInv`: a finished turn was cancelled before, so no handler of it is given
an answer. `OcInv`: answers are recorded with the prompt they answer, a connection that is
neither poisoned nor in a turn leaves no prompt at work, and a session is made only while
its creation was never in doubt. `PortalInv`: a queued call waits, a reservation is held by
the observation that took it, and an observation that ended is never open again.
`DriversOwnTurn` puts them together: the drivers share no state (`DriversSpec`), and the
portal keeps `ToolsWithinTurn` both by itself and under the rounds of the remote driver.

### The side chat

`ChatInv` says that there is a history, of what each lifetime of the room posted, of
which the retained messages, the queue, the buffer, the snapshot and the view each are an
interval; a post extends it and nothing rewrites it (`Grows`), which is why two intervals
that meet merge without a gap (`MergedIs`). While the subscription delivers, buffer and
queue are one run up to the room's latest (`LiveOk`). A send that was posted is still
retained, or the floor has passed what its author had seen (`Sent`). The history is
bound in the invariant and is no state; TLC checked the rest of it over the intervals.

### The managed bridge

`BridgeInv` says that no side has met anything unexpected, and why. Three relations name,
for a tool (`ToolStands`), a request (`RequestStands`) and the call of the turn task
(`CallStands`), every combination of where the two sides are and what both pipes carry of
it: a message in a pipe is on its way from one named place to another. With the orders
within a pipe that the combinations do not fix (`PipesHold`), the head of a pipe is
then always one the reader expects in the place it is in. The relations are over sets of
operation names and not over pipes, so that a step on one exchange leaves those of the
others alone (`OthersKept`), and reading or writing a message adds or takes one name.

### Room commands

`RcInv` has three parts. The books: every event of a client is accounted for by a stored
result or a tombstone, under an identity no other event has, and every result is in the
log. The sockets: what the room task sent beyond what a connection delivered is in its
receiver, is checked next, or is within the range of its catch-up. The guests: what can
reach a session in force is in the log, and what can still reach one that ended was in
the log when it ended.

### Only model-checked

* `AdmissionHolds` of `RoomAccess` and `ClientIsTrue` of `RoomClient`: not yet proved;
* `ContentIsTrue` of `RoomContent`, which counts the bytes of a set of attachments and the
  ballots of a set of members with folds over sets: induction over data;
* `LimitsAreExact` of `AdmissionLimits`, whose pages are a recursive definition;
* every liveness property: fairness and `ENABLED` are outside the prover's reach, and so
  is induction over data with a parameter operator (`KeptExists` of the floor does the
  one induction that is needed by hand, from the least counterexample).

### Conventions the proofs rely on

The models are written so that tlapm reads them as TLC does. Two updates of one index are
nested (`[f EXCEPT ![i] = [@ EXCEPT ...]]`) and not chained; the guards of a `CASE`
exclude each other; a leaf about sequences is proved apart from the leaves about the
records that hold them, by Zenon where it can be. Inside a proof a record with its
`EXCEPT` is a `DEFINE` whose fields are stated once and which is then hidden.

## Not modelled

* Schema, migrations and row codecs: declarations without control of their own.
* Payloads: prompts, message text beyond its identity, model options, the wire formats
  of the providers, the generated wire types, frame validation.
* Cryptography of tokens, invite preflight, the limiter of recovery attempts, friends,
  profiles, personas, role changes, labels, appearance, avatars and preferences: record
  keeping behind one transaction each.
* The ages of the provider catalog, credentials, usage and the parsing of models.
* Windows job objects (`RuntimeCustody` is the Unix custody), the death of an
  attendee's client process, the relay of provider requests and attachments of an
  attendee, `room_read` of a connector without resynchronisation.
* Screens and the desktop shell beyond the supervisor of a restart.
* Sequence numbers of control events, which the floor never compares; provider ids,
  nonces and lease tokens, abstracted to generations and tokens.

The components that do share state meet in one module or run where their interplay is
the hazard (floor and lifecycle, task, actor and reconciler, commands and
subscription, remote driver and portal); elsewhere each is checked against what the
other may do to it. See the `components` of `PROJECT.json` for the status of each.

## Plan

Done: the modules above, the refinement `KeepsPromise`, and the proofs of the table.

What is left are proofs, in this order:

1. `AdmissionHolds` of `RoomAccess`, mostly one transaction per step;
2. `ClientIsTrue`, whose invariant relates answers under way to what both ends remember,
   as `AtInv` does.
