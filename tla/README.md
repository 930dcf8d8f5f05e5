# A TLA+ model of the OpenAgent CLI

The OpenAgent CLI is a Python terminal client of an OpenAgent gateway. It signs
this device in to a network, reaches a gateway over peer-to-peer QUIC streams,
holds a chat and a terminal with an agent, and lends the agent the tools of this
computer. This directory holds TLA+ modules of its concurrent,
persistent and interactive parts, TLC configurations that check them on small instances, and proofs about
them checked by TLAPS.

Paths below are those of the repository: `client.py`, `main.py` and so on are in
`src/openagent_cli/`; "the transport" is `src/openagent_client_transport/`, a
vendored library that repeats much of the CLI's `network/` with later fixes. The CLI
imports its own copy; the transport's pool and identity file are reached by the tests only.
What is modelled of both is said to be of both, with the copy as a parameter.

## 1. Inventory

### Gateway client: chat turns (`client.py`, `main.py`)

*State*: the WebSocket, the listener task, the sessions opened on this socket, one
collector per session that waits for an answer, one future for a slash command;
in the REPL the turn's SIGINT handler and its `interrupted` flag.
*Operations*: `send_message` (session_open on first use, then text, then wait),
`send_command`, `send_interrupt`, `_listen`, `_fold_wire_frame`, `disconnect`.
*Interaction*: the REPL awaits a turn; the listener folds frames into the
collector and sets its event; Ctrl-C comes through the loop's self-pipe and makes
a task of its own.
*Hard*: the order in which callbacks became ready on the loop decides whether an
interrupt overtakes the next prompt; the listener may end at any frame; a send may
suspend in the middle of a turn.
*Correct when*: a reply is made of its own turn's frames, collectors never outlive
their turn, sessions are opened once and first, whoever waits is released.

### Local capability link (`client.py:529-797`)

*State*: the host, the bridge and WebSocket of the current link, the listener,
heartbeat, supervisor and closer tasks, a `stopping` flag.
*Operations*: start, dial with hello and acknowledgement, supervise with back-off,
close, stop; the host reports the loss of its transport.
*Hard*: five tasks hold the same link across awaits, and each can be cancelled at
each of them. *Correct when*: one link at a time, served by its own tasks; nothing
is left after `disconnect()`, which returns; a lost link comes back.

### Gateway connection pool and loopback proxy (`network/client/session.py`, two copies)

*State*: one QUIC connection per gateway, a lock; the proxy's listening socket and, for
every local connection of aiohttp, a handler with two pumps. *Operations*: open a
stream over the pooled connection, evict, dial again, close; accept, pump, stop.
*Hard*: requests fail and evict at the same time; `disconnect()` stops proxy, dialer and
node while requests are dialling, and `stop()` waits for handlers from Python 3.12 on.
*Correct when*: no connection is forgotten, a retry does not meet the connection that
failed, a dead connection leaves the pool, nothing is dialled after the close, stopping
returns.

### Login and the client's life (`network/client/login.py`, `client.py:240-533`, `main.py:640-1120`)

*State*: the account, invites and device rows at the coordinator, a login in progress there;
the row and the certificate on disk; what the process has taken: node, dialer, proxy,
session, socket, listener, capability link. *Operations*: the RPCs, `register`,
`login`, `list_agents`; `connect` with a ticket or a handle, the one-shot commands, the
member commands, `agents`; `from_network`, `connect()`, `disconnect()`. *Hard*: any RPC may
fail before or after the coordinator has acted; Ctrl-C and kills between any two
steps; certificates expire. *Correct when*: what fails or returns has released all it took,
what is stored is true at the coordinator, an account can always be used later.

### Operational API (`remote_api.py`)

*State*: the cached capability answer and whether it may be kept; the cursor, the
pages and the cursors seen of a collection. *Operations*: read capabilities, require a
feature, collect pages. *Hard*: the server boots, indexes and degrades while the
client lives, its data change between two pages, cursors may repeat. *Correct when*: what
is missing for a while is answered as retryable and found later; a collection ends, and one
that ends well is whole and mixes no pages that name different snapshots.

### The interactive loop: sessions, titles, menus (`main.py:1783-3609`)

*State*: the map of sessions and labels, the active one, whether a shared terminal is
attached and which of its messages are on their way; in a menu, the rows as they were
printed. *Operations*: /new, /switch, /rename, /delete, /file, a message with its automatic
title; nine menus.
*Hard*: other clients rename chats and work in the same menus, requests are refused or lost
after the local state has changed, a message of a shared terminal is sent by a task that asks
for its chat, names a missing one and posts while the user types on.
*Correct when*: a chosen title stands once the server has it, a chat deleted with nothing on its
way to it is not made again, an old list brings back nothing but what a form sends along.

### Shared-session terminal (`shared_repl.py`, `collaboration.py`, `main.py`)

*State*: the session on the screen, its observer task, the last snapshot, how much
was rendered, a task for every message typed. *Operations*: switch, submit, stop,
close; the observer's history request, socket, reconnection.
*Hard*: switching while the old observer is suspended, repeated snapshots, messages
in flight when leaving. *Correct when*: one observer, every character once, stops
that name a run of their session, the view catches up, leaving ends.

### Terminal bridge (`main.py:1640-1780`)

*State*: stdin's mode, the reader and signal handler on the loop, the frame handler,
an event with its reason. *Operations*: open, forward keys, resize, end.
*Hard*: each chunk typed is a task; the event may be set by a frame of a connection
that is gone. *Correct when*: keys arrive in order and before the close, the bridge
ends with its shell or its connection.

### Device identity file (`network/identity.py`, two copies)

*State*: `identity.key` in one of its formats, temporary files, the key in memory.
*Operations*: read, migrate an old format, generate and publish.
*Hard*: processes that start together, kills between system calls.
*Correct when*: no half-written key is published, all go on with the key on disk.

### User store (`network/user_store.py`, `main.py`)

*State*: `networks.toml`, the cached certificates, the copy each command holds.
*Operations*: load, add, remove, save; the commands connect, logout and use, and the
renewal of a certificate. *Hard*: load and save are far apart, one temporary name,
kills. *Correct when*: what was joined stays until logged out, what was logged out
is gone, the active network exists, the file is whole.

### Not modelled

| Component | Where | Why |
|---|---|---|
| Coordinator RPCs without a caller | `agent_login`, `fetch_network_info` in `network/client/login.py` | no command of the CLI reaches them |
| SRP arithmetic | `network/coordinator/pake.py` | groups of 2048 bits are out of reach; the order of its messages is in `CoordinatorLogin` |
| Certificate and ticket bytes | `network/auth/device_cert.py`, `network/ticket.py` | encodings without state; a certificate is missing, fresh or expired, a ticket has a role |
| Protocol handlers, `AgentDialer` | `network/iroh_node.py`, `network/client/session.py` | the CLI registers no handler and makes no such dialer; node start and stop are in `ClientLifecycle` |
| Stream codec, events, batched collector | the transport's `stream/` | no file of the CLI imports them; its own folding is in `ChatLoop` |
| Moving, restoring and the history of vault notes; usage, context, configuration | `main.py` | forms or reports over single requests without a row to choose |
| Consent commands, output, argument parsing | `main.py` | one external call each, or wording |
| Packaging scripts | `scripts/` | build tooling, no state of the client |

## 2. Modules

| Module | Models | Its run |
|---|---|---|
| `ChatLoop` | chat turns, Ctrl-C, listener | `chat` and a violation |
| `TurnContract` | what the chat promises: the abstract specification `ChatLoop` implements | `chat` |
| `CapabilityLink` | local capability link | `cap` |
| `ConnectionPool` | both copies of the pool | `transport` |
| `LoopbackProxy` | the proxy's handlers and `disconnect()`, over `ConnectionPool` | `transport` |
| `CoordinatorLogin` | the RPCs and the calls made of them | `connect` |
| `ClientLifecycle` | the commands that open a gateway, over `CoordinatorLogin` | `connect` |
| `RemoteApi` | capability cache, feature checks, collections | `api` |
| `ReplMenus` | the menus of several users over one table | `repl` |
| `ReplSessions` | the interactive loop, over `ReplMenus` | `repl` |
| `SharedTerminal` | shared-session terminal | `shared` |
| `TerminalBridge` | terminal bridge | `terminal` |
| `IdentityFile` | both copies of the identity file | `identity` and a violation |
| `UserStore` | user store and its commands | `store` |
| `ChatLoop_proofs`, `CapabilityLink_proofs`, `ReplSessions_proofs`, `UserStore_proofs`, `SharedTerminal_proofs`, `TerminalBridge_proofs` | theorems about the module they are named after and those it extends | |
| `Requests_proofs` | theorems about `LoopbackProxy` with `ConnectionPool`, and about `RemoteApi` | |
| `Membership_proofs` | theorems about `ClientLifecycle` with `CoordinatorLogin`, and about `IdentityFile` | |

Each run has an `MC` module. In all of them an action is what the code does between two
points where others can run: two awaits on the event loop, two system calls for
files. Operators that start with "Mutant:" in their comment are wrong variants of
the one that follows; a run is repeated with each to see that its properties notice.

**ChatLoop.** `ready` is asyncio's queue of callbacks, first in, first out; every
`Run...` action takes its head. `pc` is the REPL coroutine, `stage` the
`send_message` task, which goes from `SendOpen` to `SendText`, `AwaitDone` and
`TurnDone`; `TextSendFailed` and `EndTurn` are its `except` and `finally`. A press is
a `pipe` callback, which becomes `sigint` if a handler is installed and then the
`intr` task: the three hops that let the prompt overtake the interrupt. `ListenFrame`
and `ListenEnd` are `_listen`, including its release of those who wait. A frame
carries the turn that caused it, a history that no code reads. The gateway is external:
it runs one turn at a time and answers an interrupt with a terminal frame.

**CapabilityLink.** `main` walks through `connect` and `disconnect`, `sup` through
the supervisor, `dial` through `_connect_capabilities_once` on behalf of either,
`closing` through `_close_capability_connection`. Tasks are scheduled in any order,
which includes the loop's.

**ConnectionPool, LoopbackProxy.** `req[r]` walks through `open_gateway_stream`; `first`
remembers the connection that failed. `redials` says which of the two copies runs and is
chosen by the initial state. Connection numbers are used again once forgotten. The proxy's
`link[r]` has the local socket, the two pumps and the gateway's half of the stream;
`proxy` walks through `disconnect()`. `waits` is the Python version's `wait_closed`. The
initial state leaves out the transport's copy under a Python that does not wait, to keep
the instance within reach: this program runs the CLI's copy, and that one is checked under both. The
invariants alone hold of all four.

**CoordinatorLogin, ClientLifecycle.** `call` holds the RPCs a call has still to make; each
dials, opens a stream, waits and closes. The service is external and modelled by what the
client's calls and their comments rely on. `proc` walks through a command, `held` is
what it has taken, `disk` the row and the certificate. `Release` takes one resource at a
time from the last to the first, which `disconnect()` and the `except` block of
`from_network` do. `calm` says that from now on nothing fails: the premise of `AccountGetsIn`.

**RemoteApi.** A capability answer is a record of the fields the client reads; `Booting`,
`Indexing`, `Complete` and `Degraded` are those of a canonical server, taken from the cases
`_require_feature` distinguishes. A page is a snapshot and a position, and its cursor is the
page that follows. The server may answer with a page of a newer snapshot, leave out of a
page which snapshot it is of (`named`), and send with any page, the first one too, the cursor
of a page up to it. Snapshots are compared, as in the code, only where both pages name one; a
query without a cursor remembers none for its first page. `twice` and `stray` are histories:
the places taken a second time, and whether a cursor went back.

**ReplMenus, ReplSessions.** All menus share one shape: list, ask, one request, list
again. A menu is therefore the set of its operations, and an operation the fields that its
request names; `kind` is the menu that is followed, since each has a table of its own. In a
form the user may change some of its fields, and the request sends the others as
they were printed (`Body`): `Resent` are the fields such forms of the menu send along, of which
`WhatWasMeantStands` says nothing. `meant` records what each user meant, field by field. The
loop's menus run in its place (`loop = "menu"`), and what other users do matters to it only
then; what a turn does is in `ChatLoop` and `SharedTerminal`. `label` is what the loop believes of a
title, `chats` what the server has. `tasks` are the messages and slash commands of a shared
terminal, each by the number of its command: it asks for the chat (`Asked`), names one that is
missing (`Named`), posts (`Sent`), or is dropped before or after the server has seen it. They
run while the loop goes on, but not during a question of a menu, which holds the thread. Three
histories say what can be asked of them: `named` are the chats the user has named,
`taken` those of them whose name the server took with no naming request under way, `removed` the
chats it removed with nothing under way to them.

**SharedTerminal.** `obs` is the observer of each session, `task` the task of each
message. The server's snapshot has the run under way and the length of a transcript
that only grows; it may withdraw access and give it back, and then the observer
goes on with an empty view (`shared_revoked`). The history of commands is rendered before the
socket is dialled. `shown` counts what was written since the view was opened or last
withdrawn, to compare with `printed`. `ensure_session` is the two steps of `Ensured`; what it
does to titles is in `ReplSessions`.

**TerminalBridge.** `now` and `later` are the callbacks of this iteration of the loop
and of the next. A task writes its frame in its first step.

**IdentityFile.** One action per system call. `Linking` names the processes that run
the transport's copy, which publishes with `link`; the others replace. A key is named by
the process and attempt that made it.

**UserStore.** A command loads into `mem`, works, and saves: `OpenTmp` truncates the
one temporary file, `WriteTmp` fills whatever inode it holds, `Rename` publishes. Inodes
are explicit because a writer may hold what another has already published. `joined` and
`out` are what users were told; `overlapped` remembers that two commands have run at
the same time.

## 3. Runs

| Run | Bounds | Shows |
|---|---|---|
| `chat` | 2 sessions, 2 turns, 1 press, 1 frame in flight beyond terminal ones | replies, sessions, collectors, contract; whoever waits returns |
| `chat_stale_interrupt` | 1 session, 2 turns | fails: an interrupt stops the next turn |
| `cap` | 3 connections at a time, 3 host losses | one link, its own tasks, quiet after `disconnect`, which returns; link restored |
| `transport` | 2 requests, 4 connections at a time, both copies, both Pythons | nothing orphaned; a retry uses another connection; the dead leave; nothing dials after the close; stopping returns |
| `connect` | 2 passwords, 2 invites, 3 RPC connections open | a command that ends holds nothing; what is stored is true; an account gets in |
| `api` | 3 pages, 2 snapshots, named or not, cursors forward and back | temporary is retryable, the index is found, collections are whole and end |
| `repl` | 2 clients, 1 row, each menu in turn, 1 stored chat, 1 new one, 3 commands | an old list brings back only what a form sends along; chosen titles stand; deleted chats stay deleted |
| `identity` | 3 processes, one of them replacing, each killed once | the winner is returned, permanence, no half key, no leftovers |
| `identity_race` | 2 replacing processes | fails: one goes on with a key that is not on disk |
| `shared` | 2 sessions, 1 message, 1 foreign run, 2 faults (lost sockets, failed history requests, withdrawals), 1 frame in flight | observer, rendering, stop; catching up; leaving |
| `store` | 2 processes, 3 accounts on 2 networks, 3 commands, 1 kill | joined, logged out, active, whole |
| `terminal` | 3 chunks, 1 resize | order, end |

*Why these bounds are enough to be interesting.* Every hazard here is between two
actors or two successive uses of one thing. Two turns let one be overtaken by
the next, two sessions let frames go to the wrong one; three connection numbers hold a
link being closed, one being dialled and one reported lost; two requests are the evictor and
the one that has dialled again; three pages have a first, a middle and a last one, and two
snapshots a change between any two of them; a row in the lists of two users is stale for
one of them, and three commands are a menu opened here and a choice on each side, or a message,
a name given or a deletion, and another message while the first is on its way; two faults
are a loss while access is withdrawn, or a second one after the first; a password
that is right and one that is wrong, an invite that registers and one that does not; two
linking processes and a replacing one give each kind of race; three commands are two that overlap and one that sees the result. All
runs explore their instance completely. `CHECK_DEADLOCK FALSE` stands where the
program may really stop: a REPL that was quit, a bridge that has ended.

*What the violations show.* Each is a disagreement with a sentence of the repository:

* `chat_stale_interrupt`: the interrupt frame names a session, not a turn, and is
  sent by a task created from the signal callback. When the terminal frame was read
  in the same pass of the loop, the prompt returns first and the next message is
  what "cancel THIS turn" (`main.py:279`) cancels.
* `identity_race`: the CLI's copy replaces; the transport's says why it must not.

*Deviations seen while modelling that have no run of their own.*

Chat and REPL:

* A frame that raises in `_listen` (`client.py:872`) ends it with the socket open. `is_connected`
  (`client.py:413`) remains true, the next turn registers a collector nobody will release, and
  Ctrl-C, which relies on "the turn's terminal frame" (`main.py:280`), does not bring the
  prompt back.
* A title listed with its framework and model, or the fallback "Chat" (`main.py:1800-1812`), is
  not recognised as automatic, so the first message does not name such a chat although the
  comment (`main.py:2111-2114`) says so. A label that is out of date lets the automatic title
  replace the name another client has given.
* `/sessions` after the last chat was deleted raises (`next(iter(sessions))`, `main.py:1901`); the
  active chat is then "cli-default", also in shared mode.
* An exception leaves the loop with the client connected: `disconnect()` comes after the
  `finally` (`main.py:2135`).
* The member commands (`main.py:1460`, `:1504`) call `client.close()`, which `GatewayClient` does
  not have: they end in an `AttributeError` and release nothing, where the docstring of
  `_open_gateway_for_rest` says "Caller is responsible for closing." (`main.py:1063`).
* `rest_get` and its siblings do not look at the status (`client.py:1102-1123`), so the
  menus of MCPs, models, settings and the rename print success for a request that the server
  refused; a deletion refused with a body that is not JSON prints "Deleted.".
* The forms send what they have printed for every field the user leaves alone: tasks
  (`main.py:2711-2717`), events (`:2873-2888`, the session path without a question), models,
  settings (`:2480-2491`), the whole map of channels (`:2509`), the whole note of the vault. A
  change of one of these made meanwhile is lost; hence `Resent` in `WhatWasMeantStands`.
* In a shared terminal the tasks of `/help`, `/context`, `/usage`, `/compact`, `/status`, `/queue` and of
  the pins of `/model` go through `ensure_session` too, which names a chat that is not there
  by their text (`collaboration.py:50-53`): after `/new` the chat is called by the slash command,
  where `docs/collaboration.md:36` says "Slash commands never become the conversation name" and
  `main.py:2111` "Technical commands are handled above and must never become a chat name". It
  stays the name on the server until a message with a title of its own is sent.
* The same request names a chat by the next message if the server did not take the name the user
  gave, or has no such chat yet; and one decided upon before overwrites a name given
  meanwhile. Hence `Naming` and `taken` in `ChosenTitleStands`.
* A message on its way makes a chat again that is deleted meanwhile (`removed` in
  `RemovedStaysRemoved`), and two messages may reach the server in the other order.

Operational API:

* A first cursor that names the first page again is not noticed, since a query without a cursor
  has none to remember (`remote_api.py:555`): the page's items are there twice and the collection
  ends well. Pages that do not name their snapshot, or follow a first page that does not, are not
  compared (`remote_api.py:563-567`). `CollectionIsWhole` says which of these it leaves out.

Connecting and storing:

* `connect` loads the store before the password prompt and saves that copy after the login
  (`main.py:859`): a network another command joined meanwhile is lost, though the store is to be
  a dict "that survives across CLI / app sessions" (`user_store.py:57`). Hence the premise
  `~overlapped`.
* A refused login, or a handle of an unknown network, returns with the node still on
  (`main.py:838`); `NothingHeldAfter` speaks of the other ends.
* `open_bi` and the dial are before the `try` of `_rpc` (`network/client/login.py:332`): its
  connection stays open until the node stops.
* `pake.py` says a login in progress lives in "per-connection memory only", but every RPC has a
  connection of its own.
* An explicit agent that is not registered is replaced by the first one silently
  (`client.py:366-376`).
* A `networks.toml` of a newer client loads as empty and the next save replaces it
  (`user_store.py:85`). Two overlapping saves may publish a truncated file for a moment
  (`SavedAtomically` says when).
* Before Python 3.12 `stop()` does not wait, and a request can dial after the dialer was
  closed (`waits` in `NothingDialsAfterClose`).

Links, sharing, terminal:

* A second loss of the host transport is dropped while the close of the first is under way
  (`client.py:644`; hence the condition in `LinkRestored`).
* The CLI's pool keeps a dead connection for ever (hence `redials` in `DeadConnectionLeaves`).
* The first history read of an observer is outside of the loop that retries
  (`shared_repl.py:75`): one failure and the view stays empty, where
  `docs/collaboration.md:28` says "Incoming text and participant names continue rendering while
  the user types". `ObservedViewCatchesUp` begins after it.
* `close()` of the shared terminal also cancels messages not yet posted (`shared_repl.py:159`).
* Ctrl-] sends `terminal_close` (`main.py:1764-1771`), where the help says "leave it for the server
  to reap" (`:1619`), the docstring "it detaches locally without killing the shell" (`:1649`) and
  the epilogue "The shell keeps running on the server until you disconnect." (`:1776`). What
  becomes of the shell is the server's affair, and no property speaks of it.
* A view whose access was withdrawn and given back is written again from the start
  (`shared_repl.py:64-68`): `TextWrittenOnce` counts anew.

## 4. Fairness

* `ChatLoop`: the loop runs what is ready, polls its sockets, and requests end; the
  gateway reads what it is sent. It need not finish a turn, and nobody need type.
* `CapabilityLink`: tasks run, a cancelled task notices, a close handshake ends (aiohttp
  bounds it). For `LinkRestored` the gateway, dialled again and again, accepts at some
  time: strong fairness of the dial's good outcomes, as each attempt is a new one.
* `LoopbackProxy`: tasks run; aiohttp goes on making requests and being done with them while
  the proxy listens (the heartbeat does); strong fairness of `OpenStream` is that of
  `asyncio.Lock`, a queue; an HTTP server ends a stream whose other half is finished.
* `ClientLifecycle`: the process and its calls go on, and the user runs `connect` again now and
  then with the account's password. `AccountGetsIn` is asked only once `calm` holds.
* `RemoteApi`: a command goes on; searches are made again, and now and then the capability route
  answers one of them (strong fairness: other answers may be errors).
* `SharedTerminal`: the loop runs, the server sends what changed; runs need not end.
* `TerminalBridge`: the loop iterates and the one-second timer of `wait_for` expires.
* `IdentityFile`, `UserStore`, `ReplSessions`: none; only safety is stated.

No fairness is given to users, crashes, losses, or a gateway's will to answer.

## 5. Proofs

Proved with TLAPS for every value of the constants that satisfies the named
assumptions of the modules, with nothing assumed beyond them. A theorem about a run's property
has the same specification without its fairness. The inductive invariants were
model-checked on the instances of section 3 before they were proved. `Requests_proofs` and
`Membership_proofs` hold two components each, which share no variable; a theorem there is about the
specification of its own component and uses that component's assumptions only.

| Module | Theorem | Property | Inductive invariant |
|---|---|---|---|
| `ChatLoop_proofs` | `TypeCorrect` | `TypeOK` | `TypeInv` |
| | `CollectorsAreRemoved` | `NoCollectorLeft` | `ReplInv` |
| | `RepliesAreOwn` | `ReplyIsOwn` | `OwnInv` |
| | `SessionsAreOpenedOnce` | `SessionsOpenOnce` | `OpenInv` |
| | `ChatImplementsContract` | `ImplementsContract`, a refinement | `ChatInv`, all four |
| `CapabilityLink_proofs` | `LinkIsAlwaysOwned`, `DisconnectIsQuiet` | `LinkIsOwned`, `QuietAfterDisconnect` | `LinkInv` |
| `Requests_proofs`: `LoopbackProxy` | `NoneOrphaned`, `RetriesUseAnother` | `NothingOrphaned`, `RetryUsesAnother` | `PoolInv` |
| | `NoneDialsAfterClose` | `NothingDialsAfterClose` | `ProxyInv` |
| `Requests_proofs`: `RemoteApi` | `TypeCorrect` | `TypeOK` | itself |
| | `MissingIsRetryable` | `TemporaryIsRetryable` | `Honest` |
| | `CollectionsAreWhole` | `CollectionIsWhole` | `WholeInv` |
| `Membership_proofs`: `ClientLifecycle` | `OnlyPairedIsStored` | `StoredIsPaired` | `StoreInv` |
| `Membership_proofs`: `IdentityFile` | `TypeCorrect`, `NoHalfWrittenKey`, `NoTemporaryLeft` | `TypeOK`, `NeverHalfWritten`, `NoTempLeft` | `TypeInv` |
| | `ReturnsWinner`, `IdentityStays` | `WinnerIsReturned`, `IdentityIsPermanent` (an action property) | `Persisted` |
| `ReplSessions_proofs` | `WhatWasMeant` | `WhatWasMeantStands` | `MenuInv` |
| | `RemovedChatsStay`, `ChosenTitlesStand` | `RemovedStaysRemoved`, `ChosenTitleStands` (an action property) | `LoopInv` |
| `UserStore_proofs` | `AlwaysSavedAtomically`, `JoinedIsAlwaysKept`, `LogoutAlwaysForgets` | `SavedAtomically`, `JoinedIsKept`, `LogoutForgets` | `StoreInv` |
| `SharedTerminal_proofs` | `TypeCorrect` | `TypeOK` | `TerminalInv` |
| | `OnlyTheViewObserves`, `TextIsWrittenOnce`, `StopsNameOwnRuns` | `OneObserver`, `TextWrittenOnce`, `StopNamesOwnRun` | `TerminalInv` |
| `TerminalBridge_proofs` | `TypeCorrect`, `TypedInOrder` | `TypeOK`, `InputInOrder` | `BridgeInv` |

Why the properties are not inductive by themselves, and what the invariants add:

* **ChatLoop**, for any sessions and bounds, with or without suspended sends and frames that
  cannot be parsed. `TypeInv` is the type invariant with the frames on their way
  naming turns that have begun. `ReplInv`: the queue holds at most one wake-up of the
  REPL, and none while it has something left to wait for (`WokenOnce`); without it a
  second wake-up could return to the prompt with the task still running, and its
  collector still there. `OwnInv` is about what is on its way: the text of a turn is sent once, the
  gateway runs it once, and its terminal frame is the last of its frames (`OneFlight`); while any of
  that exists the REPL is still waiting for that turn, or its send has raised. So no frame of
  an earlier turn can meet a later collector, as long as somebody listens. `OpenInv` ties
  `_opened_sessions` to what the gateway has been or will be told.
* `ChatImplementsContract` maps the phase of `TurnContract` to `pc` and `stage`, and what
  the contract shows to the reply. `ContractStep` says of each action which of `Ask`, `Answer`,
  `Close` or a stutter it is; that the answer is made of the turn's own frames needs `OwnInv`.
* **CapabilityLink**, for any number of connections and losses. `Places` says who is where (the
  supervisor lives between `connect()` and the join in `disconnect()`, one of the two
  dials, each closes in its own place); `Served` that the two tasks serve what is
  published; `Links` that while anybody may dial, an open socket is the published one or the one
  being dialled; `Stopped` that each stage of `disconnect()` leaves behind what the later ones
  rely on. `LinkIsOwned` speaks of the moment of a dial and needs all the
  ways to get there; `QuietAfterDisconnect` needs them cut short at any point.
* **ConnectionPool, LoopbackProxy**, for any number of requests and connections and both copies.
  `OneDials`: dialling is done under the lock and with an empty pool. `Tries`: a request that
  tries again will not find in the pool the connection that failed, because who evicts does it
  by identity. `ProxyInv` adds that a handler still asking for a stream has its local
  socket attached, which is what `stop()` waits for.
* **CoordinatorLogin, ClientLifecycle**, for any passwords and numbers of connections. `LoginInv`
  relates the RPCs left to make to what the service has done, `LogsIn` says that who waits
  for a login waits for its calls and has bound the device when they end. `AllIsReleased` proves `NothingHeldAfter` too, from
  what each place holds (`HeldInv`), but that is little more than the order in which `Release`
  works: it is about commands that return or fail in `from_network` or `connect()`, and says nothing
  of a refused login, an unknown handle or an interrupt, which do leave things behind.
* **RemoteApi**, for any number of pages and snapshots. `CacheHonest` says what a kept answer still
  says of the server now: what is kept for good was no
  passing state, and came from the same kind of server as the one that answers now. `Collecting` says
  of every state in the middle of a collection of one snapshot that it is on track, having the pages
  up to one of them and a cursor to the next, or astray, having been sent back: then what lies
  between that cursor and the end holds a cursor seen before, so the rest cannot end well, unless
  it was the first page of a query without a cursor. `Agree` is the other half, of pages that
  name their snapshots.
* **ReplMenus, ReplSessions**, for any users, rows and chats. `MenuInv`: of the fields that no
  form of the menu sends along, a request names what its user wants (`AsWanted`). `LoopInv`: the keys
  of the map are distinct, ids are used when made (`Keys`); neither the active chat nor a listed
  one was removed, nor is a task on its way to one, but for the default one (`Gone`); a chat the user
  has named is listed under that name (`Labelled`), and where the server took it no task is about to
  name it (`Taken`).
* **IdentityFile**, for any number of processes and kills and any mixture of the two copies. `OwnTemps`:
  temporary files belong to the attempt under way or to one that was killed, a file is
  partial only while its process is writing it, and a process that migrates holds a
  key. Without it `Rename` could publish a partial file and a process could return with
  its file still there. `Knows(p)` says what each place in the code knows of the file: after `link`
  failed there is one, after it succeeded ours is there. `OldInstall` says a process holds the old
  key only while it is on disk and then nobody generates one, since a
  replacement by a migrating process would otherwise bring it back. It is needed
  because `WinnerIsReturned` speaks of the moment of return and the race is decided several
  steps before.
* **UserStore**, for any number of commands, accounts and kills, with one inode more than commands. `Files`: a torn
  file has somebody writing it or somebody was killed, nobody opens the store itself, and
  without an overlap the temporary file at its rename is what the command holds. `Accounted`: what
  a command carries from its load to its save has every row that was joined and none that
  was logged out, rows differ, and the active network is one of them. That there is a free inode
  for every `open` is the pigeonhole principle (`FreeInode`), proved from the
  library's facts on cardinality.
* **SharedTerminal**, for any number of sessions, messages and faults, and transcripts of any
  length. `Placed`: the prompt is read in the view it has switched to. `Viewed` is about what
  is still on its way: the frames for the view are in the order of their texts, none is behind what was
  printed or ahead of the server, and the runs they name were of this session. `Unread`: before the
  history of commands is read nothing is printed or on its way, so it may hold any part of
  the transcript. So a frame only adds to what is shown or begins it anew, a socket that is lost leaves a view that its
  next snapshot continues, and a stop read from an old snapshot names a former run of the
  session. `OneObserver` is what makes it enough to speak of one view: no other session has an
  observer left to render.
* **TerminalBridge**, for any number of chunks and resizes. `Ordered` is the order in which an
  iteration of the loop runs: what the last one scheduled, then a key, then what the poll added;
  so at most one chunk is in a task, it is the last one read, and its task is first in its queue (`Lined`).
  `Sending`: the chunks written are numbered in order, up to the last read or the
  one before it, without a gap while the connection lasts. `Given`: the shell was
  given those among the frames served. `Bounded` says what cannot be there before `terminal_open` is
  written and after the close: when `done` wakes the coroutine, the task of a chunk read
  before Ctrl-] has run.

Each proof that a step keeps an invariant has one step or lemma per action, and below it one
per conjunct the action touches. The lemmas on `Append`, `Tail` and removal from a sequence
are stated once for each kind of queue.

*Only model-checked.* Liveness under fairness (`WaitingTurnIsInterruptible`,
`WaitersAreReleased`, `DisconnectReturns`, `LinkRestored`, `DeadConnectionLeaves`, `StopReturns`,
`AccountGetsIn`, `IndexIsFound`, `CollectionEnds`, `ObservedViewCatchesUp`, `LeavingEnds`,
`BridgeEnds`) is beyond the prover's backends. So is induction over data: nothing is proved
of what a recursive definition computes. Every safety property of the passing runs, invariant, action
property or refinement, is a theorem. `TypeOK` of `ChatLoop`, `IdentityFile`, `RemoteApi`,
`SharedTerminal` and `TerminalBridge` is a theorem and an invariant of no run; the other proofs
have their types in the invariant.

## 6. What the models leave out

* Wording, rendering, logging, reasoning and audio frames, presence.
* `CapabilityLink` lets tasks run in any order, where `ChatLoop` has the queue. A host whose
  start was cancelled, and a bridge whose hello was cut short by cancellation, are not closed by
  the code; the properties say so.
* `SharedTerminal`: a transcript only grows, so the branch that renders an edited text
  again is left out. Titles, and the request that makes a chat under one, are in `ReplSessions`.
* `TerminalBridge`: the write of a frame is one step (aiohttp writes before it may drain).
* `UserStore`: times, addresses and the active agent; a torn file is an empty one, as it
  is after `open` with truncation.
* `ClientLifecycle`: one account and one device; two processes that share the store are in
  `UserStore`. Releasing is one step for each resource; what `disconnect()` does inside the
  capability link is in `CapabilityLink`.
* `RemoteApi`: the fields and the order of the items; `force`, which only `server-info` uses;
  cursors that skip pages ahead, which nothing in the client could notice.
* `ReplMenus`: rows have four fields, and a form asks for two or three of them; what a form
  validates is a refusal.
* `ReplSessions`: the other users' menus are followed while one is open here; at other times
  what they do is a table to begin with.

## 7. Plan

What was planned of the models and the proofs is done. What the code offers beyond them is small:

1. The vault's move and restore, as more operations of `ReplMenus`.
2. Presence in `SharedTerminal`.
3. The parts listed as not modelled, if they come to keep state or to run beside each other.

A change to a modelled part of the code should be made to its module first, at the lines `map`
gives; the runs say whether the properties still hold on small instances, and the step of the proof
that fails names the action and the conjunct it has disturbed.
