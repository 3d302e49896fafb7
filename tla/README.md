# A verification project for Bluez5TutorialCode

The repository shows how a user program offers a Bluetooth profile through
BlueZ 5.49. It holds two small programs of its own, `src/Profile` (a Bluetooth
serial listener) and `src/Agent` (a pairing agent), and the BlueZ release they
talk to over D-Bus, `src/bluez-5.49`. The modules here model the profile
program with its threads, its descriptors and its D-Bus traffic, and the parts
of the daemon that stand behind the interfaces the two programs use: the
connections of an external profile, the connecting and pairing of a device, the
authorization queue, the agents, and the client of the kernel's management
socket that carries out what they decide. TLC checks
them on small instances, and TLAPS proves the properties that matter most for
every instance.

## 1. Inventory

| component | state | operations | talks to |
|---|---|---|---|
| `Listener` (`Profile/Listener.cpp`) | `_p_socket`, `_heartbeat`, `_p_bluezProfileInterface`, `_dbusObjectPathCtdDevice`, the listen thread | constructor, `startListening`, `stopListening`, `disconnect`, destructor; handlers of NewConnection, RequestDisconnection, Release | bluetoothd by synchronous calls; the Socket, shared with its owner |
| `Socket` (`Profile/socket.cpp`) | `_fd`, `_connectionState`, `_timeout` | `setupSocket`, `closeConnection`, `readData`, (unused: `writeData`, `setTimeout`, `isDataAvailable`, `getConnectionState`) | the kernel |
| `main` (`Profile/main.cpp`) | the header and body of the round | read a header, read a body, for ever | the Socket, without a lock |
| `Profile.c` (generated) | the skeleton | dispatch of a method call to its signal | GDBus, the Listener |
| external profiles of bluetoothd (`src/profile.c`) | `ext->conns`, per connection: channel, authorization, pending call | accept, authorize, NewConnection and its reply, disconnect, cleanup | the program, `service.c`, the authorization queue |
| services (`src/service.c`) | state per device and profile | connect, disconnect, the two completions | `profile.c`, `device.c` |
| devices: connecting (`src/device.c`) | `pending`, `connect`, `disconnect(s)`, `browse`, the link and its timer | Connect, ConnectProfile, Disconnect, DisconnectProfile, discovery, links and services that end | `service.c`, the kernel |
| devices: pairing (`src/device.c`, `src/adapter.c`) | `bonding`, `authr`, `pair_device_id`, `pair_device_timeout`, retry timers | Pair, CancelPairing, the kernel's questions and its results, retries | `agent.c`, `mgmt.c` |
| authorization queue (`src/adapter.c`) | `auths`, `auth_idle_id` | request, process, answer, cancel | `agent.c`, `device.c` |
| agent manager (`src/agent.c`) | `agent_list`, the default agents, one request per agent, references | register, request default, the request calls, cancel, release | the agent program |
| management client (`src/shared/mgmt.c`) | `request_queue`, `reply_queue`, `pending_list`, `notify_list`, `writer_active`, `ref_count` | send, reply, send at once, cancel, register, unregister, ref, unref | the kernel, callbacks of everyone above |
| `Agent.cpp`, `Agent1.c` | the skeleton | the handlers of Agent1 | bluetoothd |
| the rest of BlueZ | | SDP, GATT, audio, mesh, OBEX, tools, Android | not met by the programs |

What makes it hard:

* two threads and the bus share the Listener and the Socket with no lock;
* a handler blocks in synchronous D-Bus calls while more calls queue up;
* calls outlive the skeleton they were meant for;
* descriptors are duplicated, overwritten and reused;
* the daemon may exit or die at any moment, and every error is an assertion;
* the reading loop assumes that frames arrive whole;
* in the daemon, an authorization, an SDP search, a connection attempt, a call to
  the program and a hang-up race each other, and a device may have several
  connections for the one service whose state they all set;
* in the daemon everything runs in one thread, so the races are between callbacks:
  an answer that comes when its question was dropped, a timer that outlives what it
  was for, a callback that frees what its caller goes on to use.

What makes each part correct:

* Listener: the Socket holds the latest connection and its path; a descriptor is
  closed by its owner only; the handlers run only while the skeleton and the
  Socket are there; calls are taken; the owner's calls return.
* Reader: what is printed after a header is its frame's body, or the program shows
  that it is not: NULs, or the beginning of a newer connection.
* External profiles and services: a service in transition has something that will
  end it, and does come to rest; nothing outlives its profile or its device.
* Connecting a device: every Connect and Disconnect is answered once, and the list
  of services to connect never waits for a service that is not connecting.
* Pairing: a Pair in progress has a command or a retry ahead, its question to the
  agent keeps its data, it ends and is answered once.
* Authorization queue: an answer is for the request the agent was asked about, and
  the queue does not stall.
* Agent manager: an agent lives as long as somebody holds it, also when its owner
  leaves; default agents are agents.
* Management client: no wake-up is lost, every request is destroyed once, whatever
  callbacks do, and ends.

PROJECT.json lists each of these, as "hazards", at the line where it bites.

## 2. Modules

| module | what it is |
|---|---|
| `Listener` | the profile program: owner thread, listen thread, descriptor table, and the daemon as the Profile1, ProfileManager1 and Adapter1 interfaces show it |
| `ConnectionSlot` | what the owner of a Socket may count on: at most one link, each link at most once, in the order of delivery |
| `Reader` | the loop of `main.cpp` over `readData`, on top of a `ConnectionSlot` |
| `ExtProfile` | bluetoothd's side: `ext->conns` of `profile.c` and the service states of `service.c` |
| `AgentManager` | `agent.c`: agents, default agents, references, an agent's one request; the part AuthQueue and Pairing share |
| `AuthQueue` | the authorization queue of `adapter.c` over `AgentManager`, beside a pairing that uses the same agents |
| `DeviceConnect` | Connect and Disconnect of a device and of its services, `device.c` over the states of `service.c` |
| `Pairing` | bonding of `device.c` and `adapter.c` over `AgentManager` |
| `Mgmt` | the queues and callbacks of `shared/mgmt.c` |
| `MCListener`, `MCReader`, `MCExtProfile`, `MCAuthQueue`, `MCDeviceConnect`, `MCPairing`, `MCMgmt` | the instances TLC runs |
| `Sublists` | a list without some of its entries: what `g_slist_remove` and `queue_remove_all` leave, used by the four modules above that keep lists |
| `Listener_proofs` | types, thread life time, descriptors, that `Listener` implements `ConnectionSlot`, and that no assertion fails |
| `Reader_proofs` | types, the framing of the reading loop |
| `ExtProfile_proofs` | what connections and services wait for |
| `Sublists_proofs` | what `Keep` returns: which entries, once each, in order; lists that are appended to or lose an end |
| `DeviceConnect_proofs` | types, the list of services, each call answered once |
| `AuthQueue_proofs` | types, references of agents, whose answer it is, progress of the queue |
| `Pairing_proofs` | types, references of agents, whose question it is, what a Pair waits for, each call answered once |
| `Mgmt_proofs` | types, where a request is, wake-ups, tear-down |

### Listener

*State.* `iface`, `psocket`, `heartbeat`, `sock`, `ctd` are the fields of the
object (`_p_bluezProfileInterface`, `_p_socket`, `_heartbeat`, the Socket lent
by the owner, `_dbusObjectPathCtdDevice`). `opc`, `oop`, `ofd`, `obad` are the
owner thread's place, the function it is in, the descriptor it loaded in
`closeConnection`, and whether `disconnect()`'s uninitialised `p_error` was
garbage. `lpc`, `batch`, `cur`, `newfd`, `todo`, `perror`, `lfd` are the listen
thread's place, the calls of the current main-context iteration, the call being
handled and the handler's locals. `fds` says, for each descriptor, the number of
the call whose link it refers to, or that it is free. `calls` is every method
call the daemon sent, in order; `status` what became of each. `registered`,
`daemon` and `devs` are the daemon's side.

*Steps.* A synchronous D-Bus call is a step that makes the call and a step that
takes its answer, so that everything may happen in between:
`StartListening` / `RegisterReply` / `StartThread`,
`StopListening` / `Join` / `UnregisterProfile` / `UnregisterReply` / `Unexport`.
A handler is `HandleNewConnection`, `FindAllRecognizedDevices`, one
`RemoveDevice` per device, `CreateNewSocketConnection`. `closeConnection` is
three steps (the test of `_fd`, the `close`, the store) in whichever thread runs
it, because those are the places where another thread can come between. Every
assertion that fails is an `Abort`, after which nothing moves.

*Environment.* The daemon sends NewConnection for a known device whenever the
profile is registered, and Release when it exits (`send_new_connection` and
`btd_profile_cleanup` of profile.c). Devices appear and disappear. The bus keeps the
order of one sender's messages. It never sends RequestDisconnection: profile.c:1736
does so only for a connection whose NewConnection was answered, which this program's
handlers never do. The handler of RequestDisconnection does what that of Release does
(`HandleRelease`), and has no action of its own.

*Owner.* `Use` says what the owner calls. Starting twice, stopping a Listener
that does not listen and disconnecting one that never listened are the owner's
mistakes and not modelled; stopping and then destroying is not one, since every
owner destroys.

### Reader

A character is a place in a stream (link, frame, position), so that reading a
body character as a header is visible. `NumRead` is `read(2)` on a non-blocking
stream: -1 when there is no descriptor or no data, 0 at the end of the stream,
possibly less than was asked for. After a -1 the vector that `main()` made still holds
its NULs, and `main()` prints them. `Atoi` maps a header to the size of its frame,
a NUL to 0 and any other character to any digit. `PeerSends` sends whole frames
or pieces of them.

### ExtProfile

*State.* `conns` is `ext->conns`: a function from the numbers of the records that
exist (in the order of the list) to records with the fields of `struct ext_io`
that control anything. `watch` is `io_id`, `auth` is `auth_id`, `pending` says
which call `pending` belongs to, `step` which of the SDP search (`resolving`) and
the connect or accept callback is awaited. `own` says that the record's device is
still one of the adapter: a device that is removed and found again is another
object, and a record of the old one no longer belongs to it nor to its service.
`service` is the `btd_service` state per device, `"none"` for a service that does
not exist or was removed (`UNAVAILABLE`).

*Steps.* The daemon has one thread, so a step is a callback of the main loop with
everything it calls: `ExtConfirm`, `ExtDirectConnect` (incoming), `ExtAuth`,
`ExtConnect`, `NewConnReply`, `DisconnReply`, `ExtIoDisconnected`, `ServiceConnect`
and `ServiceDisconnect` (`btd_service_connect` and `_disconnect` with the profile's
functions), `RecordCb`, registration, `RemoveExt`, devices that appear, are probed
and removed. A synchronous failure that leaves everything as it was (for instance
`-EALREADY`) is no step. A reply is the program's answer, its error or the time-out
of the call. Errors of the channel and of sending are the failure alternatives.

*Scope.* The profile has both roles: `ext_set_defaults` says so and the tutorial's
program registers no `Role`. Freeing a record cancels its watch, its call, its
authorization and its search (`ext_io_destroy`), so no callback runs for it; that
the connect and accept callbacks of `btio.c` are not called for a channel that was
shut down is taken from `check_nval` there. The model's daemon sends
RequestDisconnection only for a connection whose NewConnection was answered, as
profile.c:1736 does.

### AgentManager and AuthQueue

*State.* `agents` gives each agent's `ref_count` and the request it is asked
(`agent->request`), `listed` is `agent_list` (one agent per program), `defaults` the
`default_agents` queue. `auths` is `adapter->auths` with, per entry, the device, what
it waits for (`svc`: nothing, the idle callback or the discovery that
`device_wait_for_svc_complete` waits for) and the agent it asked. `idle` says that
`process_auth_queue` is scheduled, `idleId` that `auth_idle_id` is set: the two differ
because `agent_auth_cb` removes the source without clearing the number
(adapter.c:6313). `outcome` is what the requester was told.

*Steps.* `RequestAuthorization`, `RequestCableConfigured`, `SvcIdleCb`,
`SvcResolved`, `ProcessAuthQueue` (the whole loop: the entries it lets pass, and the
one it stops at, asked or waiting), `AuthorizeServiceReply` (with `AgentAuthCb`),
`CancelAuthorization`, `RemoveDevice`, `SetTrusted`, agents that register, become the
default and leave. A pairing uses the agents too (`BondStart` to `BondEnd`): it can
occupy the agent, and cancel a request that is not its own. `reentered` marks the
one case in which `agent_unref` calls the request's callback from within another
callback of the queue; the model, and with it the properties about references and
progress, stops there. A question whose message cannot be sent is refused and the loop
goes on to the next entry: `ProcessAuthQueue` chooses how far it gets (`Passed`).

Progress (`QueueAdvances`, `RequestsAnswered`) is stated for behaviours in which nothing
is cancelled or removed, no trust changes and no pairing uses the agents. Each of these
conditions is needed: a late answer that takes the last entry and its idle source leaves
`auth_idle_id` set, and every later request then finds the queue "scheduled" and is not
looked at. It takes four requests to see it for changing trust, more than the run has;
the attempt to prove the invariant without that condition showed it.

### DeviceConnect

*State.* `svc` is the state of each of the device's services, `pending` the list of
services still to connect, `connect`, `disconnect`, `disconnects` and `browse` the
calls each field holds, `answers` how often each call was answered. `dropped` and
`left` are the calls whose discovery was cancelled or whose caller left.

*Steps.* The four Device1 methods, `ConnectingComplete` and `DisconnectingComplete`
of a service (with `device_profile_connected` and `connect_next`), incoming
connections, profiles added and removed, the end of discovery, link up and down,
the disconnect timer, callers that leave the bus. The adapter may be without power at any
Connect, which is then answered at once. `ops` says which of
DisconnectProfile and adding and removing profiles are used, since each takes a
guarantee away: a DisconnectProfile that fails at once is answered twice
(device.c:1983), and `device_remove_profile` takes a service out of `pending` without
moving on.

### Pairing

*State.* `bonding`, `bagent`, `iter`, `retry` and `watched` are the bonding request
of each device, `authr` its authentication, `cmds` the PAIR_DEVICE commands the
kernel works on, `pairId`, `timers` and `pairTimeout` what `adapter.c` keeps about
them. `ops` selects PIN plugins with retries (`pins`), discoveries for other reasons
(`busy`), removal of devices (`remove`), pairing started by the remote side (`remote`)
and a second device (`second`).

*Steps.* Pair, CancelPairing, Disconnect, callers that leave, removal; the kernel's
questions, answers, keys, failures and disconnects; the agent's answer; the two
timers; the discovery a successful Pair waits for, which may fail to begin. The kernel's
success may have been on its way when it was told to cancel.

*Crashes.* `crashed` says that a question's callback ran on freed memory, or ran
`agent_unref` which ran the callback, without end; the behaviour stops there.
`device_free` is what leads to it (`DeviceFree`): it drops the reference of the
authentication and cancels nothing (device.c:679-685). When it was the agent's last
reference, `agent_unref` calls `pincode_cb`, `confirm_cb` or `passkey_cb` (agent.c:229-254),
which finds `auth->agent` still set and calls `agent_unref` again (device.c:5751). When it
was not, the agent's answer, or the end of its program, calls the callback with the freed
authentication (`StaleReply`, `AgentStep`). `CallbackHasData` says that nothing but a
removal has this end.

One device's pairing disturbs another's in two places, and two properties say so in
their conditions. `QuestionIsOut` is about behaviours with one device, because a Pair
that is refused cancels what its agent is asked, whoever asked. The second half of
`BondingAwaitsSomething` is about behaviours in which no retry can meet another pairing
(`RetriesAlone`): one device, or several without a cause for a retry. PINs of plugins are
such a cause and so is a remote device that asks for a PIN, since `pincode_requested`
belongs to the adapter: a second device's question makes the first one's failure look
like a wrong PIN. That the second cause is one was found when the retry's step could not
be proved; TLC then showed the two commands it leads to.

### Mgmt

*State.* The three queues hold numbers of `requests`; `out` is what the kernel was
given and has not answered; `stack` is the callbacks that are running: while one is,
the client may call anything, and the step that pops it does what the code does after
the callback returns. `destroyed` and `released` count `destroy_request` and
`destroy_notify`.

*Environment.* The kernel answers every command, those of one opcode and index in
order; a write may fail; the socket does not break. The last reference is not
dropped by a callback that reports a failed write, and `mgmt_unregister` is not
called inside an event: nothing in bluetoothd does either, and both leave pointers
to freed memory in use.

## 3. Runs

| run | instance | shows |
|---|---|---|
| `listener_main` | 2 devices, 3 calls, 6 descriptors, stop and start again | no assertion fails, no deadlock, every call is taken (`CallsAreTaken`); the Socket holds the latest link and its path and implements `ConnectionSlot` |
| `listener_close` | 1 device, 4 calls, 8 descriptors, stop, start and disconnect(), a daemon that exits | with both threads in `closeConnection` at once, or one between the steps of a handler, waiting calls own their descriptors and no step closes a descriptor that was not handed to the Socket |
| `listener_faults` | 2 calls, 5 descriptors, every use, daemon exits, crashes, returns | `_p_socket` is always set when a handler asserts it, the thread never outlives the export, owner calls return or the process aborts |
| `reader` | 2 links, frames of 2 characters, peers of every manner (whole frames, pieces, hang-ups, reconnections) | what is printed after a header is that frame's whole body, NULs, or the beginning of a newer link; with whole frames the boundary is kept and every frame is read |
| `ext_services` | 2 devices, 3 connections | every connection record waits for exactly one thing or is accepted and watched; a CONNECTING service has an attempt, a DISCONNECTING one an unanswered request; transitions end; nothing outlives profile or device |
| `auth` | 2 programs, 3 agents, 2 devices, 2 requests, four kinds of use | references are the holders, default agents are listed; while no trust changes, answers go to the request that was asked about; undisturbed, the queue moves and every request is answered |
| `connect` | 2 services, 3 calls, with and without DisconnectProfile and changing profiles | the list of services moves on, calls are answered once, held calls are answered |
| `pairing` | 1 program, 2 devices, 2 calls, 1 PIN, five kinds of use | without removals a question has its data; it is at the agent, a bonding awaits a command with its timer or a retry, Pair is answered once and ends |
| `mgmt` | 2 controllers, 3 kinds of command, 3 requests, 2 listeners, 2 events, four kinds of use | no wake-up is lost, requests are destroyed once, tear-down is complete and outside callbacks, every request ends |

Runs that TLC refutes, each against a line of the repository (PROJECT.json,
"findings"):

| run | line that is not kept | why |
|---|---|---|
| `ext_refused` | service.c:393 | a refused RequestDisconnection frees the connection of a service that remains connected |
| `auth_trust` | agent-api.txt:174 | the agent's answer about a device that became trusted meanwhile is given to the next request |
| `connect_cancel` | device-api.txt:52 | Disconnect during discovery drops the Connect call without an answer |

More observations, each a behaviour of the models that no run is kept for:

* The handlers return TRUE and never complete their invocations, against
  Profile.c:372, so every NewConnection times out at the daemon. A Listener that was
  stopped, or never started, aborts in its destructor (Listener.cpp:110).
* After Release, stopListening unregisters all the same and aborts, against
  profile-api.txt:115. Every connection leaks a descriptor, two when one is
  overwritten, until Listener.cpp:285 aborts. The GError of one failed RemoveDevice
  keeps the loop of Listener.cpp:195 from removing the rest. A peer that hangs up makes
  `read` return 0 and socket.cpp:35 abort.
* A second Pair, on another device, that fails because a command is out
  (adapter.c:7114) cancels the first one's question at their common agent
  (device.c:2444), although that pairing goes on (`QuestionIsOut` excludes it).
  A retry does not look at `pair_device_id`, so with a second device two commands can
  be out and share one timer field (`RetriesAlone` excludes it). It takes no plugin: a PIN
  that a second device asks for sets `pincode_requested` for the first. A retry that
  cannot be sent is reported with `bonding->status`, which nothing sets (device.c:5681).
* Pair of a device that was paired and not bonded is answered only by a disconnect.
  `cancel_authentication` clears the agent without dropping its reference, so the agent
  is never freed; that is why `CallbackHasData` bounds the count from below only. A
  device that is removed while its agent is asked, without a Pair of ours, crashes the
  daemon, at once or when the agent answers (*Crashes*, above).
* disconnect() stores -1 into the Socket after its close. When a handler puts a new
  connection there in between, that connection is forgotten with its descriptor open.
* `btd_cancel_authorization` of the head does not schedule the queue
  (adapter.c:6520): the next entry waits until something else does.
* The answer of a cancelled command completes the next one of the same opcode and
  index, since `request_complete` knows no more. adapter.c:5826 cancels a pending
  CONFIRM_NAME "to be safe" and sends another, which the first one's late answer ends.
* Inside an event `mgmt_unregister_index(MGMT_INDEX_NONE)` removes all listeners, and
  outside only those registered with that index.

*Bounds.* `MaxCalls = 3` lets a connection replace one that is open while a
third call is in the queue (in `listener_close` `MaxCalls = 4`: two that were taken, one that
reuses a number, and Release); `FdLimit = 6` is two descriptors per call, so that
exhaustion is not noise in the other questions. In `listener_faults` five descriptors and two calls keep exhaustion away
as well. Two devices are enough for a device to keep and one to remove. For ExtProfile, three connections on two
devices give two connections of one device beside one of another, or three in
succession of one device, so that a first, an old and a new one can be told apart;
`ext_refused` needs one. For the Reader, two links give one
replacement, and a body of two characters gives a body read that can be short.
For AuthQueue, two requests give a head and one behind it; three agents of two
programs let an agent be registered again after it left and a default agent have one
before it; `auth_trust` takes three requests of two devices. Two services and three
calls let DeviceConnect have a first and a second service to connect, and a Connect, a
Disconnect and one more call on top of them. Two devices and two calls are what a
second pairing needs, one PIN gives one retry. In Mgmt three requests are one that is
pending, one that waits and one a callback makes; of the three kinds of command two
share a controller and two an opcode, so that matching by both is visible; two listeners
and two events let a callback remove a listener that is still to come, and the second
event shows whether it is gone.

*Fairness.* `WF(Owner)` covers only the steps inside a call the owner has made:
a thread that is runnable runs, and a synchronous D-Bus call returns because
the daemon answers or the call times out. `WF(ListenThread)` says the same of the
listen thread. Nothing obliges the owner to call anything, nor the daemon, the
devices or the peers to act. `WF(Main)` in Reader: the loop has no exit and no
blocking call (the descriptor is non-blocking, the sleeps end).

`WF(Callback(c))` in ExtProfile: a D-Bus call is answered or times out, an SDP search
and a connection attempt end, each with its callback. Authorization is left out
because it waits for the user, and because the queue can stall
(adapter.c:6520); nobody has to hang up.

In AuthQueue `process_auth_queue` runs once it is scheduled, discoveries end and an
agent answers or its call times out (agent.c's REQUEST_TIMEOUT). In DeviceConnect
services report the end of connecting and disconnecting, the disconnect timer fires and
the kernel carries out a disconnect; a discovery need not end.
In Pairing the two timers fire and the kernel answers a command it was told to cancel;
it need not answer the others, which is what `pair_device_timeout` is for. In Mgmt the
writer runs, the kernel answers and callbacks return. None of these obliges a program,
a device or a user to do anything.

*Deadlock* is checked except where the process really stops (an assertion, a crash, the
destructor) or nothing is left to do within the bounds (AuthQueue, Mgmt).

## 4. Proofs

Every theorem holds for all values of the constants that satisfy the named assumptions,
which only give the bounds their types and say which uses and faults there are. The
pattern is the same everywhere: an inductive invariant `IInv`, one lemma per action (or
per kind of action) that it is kept, and the theorem by `Init => IInv`,
`IInv /\ [Next]_vars => IInv'` and `IInv => property`. TLC finds each `IInv` to hold on
the instance of the component's run.

| module | theorem | property |
|---|---|---|
| `Listener_proofs` | `TypeCorrect`, `ThreadInsideExport`, `SocketPointerIsSet` | `TypeOK`, `ListenThreadInsideExport`, `SocketPointerSet` |
| | `SocketIsLatest`, `QueuedStayOpen`, `ClosesOwn`, `SocketImplementsSlot`, `NoAssertion` | `SocketHoldsLatestLink`, `QueuedDescriptorsOpen`, `ClosesItsOwnOnly`, `SocketIsSlot`, `NoAssertionFails` |
| `Reader_proofs` | `ReaderTypeCorrect`, `BodyIsOfHeader`, `LoopStaysFramed` | `TypeOK`, `PrintedBodyMatchesHeader`, `RoundStartsAtHeader` |
| `ExtProfile_proofs` | `ExtTypeCorrect`, `NoConnectionForgotten`, `ConnectingIsAttempted`, `DisconnectingIsRequested`, `NothingLeftBehind` | the five invariants of `ext_services` |
| `DeviceConnect_proofs` | `ConnectTypeCorrect`, `PendingSound`, `CallsOnce` | `TypeOK`, `PendingIsSound`, `CallsAnsweredOnce` |
| `AuthQueue_proofs` | `AuthTypeCorrect`, `AgentsCounted`, `QueueNeverStalls`, `AnswersReachTheAsked` | `TypeOK`, `AgentsAccounted`, `QueueAdvances`, `AnswerIsForAsked` |
| `Pairing_proofs` | `PairingTypeCorrect`, `CallbacksHaveData`, `QuestionsAreOut`, `BondingsAwait`, `PairsAnsweredOnce` | `TypeOK`, `CallbackHasData`, `QuestionIsOut`, `BondingAwaitsSomething`, `PairAnsweredOnce` |
| `Mgmt_proofs` | `MgmtTypeCorrect`, `NoWakeupLost`, `RequestOwnedOnce`, `TearDownComplete` | `TypeOK`, `QueueMoves`, `RequestsOwnedOnce`, `TornDownWhole` |

*Listener: threads.* `IInv = TypeOK /\ CallInv /\ ThreadInv`. `CallInv`
says that the calls the listen thread works on exist (types alone do not bound
`cur` by the length of `calls`). `ThreadInv` ties the owner's place to the
existence of the thread, the skeleton and the Socket: for instance, from
`Join` to the end of `closeConnection` there is no listen thread unless the
function is `disconnect()`. Without it neither property is inductive: the
invariant must know *where* in startListening the owner is to rule out a
handler in the window before `_p_socket` is set.

*Listener: closing.* `QueuedStayOpen` and `ClosesOwn` have no hypothesis: disconnect() may
run in every place of a handler. The invariant is `RaceInv`. Two threads can be inside
`closeConnection` only when one of them handles Release, and Release is the last call
there is (`ReleaseInv`): the profile is no longer registered, and to register it again the
owner would first have to unregister it, which fails. So the number that is closed for the
second time has not been given to a new connection. For the rest `SockInv` says that the
number in the Socket is a handed-over duplicate, except while the owner is between its
close and its store, when it may be that of a connection that waits; no handler closes it
then, since only Release makes one close.

*Listener: descriptors.* `SocketIsLatest` and `SocketImplementsSlot` are about owners that
do not call disconnect(), whose late store may empty the Socket again.
`SocketImplementsSlot` is the refinement of `ConnectionSlot` under the mapping *link =
the link of the descriptor in the Socket, unless that descriptor was closed and the
field not yet cleared*. The invariant `DescInv` has four parts: the order of calls
(handled calls are older than the running one, which is older than those that wait), who
is inside `closeConnection` (never both threads), that the Socket holds the latest link,
and that no descriptor has two owners.

*Listener: assertions.* `NoAssertion` assumes of the constants what `listener_main`
gives them: the owner only stops and starts, the daemon stays, and there are two
descriptors for each connection the daemon makes. The last is a pigeonhole argument
(`DescriptorLeft`): `LinkInv` says that a link has at most two open descriptors, that of
its message and the duplicate of its handler, and one until its handler runs, so the
descriptors map one to one into pairs of a call and a place, of which one is still free.
`CalmInv` adds that the daemon knows the profile from the answer to RegisterProfile to
the call of UnregisterProfile.

*Reader.* `HeaderInv` says that the header `main()` holds is the last character it took
of that header's link, so that the body read next from the same link is its frame's;
`FreshInv` that nothing has been read of a link newer than the header's, so that a body
read after the Socket was replaced is that link's beginning; a read of less than the whole
body does not get past the assertion of `readData`;
`AtBoundaries` says where `main()` is inside the frames when they arrive whole. The
arithmetic of frames (a body begins one after a multiple of the frame's length) is in
four lemmas over the nine possible lengths.

*ExtProfile.* The conjunction of the five invariants is inductive, none of the middle
three is by itself: that freeing a connection takes away nothing a service waits for
follows from what a record can await (a record with a RequestDisconnection pending
is accepted, so no CONNECTING service waits for it). Four lemmas carry the
argument, one per kind of step (`DropStep`, `UpdateStep`, `AddStep`, `ServiceStep`);
each action then only shows that it satisfies the side condition of its kind.

*DeviceConnect.* `SlotInv` says that no call is held by two fields, `AnswersInv` that the
calls somebody still owes an answer are exactly those without one. Neither can do
without the other: an answer is the first one because the field that held the call was
its only holder. `TimerInv` (the disconnect timer runs on a link only) is what makes a
second Disconnect that finds the timer running safe to keep.

*AuthQueue.* `CountInv` writes the count of an agent as the sum of its holders: the list,
the head of the queue, the pairing and its question. It needs `HeadInv` (only the head
of the queue was ever asked about), and this needs that the queue is processed from the
head only. `BondAskedInv` (a pairing's question is at its own agent) was found when the
step in which the pairing is answered turned out not to be inductive. `AskInv`, while no
trust changes: the question that is out is about the head; this is all that makes
`agent_auth_cb`, which looks at the head and not at the question, answer the right one.
`MoveInv`, undisturbed: `auth_idle_id` is set exactly when the idle source exists, and a
head that was asked about is being asked about.

*Pairing.* The invariant has a part per concern. *Agents* (`AgentInv`): `CountInv` bounds
an agent's count from below by the list, the bonding requests and the authentications
that hold it, and `AskInv` says that a question is that of the authentication that holds
the agent. So an authentication that ends and cancels the question of its agent leaves no
question of its own anywhere; and what goes with the last reference, the agent's question
included, is nobody's, since nobody holds the agent then. *Calls*
(`CallInv`): a call is in one place (`CallPlaces`: a bonding request, a discovery or the
dropped ones) and an answer was given exactly when it is in none; every step is an
instance of one lemma, in which one device's calls move, are dropped or answered
(`Moves`, `CallStep`). *Commands*: `AwaitInv` and `CommandInv`. `CommandInv` must know of
`pair_device_timeout` also after the kernel was told to cancel (a timer that runs is the
one it names), or the kernel's answer could leave a timer behind; and it needs `PinInv`:
where nobody knows a PIN there is no retry, because by the time a PIN was asked for the
request of the command has none left. *Questions* (`LostInv`): a lone device's question
that is not with its agent was lost to a refused Pair, so a command is out and no
request; hence the next Pair is refused as well and nobody waits for the lost answer.
*Crashes* (`CrashInv`): while nothing is removed, `AskInv` makes `StaleReply` impossible, and
an agent that is asked and listed has two holders, so that a program that leaves does not
drop the last reference (`DisconnectQuiet`). `InvolvedInv` says that the devices `ops` leaves alone have no part in it. The endings
of an attempt (the kernel's answer, a key, failures, a disconnect, CancelPairing) share
one lemma (`EndStep`), over the three things that can become of a request: it stays for
a retry, is freed, or is overlooked because the device is paired.

*Mgmt.* `PlaceInv` and `FrameInv` say that a request is in one list, in one running
callback, or destroyed; `OutInv` that what is pending was written and is unanswered, in
that order, so that an answer finds the right request however many were cancelled
before; `WakeInv` that requests wait for a writer, for an answer or for the callback of
one; `RefInv` that the references are the client's own and that of `can_read_data`;
`NotifyInv` that a listener is in the list or released and removed ones are cleaned up
by the event they were removed in. Callbacks may call everything, so every action is
proved to keep all of these at any depth of callbacks.

What stays with TLC: the liveness properties (`CallsAreTaken`, `TransitionsEnd`,
`OwnerCallReturns`, `FramesAreRead`, `RequestsAnswered`, `HeldCallsAnswered`,
`PairingEnds`, `RequestsEnd`), since the prover treats neither fairness nor ENABLED, and
the runs that end in a violation. Every invariant and every action property of the runs
that pass is a theorem.

## 5. Not modelled

* The data race on `_heartbeat` is modelled as a read of the current value; the
  library calls in the loop keep a compiler from caching it.
* A read by `main()` while another thread is between `close` and the store of
  `-1` could reach a reused descriptor; Reader sees the slot change in one step.
* In Pairing, an answer of the kernel that is too short to be read (adapter.c:7102), which
  leaves the bonding to a disconnect, and the removal of a temporary device after a failed
  connection (adapter.c:8230): Pair makes its device permanent (device.c:2486).
* Time: the one-second and four-second sleeps and the 25-second D-Bus timeout are
  not quantified. A time-out is one of the answers of a synchronous call.
* `writeData`, `setTimeout`, `isDataAvailable`, `getConnectionState`: nothing
  calls them.
* In the daemon: blocking a device (`device_block` removes services of a device
  that stays), the policy plugin's callbacks, server-only and client-only profiles,
  LE bearers and GATT, several adapters, the end of an adapter or of the daemon
  itself (`adapter_free`, `btd_agent_cleanup`), what is stored on disk.
* A broken management socket (`can_read_data` and the write watch then stop for good),
  and integer wrap-around of request numbers.
* `src/Agent/Agent.cpp` does not compile (`Agentt::`, `Agent:removeAgent`, semicolons
  before function bodies), so there is no agent program to model; what an agent can do
  is part of AuthQueue and Pairing.
* The rest of BlueZ (SDP, GATT, audio, mesh, OBEX, tools, Android) is a vendored
  release the tutorial's programs do not meet. It is most of the repository's lines.

## 6. Plan

1. `Listener`, `ConnectionSlot`, `Reader` with their runs, and the proofs about
   Listener (done).
2. `ExtProfile` with its runs and proofs (done).
3. `AgentManager`, `AuthQueue`, `DeviceConnect`, `Pairing`, `Mgmt` with their runs (done).
4. Proofs of all safety properties of Listener, Reader, ExtProfile, DeviceConnect,
   AuthQueue, Pairing and Mgmt (done).
5. `ProfileSystem`: `ExtProfile` composed with the program's handlers, and an abstract
   service that ExtProfile implements.
