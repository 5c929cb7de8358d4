# The skynet game server: specifications, checks and proofs

This directory holds TLA+ specifications of the game server in this
repository and of the part of the skynet runtime that it runs on, the TLC
configurations that check them on small instances, and theorems about them
that TLAPS has checked.

- [The system](#the-system): components, state, interactions, what is hard
- [Plan](#plan): the modules, in the order they are written
- [The scheduler](#the-scheduler-kernel), [the timing wheel](#the-timing-wheel-timewheel),
  [the gateway](#the-gateway-gateway), [the socket
  server](#the-socket-server-socketserver), [sessions](#sessions-sessions),
  [the runtime timer](#the-runtime-timer-runtimetimer): what each model is
  and says
- [Runs and bounds](#runs-and-bounds), [fairness](#fairness),
  [proofs](#proofs), [findings](#findings), [not modelled](#not-modelled)

To check a model: `tlc -config timewheel.cfg MCTimeWheel.tla`; to check the
proofs of a module: `tlapm KernelProofs.tla`.

## The system

A node is one process of the skynet runtime: a few worker threads, a timer
thread and a socket thread in C, and *services*, most of them Lua states, that
share nothing and send each other messages.  The game is a set of Lua services
started on such nodes: a gateway that talks web socket to clients, login
services, one login manager, game services, an admin service and a logger.

### Components

| Component | Code | State | Operations |
|---|---|---|---|
| Scheduler | `skynet_server.c`, `skynet_mq.c`, `skynet_handle.c`, `skynet_start.c` | the handle table; per service a context with a reference count and a message queue; the global queue of queues; each thread's local variables | launch, send, kill, exit, abort; take a queue, pop, dispatch, hand back; mark and drop queues; sleep, wake, quit |
| Handle names | `skynet_handle.c` (names), `cmd_reg`, `cmd_name`, `cmd_query` | a sorted array name to handle | name, find |
| Runtime timer | `skynet_timer.c` | near and far lists, the clock | add, shift, execute |
| Socket server | `socket_server.c` | slots of sockets, the request pipe, send buffers | start, close, shutdown, send, poll |
| Lua service host | `service_snlua.c` | the Lua state, a signal flag | init by a first message, callback |
| Coroutines and sessions | `lualib/skynet.lua` | tables session to coroutine, coroutine to address, sleeping and woken coroutines | call, send, ret, error, sleep, wait, wakeup, fork, exit |
| Socket library, web socket | `skynet/socket.lua`, `http/websocket.lua` | `socket_pool`, `ws_pool`; per socket a buffer, the waiting coroutine, the closing one | start, read, write, close; accept, frames |
| Socket channel, database drivers | `socketchannel.lua`, `db/*` | a request queue per channel | request, reconnect |
| Cluster | `cluster.lua`, `clusterd`, `clustersender`, `clusteragent` | node to sender, pending opens | reload, open, call |
| Launcher, service manager | `launcher.lua`, `service_mgr.lua` | services being launched, unique services | launch, ack, error, query |
| Game timing wheel | `lualib/timewheel.lua` | slots of nodes, the current slot, name to node | add, cancel, tick |
| Gateway | `service/base/gateway.lua` | connections, players, ping stamps, an exit flag | connect, message, close, heartbeat, confirm, send, kick, exit |
| Login, login manager | `service/base/login.lua`, `login_mgr.lua`, `lualib/service.lua` | players and their status | login, reqlogin, reqkick |
| Game service, event bus | `service/srv_game.lua`, `lualib/event.lua`, `system/*` | players, timers, subscriptions | login, tick, kick |
| Admin, start-up | `service/base/admin.lua`, `service/main.lua` | a console per connection | stop |
| Logger, configuration, messages | `service/base/logger.lua`, `etc/`, `config/` | files, tables | write |

### How they interact

- A *message* is a struct pushed to the queue of the target's context.  The
  queue is scheduled by being in the global queue once; a worker takes it,
  pops a few messages, runs the callback for each, and puts it back.
- A Lua service's callback resumes or starts a *coroutine* per message.  It
  runs until it waits (a call, a sleep, a socket read); then the coroutines
  it woke run; then the next message is dispatched.  A Lua service is thus
  sequential between waits, and everything it read before a wait may have
  changed after it.
- The *socket thread* turns what happens on sockets into messages to their
  services, and reads requests from a pipe that the services write to.
- The *gateway* hands a client's messages to a login service until the client
  has logged in, and then to a game service.  The login service asks the
  login manager, which picks a game service and asks the gateway to confirm.
- *admin* stops a node: it calls `srv_exit` on each service, sleeps, and
  calls `skynet.abort()`.

### What is hard, and what makes each part correct

- **Scheduler** (threads, shared memory).  One queue is in one place; no two
  threads run one Lua state; no message is left in a queue nobody schedules; no
  memory is used after it was freed or freed twice; every request is run or
  its sender told; the node can be stopped.
- **Sessions** (callbacks, errors in between).  A response resumes the
  coroutine that asked and no other; a coroutine that waits is resumed or told
  of an error; exit leaves no caller waiting.
- **Socket server and library** (two threads, events in any order).  The end
  of a socket is reported once; data is not lost or given to another socket; a
  coroutine that waits on a socket is woken when the socket ends.
- **Runtime timer, timing wheel** (arithmetic, re-entrance).  No timer fires
  before its time, none much later, each once.
- **Gateway** (waits, several ends to a connection).  Every connection's end
  is handled once; the tables agree; exit closes all and ends.
- **Login** (a protocol of four services with waits).  A player is in one
  game service; a kick and a log-in at a time leave no half-logged-in player;
  counts of players agree with the players.
- **Cluster, channel, launcher** (waits, failures).  Requests made while a
  node is opened or a channel reconnects are answered or fail; one unique
  service is made per name.

`PROJECT.json` lists each hazard at its line, with the properties that cover
it, or why none does.

## Plan

Written, in this order:

1. `Kernel` with `KernelProperties`, the abstract specification `Mailbox` that
   it implements, the inductive invariant `KernelInvariant` and the proofs
   `KernelQueueProofs`, `KernelRefProofs`, `KernelProofs`.
   Everything else relies on what it promises: one callback at a time, in
   order, no request lost.
2. `TimeWheel` and `TimeWheelProofs`: the game's only non-trivial data
   structure.
3. `Gateway`, `GatewayInvariant` and `GatewayProofs`: connections on the socket
   library and the socket server.
4. `SocketServer`, `SocketServerInvariant` and `SocketServerProofs`: ids, the
   request pipe, direct writes by workers, half closes.
5. `Sessions`, `SessionsInvariant` and `SessionsProofs`: the coroutine and
   session tables of Lua services that call each other over mailboxes.
6. `RuntimeTimer` and `RuntimeTimerProofs`: `skynet_timer.c`, run with small
   levels, proved for levels of any width.

Every invariant and the refinement that the runs check are proved.  What is
left, of the code: `select` and `killthread` in `Sessions`, UDP in
`SocketServer`, then the socket channel and the cluster, which this game
configures but does not use.

## The scheduler (Kernel)

**State.**  `slot` is the handle table, `ref`, `cmem` and `ready` the
reference counts, memory and init flags of contexts; `queue`, `qmem`,
`inGlobal` and `release` the message queues and their flags; `gq` the global
queue.  A worker's program counter `pc` and its locals `wq` (q), `nq`, `ctx`,
`left` (n - i) and `cur` are those of `skynet_context_message_dispatch`.  Calls
that a thread is in the middle of are in `to` and `msg` (a push), `rel` (a
release), `del` (a deletion) and `job` (a launch or an abort sweep).

**Steps.**  One step is one section of code under a lock, or one atomic
decrement.  Threads interleave between any two steps.  The sections are those
of the code: `skynet_mq_pop` clears `in_global` in the same critical section
in which it finds the queue empty; `skynet_mq_push` tests and sets it in its
own; `skynet_mq_mark_release` and `skynet_mq_release` nest the global lock in
the queue's.  A callback is what happens between `MqPop` and `Return`: it
may send, launch, kill, exit or abort (`Command`), each with its own steps.
`Init` is the node when `skynet_start` has created the threads: logger and
bootstrap are up.

| Code | Definitions |
|---|---|
| `thread_worker`, `skynet_context_message_dispatch`, `dispatch_message` | `Loop`, `Grab`, `NextQueue`, `MqPop`, `MqLength`, `Return`, `Turn`, `PutBack` |
| `skynet_mq_push`, `_pop`, `_mark_release`, `_release`, `_drop_queue`, global queue | `MqPush`, `MqPop`, `DeleteContext`, `MqRelease`, `DropMessage`, `FreeQueue`, `GlobalPush` |
| `skynet_handle_register`, `_retire`, `_grab`, `_retireall` | `Launch`, `HandleRetire`, `Grab`, `ScanSlot`, `ScanPass` |
| `skynet_context_new`, `_release`, `delete_context` | `Launch`, `InitReturns`, `SetInit`, `Publish`, `UseResult`, `RetireFailed`, `ReleaseFailed`, `ContextRelease`, `DeleteContext` |
| `skynet_send`, `cmd_kill`, `cmd_exit`, `cmd_abort`, `cmd_launch` | `Send`, `Kill`, `Abort`, `Launch` |
| worker sleep, timer thread's wake and quit | `Sleep`, `Wakeup`, `Quit`, `Joined` |

**Abstractions.**  A handle is the service it was issued to, issued once (the
24-bit counter does not wrap).  `Launch` is one step for
`skynet_handle_register`, `skynet_mq_create` and the second reference; the
window in which `ctx->handle` is still 0 only costs a sweep another pass.  The
messages that `skynet_error` sends to the logger, the overload warning, the
monitor, profiling, exit notices to `cmd_monitor`, names and the harbor are
left out.  A message is the index of its request in `log`, a history variable
in which every request has its source, target and fate; the error reply to
request i is -i.

**Properties** (`KernelProperties.tla`).  `OneOwner`, `NoConcurrentDispatch`,
`NoStrandedQueue`, `NoDanglingContext`, `NoDanglingQueue`, `DeletedOnce`,
`InitBeforeDispatch`, `RequestAccounted` and `InOrder` are invariants;
`RequestSettled`, `RetiredIsFreed` and `NodeStops` need fairness.
`RetiredIsFreed` speaks of what was retired, and of every service that a pass of
`skynet_handle_retireall` has still ahead of it, whoever else kills or launches
while the sweep lets go of the lock between two slots.
`ImplementsMailbox` says that all of this is, seen from the services, a set of
mailboxes each emptied by one callback at a time (`Mailbox.tla`).  The
refinement mapping takes a service to be open from its init flag to
`delete_context`, and its callback to be that of the worker that holds its
context and a message.

## The timing wheel (TimeWheel)

**State.**  `slots`, `currentslot`, `ticktime` and `name2node` are the fields
of `time_wheel`; a timer is the index of its node in `node`.  `upto` is the
`now` of the last `tick2now`, `pos` the index of the `ipairs` loop in
`tick_once`, `calling` the node whose callback runs.

**Steps.**  `AddTimer` and `CancelTimer` are the calls, possible between ticks
and inside a callback; `Tick` enters `tick2now`; `Call`, `Skip`, `Return` walk
a slot; `Advance` is the end of `tick_once` with the loop test of `tick2now`;
`Raise` is an error in a callback, which `srv_game`'s `xpcall` catches with
the slot uncleared and the wheel where it was.  `ipairs` sees nodes appended
to the slot in hand, which is why the target slot matters.

**Assumption.**  A node has no count of rounds, so a delay must stay below
N - 1 slots (`ReachAssumption`): with a longer one the timer comes a turn
early.  Nothing in the repository calls `add_timer` yet.

**Properties.**  `NotEarly`, `NotLate` (within an interval of its time or of
its addition, once a tick has caught up), `OncePerFailure` (a raise repeats the
callbacks of its slot, each raise at most once), `PendingIsInOneSlot`,
`CancelReaches`.  None of them promises progress: a callback that raises at every
tick stops the wheel, in the code as in the model.

## The gateway (Gateway)

Three layers of Lua in one service, and the socket thread.

**State.**  `link`, `request` and `report` are the socket in
`socket_server.c`, the commands in its pipe and what the service has not been
told yet.  `open`, `connected`, `reader`, `closing`, `needed` and `buffer` are
`socket_pool` and the fields of its entries.  `ws` is `ws_pool`; `conns`,
`pinged` and `exiting` are the gateway's tables.  `run`, `woken` and `pc` are
the coroutines: which one has the service, `wakeup_queue`, and where each is.

**Steps.**  A message is dispatched only when no coroutine can run (`Idle`);
a coroutine then goes on from step to step until it waits.  One coroutine per
connection is `websocket.accept` (`Started`, `Loop`, `Read...`, `Got...`,
`Leave`, `Finish`); the coroutine `Exit` is `exitfunc` (`ExitNext`,
`ExitClosed`, `ExitDone`); both may be in `socket.close` (`Shut...`).

*A start that fails.*  A client may be gone before its coroutine runs: epoll
closes the accepted socket by force (`HangUp`), reports an error of it
(`Fails`), or `resume_socket` does not find it or cannot read it (the second case
of `ServeStart`, told by `ToldFailed`).  `socket.start` then takes the socket out
of `socket_pool` and returns nil; `Started` goes on as `websocket.accept` does,
and `assert(s)` fails in the first read.  `refused` is the history of these
connections.  `Lost` is a half-closed socket that epoll closes later.

**Abstractions.**  The mailbox is a FIFO queue (`Mailbox`), and when an event
of a client entered it is not observable, so an event is generated when it is
dispatched; only what the socket thread reports after a command (`report`) and
the gateway's messages to itself (`mail`) are kept while they wait.  Input is
cut into the pieces that `read` asks for: handshake, head of a frame, payload;
one message may bring several.  Pausing on large buffers, TLS, fragmented
messages (each frame is its own) and the contents of messages are left out.

No client can log in as the code stands: `choice_srv_login` indexes
`cfgnode.login`, which `etc/runconfig.lua` does not have, and raises.  The
model is therefore that of clients which have not logged in
([not modelled](#not-modelled)).

**Properties.**  `SocketAsserts`: the asserts with which `socket.lua` guards a
wait (not `s.co`, not `s.read_required`, not `s.closing`) hold, though two
coroutines use one socket, and `assert(s)` fails only in a connection whose
`socket.start` had failed.  `ClosedOnce`.  `ExitClosesAll`: nothing is entered
behind the traversal of `client_conns`, which waits at each entry; a connection
accepted meanwhile is not entered, and of that one it says nothing.
`OpenIsKnown`.  `ExitReturns`: the exit ends, though it waits on readers that wait
on clients.  `StampedIsClosed` (only connections that have ended carry a stamp)
is no property of a run but a fact the guard of `CheckMessage` relies on; it is
part of the inductive invariant, and proved.  `SilentIsClosed`, what the comment
says of the heartbeat, is violated (see [findings](#findings)), as are
`WaitersAreKnown` and `EndedIsForgotten`.

## The socket server (SocketServer)

**State.**  `sock` is `ss->slot`; a socket has its type, id, flags, the count
and tag of `sending`, the two send lists, the rest of a direct write and the
holder of `dw_lock`.  `pipe` is the control pipe, `ev` what is left of a batch
of events, `ctl` where `socket_server_poll` is, `fc` a `force_close` that waits
for `dw_lock`, `call` where each worker is in its call.  `peer` is the other
end, `wire` what the kernel has taken from us, `told` what the socket thread has
reported to the owner; the last two are histories.

**Steps.**  Workers: `Reserve` and `Fill` (`reserve_id`, which takes a slot and
fills it in later), `Order` and `Post` (a request is written to the pipe),
`Send`, `SendDirect`, `KeepRest` (a direct write, with `dw_lock` taken by a try),
`IncSending`.  The socket thread: `TakeRequest` with one operator per
`ctrl_cmd` case; `Wait` for events; `OnEvent` with the cases of
`socket_server_poll`; `ForceClose` in its two parts.  The network: the peer ends
or resets a connection; a write may take any number of units, or fail.

**Properties.**  `WireWhole` (messages leave whole, once, to the right socket,
whoever writes them), `SendOrder` (of one worker to one socket),
`SendingCounted` (`sending` counts the requests of this socket, not those of an
earlier one of its slot), `ToldOnce` (a close is raised once, nothing but errors
after it, and the owner of a socket that is gone was told of its close, or that
it could not be opened).

**What the models leave open.**
- *A slot taken but not filled.*  `reserve_id` swaps the type by
  compare-and-swap and writes the id later, so for a moment a reserved slot
  carries the id of its last socket; a request or an event for that id then
  works on it, or fails the assert in `force_close`.  The model reaches this,
  sets `failed` and claims nothing of what follows.
- *Freed before locked.*  `force_close` frees the send lists before it takes
  `dw_lock`.  In between a worker may find nothing queued and write directly
  behind half a message.  The socket is about to be closed; its id is in `cut`
  and `WireWhole` leaves it out.
- *Close before send.*  A close that comes while a send is counted but not yet
  in the pipe leaves the socket closing; the send is then dropped and nothing
  closes the socket until its peer resets it.  No property states the contrary.
- UDP, bind, socket options, failures of the poller, the 16 bits of the tag and
  the limit of `sending` are left out.

## Sessions (Sessions)

Lua services on the mailboxes of `Kernel`: what `skynet.lua` promises to those
who use `call`, `ret`, `sleep`, `fork` and `exit`.

**State.**  Per service the tables of `skynet.lua`: `wait`
(`session_id_coroutine`, with `Break` for `"BREAK"`), `watching`, `unresponse`,
`errorq`, `forkq`, the sleep that can be woken (`token`) and the length of
`wakeup_queue`; `phase` and `run` say which coroutine has the service.  A
coroutine is known by the request it serves, all that the tables use it for.
`calls` is the history of the sessions.

*Addresses.*  `skynet.call` takes a handle or a name, and `watching_session`
keeps what it was given (`skynet.lua:693`).  `named` is the set of sessions that
it has with a name; `CallService` makes both kinds, to the services `Named` by
name.  Names go when the handle is retired, so that a call by name of a service
that has exited fails at once.  A notice of death carries a handle, with which
`_error_dispatch` compares what is kept (337): `TakeNotice` finds no session of
`named`.  Such a call comes back by its answer, by the error that `Exit` sends for
a request it has read, and by nothing else.  `stranded` is the history of those
whose request lay unread in the mailbox when the service exited.

One coroutine of a service sleeps at a time (`token`), a narrowing: `skynet.sleep`
lets any number.  `wait`, `select`, `killthread`, tracing, messages too large to send
and the wrap of session ids are left out.

**Steps.**  `Take...` is `raw_dispatch_message` for one kind of message;
`DispatchWakeup`, `DispatchError`, `EndChain` the chain that `suspend` runs
after each coroutine; `RunForked` the loop of `dispatch_message`.  What a
coroutine does is arbitrary (`Program`); `Raise` is an error nobody caught, with
the report to the caller and the empty fork that takes the chain up again;
`Exit` is `skynet.exit`.  `Discard` is the fate of messages to a service that
has exited: the rest of the turn goes to the empty callback, the others to
`drop_message`.

**Properties.**  `CallAccounted`: for every call that waits, the request, an
answer, an error or a notice that finds it is somewhere; exempt are the calls by
name in `stranded`, which the code forgets.  `ResumedOnce`: by one of these, once,
with no answer to an unknown session.  `ExitIsNoticed`: a call of a service that
has exited comes back, with the same exemption.  That each call *eventually* returns is not claimed: a
program may keep an answer for ever, or two may wait for each other.

## The runtime timer (RuntimeTimer)

**State.**  `time`, `lists` (`near` and `t`), `expire` of each node, the place
in `timer_update`, the updates left of this `skynet_updatetime`, the list that
`move_list` deals out (`moving`) and the one being dispatched (`firing`).
`asked`, `older` and `ticks` are histories: the timers that have not fired, of
which two of them the first was set earlier, and the ticks until each is due.

**Steps.**  `SkynetTimeout` is a worker, whenever the lock is free;
`UpdateTime`, `TimerShift` (the first `timer_execute`, and `timer_shift` as far
as it unlinks a list), `MoveNode` (the loop of `move_list`, under the lock),
`SecondExecute`, `EndUpdate` and `Dispatch` (one service's answer, without the
lock) are the timer thread.  `SlotOf` is the choice of `add_node`, `Deals` and
`Dealt` those of `timer_shift`.  `Near`, `Level`, `Levels` and `Unit` stand for
2^8, 2^6, 4 and the products of these; masks and shifts are remainders and
quotients by `Unit`.  Time wraps at the last `Unit`, as it does at 32 bits.

**Properties.**  `OnTime`: the list being dispatched holds the timers that are
due in this tick, no other and no fewer, whatever lists they came through.
`InOrder`: in the order in which they were set.  Time is that of `T->time`,
which lags behind the clock while the thread catches up; a timer set then may
be early by as much.

## Runs and bounds

| Run | Instance | States | Shows |
|---|---|---|---|
| `kernel_dispatch` | 2 workers (one message a turn; all that is queued), timer thread, 2 services, one killable, 4 requests | 2.0 M | the turn, hand-over and drop of queues in every interleaving; order and account of requests |
| `kernel_launch` | 2 workers, a third service launched, killed, swept; 2 requests, 1 abort | 0.3 M | ownership, references, init, refinement of `Mailbox`, `FullInv`, shutdown; requests settle, retired services are freed |
| `timewheel` | 3 slots of 2 units, 2 names, 3 timers, clock to 8, 1 raise | 12 M | the wheel turns more than once; callbacks add, cancel, raise |
| `gateway` | 2 clients, each a handshake and a frame | 1.4 M | two connections, started or refused, and an exit in every order |
| `socket_server` | 2 slots, 2 workers, 3 messages of 2 units, ids to 4, one event a batch; 3 calls of an empty server, or 2 more of one that listens, is connected, or is about to write directly | 1.4 M | requests, direct writes, events and reuse of slots in every order |
| `sessions` | 2 services, one with a name, 3 sessions, 1 fork, 1 wake-up, one message a turn | 1.1 M | calls both ways and to oneself, by handle and by name, sleeps, errors, exits of either or both |
| `runtime_timer` | 3 timers, 3 levels and near of 2 slots each, time of 4 bits, delays to 7, 2 ticks behind | 0.4 M | every cascade, the wrap, timers set in the middle of an update |
| `sessions_batch` | as `sessions`, several messages a turn | | a counterexample, see [findings](#findings) |
| `kernel_launched`, `gateway_orphan`, `gateway_forget`; `gateway_silent` (one client) | as above | | a counterexample each, see [findings](#findings) |

Why the bounds suffice to be of use: the scheduler's races are between a
pusher, the worker that has the queue and the worker that gets it next, so two
workers and a third thread that posts make all pairs; one queue with two
messages and one with none distinguish a turn that ends from one that goes on;
one service that dies makes every drop.  (For safety, the proofs lift the
bounds.)  The wheel needs more than N slots of time so that a stale node can be
met again, and two timers of one name.  A gateway connection ends in each of
the ways the code has with one frame after the handshake; the second
connection is there for the traversal and for the wake-up order.  Two slots of
the socket server and four ids let each slot be used again while the request of
an old id is in the pipe; two units are the least that a write can cut.  The run begins in
four states (`MCSocketServer`), so that calls are not spent on opening a socket: an
empty server; a listener; a connection; and a connection with a worker that has
chosen to write its first message directly, from which three messages of two
workers, or a message and a new socket in the old slot, are within the bound.  Two
services and three sessions hold a call that waits on a call, a call to oneself,
and a sleep beside a call; one message a turn is what workers of weight -1 take
(threads 0 to 3), and all workers at the end of a queue.  Four bits of time with
three levels beyond near exercise the loop of `timer_shift` at every depth, and
delays go up to half the range, as an `int` does.  Symmetry is used in
`timewheel` (names), `socket_server` (workers) and `runtime_timer` (timers),
where no liveness is checked.

`MaxMsg`, `MaxAbort`, `MaxTimer`, `MaxTime`, `MaxRaise`, `MaxFrame`, `MaxId`,
`MaxSend`, `MaxCall`, `MaxBatch`, `MaxSession`, `MaxFork`, `MaxWake`, `MaxDelay`
and `MaxDiff` are the bounds; each is a guard of the action it bounds.  Deadlock
is checked in every run but those of `Sessions`: a node that has quit and a gateway that
has exited stutter, while services that have all exited, or used up their
sessions and wait for a message, have no step left.

Each property has a mutant in `PROJECT.json`: a form of a definition with a
plausible bug (a flag not reset, a missing wake-up, a reference dropped twice)
under which the run finds the property violated.

## Fairness

- `Kernel`: weak fairness of each thread's progress and of the timer thread's
  wake-ups (`Fairness`).  The operating system schedules threads; callbacks
  return (a Lua service that loops for ever is what the monitor warns of); the
  timer thread wakes a sleeping worker every 2.5 ms when some are asleep.
  Nothing obliges a service to send, launch, kill or abort.
- `Sessions`: weak fairness of each service's dispatch and of its running
  coroutine: services are scheduled (`NoStrandedQueue` in `Kernel`), and a
  coroutine ends, waits, raises an error or exits in the end.  Timers promise
  nothing.
- `Gateway`: weak fairness of the service and of the socket thread's pipe.
  Clients promise nothing: they may never send, hang up or fail.  `BeatSpec`,
  for `SilentIsClosed` alone, adds weak fairness of the heartbeat check, so that
  its counterexample is not a gateway that has ceased to check.

## Proofs

All with TLAPS 1.4.5, SMT (Z3), Zenon and LS4 for the temporal steps; no
step is left without a proof.

**Kernel.**  Assumptions: `ThreadAssumption` (finite sets of threads),
`ServiceAssumption`, `WeightAssumption`, `BoundAssumption` (the node may send at
least one message).  Any number of workers, posters, services, any weights, any
bound on messages.

`OneOwner` is not inductive: that a queue whose flag is clear may be scheduled
depends on nobody holding it, which depends on where each worker is.  `IInv`
(`KernelInvariant.tla`) adds
- `WorkerInv`: which locals are set at each `pc` (`KernelQueueProofs`);
- `CallInv`: a thread is in one call at a time;
- `FlagInv`: a set flag means the queue is owned; an owned queue whose flag is
  clear was marked for release; an owned queue is allocated; a queue with
  messages has its flag set;
- `RefInv`: the reference count of a context *equals* the number of references
  held, counted as a finite set of (kind, holder) pairs, so that the decrement
  to zero means nobody is left (`KernelRefProofs`);
- `LifeInv`, `DeleteInv`, `DropInv`: the order in which a context and its queue
  come and go;
- `ReadyInv`: whatever can reach a worker is initialised or out of the table.

`KernelQueueProofs` begins with the type invariant; one lemma per conjunct takes
`IInv /\ [Next]_vars` to its primed form, one step per action; `StepInv`
collects them; `KernelProofs` has `Invariance` and the theorems of the
properties that follow.

`RequestAccounted` and `InOrder` are about requests, of which `IInv` says
nothing.  `FullInv` adds `LogInv`:
- `MessageInv`: what a thread carries, a queue holds or a worker runs is a
  message for that service, from a service that was created;
- `SenderInv`: a service sends from its callback or its init and carries one
  request at a time, the last it sent.  This is where order comes from: it
  needs `OneOwner`, or two workers could race with two requests of one
  service;
- `SortedInv`: two requests of one source wait in a queue in the order they
  were sent;
- `OrderInv`: what has begun to run has no earlier request of its source still
  on its way; with `SortedInv`, the head of a queue may begin.

The refinement (`SchedulerIsMailboxes`) takes `FullInv` and shows that a step of
a thread is a step of `Mailbox` or a stutter, action by action: `Launch` is
`Create`, `SetInit` is `Open` (or a stutter, when the service was deleted
first), `MqPush` `Deliver`, `MqPop` `Begin`, `Return` `End`, `DeleteContext`
`Close`, a drop `Discard`; all else stutters.  The mapping
(`KernelProperties.tla`) reads the state of a mailbox from the flags of its
context and queue, and what it has in hand from the worker that handles it:
`OneOwner` makes it one worker, and `RefInv` keeps what it handles from being
deleted.

**TimeWheel.**  Assumptions: `WheelAssumption`, `ReachAssumption`,
`BoundAssumption`.  `IInv` relates each node's time to the distance of its slot:
`SlotsInTime` says that a node in the slot `k` places ahead is due before
`ticktime + k * Interval`; arithmetic lemmas about the division and the modulus
of `add_timer` show that a new node satisfies it, and `Advance` moves every slot
one place nearer while `ticktime` grows by one interval.  That proves
`NeverEarly` and `CancelAlwaysReaches`.  The other three need to know where each
timer lies, which `WInv` adds: no node lies in two places (`Apart`), one that
is to run lies somewhere (`Held`), what `ipairs` is past is not to run again
(`Passed`), a slot comes within an interval of the time or the birth of what it
holds (`SlotsSoon`), and what `ipairs` is not past has run no more often than
callbacks have raised (`RunsLow`).  `NotLate` is `Held` and `SlotsSoon`;
`PendingIsInOneSlot` is `Held` and `Apart`; `OncePerFailure` is `RunsLow`, which
is not inductive without `Apart`: were a node in two slots, it would run twice.

**Gateway** (about 1,700 obligations).  Assumptions: `NameAssumption`
(`Exit` and `NoOne` are no connections) and `BoundAssumption`.  Any number of connections, frames and
inputs.  Each of the properties follows from the interplay of the coroutines of
all connections and `exitfunc`, so `GInv` (`GatewayInvariant.tla`) is one
invariant whose parts keep each other up:
- `RunInv`, `WakeInv`: one coroutine has the service, at most one is woken, and
  `wakeup` wakes what waits at the place it waits for;
- `ReadInv`: `read_required` is set while the reader waits, and stays set only
  when the socket was closed under it; what reads has its socket, or was refused;
- `StartInv`: until `socket.start` returns the coroutine is in no table, and it is
  woken or its request is on its way to an answer, be it "start" or an error
  (`Asked`); a refused socket is in the pool no more, and its coroutine is past
  the start;
- `ShutInv`: `exitfunc` closes one connection at a time, whose coroutine reads,
  and which it has taken out of `ws_pool`;
- `TableInv`: who is in `ws_pool` is read; it is in `client_conns` or about to
  leave; and no stamp of it is on its way, which is why `StampedIsClosed` holds
  although stamps travel in messages;
- `CloseInv`: `handle.close` has not been called before the way out.

TLC has checked `GInv` on the instance of `gateway`.  Each action keeps each
part (`GatewayProofs`); the theorems are `GatewayTypes`, `AssertsHold`,
`HandleClosedOnce`, `ExitLeavesNoneOpen`, `NoneOpenUnknown` and
`HeartbeatClosesNone`.

**SocketServer** (about 6,900 obligations).  Assumptions: `BoundAssumption` (at
least one slot and one unit to a message) and `CallerAssumption` (finitely many
workers).  Any number of workers, slots, ids, calls, units and messages, batches
of any length.  `IInv` (`SocketServerInvariant.tla`) is, besides the properties,
- `StateInv`: who may touch what.  `IdInv`, `SlotInv`: a slot holds the last id
  known that hashes to it; a live socket counts under its own id; `dw_lock` is
  held only by a worker between its write and `dw_buffer`.  `CallInv`: one worker at a
  time has reserved a slot, and what a worker carries is the last it sent.
  `PipeInv`: the request that opens a socket comes before all others that name
  it; the sends of a worker are in the pipe in the order it made them;
- `CountInv`: `sending` *equals* the number of sends in the pipe and of workers
  about to write one, as cardinalities of finite sets, so that the assert of
  `dec_sending_ref` never fails for a live socket, and a zero means that a direct
  write overtakes nothing;
- `ToldInv`, `CloseInv`: a close was raised for a half-closed socket and no other
  that lives, who owned one that is gone was told, and a `force_close` that waits
  for `dw_lock` will tell what is still to tell, although the type of its socket
  is unchanged while it waits;
- `DataInv`: what a socket has written, followed by the rest of a direct write (in
  `dw_buffer`, or with the worker that has yet to put it there), the high list and
  the low one, is one stream (`Outgoing`).  Up to the low list it is made of whole
  messages (`Whole`) and has no unit twice, unless `force_close` has freed some
  of it; its messages are in order
  (`Ordered`), those of the same worker in the pipe come after (`Before`), and no
  worker still holds one of them (`LetGo`).

A step either moves units within the stream (a write, the rest kept, the low
message that `raise_uncomplete` moves to the high list) or puts one message into
it whole: behind the high list, behind the low one, or, for a direct write, on
the wire, where `CountInv` and `NoMoreSending` say that the lists are empty and no
send of that worker is in the pipe.  `WireWhole` and `SendOrder` are the stream's
properties cut off at the end of the wire.  All but `TypeOK`, `WireSent`,
`WireWhole` and `SendOrder` is claimed until an assert fails (`failed`): the
process aborts then.  TLC has checked `IInv` on the instance of `socket_server`, and on one of
5.7 M states with a call more.
Theorems: `SocketServerInvariance`, `SocketServerTyped`, `MessagesWhole`,
`SentInOrder`, `SendsCounted`, `OwnerToldOnce`.

**Sessions** (about 3,200 obligations).  Assumptions: `ServiceAssumption`,
`BoundAssumption`.  Any number of services and sessions; workers of any weight,
but for `NoCallForgotten`.  `ResumedOnce` depends on what is in other services'
mailboxes and tables.  `SInv` (`SessionsInvariant.tla`) says
- of the mailboxes (`MailInv`): a session is asked for once and answered once in
  each, every message is for who its session says, and a notice of death is the
  last thing its sender says, so that no answer can follow the notice that has
  already failed the call;
- of requests (`OnceInv`): each is on its way, *or* served, *or* answered, *or*
  failed, never two of these, so that it is answered once;
- of callers (`WaitInv`): whoever has asked, sleeps or has an answer on the way
  still has the session in `session_id_coroutine`;
- of each service (`OwnInv`): a coroutine serves one request which no kept
  `response` answers as well (`ServedInv`); `error_queue` is empty
  when the service idles, or a blank coroutine is forked to empty it
  (`PhaseInv`); the sleep that `wakeup` can end is no call, hence never failed
  by a notice (`TableInv`, `ResumeInv`); what is failed is still waited for.

`AccountInv` is `CallAccounted` over the sets of `SInv`.  For a call by name it
says that the request is unread, served, answered or failed, or `stranded`: a
mailbox of a service that has exited and a notice do not count for it.  It is inductive where
a worker takes one message a turn (`~Batch`): then nothing is left of the turn in
which a service exits, and whatever is or comes to its mailbox goes to
`drop_message`, which tells the sender.  `NoCallForgotten` has that hypothesis because
the claim is false without it, as the run `sessions_batch` shows.  TLC has
checked `SInv` on the instances of `sessions` and `sessions_batch`, `AccountInv`
on the former.

**RuntimeTimer** (about 1,400 obligations).  Assumptions: `LevelAssumption`
(each unit is the one below times the width of a level, at least 2) and
`BoundAssumption` (a delay is less than half the range of time, as an `int`'s
is).  Any number of timers and levels.  `OnTime` says nothing of the lists; the
invariant `IInv` says that a node in a list, or on its way from one to another,
has its time still to come (`Waiting`), that it is in the list which its time
selects now (`Placed`), and that every timer not fired is in that list
(`Kept`).  The crux is `Shift`: when time goes on by a tick, the list that
`SlotOf` selects for a node changes only for the nodes of the list dealt out.
Its proof compares quotients: a tick adds one to the digits up to the level
dealt out and leaves those above alone (`Carry`), so that a node which comes to
agree with the time at that level is in the list dealt out (`ShiftUp`); where
time wraps no node agrees with it at any level (`ShiftWrap`).  `Ordered` says
that nodes of one time keep their order in a list, and before those still to be
dealt out.  Theorems: `Invariance`, `TypeCorrect`, `FiresOnTime`,
`FiresInOrder`.

**Theorems.**  Those that state a property a run checks:

| Module | Theorem | Property |
|---|---|---|
| `KernelProofs` | `TypeCorrect` | `TypeOK` |
| | `QueueHasOneOwner` | `OneOwner` |
| | `ServiceRunsAlone` | `NoConcurrentDispatch` |
| | `NoQueueIsStranded` | `NoStrandedQueue` |
| | `NoContextDangles` | `NoDanglingContext` |
| | `NoQueueDangles` | `NoDanglingQueue` |
| | `ContextIsDeletedOnce` | `DeletedOnce` |
| | `InitComesFirst` | `InitBeforeDispatch` |
| | `FullInvariance` | `FullInv` |
| | `NoRequestVanishes` | `RequestAccounted` |
| | `RequestsRunInOrder` | `InOrder` |
| | `SchedulerIsMailboxes` | `ImplementsMailbox` |
| `TimeWheelProofs` | `TypeCorrect` | `TypeOK` |
| | `NeverEarly`, `NeverLate` | `NotEarly`, `NotLate` |
| | `RunsOncePerFailure` | `OncePerFailure` |
| | `PendingLiesInOneSlot` | `PendingIsInOneSlot` |
| | `CancelAlwaysReaches` | `CancelReaches` |
| `GatewayProofs` | `GatewayTypes` | `TypeOK` |
| | `AssertsHold` | `SocketAsserts` |
| | `HandleClosedOnce` | `ClosedOnce` |
| | `ExitLeavesNoneOpen` | `ExitClosesAll` |
| | `NoneOpenUnknown` | `OpenIsKnown` |
| `SocketServerProofs` | `SocketServerTyped` | `TypeOK` |
| | `MessagesWhole` | `WireWhole` |
| | `SentInOrder` | `SendOrder` |
| | `SendsCounted` | `SendingCounted` |
| | `OwnerToldOnce` | `ToldOnce` |
| `SessionsProofs` | `SessionsTypes` | `TypeOK` |
| | `ResumedOnlyOnce` | `ResumedOnce` |
| | `NoCallForgotten` | `CallAccounted` |
| `RuntimeTimerProofs` | `TypeCorrect` | `TypeOK` |
| | `FiresOnTime`, `FiresInOrder` | `OnTime`, `InOrder` |

and the inductive invariants themselves: `Invariance` of `KernelProofs` and of
`RuntimeTimerProofs`, `WheelInvariance`, `GatewayInvariance`,
`SocketServerInvariance`, `SessionsInvariance`; and `HeartbeatClosesNone` of
`GatewayProofs` (`StampedIsClosed`), which the model of the heartbeat check rests
on.

**Only model-checked.**  Liveness (`RequestSettled`, `RetiredIsFreed`,
`NodeStops`, `ExitReturns`, `ExitIsNoticed`): fairness and ENABLED are out of
the prover's reach.

## Findings

Runs that expect a violation; the counterexamples are behaviours of the code.

- `kernel_launched` (`LaunchedIsAlive`): `skynet_context_new` releases its
  reference and goes on using the context (`skynet_server.c:163-169`), and
  `cmd_launch` reads its handle.  A kill or an abort by another worker in
  between frees it.
- `gateway_orphan` (`WaitersAreKnown`): `socket.close` waits for one wake-up of
  the reader, not for its last buffer operation (`socket.lua:55-56`).  A reader
  woken by data that reads on is left asleep for ever when the closer takes the
  socket out of the pool.
- `sessions_batch` (`CallAccounted`): after `skynet.exit` the rest of the
  worker's turn goes to the empty callback of `skynet.lua:655` and gets no
  answer, where what is left after the turn gets one (`skynet_server.c:121`).  A
  caller whose request was in that turn waits for ever, against what
  `service.lua:155` wants of an exit.  Threads 4 and up take such turns
  (`etc/config.common` has `thread = 8`).
- `gateway_forget` (`EndedIsForgotten`): a TCP connection that ends leaves its
  entry in `client_conns` (`gateway.lua:162`).
- `gateway_silent` (`SilentIsClosed`): the heartbeat check never closes a live
  connection, against the comment at `gateway.lua:100`.  It walks the stamps, and a
  client that never sent "ping" has none; one that did is closed before the stamp
  is set, because the answer to "ping" raises on its format.

Observed while reading, not run:

- `skynet_mq.c:15` says a flag of 0 means the queue is not in the global
  queue; `skynet_mq_mark_release` pushes a queue whose flag is 0.
- `srv_game.lua` makes the wheel with a slot of `SKYNET_SECOND` (100) and turns
  it with seconds, so a slot lasts 100 s; the comment in `timewheel.lua:73` has
  1 s.
- A client that resets before its coroutine calls `socket.start` makes
  `assert(s)` fail (`socket.lua:307`), as `websocket.accept` does not look at what
  `socket.start` returned (`websocket.lua:409`).  The `xpcall` around
  `resolve_accept` catches it; what remains is the entry in `client_conns`.
- A call by name whose request lies unread when its service exits is never
  resumed, on workers of any weight: `drop_message` sends session 0 and the handle,
  and `_error_dispatch` compares that with the name.  `lualib/service.lua:105`,
  `.launcher` and `.service` are called so.  No line of the repository claims the
  contrary for names; `CallAccounted` and `ExitIsNoticed` exempt these calls and
  no others.
- `skynet_handle_retireall` (`skynet_handle.c:118`) stops after one empty pass, so a
  service registered behind it would survive `ABORT`.  Nothing in the repository
  launches after `ABORT`; `RetiredIsFreed` speaks of what a pass has ahead.
- `confirm_srv_game` indexes `runconfig.unique.gsmgr`, which does not exist.
- `login_mgr` never moves a player from LOGIN to GAMEING, so `reqkick` returns
  early and players are never removed.
- `lualib/service.lua:85-96` reads `ret[0]` and `ret[1]`, so a handler's error
  never reaches the client.

## Not modelled

`PROJECT.json` has a note for each component.  The log-in protocol (`login`,
`login_mgr`, the functions for players of `gateway` and `srv_game`) cannot take
a step at this commit: the gateway raises when it chooses a login service,
`login_mgr` would raise when it chooses a game service (both index fields that
`runconfig.lua` does not have), and messages of the protocol `client` are sent
without one being registered.  A model of it would be of code that nobody runs.

The socket channel, the cluster and the launcher are code the game starts with or
configures but does not put under load; names of handles are a sorted
table under one lock, an entry of which goes when its handle is retired
(`skynet_handle.c:88-99`; what that means for callers is in `Sessions`); the admin service and the start-up are sequences of calls whose ends are
in `Gateway`, `Sessions` and `Kernel`.  Out of scope for good: encoders and native
libraries (sequential code over bytes), configuration data, logging, services
of the framework that the game does not start (datacenter, multicast,
sharedata, snax, harbor), vendored code, examples and manual tests.
