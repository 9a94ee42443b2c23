# A verification project for hdc-lite

hdc-lite is the host side of a device connector: a *client* process sends one
command to a *server* process over a local TCP channel; the server keeps a
*session* to each device daemon over TCP and runs the command there as a *task*.
This directory holds TLA+ modules translated from `src/src/common` and
`src/src/host`, the TLC configurations that check them, and theorems the TLAPS
proof system checks.

## 1. The system

### Threads

* The **main thread** runs `loopMain`, a libuv loop: it accepts clients, allocates
  and frees sessions and channels, and runs the commands that need no device.
* Each session has a **worker thread**, taken from libuv's pool for the whole life
  of the session, that runs `hSession->childLoop`: the device's socket, the sockets
  of the clients attached to the session, and the tasks.
* libuv's pool also serves `uv_fs_*` requests of the file tasks.
* `FileDescriptor` starts reader and writer threads of its own for shell tasks.

### Components, their state and their interactions

| component | state | operations | talks to |
|---|---|---|---|
| session (`session.cpp`, `host_tcp.cpp`, `tcp.cpp`) | `mapSession`, `HdcSession` (flags, handles, two reference counters), `lstMainThreadOP`, the deleted-id cache | `ConnectDaemon`, `Connect`, `FreeSession` and its three later stages, `SessionWorkThread`, `ReadCtrlFromMain`, `ReadStream` | the worker through a socket pair of commands; the main loop through a locked list and `uv_async_send` |
| channel (`channel.cpp`) | `mapChannel`, `HdcChannel` (`ref`, `isDead`, `childCleared`, handles) | accept, handshake, attach, detach, `FreeChannel` and its stages | the session's worker (`SP_ATTACH_CHANNEL`, `SP_DEATCH_CHANNEL`) |
| tasks (`session.cpp` AdminTask..., `task.cpp`, `server.cpp` RedirectToTask) | `mapTask`, `HTaskInfo` | dispatch, `BeginRemoveTask`, `ClearOwnTasks` | the task objects (`ReadyForRelease`) |
| daemon map (`server.cpp`, `server_for_client.cpp`) | `mapDaemon`: connect key, status, raw `hSession` | `CreateConnect`, `UpdateHdiInfo`, `NotifyInstanceSessionFree`, lookups by clients | session, channel |
| authentication (`auth.cpp`, `HandServerAuth`) | `listKey`, `authKeyIndex`, `handshakeOK` | `ServerSessionHandshake` | the daemon |
| forward (`forward.cpp`, forward map in `server.cpp`) | contexts, `refCount`, forward map | listen, accept, connect, forward data, free | the daemon's forward task |
| file and app (`transfer.cpp`, `file.cpp`, `host_app.cpp`, tar code) | `CtxFile`: `refCount`, `ioFinish`, `closeNotify`, indices | check, begin, I/O, finish | `uv_fs_*`, the daemon |
| shell (`async_cmd.cpp`, `host_unity.cpp`, `file_descriptor.cpp`) | child process, reader and writer threads, `refIO` | start, output, exit | OS |
| circle buffer (`circle_buffer.cpp`) | ring of buffers, head, tail, timer | malloc, free, shrink | file descriptor |
| serialisation (`serial_struct*.h`) | none | varint, zigzag, tags | all packets |
| client (`client.cpp`, `ext_client.cpp`, `main.cpp`) | one command | connect, handshake, send, print | the server's channel |
| base (`base.cpp`) | none | libuv and OS helpers, formatting | all |

### What is hard

The object graph is shared by raw pointers between two threads with almost no
locks. An `HdcSession` is deleted by the main thread while its callbacks belong
to the worker; the protocol that makes this safe is spread over eight functions
in four files and consists of two flags, two counters, a list, a wake-up and a
socket pair. The same pattern, with fewer safeguards, is used for channels. The
hazards found while reading the code are listed, each at its line, in
`PROJECT.json`, with the properties that cover them.

For each component, what makes it correct:

* **session**: a worker never sees a deleted session; teardown is started once, ends,
  and does not pass a worker that is still at work; the counters count the close
  callbacks that are to come; requests to the main loop are not lost.
* **channel**: a channel is deleted only when no thread holds it and no worker
  has its socket on its loop; a channel whose session went away is deleted all the
  same; the pin count returns to zero.
* **tasks**: a task is deleted only when it is ready for release; a session's loop
  ends only when its tasks are gone; a packet never starts a task for a dead session.
* **daemon map**: `CONNECTED` means a live session; a lookup never follows a pointer
  to a deleted session.
* **authentication**: `handshakeOK` only after the daemon accepted a signature made
  with a key of the list; the list is walked at most once.
* **forward, file, shell**: the reference counter of the task counts the callbacks that
  are to come; data arrives in order and completely; the peer is told of the end.
* **circle buffer**: no buffer is handed out twice (the timer that shrinks the pool is
  not compiled for the host).
* **serialisation**: decode inverts encode for every value of the width.

## 2. Plan

| module | what | status |
|---|---|---|
| `HdcSession`, over `SessionLife` | life cycle of sessions, two threads | checked, proved |
| `HdcChannel`, over `SessionLife` | channels: pins, attach, detach, teardown; composed with the sessions and their workers | checked, proved |
| `HdcTask` | the tasks of a session: dispatch, stop, clear, release retries, from two threads | checked, proved |
| `HdcServer` | daemon map, forward rules, handshake and authentication of the host | checked, proved |
| `HdcForward` | contexts and reference counter of a forward, both ends | checked, proved |
| `HdcTransfer` | requests, buffers and closing steps of a file transfer or an installation, both ends | checked, proved for one file |
| `HdcStream` | packets on a connection: writers, mutex, partial sends, reassembly | checked, proved |
| `HdcCodec` | messages as bytes, heads in reused buffers, tagged values | checked, proved |
| `HdcClient` | client processes, the servers they pull up, the pid file, the command | checked, proved |
| proofs | `HdcTransfer`: directories and packages, one file after another | checked only |
| `FileDescriptor` | the reader and writer threads of a device point | not modelled |

How they fit: `HdcChannel` composes channels with the sessions of `SessionLife`, which
`HdcSession` is shown to implement. `HdcTask` has the tasks as objects with one pending
operation; `HdcForward` and `HdcTransfer` are two classes of tasks in full, with the
session between their ends as a FIFO of packets, which is what `HdcStream` checks a
connection to be. `HdcServer` takes the steps of a session that its maps depend on.
`HdcClient` takes the server's half of a channel as accepting, executing and closing,
with the one way `HdcChannel` shows it to lose a client (`phase` "orphan").

## 3. The modules

### `HdcSession`

The variables follow the fields of `HdcSession` and `HdcSessionBase`, grouped by the
thread that writes them. `stage` names the timer or idle callback that is armed on
`loopMain` for the session: `opeate` (FreeSessionOpeate), `waitChild` (its inner
`callbackCheckFreeSessionContinue`), `finally` (FreeSessionFinally). `mainHandle` and
`childHandle` give each libuv handle its state: absent, initialised, open, closing
with or without a callback, closed. `worker` is the position of SessionWorkThread:
queued in the pool, in its first `uv_run`, in ReChildLoopForSessionClear, after
`childCleared = true`, gone.

An action is one callback. A callback is split where another thread can come
between: the append to `lstMainThreadOP` and `uv_async_send` (`ReadStreamFail`,
`AsyncSend`); reading a batch of commands and dispatching each (`ReadCtrlFromMain`,
`StartSession*`, `StopSession`); `childCleared` and the thread's last line
(`ReChildLoopForSessionClear`, `SessionWorkThreadEnd`); the two halves of
`HdcHostTCP::Connect` around its wait, during which `mainWait` keeps every other
callback of the main loop from running. Idle handles of one loop are a set: libuv runs
them in an order the code does not fix. The failure of a second connection
attempt, a read error at any time and a client's removal at any time come from the
environment.

Left out: allocation failures; server shutdown (`ClearSessions`,
`ReMainLoopForInstanceClear`, `PostStopInstanceMessage`, `sessionRef`), which nothing
in this build reaches because `hdc kill` sends SIGKILL; the session's `ref`, which no
code of this build increments; the tasks and channels on the child loop, which have
modules of their own in the plan.

### `SessionLife`

The promise: a session is opened, may get a worker, dies once, and is deleted only
when dead and without a running worker; a worker leaves only a dead session.
`HdcSession!ImplementsLife` is this specification under the mapping `lifeOf`,
`workerOf`.

### `HdcSessionProofs`

The theorems of section 5. `MCHdcSession` adds the symmetry set for TLC.

### `HdcChannel`

The channel is what a client and a session's worker have in common, so this module
composes both: the sessions of one target come and go by the actions of `SessionLife`
(`SessionOpen` ... `SessionFree`; `HdcSession` implements that module), and what those
steps do to channels is added to them: `SessionKill` forgets the forwards of the
session, `TryCloseChildLoop` closes the client sockets left on the child loop.

| state | code |
|---|---|
| `mapChannel`, `isDead`, `ref`, `childCleared`, `target`, `uvHandleRef` | the fields of those names in `HdcChannelBase` and `HdcChannel` |
| `stage` | the teardown callback armed on `loopMain`: `opeate` (FreeChannelOpeate, a repeating timer), `waitChild` (its inner timer), `finally` (FreeChannelFinally), `done` (deleted) |
| `phase` | how far the client came: hello awaited, refused, a command without target, bound, attach sent, orphan (bound, and the session gone) |
| `hWorkTCP`, `hChildWorkTCP` | the two handles of one descriptor, with the close callback that is due |
| `mainWrites`, `childWrites` | `uv_write` requests without their callback, on each loop; on the child loop those for the daemon's output apart from the server's own replies |
| `ctrl` | SP_ATTACH_CHANNEL and SP_DEATCH_CHANNEL on the way to a worker |
| `lstMainThreadOP` | ASYNC_FREE_CHANNEL requests, as a set: a second request for a channel has no effect. The list and its wake-ups are modelled in `HdcSession` |
| `retryTimer`, `forwards` | the timer of NewConnectTry; the channels kept in `mapForward` |
| `job` | the channel a worker has pinned and how far its callback has come |

One action is one callback. A callback of a worker that pins a channel is split at
the places where the main thread can come between: AttachChannel after its query
(`AttachQuery`, `AttachOpen`), FetchCommand after its query and after its test of
`isDead` (`FetchQuery`, `FetchAlive` or `FetchDead`, then one action for each kind of
packet). BindChannelToSession and its DoNextLoop callback are two actions. The liveness
of a session for FindAliveSessionFromDaemonMap is `AliveSessions`: live, with a running
worker; the handshake with the daemon is not a state of its own.

Left out: the client process's own HdcChannelBase, reassembly of packets in
ReadStream, ClearChannels (destructors only). A client sends one packet for the
handshake; a failing DuplicateUvSocket has the effects of `HelloRefused`. Where
a finding below makes the program use a deleted channel, the model goes on without
following what the memory then holds.

### `HdcTask`

The tasks of one session. The worker's commands are split where the main thread comes
between: `AdminTask`'s look-up and the dispatch (`worker.pc`). The main thread clears
the tasks of a channel for `fport rm` (`RemoveFportkey`, `main`) in three steps: it stops the
class and starts the retry timer (`MainClear`), notes that the task stops (`MainStop`), and
erases the entry of the map (`MainErase`); the worker does the same in one callback. A removal
marks the task (`taskStop`), takes it out of `mapTask`, and tries until the class has no pending
operation (`TryRemoveTask`, `TaskClassDeleteRetry`). The end of the session runs
`ReChildLoopForSessionClear`, then `TryCloseChildLoop`, which closes the retry timers.

| state | code |
|---|---|
| `mapTask` | `HdcSession::mapTask` |
| `task` | `TaskInformation` (`info`, `taskStop`, `taskFree`) and the class (`class`, `refCount`), the timer of the removal |
| `channel` | isDead and detached, the message that frees it, its rule in the forward map |
| `worker`, `main` | the callback each thread is in and its locals |

`Base::TimerUvTask` starts the retry timer with no delay (base.cpp:1669): the first try comes in the
next iteration of the child loop, which may be between any two of the main thread's three steps. The
worker may thus delete the task while `mapTask` still leads to it (`Erasing`), and `MainStop` then
writes to memory that is free. A channel may give a second initial command (`MaxInits`), which
the server does not refuse: AdminTask deletes the information of the task it replaces, and what
is left of that task comes back to freed memory, which is not followed further (`Again`).

### `HdcServer`

`mapDaemon`, `mapForward`, the handshake of the host and its keys. `Command` is what a
client asks of the main thread: connect, remove, bind a channel, remove a rule.
`MainSession` is what the main thread does for a session (connected, failed, freed),
`Worker` what its worker does on a packet of the daemon. ServerSessionHandshake is split
where files are read or written and around `UpdateHdiInfo`, which copies an entry,
changes the copy and writes it back (`UpdateHdiInfoCopy`, `UpdateHdiInfo`): the lock of the map covers
each access and not the pair. The daemon is external: it asks for a public key, then for a
signature, then accepts or refuses, and may do any of it at any time. Keys are numbers, a
signature is the number of the key that made it.

Where the code would follow `hSession` of an entry to a session that was deleted, the
command is not taken: what it does then is undefined. A run of `BoundIsAccepted`
therefore says nothing of the steps after such a use.

### `HdcForward`

Both ends of one forward, as they share one class. A context is the listener, the check of
the target, or a side of a connection; `handle` is its libuv handle with the states null
(zeroed), open, listening, connecting, connected, closed. FreeContext and the callback
that deletes the context (`FreeContextCallBack`) are two actions, the release of the task
a third (`TryRemoveTask`). The commands between the ends are a FIFO per direction; the
session may end (`SessionLost`, `SessionClear`), the channel may be detached (`Detach`), the
listener may fail. `uv_accept` may fail (`AcceptFail`), before the type of the new context is set.
Ids come from a clock in milliseconds, which `NewMSec` need not advance from one context to the
next; the temporary id of a context of the slave comes from another clock and is any id. Two contexts
may therefore have one id, and take or erase the entry of the map from each other. `Alone(i)` says that
the master gave the id `i` once. A check or a connection whose node is malformed ends the task
(`SlaveCheck`, `SlaveConnect` with `ok = FALSE`). At the end of the session TryCloseChildLoop
closes what is left on the loop of an end, so the timer of the release and the callbacks
of closing handles need not come any more (`Loop`). `ReleasedHasNone` says of the task object what
`DeletedIsClosed` says of a context: once it is deleted no context is left that would call it back.

### `HdcTransfer`

Both ends of the copy of a file, a directory or of packages to install. `end` is the
task object with `ctxNow`: indices, flags, open descriptors, the pool of buffers, the
requests in the thread pool (`pending`). A request that ends runs the rest of its
callback as one action (`ReadDone1`, `WriteDone1`, `RequestDone`): which write ends
first is free. What may go wrong in a run of the task is `job.fault`: an open fails, a read or a
write fails, a read returns nothing before the file has its size (`eof`), or a write stores less than
it should, down to nothing (`short`). A read may always return less than was asked for. `early` is
history: an end took a file for complete because a read or write moved nothing.

The context has one `fsCloseReq`. The callback that finds `ioFinish` set hands it to the pool, and
the slave's fsync and the closes without a loop go through it as well; libuv initialises it
anew each time. When it is begun while a close is under way the callback and the reference of that
close are lost or come twice: the end is then `broken`, and takes no further step. `CloseReqIsFree`
says when this may be. With `-m` (`job.sync`) the modes of the directories, or the mode of the
single file, are sent and acknowledged before the check. Only the slave sends APP_FINISH: the
master's WhenTransferFinish is empty for an installation.

A file may be shorter when it is read than when it was opened, but it does not grow. The task may be
stopped at any point (`Detach`), its removal waits for `refCount`. The guards `Room` and
`x.openFds # Fds` keep the pool and the descriptors within their bounds; in `transfer_task`
they never hold a step up. `DataByte` is the first byte of a packet of data, which the end that
has no open file takes for the payload of its own command: the tag of the first field, the number of
the field times 8, and so even (`DataByteAssumption`).

### `HdcStream`

The bytes of the packets of a session, from the two threads that write at each end
through the sockets to the calls of FetchCommand. A byte is the packet it belongs to and its
place in it. `Write` is one uv_write-sized piece of the loop of WriteUvTcpFd, under
`writeTCPMutex`; `Read` is AllocCallback and ReadStream: libuv offers what fits,
ReadStream appends, FetchIOBuf takes whole packets and moves the rest to the front.
FetchCommand may refuse a packet, which frees the session. A write that cannot go on
keeps the mutex and its thread.

### `HdcCodec`

WriteMessage and ReadMessage field by field, with bytes as numbers and varints bit for bit,
at reduced widths; for every message of the program, for a sender whose version has
fewer fields, for heads that travel in the prefix of a buffer that carried another head
before, and for the tagged values of a handshake (TlvAppend, TlvToStringMap).

The fields of the messages that are sent are `Usual` and `Odd`, the tags and values of a handshake
`Tags` and `Vals`: constants, of which the module assumes what the program makes true of them.
A field is a value of its type (`MessagesAssumption`); a tag is a word of at most `TagLen`
bytes that are no spaces, the length of a value fits its field, and the string holds what is
appended to it (`PairsAssumption`). `MCHdcCodec` gives the samples of the run. `ReadTo`, `Written`
and `CodecInv` at the end of the module say why a message comes back; they are for the proofs.

### `HdcClient`

Client processes, each with one command line, and the servers they pull up. `ProgramMutex` is
split at each system call that others can see: opening with `lock`, truncating, writing the pid.
A control command reads the pid of its victim from the file and sends SIGKILL, of which the
process dies some time later (`Die`). A client connects with retries, its timer CommandWorker
sends the command once the handshake is done or gives up. `MCHdcClient` gives the pairs of
commands.

The operators whose comment starts with *Fault:* are variants of the definition that
follows them, each a plausible bug; substituting one for its definition makes the
property it is paired with in `PROJECT.json` fail.

## 4. The runs

| run | constants | shows |
|---|---|---|
| `session_safety` | 2 sessions, pool of 2, cache of 1, malloc clean or not | the inductive invariant and what it is for: the worker's session is there, deletion leaves no handle, requests are not lost, handles are closed only without a worker, an id in the cache is that of a session that ends |
| `session_liveness` | 2 sessions, pool of 2, clean malloc | a failed socket ends its session, an ended session is deleted, Connect returns; refinement of `SessionLife` |
| `channel_safety` | 2 channels, 2 sessions, 1 write of a kind, `uv_tcp_open` may fail | a worker finds the channel it works for; deletion leaves no handle; `ref` counts its holders; output is delivered before the socket closes |
| `channel_liveness` | 1 channel, 2 sessions, 1 write of a kind | a bound client gets a worker, a lost client ends its channel, a dead channel is deleted |
| `task_life` | 2 channels, one a forward; 2 tasks, 2 initial commands of a channel | where a pointer may lead to a deleted task, and that no command follows one; no class is deleted with an operation under way, a detached channel has no running task, a stopped task is freed |
| `task_threads` | the same | a violation: see below |
| `server_maps` | 2 keys, 2 sessions, 2 key pairs | a client is bound to an accepted session only, the signature is the one the daemon checks, "the only device" is the only one |
| `forward_task` | listener, check and one connection at each end, 2 milliseconds, every way to end | the counter counts contexts, no command or callback meets a deleted one even when ids are shared, data waits for a connection whose id is its own, a stopped task is released, the sides end together |
| `transfer_task` | one file or two, up to 2 blocks, 2 buffers; opens fail, and for a file reads and writes, which may also end early or store too little | requests, buffers and the close request are accounted for, descriptors are closed, once and in time while nothing fails, "finished" is complete or ended early, the tasks end |
| `stream` | 2 packets one way, 1 the other; sizes below and above the buffer | order, no loss, giving up only for cause, arrival |
| `codec` | all messages with up to 3 fields off their first sample | read inverts write, tagged values come back |
| `client` | 2 clients, 6 pairs of commands, 1 retry | one server listens and the file names it, some server listens, the handshake comes first, clients end |

Every module has its type invariant `TypeOK`. In `session_safety` and `task_life` it is part
of `IInv`, the inductive invariant of section 5; for the other modules it is part of the invariant
that is proved there (`MutexInv` of `HdcClient`, `ContextInv` of `HdcForward`, `FileInv` of
`HdcTransfer` and so on).

**Bounds.** Two sessions are enough for what is shared between sessions: the request
list, the merged wake-up, the cache (bound 1, so that eviction happens), the pool and
the main thread that one session blocks while another dies. Every other part of the
state belongs to one session. Queues are not bounded by a constraint: a session has at
most two commands, and a worker makes at most one request. Ids are used once, as
`GetSessionPseudoUid` avoids those in the map; the state space is therefore finite.

For channels, two sessions of one target are what it takes to see a session replaced
between BindChannelToSession and its next-loop callback, and to have commands for the
dead one and for its successor at once. Two channels share a worker's command queue, its
one callback at a time and the map. A channel id is used once (GetChannelPseudoUid
avoids those in the map), so `ctrl` holds at most two commands for each channel and
needs no bound. `MaxWrites` is the one bound in the guards: one write of each kind on
each loop; `ref` still reaches the sum of three writes, a close and a pin.

In `task_life` two tasks are one that is replaced or removed and its successor in the same
channel, or one in each channel; two initial commands are the one the program sends and one that
replaces its task. In `server_maps` two sessions are two attempts for one key, or two devices of
which a client takes the only one. In `forward_task` two contexts at the master are the listener
and a connection, at the slave the check and a connection: between them pass all commands of a
forward; a third context would add a second connection, which shares the map and the counter
with the first and, if it has its id, the data: see the defects below. Two milliseconds let any
two contexts have one id or two. In `transfer_task` two files make the second one reuse a
context; a read asks for two blocks and gets one or both, and two blocks read one at a time with
two buffers are two requests under way at a time. In `stream` a packet of 5 bytes does not fit
the buffer of 3 and the sockets hold one packet, so that writers wait with the mutex. In `codec`
one byte and more bytes, zero and the largest value of each width are samples. `client` counts
one retry and one turn of the timer: limits are reached and exceeded.

Every cfg says CHECK_DEADLOCK FALSE: the ids, packets or commands of a run are used up,
and a program whose objects are all deleted has nothing left to do. That things do
not get stuck earlier is what the liveness properties say.

**Fairness.** In `HdcSession`, weak fairness of each main-loop step and each worker step
of a session and of `MainAsyncCallback`: libuv's loops run every callback that is due, a timer
with a repeat fires again, and a free pool thread takes the next work item. Nothing is
assumed of the environment: connections may stay pending for ever, errors need not
come. `session_liveness` gives the pool one thread per session and clean memory,
because the defects below are exactly what happens otherwise; the safety run does
neither. `SessionsEnd` excepts `StopLost`: when `WorkThreadStartSession` fails
with `SP_STOP_SESSION` behind it in the same batch, the code drops the command and the
session stays for ever.

`HdcChannel!Fairness` is the same for channels: weak fairness of each callback of
`loopMain` and of each worker. Strong fairness stands for what a loop returns to while
it does other things: FreeChannelOpeate is a timer that repeats until it finds no
reference, and a worker's loop serves its descriptors (commands, writes, closes) in
turn although packets for other channels keep coming. Clients, daemons and the deaths of
sessions are free. `ChannelsEnd` excepts a channel whose session is lost
(`SessionLost`), and `channel_liveness` opens every descriptor: a failing `uv_tcp_open`
leaves the client to nobody.

`HdcTask`: the threads run; strong fairness for the retry timer and the end of an operation,
which other callbacks of the loop interrupt and do not prevent. `StoppedIsFreed` asks nothing of
a session that is dead. `HdcForward`: each loop goes on while it has something to do (`Loop`):
commands, due callbacks, connection attempts, which all end. Once the session has ended only the
clearing of the tasks is sure: the loop then closes its timers, and `StoppedIsReleased` excepts
such a task, as well as one with a context that StopTask did not find because a context of the
same id had its entry. `HdcTransfer`: requests in the pool end, both loops run. `TransferEnds`
excepts a slave that waits after a short write (`WaitsForBlocks`) and a transfer of which an end
is `broken`. `HdcStream`: writers go on when the socket has room, readers read, and a thread
that waits for the mutex gets it if it is free again and again. `HdcClient`: processes run,
killed ones die, a server answers. Users, local peers of a forward and failures are free in all
of them.

**Mutants.** `PROJECT.json` names for each property a definition and a variant of it, found
in the module under a comment that starts with *Fault:*, with which the property fails.

### Known defects

What follows are properties that comments of the source promise, or that one would expect,
and the model shows not to hold. `task_threads` is a run of this project; the others are
reproduced by running the named configuration with its properties replaced by the one
named, under the change of constants given.

| property | configuration | what the code does |
|---|---|---|
| `OneThread` (run `task_threads`) | | AdminTask takes no lock because "all in the corresponding sub-thread" (session.cpp:771); `fport rm` erases from the same map on the main thread (server_for_client.cpp:379) |
| `MainComesBack` | `session_liveness`, PoolSize = 1 | `HdcHostTCP::Connect` spins on the main thread until the worker is up; with every pool thread held by a session it never returns |
| `ContinueAfterThreadEnd` | `session_safety` | the worker reads the session once more after `childCleared`, on which the main thread deletes it |
| `WaitsForAThread` | `session_safety` | a session removed before its worker was started is waited for if the memory of its poll handle is not zero |
| `AllocatedIsReleased` | `channel_liveness` | FreeChannelOpeate waits for `childCleared` although the detach command could not be sent: a channel whose session died first, and its timer, stay for ever |
| `RetryTimerHasChannel` | `channel_safety` | the repeating timer of NewConnectTry keeps a channel that the client's departure deletes |
| `PinKeepsChannel` | `channel_safety` | FreeChannelFinally does not look at `ref`: a worker that pins the channel between `childCleared` and the erasure holds a deleted object. FetchCommand sees `isDead` and unpins, which writes to it; `PinnedAliveIsThere` shows that this is all |
| `AllTasksFree` | `task_life` | ClearOwnTasks has emptied `mapTask`, so the end of the session waits for no task ("all task has been free", session.cpp:1289); one with an operation pending is never freed, its timer goes with the loop |
| `OneSessionPerKey` | `server_maps` | CreateConnect answers "has old" only for a key that is CONNECTED; two attempts for a pending key make two sessions that write one entry |
| `DataReachesItsPeer` | `forward_task`, MaxContexts = 3, Endings = {} | a context's id is the millisecond it was made in (forward.cpp:122): two of one millisecond share an entry and the data of one reaches the other |
| `NothingDangles` | `forward_task`, ForwardType = "pipe", AcceptMayFail = TRUE | a context whose `uv_accept` failed has the type tcp it was made with, so FreeContext closes a TCP handle that was never opened and deletes the context, while its pipe handle stays (forward.cpp:62) |
| `FinishedIsComplete` | `transfer_task`, Kinds and FaultKinds = {"dir"}, Faults = {"write"}, MaxBufs = 3 | the summary looks at the error and the size of one file, and ResetCtx clears the error with each next one; a directory in which a write failed is reported as finished |
| `TransferEnds` | `transfer_task`, Kinds and FaultKinds = {"app"}, Faults = {"read"}, MaxBufs = 3 | the end of a package that could not be read calls WhenTransferFinish, which is empty at the host (transfer.h:122): nobody is told and the installation waits for ever |

The properties that the runs check except what the code really does in these cases, each of which is
a disjunct with a name or a comment of its own:

* **Clearing a forward.** Between the start of the retry timer and the erasure of the entry
  (session.cpp:158 to 161) `mapTask` may lead to a task that the worker has deleted:
  `TasksAreThere` excepts the channel that `fport rm` clears (`Erasing`).
* **A second initial command.** AdminTask replaces the task of a channel without a look at
  whether it still runs (session.cpp:780-784): `TasksAreThere` and `GoneHasNoTask` except its
  leftovers (`Again`).
* **A file that ends early.** An empty read or write before `fileSize` (transfer.cpp:256, 274)
  ends the transfer without an error, and the user is told "FileTransfer finish" of an
  incomplete file: `FinishedIsComplete` excepts it (`Early`). The comment at transfer.cpp:275
  wants only complete files finished.
* **A short write.** `indexIO` counts what was stored (transfer.cpp:246) and nothing writes the
  rest, so the slave waits for ever: `TransferEnds` excepts it (`WaitsForBlocks`).
* **One close request.** `fsCloseReq` is begun again while a close is under way
  (transfer.cpp:289-297): by a master that could not read, after an early end, or by a master
  that goes on to its next file. After a failed read the descriptor may also be closed twice.
  `CloseReqIsFree` has the cases, `FilesAreClosed` asks for closes in order only while the
  transfer is healthy.
* **Orphans.** A session that ends between BindChannelToSession and its next-loop callback
  leaves the channel to nobody (server_for_client.cpp:754): `BoundIsAttached` and `ClientsEnd`
  except `phase` "orphan", whose client waits until the server ends.
* **A lost stop command.** `SessionsEnd` excepts `StopLost`, see above.

Seen in the actions, without a property of their own: a `kill` and a restart that meet can
leave no server, since the new server finds the lock of the old one and ends; a check
that holds the lock is taken for a server by another client (base.cpp:1157); a command that follows the
`hSession` of a deleted session (server_for_client.cpp:353, 719); and two workers that write to each
other with full sockets under the mutex all sessions share, which wait for each other for ever
(tcp.cpp:104).

## 5. The proofs

`HdcSessionProofs` proves, for every set of sessions, every pool size and every bound
of the cache:

* `TypeCorrect`, `InvariantHolds`;
* `WorkerHasSessionHolds`, `FreedHasNoHandleHolds`, `RefsCountCallbacksHolds`,
  `NoLostWakeupHolds`, `CachedIdIsDoomedHolds`;
* the action properties `TeardownOnceHolds`, `ContinueWithoutWorkerHolds`;
* `LifeImplemented`: the refinement of `SessionLife`.

The assumptions are those of `HdcSession` on its constants, which every run evaluates.

The argument is the invariant `IInv`, a conjunction of named parts for each session.
None of the safety properties is inductive alone. That the worker always has its
session needs `TeardownInv` (teardown passes its wait only without a worker), which
needs `WorkerInv` (a worker is queued only while `mainWait` blocks the main loop, so
FreeSessionOpeate cannot look at the poll handle before it is initialised), which
needs `StopInv` and `StartInv` (the commands that can be in flight), and
`RefsCountCallbacks` for the counters. `MainHandleInv` says that the handles of
`loopMain` are all open until FreeSessionContinue: therefore no callback is skipped and
`uvHandleRef` is exact. The proofs are per session: frame lemmas (`MainFrame`,
`WorkFrame`) say that a step of one session leaves the others alone, and each part of
the invariant has one lemma with a case for each action that can disturb it.
`NoLostWakeup` is inductive over `IInv`; `CachedIdIsDoomed` needs in addition that every
request belongs to a session that was opened (`RequestsAreOpened`).

`HdcTaskProofs` proves `TaskInvariantHolds`, `TasksAreThereHolds`, `DeletedIsIdleHolds` and
`GoneHasNoTaskHolds` for any channels, any number of tasks and any number of initial commands of
a channel. The retry timer may come at any moment after it was started. The invariant `IInv`
ties the two threads together: a task of the map is there and runs, unless the main thread has
found it and not yet erased it (`MapInv`, `Erasing`); a task that was not told to stop is in the
map, or about to be told (`Stopping`), so that clearing the map reaches all of them, save one
that replaced the task the main thread found and was erased in its place (`TaskInv`, `Lost`);
and while the worker is about to add the first task of a channel, the channel has no rule, and
so the main thread cannot be there (`WorkerInv`). What the main thread is about to erase is what
it found and stopped, or the successor of that (`MainInv`). There is one lemma for each action;
those that clear tasks share `ClearOwnKeeps`.

`HdcClientProofs` proves `MutexInvHolds`, `ListeningIsNamedHolds`, `SomeServerListensHolds` and
`HelloIsTakenHolds` for any clients with any commands. That the file names the server that
listens is not inductive: one needs that every process that has come past `F_SETLK` and has
not ended is the holder of the lock, that a client writes the file while it holds it, and that
a server is forked once, by a client that is past its own check: the fork puts no process that
has the lock back to its start. `SomeServerListens` has the hypothesis that there is a client,
as nobody asks for a server otherwise. Its invariant `SomeoneInv` says that there is always a
process that may still come to listen: whoever turns away from the lock was turned away
by a holder, and the holder is such a process. `HelloInv` says that nothing is sent on a
channel before the client's half of the handshake.

`HdcForwardProofs` proves three invariants, one on top of the other. `ContextInv` is about the
contexts of one end, the map that finds them and `refCount`, whatever the constants; it gives
`RefCountsContextsHolds`. `TaskInv` adds what is left when the task was told to stop or was
deleted, and gives `NothingDanglesHolds`. Its hypothesis `TypeIsSet` (`AcceptMayFail =>
ForwardType = "tcp"`) is the one the code needs: without it the property is false, see the
defects above. `ConnectionInv` follows an id through both ends and the commands between them,
and gives `DataComesConnectedHolds`; `DataInv` of the proofs joins the three. Nothing is assumed
of ids: they may be shared, and the temporary ids of the slave may be those of other contexts.
What is said of an id is said while it is `Alone`, which it stays as long as the master does not
give it again, so the other connections cannot disturb it. `forward_task` satisfies the
hypothesis.

`HdcChannelProofs` proves `ChannelInvHolds`, `RefCountsHoldersHolds`, `WorkerFindsChannelHolds`,
`DeletedHasNoHandleHolds` and `OutputIsDeliveredHolds` for any channels, sessions and bound of
writes, from the assumptions of the module alone. No property is inductive by itself: the
worker finds the channel it is told to detach because the main thread waits in
`waitChild` until that command was carried out (`StageOK`); it is told so only when the handle
went to its loop, of which the command that attaches it or the open handle is the witness
(`PhaseOK`, `ChildOK`); and commands for one channel do not repeat (`CommandOK`). `RefCountsHolders`
counts pins over sessions, of which a worker holds one at a time (`JobOK`): its proof adds and
removes one element of a finite set for each action that pins, writes or gives back. An action
that does not touch a channel keeps all it knows of it (`Untouched`), so each action has to
be followed for its own channel only.

`HdcServerProofs` proves `ServerInvHolds`, `BoundIsAcceptedHolds` and `SignatureFitsHolds` for any
number of keys, sessions and key pairs. The map entry of a device may be taken over by a
second attempt, or written back from an old copy; what is proved is that this cannot bind
a client to a session that was not accepted, because `handshakeOK` follows the daemon of its
own session (`HandshakeOK`), and the lookup asks the session. `SignatureFits` needs to know in
which of its states a session has fixed the algorithm (`AlgorithmFits`), and that a pair which
was there from the start is the only one (`OnePair`, `OnePairSent`).

`HdcTransferProofs` proves `TypeOKHolds`, `OneFileInvHolds`, `RequestsAreAccountedHolds`,
`FilesAreClosedHolds` and `FinishedIsCompleteHolds` for the copy of one file (`job.kind =
"file"`), with or without its mode, of any size, read in pieces of any size, with any number of
buffers; opening, reads and writes may fail, reads and writes may end early or move less than
they should, and the task may be stopped anywhere, as far as `Faults` allows. The user is told
"finished" because an end counted the bytes that were written, and the proof has to show that
this count is no more than what is on the disk, in whatever order writes end. `FileInv`
therefore follows the file from the read to the disk: the pieces that are on the way or being
written do not overlap each other or what is on the disk (`PiecesOK`), so no block is counted
twice (`DiskOK`); the file is opened, checked, opened at the other end and asked for once each
(`StageOK`), so nothing is read before it is asked for (`Quiet`). `FinishOK` is about the
commands that close both files: the slave asks for the end with an odd payload and only when it
has everything or failed, the master answers with an even one, and a master whose read failed
asks itself, behind the last data it sent. Ends answer a payload with the next lower one, so its
parity tells who is asked. A late packet of data is taken for an even payload
(`DataByteAssumption`), to which the slave answers an odd one, as if it had asked; an odd one
would make it a master that answers, and neither end would know then that the file is complete.
`EndOK` has what an end knows by itself: `refCount` is the number of its requests, each read or
write has a buffer (`RequestsOK`, `BufsOK`), an open descriptor is the current one or is being
closed (`FdsOK`). The slave is finished when it has all blocks, or an end has failed or ended
early (`Resolved`). The close request serves one close because the callback that sets `ioFinish`
without an error is the last one on the file, and after a failed write no close is begun at all;
a master whose read failed, or a file that ended early, is the exception (`CloseReqIsFree`).
`HealthyOK` adds, for a transfer in which neither happened, that the descriptor a request uses
is open, which is what `NoRequestOnClosedFd` needs; otherwise a file may be closed under other
requests, and the property does not ask it. There is one lemma for what each operator of an end
does to its record (`TaskFinishIs`, `BeginTransferIs`, ...), one for the invariant of an end
under it, and one `...Keeps` for each action. Copies of a directory and installations go through
the same actions again for each file and are checked by `transfer_task`; that `TransferEnds` is
liveness.

`HdcServerProofs` also proves `OnlyOneIsOnlyOneHolds`, for a map of any size. AdminDaemonMap runs
through the map and remembers what it found; the loop is a recursive function of how many
entries it has seen. `Result` of the proofs gives its result in closed form: nothing
while no entry it passed was connected, the key of the only one, or nothing and the end of the loop
for several. That the loop computes it (`OnlyOneIs`) is shown by taking the least number of entries
for which it would not (`Smallest`).

`HdcWireProofs` has two parts. The first is about `HdcStream`: `StreamInvHolds`, `InOrderHolds` and
`GivenUpForCauseHolds`, for packets and buffers of any size and pieces of any length. The invariant
`StreamInv` puts together, for each direction, what is in the buffer of the reader, in the
sockets and in the hands of the thread that writes: these bytes are the packets behind the last
one that was fetched, each whole and in the order of the mutex (`StreamOf`, `Contiguous`), and
the buffer begins with the first byte of a packet. From there FetchIOBuf, a recursive function
of the bytes it has passed, is followed packet by packet (`FetchResult`, `TakenFromFront`):
it takes what is whole, and stops before a packet of which a part is missing. `GivenUpForCause` follows
because what it leaves is less than one packet, so the room the rest of that packet needs is there
unless the packet does not fit the buffer at all.

The second part is about `HdcCodec`: `CodecInvHolds`, `RoundTripHolds` and `TlvRoundTripHolds`, for
all widths of the integers of more than 8 bits, all values of the fields, and any tags and values that
satisfy the assumptions. It goes from the inside to the outside. `VarintBack`: ReadVarint reads a
number that WriteVarint wrote and stops behind its last byte, whatever follows, because the
bytes of a number of `width` bits are at most those the loop may take. `FieldBack`: Parse reads
what Serialize wrote and stops where the next field begins. `CodecInv`: the reader stands
between two fields with the fields before it read and the others untouched, or behind the last
one, where it finds the end or the zeros of the prefix; zero is a tag no field has, and
each takes it one byte further (`BehindTheMessage`). In the other direction, a tag and a length
that were filled up with spaces are trimmed back (`TrimBack`), atoi reads what to_string wrote
(`NumberBack`), and a turn of the loop of TlvToStringMap takes one entry (`TurnTakes`); after as
many turns as there are entries nothing is left, and further turns rest (`TurnRests`).

**Recursion and induction.** The library's induction theorems take an operator, which the
installed provers cannot instantiate. What is needed of them is proved here for sets: a nonempty
set of numbers has a least element (`Smallest`, from the well-foundedness of `<`), so a set that
has a number whenever it has the smaller ones has all numbers (`Induction`). A recursive function
of TLA+ is a CHOOSE; that there is one to choose is `Recursion`, for functions that come closer
to their end with each call (`Closer`, `Solved`), and lemmas such as `SomeLoop` for the loops.

Only model-checked: `HdcTransfer` for more than one file, where the close of a file may still be
under way at the master when the next one is opened, so that the invariant of one file does not
carry over; `OneThread`, which fails; and the
liveness properties, since fairness and `ENABLED` are out of the prover's reach.

## 6. Not modelled

* The threads of `file_descriptor.cpp` (device points of a forward), `async_cmd.cpp`, which
  the host does not use, the terminal of a shell.
* The part of authentication that runs at the daemon, RSA and the encodings.
* The tar writer and reader of an installation; paths, time stamps and modes of files.
* The mutex of WriteUvTcpFd is per session in `HdcStream`; in the code all sessions share it. The test
  of `isDead` in FetchIOBuf and errors of `send` other than EAGAIN, which free the session.
* A pid file that cannot be opened; tags of a handshake that only a newer peer knows.
* A file that grows while it is copied, and what the process does after `fsCloseReq` was begun twice.
* The race of two threads on the container of `mapForward`: each access is one step.
* Server shutdown (`ClearSessions` and what it calls), which nothing in this build reaches.
* Parsing and formatting of command lines, logging, the socket and path helpers of
  `base.cpp`, the Windows branches; USB and UART, which are not compiled in.
* Allocation failures, except where a module says otherwise.
