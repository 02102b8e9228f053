# PSDK_Orangepi: a TLA+ model of the psdkd bridge daemon

psdkd runs on an Orange Pi that is attached to a DJI aircraft's E-Port. It
starts the DJI payload SDK, subscribes to flight-controller topics, and answers
JSON-RPC requests that clients send as UDP datagrams; scripts on the board bring
up the USB link, start it and watch it. This directory holds TLA+
specifications of its parts, the TLC runs that check them and the TLAPS proofs
of the theorems that hold for every size. `PROJECT.json` ties every definition
to the lines it models, and lists runs, mutants, findings, hazards and theorems.

## The system

| Component | State | Operations | What is hard |
|---|---|---|---|
| Process lifecycle (`app/main.c`, `bsp/psdk_init.c`, `bsp/psdk_hal.c`, init/deinit of `bsp/drone_ctrl.c`) | `g_running`, what has been initialised, exit status | parse options, install handlers, eleven SDK start calls, four of drone_ctrl, create socket, loop, release | signals between any two calls; each stage may fail; order of release; half-done waypoint set-up |
| Topic cache (`bsp/drone_ctrl.c`) | nine static structures, `TopicStats` | callbacks on the SDK's thread, `drone_get_*` on the main thread | no lock or barrier between the two threads |
| Battery selection (`bsp/drone_ctrl.c`) | three battery topics | `drone_get_telemetry`, `drone_get_battery_info`, `topic_is_fresh` | value read before its freshness is tested; ageing; rounding; sums |
| Request path (`core/server/udp_server.c`, `core/proto/rpc.c`, `core/handler/handler.c`, commands of `bsp/drone_ctrl.c`) | the request at hand, the aircraft, open file and buffer, `s_waypoint_v3_inited` | poll, parse, dispatch, sixteen methods, reply | failure of any call; partial effects; files changing; lost replies |
| TCP server (`core/server/tcp_server.c`; in the tree, not in the Makefile's `APP_SRCS`) | slots, count, buffers, epoll set, event batch | accept, receive, frame, close, destroy | edge-triggered readiness; descriptor reuse; stale events; full table and full buffer |
| Stub build (the other half of `bsp/drone_ctrl.c`, `psdk_init.c`, `psdk_hal.c`) | five static variables | the same interface, answered from them | uptime's borrow; what a command leaves for later answers |
| Boot orchestration (`tools/start_dual.sh`, `tools/psdkd.service`) | gadget, usb0, attempt log, psdkd's pid | retry cycles, negotiation watchdog, restart by the unit | timeouts racing start-up, unbounded wait, a psdkd left over from an earlier run, a shared log |
| Logging (`core/log`) | level, the log | filter and write | what the boot script concludes from a line |
| Earlier boot scripts (`tools/setup_gadget.sh`, `start.sh`, `psdk_boot.sh`) | gadget, UDC, where the script is | build, bind, start and kill ffs_init, wait for endpoints | runs that end half-way, in any order |
| FunctionFS initialiser (`tools/ffs_init.c`) | ep0, events | write descriptors and strings, answer events | events across bind and unbind; killed at any point; a new one started before the old one is gone |
| Status client (`tools/watch_drone_status_local.sh`) | ssh session, socket, answers so far | fetch, render, diagnose | lost and late replies; a client that survives its ssh connection |
| Build, dependency and diagnostic scripts | - | - | configuration only |

The components interact as follows. `main` brings up the SDK, then drone_ctrl,
then the socket; a datagram goes from `udp_server_poll` through `handle_rpc` to
one handler, which calls drone_ctrl and answers through the server pointer given
to `handler_set_server`. With the stub build the same handlers run on
variables of the process. The SDK calls the topic callbacks on a thread of its
own, sharing the static structures with the getters. systemd runs
`start_dual.sh`, which starts psdkd and sees only its output and its exit
status; the earlier scripts start psdkd next to `ffs_init`, with which they share
the gadget and its FunctionFS. The status client runs on the board over ssh and
asks psdkd through a socket of its own.

## Modules

| Module | Models | Composition |
|---|---|---|
| `Daemon` | what psdkd promises a supervisor: phases, session, stop, exit status | abstract specification |
| `Psdkd` | one psdkd process | implements `Daemon` (`ImplementsDaemon`) and, run as the boot script runs it, `SupervisedDaemon` (`ImplementsSupervised`) |
| `PsdkdProofs` | theorems about `Psdkd` | extends it |
| `FcCache` | topic structures at word granularity, racing callback and getter | |
| `FcCacheProofs` | theorems about `FcCache` | extends it |
| `Battery` | the two battery getters, one access a step | takes a topic as one cell; what a racing read may return is `FcCache`'s subject |
| `BatteryProofs` | theorems about `Battery` | extends it |
| `RpcService` | the JSON-RPC interface as atomic commands | abstract specification |
| `RpcServer` | the request path, one SDK, file or socket call a step | implements `RpcService` (`ImplementsService`) |
| `RpcServerProofs` | theorems about `RpcServer`, its refinement of `RpcService` among them | extends it |
| `TcpServer` | the epoll server and its kernel | |
| `TcpServerProofs` | theorems about `TcpServer` | extends it |
| `SupervisedDaemon` | psdkd as the boot script sees it: its log lines, SIGTERM, crashes | extends `Daemon` |
| `StartDual` | start_dual.sh under its unit | two instances of `SupervisedDaemon`: the script's psdkd and a left-over one |
| `StartDualProofs` | theorems about `StartDual` | extends it |
| `FfsInit` | the processes of ffs_init, the FunctionFS they serve and the host | |
| `UsbBoot` | setup_gadget.sh, start.sh and psdk_boot.sh, one after another in any order | extends `FfsInit` |
| `UsbBootProofs` | theorems about `UsbBoot` | extends it |
| `StubCtrl` | the stub build: effect and answer of a request, `uptime_ms` | |
| `StatusWatch` | the status client | extends `StubCtrl`, which answers it |
| `StatusWatchProofs` | theorems about `StatusWatch` and about `uptime_ms` | extends it |
| `MC*` | instances for TLC | |

### Psdkd

`pc` names the function the main thread is in and `step` how far it has come in
that function's table of calls (`PsdkInitCalls`, `CtrlInitCalls`,
`WaypointCalls`, `Teardown`). `held` is the set of calls that succeeded and have
not been undone, so that "what is still initialised at exit" is a value. A call
in `Optional` is logged when it fails; any other one leads to the exit its
caller chooses, `FromCore` and `FromCtrl` being the points at which the error
paths of `main` enter the shutdown sequence. A datagram is told apart only by
whether its handler initialises the waypoint module. `Signal` ends the process
while the handler of that signal is not installed and clears `g_running`
afterwards; it may happen between any two calls, in particular between the test
of `g_running` and `poll`. `Release` is one release of the shutdown sequence.
DjiWaypointV3_DeInit is the one whose failure the code handles: it logs a warning
and clears the flag all the same (`deinitFailed` remembers it). The results of the
others are not looked at, and they are taken to succeed. `log` holds which of the two lines the boot script searches for have been
written: the one of a failed DjiCore_Init, which is written in `psdk_init` while
the process still has to return to `main` and exit (place `"psdk_failed"`), and
"listening", written right before the event loop.

The session of `Daemon` is DjiCore_ApplicationStart's ("Application" in `held`).
A DjiCore that was initialised but never started is therefore no session, and
the exit with status 2 is allowed to leave it, as the code does (see "Read off
the code").

### FcCache

A word of a structure holds the number of the sample it came from. `memcpy`
stores the words in any order; a getter loads each once. The time stamp is stored
and loaded in any order with the data: all of them are plain variables, nothing in
the code orders them, and the aarch64 board does not either. `Guarded` topics (the
two packs) are used only if their stamp was seen nonzero; words of them may have
been loaded by then. A topic's callback is not called again before it has returned.

### Battery

Every access of a getter to a topic or to the clock is a step: the copy of the
whole-battery sample, the three reads of `topic_is_fresh`, each pack. `MaxAge`
stands for 5000 ms. A callback's `memcpy` and `mark_topic_rx` are one step here, two
of the SDK's thread in the code; `FcCache` takes them apart, and the properties
exempt the topics that were delivered during a call. drone_get_telemetry's `current_sum` is computed and
discarded, and is left out.

### RpcService and RpcServer

A request is a record of peer, id, method and parameters as `rpc_parse` yields
them; a missing parameter is a shorter tuple and takes the handler's default; id
-1 is a request without one. `Effect` is what a command tells the SDK,
conversions included (the altitude keeps 16 bits, every camera mode but 0 is
video, mode 0 of obstacle avoidance is ENABLE). `RpcServer` takes one step per
call, each of which may fail, and `Answer` may lose the reply. It implements
`RpcService` under the mapping that shows the request being carried out at the
moment of its answer: until then the service sees the aircraft as it was when
the request was taken, which is sound as nobody else is answered meanwhile.

`Range32` is the number of values of a uint32_t. drone_upload_kmz allocates and
sends the size of the file converted to 32 bits (`Uint32`), and reads the size as
it is. A file that is longer than the buffer therefore overruns it. That is
undefined behaviour: either nothing is noticed (`Fread`) or the process ends
(`Overrun`).

### TcpServer

The kernel side is modelled from how the server uses it and is marked external:
the backlog, descriptor numbers given out lowest first, bytes sent and read,
edges. `ready` holds descriptors with an edge `epoll_wait` has not reported;
`events` is what is left of `ev_scratch`, which may name a descriptor that has
been closed and given out again. `CloseClient` happens between polls or in an
`on_message` serving another client; closing the client being served is
forbidden by `tcp_server.h`. `Create` may fail at any of its calls, after which
there is no server; a failing registration of the listening socket, which the code
does not look at (`tcp_server.c:226`), is left out. `TcpSend` sends a reply, of which the socket may take all,
nothing or a part; `wire` is what has become of the last one.

### SupervisedDaemon and StartDual

`SupervisedDaemon` adds to `Daemon` the two lines the script greps for and what
may happen to a process from outside. A line passes through the filter of
`log_write` at the level `--debug` sets. `Term` ends a process whose handlers
are not installed yet and otherwise only asks it to stop. `core` says that
DjiCore_Init has failed, whose line is in the log before the process is gone.
`Psdkd` takes steps of this process (`Step`, `Term`) under the mapping of `Daemon`,
with `core` read off the log, when its command line is `--debug`, which is how
start_dual.sh runs it (`ImplementsSupervised`). The module thus connects the two
levels: what the script is composed with is what the code of psdkd does. One step
of psdkd is missing in it and named in the property: SIGINT was recorded by the
handler that is installed first, and SIGTERM ends the process before the second
handler is there. The script and the unit send SIGTERM only.

`StartDual` takes one step per command of the script that another process can
notice: the test of the pid, the search of the log and the sleep are separate
steps, and psdkd moves between them. `pc = "failed"` is an exit with an error,
after which the unit starts the script again; `"done"` is exit 0, which ends it.
A psdkd left over from an earlier run is starting at first, may reach any
state, and appends to the same log. The script's own psdkd may crash or be
stopped by an operator at any point. `prepare_usb0` ignores the failure of each of
its `ip` commands (`start_dual.sh:183-185`), so that psdkd may be started with or
without an address. `served` and `overlap` are history
variables used by properties only.

### FfsInit and UsbBoot

`ip[p]` is where process `p` of ffs_init is. There can be several, because
`Sigterm` (the scripts' `pkill` and `kill`) only marks a process, which ends at any
later time (`Die`) and works on until then: the scripts sleep 0.3 s at most and do
not wait. `pid` is the process a script has started itself. The FunctionFS side is
modelled from how the tools use it and is marked external. It takes descriptors
once, so that a second process that holds ep0 is refused and ends; a change of the
gadget's state replaces what waits in ep0. Everything is reset and the gadget
unbound when the last file is closed, which may be ep0 of a lingering process, or ep1
and ep2 of a psdkd built for the bulk channel (`bulk`). What is in the descriptors
is left out: the properties tell apart only whether they were accepted.

The three scripts are given by the order of their steps (`Steps`), as they do the
same things in different orders. Building the gadget may leave the mounted
FunctionFS as it is, or mount a new one over one that is still held, whose holders
are then cut off (`Remount`, `"detached"`). A script that has ended may be followed by
any of the four ways to run one, with the psdkd it started still there or not.

### StubCtrl and StatusWatch

The stub is one step per request, as handlers run to completion on one thread.
`StatusWatch` names a client process by its port. When ssh breaks off, the
client on the board goes on, so that two clients can be at work. A request or a
reply may be lost, psdkd may restart with requests in its buffer, and an
operator's commands change the answers. A timeout may race a reply that is still
on its way. A port is given to a new socket only when no datagram of its last
use is in psdkd's buffer: the client compares no ids, and relies on this. Neither
the script nor the kernel guarantees it (the kernel gives out ephemeral ports at
random, so that a reuse within the time a datagram waits is unlikely); it is an
assumption of the model, the guard of `SshConnects`.

## Runs

| Run | Checks | Result |
|---|---|---|
| `lifecycle` | type, `SessionWhileServing`, `DependentsFirst`, `WaypointFlagHonest`, `OrderlyExit`, `StopLatency`, refinement of `Daemon` and of `SupervisedDaemon`, `StopHonoured` | pass |
| `cache` | type, `RegularRead`, `AnswersMoveForward` | pass |
| `cache_torn` | `OneSample` | violated: an answer mixes two samples |
| `battery` | type, `FreshWins`, `StaleGivesWay`, `ChargeExplained` | pass |
| `battery_first` | `FreshIsReceived` | violated: zeroes reported as a fresh first sample |
| `rpc` | type, `ResourcesReturned`, `ReadyBeforeUpload`, `NeverSentShort`, refinement of `RpcService`, `EveryRequestServed` | pass |
| `rpc_avoidance` | `AvoidanceAsDocumented` | violated: 0 switches avoidance on |
| `tcp` | `TablesAgree`, `NoLostEdge` | pass |
| `tcp_framing` | type (a buffer never overruns its NUL), `Framing`, `BytesRead` on all short streams | pass |
| `boot` | type, `LinkHeld`, `VerdictsTrue`, `KeepsTrying` | pass |
| `ffs` | type, `NoStrayInitialiser`, `OneInitialiser`, `SetupFinished` | pass |
| `watch` | type, `OwnAnswers`, `FetchEnds` | pass |

What `lifecycle` says of the waypoint module: its flag is set only while it is
registered, and an exit leaves a registered module behind only when
DjiWaypointV3_DeInit has failed, which the code logs and forgets. `NeverSentShort` of
`rpc` is about files whose size fits into 32 bits: such a file never overruns the
buffer, and is reported as uploaded only if all of it was read and handed over. Of
longer ones it says nothing, and the code promises nothing (see "Read off the
code").

What `boot`, `ffs` and `watch` say: while a psdkd of start_dual.sh is alive, the
gadget and usb0 stay as it found them, with an address or without, and the script
starts no other one, on whatever path an attempt ends; it reports success and ends
with 0 only for the psdkd of the attempt; it never gets stuck in one. When ffs_init
is started, every other one has been told to end. The old one may still be there,
but only one of them gets its descriptors accepted and serves ep0, and a control
request of the host is finished or void, unless the only one left with FunctionFS
open is psdkd. Every answer the status client takes is the answer to the request it
is waiting for, from a state psdkd was in since it asked, and every fetch ends
although the client neither compares ids nor retries: it gives up at the first
silence, which is why a late reply cannot be mistaken. This rests on the assumption
that a port is not reused while a datagram of its last use waits in psdkd's buffer.

Each property of a passing run has a mutant of the modelled code in the module
(marked `Mutant:`), for which TLC finds it violated.

### Bounds

* `QueueMax = 2` datagrams: one being handled and one or two waiting, which is
  what `StopLatency` needs to tell "one more" from "all of them". The theorem
  covers every length.
* `CommandLines`: no option, the boot script's `--debug`, all options with operands,
  a malformed address, a missing operand, the usage option.
* `MaxSample = 2` samples of two words for two topics: a word can come from no
  sample, an old or a new one, and two words can differ. The theorems cover any
  number.
* `MaxAge = 1`, `ClockMax = 3`: fresh, exactly at the limit and stale, with one
  whole-battery and two pack samples whose mean and rounding differ from each.
* `MaxRequests = 2` with 26 requests (every method; parameters missing, out of
  range, at the edge, inside): the second request sees what the first left.
* `Sizes = {0, 1, 2, 4}` with `Range32 = 3`: a file that is empty, shrinks or grows
  between two calls, or is too long for the conversion, whose result is not 0 then.
* Three connections on two slots: rejection, reuse of a slot and of a descriptor.
  Six bytes through a buffer that holds three: every partial line, a full buffer
  and CR at the edge of it. `tcp` uses the symmetry of connections.

* `Attempts = 2`, `UsbWaitPolls = 2`, `NegotiateTimeout = 2`: a first and a last
  turn of each loop and the wrap-around to a new cycle. The theorems cover every
  length.
* `Pids = {p1, p2, p3}`: two processes of earlier runs, in two different places,
  beside the one just started. No symmetry, as the run checks liveness. A script
  that finds none free waits at `Launch` until one that was sent SIGTERM has ended;
  the theorems cover any number. `EndpointPolls = 2`.
* `Ports = {p1, p2}`, one operator command at a time that changes an answer
  (`set_gimbal_angle`): one client that has lost its ssh connection and one of the
  current fetch, with answers that differ in time.

Deadlock checking is off where a behaviour ends: the process exits, the bound on
samples or requests is used up, the TCP server is destroyed, the boot script is
done.

### Fairness

`StopHonoured`, `EveryRequestServed` and `BytesRead` assume weak fairness of the
one server thread: it is scheduled, and every SDK, file or callback call it makes
returns. The code relies on that itself; a call into the SDK that never returned
would stop the daemon, as all requests are handled on the polling thread. The
poll timeout of 500 ms is what makes `PollIdle` happen. Signals, datagrams,
samples and clients are never assumed to come.

`KeepsTrying` assumes that the script runs on, that the unit restarts it
(Restart=on-failure) and that psdkd's calls return, as the script's `wait` has
no limit. `SetupFinished` assumes that every ffs_init is scheduled, and neither that
its reads fail, nor that a signal arrives by any time, nor that the host gives up. `FetchEnds` assumes that the loop and
the clients run on and that an attempt to connect ends (ssh is given no timeout;
the kernel's for a TCP connection is the one that ends it); it assumes nothing of psdkd, the network, operators, or of a
connection that breaks.

## Proofs

`PsdkdProofs` proves, for every set of command lines, every set of topics and
every queue bound, type correctness, `SessionWhileServing`, `DependentsFirst`,
`WaypointFlagHonest`, `OrderlyExit`, `StopLatency` and that `Psdkd` implements
`Daemon`. None of the properties is inductive: they speak of `held` at certain
places, and `held` is built up by the tables of calls. The inductive invariant
says, for each place and step, which prefix of the tables is in effect, what is
still in effect at each point of the shutdown sequence and with which status it
was entered, and when a late request can have been counted (`IInv`, the
conjunction of `BeforeInit`, `DuringPsdkInit`, ..., `LateCount`). `NextIInv` shows
action by action that it is preserved; the properties, and the step simulation of
`Daemon` (`NextRefines`), follow from it. Assumptions: a command line is a sequence of strings
(`CommandLinesAssumption`) and the queue bound is a number (`QueueMaxAssumption`).

It also proves, from the same assumptions, that `Psdkd` implements
`SupervisedDaemon` in the sense of `ImplementsSupervised` (`SupervisedRefinement`).
Two parts of `IInv` are there for it: the line of a failed DjiCore_Init is in the log
only on the way to exit 2 (`FailureLogged`), so that no session can follow it, and
nothing has been recorded while options are parsed (`BeforeInit`), so that a signal
which ends the process finds no stop request pending unless one handler is already
installed. `NextSupervised` has one step per action; the two lines correspond to
`CoreInitFails` and `Ready`.

`FcCacheProofs` proves for any topics, words, getters and number of samples that
reads are regular (`RegularRead`) and that answers never go back
(`AnswersMoveForward`). The invariant relates each word to the delivery under way: a
word that is not waiting to be stored is of the latest sample, one that is waiting
of the sample before. Type correctness is one of its parts (`TypeCorrect`).
Assumption: `TopicsAssumption`.

`StartDualProofs` proves, for any number of attempts and polls, type
correctness, `LinkHeld` and `VerdictsTrue`. Neither is inductive. The invariant
(`IInv`) says what the script has set up by the time it starts psdkd and that it
stays so while it looks after it (`LinkUp`; the address is not part of it), that its psdkd lives only in that part
of the script (`Attended`), that without an overlap the only writer of the log is
the psdkd of the attempt, which writes "listening" when it serves (`LogIsOwn`), and
that exit status 0 is decided by a psdkd that served and was told to stop
(`StoppedInOrder`). What a step of either process can change is stated once
(`OwnTerm`, `OldTerm`, `OwnSteps`, `OldSteps`) and used in the step for each action.
`LinkHeld` has two parts: the invariant gives the first, and that no step changes
the link under a living psdkd (`LinkStep`) follows from it step by step.
Assumption: `StartDualAssumption`, the three numbers are positive.

`RpcServerProofs` proves, for any requests, files and file sizes and any bounds,
type correctness, `ResourcesReturned`, `ReadyBeforeUpload`, `NeverSentShort` and
that `RpcServer` implements `RpcService`. The three upload properties are nearly
inductive among themselves (`UploadInv` adds that the flag is clear during
registration, that a size that has been accepted is not 0, that the buffer has as
much room as the converted size says, and that all of it was read before it is
sent). That the conversion leaves a size that fits alone is
`Uint32Value`. The refinement
needs more. The service is shown the aircraft as it was when the request was
taken, and carries the request out when it is answered, so the invariant has to
say at every call which method it is made for, that the handler's tests were
passed, how far the aircraft differs from the one at the request (`AtCommand`:
not at all, but for the first half of obstacle avoidance), what the camera query
has collected (`AtCamera`) and, once the answer is settled, that it is one the
service allows for that effect (`AtReply`). The last request of `taken` is the one
at hand (`Handling`), which is where the abstract request is found. Assumptions:
`RequestsAssumption`, requests are what `rpc_parse` yields, with methods of
`Methods` and parameters that are numbers; `SizesAssumption`, sizes are numbers, a
file may be empty, and `Range32` is positive.

`TcpServerProofs` proves, for any number of slots, any buffer of at least two
bytes, any connections and any streams, type correctness (with it that a buffer
never overruns the place of its NUL), `TablesAgree` and `NoLostEdge`. `TablesAgree` is
preserved only if no descriptor has two slots and no connection two descriptors
(`OneEach`), and connections wait in the backlog once (`Waiting`). `NoLostEdge` speaks
of an idle server; the invariant says at every point of a batch which events are
still due, the one at hand included until `read` has said EAGAIN (`Due`, `Edges`),
and that the client being served is that event's (`Serving`). `epoll_wait` reports
the ready descriptors in some order; that one exists for every finite set
(`EveryOrder`), and that the kernel's lowest free descriptor exists (`MinMember`),
are lemmas.

`FramingHolds` proves `Framing` for every buffer length, stream and way of cutting it
into reads. `Split` is the reference: a recursive function of the position that
feeds one byte at a time. What it computes is reasoned about without an induction
theorem: a set of positions that has 0 and with each its successor has all of them
(`Counting`, from the least counterexample); with it, that the function exists and
is the only one to satisfy its equations (`ReadingExists`, `ReadingUnique`). From
these follow that splitting a concatenation is splitting the second part from where
the first ended (`SplitConcat`), that bytes without LF are only added to the partial
line (`SplitPartial`), that more input only adds lines (`SplitMonotone`), and that the
line `recv_client` cuts off at the first LF is the one the reference yields next
(`FirstLine`). The invariant (`FInv`, beside `IInv`) says that the dispatched lines
followed by the buffer split like all that was read (`Buffered`), that only the client
being served has a complete line in its buffer (`Partial`), and that a connection
starts with nothing (`Untouched`), which is what reuse of a slot or a descriptor could
break. Assumptions: `TcpBounds`, `StreamsAssumption`, `ConnsAssumption`.

`UsbBootProofs` proves, for any limit on polls and any number of processes, type
correctness, `NoStrayInitialiser` and `OneInitialiser`. The invariant ties FunctionFS
to the one process whose descriptors it took, and to somebody who keeps it open
(`Ep0`); without the second part a reset could come from a process that is not the
last. It says which steps a script has (`InScript`), and from which of them on every
process of an earlier run has its signal, in start.sh all but the one it has started
itself (`Killed`). Most steps start no process and take no signal back (`Quiet`),
which is all that `Killed` needs of them. Assumption: `PollsAssumption`.

`BatteryProofs` proves, for any samples, any maximal age and any time, type
correctness, `FreshWins`, `StaleGivesWay` and `ChargeExplained`. All three speak of the
moment a getter returns. The invariant follows it there: what was not delivered
since the call is as it was (`History`); the clock that is compared is not earlier
than the call, and a whole-battery sample that failed the test is stale for good
(`Tested`); the result is the sample at the call until the packs are read
(`Copied`); and, if no pack reported meanwhile, the sums are those of the packs
(`Collected`). That the mean of two 8-bit numbers survives the conversion to 8 bits
is `Mean8`. Assumptions: `BatteryBounds`, and `SamplesAssumption`, a sample has the
SDK's types and at most 255 percent.

`StatusWatchProofs` proves, for any number of clients, any commands and any queue,
type correctness and `OwnAnswers`. The argument is the one the client relies on
without saying so: it never has more than one request under way, which is in
psdkd's buffer, answered in its own, or lost (`Outstanding`, `Buffered`); a client that
has yet to send has none, because it gives up at the first timeout and because a
port is not given out again before psdkd has taken the last request from it. An
answer is therefore to the request at hand, and was true when psdkd gave it, which
is after the request (`Own`). `Answered` and `Printed` carry the ids to what is
rendered. Assumptions: `PortsAssumption`, and `CommandsAssumption`, an operator's
argument is a number and a camera mode is not negative, as the handler sees to. It
also proves `UptimeExact`: `uptime_ms` equals the difference of the two clock readings
in nanoseconds, rounded down to milliseconds, for every two readings.

Each of these invariants was checked by TLC on the instance of the module's run
before it was proved.

Only model-checked: `StopHonoured`, `EveryRequestServed`, `BytesRead`, `KeepsTrying`,
`SetupFinished` and `FetchEnds`, which are liveness under fairness and out of the
prover's reach. Every invariant, action property and refinement that a passing run
checks is also stated by a theorem.

## Findings

The code disagrees with what its own comments and documents say in the three
places listed under "findings" in `PROJECT.json`, each with the run that shows it:
obstacle avoidance is switched on by the mode documented as off and off by the
others; the getters can return a mixture of two samples; and zeroes can be
reported as a fresh first battery sample.

### Read off the code

Noted while modelling, without a run of their own:

psdkd

* an exit with status 2 after a failed DjiCore_ApplicationStart leaves the core
  initialised (`main.c:86`), where `psdk_init.h:8` asks for psdk_deinit at
  shutdown;
* on the board a pack's stamp can be seen before its data, as nothing orders the
  two (`drone_ctrl.c:75`): the first answer after its first sample may contain
  zeroes of a pack that counts as reported;
* a DjiWaypointV3_DeInit that fails is logged and forgotten (`drone_ctrl.c:271`):
  DjiCore_DeInit follows with the waypoint module still registered;
* a KMZ file of 4 GiB or more overruns the buffer it is read into, and only its size
  modulo 2^32 is sent (`drone_ctrl.c:551`, `:557`, `:565`); nothing limits the size;
* when the packs stand in for a stale whole-battery sample, their currents are
  added to the stale current (`drone_ctrl.c:358`);
* `drone_get_battery_info` keeps the stale whole-battery voltage when only the
  second pack has reported and the stale one is larger (`drone_ctrl.c:367`);
* `drone_get_battery_info` reports 0 degrees when only the second pack has reported and
  is below freezing (`drone_ctrl.c:370`);
* `drone_get_camera_state` answers DRONE_OK with defaults when its second or
  third query fails (`drone_ctrl.c:403`; `Bodies` of `RpcService` says so);
* `alt_rel_m` is documented as relative to the home point
  (`drone_types.h:45`) and is the fused altitude (`drone_ctrl.c:300`);
* the uptime that `system.ping` reports counts from the first ping;
* the stub's gimbal answers 0 for roll and yaw whatever was set.

TCP server

* lines that were read together with the end of the stream, or that fill the
  buffer, are dropped with the connection (`tcp_server.c:112`, `:125`), where
  `tcp_server.h:10` promises on_message for every full line;
* a short write is followed by the line end (`tcp_server.c:251`).

Boot

* `cleanup_processes` does not wait for what it signals (`start_dual.sh:74`), so
  that a psdkd of an earlier run can live next to the new one, where
  `config_autostart.md:5` says that old processes are cleaned up; its "listening"
  in the shared log makes the script report success and drop the timeout;
* the carrier is only polled in the background and nothing waits for it, where
  `config_autostart.md:7` and `:96` have it awaited before psdkd is started;
* `config_autostart.md:99` speaks of a limited number of retries; the cycle is a
  `while true`;
* a psdkd that becomes ready during the last second of the timeout is killed;
* the unit in `aut_start.md:12` passes `--ip`, which `main` rejects with exit
  status 1;
* psdkd is started without an address when `ip` fails (`start_dual.sh:183-185`), where
  `:186` logs that usb0 is prepared;
* a new ffs_init that finds FunctionFS still held by an old one, or by a psdkd, is
  refused and ends; `start.sh` does not notice and binds the gadget over the old
  FunctionFS, which goes away with the old process. `psdk_boot.sh` notices a process
  that has ended, and otherwise logs "FunctionFS ACTIVE" (`psdk_boot.sh:137`) without
  having looked;
* `psdk_boot.sh` leaves ffs_init running when the bind fails, and no script
  stops it when psdkd ends;
* `setup_gadget.sh:16` and `:97` have the UDC bound after psdkd has initialised
  ep0; `start.sh` binds it before psdkd is started, after ffs_init has done so;
* `psdk_hal.h:30` names ep1 OUT and ep2 IN, `ffs_init.c:67` makes them IN and OUT
  (the two macros are unused);
* `ffs_init.c:186` says one language, the strings have none; `ffs_init.c:214` says
  that a control request is stalled, the write of no bytes acknowledges it; a
  read error ends ffs_init with 0.

Status client

* ids are not compared. `OwnAnswers` rests on the client giving up at the first
  timeout and on ports not being reused while a datagram of the last use waits.

## Not modelled

Text (JSON, log wording, the layout of what is printed, formatting of numbers),
units and the heading computation, the drift of the stub's mock position, the
commands that make up a gadget in configfs (one step that may fail), the
background poll of the carrier, which only logs, the script that opens a
terminal, build and dependency scripts and the serial line test. Nothing in
these keeps state that another part reads.

## Possible extensions

* The composition of `StartDual` with a crash inside each SDK call of `Psdkd`: the
  supervised process is crashed from outside at any point, which covers it, but
  without saying which call it was.
* A TCP server that replaces the UDP server in `RpcServer`, once the Makefile builds
  it; `Framing` is the fact that composition would start from.
* Liveness stays with TLC on the instances of the runs.
