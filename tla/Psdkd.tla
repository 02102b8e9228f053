-------------------------------- MODULE Psdkd --------------------------------
(***************************************************************************)
(* The life of one psdkd process: main() and everything it calls to bring  *)
(* the SDK up, serve datagrams and take the SDK down again.                *)
(*                                                                         *)
(* One step is one call into the SDK, the kernel or the C library, or one  *)
(* test of g_running; between any two of them a signal may be delivered.   *)
(* What a datagram's handler answers is the subject of RpcServer; here a   *)
(* datagram is told apart only by what it does to the process lifetime:    *)
(* nothing ("blank"), a handler that returns ("other"), or a handler that  *)
(* initialises the waypoint module on first use ("upload").                *)
(***************************************************************************)
EXTENDS Naturals, Sequences, FiniteSets

CONSTANTS CommandLines,  \* set of argument vectors the process may be given
          Topics,        \* topics drone_ctrl_init subscribes to
          QueueMax       \* bound: datagrams waiting in the socket's buffer

ASSUME CommandLinesAssumption == \A a \in CommandLines : a \in Seq(STRING)
ASSUME QueueMaxAssumption == QueueMax \in Nat

VARIABLES argv,       \* argv[1..argc-1] of the process
          bind_ip,    \* main's bind_ip: "any", or the operand of --bind-ip
          pc,         \* the function the main thread is in
          step,       \* progress inside that function
          installed,  \* signals whose handler is sig_handler
          g_running,
          g_srv,      \* handler.c's server pointer has been set
          held,       \* calls that succeeded and have not been undone
          subscribed, \* topics whose callbacks the SDK may invoke
          s_waypoint_v3_inited,
          deinitFailed, \* history: DjiWaypointV3_DeInit has returned an error
          rxq,        \* datagrams in the socket's receive buffer
          status,     \* exit status
          log,        \* which of the lines a supervisor looks for are written
          lateRequests \* history: requests taken since g_running was cleared

sdk == <<held, subscribed, s_waypoint_v3_inited, deinitFailed>>
io == <<g_srv, rxq, log, lateRequests>>
vars == <<argv, bind_ip, pc, step, installed, g_running, sdk, io, status>>

-----------------------------------------------------------------------------
(* The calls of each start-up function, in the order they are made.        *)

Signals == {"SIGINT", "SIGTERM"}
SignalOrder == <<"SIGINT", "SIGTERM">>

\* psdk_init: the six registrations of psdk_hal_register, then the core.
PsdkInitCalls == <<"Osal", "Uart", "Console", "Network", "Socket",
                   "FileSystem", "Core", "Alias", "Firmware", "Serial",
                   "Application">>

\* ensure_waypoint_v3_ready.
WaypointCalls == <<"Waypoint", "MissionCb", "ActionCb">>

\* drone_ctrl_init. "Topics" stands for the block of SUBSCRIBE calls.
CtrlInitCalls == <<"FcSubscription", "Topics", "Camera", "Gimbal">>

\* A failure of one of these is logged and start-up goes on.
Optional == {"Console", "Alias", "Firmware", "Serial",
             "Topics", "Camera", "Gimbal"}

Platform == {"Osal", "Uart", "Console", "Network", "Socket", "FileSystem"}
Calls == Platform \cup {"Core", "Alias", "Firmware", "Serial", "Application",
                        "FcSubscription", "Topics", "Camera", "Gimbal",
                        "Waypoint", "MissionCb", "ActionCb", "Server"}

\* Mutant: psdk_deinit is called before drone_ctrl_deinit.
TeardownCoreFirst == <<"Server", "Core", "Waypoint", "Gimbal", "Camera", "FcSubscription">>

\* Shutdown: udp_server_destroy, drone_ctrl_deinit, psdk_deinit. The error
\* paths of main() enter it further down: after a failed drone_ctrl_init only
\* psdk_deinit is called, after a failed udp_server_create both deinits are.
Teardown == <<"Server", "Waypoint", "Gimbal", "Camera", "FcSubscription", "Core">>

FromServer == 1

\* Mutant: a failed udp_server_create forgets drone_ctrl_deinit.
FromCtrlForgotten == 6

FromCtrl == 2

\* Mutant: a failed drone_ctrl_init forgets psdk_deinit.
FromCoreForgotten == 7

FromCore == 6

\* What each release undoes. DjiCore_DeInit also ends the application and
\* forgets the metadata given to DjiCore.
Undone(call) ==
    CASE call = "Core" -> {"Core", "Alias", "Firmware", "Serial", "Application"}
      [] call = "Waypoint" -> {"Waypoint", "MissionCb", "ActionCb"}
      [] call = "FcSubscription" -> {"FcSubscription", "Topics"}
      [] OTHER -> {call}

Undecided == 99
BySignal == 128
Statuses == {0, 1, 2, 3, 4, Undecided, BySignal}

\* The lines of psdk_init and of main that tools/start_dual.sh looks for; they
\* are written at either log level main can set.
CoreFailed == "DjiCore_Init failed"
Listening == "listening on UDP port"

Options == {"--port", "--bind-ip", "--debug", "--help"}
Datagrams == {"blank", "upload", "other"}
Places == {"args", "sigaction", "psdk_init", "ctrl_init", "udp_create",
           "psdk_failed", "set_server", "loop", "poll", "handle", "waypoint", "teardown",
           "exited"}

-----------------------------------------------------------------------------

Init == /\ argv \in CommandLines
        /\ bind_ip = "any"
        /\ pc = "args" /\ step = 1
        /\ installed = {}
        /\ g_running = TRUE
        /\ g_srv = FALSE
        /\ held = {} /\ subscribed = {}
        /\ s_waypoint_v3_inited = FALSE /\ deinitFailed = FALSE
        /\ rxq = <<>>
        /\ status = Undecided
        /\ log = {}
        /\ lateRequests = 0

Goto(place) == pc' = place /\ step' = 1

Return(code) == /\ Goto("exited")
                /\ status' = code

\* main's option loop, one option a step. An option that needs an operand and
\* is the last word falls through to the "Unknown option" branch.
ParseOption ==
    /\ pc = "args" /\ step <= Len(argv)
    /\ LET word == argv[step]
           operand == step + 1 <= Len(argv)
       IN  \/ /\ word = "--port" /\ operand
              /\ step' = step + 2
              /\ UNCHANGED <<pc, bind_ip, status>>
           \/ /\ word = "--bind-ip" /\ operand
              /\ step' = step + 2
              /\ bind_ip' = argv[step + 1]
              /\ UNCHANGED <<pc, status>>
           \/ /\ word = "--debug"
              /\ step' = step + 1
              /\ UNCHANGED <<pc, bind_ip, status>>
           \/ /\ word = "--help"
              /\ Return(0)
              /\ UNCHANGED bind_ip
           \/ /\ \/ word \notin Options
                 \/ word \in {"--port", "--bind-ip"} /\ ~operand
              /\ Return(1)
              /\ UNCHANGED bind_ip
    /\ UNCHANGED <<argv, installed, g_running, sdk, io>>

OptionsDone ==
    /\ pc = "args" /\ step > Len(argv)
    /\ Goto("sigaction")
    /\ UNCHANGED <<argv, bind_ip, installed, g_running, sdk, io, status>>

InstallHandler ==
    /\ pc = "sigaction"
    /\ installed' = installed \cup {SignalOrder[step]}
    /\ IF step < Len(SignalOrder) THEN step' = step + 1 /\ UNCHANGED pc
                                  ELSE Goto("psdk_init")
    /\ UNCHANGED <<argv, bind_ip, g_running, sdk, io, status>>

\* A start-up function goes on to its next call, or returns 0 to main.
Advance(calls, next) ==
    IF step < Len(calls) THEN step' = step + 1 /\ UNCHANGED pc ELSE Goto(next)

\* psdk_init's current call. A fatal failure is logged and psdk_init returns -1.
PsdkInitCall ==
    /\ pc = "psdk_init"
    /\ LET call == PsdkInitCalls[step]
       IN  \/ /\ held' = held \cup {call}
              /\ Advance(PsdkInitCalls, "ctrl_init")
              /\ UNCHANGED log
           \/ /\ call \in Optional
              /\ Advance(PsdkInitCalls, "ctrl_init")
              /\ UNCHANGED <<held, log>>
           \/ /\ call \notin Optional
              /\ Goto("psdk_failed")
              /\ log' = IF call = "Core" THEN log \cup {CoreFailed} ELSE log
              /\ UNCHANGED held
    /\ UNCHANGED <<argv, bind_ip, installed, g_running, subscribed,
                   s_waypoint_v3_inited, deinitFailed, g_srv, rxq, lateRequests, status>>

\* Mutant: main returns what psdk_init returned (-1, which the shell sees as 255).
PsdkInitFailedPassedOn ==
    /\ pc = "psdk_failed"
    /\ Return(255)
    /\ UNCHANGED <<argv, bind_ip, installed, g_running, sdk, io>>

\* main returns 2, without psdk_deinit even when DjiCore_Init has succeeded.
PsdkInitFailed ==
    /\ pc = "psdk_failed"
    /\ Return(2)
    /\ UNCHANGED <<argv, bind_ip, installed, g_running, sdk, io>>

BackOut(from, code) == /\ pc' = "teardown" /\ step' = from
                       /\ status' = code

\* drone_ctrl_init's current call; any of the subscriptions may fail.
CtrlInitCall ==
    /\ pc = "ctrl_init"
    /\ LET call == CtrlInitCalls[step]
       IN  \/ /\ call # "Topics"
              /\ held' = held \cup {call}
              /\ Advance(CtrlInitCalls, "udp_create")
              /\ UNCHANGED <<subscribed, status>>
           \/ /\ call = "Topics"
              /\ subscribed' \in SUBSET Topics
              /\ Advance(CtrlInitCalls, "udp_create")
              /\ UNCHANGED <<held, status>>
           \/ /\ call \in Optional \ {"Topics"}
              /\ Advance(CtrlInitCalls, "udp_create")
              /\ UNCHANGED <<held, subscribed, status>>
           \/ /\ call \notin Optional
              /\ BackOut(FromCore, 3)
              /\ UNCHANGED <<held, subscribed>>
    /\ UNCHANGED <<argv, bind_ip, installed, g_running, s_waypoint_v3_inited,
                   deinitFailed, io>>

\* Mutant: main does not test the pointer udp_server_create returned.
CreateServerUnchecked ==
    /\ pc = "udp_create"
    /\ held' \in {held, held \cup {"Server"}}
    /\ Goto("set_server")
    /\ UNCHANGED <<argv, bind_ip, installed, g_running, subscribed,
                   s_waypoint_v3_inited, deinitFailed, io, status>>

\* Mutant: udp_server_create already says that the server is ready.
CreateServerAnnounced ==
    /\ pc = "udp_create"
    /\ \/ /\ bind_ip # "malformed"
          /\ held' = held \cup {"Server"}
          /\ log' = log \cup {Listening}
          /\ Goto("set_server")
          /\ UNCHANGED status
       \/ /\ BackOut(FromCtrl, 4)
          /\ UNCHANGED <<held, log>>
    /\ UNCHANGED <<argv, bind_ip, installed, g_running, subscribed,
                   s_waypoint_v3_inited, deinitFailed, g_srv, rxq, lateRequests>>

\* udp_server_create: out of memory, no socket, a malformed address or a port
\* in use fail it, and it releases what it had taken.
CreateServer ==
    /\ pc = "udp_create"
    /\ \/ /\ bind_ip # "malformed"
          /\ held' = held \cup {"Server"}
          /\ Goto("set_server")
          /\ UNCHANGED status
       \/ /\ BackOut(FromCtrl, 4)
          /\ UNCHANGED held
    /\ UNCHANGED <<argv, bind_ip, installed, g_running, subscribed,
                   s_waypoint_v3_inited, deinitFailed, io>>

\* handler_set_server, and the line that says the server is ready.
SetServer ==
    /\ pc = "set_server"
    /\ g_srv' = TRUE
    /\ log' = log \cup {Listening}
    /\ Goto("loop")
    /\ UNCHANGED <<argv, bind_ip, installed, g_running, sdk, rxq, lateRequests, status>>

-----------------------------------------------------------------------------
(* The event loop.                                                         *)

\* Mutant: the loop drains the socket before it looks at g_running.
TestRunningDrains ==
    /\ pc = "loop"
    /\ IF g_running \/ rxq # <<>> THEN Goto("poll") /\ UNCHANGED status
                                  ELSE BackOut(FromServer, 0)
    /\ UNCHANGED <<argv, bind_ip, installed, g_running, sdk, io>>

TestRunning ==
    /\ pc = "loop"
    /\ IF g_running THEN Goto("poll") /\ UNCHANGED status
                    ELSE BackOut(FromServer, 0)
    /\ UNCHANGED <<argv, bind_ip, installed, g_running, sdk, io>>

\* Mutant: poll() is called without a timeout and the signal came before it.
PollIdleForever == pc = "poll" /\ rxq # rxq /\ UNCHANGED vars

\* poll() timed out after 500 ms or was interrupted by a signal.
PollIdle ==
    /\ pc = "poll" /\ rxq = <<>>
    /\ Goto("loop")
    /\ UNCHANGED <<argv, bind_ip, installed, g_running, sdk, io, status>>

\* poll() and recvfrom() take one datagram. An empty one, one of line ends
\* and spaces only, or a socket error makes udp_server_poll return.
Receive ==
    /\ pc = "poll" /\ rxq # <<>>
    /\ rxq' = Tail(rxq)
    /\ LET d == Head(rxq)
       IN  Goto(CASE d = "blank" -> "loop"
                  [] d = "other" -> "handle"
                  [] d = "upload" /\ s_waypoint_v3_inited -> "handle"
                  [] d = "upload" /\ ~s_waypoint_v3_inited -> "waypoint")
    /\ lateRequests' = IF g_running THEN lateRequests ELSE lateRequests + 1
    /\ UNCHANGED <<argv, bind_ip, installed, g_running, sdk, g_srv, log, status>>

\* handle_rpc returns to the event loop.
Handle ==
    /\ pc = "handle"
    /\ Goto("loop")
    /\ UNCHANGED <<argv, bind_ip, installed, g_running, sdk, io, status>>

\* Mutant: the flag is set as soon as the module is initialised.
WaypointCallEarlyFlag ==
    /\ pc = "waypoint"
    /\ \/ /\ held' = held \cup {WaypointCalls[step]}
          /\ s_waypoint_v3_inited' = TRUE
          /\ Advance(WaypointCalls, "handle")
       \/ /\ Goto("handle")
          /\ UNCHANGED <<held, s_waypoint_v3_inited>>
    /\ UNCHANGED <<argv, bind_ip, installed, g_running, subscribed, deinitFailed,
                   io, status>>

\* ensure_waypoint_v3_ready's current call. The flag is set only after all
\* three; a failure abandons the request and leaves what was done in place.
WaypointCall ==
    /\ pc = "waypoint"
    /\ \/ /\ held' = held \cup {WaypointCalls[step]}
          /\ s_waypoint_v3_inited' = (step = Len(WaypointCalls))
          /\ Advance(WaypointCalls, "handle")
       \/ /\ Goto("handle")
          /\ UNCHANGED <<held, s_waypoint_v3_inited>>
    /\ UNCHANGED <<argv, bind_ip, installed, g_running, subscribed, deinitFailed,
                   io, status>>

-----------------------------------------------------------------------------
(* Shutdown.                                                               *)

\* One release of the shutdown sequence. The waypoint module is released only
\* if its flag is set; when DjiWaypointV3_DeInit fails, drone_ctrl_deinit logs
\* a warning, clears the flag all the same and goes on. The code does not look
\* at the result of any other release, and they are taken to succeed.
Release ==
    /\ pc = "teardown" /\ step <= Len(Teardown)
    /\ LET call == Teardown[step]
       IN  /\ \/ /\ call # "Waypoint" \/ s_waypoint_v3_inited
                 /\ held' = held \ Undone(call)
                 /\ UNCHANGED deinitFailed
              \/ /\ call = "Waypoint" /\ s_waypoint_v3_inited
                 /\ deinitFailed' = TRUE
                 /\ UNCHANGED held
              \/ /\ call = "Waypoint" /\ ~s_waypoint_v3_inited
                 /\ UNCHANGED <<held, deinitFailed>>
           /\ subscribed' = IF call = "FcSubscription" THEN {} ELSE subscribed
           /\ s_waypoint_v3_inited' =
                  IF call = "Waypoint" THEN FALSE ELSE s_waypoint_v3_inited
    /\ step' = step + 1
    /\ UNCHANGED <<argv, bind_ip, pc, installed, g_running, io, status>>

MainReturns ==
    /\ pc = "teardown" /\ step > Len(Teardown)
    /\ Return(status)
    /\ UNCHANGED <<argv, bind_ip, installed, g_running, sdk, io>>

-----------------------------------------------------------------------------
(* The environment.                                                        *)

\* A stop signal. Until its handler is installed its default action ends the
\* process; afterwards sig_handler only clears g_running.
Signal(sig) ==
    /\ pc # "exited"
    /\ IF sig \in installed
         THEN /\ g_running' = FALSE
              /\ UNCHANGED <<pc, step, status>>
         ELSE /\ Return(BySignal)
              /\ UNCHANGED g_running
    /\ UNCHANGED <<argv, bind_ip, installed, sdk, io>>

\* The kernel queues a datagram once the socket is bound.
Arrive(d) ==
    /\ "Server" \in held
    /\ Len(rxq) < QueueMax
    /\ rxq' = Append(rxq, d)
    /\ UNCHANGED <<argv, bind_ip, pc, step, installed, g_running, g_srv, sdk,
                   log, lateRequests, status>>

MainStep == \/ ParseOption \/ OptionsDone \/ InstallHandler
            \/ PsdkInitCall \/ PsdkInitFailed \/ CtrlInitCall \/ CreateServer \/ SetServer
            \/ TestRunning \/ PollIdle \/ Receive \/ Handle \/ WaypointCall
            \/ Release \/ MainReturns

Next == \/ MainStep
        \/ \E sig \in Signals : Signal(sig)
        \/ \E d \in Datagrams : Arrive(d)

Spec == Init /\ [][Next]_vars

\* The main thread is scheduled and every call it makes returns.
FairSpec == Spec /\ WF_vars(MainStep)

-----------------------------------------------------------------------------
(* Properties.                                                             *)

TypeOK == /\ argv \in CommandLines
          /\ bind_ip = "any" \/ \E k \in 1..Len(argv) : bind_ip = argv[k]
          /\ pc \in Places
          /\ step \in Nat \ {0}
          /\ installed \subseteq Signals
          /\ g_running \in BOOLEAN
          /\ g_srv \in BOOLEAN
          /\ held \subseteq Calls
          /\ subscribed \subseteq Topics
          /\ s_waypoint_v3_inited \in BOOLEAN
          /\ deinitFailed \in BOOLEAN
          /\ rxq \in Seq(Datagrams)
          /\ status \in Statuses
          /\ log \subseteq {CoreFailed, Listening}
          /\ lateRequests \in Nat

\* Every fatal call of the sequence has succeeded and is still in effect.
Standing(calls) == \A k \in DOMAIN calls : calls[k] \in held \cup Optional

\* A request is only ever taken, and its handler only ever runs, while every
\* mandatory SDK stage is up, the socket is open and handler.c knows the
\* server it has to answer through.
SessionWhileServing ==
    pc \in {"loop", "poll", "handle", "waypoint"} =>
        /\ Standing(PsdkInitCalls)
        /\ Standing(CtrlInitCalls)
        /\ "Server" \in held
        /\ g_srv

\* The order of shutdown: nothing that runs on top of the core outlives it. In
\* particular no subscription callback can be delivered once DjiCore_DeInit
\* has been called, and the socket is closed before any module goes away. The
\* waypoint module is left out: half registered, or after a DjiWaypointV3_DeInit
\* that failed, it does outlive the core (see OrderlyExit).
DependentsFirst ==
    /\ held \cap {"Application", "FcSubscription", "Camera", "Gimbal", "Server"} # {}
          => "Core" \in held
    /\ subscribed # {} => {"FcSubscription", "Core"} \subseteq held
    /\ "Server" \in held => {"FcSubscription", "Application"} \subseteq held

\* s_waypoint_v3_inited is exactly the knowledge that the module is up with
\* both callbacks registered inside a running session, until the shutdown in
\* which a DjiWaypointV3_DeInit that failed makes drone_ctrl_deinit forget a
\* module that is still up.
WaypointReady == {"Waypoint", "MissionCb", "ActionCb", "Core"} \subseteq held

WaypointFlagHonest ==
    /\ s_waypoint_v3_inited => WaypointReady
    /\ WaypointReady => s_waypoint_v3_inited \/ (deinitFailed /\ pc = "teardown")

\* An orderly end (0, 3 and 4 after the session was opened) leaves nothing
\* behind but the platform registrations, which have no release, and what
\* drone_ctrl_deinit does not release of the waypoint module: a registration
\* that stopped half-way, since its flag is not set, and the whole module
\* when DjiWaypointV3_DeInit itself has failed.
OrderlyExit ==
    pc = "exited" /\ status \in {0, 3, 4} =>
        /\ held \subseteq Platform \cup {"Waypoint", "MissionCb"}
                              \cup (IF deinitFailed THEN {"ActionCb"} ELSE {})
        /\ subscribed = {}
        /\ ~s_waypoint_v3_inited

\* Once the stop flag is down at most the request of the poll that was already
\* under way is still taken, whatever is waiting in the socket.
StopLatency == lateRequests <= 1

\* A stop request ends the process: the poll timeout bounds how long an idle
\* server can overlook it.
StopHonoured == (~g_running) ~> (pc = "exited")

-----------------------------------------------------------------------------
(* Psdkd implements Daemon.                                                *)

Phase == CASE pc = "exited" -> "exited"
           [] pc = "teardown" -> "stopping"
           [] pc \in {"loop", "poll", "handle", "waypoint"} -> "serving"
           [] OTHER -> "starting"

D == INSTANCE Daemon WITH phase <- Phase,
                          session <- "Application" \in held,
                          stop <- ~g_running

\* Seen from its supervisor, psdkd is the daemon of module Daemon: no request
\* outside a session, no exit from serving without a stop request, no exit
\* with an open session.
ImplementsDaemon == D!Spec

-----------------------------------------------------------------------------
(* Psdkd implements SupervisedDaemon.                                      *)

SD == INSTANCE SupervisedDaemon WITH phase <- Phase,
                                     session <- "Application" \in held,
                                     stop <- ~g_running,
                                     core <- CoreFailed \in log

\* SIGINT was recorded, and SIGTERM comes before its own handler is installed.
EndedBySecondSignal == pc = "sigaction" /\ ~g_running /\ pc' = "exited"

\* A psdkd that is run with --debug only is the process tools/start_dual.sh is
\* composed with: the line that announces a failed DjiCore_Init is in the log
\* before the exit and never followed by a session, "listening" is there
\* exactly from the first moment requests are served, and a stop signal ends
\* the process only before its handler is installed. The script's view knows
\* one signal; that a second one of the other kind may end a process which has
\* recorded the first is the only step it does not have.
ImplementsSupervised ==
    /\ SD!Init /\ CoreFailed \notin log
    /\ [][argv = <<"--debug">> => SD!Step \/ SD!Term \/ EndedBySecondSignal
        ]_<<SD!vars, CoreFailed \in log, log>>

=============================================================================
