-------------------------- MODULE SupervisedDaemon --------------------------
(***************************************************************************)
(* A psdkd process as tools/start_dual.sh sees it: the states of Daemon,   *)
(* the two lines of its log the script looks for, and the ways it can be   *)
(* ended from outside. The script runs it with --debug only, so that the   *)
(* exits of the option parser do not occur.                                *)
(***************************************************************************)
EXTENDS Daemon

VARIABLES core,  \* DjiCore_Init has failed; the process is on its way to exit 2
          log    \* which of the lines are in the attempt log

CoreFailed == "DjiCore_Init failed"
Listening == "listening on UDP port"

(* core/log: levels in order, the level main sets for --debug, and the     *)
(* filter. A line that passes goes to stdout or stderr, which the script   *)
(* sends to the same file, and is flushed at once.                         *)
LOG_DEBUG == 0
LOG_INFO == 1
LOG_WARN == 2
LOG_ERROR == 3

g_level == LOG_DEBUG

log_write(level, line) == log' = IF level < g_level THEN log ELSE log \cup {line}
log_info(line) == log_write(LOG_INFO, line)
log_error(line) == log_write(LOG_ERROR, line)

Phases == {"starting", "serving", "stopping", "exited"}
Statuses == {0, 2, 3, 4, Undecided, BySignal}

Alive == phase # "exited"

\* The process has just been started.
Fresh == /\ phase' = "starting" /\ session' = FALSE
         /\ stop' = FALSE /\ status' = Undecided /\ core' = FALSE

-----------------------------------------------------------------------------
(* What the process does by itself. The line is in the log some time before*)
(* the exit it announces.                                                  *)

CoreInitFails == /\ phase = "starting" /\ ~session /\ ~core
                 /\ core' = TRUE
                 /\ log_error(CoreFailed)
                 /\ UNCHANGED vars

StartUp == /\ \/ Connect /\ ~core
              \/ GiveUp /\ status' = 2
              \/ BackOut
           /\ UNCHANGED <<core, log>>

\* main logs "ready" whether or not it has been asked to stop meanwhile.
Ready == Serve /\ log_info(Listening) /\ UNCHANGED core

ShutDown == (Leave \/ Disconnect \/ Exit) /\ UNCHANGED <<core, log>>

Step == CoreInitFails \/ StartUp \/ Ready \/ ShutDown

-----------------------------------------------------------------------------
(* What others do to it.                                                   *)

\* SIGTERM. Until the handler is installed it ends the process; afterwards it
\* only clears g_running, which is looked at when start-up is over.
Term == /\ \/ RequestStop
           \/ /\ phase = "starting" /\ ~session /\ ~core /\ ~stop
              /\ GiveUp /\ status' = BySignal
           \/ (~Alive \/ stop) /\ UNCHANGED vars
        /\ UNCHANGED <<core, log>>

\* A crash inside the SDK, or SIGKILL.
Crash == /\ Alive
         /\ phase' = "exited" /\ session' = FALSE /\ status' = BySignal
         /\ UNCHANGED <<stop, core, log>>

=============================================================================
