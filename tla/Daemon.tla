------------------------------- MODULE Daemon -------------------------------
(***************************************************************************)
(* What psdkd promises to whoever supervises it (systemd, start_dual.sh):  *)
(* it either gives up while starting, with the exit status of the stage    *)
(* that failed, or it serves; it serves only inside an aircraft session;   *)
(* it leaves the serving phase only when it was asked to stop; and once    *)
(* the session is up it is always closed again before the process exits.   *)
(*                                                                         *)
(* The detailed specification Psdkd implements this one.                   *)
(***************************************************************************)
EXTENDS Naturals

VARIABLES phase,    \* "starting", "serving", "stopping" or "exited"
          session,  \* the E-Port session with the aircraft is open
          stop,     \* a stop signal has been delivered and recorded
          status    \* exit status the process has settled on

vars == <<phase, session, stop, status>>

\* Not an exit status: the process has not decided how it will end.
Undecided == 99
\* The process was ended by a signal it did not handle yet.
BySignal == 128

Init == /\ phase = "starting"
        /\ session = FALSE
        /\ stop = FALSE
        /\ status = Undecided

Connect == /\ phase = "starting"
           /\ ~session
           /\ session' = TRUE
           /\ UNCHANGED <<phase, stop, status>>

\* Usage errors (0 for --help, 1), a failed SDK start (2) and a signal whose
\* handler is not installed yet all end the process before there is a session.
GiveUp == /\ phase = "starting"
          /\ ~session
          /\ phase' = "exited"
          /\ status' \in {0, 1, 2, BySignal}
          /\ UNCHANGED <<session, stop>>

\* A later stage failed: the session has to be closed first.
BackOut == /\ phase = "starting"
           /\ session
           /\ phase' = "stopping"
           /\ status' \in {3, 4}
           /\ UNCHANGED <<session, stop>>

Serve == /\ phase = "starting"
         /\ session
         /\ phase' = "serving"
         /\ UNCHANGED <<session, stop, status>>

Leave == /\ phase = "serving"
         /\ stop
         /\ phase' = "stopping"
         /\ status' = 0
         /\ UNCHANGED <<session, stop>>

Disconnect == /\ phase = "stopping"
              /\ session
              /\ session' = FALSE
              /\ UNCHANGED <<phase, stop, status>>

Exit == /\ phase = "stopping"
        /\ ~session
        /\ phase' = "exited"
        /\ UNCHANGED <<session, stop, status>>

RequestStop == /\ phase # "exited"
               /\ ~stop
               /\ stop' = TRUE
               /\ UNCHANGED <<phase, session, status>>

Progress == Connect \/ GiveUp \/ BackOut \/ Serve \/ Leave \/ Disconnect \/ Exit

Next == Progress \/ RequestStop

Spec == Init /\ [][Next]_vars

FairSpec == Spec /\ WF_vars(Progress)

=============================================================================
