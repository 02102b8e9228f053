----------------------------- MODULE StartDual -----------------------------
(***************************************************************************)
(* tools/start_dual.sh, run by psdkd.service: it rebuilds the USB gadget,  *)
(* waits for usb0, starts psdkd and watches its log until psdkd listens,   *)
(* has failed, or a timeout passes; it retries for ever. The unit starts   *)
(* the script again when it ends with an error and leaves it alone when it *)
(* ends with 0.                                                            *)
(*                                                                         *)
(* The script is composed with two psdkd processes: its own, a new one in  *)
(* each attempt, and one that was left over when the script was started,   *)
(* by an earlier run of it that did not end in order. Both append to the   *)
(* same attempt log. One step is one command of the script that another    *)
(* process can notice.                                                     *)
(***************************************************************************)
EXTENDS Naturals

CONSTANTS Attempts,          \* delays in START_DELAYS
          UsbWaitPolls,      \* USB_WAIT_POLLS
          NegotiateTimeout   \* NEGOTIATE_TIMEOUT

ASSUME StartDualAssumption ==
    Attempts \in Nat \ {0} /\ UsbWaitPolls \in Nat \ {0} /\ NegotiateTimeout \in Nat \ {0}

VARIABLES pc,        \* where the script is
          attempt,   \* which of START_DELAYS is tried
          poll,      \* the loop variable i of wait_for_usb0, elapsed of the watchdog
          gadget,    \* the gadget is complete and bound to the UDC
          usb0,      \* the network interface exists
          address,   \* it is up and has its address, should "ip" not have failed
          log,       \* ATTEMPT_LOG
          phase, session, stop, status, core,               \* the script's psdkd
          oldPhase, oldSession, oldStop, oldStatus, oldCore, \* the left-over one
          served,    \* history: the psdkd of this attempt has been serving
          overlap    \* history: a left-over psdkd lived when the log was emptied

Own == INSTANCE SupervisedDaemon
Old == INSTANCE SupervisedDaemon WITH phase <- oldPhase, session <- oldSession,
           stop <- oldStop, status <- oldStatus, core <- oldCore

own == <<phase, session, stop, status, core, served>>
old == <<oldPhase, oldSession, oldStop, oldStatus, oldCore>>
link == <<gadget, usb0, address>>
vars == <<pc, attempt, poll, link, log, own, old, overlap>>

Init == /\ pc = "boot" /\ attempt = 1 /\ poll = 1
        /\ gadget = FALSE /\ usb0 = FALSE /\ address = FALSE
        /\ log = {}
        /\ phase = "exited" /\ session = FALSE /\ stop = FALSE
        /\ status = Own!Undecided /\ core = FALSE
        /\ oldPhase \in {"starting", "exited"} /\ oldSession = FALSE /\ oldStop = FALSE
        /\ oldStatus = Old!Undecided /\ oldCore = FALSE
        /\ served = FALSE /\ overlap = FALSE

-----------------------------------------------------------------------------
(* The unit, and the head of the script.                                   *)

\* Not root, no UDC, or no psdkd binary: exit 1.
Preflight == /\ pc = "boot"
             /\ pc' \in {"cleanup", "failed"}
             /\ attempt' = 1
             /\ UNCHANGED <<poll, link, log, own, old, overlap>>

\* Restart=on-failure.
Restart == /\ pc = "failed"
           /\ pc' = "boot"
           /\ UNCHANGED <<attempt, poll, link, log, own, old, overlap>>

-----------------------------------------------------------------------------
(* main.                                                                   *)

\* On to the next delay, or to a new cycle when all have been tried.
NextAttempt == /\ attempt' = IF attempt < Attempts THEN attempt + 1 ELSE 1
               /\ pc' = "cleanup"

\* cleanup_processes signals every psdkd and does not wait for any.
Cleanup == /\ pc = "cleanup"
           /\ Own!Term /\ Old!Term
           /\ pc' = "gadget"
           /\ UNCHANGED <<attempt, poll, link, served, overlap>>

\* rebuild_gadget. The old gadget goes with its interface, whatever its state;
\* an error in building the new one ends the script ("set -e").
RebuildGadget ==
    /\ pc = "gadget"
    /\ address' = FALSE
    /\ \/ gadget' = TRUE /\ usb0' \in BOOLEAN /\ pc' = "usb"
       \/ gadget' = FALSE /\ usb0' = FALSE /\ pc' = "failed"
    /\ poll' = 1
    /\ UNCHANGED <<attempt, log, own, old, overlap>>

\* wait_for_usb0. When the polls are used up the attempt is over at once.
WaitForUsb0 ==
    /\ pc = "usb"
    /\ \/ usb0 /\ pc' = "prepare" /\ UNCHANGED <<attempt, poll>>
       \/ ~usb0 /\ poll < UsbWaitPolls /\ poll' = poll + 1 /\ UNCHANGED <<pc, attempt>>
       \/ ~usb0 /\ poll = UsbWaitPolls /\ NextAttempt /\ UNCHANGED poll
    /\ UNCHANGED <<link, log, own, old, overlap>>

\* prepare_usb0. Failures of its "ip" commands are ignored and psdkd is started
\* without an address; only the last command, a pipeline, must not fail.
PrepareUsb0 ==
    /\ pc = "prepare"
    /\ \/ address' \in BOOLEAN /\ pc' = "empty"
       \/ UNCHANGED address /\ pc' = "failed"
    /\ UNCHANGED <<attempt, poll, gadget, usb0, log, own, old, overlap>>

\* start_and_watch has returned an error: reset_usb_net, and the next attempt.
Retry == /\ pc = "retry"
         /\ address' = FALSE
         /\ NextAttempt
         /\ UNCHANGED <<poll, gadget, usb0, log, own, old, overlap>>

-----------------------------------------------------------------------------
(* start_and_watch.                                                        *)

\* Mutant: the log of the attempt before is kept.
KeepLog ==
    /\ pc = "empty"
    /\ pc' = "launch"
    /\ overlap' = Old!Alive
    /\ UNCHANGED <<attempt, poll, link, log, own, old>>

EmptyLog ==
    /\ pc = "empty"
    /\ log' = {}
    /\ pc' = "launch"
    /\ overlap' = Old!Alive
    /\ UNCHANGED <<attempt, poll, link, own, old>>

\* Mutant: the watchdog counts its seconds from 0.
LaunchFromZero ==
    /\ pc = "launch"
    /\ Own!Fresh /\ served' = FALSE
    /\ poll' = 0
    /\ pc' = "watch"
    /\ UNCHANGED <<attempt, link, log, old, overlap>>

\* psdkd is started after the delay of this attempt.
Launch ==
    /\ pc = "launch"
    /\ Own!Fresh /\ served' = FALSE
    /\ poll' = 1
    /\ pc' = "watch"
    /\ UNCHANGED <<attempt, link, log, old, overlap>>

\* "kill -0": has psdkd exited before it was ready?
TestAlive ==
    /\ pc = "watch"
    /\ pc' = IF Own!Alive THEN "grep" ELSE "retry"
    /\ UNCHANGED <<attempt, poll, link, log, own, old, overlap>>

\* "startup succeeded": from here on there is no timeout.
SeeListening ==
    /\ pc = "grep"
    /\ Own!CoreFailed \notin log /\ Own!Listening \in log
    /\ pc' = "serve"
    /\ UNCHANGED <<attempt, poll, link, log, own, old, overlap>>

\* Neither line is there: the loop sleeps for a second.
Sleep ==
    /\ pc = "grep"
    /\ log \cap {Own!CoreFailed, Own!Listening} = {}
    /\ pc' = "sleep"
    /\ UNCHANGED <<attempt, poll, link, log, own, old, overlap>>

Wake ==
    /\ pc = "sleep" /\ poll < NegotiateTimeout
    /\ poll' = poll + 1
    /\ pc' = "watch"
    /\ UNCHANGED <<attempt, link, log, own, old, overlap>>

\* Mutant: psdkd is given up without being told to stop.
AbandonUnsignalled ==
    /\ \/ pc = "grep" /\ Own!CoreFailed \in log
       \/ pc = "sleep" /\ poll = NegotiateTimeout
    /\ pc' = "reap"
    /\ UNCHANGED <<attempt, poll, link, log, own, old, overlap>>

\* DjiCore_Init has failed, or the last poll is over, and the log is not looked
\* at again after that: psdkd is told to stop.
Abandon ==
    /\ \/ pc = "grep" /\ Own!CoreFailed \in log
       \/ pc = "sleep" /\ poll = NegotiateTimeout
    /\ Own!Term
    /\ pc' = "reap"
    /\ UNCHANGED <<attempt, poll, link, old, served, overlap>>

\* Mutant: psdkd is not waited for.
ReapAtOnce ==
    /\ pc = "reap"
    /\ pc' = "retry"
    /\ UNCHANGED <<attempt, poll, link, log, own, old, overlap>>

\* "wait", without a limit.
Reap ==
    /\ pc = "reap" /\ ~Own!Alive
    /\ pc' = "retry"
    /\ UNCHANGED <<attempt, poll, link, log, own, old, overlap>>

\* psdkd's exit status is the attempt's: with 0 the script ends.
WaitServing ==
    /\ pc = "serve" /\ ~Own!Alive
    /\ pc' = IF status = 0 THEN "done" ELSE "retry"
    /\ UNCHANGED <<attempt, poll, link, log, own, old, overlap>>

Script == \/ Preflight \/ Cleanup \/ RebuildGadget \/ WaitForUsb0 \/ PrepareUsb0
          \/ Retry \/ EmptyLog \/ Launch \/ TestAlive \/ SeeListening \/ Sleep \/ Wake
          \/ Abandon \/ Reap \/ WaitServing

-----------------------------------------------------------------------------
(* The two processes and the rest of the board.                            *)

OwnStep == /\ Own!Step
           /\ served' = (served \/ phase' = "serving")
           /\ UNCHANGED <<pc, attempt, poll, link, old, overlap>>

OldStep == /\ Old!Step
           /\ UNCHANGED <<pc, attempt, poll, link, own, overlap>>

OwnCrash == /\ Own!Crash
            /\ UNCHANGED <<pc, attempt, poll, link, old, served, overlap>>

\* Somebody stops psdkd, not the unit.
Operator == /\ Own!RequestStop
            /\ UNCHANGED <<pc, attempt, poll, link, log, core, served, old, overlap>>

\* The kernel creates the interface some time after the gadget is bound.
Usb0Appears == /\ gadget /\ ~usb0
               /\ usb0' = TRUE
               /\ UNCHANGED <<pc, attempt, poll, gadget, address, log, own, old, overlap>>

Next == Script \/ Restart \/ OwnStep \/ OldStep \/ OwnCrash \/ Operator \/ Usb0Appears

Spec == Init /\ [][Next]_vars

\* The script runs, the unit restarts it, and every call psdkd makes returns.
FairSpec == Spec /\ WF_vars(Script) /\ WF_vars(Restart) /\ WF_vars(OwnStep)

-----------------------------------------------------------------------------
(* Properties.                                                             *)

TypeOK == /\ pc \in {"boot", "cleanup", "gadget", "usb", "prepare", "empty", "launch",
                     "watch", "grep", "sleep", "reap", "serve", "retry", "done", "failed"}
          /\ attempt \in 1..Attempts
          /\ poll \in 1..UsbWaitPolls \cup 1..NegotiateTimeout
          /\ gadget \in BOOLEAN /\ usb0 \in BOOLEAN /\ address \in BOOLEAN
          /\ session \in BOOLEAN /\ stop \in BOOLEAN /\ core \in BOOLEAN
          /\ oldSession \in BOOLEAN /\ oldStop \in BOOLEAN /\ oldCore \in BOOLEAN
          /\ served \in BOOLEAN /\ overlap \in BOOLEAN
          /\ log \subseteq {Own!CoreFailed, Own!Listening}
          /\ phase \in Own!Phases /\ oldPhase \in Own!Phases
          /\ status \in Own!Statuses /\ oldStatus \in Own!Statuses

\* As long as a psdkd of the script is alive, on whatever path an attempt ends,
\* the script starts no other one, and the gadget and usb0 stay as that psdkd
\* found them, with or without an address: no step rebuilds the gadget, flushes
\* the address or resets the network from under it.
LinkHeld ==
    /\ [](Own!Alive => /\ gadget /\ usb0
                       /\ pc \in {"watch", "grep", "sleep", "reap", "serve"})
    /\ [][Own!Alive => UNCHANGED link]_vars

\* The script's verdicts are true. "startup succeeded" means this attempt's
\* psdkd and not what an earlier one has left in the log, unless a psdkd of an
\* earlier run still writes to it; and the script ends with 0, after which the
\* unit does not start it again, only if that psdkd was asked to stop.
VerdictsTrue ==
    /\ pc = "serve" /\ ~overlap => served
    /\ pc = "done" => served /\ stop /\ status = 0

\* Every attempt comes to an end, so that there is always another one, a psdkd
\* that serves, or a script that is done.
KeepsTrying == []<>(pc \in {"boot", "cleanup", "serve", "done"})

=============================================================================
