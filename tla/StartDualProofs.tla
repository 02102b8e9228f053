-------------------------- MODULE StartDualProofs --------------------------
(***************************************************************************)
(* Proofs about StartDual, for every number of attempts and polls.         *)
(***************************************************************************)
EXTENDS StartDual, TLAPS

\* The script has a psdkd of its own to look after.
Watching == {"watch", "grep", "sleep", "reap", "serve"}

-----------------------------------------------------------------------------
(* The inductive invariant.                                                *)

\* What the script has set up by the time it starts psdkd stays up while it
\* looks after it.
LinkUp ==
    /\ pc \in {"usb", "prepare", "empty", "launch"} \cup Watching => gadget
    /\ pc \in {"prepare", "empty", "launch"} \cup Watching => usb0

\* The script's psdkd lives only while the script looks after it.
Attended == Own!Alive => pc \in Watching

\* Without a left-over psdkd nobody but this attempt's psdkd can have written
\* the line, and it writes it when it serves.
LogIsOwn ==
    ~overlap /\ pc \in {"launch"} \cup Watching =>
        /\ oldPhase = "exited"
        /\ pc = "launch" => log = {}
        /\ pc # "launch" => (Own!Listening \in log => served)
        /\ pc = "serve" => served

\* Exit status 0 is decided by a psdkd that served and was told to stop.
StoppedInOrder ==
    /\ phase = "serving" => served
    /\ status = 0 => served /\ stop
    /\ pc = "done" => status = 0

IInv == TypeOK /\ LinkUp /\ Attended /\ LogIsOwn /\ StoppedInOrder

\* The invariant holds when the unit starts the script.
LEMMA InitIInv == Init => IInv
<1> SUFFICES ASSUME Init PROVE IInv
    OBVIOUS
<1>1. attempt \in 1..Attempts /\ poll \in 1..UsbWaitPolls \cup 1..NegotiateTimeout
    BY StartDualAssumption DEF Init
<1>2. TypeOK
    BY <1>1 DEF Init, TypeOK, Own!Phases, Own!Statuses, Own!Undecided, Old!Undecided
<1>3. LinkUp /\ Attended /\ LogIsOwn /\ StoppedInOrder
    BY DEF Init, LinkUp, Attended, LogIsOwn, StoppedInOrder, Watching, Own!Alive, Own!Undecided
<1> QED
    BY <1>2, <1>3 DEF IInv

-----------------------------------------------------------------------------
(* What the steps of a process do to it.                                   *)

\* SIGTERM leaves an exited process alone and starts nothing.
LEMMA OwnTerm ==
    ASSUME TypeOK, Own!Term
    PROVE  /\ phase' \in Own!Phases /\ session' \in BOOLEAN /\ stop' \in BOOLEAN
           /\ core' \in BOOLEAN /\ status' \in Own!Statuses
           /\ log' = log
           /\ phase' = phase \/ phase' = "exited"
           /\ status' = status \/ status' = Own!BySignal
           /\ stop => stop'
<1> USE DEF TypeOK, Own!Phases, Own!Statuses
<1>1. UNCHANGED <<core, log>>
    BY DEF Own!Term
<1>2. CASE Own!RequestStop
    BY <1>1, <1>2 DEF Own!RequestStop
<1>3. CASE Own!GiveUp /\ status' = Own!BySignal
    BY <1>1, <1>3 DEF Own!GiveUp
<1>4. CASE UNCHANGED Own!vars
    BY <1>1, <1>4 DEF Own!vars
<1> QED
    BY <1>2, <1>3, <1>4 DEF Own!Term

\* What a signal does to the psdkd of an earlier run.
LEMMA OldTerm ==
    ASSUME TypeOK, Old!Term
    PROVE  /\ oldPhase' \in Own!Phases /\ oldSession' \in BOOLEAN /\ oldStop' \in BOOLEAN
           /\ oldCore' \in BOOLEAN /\ oldStatus' \in Own!Statuses
           /\ log' = log
           /\ oldPhase' = oldPhase \/ oldPhase' = "exited"
<1> USE DEF TypeOK, Own!Phases, Own!Statuses, Own!BySignal, Old!BySignal
<1>1. UNCHANGED <<oldCore, log>>
    BY DEF Old!Term
<1>2. CASE Old!RequestStop
    BY <1>1, <1>2 DEF Old!RequestStop
<1>3. CASE Old!GiveUp /\ oldStatus' = Old!BySignal
    BY <1>1, <1>3 DEF Old!GiveUp
<1>4. CASE UNCHANGED Old!vars
    BY <1>1, <1>4 DEF Old!vars
<1> QED
    BY <1>2, <1>3, <1>4 DEF Old!Term

\* A step of the script's psdkd: it logs "listening" when it begins to serve,
\* and decides on 0 only when it was serving and told to stop.
LEMMA OwnSteps ==
    ASSUME TypeOK, Own!Step
    PROVE  /\ phase' \in Own!Phases /\ session' \in BOOLEAN /\ stop' = stop
           /\ core' \in BOOLEAN /\ status' \in Own!Statuses
           /\ Own!Alive
           /\ log' \subseteq {Own!CoreFailed, Own!Listening}
           /\ Own!Listening \in log' => Own!Listening \in log \/ phase' = "serving"
           /\ status' = 0 => status = 0 \/ (phase = "serving" /\ stop)
<1> USE DEF TypeOK, Own!Phases, Own!Statuses, Own!Alive
<1>1. CASE Own!CoreInitFails
    BY <1>1 DEF Own!CoreInitFails, Own!vars, Own!log_error, Own!log_write, Own!LOG_ERROR,
                Own!LOG_DEBUG, Own!g_level, Own!CoreFailed, Own!Listening
<1>2. CASE Own!StartUp
    <2>1. UNCHANGED <<core, log>>
        BY <1>2 DEF Own!StartUp
    <2>2. CASE Own!Connect
        BY <2>1, <2>2 DEF Own!Connect
    <2>3. CASE Own!GiveUp /\ status' = 2
        BY <2>1, <2>3 DEF Own!GiveUp
    <2>4. CASE Own!BackOut
        BY <2>1, <2>4 DEF Own!BackOut
    <2> QED
        BY <1>2, <2>2, <2>3, <2>4 DEF Own!StartUp
<1>3. CASE Own!Ready
    BY <1>3 DEF Own!Ready, Own!Serve, Own!log_info, Own!log_write, Own!LOG_INFO,
                Own!LOG_DEBUG, Own!g_level
<1>4. CASE Own!ShutDown
    <2>1. UNCHANGED <<core, log>>
        BY <1>4 DEF Own!ShutDown
    <2>2. CASE Own!Leave
        BY <2>1, <2>2 DEF Own!Leave
    <2>3. CASE Own!Disconnect
        BY <2>1, <2>3 DEF Own!Disconnect
    <2>4. CASE Own!Exit
        BY <2>1, <2>4 DEF Own!Exit
    <2> QED
        BY <1>4, <2>2, <2>3, <2>4 DEF Own!ShutDown
<1> QED
    BY <1>1, <1>2, <1>3, <1>4 DEF Own!Step

\* A step of the left-over psdkd, which must be alive to take one.
LEMMA OldSteps ==
    ASSUME TypeOK, Old!Step
    PROVE  /\ oldPhase' \in Own!Phases /\ oldSession' \in BOOLEAN /\ oldStop' = oldStop
           /\ oldCore' \in BOOLEAN /\ oldStatus' \in Own!Statuses
           /\ oldPhase # "exited"
           /\ log' \subseteq {Own!CoreFailed, Own!Listening}
<1> USE DEF TypeOK, Own!Phases, Own!Statuses, Own!CoreFailed, Own!Listening,
            Old!CoreFailed, Old!Listening
<1>1. CASE Old!CoreInitFails
    BY <1>1 DEF Old!CoreInitFails, Old!vars, Old!log_error, Old!log_write, Old!LOG_ERROR,
                Old!LOG_DEBUG, Old!g_level
<1>2. CASE Old!StartUp
    <2>1. UNCHANGED <<oldCore, log>>
        BY <1>2 DEF Old!StartUp
    <2>2. CASE Old!Connect
        BY <2>1, <2>2 DEF Old!Connect
    <2>3. CASE Old!GiveUp /\ oldStatus' = 2
        BY <2>1, <2>3 DEF Old!GiveUp
    <2>4. CASE Old!BackOut
        BY <2>1, <2>4 DEF Old!BackOut
    <2> QED
        BY <1>2, <2>2, <2>3, <2>4 DEF Old!StartUp
<1>3. CASE Old!Ready
    BY <1>3 DEF Old!Ready, Old!Serve, Old!log_info, Old!log_write, Old!LOG_INFO,
                Old!LOG_DEBUG, Old!g_level
<1>4. CASE Old!ShutDown
    <2>1. UNCHANGED <<oldCore, log>>
        BY <1>4 DEF Old!ShutDown
    <2>2. CASE Old!Leave
        BY <2>1, <2>2 DEF Old!Leave
    <2>3. CASE Old!Disconnect
        BY <2>1, <2>3 DEF Old!Disconnect
    <2>4. CASE Old!Exit
        BY <2>1, <2>4 DEF Old!Exit
    <2> QED
        BY <1>4, <2>2, <2>3, <2>4 DEF Old!ShutDown
<1> QED
    BY <1>1, <1>2, <1>3, <1>4 DEF Old!Step

-----------------------------------------------------------------------------
(* The steps of the system.                                                *)

\* The next attempt is one of START_DELAYS.
LEMMA NextAttemptType ==
    ASSUME TypeOK, NextAttempt
    PROVE  attempt' \in 1..Attempts /\ pc' = "cleanup"
    BY StartDualAssumption DEF TypeOK, NextAttempt

\* What the script does before it starts psdkd, which is not alive meanwhile.
LEMMA HeadIInv ==
    ASSUME IInv, Preflight \/ Restart \/ RebuildGadget \/ WaitForUsb0 \/ PrepareUsb0 \/ Retry
    PROVE  IInv'
<1> USE DEF IInv, LinkUp, Attended, LogIsOwn, StoppedInOrder, Watching, Own!Alive, own, old, link
<1>1. CASE Preflight
    <2>1. attempt' \in 1..Attempts
        BY <1>1, StartDualAssumption DEF Preflight
    <2>2. TypeOK'
        BY <1>1, <2>1 DEF Preflight, TypeOK
    <2> QED
        BY <1>1, <2>2 DEF Preflight
<1>2. CASE Restart
    <2>1. TypeOK'
        BY <1>2 DEF Restart, TypeOK
    <2> QED
        BY <1>2, <2>1 DEF Restart
<1>3. CASE RebuildGadget
    <2>1. poll' \in 1..UsbWaitPolls \cup 1..NegotiateTimeout
        BY <1>3, StartDualAssumption DEF RebuildGadget
    <2>2. TypeOK'
        BY <1>3, <2>1 DEF RebuildGadget, TypeOK
    <2> QED
        BY <1>3, <2>2 DEF RebuildGadget
<1>4. CASE WaitForUsb0
    <2>1. CASE usb0 /\ pc' = "prepare" /\ UNCHANGED <<attempt, poll>>
        <3>1. TypeOK'
            BY <1>4, <2>1 DEF WaitForUsb0, TypeOK
        <3> QED
            BY <1>4, <2>1, <3>1 DEF WaitForUsb0
    <2>2. CASE ~usb0 /\ poll < UsbWaitPolls /\ poll' = poll + 1 /\ UNCHANGED <<pc, attempt>>
        <3>1. poll' \in 1..UsbWaitPolls
            BY <2>2, StartDualAssumption DEF TypeOK
        <3>2. TypeOK'
            BY <1>4, <2>2, <3>1 DEF WaitForUsb0, TypeOK
        <3> QED
            BY <1>4, <2>2, <3>2 DEF WaitForUsb0
    <2>3. CASE NextAttempt /\ UNCHANGED poll
        <3>1. TypeOK'
            BY <1>4, <2>3, NextAttemptType DEF WaitForUsb0, TypeOK
        <3> QED
            BY <1>4, <2>3, <3>1, NextAttemptType DEF WaitForUsb0
    <2> QED
        BY <1>4, <2>1, <2>2, <2>3 DEF WaitForUsb0
<1>5. CASE PrepareUsb0
    <2>1. TypeOK'
        BY <1>5 DEF PrepareUsb0, TypeOK
    <2> QED
        BY <1>5, <2>1 DEF PrepareUsb0
<1>6. CASE Retry
    <2>1. attempt' \in 1..Attempts /\ pc' = "cleanup"
        BY <1>6, NextAttemptType DEF Retry
    <2>2. address' \in BOOLEAN
        BY <1>6 DEF Retry
    <2>3. TypeOK'
        BY <1>6, <2>1, <2>2 DEF Retry, TypeOK
    <2> QED
        BY <1>6, <2>1, <2>3 DEF Retry
<1> QED
    BY <1>1, <1>2, <1>3, <1>4, <1>5, <1>6

\* The left-over psdkds and the script's own are told to stop.
LEMMA CleanupIInv ==
    ASSUME IInv, Cleanup
    PROVE  IInv'
<1> USE DEF IInv, LinkUp, Attended, LogIsOwn, StoppedInOrder, Watching, Own!Alive, link, Cleanup
<1>1. TypeOK'
    BY OwnTerm, OldTerm DEF TypeOK
<1>2. LinkUp' /\ LogIsOwn'
    OBVIOUS
<1>3. Attended' /\ StoppedInOrder'
    BY OwnTerm DEF Own!BySignal
<1> QED
    BY <1>1, <1>2, <1>3

\* The watchdog's steps that leave psdkd alone.
LEMMA WatchIInv ==
    ASSUME IInv, EmptyLog \/ TestAlive \/ SeeListening \/ Sleep \/ Wake \/ Reap \/ WaitServing
    PROVE  IInv'
<1> USE DEF IInv, LinkUp, Attended, LogIsOwn, StoppedInOrder, Watching, Own!Alive, own, old, link
<1>1. CASE EmptyLog
    <2>1. TypeOK'
        BY <1>1 DEF EmptyLog, TypeOK, Old!Alive
    <2> QED
        BY <1>1, <2>1 DEF EmptyLog, Old!Alive
<1>2. CASE TestAlive
    <2>1. TypeOK'
        BY <1>2 DEF TestAlive, TypeOK
    <2> QED
        BY <1>2, <2>1 DEF TestAlive
<1>3. CASE SeeListening
    <2>1. TypeOK'
        BY <1>3 DEF SeeListening, TypeOK
    <2> QED
        BY <1>3, <2>1 DEF SeeListening
<1>4. CASE Sleep
    <2>1. TypeOK'
        BY <1>4 DEF Sleep, TypeOK
    <2> QED
        BY <1>4, <2>1 DEF Sleep
<1>5. CASE Wake
    <2>1. poll' \in 1..NegotiateTimeout
        BY <1>5, StartDualAssumption DEF Wake, TypeOK
    <2>2. TypeOK'
        BY <1>5, <2>1 DEF Wake, TypeOK
    <2> QED
        BY <1>5, <2>2 DEF Wake
<1>6. CASE Reap
    <2>1. TypeOK'
        BY <1>6 DEF Reap, TypeOK
    <2> QED
        BY <1>6, <2>1 DEF Reap
<1>7. CASE WaitServing
    <2>1. TypeOK'
        BY <1>7 DEF WaitServing, TypeOK
    <2> QED
        BY <1>7, <2>1 DEF WaitServing
<1> QED
    BY <1>1, <1>2, <1>3, <1>4, <1>5, <1>6, <1>7

\* The script starts its psdkd, and gives it up.
LEMMA ChildIInv ==
    ASSUME IInv, Launch \/ Abandon
    PROVE  IInv'
<1> USE DEF IInv, LinkUp, Attended, LogIsOwn, StoppedInOrder, Watching, Own!Alive, old, link
<1>1. CASE Launch
    <2>1. poll' \in 1..UsbWaitPolls \cup 1..NegotiateTimeout
        BY <1>1, StartDualAssumption DEF Launch
    <2>2. TypeOK'
        BY <1>1, <2>1 DEF Launch, TypeOK, Own!Fresh, Own!Phases, Own!Statuses
    <2> QED
        BY <1>1, <2>2 DEF Launch, Own!Fresh, Own!Undecided
<1>2. CASE Abandon
    <2>1. Own!Term /\ pc \in {"grep", "sleep"} /\ pc' = "reap"
        BY <1>2 DEF Abandon
    <2>2. TypeOK'
        BY <1>2, <2>1, OwnTerm DEF Abandon, TypeOK
    <2> QED
        BY <1>2, <2>1, <2>2, OwnTerm DEF Abandon, Own!BySignal
<1> QED
    BY <1>1, <1>2

\* The processes and the rest of the board.
LEMMA BoardIInv ==
    ASSUME IInv, OwnStep \/ OldStep \/ OwnCrash \/ Operator \/ Usb0Appears
    PROVE  IInv'
<1> USE DEF IInv, LinkUp, Attended, LogIsOwn, StoppedInOrder, Watching, Own!Alive, link
<1>1. CASE OwnStep
    <2>1. served' \in BOOLEAN
        BY <1>1 DEF OwnStep
    <2>2. TypeOK'
        BY <1>1, <2>1, OwnSteps DEF OwnStep, TypeOK, old
    <2>3. LinkUp' /\ Attended'
        BY <1>1, OwnSteps DEF OwnStep
    <2>4. LogIsOwn'
        BY <1>1, OwnSteps DEF OwnStep, old
    <2>5. StoppedInOrder'
        BY <1>1, OwnSteps DEF OwnStep
    <2> QED
        BY <2>2, <2>3, <2>4, <2>5
<1>2. CASE OldStep
    <2>1. TypeOK'
        BY <1>2, OldSteps DEF OldStep, TypeOK, own
    <2> QED
        BY <1>2, <2>1, OldSteps DEF OldStep, own
<1>3. CASE OwnCrash
    <2>1. phase' \in Own!Phases /\ session' \in BOOLEAN /\ status' \in Own!Statuses
        BY <1>3 DEF OwnCrash, Own!Crash, Own!Phases, Own!Statuses
    <2>2. TypeOK'
        BY <1>3, <2>1 DEF OwnCrash, Own!Crash, TypeOK, old
    <2> QED
        BY <1>3, <2>2 DEF OwnCrash, Own!Crash, Own!BySignal, old
<1>4. CASE Operator
    <2>1. TypeOK'
        BY <1>4 DEF Operator, Own!RequestStop, TypeOK, old
    <2> QED
        BY <1>4, <2>1 DEF Operator, Own!RequestStop, old
<1>5. CASE Usb0Appears
    <2>1. TypeOK'
        BY <1>5 DEF Usb0Appears, TypeOK, own, old
    <2> QED
        BY <1>5, <2>1 DEF Usb0Appears, own, old
<1> QED
    BY <1>1, <1>2, <1>3, <1>4, <1>5

\* Every step preserves the invariant.
LEMMA NextIInv == IInv /\ [Next]_vars => IInv'
<1> SUFFICES ASSUME IInv, [Next]_vars PROVE IInv'
    OBVIOUS
<1>1. CASE Script
    BY <1>1, HeadIInv, CleanupIInv, WatchIInv, ChildIInv DEF Script
<1>2. CASE Restart
    BY <1>2, HeadIInv
<1>3. CASE OwnStep \/ OldStep \/ OwnCrash \/ Operator \/ Usb0Appears
    BY <1>3, BoardIInv
<1>4. CASE UNCHANGED vars
    <2>1. TypeOK'
        BY <1>4 DEF vars, own, old, link, IInv, TypeOK
    <2> QED
        BY <1>4, <2>1 DEF vars, own, old, link, IInv, LinkUp, Attended, LogIsOwn,
                          StoppedInOrder, Watching, Own!Alive
<1> QED
    BY <1>1, <1>2, <1>3, <1>4 DEF Next

-----------------------------------------------------------------------------
(* The theorems.                                                           *)

\* The invariant holds of start_dual.sh throughout.
THEOREM AlwaysIInv == Spec => []IInv
    BY InitIInv, NextIInv, PTL DEF Spec

\* Attempts and polls of start_dual.sh stay within their lists and limits, and
\* psdkd's log lines and exit statuses are those main can produce.
THEOREM TypeCorrect == Spec => []TypeOK
<1>1. IInv => TypeOK
    BY DEF IInv
<1> QED
    BY <1>1, AlwaysIInv, PTL

\* No step leaves the link different while the script's psdkd is alive: the
\* steps that change it belong to places where there is no psdkd to look after.
LEMMA LinkStep ==
    ASSUME IInv, Own!Alive, [Next]_vars
    PROVE  UNCHANGED link
<1>1. pc \in Watching /\ usb0
    BY DEF IInv, Attended, LinkUp, Watching
<1>2. CASE Preflight \/ Cleanup \/ RebuildGadget \/ WaitForUsb0 \/ PrepareUsb0 \/ Retry
           \/ EmptyLog \/ Launch \/ Restart
    BY <1>1, <1>2
       DEF Preflight, Cleanup, RebuildGadget, WaitForUsb0, PrepareUsb0, Retry, EmptyLog,
           Launch, Restart, Watching
<1>3. CASE TestAlive \/ SeeListening \/ Sleep \/ Wake \/ Abandon \/ Reap \/ WaitServing
    BY <1>3 DEF TestAlive, SeeListening, Sleep, Wake, Abandon, Reap, WaitServing
<1>4. CASE OwnStep \/ OldStep \/ OwnCrash \/ Operator
    BY <1>4 DEF OwnStep, OldStep, OwnCrash, Operator
<1>5. CASE Usb0Appears
    BY <1>1, <1>5 DEF Usb0Appears
<1>6. CASE UNCHANGED vars
    BY <1>6 DEF vars
<1> QED
    BY <1>2, <1>3, <1>4, <1>5, <1>6 DEF Next, Script

\* start_dual.sh never changes gadget, interface or address under its psdkd,
\* and never starts a second one, whatever the number of attempts and polls
\* and whichever of its "ip" commands fail.
THEOREM LinkAlwaysHeld == Spec => LinkHeld
<1> DEFINE Held == Own!Alive => /\ gadget /\ usb0
                                /\ pc \in {"watch", "grep", "sleep", "reap", "serve"}
           Kept == Own!Alive => UNCHANGED link
<1>1. IInv => Held
    BY DEF IInv, LinkUp, Attended, Watching
<1>2. IInv /\ [Next]_vars => [Kept]_vars
    BY LinkStep
<1>3. Spec => []Held
    BY <1>1, AlwaysIInv, PTL
<1>4. Spec => [][Kept]_vars
    BY <1>2, AlwaysIInv, PTL DEF Spec
<1> QED
    BY <1>3, <1>4 DEF LinkHeld

\* "startup succeeded" and the exit with 0 of start_dual.sh are true of the
\* psdkd of the attempt.
THEOREM VerdictsAlwaysTrue == Spec => []VerdictsTrue
<1>1. IInv => VerdictsTrue
    BY DEF IInv, LogIsOwn, StoppedInOrder, VerdictsTrue, Watching
<1> QED
    BY <1>1, AlwaysIInv, PTL

=============================================================================
