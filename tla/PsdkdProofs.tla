---------------------------- MODULE PsdkdProofs ----------------------------
(***************************************************************************)
(* Proofs about Psdkd, for every set of command lines, every set of topics *)
(* and every bound on the receive buffer.                                  *)
(***************************************************************************)
EXTENDS Psdkd, TLAPS

\* Calls made only after psdk_init has returned 0.
Late == {"FcSubscription", "Topics", "Camera", "Gimbal", "Waypoint",
         "MissionCb", "ActionCb", "Server"}
CoreGroup == {"Core", "Alias", "Firmware", "Serial", "Application"}
Serving == {"loop", "poll", "handle", "waypoint"}

-----------------------------------------------------------------------------
(* The inductive invariant, one part per stage of main().                  *)

\* Before psdk_init nothing has been taken, and a signal may still be fatal.
BeforeInit ==
    pc \in {"args", "sigaction"} =>
        /\ held = {} /\ subscribed = {}
        /\ IF pc = "args" THEN installed = {} /\ g_running ELSE step \in 1..2

\* The first calls of psdk_init stand, none of the later ones was made.
DuringPsdkInit ==
    /\ pc = "psdk_init" =>
          /\ step \in 1..11
          /\ \A k \in 1..(step - 1) : PsdkInitCalls[k] \in held \cup Optional
    /\ pc \in {"psdk_init", "psdk_failed"} =>
          /\ held \cap Late = {} /\ "Application" \notin held
          /\ subscribed = {}

\* The line about DjiCore_Init is followed by the exit of the process.
FailureLogged == CoreFailed \in log => pc \in {"psdk_failed", "exited"}

DuringCtrlInit ==
    pc = "ctrl_init" =>
        /\ step \in 1..4
        /\ Standing(PsdkInitCalls)
        /\ IF step = 1 THEN held \cap Late = {} /\ subscribed = {}
                       ELSE "FcSubscription" \in held
        /\ held \cap {"Waypoint", "MissionCb", "ActionCb", "Server"} = {}

AfterCtrlInit ==
    pc \in {"udp_create", "set_server"} \cup Serving =>
        /\ Standing(PsdkInitCalls)
        /\ "FcSubscription" \in held
        /\ "Server" \in held <=> pc # "udp_create"
        /\ pc \in Serving => g_srv
        /\ pc = "waypoint" =>
              /\ step \in 1..3 /\ ~s_waypoint_v3_inited
              /\ step > 1 => "Waypoint" \in held
              /\ step > 2 => "MissionCb" \in held

\* What each point of the shutdown sequence still finds in place.
DuringTeardown ==
    pc = "teardown" =>
        /\ step \in 1..7
        /\ step = 1 => {"Server", "FcSubscription"} \subseteq held
        /\ step > 1 => "Server" \notin held
        /\ step > 2 => ~s_waypoint_v3_inited
        /\ step > 3 => "Gimbal" \notin held
        /\ step > 4 => "Camera" \notin held
        /\ step > 5 => {"FcSubscription", "Topics"} \cap held = {} /\ subscribed = {}
        /\ IF step > 6 THEN CoreGroup \cap held = {}
                       ELSE {"Core", "Application"} \subseteq held
        /\ status \in {0, 3, 4}

AfterExit ==
    pc = "exited" =>
        /\ held \cap {"Application", "FcSubscription", "Topics", "Camera",
                      "Gimbal", "Server"} = {}
        /\ subscribed = {} /\ ~s_waypoint_v3_inited
        /\ deinitFailed => "Core" \notin held
        /\ status \in {0, 3, 4} => CoreGroup \cap held = {}

\* Handlers are in place from psdk_init on.
HandlersInstalled ==
    /\ pc \notin {"args", "sigaction", "exited"} => installed = Signals
    /\ pc = "sigaction" /\ step = 2 => "SIGINT" \in installed

SubscriptionOwned == subscribed # {} => "FcSubscription" \in held

\* Without the flag the last callback is not registered, unless the shutdown
\* has failed to release the module.
FlagAndCallbacks ==
    /\ s_waypoint_v3_inited => WaypointReady /\ ~deinitFailed
    /\ ~s_waypoint_v3_inited => "ActionCb" \notin held \/ deinitFailed
    /\ deinitFailed => pc \in {"teardown", "exited"}

\* The count of late requests can only move in the poll that was under way.
LateCount ==
    /\ lateRequests <= 1
    /\ g_running \/ pc = "poll" => lateRequests = 0

IInv == /\ TypeOK
        /\ BeforeInit /\ DuringPsdkInit /\ DuringCtrlInit /\ AfterCtrlInit
        /\ DuringTeardown /\ AfterExit
        /\ HandlersInstalled /\ SubscriptionOwned /\ FlagAndCallbacks
        /\ FailureLogged /\ LateCount

-----------------------------------------------------------------------------
(* Facts about the tables of calls.                                        *)

\* The start-up calls of psdk_init: eleven, all among the platform and core
\* ones, the core and the application mandatory, the application last.
LEMMA PsdkTable ==
    /\ DOMAIN PsdkInitCalls = 1..11 /\ Len(PsdkInitCalls) = 11
    /\ \A k \in 1..11 : PsdkInitCalls[k] \in Platform \cup CoreGroup
    /\ \A k \in 1..10 : PsdkInitCalls[k] # "Application"
    /\ PsdkInitCalls[7] = "Core" /\ PsdkInitCalls[11] = "Application"
BY DEF PsdkInitCalls, Platform, CoreGroup

\* The other three tables.
LEMMA OtherTables ==
    /\ DOMAIN CtrlInitCalls = 1..4 /\ Len(CtrlInitCalls) = 4
    /\ CtrlInitCalls[1] = "FcSubscription" /\ CtrlInitCalls[2] = "Topics"
    /\ CtrlInitCalls[3] = "Camera" /\ CtrlInitCalls[4] = "Gimbal"
    /\ Len(WaypointCalls) = 3
    /\ WaypointCalls[1] = "Waypoint" /\ WaypointCalls[2] = "MissionCb"
    /\ WaypointCalls[3] = "ActionCb"
    /\ Len(Teardown) = 6
    /\ Teardown[1] = "Server" /\ Teardown[2] = "Waypoint"
    /\ Teardown[3] = "Gimbal" /\ Teardown[4] = "Camera"
    /\ Teardown[5] = "FcSubscription" /\ Teardown[6] = "Core"
    /\ Len(SignalOrder) = 2
    /\ SignalOrder[1] = "SIGINT" /\ SignalOrder[2] = "SIGTERM"
BY DEF CtrlInitCalls, WaypointCalls, Teardown, SignalOrder

\* What each release of the shutdown sequence undoes.
LEMMA UndoneSets ==
    /\ Undone("Server") = {"Server"} /\ Undone("Gimbal") = {"Gimbal"}
    /\ Undone("Camera") = {"Camera"} /\ Undone("Core") = CoreGroup
    /\ Undone("FcSubscription") = {"FcSubscription", "Topics"}
    /\ Undone("Waypoint") = {"Waypoint", "MissionCb", "ActionCb"}
BY DEF Undone, CoreGroup

\* When all of psdk_init's calls stand, the session is up.
LEMMA SessionUp ==
    ASSUME Standing(PsdkInitCalls)
    PROVE  {"Core", "Application"} \subseteq held
BY PsdkTable DEF Standing, Optional

-----------------------------------------------------------------------------
(* The invariant is inductive.                                             *)

\* psdkd starts in a state of the invariant.
LEMMA InitIInv == Init => IInv
<1> SUFFICES ASSUME Init PROVE IInv
    OBVIOUS
<1>1. TypeOK
    <2>1. /\ g_running \in BOOLEAN /\ g_srv \in BOOLEAN
          /\ s_waypoint_v3_inited \in BOOLEAN /\ deinitFailed \in BOOLEAN
        BY DEF Init
    <2>2. rxq \in Seq(Datagrams) /\ status \in Statuses /\ step \in Nat \ {0}
        BY DEF Init, Statuses, Undecided, BySignal
    <2> QED
        BY <2>1, <2>2 DEF Init, TypeOK, Places
<1>2. BeforeInit /\ HandlersInstalled /\ SubscriptionOwned
    BY DEF Init, BeforeInit, HandlersInstalled, SubscriptionOwned
<1>3. DuringPsdkInit /\ DuringCtrlInit /\ AfterCtrlInit /\ DuringTeardown /\ AfterExit
    BY DEF Init, DuringPsdkInit, DuringCtrlInit, AfterCtrlInit, DuringTeardown,
           AfterExit, Serving
<1>4. FlagAndCallbacks /\ FailureLogged /\ LateCount
    BY DEF Init, FlagAndCallbacks, FailureLogged, LateCount
<1> QED
    BY <1>1, <1>2, <1>3, <1>4 DEF IInv

\* Every step of the main thread, every signal and every arriving datagram
\* keeps the invariant.
LEMMA NextIInv == IInv /\ [Next]_vars => IInv'
<1> SUFFICES ASSUME IInv, [Next]_vars PROVE IInv'
    OBVIOUS
<1> USE DEF IInv, Serving, Return, Goto, sdk, io, WaypointReady
<1>1. CASE ParseOption
    <2>1. TypeOK'
        BY <1>1, CommandLinesAssumption
           DEF ParseOption, TypeOK, Places, Statuses, Undecided, BySignal
    <2>2. held = {} /\ subscribed = {} /\ pc' \in {"args", "exited"}
        BY <1>1 DEF ParseOption, BeforeInit
    <2> QED
        BY <1>1, <2>1, <2>2
           DEF ParseOption, TypeOK, BeforeInit, DuringPsdkInit, DuringCtrlInit,
               AfterCtrlInit, DuringTeardown, AfterExit, HandlersInstalled,
               SubscriptionOwned, FlagAndCallbacks, FailureLogged, LateCount, Standing
<1>2. CASE OptionsDone
    BY <1>2
       DEF OptionsDone, TypeOK, Standing, BeforeInit, DuringPsdkInit, DuringCtrlInit,
           AfterCtrlInit, DuringTeardown, AfterExit, HandlersInstalled,
           SubscriptionOwned, FlagAndCallbacks, FailureLogged, LateCount, Places
<1>3. CASE InstallHandler
    <2>1. held = {} /\ subscribed = {} /\ step \in 1..2
        BY <1>3 DEF InstallHandler, BeforeInit
    <2>2. CASE step = 1
        BY <1>3, <2>1, <2>2, OtherTables
           DEF InstallHandler, TypeOK, Standing, BeforeInit, DuringPsdkInit,
               DuringCtrlInit, AfterCtrlInit, DuringTeardown, AfterExit,
               HandlersInstalled, SubscriptionOwned, FlagAndCallbacks, FailureLogged, LateCount,
               Places, Signals
    <2>3. CASE step = 2
        <3>1. installed' = Signals
            BY <1>3, <2>3, OtherTables
               DEF InstallHandler, HandlersInstalled, TypeOK, Signals
        <3>2. pc' = "psdk_init" /\ step' = 1
            BY <1>3, <2>3, OtherTables DEF InstallHandler
        <3> QED
            BY <1>3, <2>1, <3>1, <3>2
               DEF InstallHandler, TypeOK, Standing, BeforeInit, DuringPsdkInit,
                   DuringCtrlInit, AfterCtrlInit, DuringTeardown, AfterExit,
                   HandlersInstalled, SubscriptionOwned, FlagAndCallbacks, FailureLogged, LateCount,
                   Places
    <2> QED
        BY <2>1, <2>2, <2>3
<1>4. CASE PsdkInitCall
    <2> DEFINE call == PsdkInitCalls[step]
    <2>1. /\ step \in 1..11 /\ call \in Platform \cup CoreGroup
          /\ step < 11 => call # "Application"
        BY <1>4, PsdkTable DEF PsdkInitCall, DuringPsdkInit
    <2>2. call \in Calls /\ call \notin Late
        BY <2>1 DEF Platform, CoreGroup, Calls, Late
    <2>3. \/ held' = held \cup {call} /\ Advance(PsdkInitCalls, "ctrl_init") /\ log' = log
          \/ /\ call \in Optional /\ held' = held
             /\ Advance(PsdkInitCalls, "ctrl_init") /\ log' = log
          \/ /\ call \notin Optional /\ held' = held /\ pc' = "psdk_failed" /\ step' = 1
             /\ log' \in {log, log \cup {CoreFailed}}
        BY <1>4 DEF PsdkInitCall
    <2>4. held' \cap Late = {} /\ held \subseteq held' /\ held' \subseteq Calls
        BY <1>4, <2>2, <2>3 DEF PsdkInitCall, DuringPsdkInit, TypeOK
    <2>5. CASE pc' = "psdk_init"
        <3>1. step' = step + 1 /\ step' \in 1..11 /\ call \in held' \cup Optional
              /\ log' = log /\ "Application" \notin held'
            BY <1>4, <2>1, <2>3, <2>5, PsdkTable DEF Advance, DuringPsdkInit, PsdkInitCall
        <3>2. \A k \in 1..(step' - 1) : PsdkInitCalls[k] \in held' \cup Optional
            BY <1>4, <2>1, <2>4, <3>1 DEF PsdkInitCall, DuringPsdkInit
        <3> QED
            BY <1>4, <2>4, <2>5, <3>1, <3>2
               DEF PsdkInitCall, Late, TypeOK, Standing, BeforeInit, DuringPsdkInit,
                   DuringCtrlInit, AfterCtrlInit, DuringTeardown, AfterExit,
                   HandlersInstalled, SubscriptionOwned, FlagAndCallbacks, FailureLogged, LateCount
    <2>6. CASE pc' = "ctrl_init"
        <3>1. step = 11 /\ step' = 1 /\ call \in held' \cup Optional /\ log' = log
            BY <1>4, <2>1, <2>3, <2>6, PsdkTable DEF Advance, DuringPsdkInit, PsdkInitCall
        <3>2. \A k \in 1..11 : PsdkInitCalls[k] \in held' \cup Optional
            BY <1>4, <2>1, <2>4, <3>1 DEF PsdkInitCall, DuringPsdkInit
        <3> QED
            BY <1>4, <2>4, <2>6, <3>1, <3>2, PsdkTable
               DEF PsdkInitCall, Late, Places, TypeOK, Standing, BeforeInit,
                   DuringPsdkInit, DuringCtrlInit, AfterCtrlInit, DuringTeardown,
                   AfterExit, HandlersInstalled, SubscriptionOwned, FlagAndCallbacks,
                   FailureLogged, LateCount
    <2>7. CASE pc' = "psdk_failed"
        <3>1. held' = held /\ step' = 1 /\ log' \in {log, log \cup {CoreFailed}}
            BY <1>4, <2>3, <2>7, PsdkTable DEF Advance, PsdkInitCall
        <3> QED
            BY <1>4, <2>4, <2>7, <3>1
               DEF PsdkInitCall, Late, Places, TypeOK, Standing, BeforeInit,
                   DuringPsdkInit, DuringCtrlInit, AfterCtrlInit, DuringTeardown,
                   AfterExit, HandlersInstalled, SubscriptionOwned, FlagAndCallbacks,
                   FailureLogged, LateCount
    <2> QED
        BY <1>4, <2>3, <2>5, <2>6, <2>7 DEF Advance, PsdkInitCall
<1>5. CASE CtrlInitCall
    <2>1. step \in 1..4 /\ Standing(PsdkInitCalls) /\ {"Core", "Application"} \subseteq held
        BY <1>5, SessionUp DEF CtrlInitCall, DuringCtrlInit
    <2>2. held \subseteq held' /\ held' \subseteq Calls /\ Standing(PsdkInitCalls)'
        BY <1>5, <2>1, OtherTables DEF CtrlInitCall, TypeOK, Standing, Calls
    <2>3. CASE step = 1
        <3>1. \/ held' = held \cup {"FcSubscription"} /\ pc' = pc /\ step' = 2 /\ status' = status
              \/ held' = held /\ pc' = "teardown" /\ step' = 6 /\ status' = 3
            BY <1>5, <2>3, OtherTables
               DEF CtrlInitCall, Advance, BackOut, FromCore, Optional
        <3>2. subscribed' = subscribed
            BY <1>5, <2>3, OtherTables DEF CtrlInitCall
        <3> QED
            BY <1>5, <2>1, <2>2, <2>3, <3>1, <3>2
               DEF CtrlInitCall, Late, Places, Statuses, Undecided, BySignal, TypeOK,
                   Standing, BeforeInit, DuringPsdkInit, DuringCtrlInit,
                   AfterCtrlInit, DuringTeardown, AfterExit, HandlersInstalled,
                   SubscriptionOwned, FlagAndCallbacks, FailureLogged, LateCount
    <2>4. CASE step \in 2..4
        <3>1. /\ held' \in {held, held \cup {"Camera"}, held \cup {"Gimbal"}}
              /\ status' = status
              /\ subscribed' \subseteq Topics
              /\ step < 4 => pc' = pc /\ step' = step + 1
              /\ step = 4 => pc' = "udp_create" /\ step' = 1
            BY <1>5, <2>4, OtherTables DEF CtrlInitCall, Advance, Optional, TypeOK
        <3> QED
            BY <1>5, <2>1, <2>2, <2>4, <3>1
               DEF CtrlInitCall, Places, TypeOK, Standing, BeforeInit,
                   DuringPsdkInit, DuringCtrlInit, AfterCtrlInit, DuringTeardown,
                   AfterExit, HandlersInstalled, SubscriptionOwned, FlagAndCallbacks,
                   FailureLogged, LateCount
    <2> QED
        BY <2>1, <2>3, <2>4
<1>6. CASE CreateServer
    BY <1>6, SessionUp
       DEF CreateServer, BackOut, FromCtrl, TypeOK, Standing, BeforeInit,
           DuringPsdkInit, DuringCtrlInit, AfterCtrlInit, DuringTeardown, AfterExit,
           HandlersInstalled, SubscriptionOwned, FlagAndCallbacks, FailureLogged, LateCount, Places,
           Statuses, Undecided, BySignal, Calls
<1>7. CASE SetServer
    <2>1. CoreFailed \notin log' /\ log' \subseteq {CoreFailed, Listening}
        BY <1>7 DEF SetServer, FailureLogged, CoreFailed, Listening, TypeOK
    <2>2. TypeOK'
        BY <1>7, <2>1 DEF SetServer, TypeOK, Places
    <2> QED
        BY <1>7, <2>1, <2>2
           DEF SetServer, Standing, BeforeInit, DuringPsdkInit, DuringCtrlInit,
               AfterCtrlInit, DuringTeardown, AfterExit, HandlersInstalled,
               SubscriptionOwned, FlagAndCallbacks, FailureLogged, LateCount
<1>8. CASE TestRunning
    BY <1>8, SessionUp
       DEF TestRunning, BackOut, FromServer, TypeOK, Standing, BeforeInit,
           DuringPsdkInit, DuringCtrlInit, AfterCtrlInit, DuringTeardown, AfterExit,
           HandlersInstalled, SubscriptionOwned, FlagAndCallbacks, FailureLogged, LateCount, Places,
           Statuses, Undecided, BySignal
<1>9. CASE PollIdle
    BY <1>9
       DEF PollIdle, TypeOK, Standing, BeforeInit, DuringPsdkInit, DuringCtrlInit,
           AfterCtrlInit, DuringTeardown, AfterExit, HandlersInstalled,
           SubscriptionOwned, FlagAndCallbacks, FailureLogged, LateCount, Places
<1>10. CASE Receive
    BY <1>10
       DEF Receive, TypeOK, Standing, BeforeInit, DuringPsdkInit, DuringCtrlInit,
           AfterCtrlInit, DuringTeardown, AfterExit, HandlersInstalled,
           SubscriptionOwned, FlagAndCallbacks, FailureLogged, LateCount, Places, Datagrams
<1>11. CASE Handle
    BY <1>11
       DEF Handle, TypeOK, Standing, BeforeInit, DuringPsdkInit, DuringCtrlInit,
           AfterCtrlInit, DuringTeardown, AfterExit, HandlersInstalled,
           SubscriptionOwned, FlagAndCallbacks, FailureLogged, LateCount, Places
<1>12. CASE WaypointCall
    <2>1. step \in 1..3 /\ "Core" \in held /\ ~s_waypoint_v3_inited
        BY <1>12, SessionUp DEF WaypointCall, AfterCtrlInit
    <2>2. \/ /\ held' = held \cup {WaypointCalls[step]}
             /\ s_waypoint_v3_inited' = (step = 3)
             /\ IF step < 3 THEN step' = step + 1 /\ pc' = pc
                            ELSE pc' = "handle" /\ step' = 1
          \/ /\ held' = held /\ s_waypoint_v3_inited' = s_waypoint_v3_inited
             /\ pc' = "handle" /\ step' = 1
        BY <1>12, OtherTables DEF WaypointCall, Advance
    <2>3. Standing(PsdkInitCalls)'
        BY <1>12, <2>2 DEF WaypointCall, AfterCtrlInit, Standing
    <2>4. CASE step = 1
        BY <1>12, <2>1, <2>2, <2>3, <2>4, OtherTables
           DEF WaypointCall, Places, Calls, TypeOK, Standing, BeforeInit,
               DuringPsdkInit, DuringCtrlInit, AfterCtrlInit, DuringTeardown,
               AfterExit, HandlersInstalled, SubscriptionOwned, FlagAndCallbacks,
               FailureLogged, LateCount
    <2>5. CASE step = 2
        BY <1>12, <2>1, <2>2, <2>3, <2>5, OtherTables
           DEF WaypointCall, Places, Calls, TypeOK, Standing, BeforeInit,
               DuringPsdkInit, DuringCtrlInit, AfterCtrlInit, DuringTeardown,
               AfterExit, HandlersInstalled, SubscriptionOwned, FlagAndCallbacks,
               FailureLogged, LateCount
    <2>6. CASE step = 3
        <3>1. held' \in {held, held \cup {"ActionCb"}} /\ pc' = "handle" /\ step' = 1
            BY <2>1, <2>2, <2>6, OtherTables
        <3>2. s_waypoint_v3_inited' \in BOOLEAN
            BY <2>2 DEF TypeOK
        <3>3. s_waypoint_v3_inited' <=> "ActionCb" \in held'
            <4>1. CASE held' = held \cup {"ActionCb"} /\ s_waypoint_v3_inited' = (step = 3)
                BY <2>6, <4>1
            <4>2. CASE held' = held /\ s_waypoint_v3_inited' = s_waypoint_v3_inited
                BY <1>12, <2>1, <4>2 DEF FlagAndCallbacks, WaypointCall
            <4> QED
                BY <2>2, <2>6, <4>1, <4>2, OtherTables
        <3>4. {"Waypoint", "MissionCb", "Core"} \subseteq held'
            BY <1>12, <2>1, <2>6, <3>1 DEF WaypointCall, AfterCtrlInit
        <3>5. TypeOK'
            BY <1>12, <3>1, <3>2 DEF WaypointCall, Places, Calls, TypeOK
        <3>6. FlagAndCallbacks'
            BY <1>12, <3>3, <3>4 DEF FlagAndCallbacks, WaypointCall
        <3> QED
            BY <1>12, <2>3, <3>1, <3>5, <3>6
               DEF WaypointCall, AfterCtrlInit, BeforeInit, DuringPsdkInit,
                   DuringCtrlInit, DuringTeardown, AfterExit,
                   HandlersInstalled, SubscriptionOwned, FailureLogged, LateCount
    <2> QED
        BY <2>1, <2>4, <2>5, <2>6
<1>13. CASE Release
    <2>1. step \in 1..6 /\ {"Core", "Application"} \subseteq held
        BY <1>13, OtherTables DEF Release, DuringTeardown
    <2>2. TypeOK'
        <3>1. s_waypoint_v3_inited' \in BOOLEAN /\ deinitFailed' \in BOOLEAN
            BY <1>13, Zenon DEF Release, TypeOK
        <3>2. subscribed' \subseteq Topics /\ held' \subseteq Calls /\ step' \in Nat \ {0}
            BY <1>13, <2>1 DEF Release, TypeOK
        <3> QED
            BY <1>13, <3>1, <3>2 DEF Release, TypeOK
    <2>3. DuringTeardown' /\ SubscriptionOwned' /\ FlagAndCallbacks'
        <3>1. CASE step = 2
            <4>1. /\ s_waypoint_v3_inited' = FALSE /\ step' = 3
                  /\ subscribed' = subscribed /\ pc' = pc /\ status' = status
                BY <1>13, <3>1, OtherTables DEF Release
            <4>2. \/ held' = held \ Undone("Waypoint") /\ deinitFailed' = deinitFailed
                  \/ held' = held /\ deinitFailed' = TRUE
                  \/ /\ ~s_waypoint_v3_inited
                     /\ held' = held /\ deinitFailed' = deinitFailed
                BY <1>13, <3>1, OtherTables DEF Release
            <4>3. ~s_waypoint_v3_inited' => "ActionCb" \notin held' \/ deinitFailed'
                BY <4>2, UndoneSets DEF FlagAndCallbacks
            <4>4. {"Core", "Application"} \subseteq held' /\ held' \subseteq held
                  /\ ("FcSubscription" \in held' <=> "FcSubscription" \in held)
                BY <2>1, <4>2, UndoneSets
            <4>5. FlagAndCallbacks'
                BY <1>13, <4>1, <4>3 DEF FlagAndCallbacks, Release
            <4> QED
                BY <1>13, <3>1, <4>1, <4>4, <4>5
                   DEF Release, DuringTeardown, SubscriptionOwned
        <3>2. ASSUME step # 2
              PROVE  /\ held' = held \ Undone(Teardown[step])
                     /\ deinitFailed' = deinitFailed
                     /\ s_waypoint_v3_inited' = s_waypoint_v3_inited
                     /\ pc' = pc /\ step' = step + 1 /\ status' = status
                     /\ subscribed' = IF step = 5 THEN {} ELSE subscribed
            <4>1. /\ Teardown[step] # "Waypoint"
                  /\ Teardown[step] = "FcSubscription" <=> step = 5
                BY <2>1, <3>2, OtherTables
            <4>2. /\ held' = held \ Undone(Teardown[step])
                  /\ deinitFailed' = deinitFailed
                BY <1>13, <4>1 DEF Release
            <4>3. s_waypoint_v3_inited' = s_waypoint_v3_inited
                BY <1>13, <4>1 DEF Release
            <4>4. /\ pc' = pc /\ step' = step + 1 /\ status' = status
                  /\ subscribed' = IF step = 5 THEN {} ELSE subscribed
                BY <1>13, <4>1 DEF Release
            <4> QED
                BY <4>2, <4>3, <4>4
        <3> USE <1>13, <2>1, OtherTables, UndoneSets, <3>2
            DEF DuringTeardown, SubscriptionOwned, FlagAndCallbacks
        <3>3. CASE step = 1
            BY <3>3 DEF Release
        <3>4. CASE step = 3
            BY <3>4 DEF Release
        <3>5. CASE step = 4
            BY <3>5 DEF Release
        <3>6. CASE step = 5
            BY <3>6 DEF Release
        <3>7. CASE step = 6
            BY <3>7 DEF Release, CoreGroup
        <3> QED
            BY <3>1, <3>3, <3>4, <3>5, <3>6, <3>7
    <2> QED
        BY <1>13, <2>2, <2>3
           DEF Release, BeforeInit, DuringPsdkInit, DuringCtrlInit, AfterCtrlInit,
               AfterExit, HandlersInstalled, FailureLogged, LateCount
<1>14. CASE MainReturns
    BY <1>14, OtherTables
       DEF MainReturns, CoreGroup, TypeOK, Standing, BeforeInit, DuringPsdkInit,
           DuringCtrlInit, AfterCtrlInit, DuringTeardown, AfterExit,
           HandlersInstalled, SubscriptionOwned, FlagAndCallbacks, FailureLogged, LateCount, Places
<1>15. ASSUME NEW sig \in Signals, Signal(sig) PROVE IInv'
    <2>1. CASE sig \in installed
        <3>1. TypeOK'
            BY <1>15, <2>1 DEF Signal, TypeOK
        <3> QED
            BY <1>15, <2>1, <3>1
               DEF Signal, Standing, BeforeInit, DuringPsdkInit, DuringCtrlInit,
                   AfterCtrlInit, DuringTeardown, AfterExit, HandlersInstalled,
                   SubscriptionOwned, FlagAndCallbacks, FailureLogged, LateCount
    <2>2. CASE sig \notin installed
        <3>1. pc \in {"args", "sigaction"} /\ pc' = "exited" /\ step' = 1 /\ status' = BySignal
            BY <1>15, <2>2 DEF Signal, HandlersInstalled
        <3> QED
            BY <1>15, <2>2, <3>1
               DEF Signal, TypeOK, Standing, BeforeInit, DuringPsdkInit,
                   DuringCtrlInit, AfterCtrlInit, DuringTeardown, AfterExit,
                   HandlersInstalled, SubscriptionOwned, FlagAndCallbacks, FailureLogged, LateCount,
                   Places, Statuses, Undecided, BySignal
    <2> QED
        BY <2>1, <2>2
<1>16. ASSUME NEW d \in Datagrams, Arrive(d) PROVE IInv'
    BY <1>16
       DEF Arrive, TypeOK, Standing, BeforeInit, DuringPsdkInit, DuringCtrlInit,
           AfterCtrlInit, DuringTeardown, AfterExit, HandlersInstalled,
           SubscriptionOwned, FlagAndCallbacks, FailureLogged, LateCount
<1>17. CASE UNCHANGED vars
    BY <1>17
       DEF vars, TypeOK, Standing, BeforeInit, DuringPsdkInit, DuringCtrlInit,
           AfterCtrlInit, DuringTeardown, AfterExit, HandlersInstalled,
           SubscriptionOwned, FlagAndCallbacks, FailureLogged, LateCount
<1>18. CASE PsdkInitFailed
    BY <1>18
       DEF PsdkInitFailed, Late, Places, Statuses, Undecided, BySignal, TypeOK,
           Standing, BeforeInit, DuringPsdkInit, DuringCtrlInit, AfterCtrlInit,
           DuringTeardown, AfterExit, HandlersInstalled, SubscriptionOwned,
           FlagAndCallbacks, FailureLogged, LateCount
<1> QED
    BY <1>1, <1>2, <1>3, <1>4, <1>5, <1>6, <1>7, <1>8, <1>9, <1>10, <1>11,
       <1>12, <1>13, <1>14, <1>15, <1>16, <1>17, <1>18
    DEF Next, MainStep, Signals

-----------------------------------------------------------------------------
(* The theorems.                                                           *)

\* The parts of the invariant hold in every reachable state.
THEOREM Invariance == Spec => []IInv
BY InitIInv, NextIInv, PTL DEF Spec

\* Type correctness of the process state.
THEOREM TypeCorrect == Spec => []TypeOK
<1>1. IInv => TypeOK
    BY DEF IInv
<1> QED
    BY <1>1, Invariance, PTL

\* The event loop and every handler run with all mandatory SDK stages up, the
\* socket open and the reply path set.
THEOREM ServesInsideSession == Spec => []SessionWhileServing
<1>1. IInv => SessionWhileServing
    <2> SUFFICES ASSUME IInv, pc \in Serving
                 PROVE  /\ Standing(PsdkInitCalls) /\ Standing(CtrlInitCalls)
                        /\ "Server" \in held /\ g_srv
        BY DEF SessionWhileServing, Serving
    <2>1. Standing(PsdkInitCalls) /\ "FcSubscription" \in held /\ "Server" \in held /\ g_srv
        BY DEF IInv, AfterCtrlInit, Serving
    <2>2. Standing(CtrlInitCalls)
        BY <2>1, OtherTables DEF Standing, Optional
    <2> QED
        BY <2>1, <2>2
<1> QED
    BY <1>1, Invariance, PTL

\* Shutdown releases what runs on top of the core before the core, on every
\* path of main(); no subscription outlives the module that delivers it.
THEOREM ShutdownOrder == Spec => []DependentsFirst
<1>1. IInv => DependentsFirst
    <2> SUFFICES ASSUME IInv PROVE DependentsFirst
        OBVIOUS
    <2>1. CASE pc \in {"args", "sigaction"}
        BY <2>1 DEF IInv, BeforeInit, DependentsFirst
    <2>2. CASE pc \in {"psdk_init", "psdk_failed"}
        BY <2>2 DEF IInv, DuringPsdkInit, DependentsFirst, Late
    <2>3. CASE pc = "ctrl_init"
        BY <2>3, SessionUp DEF IInv, DuringCtrlInit, SubscriptionOwned, DependentsFirst
    <2>4. CASE pc \in {"udp_create", "set_server"} \cup Serving
        BY <2>4, SessionUp DEF IInv, AfterCtrlInit, SubscriptionOwned, DependentsFirst
    <2>5. CASE pc = "teardown"
        <3>1. CASE step > 6
            BY <2>5, <3>1 DEF IInv, DuringTeardown, CoreGroup, DependentsFirst
        <3>2. CASE step <= 6
            BY <2>5, <3>2 DEF IInv, DuringTeardown, SubscriptionOwned, DependentsFirst
        <3> QED
            BY <2>5, <3>1, <3>2 DEF IInv, DuringTeardown
    <2>6. CASE pc = "exited"
        BY <2>6 DEF IInv, AfterExit, DependentsFirst
    <2> QED
        BY <2>1, <2>2, <2>3, <2>4, <2>5, <2>6 DEF IInv, TypeOK, Places, Serving
<1> QED
    BY <1>1, Invariance, PTL

\* s_waypoint_v3_inited tells the truth about the waypoint module for as long
\* as requests are served, and in the shutdown until a release that failed.
THEOREM FlagIsHonest == Spec => []WaypointFlagHonest
<1>1. IInv => WaypointFlagHonest
    BY DEF IInv, FlagAndCallbacks, AfterExit, WaypointFlagHonest, WaypointReady
<1> QED
    BY <1>1, Invariance, PTL

\* Exits with status 0, 3 and 4 leave at most a half-registered waypoint
\* module behind, or the one DjiWaypointV3_DeInit failed to release.
THEOREM ExitIsOrderly == Spec => []OrderlyExit
<1>1. IInv => OrderlyExit
    BY DEF IInv, AfterExit, FlagAndCallbacks, OrderlyExit, TypeOK, Calls, CoreGroup
<1> QED
    BY <1>1, Invariance, PTL

\* After a stop request at most one more request is taken.
THEOREM StopIsPrompt == Spec => []StopLatency
<1>1. IInv => StopLatency
    BY DEF IInv, LateCount, StopLatency
<1> QED
    BY <1>1, Invariance, PTL

-----------------------------------------------------------------------------
(* Psdkd implements Daemon.                                                *)

\* A freshly started process is a daemon that is starting.
LEMMA InitRefines == Init => D!Init
BY DEF Init, D!Init, Phase, Undecided, D!Undecided

\* Every step of psdkd is a step of the daemon or leaves what the supervisor
\* sees unchanged.
LEMMA NextRefines == IInv /\ [Next]_vars => [D!Next]_(D!vars)
<1> SUFFICES ASSUME IInv, [Next]_vars PROVE [D!Next]_(D!vars)
    OBVIOUS
<1> USE DEF Phase, Goto, Return, sdk, io, Serving
<1>1. CASE ParseOption
    BY <1>1 DEF ParseOption, IInv, BeforeInit, D!Next, D!Progress, D!GiveUp, D!vars
<1>2. CASE OptionsDone \/ InstallHandler
    BY <1>2 DEF OptionsDone, InstallHandler, D!vars
<1>3. CASE PsdkInitCall
    BY <1>3, PsdkTable
       DEF PsdkInitCall, Advance, IInv, DuringPsdkInit, D!Next, D!Progress, D!Connect, D!vars
<1>4. CASE CtrlInitCall
    BY <1>4, OtherTables, SessionUp
       DEF CtrlInitCall, Advance, BackOut, IInv, DuringCtrlInit, D!Next, D!Progress,
           D!BackOut, D!vars
<1>5. CASE CreateServer
    BY <1>5, SessionUp
       DEF CreateServer, BackOut, IInv, AfterCtrlInit, D!Next, D!Progress,
           D!BackOut, D!vars
<1>6. CASE SetServer
    BY <1>6, SessionUp
       DEF SetServer, IInv, AfterCtrlInit, D!Next, D!Progress, D!Serve, D!vars
<1>7. CASE TestRunning
    BY <1>7 DEF TestRunning, BackOut, D!Next, D!Progress, D!Leave, D!vars
<1>8. CASE PollIdle \/ Receive \/ Handle
    BY <1>8 DEF PollIdle, Receive, Handle, IInv, TypeOK, Datagrams, D!vars
<1>9. CASE WaypointCall
    BY <1>9, OtherTables
       DEF WaypointCall, Advance, IInv, AfterCtrlInit, D!vars
<1>10. CASE Release
    BY <1>10, OtherTables, UndoneSets
       DEF Release, CoreGroup, IInv, DuringTeardown, D!Next, D!Progress,
           D!Disconnect, D!vars
<1>11. CASE MainReturns
    BY <1>11, OtherTables
       DEF MainReturns, CoreGroup, IInv, DuringTeardown, D!Next, D!Progress, D!Exit, D!vars
<1>12. ASSUME NEW sig \in Signals, Signal(sig) PROVE [D!Next]_(D!vars)
    BY <1>12
       DEF Signal, IInv, TypeOK, HandlersInstalled, BeforeInit, BySignal, D!BySignal,
           D!Next, D!Progress, D!GiveUp, D!RequestStop, D!vars
<1>13. ASSUME NEW d \in Datagrams, Arrive(d) PROVE [D!Next]_(D!vars)
    BY <1>13 DEF Arrive, D!vars
<1>14. CASE UNCHANGED vars
    BY <1>14 DEF vars, D!vars
<1>15. CASE PsdkInitFailed
    BY <1>15
       DEF PsdkInitFailed, IInv, DuringPsdkInit, D!Next, D!Progress, D!GiveUp, D!vars
<1> QED
    BY <1>1, <1>2, <1>3, <1>4, <1>5, <1>6, <1>7, <1>8, <1>9, <1>10, <1>11,
       <1>12, <1>13, <1>14, <1>15 DEF Next, MainStep, Signals

\* psdkd, seen from its supervisor, behaves as module Daemon says.
THEOREM Refinement == Spec => ImplementsDaemon
<1>1. Spec => D!Spec
    BY InitRefines, NextRefines, Invariance, PTL DEF Spec, D!Spec
<1> QED
    BY <1>1 DEF ImplementsDaemon

-----------------------------------------------------------------------------
(* Psdkd implements SupervisedDaemon.                                      *)

\* The process starts with an empty log.
LEMMA InitSupervised ==
    Init => SD!Init /\ CoreFailed \notin log
BY DEF Init, SD!Init, Phase, Undecided, SD!Undecided

\* Every step of a psdkd that the script has started is one of SupervisedDaemon.
LEMMA NextSupervised ==
    ASSUME IInv, argv = <<"--debug">>, [Next]_vars
    PROVE  [SD!Step \/ SD!Term \/ EndedBySecondSignal]_<<SD!vars, CoreFailed \in log, log>>
<1> DEFINE Goal == [SD!Step \/ SD!Term \/ EndedBySecondSignal
                     ]_<<SD!vars, CoreFailed \in log, log>>
<1> USE DEF Phase, Goto, Return, sdk, io, Serving
<1>1. CASE ParseOption
    <2>2. pc = "args" /\ step = 1 /\ argv[1] = "--debug"
        BY <1>1 DEF ParseOption, IInv, TypeOK
    <2>3. pc' = pc /\ status' = status
        BY <1>1, <2>2 DEF ParseOption, Options
    <2> QED
        BY <1>1, <2>2, <2>3 DEF ParseOption, SD!vars
<1>2. CASE OptionsDone \/ InstallHandler
    BY <1>2 DEF OptionsDone, InstallHandler, SD!vars
<1>3. CASE PsdkInitCall
    <2>1. /\ pc = "psdk_init" /\ step \in 1..11 /\ "Application" \notin held
          /\ CoreFailed \notin log
          /\ g_running' = g_running /\ status' = status
        BY <1>3 DEF PsdkInitCall, IInv, DuringPsdkInit, FailureLogged
    <2>2. CASE /\ PsdkInitCalls[step] \notin Optional /\ pc' = "psdk_failed"
               /\ log' = IF PsdkInitCalls[step] = "Core" THEN log \cup {CoreFailed} ELSE log
               /\ held' = held
        <3>1. CASE PsdkInitCalls[step] = "Core"
            <4>1. Phase = "starting" /\ UNCHANGED SD!vars
                BY <2>1, <2>2 DEF SD!vars
            <4>2. SD!log_error(SD!CoreFailed)
                <5>1. ~(SD!LOG_ERROR < SD!g_level)
                    BY DEF SD!LOG_ERROR, SD!g_level, SD!LOG_DEBUG
                <5>2. log' = log \cup {CoreFailed}
                    BY <2>2, <3>1
                <5>3. SD!CoreFailed = CoreFailed
                    BY DEF SD!CoreFailed, CoreFailed
                <5> QED
                    BY <5>1, <5>2, <5>3 DEF SD!log_error, SD!log_write
            <4>3. (CoreFailed \in log)' = TRUE
                BY <2>2, <3>1
            <4> QED
                BY <2>1, <4>1, <4>2, <4>3, Zenon DEF SD!Step, SD!CoreInitFails
        <3>2. CASE PsdkInitCalls[step] # "Core"
            BY <2>1, <2>2, <3>2 DEF SD!vars
        <3> QED
            BY <3>1, <3>2
    <2>3. CASE /\ held' \in {held, held \cup {PsdkInitCalls[step]}} /\ log' = log
               /\ pc' \in {"psdk_init", "ctrl_init"}
        <3>1. CASE "Application" \in held'
            BY <2>1, <2>3, <3>1 DEF SD!Step, SD!StartUp, SD!Connect, SD!vars
        <3>2. CASE "Application" \notin held'
            BY <2>1, <2>3, <3>2 DEF SD!vars
        <3> QED
            BY <3>1, <3>2
    <2> QED
        BY <1>3, <2>1, <2>2, <2>3 DEF PsdkInitCall, Advance
<1>4. CASE PsdkInitFailed
    BY <1>4
       DEF PsdkInitFailed, IInv, DuringPsdkInit, SD!Step, SD!StartUp, SD!GiveUp, SD!vars
<1>5. CASE CtrlInitCall
    BY <1>5, OtherTables, SessionUp
       DEF CtrlInitCall, Advance, BackOut, IInv, DuringCtrlInit, SD!Step, SD!StartUp,
           SD!BackOut, SD!vars
<1>6. CASE CreateServer
    BY <1>6, SessionUp
       DEF CreateServer, BackOut, IInv, AfterCtrlInit, SD!Step, SD!StartUp,
           SD!BackOut, SD!vars
<1>7. CASE SetServer
    <2>1. /\ "Application" \in held /\ log' = log \cup {SD!Listening} /\ g_running' = g_running
          /\ held' = held /\ status' = status /\ pc = "set_server" /\ pc' = "loop"
        BY <1>7, SessionUp DEF SetServer, IInv, AfterCtrlInit, Listening, SD!Listening
    <2>2. CoreFailed \notin log /\ CoreFailed \notin log'
        BY <1>7, <2>1 DEF SetServer, IInv, FailureLogged, CoreFailed, SD!Listening
    <2> QED
        BY <2>1, <2>2
           DEF SD!Step, SD!Ready, SD!Serve, SD!log_info, SD!log_write, SD!g_level,
               SD!LOG_INFO, SD!LOG_DEBUG, SD!vars
<1>8. CASE TestRunning
    BY <1>8 DEF TestRunning, BackOut, SD!Step, SD!ShutDown, SD!Leave, SD!vars
<1>9. CASE PollIdle \/ Receive \/ Handle
    BY <1>9 DEF PollIdle, Receive, Handle, IInv, TypeOK, Datagrams, SD!vars
<1>10. CASE WaypointCall
    BY <1>10, OtherTables DEF WaypointCall, Advance, IInv, AfterCtrlInit, SD!vars
<1>11. CASE Release
    BY <1>11, OtherTables, UndoneSets
       DEF Release, CoreGroup, IInv, DuringTeardown, SD!Step, SD!ShutDown,
           SD!Disconnect, SD!vars
<1>12. CASE MainReturns
    BY <1>12, OtherTables
       DEF MainReturns, CoreGroup, IInv, DuringTeardown, SD!Step, SD!ShutDown, SD!Exit, SD!vars
<1>13. ASSUME NEW sig \in Signals, Signal(sig) PROVE Goal
    <2>1. /\ pc # "exited" /\ log' = log /\ held' = held
          /\ g_running \in BOOLEAN
        BY <1>13 DEF Signal, IInv, TypeOK
    <2>2. CASE sig \in installed
        <3>1. g_running' = FALSE /\ pc' = pc /\ status' = status
            BY <1>13, <2>2 DEF Signal
        <3> QED
            BY <2>1, <3>1 DEF SD!Term, SD!RequestStop, SD!vars
    <2>3. CASE sig \notin installed
        <3>1. pc \in {"args", "sigaction"}
            BY <1>13, <2>1, <2>3 DEF IInv, HandlersInstalled, TypeOK, Places, Signals
        <3>2. /\ pc' = "exited" /\ status' = BySignal /\ g_running' = g_running
              /\ "Application" \notin held /\ CoreFailed \notin log
            BY <1>13, <2>3, <3>1 DEF Signal, IInv, BeforeInit, FailureLogged
        <3>3. CASE g_running
            BY <2>1, <3>1, <3>2, <3>3 DEF SD!Term, SD!GiveUp, SD!vars, BySignal, SD!BySignal
        <3>4. CASE ~g_running
            <4>1. pc = "sigaction"
                BY <3>1, <3>4 DEF IInv, BeforeInit
            <4> QED
                BY <3>2, <3>4, <4>1 DEF EndedBySecondSignal
        <3> QED
            BY <3>3, <3>4
    <2> QED
        BY <2>2, <2>3
<1>14. ASSUME NEW d \in Datagrams, Arrive(d) PROVE Goal
    BY <1>14 DEF Arrive, SD!vars
<1>15. CASE UNCHANGED vars
    BY <1>15 DEF vars, SD!vars
<1> QED
    BY <1>1, <1>2, <1>3, <1>4, <1>5, <1>6, <1>7, <1>8, <1>9, <1>10, <1>11,
       <1>12, <1>13, <1>14, <1>15 DEF Next, MainStep

\* The psdkd that tools/start_dual.sh starts is the process the script's own
\* module is composed with, for every set of topics and every queue.
THEOREM SupervisedRefinement == Spec => ImplementsSupervised
<1> DEFINE Sub == <<SD!vars, CoreFailed \in log, log>>
           A == argv = <<"--debug">> => SD!Step \/ SD!Term \/ EndedBySecondSignal
<1>1. IInv /\ [Next]_vars => [A]_Sub
    BY NextSupervised
<1>2. Spec => [][A]_Sub
    BY <1>1, Invariance, PTL DEF Spec
<1>3. Spec => SD!Init /\ CoreFailed \notin log
    BY InitSupervised DEF Spec
<1> QED
    BY <1>2, <1>3 DEF ImplementsSupervised

=============================================================================
