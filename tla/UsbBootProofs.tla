---------------------------- MODULE UsbBootProofs ----------------------------
(***************************************************************************)
(* Proofs about UsbBoot: whatever scripts are run, in whatever order, and  *)
(* however many processes of ffs_init are there at a time.                 *)
(***************************************************************************)
EXTENDS UsbBoot, TLAPS

-----------------------------------------------------------------------------
(* The inductive invariant.                                                *)

\* FunctionFS is as far as the one process whose descriptors it took has brought
\* it, somebody keeps it open, and a gadget is bound and used only while it is
\* active.
Ep0 == /\ \A p \in Pids : ip[p] = "write_strings" => ffs = "strings"
       /\ \A p \in Pids : ip[p] = "loop" => ffs = "active"
       /\ \A p, q \in Pids : /\ ip[p] = "write_strings" \/ ip[p] = "loop"
                             /\ ip[q] = "write_strings" \/ ip[q] = "loop"
                             => p = q
       /\ ffs # "descriptors" => Holders # {} \/ bulk
       /\ bound => ffs = "active"
       /\ enabled => bound
       /\ setup => enabled

\* Which steps a script has.
InScript == /\ pc = "unbind" => script \in {"setup", "start", "boot_usb"}
            /\ pc = "kill" => script \in {"start", "boot_usb", "boot_uart"}
            /\ pc = "rebuild" => script \in {"setup", "boot_usb"}
            /\ pc \in {"launch", "settle", "bind", "wait"} => script \in {"start", "boot_usb"}

\* Every ffs_init that runs has been sent SIGTERM, but for those in P.
AllSignalled(P) == \A p \in Pids : Running(p) => p \in signalled \/ p \in P

\* What was left of an earlier run has its signal once the script has killed it;
\* then start.sh has one more to kill, the one it has started itself.
Killed == /\ pc = "launch" => AllSignalled({}) /\ ~bound
          /\ script = "boot_usb" /\ pc \in {"unbind", "rebuild"} => AllSignalled({})
          /\ script = "boot_usb" /\ pc = "rebuild" => ~bound
          /\ script = "start" /\ pc = "kill" => ~bound
          /\ pc \in {"settle", "bind"} => AllSignalled({pid})
          /\ script = "start" /\ pc = "failed" => AllSignalled({})

IInv == TypeOK /\ Ep0 /\ InScript /\ Killed

-----------------------------------------------------------------------------
(* The steps.                                                              *)

\* The step that follows, script by script.
LEMMA AfterStep ==
    /\ script = "setup" => /\ After("check") = "unbind" /\ After("unbind") = "rebuild"
                           /\ After("rebuild") = "built"
    /\ script = "start" => /\ After("check") = "unbind" /\ After("unbind") = "kill"
                           /\ After("kill") = "launch"
    /\ script = "boot_usb" => /\ After("check") = "kill" /\ After("kill") = "unbind"
                              /\ After("unbind") = "rebuild" /\ After("rebuild") = "launch"
    /\ script = "boot_uart" => After("check") = "kill" /\ After("kill") = "run"
<1>1. CASE script = "setup"
    <2> DEFINE t == <<"check", "unbind", "rebuild", "built">>
    <2>1. Steps(script) = t
        BY <1>1 DEF Steps
    <2>2. /\ (CHOOSE i \in DOMAIN t : t[i] = "check") = 1
          /\ (CHOOSE i \in DOMAIN t : t[i] = "unbind") = 2
          /\ (CHOOSE i \in DOMAIN t : t[i] = "rebuild") = 3
        OBVIOUS
    <2> QED
        BY <1>1, <2>1, <2>2 DEF After
<1>2. CASE script = "start"
    <2> DEFINE t == <<"check", "unbind", "kill", "launch">>
    <2>1. Steps(script) = t
        BY <1>2 DEF Steps
    <2>2. /\ (CHOOSE i \in DOMAIN t : t[i] = "check") = 1
          /\ (CHOOSE i \in DOMAIN t : t[i] = "unbind") = 2
          /\ (CHOOSE i \in DOMAIN t : t[i] = "kill") = 3
        OBVIOUS
    <2> QED
        BY <1>2, <2>1, <2>2 DEF After
<1>3. CASE script = "boot_usb"
    <2> DEFINE t == <<"check", "kill", "unbind", "rebuild", "launch">>
    <2>1. Steps(script) = t
        BY <1>3 DEF Steps
    <2>2. /\ (CHOOSE i \in DOMAIN t : t[i] = "check") = 1
          /\ (CHOOSE i \in DOMAIN t : t[i] = "kill") = 2
          /\ (CHOOSE i \in DOMAIN t : t[i] = "unbind") = 3
          /\ (CHOOSE i \in DOMAIN t : t[i] = "rebuild") = 4
        OBVIOUS
    <2> QED
        BY <1>3, <2>1, <2>2 DEF After
<1>4. CASE script = "boot_uart"
    <2> DEFINE t == <<"check", "kill", "run">>
    <2>1. Steps(script) = t
        BY <1>4 DEF Steps
    <2>2. /\ (CHOOSE i \in DOMAIN t : t[i] = "check") = 1
          /\ (CHOOSE i \in DOMAIN t : t[i] = "kill") = 2
        OBVIOUS
    <2> QED
        BY <1>4, <2>1, <2>2 DEF After
<1> QED
    BY <1>1, <1>2, <1>3, <1>4

\* Nothing runs and nothing is bound before the first script.
LEMMA InitIInv == Init => IInv
<1> SUFFICES ASSUME Init PROVE IInv
    OBVIOUS
<1>1. TypeOK
    <2>1. bulk \in BOOLEAN /\ bound \in BOOLEAN /\ enabled \in BOOLEAN /\ setup \in BOOLEAN
        BY DEF Init, FfsInitInit
    <2> QED
        BY <2>1, PollsAssumption DEF Init, FfsInitInit, TypeOK
<1>2. Ep0 /\ InScript /\ Killed
    BY DEF Init, FfsInitInit, Ep0, InScript, Killed
<1> QED
    BY <1>1, <1>2 DEF IInv

\* The events of ep0, and the part of TypeOK about ffs_init and FunctionFS.
Events == {"BIND", "UNBIND", "ENABLE", "DISABLE", "SETUP"}
Labels == {"open", "write_descriptors", "write_strings", "loop", "detached", "exited"}
FfsTypeOK ==
    /\ ip \in [Pids -> Labels]
    /\ signalled \in SUBSET Pids
    /\ ffs \in {"descriptors", "strings", "active"}
    /\ bulk \in BOOLEAN /\ bound \in BOOLEAN /\ enabled \in BOOLEAN /\ setup \in BOOLEAN
    /\ events \in Seq(Events)

\* A step that starts no process, takes no signal back from one that goes on,
\* and does not bind the gadget.
Quiet == /\ \A p \in Pids : /\ Running(p)' => Running(p)
                            /\ Running(p)' /\ p \in signalled => p \in signalled'
         /\ bound' => bound

\* FunctionFS starts anew.
LEMMA ResetType ==
    ASSUME Reset
    PROVE  /\ ffs' = "descriptors" /\ bound' = FALSE /\ enabled' = FALSE /\ setup' = FALSE
           /\ bound' \in BOOLEAN /\ enabled' \in BOOLEAN /\ setup' \in BOOLEAN
           /\ events' \in Seq(Events)
<1>1. bound' \in BOOLEAN /\ enabled' \in BOOLEAN /\ setup' \in BOOLEAN
    BY DEF Reset
<1>2. events' \in Seq(Events)
    BY DEF Reset
<1>3. bound' = FALSE /\ enabled' = FALSE /\ setup' = FALSE /\ ffs' = "descriptors"
    BY DEF Reset
<1> QED
    BY <1>1, <1>2, <1>3

\* A process that ends leaves FunctionFS to the others, or as new.
LEMMA ExitEp0 ==
    ASSUME NEW p \in Pids, FfsTypeOK, Ep0, Exit(p)
    PROVE  FfsTypeOK' /\ Ep0' /\ Quiet
<1>1. /\ ip' \in [Pids -> Labels] /\ signalled' \in SUBSET Pids
      /\ ip'[p] = "exited" /\ \A q \in Pids \ {p} : ip'[q] = ip[q]
      /\ signalled' = signalled \ {p}
    BY DEF Exit, FfsTypeOK, Labels
<1>2. \A q \in Pids : /\ Running(q)' => Running(q)
                      /\ Running(q)' /\ q \in signalled => q \in signalled'
    BY <1>1 DEF Running
<1>3. CASE Holders = {p} /\ ~bulk
    <2>1. Reset /\ bulk' = bulk
        BY <1>3 DEF Exit
    <2>2. FfsTypeOK'
        BY <1>1, <2>1, ResetType DEF FfsTypeOK
    <2>3. \A q \in Pids : ip'[q] \notin {"write_strings", "loop"}
        BY <1>1, <1>3 DEF Holders
    <2>4. Ep0'
        BY <2>1, <2>3, ResetType DEF Ep0
    <2> QED
        BY <1>2, <2>1, <2>2, <2>4, ResetType DEF Quiet
<1>4. CASE ~(Holders = {p} /\ ~bulk)
    <2>1. UNCHANGED functionfs
        BY <1>4 DEF Exit
    <2>2. FfsTypeOK'
        BY <1>1, <2>1 DEF FfsTypeOK, functionfs
    <2>3. ffs # "descriptors" => Holders' # {} \/ bulk
        BY <1>1, <1>4 DEF Ep0, Holders
    <2>4. Ep0'
        BY <1>1, <2>1, <2>3 DEF Ep0, functionfs
    <2> QED
        BY <1>2, <2>1, <2>2, <2>4 DEF Quiet, functionfs
<1> QED
    BY <1>3, <1>4

\* A step of one ffs_init.
LEMMA FfsStepEp0 ==
    ASSUME NEW p \in Pids, FfsTypeOK, Ep0, FfsInitStep(p) \/ ReadFails(p) \/ Die(p)
    PROVE  FfsTypeOK' /\ Ep0' /\ Quiet
<1>1. CASE Exit(p)
    BY <1>1, ExitEp0
<1>2. ASSUME NEW l \in Labels \ {"exited"}, GoTo(p, l), Running(p)
      PROVE  /\ ip' \in [Pids -> Labels] /\ signalled' \in SUBSET Pids
             /\ ip'[p] = l /\ \A q \in Pids \ {p} : ip'[q] = ip[q]
             /\ \A q \in Pids : /\ Running(q)' => Running(q)
                                /\ Running(q)' /\ q \in signalled => q \in signalled'
    BY <1>2 DEF GoTo, FfsTypeOK, Running, Labels
<1>3. CASE Open(p) /\ ~Exit(p)
    <2>1. GoTo(p, "write_descriptors") /\ UNCHANGED functionfs /\ ip[p] = "open"
        BY <1>3 DEF Open
    <2>2. /\ ip' \in [Pids -> Labels] /\ signalled' \in SUBSET Pids
          /\ ip'[p] = "write_descriptors" /\ \A q \in Pids \ {p} : ip'[q] = ip[q]
          /\ \A q \in Pids : /\ Running(q)' => Running(q)
                             /\ Running(q)' /\ q \in signalled => q \in signalled'
        BY <1>2, <2>1 DEF Running, Labels
    <2>3. FfsTypeOK'
        BY <2>1, <2>2 DEF functionfs, FfsTypeOK
    <2>4. ffs # "descriptors" => Holders' # {} \/ bulk
        BY <2>2 DEF Holders
    <2>5. Ep0'
        BY <2>1, <2>2, <2>4 DEF functionfs, Ep0
    <2> QED
        BY <2>1, <2>2, <2>3, <2>5 DEF Quiet, functionfs
<1>4. CASE WriteDescriptors(p) /\ ~Exit(p)
    <2>1. /\ GoTo(p, "write_strings") /\ ip[p] = "write_descriptors"
          /\ ffs = "descriptors" /\ ffs' = "strings"
          /\ UNCHANGED <<bulk, bound, enabled, events, setup>>
        BY <1>4 DEF WriteDescriptors
    <2>2. /\ ip' \in [Pids -> Labels] /\ signalled' \in SUBSET Pids
          /\ ip'[p] = "write_strings" /\ \A q \in Pids \ {p} : ip'[q] = ip[q]
          /\ \A q \in Pids : /\ Running(q)' => Running(q)
                             /\ Running(q)' /\ q \in signalled => q \in signalled'
        BY <1>2, <2>1 DEF Running, Labels
    <2>3. FfsTypeOK'
        BY <2>1, <2>2 DEF FfsTypeOK
    <2>4. Holders' # {}
        BY <2>2 DEF Holders
    <2>5. \A q \in Pids \ {p} : ip'[q] \notin {"write_strings", "loop"}
        BY <2>1, <2>2 DEF Ep0
    <2>6. Ep0'
        BY <2>1, <2>2, <2>4, <2>5 DEF Ep0
    <2> QED
        BY <2>1, <2>2, <2>3, <2>6 DEF Quiet
<1>5. CASE WriteStrings(p) /\ ~Exit(p)
    <2>1. /\ GoTo(p, "loop") /\ ip[p] = "write_strings"
          /\ ffs = "strings" /\ ffs' = "active"
          /\ UNCHANGED <<bulk, bound, enabled, events, setup>>
        BY <1>5 DEF WriteStrings
    <2>2. /\ ip' \in [Pids -> Labels] /\ signalled' \in SUBSET Pids
          /\ ip'[p] = "loop" /\ \A q \in Pids \ {p} : ip'[q] = ip[q]
          /\ \A q \in Pids : /\ Running(q)' => Running(q)
                             /\ Running(q)' /\ q \in signalled => q \in signalled'
        BY <1>2, <2>1 DEF Running, Labels
    <2>3. FfsTypeOK'
        BY <2>1, <2>2 DEF FfsTypeOK
    <2>4. Holders' # {}
        BY <2>2 DEF Holders
    <2>5. \A q \in Pids \ {p} : ip'[q] \notin {"write_strings", "loop"}
        BY <2>1, <2>2 DEF Ep0
    <2>6. Ep0'
        BY <2>1, <2>2, <2>4, <2>5 DEF Ep0
    <2> QED
        BY <2>1, <2>2, <2>3, <2>6 DEF Quiet
<1>6. CASE ReadEvent(p) /\ ~Exit(p)
    <2>1. /\ events # <<>> /\ events' = Tail(events)
          /\ setup' = (setup /\ Head(events) # "SETUP")
          /\ UNCHANGED <<initialiser, bulk, ffs, bound, enabled>>
        BY <1>6 DEF ReadEvent
    <2>2. setup' \in BOOLEAN /\ (setup' => setup)
        BY <2>1
    <2>3. FfsTypeOK'
        BY <2>1, <2>2 DEF FfsTypeOK, initialiser
    <2>4. Ep0'
        BY <2>1, <2>2 DEF Ep0, Holders, initialiser
    <2> QED
        BY <2>1, <2>3, <2>4 DEF Quiet, Running, initialiser
<1> QED
    BY <1>1, <1>3, <1>4, <1>5, <1>6 DEF FfsInitStep, ReadFails, Die

\* A step of psdkd or of the host.
LEMMA OthersEp0 ==
    ASSUME FfsTypeOK, Ep0, OpenEndpoints \/ CloseEndpoints \/ Host
    PROVE  FfsTypeOK' /\ Ep0' /\ Quiet
<1>0. UNCHANGED initialiser
    BY DEF OpenEndpoints, CloseEndpoints, Host
<1>1. UNCHANGED Holders /\ \A p \in Pids : Running(p)' <=> Running(p)
    BY <1>0 DEF Holders, Running, initialiser
<1>2. CASE OpenEndpoints
    <2>1. bulk' \in BOOLEAN /\ UNCHANGED <<ffs, bound, enabled, events, setup>> /\ bulk'
        BY <1>2 DEF OpenEndpoints
    <2> QED
        BY <1>0, <1>1, <2>1 DEF FfsTypeOK, Ep0, Quiet, initialiser
<1>3. CASE CloseEndpoints
    <2>1. bulk' \in BOOLEAN
        BY <1>3 DEF CloseEndpoints
    <2>2. CASE Holders = {}
        <3>1. Reset
            BY <1>3, <2>2 DEF CloseEndpoints
        <3>2. FfsTypeOK'
            BY <1>0, <2>1, <3>1, ResetType DEF FfsTypeOK, initialiser
        <3>3. \A p \in Pids : ip'[p] \notin {"write_strings", "loop"}
            BY <1>0, <2>2 DEF Holders, initialiser
        <3>4. Ep0'
            BY <3>1, <3>3, ResetType DEF Ep0
        <3> QED
            BY <1>0, <1>1, <3>1, <3>2, <3>4, ResetType DEF Quiet, initialiser
    <2>3. CASE Holders # {}
        <3>1. UNCHANGED <<ffs, bound, enabled, events, setup>>
            BY <1>3, <2>3 DEF CloseEndpoints
        <3> QED
            BY <1>0, <1>1, <2>1, <2>3, <3>1 DEF FfsTypeOK, Ep0, Quiet, initialiser
    <2> QED
        BY <2>2, <2>3
<1>4. CASE Host
    <2>1. /\ bound /\ UNCHANGED <<bulk, ffs, bound>>
          /\ \/ enabled' = ~enabled /\ setup' = FALSE
             \/ enabled /\ setup' = TRUE /\ enabled' = enabled
             \/ setup' = FALSE /\ enabled' = enabled
        BY <1>4 DEF Host
    <2>2. events' \in Seq(Events)
        <3>1. CASE Request
            BY <3>1 DEF Request, FfsTypeOK, Events
        <3>2. CASE Report("DISABLE") \/ Report("ENABLE")
            <4>1. <<"DISABLE">> \in Seq(Events) /\ <<"ENABLE">> \in Seq(Events)
                BY DEF Events
            <4> QED
                BY <3>2, <4>1, Zenon DEF Report
        <3>3. Request \/ Report("DISABLE") \/ Report("ENABLE") \/ events' = events
            BY <1>4, Zenon DEF Host
        <3> QED
            BY <3>1, <3>2, <3>3 DEF FfsTypeOK
    <2>3. enabled' \in BOOLEAN /\ setup' \in BOOLEAN /\ (setup' => enabled')
        <3>1. enabled \in BOOLEAN /\ setup \in BOOLEAN
            BY DEF FfsTypeOK
        <3> QED
            BY <2>1, <3>1, Zenon
    <2>4. FfsTypeOK'
        BY <1>0, <2>1, <2>2, <2>3 DEF FfsTypeOK, initialiser
    <2>5. Ep0'
        BY <1>0, <1>1, <2>1, <2>3 DEF Ep0, initialiser
    <2> QED
        BY <1>0, <1>1, <2>1, <2>4, <2>5 DEF Quiet, initialiser
<1> QED
    BY <1>2, <1>3, <1>4

\* kill and pkill: the ones that run have their signal.
LEMMA KillEp0 ==
    ASSUME NEW P \in SUBSET Pids, FfsTypeOK, Ep0, Sigterm(P)
    PROVE  /\ FfsTypeOK' /\ Ep0' /\ Quiet
           /\ \A p \in P : Running(p)' => p \in signalled'
<1>1. ip' = ip /\ UNCHANGED functionfs /\ UNCHANGED Holders
    BY DEF Sigterm, Holders
<1>2. signalled' \in SUBSET Pids /\ signalled \subseteq signalled'
    BY DEF Sigterm, FfsTypeOK
<1>3. FfsTypeOK'
    BY <1>1, <1>2 DEF FfsTypeOK, functionfs
<1>4. Ep0'
    BY <1>1 DEF Ep0, functionfs
<1> QED
    BY <1>1, <1>2, <1>3, <1>4 DEF Sigterm, Quiet, Running, functionfs

\* The scripts write to the UDC.
LEMMA UdcEp0 ==
    ASSUME FfsTypeOK, Ep0, UnbindUdc \/ BindUdc, UNCHANGED initialiser
    PROVE  /\ FfsTypeOK' /\ Ep0'
           /\ UnbindUdc => ~bound'
<1> USE DEF initialiser
<1>0. UNCHANGED Holders
    BY DEF Holders
<1>1. CASE UnbindUdc
    <2>1. bound' \in BOOLEAN /\ enabled' \in BOOLEAN /\ setup' \in BOOLEAN
        BY <1>1 DEF UnbindUdc
    <2>2. events' \in Seq(Events)
        BY <1>1 DEF UnbindUdc, Report, FfsTypeOK, Events
    <2>3. FfsTypeOK'
        BY <1>1, <2>1, <2>2 DEF UnbindUdc, FfsTypeOK
    <2> QED
        BY <1>0, <1>1, <2>3 DEF UnbindUdc, Ep0
<1>2. CASE BindUdc
    <2>1. bound' \in BOOLEAN /\ events' \in Seq(Events)
        BY <1>2 DEF BindUdc, Report, FfsTypeOK, Events
    <2>2. FfsTypeOK'
        BY <1>2, <2>1 DEF BindUdc, FfsTypeOK
    <2>3. Ep0'
        BY <1>0, <1>2 DEF BindUdc, Ep0
    <2>4. ~UnbindUdc
        BY <1>2 DEF BindUdc, UnbindUdc
    <2> QED
        BY <2>2, <2>3, <2>4
<1> QED
    BY <1>1, <1>2

\* A FunctionFS mounted over the old one starts with no holder.
LEMMA RemountEp0 ==
    ASSUME FfsTypeOK, Ep0, Remount
    PROVE  FfsTypeOK' /\ Ep0' /\ Quiet
<1>1. /\ ip' \in [Pids -> Labels] /\ signalled' = signalled /\ Reset
      /\ bulk' \in BOOLEAN
      /\ \A p \in Pids : ip'[p] = IF p \in Holders THEN "detached" ELSE ip[p]
    BY DEF Remount, FfsTypeOK, Labels
<1>2. \A p \in Pids : ip'[p] \notin {"write_strings", "loop"}
    BY <1>1 DEF Holders
<1>3. FfsTypeOK'
    BY <1>1, ResetType DEF FfsTypeOK
<1>4. Ep0'
    BY <1>1, <1>2, ResetType DEF Ep0
<1> QED
    BY <1>1, <1>3, <1>4, ResetType DEF Quiet, Running, Holders

\* TypeOK in two parts.
LEMMA TypeParts ==
    TypeOK <=> /\ FfsTypeOK /\ script \in Scripts /\ poll \in 1..EndpointPolls /\ pid \in Pids
               /\ pc \in {"check", "unbind", "kill", "rebuild", "launch", "settle", "bind",
                          "wait", "built", "run", "failed", "refused"}
    BY DEF TypeOK, FfsTypeOK, Events, Labels

\* Every step keeps the invariant.
LEMMA NextIInv == IInv /\ [Next]_vars => IInv'
<1> SUFFICES ASSUME IInv, [Next]_vars PROVE IInv'
    OBVIOUS
<1>1. /\ FfsTypeOK /\ Ep0 /\ InScript /\ Killed
      /\ script \in Scripts /\ poll \in 1..EndpointPolls /\ pid \in Pids
      /\ pc \in {"check", "unbind", "kill", "rebuild", "launch", "settle", "bind",
                 "wait", "built", "run", "failed", "refused"}
    BY TypeParts DEF IInv
<1>2. SUFFICES /\ FfsTypeOK' /\ Ep0'
               /\ script' \in Scripts /\ poll' \in 1..EndpointPolls /\ pid' \in Pids
               /\ pc' \in {"check", "unbind", "kill", "rebuild", "launch", "settle", "bind",
                           "wait", "built", "run", "failed", "refused"}
               /\ InScript' /\ Killed'
    BY DEF IInv, TypeOK, FfsTypeOK, Events, Labels
<1>3. ASSUME UNCHANGED <<initialiser, functionfs>>
      PROVE  FfsTypeOK' /\ Ep0' /\ Quiet
    <2>1. UNCHANGED Holders
        BY <1>3 DEF initialiser, Holders
    <2>2. FfsTypeOK'
        BY <1>1, <1>3 DEF initialiser, functionfs, FfsTypeOK
    <2>3. Ep0'
        BY <1>1, <1>3, <2>1 DEF initialiser, functionfs, Ep0
    <2> QED
        BY <1>3, <2>2, <2>3 DEF initialiser, functionfs, Quiet, Running
<1>4. ASSUME Quiet
      PROVE  /\ AllSignalled({}) => AllSignalled({})'
             /\ pid' = pid /\ AllSignalled({pid}) => AllSignalled({pid})'
             /\ ~bound => ~bound'
    BY <1>4 DEF Quiet, AllSignalled
<1>5. CASE UNCHANGED vars
    BY <1>1, <1>3, <1>4, <1>5 DEF vars, InScript, Killed
<1>6. CASE (\E p \in Pids : (FfsInitStep(p) \/ ReadFails(p) \/ Die(p)) /\ Aside)
           \/ ((Psdkd \/ Host) /\ Aside)
    <2>1. FfsTypeOK' /\ Ep0' /\ Quiet /\ UNCHANGED <<script, pc, poll, pid>>
        BY <1>1, <1>6, FfsStepEp0, OthersEp0 DEF Psdkd, Aside
    <2> QED
        BY <1>1, <1>4, <2>1 DEF InScript, Killed
<1>7. CASE Check
    BY <1>1, <1>3, <1>4, <1>7, AfterStep DEF Check, InScript, Killed, Scripts
<1>8. CASE Unbind
    <2>1. FfsTypeOK' /\ Ep0' /\ ~bound'
        BY <1>1, <1>8, UdcEp0 DEF Unbind
    <2>2. AllSignalled({}) => AllSignalled({})'
        BY <1>8 DEF Unbind, initialiser, AllSignalled, Running
    <2> QED
        BY <1>1, <1>8, <2>1, <2>2, AfterStep DEF Unbind, InScript, Killed
<1>9. CASE Kill
    <2>1. FfsTypeOK' /\ Ep0' /\ Quiet /\ AllSignalled({})'
        BY <1>1, <1>9, KillEp0 DEF Kill, AllSignalled
    <2> QED
        BY <1>1, <1>4, <1>9, <2>1, AfterStep DEF Kill, InScript, Killed
<1>10. CASE Rebuild
    <2>1. FfsTypeOK' /\ Ep0' /\ Quiet
        BY <1>1, <1>3, <1>10, RemountEp0 DEF Rebuild
    <2> QED
        BY <1>1, <1>4, <1>10, <2>1, AfterStep DEF Rebuild, InScript, Killed
<1>11. CASE Launch
    <2>1. PICK p \in Pids : ~Running(p) /\ GoTo(p, "open") /\ pid' = p
        BY <1>11 DEF Launch
    <2>2. /\ ip' \in [Pids -> Labels] /\ signalled' = signalled
          /\ ip'[p] = "open" /\ \A q \in Pids \ {p} : ip'[q] = ip[q]
        BY <1>1, <2>1 DEF GoTo, FfsTypeOK, Labels
    <2>3. UNCHANGED functionfs
        BY <1>11 DEF Launch
    <2>4. UNCHANGED Holders
        BY <2>1, <2>2 DEF Holders, Running
    <2>5. FfsTypeOK'
        BY <1>1, <2>2, <2>3 DEF FfsTypeOK, functionfs
    <2>6. Ep0'
        BY <1>1, <2>2, <2>3, <2>4 DEF Ep0, functionfs
    <2>7. AllSignalled({pid})'
        BY <1>1, <1>11, <2>1, <2>2 DEF Launch, Killed, AllSignalled, Running
    <2> QED
        BY <1>1, <1>11, <2>1, <2>5, <2>6, <2>7 DEF Launch, InScript, Killed
<1>12. CASE Settle
    BY <1>1, <1>3, <1>4, <1>12 DEF Settle, InScript, Killed
<1>13. CASE Bind
    BY <1>1, <1>13, UdcEp0, PollsAssumption DEF Bind, InScript, Killed
<1>14. CASE BindFails
    <2>1. FfsTypeOK' /\ Ep0' /\ Quiet
        BY <1>1, <1>14, KillEp0 DEF BindFails
    <2>2. script = "start" => pid \in signalled' \/ ~Running(pid)'
        BY <1>1, <1>14, KillEp0 DEF BindFails
    <2>3. script = "start" => AllSignalled({})'
        BY <1>1, <1>14, <2>1, <2>2 DEF BindFails, Killed, AllSignalled, Quiet
    <2> QED
        BY <1>1, <1>14, <2>1, <2>3 DEF BindFails, InScript, Killed
<1>15. CASE WaitForEndpoints
    BY <1>1, <1>3, <1>15, PollsAssumption DEF WaitForEndpoints, InScript, Killed
<1>16. CASE RunAgain
    BY <1>1, <1>3, <1>16 DEF RunAgain, InScript, Killed
<1> QED
    BY <1>5, <1>6, <1>7, <1>8, <1>9, <1>10, <1>11, <1>12, <1>13, <1>14, <1>15, <1>16
    DEF Next, Script

-----------------------------------------------------------------------------
(* Results.                                                                *)

\* The invariant holds in every reachable state.
THEOREM Invariance == Spec => []IInv
    BY InitIInv, NextIInv, PTL DEF Spec

\* The variables have their types; in particular psdkd is started after at most
\* EndpointPolls turns of the waiting loop.
THEOREM TypeCorrect == Spec => []TypeOK
<1>1. IInv => TypeOK
    BY DEF IInv
<1> QED
    BY <1>1, Invariance, PTL

\* Whichever scripts have run, ffs_init is started only on an unbound gadget and
\* when every other one has been sent SIGTERM.
THEOREM NeverAStrayInitialiser == Spec => []NoStrayInitialiser
<1>1. IInv => NoStrayInitialiser
    BY DEF IInv, Killed, AllSignalled, NoStrayInitialiser
<1> QED
    BY <1>1, Invariance, PTL

\* However many processes linger, one alone serves ep0 of an active FunctionFS,
\* and a bound gadget has one that is kept open.
THEOREM NeverTwoInitialisers == Spec => []OneInitialiser
<1>1. IInv => OneInitialiser
    BY DEF IInv, Ep0, OneInitialiser
<1> QED
    BY <1>1, Invariance, PTL

=============================================================================
