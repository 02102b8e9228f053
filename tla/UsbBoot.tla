------------------------------ MODULE UsbBoot ------------------------------
(***************************************************************************)
(* tools/start.sh and tools/psdk_boot.sh, which bring psdkd up on a USB    *)
(* bulk gadget: both unbind the gadget and kill what an earlier run has    *)
(* left, start ffs_init in the background, give it half a second, bind the *)
(* gadget to the UDC, wait a while for the endpoints and start psdkd.      *)
(* psdk_boot.sh also rebuilds the gadget, which for start.sh is done by    *)
(* tools/setup_gadget.sh, and starts psdkd at once when the link is a      *)
(* UART. None of them stops ffs_init when psdkd ends, none of them waits   *)
(* for what it has killed, and any of them may be run next.                *)
(***************************************************************************)
EXTENDS FfsInit

CONSTANT EndpointPolls  \* turns of the loop that waits for ep1 and ep2

ASSUME PollsAssumption == EndpointPolls \in Nat \ {0}

VARIABLES script,  \* the script that runs, or ran last
          pc,      \* where it is
          poll,    \* i of the waiting loop
          pid      \* FFS_INIT_PID, FFS_PID: the ffs_init a script started last

vars == <<script, pc, poll, pid, initialiser, functionfs>>

Scripts == {"setup", "start", "boot_usb", "boot_uart"}

\* The steps up to the start of ffs_init, or of psdkd, or the end.
Steps(s) == CASE s = "setup" -> <<"check", "unbind", "rebuild", "built">>
              [] s = "start" -> <<"check", "unbind", "kill", "launch">>
              [] s = "boot_usb" -> <<"check", "kill", "unbind", "rebuild", "launch">>
              [] s = "boot_uart" -> <<"check", "kill", "run">>

After(step) == LET i == CHOOSE i \in DOMAIN Steps(script) : Steps(script)[i] = step
               IN  Steps(script)[i + 1]

Init == /\ script \in Scripts /\ pc = "check" /\ poll = 1
        /\ pid \in Pids
        /\ FfsInitInit

\* The gadget, the mounted FunctionFS, the UDC and the binaries are there; if
\* not, the script ends before it has touched anything.
Check == /\ pc = "check"
         /\ pc' \in {After("check"), "refused"}
         /\ UNCHANGED <<script, poll, pid, initialiser, functionfs>>

Unbind == /\ pc = "unbind"
          /\ UnbindUdc
          /\ pc' = After("unbind")
          /\ UNCHANGED <<script, poll, pid, initialiser>>

\* kill and pkill send the signal and return.
Sigterm(P) == /\ signalled' = signalled \cup {p \in P : Running(p)}
              /\ UNCHANGED <<ip, functionfs>>

\* Mutant: only psdkd is killed, the old ffs_init is left to the UNBIND event.
KillOnlyPsdkd == /\ pc = "kill"
                 /\ pc' = After("kill")
                 /\ UNCHANGED <<script, poll, pid, initialiser, functionfs>>

\* Every ffs_init and psdkd is sent SIGTERM; 0.3 s later the script goes on, and
\* psdk_boot.sh looks for the binary of psdkd and at the link mode only then.
Kill == /\ pc = "kill"
        /\ Sigterm(Pids)
        /\ pc' \in {After("kill")} \cup (IF script = "start" THEN {} ELSE {"refused"})
        /\ UNCHANGED <<script, poll, pid>>

\* Another FunctionFS is mounted over one that is still held.
Remount == /\ ip' = [p \in Pids |-> IF p \in Holders THEN "detached" ELSE ip[p]]
           /\ bulk' = FALSE
           /\ Reset
           /\ UNCHANGED signalled

\* The gadget is taken down and built again and FunctionFS mounted, unless it
\* still is; under "set -e" a command that fails ends the script.
Rebuild == /\ pc = "rebuild"
           /\ Remount \/ UNCHANGED <<initialiser, functionfs>>
           /\ pc' \in {After("rebuild"), "failed"}
           /\ UNCHANGED <<script, poll, pid>>

Launch == /\ pc = "launch"
          /\ \E p \in Pids : /\ ~Running(p)
                             /\ GoTo(p, "open")
                             /\ pid' = p
          /\ pc' = "settle"
          /\ UNCHANGED <<script, poll, functionfs>>

\* Half a second later psdk_boot.sh looks whether its ffs_init is still there.
Settle == /\ pc = "settle"
          /\ pc' = IF script = "boot_usb" /\ ~Running(pid) THEN "failed" ELSE "bind"
          /\ UNCHANGED <<script, poll, pid, initialiser, functionfs>>

Bind == /\ pc = "bind"
        /\ BindUdc
        /\ poll' = 1
        /\ pc' = "wait"
        /\ UNCHANGED <<script, pid, initialiser>>

\* FunctionFS is not active yet, or the UDC refuses: start.sh kills the ffs_init
\* it has started, psdk_boot.sh ends under "set -e".
BindFails == /\ pc = "bind"
             /\ Sigterm(IF script = "start" THEN {pid} ELSE {})
             /\ pc' = "failed"
             /\ UNCHANGED <<script, poll, pid>>

\* Mutant: one turn too many.
WaitForEndpointsOneMore ==
    /\ pc = "wait"
    /\ IF ffs = "active" \/ poll > EndpointPolls
         THEN pc' = "run" /\ UNCHANGED poll
         ELSE poll' = poll + 1 /\ UNCHANGED pc
    /\ UNCHANGED <<script, pid, initialiser, functionfs>>

\* ep1 and ep2 are there while FunctionFS is active. psdkd is started in any case.
WaitForEndpoints ==
    /\ pc = "wait"
    /\ IF ffs = "active" \/ poll = EndpointPolls
         THEN pc' = "run" /\ UNCHANGED poll
         ELSE poll' = poll + 1 /\ UNCHANGED pc
    /\ UNCHANGED <<script, pid, initialiser, functionfs>>

\* The script has ended and one is run again; a psdkd may still be there.
RunAgain == /\ pc \in {"built", "run", "failed", "refused"}
            /\ script' \in Scripts
            /\ pc' = "check"
            /\ UNCHANGED <<poll, pid, initialiser, functionfs>>

Script == \/ Check \/ Unbind \/ Kill \/ Rebuild \/ Launch \/ Settle \/ Bind \/ BindFails
          \/ WaitForEndpoints \/ RunAgain

\* The psdkd the script has ended with, or an earlier one.
Psdkd == \/ pc = "run" /\ OpenEndpoints
         \/ CloseEndpoints

Aside == UNCHANGED <<script, pc, poll, pid>>

Next == \/ Script
        \/ \E p \in Pids : (FfsInitStep(p) \/ ReadFails(p) \/ Die(p)) /\ Aside
        \/ Psdkd /\ Aside
        \/ Host /\ Aside

Spec == Init /\ [][Next]_vars

\* Every ffs_init is scheduled and its calls return; read() is not bound to fail,
\* and a signal not to arrive by any time.
FairSpec == Spec /\ \A p \in Pids : WF_vars(FfsInitStep(p) /\ Aside)

-----------------------------------------------------------------------------
(* Properties.                                                             *)

TypeOK == /\ script \in Scripts
          /\ pc \in {"check", "unbind", "kill", "rebuild", "launch", "settle", "bind",
                     "wait", "built", "run", "failed", "refused"}
          /\ poll \in 1..EndpointPolls
          /\ pid \in Pids
          /\ ip \in [Pids -> {"open", "write_descriptors", "write_strings", "loop",
                              "detached", "exited"}]
          /\ signalled \in SUBSET Pids
          /\ ffs \in {"descriptors", "strings", "active"}
          /\ bulk \in BOOLEAN /\ bound \in BOOLEAN /\ enabled \in BOOLEAN /\ setup \in BOOLEAN
          /\ events \in Seq({"BIND", "UNBIND", "ENABLE", "DISABLE", "SETUP"})

\* Whichever scripts ran before and however they ended, when ffs_init is started
\* the gadget is unbound and every other ffs_init that still runs has been sent
\* SIGTERM; and a start.sh that gives up on the UDC leaves none that has not.
NoStrayInitialiser ==
    /\ pc = "launch" => ~bound
    /\ pc = "launch" \/ (pc = "failed" /\ script = "start")
           => \A p \in Pids : Running(p) => p \in signalled

\* Old processes may linger, but at most one has got its descriptors accepted; while
\* it serves ep0 FunctionFS is active, and a bound gadget has an active FunctionFS
\* that ffs_init or psdkd keeps open.
OneInitialiser ==
    /\ \A p, q \in Pids : {ip[p], ip[q]} \subseteq {"write_strings", "loop"} => p = q
    /\ \A p \in Pids : ip[p] = "loop" => ffs = "active"
    /\ bound => ffs = "active" /\ (Holders # {} \/ bulk)

\* A control request of the host does not stay unanswered: it is finished, or the
\* gadget goes away, unless only psdkd keeps FunctionFS open.
SetupFinished == setup ~> (~setup \/ (bulk /\ Holders = {}))

=============================================================================
