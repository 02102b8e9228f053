------------------------------ MODULE FfsInit ------------------------------
(***************************************************************************)
(* tools/ffs_init.c: the process that writes the USB descriptors to ep0 of *)
(* a FunctionFS and then answers the events of ep0, and the FunctionFS     *)
(* itself as far as that process, psdkd and the boot scripts use it. More  *)
(* than one such process may be there: the scripts send SIGTERM to an old  *)
(* one and do not wait for its end. Everything FunctionFS knows is gone    *)
(* when the last file of it is closed, ep0 by ffs_init or ep1 and ep2 by   *)
(* psdkd, and with it the binding of the gadget to the UDC.                *)
(***************************************************************************)
EXTENDS Naturals, Sequences

CONSTANT Pids  \* bound: the processes of ffs_init that can be there at a time

VARIABLES ip,         \* where each ffs_init is; "exited" before its start too
          signalled,  \* the ones that have been sent SIGTERM and not ended yet
          bulk,       \* a psdkd has ep1 and ep2 open
          ffs,        \* FunctionFS waits for "descriptors" or "strings", or is "active"
          bound,      \* the gadget is bound to the UDC
          enabled,    \* the host has configured the interface
          events,     \* the events in ep0
          setup       \* the host waits for the answer to a control request

initialiser == <<ip, signalled>>
functionfs == <<bulk, ffs, bound, enabled, events, setup>>

Running(p) == ip[p] # "exited"

\* The processes that have ep0 of the mounted FunctionFS open.
Holders == {p \in Pids : ip[p] \in {"write_descriptors", "write_strings", "loop"}}

FfsInitInit == /\ ip = [p \in Pids |-> "exited"] /\ signalled = {}
               /\ bulk = FALSE /\ ffs = "descriptors" /\ bound = FALSE /\ enabled = FALSE
               /\ events = <<>> /\ setup = FALSE

-----------------------------------------------------------------------------
(* FunctionFS and the host.                                                *)

\* The last file is closed, or FunctionFS is mounted anew.
Reset == /\ ffs' = "descriptors" /\ bound' = FALSE /\ enabled' = FALSE
         /\ events' = <<>> /\ setup' = FALSE

\* A change of the gadget's state replaces all that waits in ep0, a control
\* request an earlier one.
Report(event) == events' = <<event>>
Request == events' = IF events # <<>> /\ events[Len(events)] = "SETUP" THEN events
                     ELSE Append(events, "SETUP")

BindUdc == /\ ffs = "active" /\ ~bound
           /\ bound' = TRUE
           /\ Report("BIND")
           /\ UNCHANGED <<bulk, ffs, enabled, setup>>

UnbindUdc == /\ bound' = FALSE /\ enabled' = FALSE /\ setup' = FALSE
             /\ IF bound THEN Report("UNBIND") ELSE UNCHANGED events
             /\ UNCHANGED <<bulk, ffs>>

\* The host configures the interface or drops it, makes a control request, or
\* does not wait for the answer any longer.
Host == /\ bound
        /\ \/ /\ enabled' = ~enabled
              /\ Report(IF enabled THEN "DISABLE" ELSE "ENABLE")
              /\ setup' = FALSE
           \/ /\ enabled /\ ~setup
              /\ setup' = TRUE
              /\ Request
              /\ UNCHANGED enabled
           \/ /\ setup
              /\ setup' = FALSE
              /\ UNCHANGED <<enabled, events>>
        /\ UNCHANGED <<bulk, ffs, bound, initialiser>>

\* psdkd opens ep1 and ep2, which are there while FunctionFS is active.
OpenEndpoints == /\ ffs = "active" /\ ~bulk
                 /\ bulk' = TRUE
                 /\ UNCHANGED <<ffs, bound, enabled, events, setup, initialiser>>

\* psdkd ends, of itself or some time after a SIGTERM.
CloseEndpoints == /\ bulk
                  /\ bulk' = FALSE
                  /\ IF Holders = {} THEN Reset
                                     ELSE UNCHANGED <<ffs, bound, enabled, events, setup>>
                  /\ UNCHANGED initialiser

-----------------------------------------------------------------------------
(* main.                                                                   *)

GoTo(p, label) == ip' = [ip EXCEPT ![p] = label] /\ UNCHANGED signalled

\* The process is gone, and its ep0 with it.
Exit(p) == /\ ip' = [ip EXCEPT ![p] = "exited"]
           /\ signalled' = signalled \ {p}
           /\ IF Holders = {p} /\ ~bulk THEN Reset /\ UNCHANGED bulk
                                        ELSE UNCHANGED functionfs

Open(p) == /\ ip[p] = "open"
           /\ \/ GoTo(p, "write_descriptors") /\ UNCHANGED functionfs
              \/ Exit(p)

\* Mutant: the result of the write is not looked at.
WriteDescriptorsUnchecked(p) ==
    /\ ip[p] = "write_descriptors"
    /\ GoTo(p, "write_strings")
    /\ ffs' = IF ffs = "descriptors" THEN "strings" ELSE ffs
    /\ UNCHANGED <<bulk, bound, enabled, events, setup>>

\* FunctionFS takes descriptors once; a second process is refused and ends.
WriteDescriptors(p) ==
    /\ ip[p] = "write_descriptors"
    /\ \/ /\ ffs = "descriptors"
          /\ ffs' = "strings"
          /\ GoTo(p, "write_strings")
          /\ UNCHANGED <<bulk, bound, enabled, events, setup>>
       \/ Exit(p)

WriteStrings(p) ==
    /\ ip[p] = "write_strings"
    /\ \/ /\ ffs = "strings"
          /\ ffs' = "active"
          /\ GoTo(p, "loop")
          /\ UNCHANGED <<bulk, bound, enabled, events, setup>>
       \/ Exit(p)

\* Mutant: a control request is only logged.
ReadEventSilent(p) ==
    /\ ip[p] = "loop" /\ events # <<>>
    /\ IF Head(events) = "UNBIND"
         THEN Exit(p)
         ELSE events' = Tail(events) /\ UNCHANGED <<initialiser, bulk, ffs, bound, enabled, setup>>

\* One turn of the event loop. A control request is finished by a write of no
\* bytes; UNBIND ends the process; the other events are only logged.
ReadEvent(p) ==
    /\ ip[p] = "loop" /\ events # <<>>
    /\ IF Head(events) = "UNBIND"
         THEN Exit(p)
         ELSE /\ events' = Tail(events)
              /\ setup' = (setup /\ Head(events) # "SETUP")
              /\ UNCHANGED <<initialiser, bulk, ffs, bound, enabled>>

\* read() fails with anything but EINTR: the loop is left. So may be a process
\* whose FunctionFS has been replaced by another one.
ReadFails(p) == ip[p] \in {"loop", "detached"} /\ Exit(p)

\* SIGTERM is not handled. It may arrive at any time after it was sent.
Die(p) == p \in signalled /\ Exit(p)

FfsInitStep(p) == Open(p) \/ WriteDescriptors(p) \/ WriteStrings(p) \/ ReadEvent(p)

=============================================================================
