------------------------------- MODULE Battery -------------------------------
(***************************************************************************)
(* How drone_get_telemetry and drone_get_battery_info choose between the   *)
(* whole-battery topic and the two per-pack topics: the whole-battery      *)
(* sample is copied first, its age is tested afterwards, and if it is      *)
(* older than five seconds the packs are combined instead.                 *)
(*                                                                         *)
(* Each access of the main thread to a topic is one step, and the SDK's    *)
(* callback may deliver a sample, and time may pass, between any two of    *)
(* them. A structure is read and written as a whole here; what a read that *)
(* races a callback can return is the subject of FcCache. A sample carries *)
(* millivolts, milliamps, percent and tenths of a degree; the              *)
(* whole-battery topic has no temperature.                                 *)
(***************************************************************************)
EXTENDS Integers, FiniteSets

CONSTANTS WholeSamples,  \* samples of BATTERY_INFO
          PackSamples,   \* samples of BATTERY_SINGLE_INFO_INDEX1 and 2
          MaxAge,        \* the 5000 ms of topic_is_fresh's callers, scaled
          ClockMax       \* bound: last value of the clock

ASSUME BatteryBounds == MaxAge \in Nat /\ ClockMax \in Nat \ {0}

VARIABLES now,     \* monotonic_ms()
          cell,    \* cell[t]: g_battery, g_battery_single_1, g_battery_single_2
          stamp,   \* stamp[t]: last_update_ms of the topic
          pc,      \* where the main thread is in the getter
          call,    \* which getter it is in
          now_ms,  \* topic_is_fresh's local
          acc,     \* pct_sum, pct_count and drone_get_telemetry's voltage_mv
          out,     \* the result
          before,  \* history: cell and stamp as they were at the call
          touched  \* history: topics delivered since

topics == <<cell, stamp>>
locals == <<pc, call, now_ms, acc, out, before>>
vars == <<now, topics, locals, touched>>

Packs == {"pack1", "pack2"}
Topics == {"whole"} \cup Packs
Samples == [mv : Nat, ma : Int, pct : 0..255, dc : Int]
Zero == [mv |-> 0, ma |-> 0, pct |-> 0, dc |-> 0]
Empty == [sum |-> 0, n |-> 0, mv |-> 0]
Larger(a, b) == IF a > b THEN a ELSE b

ASSUME SamplesAssumption == WholeSamples \subseteq Samples /\ PackSamples \subseteq Samples

Init == /\ now = 1
        /\ cell = [t \in Topics |-> Zero]
        /\ stamp = [t \in Topics |-> 0]
        /\ pc = "done" /\ call = "none" /\ now_ms = 0
        /\ acc = Empty /\ out = Zero
        /\ before = [cell |-> cell, stamp |-> stamp, now |-> now]
        /\ touched = {}

-----------------------------------------------------------------------------
(* The SDK thread and the clock.                                           *)

Deliver(t) ==
    /\ \E s \in (IF t = "whole" THEN WholeSamples ELSE PackSamples) :
           cell' = [cell EXCEPT ![t] = s]
    /\ stamp' = [stamp EXCEPT ![t] = now]
    /\ touched' = touched \cup {t}
    /\ UNCHANGED <<now, locals>>

Tick == /\ now < ClockMax
        /\ now' = now + 1
        /\ UNCHANGED <<topics, locals, touched>>

-----------------------------------------------------------------------------
(* The main thread.                                                        *)

\* Mutant: the sums are static and not cleared on entry.
EnterKeepsSums(getter) ==
    /\ pc = "done"
    /\ call' = getter
    /\ out' = [cell["whole"] EXCEPT !.ma = IF getter = "info" THEN @ ELSE 0, !.dc = 0]
    /\ before' = [cell |-> cell, stamp |-> stamp, now |-> now]
    /\ touched' = {}
    /\ pc' = "stamp"
    /\ UNCHANGED <<now, topics, now_ms, acc>>

\* The getter is entered and copies the whole-battery sample. Telemetry has
\* no current and no temperature.
Enter(getter) ==
    /\ pc = "done"
    /\ call' = getter
    /\ out' = [cell["whole"] EXCEPT !.ma = IF getter = "info" THEN @ ELSE 0, !.dc = 0]
    /\ acc' = Empty
    /\ before' = [cell |-> cell, stamp |-> stamp, now |-> now]
    /\ touched' = {}
    /\ pc' = "stamp"
    /\ UNCHANGED <<now, topics, now_ms>>

\* What follows a negative answer of topic_is_fresh.
Stale == IF call = "telemetry" THEN "packs" ELSE "pack1"

\* topic_is_fresh tests the stamp for zero ...
TestStamp ==
    /\ pc = "stamp"
    /\ pc' = IF stamp["whole"] = 0 THEN Stale ELSE "clock"
    /\ UNCHANGED <<now, topics, call, now_ms, acc, out, before, touched>>

\* ... then reads the clock ...
ReadClock ==
    /\ pc = "clock"
    /\ now_ms' = now
    /\ pc' = "compare"
    /\ UNCHANGED <<now, topics, call, acc, out, before, touched>>

\* Mutant: a sample of exactly the maximal age is stale.
CompareStrict ==
    /\ pc = "compare"
    /\ pc' = IF now_ms >= stamp["whole"] /\ now_ms - stamp["whole"] < MaxAge
               THEN "done" ELSE Stale
    /\ UNCHANGED <<now, topics, call, now_ms, acc, out, before, touched>>

\* Mutant: a sample once received is fresh for ever.
CompareAnyAge ==
    /\ pc = "compare"
    /\ pc' = IF now_ms >= stamp["whole"] THEN "done" ELSE Stale
    /\ UNCHANGED <<now, topics, call, now_ms, acc, out, before, touched>>

\* ... and then the stamp again, which may have moved past now_ms meanwhile.
Compare ==
    /\ pc = "compare"
    /\ pc' = IF now_ms >= stamp["whole"] /\ now_ms - stamp["whole"] <= MaxAge
               THEN "done" ELSE Stale
    /\ UNCHANGED <<now, topics, call, now_ms, acc, out, before, touched>>

\* drone_get_telemetry keeps the stale sample unless a pack has reported.
TestPacks ==
    /\ pc = "packs"
    /\ pc' = IF \E p \in Packs : stamp[p] # 0 THEN "pack1" ELSE "done"
    /\ UNCHANGED <<now, topics, call, now_ms, acc, out, before, touched>>

\* Mutant: a pack that never reported is counted as empty.
ReadPackAlways(p) ==
    /\ pc = p
    /\ acc' = [sum |-> acc.sum + cell[p].pct, n |-> acc.n + 1,
               mv |-> Larger(acc.mv, cell[p].mv)]
    /\ pc' = IF p = "pack1" THEN "pack2" ELSE "average"
    /\ UNCHANGED <<now, topics, call, now_ms, out, before, touched>>

\* A pack that has ever reported is added in. drone_get_telemetry collects
\* into locals; drone_get_battery_info works on the result itself: the first
\* pack overwrites voltage and temperature, the second raises them, and both
\* add their current to what is there.
ReadPack(p) ==
    /\ pc = p
    /\ IF stamp[p] = 0
         THEN UNCHANGED <<acc, out>>
         ELSE LET s == cell[p]
              IN  /\ acc' = [sum |-> acc.sum + s.pct, n |-> acc.n + 1,
                             mv |-> Larger(acc.mv, s.mv)]
                  /\ out' = CASE call = "telemetry" -> out
                              [] call = "info" /\ p = "pack1" ->
                                   [out EXCEPT !.mv = s.mv, !.ma = @ + s.ma, !.dc = s.dc]
                              [] call = "info" /\ p = "pack2" ->
                                   [out EXCEPT !.mv = Larger(@, s.mv), !.ma = @ + s.ma,
                                               !.dc = Larger(@, s.dc)]
    /\ pc' = IF p = "pack1" THEN "pack2" ELSE "average"
    /\ UNCHANGED <<now, topics, call, now_ms, before, touched>>

\* The percentage is the mean of the packs, as an 8-bit number.
Average ==
    /\ pc = "average"
    /\ out' = [out EXCEPT !.pct = IF acc.n > 0 THEN (acc.sum \div acc.n) % 256 ELSE @,
                          !.mv = IF call = "telemetry" THEN acc.mv ELSE @]
    /\ pc' = "done"
    /\ UNCHANGED <<now, topics, call, now_ms, acc, before, touched>>

Getter == TestStamp \/ ReadClock \/ Compare \/ TestPacks \/ Average

Next == \/ \E t \in Topics : Deliver(t)
        \/ Tick
        \/ \E getter \in {"telemetry", "info"} : Enter(getter)
        \/ Getter
        \/ \E p \in Packs : ReadPack(p)

Spec == Init /\ [][Next]_vars

-----------------------------------------------------------------------------
(* Properties.                                                             *)

TypeOK == /\ now \in 1..ClockMax /\ now_ms \in 0..now
          /\ cell \in [Topics -> Samples] /\ out \in Samples
          /\ stamp \in [Topics -> 0..now]
          /\ pc \in {"done", "stamp", "clock", "compare", "packs", "average"} \cup Packs
          /\ call \in {"none", "telemetry", "info"}
          /\ acc.n \in 0..2 /\ acc.sum \in 0..510 /\ acc.mv \in Nat
          /\ touched \subseteq Topics

Returned == pc = "done" /\ call # "none"

\* The packs that had reported when the getter was called, undisturbed since.
Reported == {p \in Packs : before.stamp[p] # 0}

\* Integer mean of the percentages of the packs in P.
MeanPct(P) == IF Cardinality(P) = 2
                THEN (cell["pack1"].pct + cell["pack2"].pct) \div 2
                ELSE cell[CHOOSE p \in P : TRUE].pct

\* As long as the whole-battery sample stays fresh, every getter answers with
\* it alone, however many pack samples come in.
FreshWins ==
    Returned /\ "whole" \notin touched /\ stamp["whole"] # 0
             /\ now - stamp["whole"] <= MaxAge =>
        /\ out.pct = cell["whole"].pct /\ out.mv = cell["whole"].mv
        /\ call = "info" => out.ma = cell["whole"].ma

\* A whole-battery sample that was too old at the call is never reported as
\* the charge once a pack has reported: the charge is the mean of the packs
\* and the telemetry voltage is the higher pack's.
StaleGivesWay ==
    Returned /\ touched = {} /\ Reported # {}
             /\ (before.stamp["whole"] = 0 \/ before.now - before.stamp["whole"] > MaxAge) =>
        /\ out.pct = MeanPct(Reported)
        /\ call = "telemetry" =>
              /\ \A p \in Reported : out.mv >= cell[p].mv
              /\ \E p \in Reported : out.mv = cell[p].mv

\* Even when samples arrive in the middle of the call the charge is explained
\* by what the cache held: the whole-battery sample at the call, or packs that
\* have reported.
ChargeExplained ==
    Returned =>
        \/ out.pct = before.cell["whole"].pct
        \/ touched \cap Packs # {}
        \/ Reported # {} /\ out.pct = MeanPct(Reported)

\* drone_ctrl.c: "On each get_* call, read the latest cached sample". When the
\* whole-battery topic passes the freshness test, the answer is a sample of it
\* and not the zeroes from before the first one.
FreshIsReceived ==
    Returned /\ acc.n = 0 /\ Reported # {} => before.stamp["whole"] # 0

=============================================================================
