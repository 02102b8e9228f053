---------------------------- MODULE BatteryProofs ----------------------------
(***************************************************************************)
(* Proofs about Battery, for any samples, any maximal age and any bound on *)
(* the clock.                                                              *)
(***************************************************************************)
EXTENDS Battery, FiniteSetTheorems, TLAPS

-----------------------------------------------------------------------------
(* The inductive invariant.                                                *)

\* Types that TypeOK leaves open.
Acc == [sum : 0..510, n : 0..2, mv : Nat]
Before == [cell : [Topics -> Samples], stamp : [Topics -> Nat], now : Nat]
Typing == TypeOK /\ acc \in Acc /\ before \in Before

\* A topic that was not delivered since the call is as it was at the call.
History == /\ 1 <= before.now /\ before.now <= now
           /\ \A t \in Topics : before.stamp[t] <= before.now
           /\ \A t \in Topics \ touched : cell[t] = before.cell[t] /\ stamp[t] = before.stamp[t]

\* The clock topic_is_fresh reads is not earlier than the call, and where it
\* has answered no, a whole-battery sample of before the call is stale for good.
Tested == /\ pc \in {"clock", "compare"} => stamp["whole"] # 0
          /\ pc = "compare" => before.now <= now_ms
          /\ pc \in {"packs", "pack1", "pack2", "average"} /\ "whole" \notin touched =>
                 stamp["whole"] = 0 \/ now - stamp["whole"] > MaxAge

\* Until a pack is read the result is the whole-battery sample at the call, and
\* its charge stays so until the mean is taken.
Copied ==
    /\ pc # "done" => call \in {"telemetry", "info"}
    /\ pc = "packs" => call = "telemetry"
    /\ pc \in {"stamp", "clock", "compare", "packs", "pack1"} =>
           /\ acc = Empty /\ out.mv = before.cell["whole"].mv
           /\ call = "info" => out.ma = before.cell["whole"].ma
    /\ pc # "done" => out.pct = before.cell["whole"].pct

\* The sums after pack p has been looked at.
Collect(a, p) == IF stamp[p] = 0 THEN a
                 ELSE [sum |-> a.sum + cell[p].pct, n |-> a.n + 1,
                       mv |-> Larger(a.mv, cell[p].mv)]

Collected ==
    /\ pc = "pack2" => acc.n <= 1 /\ acc.sum <= 255
    /\ touched \cap Packs = {} =>
           /\ pc = "pack2" => acc = Collect(Empty, "pack1")
           /\ pc = "average" => acc = Collect(Collect(Empty, "pack1"), "pack2")

IInv == /\ Typing /\ History /\ Tested /\ Copied /\ Collected
        /\ FreshWins /\ StaleGivesWay /\ ChargeExplained

-----------------------------------------------------------------------------
(* The operators.                                                          *)

\* The mean over one pack or over both.
LEMMA MeanCases ==
    /\ Reported = {"pack1", "pack2"} =>
           MeanPct(Reported) = (cell["pack1"].pct + cell["pack2"].pct) \div 2
    /\ Reported = {"pack1"} => MeanPct(Reported) = cell["pack1"].pct
    /\ Reported = {"pack2"} => MeanPct(Reported) = cell["pack2"].pct
<1>1. Cardinality({"pack1"}) = 1 /\ IsFiniteSet({"pack1"}) /\ Cardinality({"pack2"}) = 1
    BY FS_Singleton
<1>2. Cardinality({"pack1"} \cup {"pack2"}) = 2
    BY <1>1, FS_AddElement
<1>3. {"pack1"} \cup {"pack2"} = {"pack1", "pack2"}
    OBVIOUS
<1>4. /\ (CHOOSE p \in {"pack1"} : TRUE) = "pack1"
      /\ (CHOOSE p \in {"pack2"} : TRUE) = "pack2"
    OBVIOUS
<1>5. /\ MeanPct({"pack1", "pack2"}) = (cell["pack1"].pct + cell["pack2"].pct) \div 2
      /\ MeanPct({"pack1"}) = cell["pack1"].pct /\ MeanPct({"pack2"}) = cell["pack2"].pct
    BY <1>1, <1>2, <1>3, <1>4 DEF MeanPct
<1> QED
    BY <1>5, Zenon

\* The mean does not change as long as the packs do not.
LEMMA MeanKept ==
    ASSUME UNCHANGED before, Reported # {}, \A p \in Packs : cell'[p] = cell[p]
    PROVE  MeanPct(Reported)' = MeanPct(Reported)
<1>1. Reported' = Reported
    BY DEF Reported
<1> DEFINE one == CHOOSE p \in Reported : TRUE
<1>2. one \in Packs
    BY DEF Reported
<1>3. one' = one
    BY <1>1, Zenon
<1> HIDE DEF one
<1>4. /\ MeanPct(Reported) = IF Cardinality(Reported) = 2
                              THEN (cell["pack1"].pct + cell["pack2"].pct) \div 2
                              ELSE cell[one].pct
      /\ MeanPct(Reported)' = IF Cardinality(Reported') = 2
                               THEN (cell'["pack1"].pct + cell'["pack2"].pct) \div 2
                               ELSE cell'[one'].pct
    BY Zenon DEF MeanPct, one
<1> QED
    BY <1>1, <1>2, <1>3, <1>4 DEF Packs

\* What a fold over at most two 8-bit percentages gives.
LEMMA Mean8 ==
    ASSUME NEW a \in 0..255, NEW b \in 0..255
    PROVE  /\ (a \div 1) % 256 = a
           /\ ((a + b) \div 2) % 256 = (a + b) \div 2
    BY SMT

\* The 8-bit conversion gives an 8-bit number, whatever the sums are.
LEMMA Low8 ==
    ASSUME NEW a \in Acc, a.n > 0
    PROVE  (a.sum \div a.n) % 256 \in 0..255
<1>1. a.sum \in Nat /\ a.n \in {1, 2}
    BY DEF Acc
<1>2. a.sum \div a.n \in Int
    BY <1>1
<1> QED
    BY <1>2

-----------------------------------------------------------------------------
(* The steps.                                                              *)

\* Before the first sample and the first call.
LEMMA InitIInv == Init => IInv
<1> SUFFICES ASSUME Init PROVE IInv
    OBVIOUS
<1>1. Zero \in Samples
    BY DEF Zero, Samples
<1>2. Typing
    BY <1>1, BatteryBounds DEF Init, Typing, TypeOK, Acc, Before, Empty
<1>3. History
    BY DEF Init, History
<1>4. Tested /\ Copied /\ Collected
    BY DEF Init, Tested, Copied, Collected
<1>5. FreshWins /\ StaleGivesWay /\ ChargeExplained
    BY DEF Init, FreshWins, StaleGivesWay, ChargeExplained, Returned
<1> QED
    BY <1>2, <1>3, <1>4, <1>5 DEF IInv

\* A sample arrives at any moment.
LEMMA DeliverIInv ==
    ASSUME IInv, NEW t \in Topics, Deliver(t)
    PROVE  IInv'
<1> USE DEF locals
<1>1. PICK s \in Samples : cell' = [cell EXCEPT ![t] = s]
    BY SamplesAssumption DEF Deliver
<1>2. /\ stamp' = [stamp EXCEPT ![t] = now] /\ touched' = touched \cup {t}
      /\ UNCHANGED <<now, locals>>
      /\ cell \in [Topics -> Samples] /\ stamp \in [Topics -> 0..now] /\ now \in Nat /\ now >= 1
    BY DEF Deliver, IInv, Typing, TypeOK
<1>3. Typing'
    <2>1. cell' \in [Topics -> Samples] /\ stamp' \in [Topics -> 0..now] /\ touched' \subseteq Topics
        BY <1>1, <1>2 DEF IInv, Typing, TypeOK
    <2> QED
        BY <1>2, <2>1 DEF IInv, Typing, TypeOK
<1>4. \A u \in Topics : u # t => cell'[u] = cell[u] /\ stamp'[u] = stamp[u]
    BY <1>1, <1>2
<1>5. History'
    BY <1>2, <1>4 DEF IInv, History
<1>6. "whole" \in Topics /\ Packs \subseteq Topics /\ "pack1" \in Packs /\ "pack2" \in Packs
    BY DEF Topics, Packs
<1>7. Tested'
    BY <1>2, <1>4, <1>6 DEF IInv, Tested
<1>8. Copied'
    BY <1>2 DEF IInv, Copied
<1>9. ASSUME touched' \cap Packs = {} PROVE touched \cap Packs = {} /\ t = "whole"
    BY <1>2, <1>9 DEF Topics
<1>10. Collected'
    <2>1. pc' = "pack2" => acc'.n <= 1 /\ acc'.sum <= 255
        BY <1>2 DEF IInv, Collected
    <2>2. ASSUME touched' \cap Packs = {}
          PROVE  /\ pc' = "pack2" => acc' = Collect(Empty, "pack1")'
                 /\ pc' = "average" => acc' = Collect(Collect(Empty, "pack1"), "pack2")'
        <3>1. \A p \in Packs : cell'[p] = cell[p] /\ stamp'[p] = stamp[p]
            BY <1>4, <1>6, <1>9, <2>2 DEF Packs
        <3>2. /\ Collect(Empty, "pack1")' = Collect(Empty, "pack1")
              /\ Collect(Collect(Empty, "pack1"), "pack2")' = Collect(Collect(Empty, "pack1"), "pack2")
            BY <1>6, <3>1 DEF Collect
        <3> QED
            BY <1>2, <1>9, <2>2, <3>2 DEF IInv, Collected
    <2> QED
        BY <2>1, <2>2 DEF Collected
<1>11. FreshWins'
    BY <1>2, <1>4, <1>6 DEF IInv, FreshWins, Returned
<1>12. StaleGivesWay'
    BY <1>2 DEF StaleGivesWay
<1>13. ChargeExplained'
    <2>1. CASE touched' \cap Packs # {}
        BY <2>1 DEF ChargeExplained
    <2>2. CASE touched' \cap Packs = {}
        <3>1. touched \cap Packs = {} /\ \A p \in Packs : cell'[p] = cell[p]
            BY <1>4, <1>6, <1>9, <2>2 DEF Packs
        <3>2. Reported' = Reported /\ before' = before /\ out' = out /\ pc' = pc /\ call' = call
            BY <1>2 DEF Reported
        <3>3. Reported # {} => MeanPct(Reported)' = MeanPct(Reported)
            BY <3>1, <3>2, MeanKept
        <3> QED
            BY <3>1, <3>2, <3>3 DEF IInv, ChargeExplained, Returned
    <2> QED
        BY <2>1, <2>2
<1> QED
    BY <1>3, <1>5, <1>7, <1>8, <1>10, <1>11, <1>12, <1>13 DEF IInv

\* Time passes: what was stale stays stale.
LEMMA TickIInv ==
    ASSUME IInv, Tick
    PROVE  IInv'
<1> USE DEF locals, topics
<1>1. /\ now' = now + 1 /\ now \in 1..ClockMax /\ now < ClockMax
      /\ UNCHANGED <<topics, locals, touched>> /\ stamp \in [Topics -> 0..now]
    BY DEF Tick, IInv, Typing, TypeOK
<1>2. Typing'
    <2>1. stamp' \in [Topics -> 0..now'] /\ now' \in 1..ClockMax /\ now_ms' \in 0..now'
        BY <1>1, BatteryBounds DEF IInv, Typing, TypeOK
    <2> QED
        BY <1>1, <2>1 DEF IInv, Typing, TypeOK
<1>3. before.now \in Nat /\ stamp["whole"] \in Nat /\ MaxAge \in Nat /\ now \in Nat
    BY <1>1, BatteryBounds DEF IInv, Typing, Before, Topics
<1>4. History'
    BY <1>1, <1>3 DEF IInv, History
<1>5. Tested'
    BY <1>1, <1>3 DEF IInv, Tested
<1>6. Copied' /\ Collected'
    BY <1>1 DEF IInv, Copied, Collected, Collect
<1>7. FreshWins'
    BY <1>1, <1>3 DEF IInv, FreshWins, Returned
<1>8. Reported' = Reported /\ (Reported # {} => MeanPct(Reported)' = MeanPct(Reported))
    BY <1>1, MeanKept DEF Reported
<1>9. StaleGivesWay'
    BY <1>1, <1>8 DEF IInv, StaleGivesWay, Returned
<1>10. ChargeExplained'
    BY <1>1, <1>8 DEF IInv, ChargeExplained, Returned
<1> QED
    BY <1>2, <1>4, <1>5, <1>6, <1>7, <1>9, <1>10 DEF IInv

\* While a getter runs, nothing is promised of its result.
LEMMA NotReturned ==
    ASSUME pc' # "done"
    PROVE  FreshWins' /\ StaleGivesWay' /\ ChargeExplained'
    BY DEF FreshWins, StaleGivesWay, ChargeExplained, Returned

\* A getter is called.
LEMMA EnterIInv ==
    ASSUME IInv, NEW getter \in {"telemetry", "info"}, Enter(getter)
    PROVE  IInv'
<1> USE DEF topics
<1> DEFINE w == cell["whole"]
           ma == IF getter = "info" THEN w.ma ELSE 0
<1>1. /\ call' = getter /\ acc' = Empty /\ touched' = {} /\ pc' = "stamp"
      /\ before' = [cell |-> cell, stamp |-> stamp, now |-> now]
      /\ UNCHANGED <<now, topics, now_ms>>
      /\ cell \in [Topics -> Samples] /\ stamp \in [Topics -> 0..now] /\ now \in 1..ClockMax
      /\ w \in Samples
    BY DEF Enter, IInv, Typing, TypeOK, Topics
<1>2. out' = [w EXCEPT !.ma = ma, !.dc = 0] /\ ma \in Int
    BY <1>1 DEF Enter, Samples
<1> HIDE DEF w, ma
<1>3. out' \in Samples /\ out'.pct = w.pct /\ out'.mv = w.mv /\ (getter = "info" => out'.ma = w.ma)
    <2>1. out' \in Samples /\ out'.pct = w.pct /\ out'.mv = w.mv /\ out'.ma = ma
        <3> DEFINE d == 0
        <3>1. d \in Int /\ out' = [w EXCEPT !.ma = ma, !.dc = d]
            BY <1>2
        <3> HIDE DEF d
        <3> QED
            BY <1>1, <1>2, <3>1 DEF Samples
    <2> QED
        BY <2>1 DEF ma
<1>4. /\ before'.cell = cell /\ before'.stamp = stamp /\ before'.now = now
      /\ before' \in Before
    BY <1>1, BatteryBounds DEF Before
<1>5. Typing'
    <2>1. acc' \in Acc /\ acc'.n \in 0..2 /\ acc'.sum \in 0..510 /\ acc'.mv \in Nat
        BY <1>1 DEF Empty, Acc
    <2> QED
        BY <1>1, <1>3, <1>4, <2>1 DEF IInv, Typing, TypeOK
<1>6. History'
    BY <1>1, <1>4 DEF History
<1>7. Tested' /\ Collected'
    BY <1>1 DEF Tested, Collected
<1>8. Copied'
    BY <1>1, <1>3, <1>4 DEF Copied, w
<1> QED
    BY <1>1, <1>5, <1>6, <1>7, <1>8, NotReturned DEF IInv

\* The three accesses of topic_is_fresh, and the question whether a pack has
\* reported: they decide where the getter goes on.
LEMMA TestIInv ==
    ASSUME IInv, TestStamp \/ ReadClock \/ Compare \/ TestPacks
    PROVE  IInv'
<1> USE DEF topics
<1>1. /\ UNCHANGED <<now, topics, call, acc, out, before, touched>>
      /\ now_ms' \in {now_ms, now}
      /\ pc \in {"stamp", "clock", "compare", "packs"}
      /\ pc' \in {"clock", "compare", "packs", "pack1", "done"}
    BY DEF TestStamp, ReadClock, Compare, TestPacks, Stale
<1>2. /\ now \in Nat /\ now_ms \in Nat /\ before.now \in Nat /\ MaxAge \in Nat
      /\ stamp["whole"] \in Nat /\ stamp["whole"] <= now /\ now_ms <= now
      /\ "whole" \in Topics /\ before.now <= now
    BY BatteryBounds DEF IInv, Typing, TypeOK, Before, Topics, History
<1>3. "whole" \notin touched =>
          /\ cell["whole"] = before.cell["whole"] /\ stamp["whole"] = before.stamp["whole"]
          /\ before.stamp["whole"] <= before.now
    BY <1>2 DEF IInv, History
<1>4. Typing'
    BY <1>1, <1>2 DEF IInv, Typing, TypeOK, Packs
<1>5. History'
    BY <1>1 DEF IInv, History
<1>6. Tested'
    <2>1. CASE TestStamp
        BY <1>1, <2>1 DEF TestStamp, Stale, Tested
    <2>2. CASE ReadClock
        BY <1>1, <1>2, <2>2 DEF ReadClock, IInv, Tested
    <2>3. CASE Compare
        BY <1>1, <1>2, <1>3, <2>3 DEF Compare, Stale, IInv, Tested
    <2>4. CASE TestPacks
        BY <1>1, <2>4 DEF TestPacks, IInv, Tested
    <2> QED
        BY <2>1, <2>2, <2>3, <2>4
<1>7. Copied'
    <2>1. pc' = "packs" => call = "telemetry"
        BY <1>1 DEF TestStamp, ReadClock, Compare, TestPacks, Stale
    <2> QED
        BY <1>1, <2>1 DEF IInv, Copied
<1>8. Collected'
    BY <1>1 DEF Collected
<1>9. /\ out.pct = before.cell["whole"].pct /\ out.mv = before.cell["whole"].mv
      /\ call = "info" => out.ma = before.cell["whole"].ma
    BY <1>1 DEF IInv, Copied
<1>10. FreshWins' /\ ChargeExplained'
    BY <1>1, <1>3, <1>9 DEF FreshWins, ChargeExplained, Returned
<1>11. StaleGivesWay'
    <2>1. SUFFICES ASSUME pc' = "done", touched = {}, Reported # {},
                          before.stamp["whole"] = 0 \/ before.now - before.stamp["whole"] > MaxAge
                   PROVE  FALSE
        BY <1>1 DEF StaleGivesWay, Returned, Reported
    <2>2. CASE Compare
        <3>1. now_ms - stamp["whole"] <= MaxAge /\ before.now <= now_ms /\ stamp["whole"] # 0
            BY <2>1, <2>2 DEF Compare, Stale, IInv, Tested
        <3> QED
            BY <1>2, <1>3, <2>1, <3>1
    <2>3. CASE TestPacks
        <3>1. \A p \in Packs : stamp[p] = 0 /\ stamp[p] = before.stamp[p]
            BY <2>1, <2>3 DEF TestPacks, IInv, History, Topics
        <3> QED
            BY <2>1, <3>1 DEF Reported
    <2> QED
        BY <2>1, <2>2, <2>3 DEF TestStamp, ReadClock, Stale
<1> QED
    BY <1>4, <1>5, <1>6, <1>7, <1>8, <1>10, <1>11 DEF IInv

\* A pack is added in, if it has ever reported.
LEMMA ReadPackIInv ==
    ASSUME IInv, NEW p \in Packs, ReadPack(p)
    PROVE  IInv'
<1> USE DEF topics
<1>1. /\ UNCHANGED <<now, topics, call, now_ms, before, touched>>
      /\ pc = p /\ p \in {"pack1", "pack2"}
      /\ pc' = IF p = "pack1" THEN "pack2" ELSE "average"
    BY DEF ReadPack, Packs
<1>2. /\ call \in {"telemetry", "info"} /\ cell[p] \in Samples /\ out \in Samples /\ acc \in Acc
      /\ out.pct = before.cell["whole"].pct
      /\ pc = "pack1" => acc = Empty
      /\ pc = "pack2" => acc.n <= 1 /\ acc.sum <= 255
    BY <1>1 DEF IInv, Typing, TypeOK, Topics, Packs, Copied, Collected
<1>3. acc' = Collect(acc, p)
    BY <1>1 DEF ReadPack, Collect
<1>4. /\ Empty.n = 0 /\ Empty.sum = 0 /\ Empty.mv = 0
      /\ cell[p].pct \in 0..255 /\ cell[p].mv \in Nat /\ cell[p].ma \in Int /\ cell[p].dc \in Int
    BY <1>2 DEF Empty, Samples
<1>5. /\ acc' \in Acc /\ acc'.n \in 0..2 /\ acc'.sum \in 0..510 /\ acc'.mv \in Nat
      /\ pc = "pack1" => acc'.n <= 1 /\ acc'.sum <= 255
    <2>1. CASE stamp[p] = 0
        BY <1>2, <1>3, <1>4, <2>1 DEF Collect, Acc
    <2>2. CASE stamp[p] # 0
        <3>1. acc' = [sum |-> acc.sum + cell[p].pct, n |-> acc.n + 1,
                      mv |-> Larger(acc.mv, cell[p].mv)]
            BY <1>3, <2>2 DEF Collect
        <3>2. /\ acc.sum \in 0..255 /\ acc.n \in 0..1 /\ Larger(acc.mv, cell[p].mv) \in Nat
              /\ pc = "pack1" => acc.sum = 0 /\ acc.n = 0
            BY <1>1, <1>2, <1>4 DEF Larger, Acc
        <3> DEFINE sum == acc.sum + cell[p].pct
                   n == acc.n + 1
                   mv == Larger(acc.mv, cell[p].mv)
        <3>3. /\ sum \in 0..510 /\ n \in 0..2 /\ mv \in Nat
              /\ pc = "pack1" => n <= 1 /\ sum <= 255
            <4> DEFINE s0 == acc.sum
                       n0 == acc.n
                       c0 == cell[p].pct
            <4>1. s0 \in 0..255 /\ n0 \in 0..1 /\ c0 \in 0..255 /\ mv \in Nat
                BY <1>4, <3>2
            <4>2. pc = "pack1" => s0 = 0 /\ n0 = 0
                BY <3>2
            <4>3. sum = s0 + c0 /\ n = n0 + 1
                OBVIOUS
            <4> HIDE DEF s0, n0, c0, sum, n, mv
            <4> QED
                BY <4>1, <4>2, <4>3
        <3>4. acc' = [sum |-> sum, n |-> n, mv |-> mv]
            BY <3>1
        <3> HIDE DEF sum, n, mv
        <3> QED
            BY <3>3, <3>4 DEF Acc
    <2> QED
        BY <2>1, <2>2
<1>6. out' \in Samples /\ out'.pct = out.pct
    <2>1. CASE stamp[p] = 0 \/ call = "telemetry"
        BY <1>1, <1>2, <2>1 DEF ReadPack
    <2>2. CASE stamp[p] # 0 /\ call = "info" /\ p = "pack1"
        <3>1. out' = [out EXCEPT !.mv = cell[p].mv, !.ma = @ + cell[p].ma, !.dc = cell[p].dc]
            BY <1>1, <2>2 DEF ReadPack
        <3>2. out' = [out EXCEPT !.mv = cell[p].mv, !.ma = out.ma + cell[p].ma, !.dc = cell[p].dc]
            BY <1>2, <3>1 DEF Samples
        <3>3. out.ma + cell[p].ma \in Int
            BY <1>2, <1>4 DEF Samples
        <3> DEFINE m == cell[p].mv
                   a == out.ma + cell[p].ma
                   d == cell[p].dc
        <3>4. m \in Nat /\ a \in Int /\ d \in Int /\ out' = [out EXCEPT !.mv = m, !.ma = a, !.dc = d]
            BY <1>4, <3>2, <3>3
        <3> HIDE DEF m, a, d
        <3> QED
            BY <1>2, <3>4 DEF Samples
    <2>3. CASE stamp[p] # 0 /\ call = "info" /\ p = "pack2"
        <3>1. out' = [out EXCEPT !.mv = Larger(@, cell[p].mv), !.ma = @ + cell[p].ma,
                                 !.dc = Larger(@, cell[p].dc)]
            BY <1>1, <2>3 DEF ReadPack
        <3>2. out' = [out EXCEPT !.mv = Larger(out.mv, cell[p].mv), !.ma = out.ma + cell[p].ma,
                                 !.dc = Larger(out.dc, cell[p].dc)]
            BY <1>2, <3>1 DEF Samples
        <3>3. /\ Larger(out.mv, cell[p].mv) \in Nat /\ Larger(out.dc, cell[p].dc) \in Int
              /\ out.ma + cell[p].ma \in Int
            BY <1>2, <1>4 DEF Samples, Larger
        <3> DEFINE m == Larger(out.mv, cell[p].mv)
                   a == out.ma + cell[p].ma
                   d == Larger(out.dc, cell[p].dc)
        <3>4. m \in Nat /\ a \in Int /\ d \in Int /\ out' = [out EXCEPT !.mv = m, !.ma = a, !.dc = d]
            BY <3>2, <3>3
        <3> HIDE DEF m, a, d
        <3> QED
            BY <1>2, <3>4 DEF Samples
    <2> QED
        BY <1>1, <1>2, <2>1, <2>2, <2>3
<1>7. Typing'
    BY <1>1, <1>5, <1>6 DEF IInv, Typing, TypeOK, Packs
<1>8. History' /\ Tested'
    BY <1>1 DEF IInv, History, Tested
<1>9. Copied'
    BY <1>1, <1>2, <1>6 DEF Copied
<1>10. Collected'
    <2>1. \A a, q : Collect(a, q)' = Collect(a, q)
        BY <1>1 DEF Collect
    <2>2. CASE p = "pack1"
        BY <1>1, <1>2, <1>3, <1>5, <2>2 DEF Collected, Collect
    <2>3. CASE p = "pack2"
        BY <1>1, <1>3, <2>3 DEF IInv, Collected, Collect
    <2> QED
        BY <1>1, <2>2, <2>3
<1> QED
    BY <1>1, <1>7, <1>8, <1>9, <1>10, NotReturned DEF IInv

\* The mean is taken and the getter returns.
LEMMA AverageIInv ==
    ASSUME IInv, Average
    PROVE  IInv'
<1> USE DEF topics
<1> DEFINE pct == IF acc.n > 0 THEN (acc.sum \div acc.n) % 256 ELSE out.pct
           mv == IF call = "telemetry" THEN acc.mv ELSE out.mv
<1>1. /\ UNCHANGED <<now, topics, call, now_ms, acc, before, touched>>
      /\ pc = "average" /\ pc' = "done"
      /\ out' = [out EXCEPT !.pct = pct, !.mv = mv]
    BY DEF Average
<1>2. /\ out \in Samples /\ acc \in Acc /\ acc.n \in Nat
      /\ out.pct = before.cell["whole"].pct
    BY <1>1 DEF IInv, Typing, TypeOK, Copied, Acc
<1>3. pct \in 0..255 /\ mv \in Nat
    BY <1>2, Low8 DEF Samples, Acc
<1> HIDE DEF pct, mv
<1>4. out' \in Samples /\ out'.pct = pct /\ out'.mv = mv
    BY <1>1, <1>2, <1>3 DEF Samples
<1>5. Typing'
    BY <1>1, <1>4 DEF IInv, Typing, TypeOK
<1>6. History' /\ Tested' /\ Copied' /\ Collected'
    BY <1>1 DEF IInv, History, Tested, Copied, Collected
<1>7. FreshWins'
    <2>1. now \in Int /\ stamp["whole"] \in Int /\ MaxAge \in Int
        BY BatteryBounds DEF IInv, Typing, TypeOK, Topics
    <2>2. "whole" \notin touched => stamp["whole"] = 0 \/ now - stamp["whole"] > MaxAge
        BY <1>1 DEF IInv, Tested
    <2> QED
        BY <1>1, <2>1, <2>2 DEF FreshWins
<1> DEFINE one == cell["pack1"]
           two == cell["pack2"]
<1>8. one \in Samples /\ two \in Samples /\ one.pct \in 0..255 /\ two.pct \in 0..255
      /\ one.mv \in Nat /\ two.mv \in Nat
    BY DEF IInv, Typing, TypeOK, Topics, Packs, Samples
<1> HIDE DEF one, two
<1>9. ASSUME touched \cap Packs = {}
      PROVE  /\ acc = Collect(Collect(Empty, "pack1"), "pack2")
             /\ Reported = {q \in Packs : stamp[q] # 0}
    <2>1. acc = Collect(Collect(Empty, "pack1"), "pack2")
        BY <1>1, <1>9 DEF IInv, Collected
    <2>2. \A q \in Packs : stamp[q] = before.stamp[q]
        BY <1>9 DEF IInv, History, Topics
    <2> QED
        BY <2>1, <2>2 DEF Reported
<1>10. ASSUME touched \cap Packs = {}
       PROVE  \/ Reported = {} /\ pct = out.pct
              \/ Reported = {"pack1", "pack2"} /\ pct = (one.pct + two.pct) \div 2
                                               /\ acc.mv = Larger(one.mv, two.mv)
              \/ Reported = {"pack1"} /\ pct = one.pct /\ acc.mv = one.mv
              \/ Reported = {"pack2"} /\ pct = two.pct /\ acc.mv = two.mv
    <2> DEFINE a == stamp["pack1"] # 0
               b == stamp["pack2"] # 0
    <2>1. CASE ~a /\ ~b
        BY <1>9, <1>10, <2>1 DEF Collect, Empty, Packs, pct
    <2>2. CASE a /\ b
        <3>1. acc.sum = one.pct + two.pct /\ acc.n = 2 /\ acc.mv = Larger(one.mv, two.mv)
            BY <1>8, <1>9, <1>10, <2>2 DEF Collect, Empty, Larger, one, two
        <3>2. Reported = {"pack1", "pack2"}
            BY <1>9, <1>10, <2>2 DEF Packs
        <3>3. ((one.pct + two.pct) \div 2) % 256 = (one.pct + two.pct) \div 2
            BY <1>8, Mean8
        <3>4. pct = ((one.pct + two.pct) \div 2) % 256
            BY <3>1 DEF pct
        <3> QED
            BY <3>1, <3>2, <3>3, <3>4
    <2>3. CASE a /\ ~b
        <3>1. acc.sum = one.pct /\ acc.n = 1 /\ acc.mv = one.mv
            BY <1>8, <1>9, <1>10, <2>3 DEF Collect, Empty, Larger, one
        <3>2. Reported = {"pack1"}
            BY <1>9, <1>10, <2>3 DEF Packs
        <3> QED
            BY <1>8, <3>1, <3>2, Mean8 DEF pct
    <2>4. CASE ~a /\ b
        <3>1. acc.sum = two.pct /\ acc.n = 1 /\ acc.mv = two.mv
            BY <1>8, <1>9, <1>10, <2>4 DEF Collect, Empty, Larger, two
        <3>2. Reported = {"pack2"}
            BY <1>9, <1>10, <2>4 DEF Packs
        <3> QED
            BY <1>8, <3>1, <3>2, Mean8 DEF pct
    <2> QED
        BY <2>1, <2>2, <2>3, <2>4
<1>11. Reported' = Reported /\ (Reported # {} => MeanPct(Reported)' = MeanPct(Reported))
    BY <1>1, MeanKept DEF Reported
<1>12. ASSUME touched \cap Packs = {}, Reported # {} PROVE pct = MeanPct(Reported)
    BY <1>10, <1>12, MeanCases DEF one, two
<1>13. StaleGivesWay'
    <2>1. SUFFICES ASSUME touched = {}, Reported # {}
                   PROVE  /\ out'.pct = MeanPct(Reported)'
                          /\ call = "telemetry" => /\ \A q \in Reported : out'.mv >= cell[q].mv
                                                   /\ \E q \in Reported : out'.mv = cell[q].mv
        BY <1>1, <1>11 DEF StaleGivesWay
    <2>2. out'.pct = MeanPct(Reported)'
        BY <1>4, <1>11, <1>12, <2>1
    <2>3. ASSUME call = "telemetry"
          PROVE  /\ \A q \in Reported : out'.mv >= cell[q].mv
                 /\ \E q \in Reported : out'.mv = cell[q].mv
        <3>1. out'.mv = acc.mv
            BY <1>4, <2>3 DEF mv
        <3>2. Larger(one.mv, two.mv) \in {one.mv, two.mv} /\ Larger(one.mv, two.mv) >= one.mv
              /\ Larger(one.mv, two.mv) >= two.mv
            BY <1>8 DEF Larger
        <3> QED
            BY <1>8, <1>10, <2>1, <3>1, <3>2 DEF one, two
    <2> QED
        BY <2>2, <2>3
<1>14. ChargeExplained'
    BY <1>1, <1>2, <1>4, <1>10, <1>11, <1>12 DEF ChargeExplained
<1> QED
    BY <1>5, <1>6, <1>7, <1>13, <1>14 DEF IInv

\* Every step keeps the invariant.
LEMMA NextIInv == IInv /\ [Next]_vars => IInv'
<1> SUFFICES ASSUME IInv, [Next]_vars PROVE IInv'
    OBVIOUS
<1>1. CASE UNCHANGED vars
    <2> USE <1>1 DEF vars, topics, locals
    <2>1. Typing' /\ History' /\ Tested' /\ Copied'
        BY DEF IInv, Typing, TypeOK, History, Tested, Copied
    <2>2. Collected'
        BY DEF IInv, Collected, Collect
    <2>3. FreshWins'
        BY DEF IInv, FreshWins, Returned
    <2>4. Reported' = Reported /\ (Reported # {} => MeanPct(Reported)' = MeanPct(Reported))
        BY MeanKept DEF Reported
    <2>5. StaleGivesWay' /\ ChargeExplained'
        BY <2>4 DEF IInv, StaleGivesWay, ChargeExplained, Returned
    <2> QED
        BY <2>1, <2>2, <2>3, <2>5 DEF IInv
<1> QED
    BY <1>1, DeliverIInv, TickIInv, EnterIInv, TestIInv, ReadPackIInv, AverageIInv
    DEF Next, Getter

-----------------------------------------------------------------------------
(* Results.                                                                *)

\* The invariant holds in every reachable state.
THEOREM Invariance == Spec => []IInv
    BY InitIInv, NextIInv, PTL DEF Spec

\* The variables have their types: the sums fit, and the charge stays within
\* its 8 bits.
THEOREM TypeCorrect == Spec => []TypeOK
<1>1. IInv => TypeOK
    BY DEF IInv, Typing
<1> QED
    BY <1>1, Invariance, PTL

\* A whole-battery sample that is still fresh is the answer, whatever the packs
\* send and wherever in the getter the clock moves.
THEOREM FreshAlwaysWins == Spec => []FreshWins
<1>1. IInv => FreshWins
    BY DEF IInv
<1> QED
    BY <1>1, Invariance, PTL

\* A whole-battery sample that was stale at the call gives way to the packs.
THEOREM StaleAlwaysGivesWay == Spec => []StaleGivesWay
<1>1. IInv => StaleGivesWay
    BY DEF IInv
<1> QED
    BY <1>1, Invariance, PTL

\* The charge is never a mixture: it is the whole battery's, or the packs' mean.
THEOREM ChargeAlwaysExplained == Spec => []ChargeExplained
<1>1. IInv => ChargeExplained
    BY DEF IInv
<1> QED
    BY <1>1, Invariance, PTL

=============================================================================
