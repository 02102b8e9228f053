--------------------------- MODULE FcCacheProofs ---------------------------
(***************************************************************************)
(* Proofs about FcCache, for any topics, any structure size, any getters   *)
(* and any number of samples.                                              *)
(***************************************************************************)
EXTENDS FcCache, TLAPS

-----------------------------------------------------------------------------
(* The inductive invariant.                                                *)

\* A word holds the sample being delivered, or the one before it if the
\* callback has not come to it yet.
CellInv ==
    \A t \in Topics :
        /\ filling[t] # {} => latest[t] >= 1
        /\ \A w \in Words :
              cell[t][w] = IF w \in filling[t] THEN latest[t] - 1 ELSE latest[t]

\* What a getter holds is never ahead of the cache, nor behind what was
\* complete when it was called.
ReadInv ==
    \A t \in Topics, w \in Words :
        /\ prev[t][w] <= out[t][w] /\ out[t][w] <= cell[t][w]
        /\ floor[t] <= cell[t][w]
        /\ Loaded(t, w) => floor[t] <= out[t][w]

IInv == TypeOK /\ CellInv /\ ReadInv

\* A freshly started process is in the invariant.
LEMMA InitIInv == Init => IInv
BY TopicsAssumption
   DEF Init, IInv, TypeOK, Samples, CellInv, ReadInv, Loaded

\* The entries of the state functions are numbers.
LEMMA Entries ==
    ASSUME TypeOK, NEW t \in Topics
    PROVE  /\ latest[t] \in Nat /\ stamp[t] \in Nat /\ floor[t] \in Nat /\ guard[t] \in Nat
           /\ filling[t] \subseteq Words
           /\ \A w \in Words : cell[t][w] \in Nat /\ out[t][w] \in Nat /\ prev[t][w] \in Nat
BY DEF TypeOK, Samples

\* Each step of the callback and of the getter keeps the invariant.
LEMMA NextIInv == IInv /\ [Next]_vars => IInv'
<1> SUFFICES ASSUME IInv, [Next]_vars PROVE IInv'
    OBVIOUS
<1> USE TopicsAssumption DEF IInv, cache, getter
<1>1. ASSUME NEW t \in Topics, Deliver(t) PROVE IInv'
    <2>1. TypeOK'
        BY <1>1 DEF Deliver, TypeOK
    <2>2. CellInv'
        <3> SUFFICES ASSUME NEW s \in Topics
                     PROVE  /\ filling'[s] # {} => latest'[s] >= 1
                            /\ \A w \in Words :
                                  cell'[s][w] = IF w \in filling'[s] THEN latest'[s] - 1
                                                                     ELSE latest'[s]
            BY DEF CellInv
        <3>1. CASE s = t
            <4>1. /\ latest'[s] = latest[s] + 1 /\ filling'[s] = Words /\ filling[s] = {}
                  /\ cell' = cell
                BY <1>1, <3>1 DEF Deliver, TypeOK
            <4>2. latest[s] \in Nat /\ \A w \in Words : cell[s][w] = latest[s]
                BY <4>1, Entries DEF CellInv
            <4> QED
                BY <4>1, <4>2
        <3>2. CASE s # t
            <4>1. latest'[s] = latest[s] /\ filling'[s] = filling[s] /\ cell' = cell
                BY <1>1, <3>2 DEF Deliver, TypeOK
            <4> QED
                BY <4>1 DEF CellInv
        <3> QED
            BY <3>1, <3>2
    <2> QED
        BY <1>1, <2>1, <2>2 DEF Deliver, ReadInv, Loaded
<1>2. ASSUME NEW t \in Topics, NEW w \in Words, Store(t, w) PROVE IInv'
    <2>1. TypeOK'
        BY <1>2 DEF Store, TypeOK, Samples
    <2>2. CellInv'
        BY <1>2 DEF Store, TypeOK, Samples, CellInv
    <2>3. \A s \in Topics, v \in Words : cell[s][v] <= cell'[s][v]
        BY <1>2 DEF Store, TypeOK, Samples, CellInv
    <2>4. ReadInv'
        <3> SUFFICES ASSUME NEW s \in Topics, NEW v \in Words
                     PROVE  /\ prev[s][v] <= out[s][v] /\ out[s][v] <= cell'[s][v]
                            /\ floor[s] <= cell'[s][v]
                            /\ Loaded(s, v) => floor[s] <= out[s][v]
            BY <1>2 DEF Store, ReadInv, Loaded
        <3>1. cell'[s][v] \in Nat
            BY <2>1 DEF TypeOK, Samples
        <3> QED
            BY <2>3, <3>1, Entries DEF ReadInv
    <2> QED
        BY <2>1, <2>2, <2>4
<1>3. ASSUME NEW t \in Topics, Mark(t) PROVE IInv'
    <2>1. TypeOK' /\ CellInv'
        BY <1>3 DEF Mark, TypeOK, CellInv
    <2> QED
        BY <1>3, <2>1 DEF Mark, ReadInv, Loaded
<1>4. ASSUME NEW ts \in Getters, Call(ts) PROVE IInv'
    <2>1. TypeOK'
        BY <1>4 DEF Call, TypeOK, Complete, CellInv, Samples
    <2>2. ReadInv'
        <3> SUFFICES ASSUME NEW s \in Topics, NEW v \in Words
                     PROVE  /\ out[s][v] <= out[s][v] /\ out[s][v] <= cell[s][v]
                            /\ Complete(s) <= cell[s][v]
                            /\ ~Loaded(s, v)'
            BY <1>4 DEF Call, ReadInv
        <3>1. Complete(s) <= cell[s][v]
            BY Entries DEF CellInv, Complete
        <3>2. ~Loaded(s, v)'
            BY <1>4 DEF Call, Loaded
        <3> QED
            BY <3>1, <3>2, Entries DEF ReadInv
    <2> QED
        BY <1>4, <2>1, <2>2 DEF Call, CellInv
<1>5. ASSUME NEW t \in Topics, LoadStamp(t) PROVE IInv'
    <2>1. TypeOK'
        BY <1>5 DEF LoadStamp, TypeOK
    <2>2. ReadInv'
        BY <1>5 DEF LoadStamp, TypeOK, ReadInv, Loaded
    <2> QED
        BY <1>5, <2>1, <2>2 DEF LoadStamp, CellInv
<1>6. ASSUME NEW t \in Topics, NEW w \in Words, Load(t, w) PROVE IInv'
    <2>1. TypeOK'
        BY <1>6 DEF Load, TypeOK, Samples
    <2>2. /\ out'[t][w] = cell[t][w]
          /\ \A s \in Topics, v \in Words : <<s, v>> # <<t, w>> => out'[s][v] = out[s][v]
        BY <1>6 DEF Load, TypeOK, Samples
    <2>3. /\ todo' = todo \ {<<t, w>>} /\ cell' = cell /\ prev' = prev /\ floor' = floor
          /\ asked' = asked /\ checked' = checked /\ guard' = guard
        BY <1>6 DEF Load
    <2>4. ReadInv'
        <3> SUFFICES ASSUME NEW s \in Topics, NEW v \in Words
                     PROVE  /\ prev[s][v] <= out'[s][v] /\ out'[s][v] <= cell[s][v]
                            /\ floor[s] <= cell[s][v]
                            /\ Loaded(s, v)' => floor[s] <= out'[s][v]
            BY <2>3 DEF ReadInv
        <3>1. CASE <<s, v>> = <<t, w>>
            BY <2>2, <3>1, Entries DEF ReadInv
        <3>2. CASE <<s, v>> # <<t, w>>
            BY <2>2, <2>3, <3>2 DEF ReadInv, Loaded
        <3> QED
            BY <3>1, <3>2
    <2> QED
        BY <1>6, <2>1, <2>4 DEF Load, CellInv
<1>7. CASE UNCHANGED vars
    BY <1>7 DEF vars, TypeOK, Samples, CellInv, ReadInv, Loaded
<1> QED
    BY <1>1, <1>2, <1>3, <1>4, <1>5, <1>6, <1>7 DEF Next

-----------------------------------------------------------------------------
(* The theorems.                                                           *)

\* The parts of the invariant hold in every reachable state.
THEOREM Invariance == Spec => []IInv
BY InitIInv, NextIInv, PTL DEF Spec

\* Type correctness: no word, stamp or answer leaves the samples delivered.
THEOREM TypeCorrect == Spec => []TypeOK
<1>1. IInv => TypeOK
    BY DEF IInv
<1> QED
    BY <1>1, Invariance, PTL

\* Every word a getter returns lies between the newest complete sample at the
\* call and the newest delivered one, whatever the memory order.
THEOREM Regular == Spec => []RegularRead
<1>1. IInv => RegularRead
    BY DEF IInv, TypeOK, Samples, CellInv, ReadInv, RegularRead
<1> QED
    BY <1>1, Invariance, PTL

\* Successive answers never go back in time, whatever the memory order.
THEOREM Forward == Spec => []AnswersMoveForward
<1>1. IInv => AnswersMoveForward
    BY DEF IInv, ReadInv, AnswersMoveForward
<1> QED
    BY <1>1, Invariance, PTL

=============================================================================
