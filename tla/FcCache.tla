------------------------------- MODULE FcCache -------------------------------
(***************************************************************************)
(* The subscription cache of drone_ctrl.c: one static structure per topic, *)
(* written by the SDK's callback (cb_pos, cb_vel, ...: a memcpy, then      *)
(* mark_topic_rx) and read by the main thread's drone_get_* functions,     *)
(* with no lock, barrier or atomic between them.                           *)
(*                                                                         *)
(* A structure is a set of words, and a word holds the number of the       *)
(* sample it came from (0: never written). memcpy stores the words one at  *)
(* a time in an unspecified order, and a getter loads each word it needs   *)
(* once. Data and time stamp are plain variables, and the aarch64 board    *)
(* keeps no order between them: the stamp may become visible before the    *)
(* data it is for, and a getter's loads of the data may be made before its *)
(* test of the stamp.                                                      *)
(***************************************************************************)
EXTENDS Naturals, FiniteSets

CONSTANTS Topics,    \* subscribed topics
          Words,     \* words of a topic's structure
          Getters,   \* the sets of topics the drone_get_* functions read
          Guarded,   \* topics read only if last_update_ms was seen nonzero
          MaxSample  \* bound: samples delivered per topic

ASSUME TopicsAssumption == Guarded \subseteq Topics /\ Getters \subseteq SUBSET Topics

VARIABLES cell,      \* cell[t][w]: the sample word w of topic t comes from
          latest,    \* latest[t]: the last sample whose callback has started
          filling,   \* filling[t]: words that callback has still to store
          stamp,     \* stamp[t]: sample of the last last_update_ms store
          todo,      \* loads <<t, w>> the getter under way has still to make
          checked,   \* Guarded topics whose stamp the getter has loaded
          guard,     \* guard[t]: the stamp it saw
          out,       \* out[t][w]: what the getter last loaded
          asked,     \* history: topics of the current or last call
          floor,     \* history: newest complete sample when the call began
          prev       \* history: out as the previous call returned it

cache == <<cell, latest, filling, stamp>>
getter == <<todo, checked, guard, out, asked, floor, prev>>
vars == <<cache, getter>>

Init == /\ cell = [t \in Topics |-> [w \in Words |-> 0]]
        /\ latest = [t \in Topics |-> 0]
        /\ filling = [t \in Topics |-> {}]
        /\ stamp = [t \in Topics |-> 0]
        /\ todo = {}
        /\ checked = {}
        /\ guard = [t \in Topics |-> 0]
        /\ out = [t \in Topics |-> [w \in Words |-> 0]]
        /\ asked = {}
        /\ floor = [t \in Topics |-> 0]
        /\ prev = [t \in Topics |-> [w \in Words |-> 0]]

-----------------------------------------------------------------------------
(* The SDK thread: the callback of topic t.                                *)

\* The callback is entered with a sample of sufficient length. A shorter one
\* returns at once and changes nothing. The SDK makes a topic's callbacks one
\* after the other: the stores of the last one are visible.
Deliver(t) ==
    /\ filling[t] = {} /\ stamp[t] = latest[t]
    /\ latest[t] < MaxSample
    /\ latest' = [latest EXCEPT ![t] = @ + 1]
    /\ filling' = [filling EXCEPT ![t] = Words]
    /\ UNCHANGED <<cell, stamp, getter>>

\* Mutant: the callback clears the structure before it copies the sample.
StoreCleared(t, w) ==
    /\ w \in filling[t]
    /\ \/ /\ cell' = [cell EXCEPT ![t][w] = 0]
          /\ UNCHANGED filling
       \/ /\ cell' = [cell EXCEPT ![t][w] = latest[t]]
          /\ filling' = [filling EXCEPT ![t] = @ \ {w}]
    /\ UNCHANGED <<latest, stamp, getter>>

\* memcpy stores one word.
Store(t, w) ==
    /\ w \in filling[t]
    /\ cell' = [cell EXCEPT ![t][w] = latest[t]]
    /\ filling' = [filling EXCEPT ![t] = @ \ {w}]
    /\ UNCHANGED <<latest, stamp, getter>>

\* mark_topic_rx stores last_update_ms, which may be seen before the data.
Mark(t) ==
    /\ stamp[t] < latest[t]
    /\ stamp' = [stamp EXCEPT ![t] = latest[t]]
    /\ UNCHANGED <<cell, latest, filling, getter>>

-----------------------------------------------------------------------------
(* The main thread: a drone_get_* function reading the topics ts.          *)

\* The newest sample of t that is completely stored.
Complete(t) == IF filling[t] = {} THEN latest[t] ELSE latest[t] - 1

\* The current or last call has loaded all it needs and has returned.
Returned == todo = {} /\ Guarded \cap asked \subseteq checked

Call(ts) ==
    /\ Returned
    /\ todo' = ts \X Words
    /\ checked' = {}
    /\ asked' = ts
    /\ floor' = [t \in Topics |-> Complete(t)]
    /\ prev' = out
    /\ UNCHANGED <<cache, guard, out>>

\* Mutant: the stamp of a topic that is read unconditionally is tested too.
LoadStampAny(t) ==
    /\ t \in asked \ checked
    /\ checked' = checked \cup {t}
    /\ guard' = [guard EXCEPT ![t] = stamp[t]]
    /\ todo' = IF stamp[t] = 0 THEN todo \ ({t} \X Words) ELSE todo
    /\ UNCHANGED <<cache, out, asked, floor, prev>>

\* The test of last_update_ms of a guarded topic. When it is zero the topic's
\* words are not read, and those that were loaded ahead of it are not used.
LoadStamp(t) ==
    /\ t \in (Guarded \cap asked) \ checked
    /\ checked' = checked \cup {t}
    /\ guard' = [guard EXCEPT ![t] = stamp[t]]
    /\ todo' = IF stamp[t] = 0 THEN todo \ ({t} \X Words) ELSE todo
    /\ UNCHANGED <<cache, out, asked, floor, prev>>

\* Mutant: the getter keeps the word it read in an earlier call.
LoadKept(t, w) ==
    /\ <<t, w>> \in todo
    /\ todo' = todo \ {<<t, w>>}
    /\ UNCHANGED <<cache, checked, guard, out, asked, floor, prev>>

\* A word is loaded, before or after the topic's stamp.
Load(t, w) ==
    /\ <<t, w>> \in todo
    /\ out' = [out EXCEPT ![t][w] = cell[t][w]]
    /\ todo' = todo \ {<<t, w>>}
    /\ UNCHANGED <<cache, checked, guard, asked, floor, prev>>

Next == \/ \E t \in Topics : Deliver(t) \/ Mark(t) \/ LoadStamp(t)
        \/ \E t \in Topics, w \in Words : Store(t, w) \/ Load(t, w)
        \/ \E ts \in Getters : Call(ts)

Spec == Init /\ [][Next]_vars

-----------------------------------------------------------------------------
(* Properties.                                                             *)

Samples == [Topics -> [Words -> Nat]]

TypeOK == /\ cell \in Samples /\ out \in Samples /\ prev \in Samples
          /\ latest \in [Topics -> Nat] /\ stamp \in [Topics -> Nat]
          /\ floor \in [Topics -> Nat]
          /\ filling \in [Topics -> SUBSET Words]
          /\ todo \subseteq Topics \X Words
          /\ checked \subseteq Guarded /\ asked \subseteq Topics
          /\ guard \in [Topics -> Nat]

\* Word w of topic t was loaded by the current or last call.
Loaded(t, w) == /\ t \in asked /\ <<t, w>> \notin todo
                /\ t \in checked => guard[t] # 0

\* Without a lock a getter still returns, word by word, nothing older than the
\* newest sample that was complete when it was called and nothing newer than
\* the newest sample delivered.
RegularRead ==
    \A t \in Topics, w \in Words :
        Loaded(t, w) => floor[t] <= out[t][w] /\ out[t][w] <= latest[t]

\* A later answer never goes back behind an earlier one.
AnswersMoveForward ==
    \A t \in Topics, w \in Words : prev[t][w] <= out[t][w] /\ out[t][w] <= cell[t][w]

\* drone_ctrl.c: "On each get_* call, read the latest cached sample". An answer
\* is one sample: the words of a topic all come from the same delivery.
OneSample ==
    Returned => \A t \in Topics, v, w \in Words :
                    Loaded(t, v) /\ Loaded(t, w) => out[t][v] = out[t][w]

=============================================================================
