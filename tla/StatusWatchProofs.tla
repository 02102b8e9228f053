-------------------------- MODULE StatusWatchProofs --------------------------
(***************************************************************************)
(* Proofs about StatusWatch, for any ports, any operators' commands and    *)
(* any bound on their number, and about uptime_ms of StubCtrl, for every   *)
(* pair of clock readings.                                                 *)
(***************************************************************************)
EXTENDS StatusWatch, SequenceTheorems, TLAPS

-----------------------------------------------------------------------------
(* The inductive invariant.                                                *)

\* What the stub's queries answer, and the datagrams the answers come in.
Results == {Pong, Null, drone_get_telemetry, drone_get_battery_info, drone_get_rtk_status}
               \cup DroneGimbalAngle \cup DroneCameraState
Replies == [id : 1..Len(reqs), result : Results]
Accepted == {r \in Requests : r.method = "drone.set_camera_mode" => r.arg \in Nat}

Typing == /\ watch \in {"sleep", "fetch", "render", "diag"}
          /\ session \in Ports \cup {NoPort}
          /\ session # NoPort => watch = "fetch" /\ sock[session] # "closed"
          /\ payload \in Seq(Replies) /\ Len(payload) <= 6
          /\ sock \in [Ports -> {"closed", "send", "recv", "done"}]
          /\ results \in [Ports -> Seq(Replies)]
          /\ rcv \in [Ports -> Seq(Replies)]
          /\ inbox \in Seq(Accepted)
          /\ stub \in Stubs
          /\ since \in [Ports -> SUBSET Stubs]

\* A client's answers so far, each under its own request, and how many there
\* can be in each of its states.
Answered ==
    \A p \in Ports :
        /\ Len(results[p]) <= 6
        /\ sock[p] \in {"send", "recv"} => Len(results[p]) < 6
        /\ sock[p] = "closed" => results[p] = <<>>
        /\ \A i \in 1..Len(results[p]) : results[p][i].id = i

\* A client has at most one request outstanding: it waits in psdkd's buffer, it
\* is answered in the client's, or it is lost. A client that has yet to send
\* has none at all.
Buffered == \A p \in Ports : /\ Len(rcv[p]) <= 1
                             /\ sock[p] \in {"closed", "send"} => rcv[p] = <<>>

Outstanding ==
    /\ Buffered
    /\ \A i \in 1..Len(inbox) : inbox[i].peer \in Ports =>
           /\ sock[inbox[i].peer] # "send" /\ rcv[inbox[i].peer] = <<>>
           /\ sock[inbox[i].peer] = "recv" =>
                  /\ inbox[i].id = Current(inbox[i].peer)
                  /\ inbox[i].method = reqs[Current(inbox[i].peer)]
    /\ \A i, j \in 1..Len(inbox) :
           inbox[i].peer \in Ports /\ inbox[i].peer = inbox[j].peer => i = j

\* What a waiting client will take for its answer is its answer.
Own == \A p \in Ports : sock[p] = "recv" =>
           /\ stub \in since[p]
           /\ \A i \in 1..Len(rcv[p]) : AnswerTo(rcv[p][i], Current(p), since[p])

Printed == \A i \in 1..Len(payload) : payload[i].id = i

IInv == Typing /\ Answered /\ Outstanding /\ Own /\ Printed

-----------------------------------------------------------------------------
(* The operators.                                                          *)

\* There are six requests.
LEMMA Six == Len(reqs) = 6
    BY DEF reqs

\* Every query of a stub is answered within the types of drone_types.h.
LEMMA AnswerType ==
    ASSUME NEW s \in Stubs, NEW m
    PROVE  Answer(s, m) \in Results
<1>1. s.gimbal_p \in Int /\ s.cam_mode \in Nat /\ s.recording \in BOOLEAN /\ s.zoom \in Int
    BY DEF Stubs
<1>2. drone_get_gimbal_angle(s) \in DroneGimbalAngle
    BY <1>1 DEF drone_get_gimbal_angle, DroneGimbalAngle
<1>3. drone_get_camera_state(s) \in DroneCameraState
    BY <1>1, Zenon DEF drone_get_camera_state, DroneCameraState
<1> QED
    BY <1>2, <1>3 DEF Answer, Results

\* Every accepted request leaves a stub of the right types.
LEMMA EffectType ==
    ASSUME NEW s \in Stubs, NEW r \in Accepted
    PROVE  Effect(s, r.method, r.arg) \in Stubs
<1> DEFINE m == r.method
           a == r.arg
<1>1. a \in Int /\ (m = "drone.set_camera_mode" => a \in Nat)
    BY DEF Accepted, Requests
<1> HIDE DEF m, a
<1>2. Effect(s, m, a) \in Stubs
    <2>1. [s EXCEPT !.rth_alt = a] \in Stubs
        BY <1>1 DEF Stubs
    <2>2. [s EXCEPT !.gimbal_p = a] \in Stubs
        BY <1>1 DEF Stubs
    <2>3. a \in Nat => [s EXCEPT !.cam_mode = a] \in Stubs
        BY DEF Stubs
    <2>4. [s EXCEPT !.zoom = a] \in Stubs
        BY <1>1 DEF Stubs
    <2>5. \A b \in BOOLEAN : [s EXCEPT !.recording = b] \in Stubs
        BY Zenon DEF Stubs
    <2>6. drone_set_gimbal_angle(s, [pitch |-> a, roll |-> 0, yaw |-> 0]) \in Stubs
        BY <2>2 DEF drone_set_gimbal_angle
    <2>7. drone_start_recording(s) \in Stubs /\ drone_stop_recording(s) \in Stubs
        BY <2>5, Zenon DEF drone_start_recording, drone_stop_recording
    <2>8. /\ drone_set_rth_altitude(s, a) \in Stubs /\ drone_set_camera_zoom(s, a) \in Stubs
          /\ m = "drone.set_camera_mode" => drone_set_camera_mode(s, a) \in Stubs
          /\ Forgotten(s) \in Stubs
        BY <1>1, <2>1, <2>3, <2>4
        DEF drone_set_rth_altitude, drone_set_camera_zoom, drone_set_camera_mode, Forgotten
    <2> QED
        BY <2>6, <2>7, <2>8 DEF Effect
<1> QED
    BY <1>2 DEF m, a

-----------------------------------------------------------------------------
(* The steps.                                                              *)

\* Before the first fetch.
LEMMA InitIInv == Init => IInv
<1> SUFFICES ASSUME Init PROVE IInv
    OBVIOUS
<1>1. Typing
    BY MockTypes, EmptySeq DEF Init, Typing
<1>2. Answered /\ Outstanding /\ Own /\ Printed
    BY DEF Init, Answered, Outstanding, Buffered, Own, Printed
<1> QED
    BY <1>1, <1>2 DEF IInv

\* The loop's own steps, which leave clients and psdkd alone.
LEMMA LoopIInv ==
    ASSUME IInv, StartFetch \/ SshFails \/ Render \/ Diag \/ UNCHANGED vars
    PROVE  IInv'
<1> USE DEF loop, clients, daemon
<1>1. UNCHANGED <<clients, daemon, since>> /\ payload' \in {payload, <<>>}
    BY DEF StartFetch, SshFails, Render, Diag, vars
<1>2. /\ watch' \in {"sleep", "fetch", "render", "diag"}
      /\ session' \in Ports \cup {NoPort}
      /\ session' # NoPort => watch' = "fetch" /\ sock[session'] # "closed"
    BY DEF IInv, Typing, StartFetch, SshFails, Render, Diag, vars
<1>3. Typing'
    <2>1. payload' \in Seq(Replies) /\ Len(payload') <= 6
        <3>1. <<>> \in Seq(Replies) /\ Len(<<>>) = 0
            BY EmptySeq
        <3>2. CASE payload' = payload
            BY <3>2 DEF IInv, Typing
        <3>3. CASE payload' = <<>>
            BY <3>1, <3>3
        <3> QED
            BY <1>1, <3>2, <3>3
    <2> QED
        BY <1>1, <1>2, <2>1 DEF IInv, Typing
<1>4. Answered' /\ Outstanding' /\ Own'
    BY <1>1 DEF IInv, Answered, Outstanding, Buffered, Own, AnswerTo, Current
<1>5. Printed'
    BY <1>1 DEF IInv, Printed
<1> QED
    BY <1>3, <1>4, <1>5 DEF IInv

\* A client starts on a port that nothing of its last use is left of.
LEMMA ConnectIInv ==
    ASSUME IInv, NEW p \in Ports, SshConnects(p)
    PROVE  IInv'
<1> USE DEF daemon
<1>1. /\ watch = "fetch" /\ sock[p] = "closed" /\ session' = p
      /\ sock' = [sock EXCEPT ![p] = "send"]
      /\ \A i \in 1..Len(inbox) : inbox[i].peer # p
      /\ UNCHANGED <<watch, payload, results, rcv, daemon, since>>
    BY DEF SshConnects
<1>2. sock \in [Ports -> {"closed", "send", "recv", "done"}]
    BY DEF IInv, Typing
<1>3. Typing'
    BY <1>1, <1>2 DEF IInv, Typing
<1>4. Answered' /\ Own'
    BY <1>1, <1>2 DEF IInv, Answered, Own, AnswerTo, Current
<1>5. Outstanding'
    BY <1>1, <1>2 DEF IInv, Outstanding, Buffered, Current
<1>6. Printed'
    BY <1>1 DEF IInv, Printed
<1> QED
    BY <1>3, <1>4, <1>5, <1>6 DEF IInv

\* A request is sent, or lost.
LEMMA SendIInv ==
    ASSUME IInv, NEW p \in Ports, Send(p)
    PROVE  IInv'
<1> USE DEF loop
<1> DEFINE r == [peer |-> p, id |-> Current(p), method |-> reqs[Current(p)], arg |-> 0]
<1>1. /\ sock[p] = "send" /\ sock' = [sock EXCEPT ![p] = "recv"]
      /\ since' = [since EXCEPT ![p] = {stub}]
      /\ inbox' = Append(inbox, r) \/ inbox' = inbox
      /\ UNCHANGED <<loop, results, rcv, stub>>
    BY DEF Send
<1>2. /\ sock \in [Ports -> {"closed", "send", "recv", "done"}] /\ stub \in Stubs
      /\ since \in [Ports -> SUBSET Stubs] /\ inbox \in Seq(Accepted)
      /\ results \in [Ports -> Seq(Replies)]
    BY DEF IInv, Typing
<1>3. Current(p) \in 1..6
    <2>1. results[p] \in Seq(Replies) /\ Len(results[p]) < 6
        BY <1>1, <1>2 DEF IInv, Answered
    <2> QED
        BY <2>1, LenProperties DEF Current
<1>4. r \in Accepted
    BY <1>3, Six DEF Accepted, Requests, Asked
<1>5. r.peer = p /\ r.id = Current(p) /\ r.method = reqs[Current(p)]
    OBVIOUS
<1> HIDE DEF r
<1>6. Typing'
    <2>1. inbox' \in Seq(Accepted)
        <3>1. Append(inbox, r) \in Seq(Accepted)
            BY <1>2, <1>4, AppendProperties, Zenon
        <3> QED
            BY <1>1, <1>2, <3>1, Zenon
    <2>2. /\ sock' \in [Ports -> {"closed", "send", "recv", "done"}]
          /\ since' \in [Ports -> SUBSET Stubs]
          /\ session' # NoPort => sock'[session'] # "closed"
        BY <1>1, <1>2 DEF IInv, Typing
    <2> QED
        BY <1>1, <2>1, <2>2 DEF IInv, Typing
<1>7. Answered'
    BY <1>1, <1>2 DEF IInv, Answered
<1>8. \A q \in Ports : Current(q)' = Current(q)
    BY <1>1 DEF Current
<1>9. rcv[p] = <<>> /\ \A i \in 1..Len(inbox) : inbox[i].peer # p
    <2>1. rcv[p] = <<>>
        <3>1. Buffered
            BY DEF IInv, Outstanding
        <3> QED
            BY <1>1, <3>1 DEF Buffered
    <2>2. \A i \in 1..Len(inbox) : inbox[i].peer # p
        BY <1>1 DEF IInv, Outstanding
    <2> QED
        BY <2>1, <2>2
<1>10. Outstanding'
    <2>1. Buffered'
        <3>1. \A q \in Ports : sock'[q] \in {"closed", "send"} => sock[q] \in {"closed", "send"}
            BY <1>1, <1>2
        <3>2. rcv' = rcv
            BY <1>1
        <3>3. Buffered
            BY DEF IInv, Outstanding
        <3> QED
            BY <3>1, <3>2, <3>3, Zenon DEF Buffered
    <2>2. \A i \in 1..Len(inbox) : inbox[i].peer \in Ports =>
              /\ sock'[inbox[i].peer] # "send" /\ rcv'[inbox[i].peer] = <<>>
              /\ sock'[inbox[i].peer] = "recv" =>
                     /\ inbox[i].id = Current(inbox[i].peer)
                     /\ inbox[i].method = reqs[Current(inbox[i].peer)]
        BY <1>1, <1>2, <1>9 DEF IInv, Outstanding, Buffered
    <2>3. CASE inbox' = inbox
        BY <1>8, <2>1, <2>2, <2>3 DEF IInv, Outstanding, Buffered
    <2>4. CASE inbox' = Append(inbox, r)
        <3>1. /\ Len(inbox) \in Nat /\ Len(inbox') = Len(inbox) + 1
              /\ \A i \in 1..Len(inbox) : inbox'[i] = inbox[i]
              /\ inbox'[Len(inbox) + 1] = r
            BY <1>2, <1>4, <2>4, AppendProperties, LenProperties
        <3>2. \A i \in 1..Len(inbox') : i \in 1..Len(inbox) \/ i = Len(inbox) + 1
            BY <3>1
        <3>3. \A i \in 1..Len(inbox') : inbox'[i].peer \in Ports =>
                  /\ sock'[inbox'[i].peer] # "send" /\ rcv'[inbox'[i].peer] = <<>>
                  /\ sock'[inbox'[i].peer] = "recv" =>
                         /\ inbox'[i].id = Current(inbox'[i].peer)
                         /\ inbox'[i].method = reqs[Current(inbox'[i].peer)]
            BY <1>1, <1>2, <1>5, <1>9, <2>2, <3>1, <3>2
        <3>4. \A i, j \in 1..Len(inbox') :
                  inbox'[i].peer \in Ports /\ inbox'[i].peer = inbox'[j].peer => i = j
            BY <1>5, <1>9, <3>1, <3>2 DEF IInv, Outstanding, Buffered
        <3> QED
            BY <1>8, <2>1, <3>3, <3>4 DEF Outstanding
    <2> QED
        BY <1>1, <2>3, <2>4
<1>11. Own'
    <2>1. ASSUME NEW q \in Ports, sock'[q] = "recv"
          PROVE  stub' \in since'[q]
                 /\ \A i \in 1..Len(rcv'[q]) : AnswerTo(rcv'[q][i], Current(q), since'[q])
        <3>1. CASE q = p
            BY <1>1, <1>2, <1>9, <3>1
        <3>2. CASE q # p
            BY <1>1, <1>2, <2>1, <3>2 DEF IInv, Own
        <3> QED
            BY <3>1, <3>2
    <2> QED
        BY <1>8, <2>1 DEF Own, AnswerTo
<1>12. Printed'
    BY <1>1 DEF IInv, Printed
<1> QED
    BY <1>6, <1>7, <1>10, <1>11, <1>12 DEF IInv

\* An answer is taken.
LEMMA RecvIInv ==
    ASSUME IInv, NEW p \in Ports, Recv(p)
    PROVE  IInv'
<1> USE DEF loop, daemon
<1> DEFINE n == Len(results[p])
           reply == Head(rcv[p])
<1>1. /\ sock[p] = "recv" /\ rcv[p] # <<>>
      /\ results' = [results EXCEPT ![p] = Append(results[p], reply)]
      /\ rcv' = [rcv EXCEPT ![p] = Tail(rcv[p])]
      /\ sock' = [sock EXCEPT ![p] = IF Current(p) = 6 THEN "done" ELSE "send"]
      /\ since' = [since EXCEPT ![p] = {}]
      /\ UNCHANGED <<loop, daemon>>
    BY Six DEF Recv
<1>2. /\ sock \in [Ports -> {"closed", "send", "recv", "done"}]
      /\ results \in [Ports -> Seq(Replies)] /\ rcv \in [Ports -> Seq(Replies)]
      /\ since \in [Ports -> SUBSET Stubs]
    BY DEF IInv, Typing
<1>3. /\ n \in Nat /\ n < 6 /\ Current(p) = n + 1
      /\ \A i \in 1..n : results[p][i].id = i
    <2>1. results[p] \in Seq(Replies) /\ n < 6
        BY <1>1, <1>2 DEF IInv, Answered
    <2> QED
        BY <2>1, LenProperties DEF Current, IInv, Answered
<1>4. Len(rcv[p]) = 1 /\ reply = rcv[p][1] /\ reply \in Replies /\ Tail(rcv[p]) = <<>>
    <2>1. rcv[p] \in Seq(Replies)
        BY <1>2
    <2>2. Len(rcv[p]) <= 1
        <3>1. Buffered
            BY DEF IInv, Outstanding
        <3> QED
            BY <3>1, Zenon DEF Buffered
    <2>3. Len(rcv[p]) \in Nat \ {0}
        BY <1>1, <2>1, EmptySeq, Zenon
    <2>4. reply \in Replies /\ Tail(rcv[p]) \in Seq(Replies) /\ Len(Tail(rcv[p])) = Len(rcv[p]) - 1
        BY <1>1, <2>1, HeadTailProperties, Zenon
    <2>5. reply = rcv[p][1]
        BY <1>1, <2>1
    <2>6. Tail(rcv[p]) # <<>> => Len(Tail(rcv[p])) \in Nat \ {0}
        BY <2>4, EmptySeq, Zenon
    <2>7. Len(rcv[p]) = 1
        <3> DEFINE l == Len(rcv[p])
        <3>1. l \in Nat \ {0} /\ l <= 1
            BY <2>2, <2>3, Zenon
        <3> HIDE DEF l
        <3>2. l = 1
            BY <3>1
        <3> QED
            BY <3>2, Zenon DEF l
    <2> QED
        BY <2>4, <2>5, <2>6, <2>7
<1>5. reply.id = n + 1
    BY <1>1, <1>3, <1>4 DEF IInv, Own, AnswerTo
<1>6. /\ Append(results[p], reply) \in Seq(Replies)
      /\ Len(Append(results[p], reply)) = n + 1
      /\ \A i \in 1..n : Append(results[p], reply)[i] = results[p][i]
      /\ Append(results[p], reply)[n + 1] = reply
    BY <1>2, <1>4, AppendProperties
<1> DEFINE more == Append(results[p], reply)
<1>7. \A i \in 1..(n + 1) : more[i].id = i
    <2>1. \A i \in 1..(n + 1) : i \in 1..n \/ i = n + 1
        BY <1>3
    <2> QED
        BY <1>3, <1>5, <1>6, <2>1
<1> HIDE DEF n, reply, more
<1>8. /\ results' = [results EXCEPT ![p] = more] /\ rcv' = [rcv EXCEPT ![p] = <<>>]
      /\ more \in Seq(Replies) /\ Len(more) = n + 1
    BY <1>1, <1>4, <1>6 DEF more
<1>9. sock'[p] = (IF n = 5 THEN "done" ELSE "send") /\ \A q \in Ports \ {p} : sock'[q] = sock[q]
    BY <1>1, <1>2, <1>3
<1>10. Typing'
    <2>1. /\ sock' \in [Ports -> {"closed", "send", "recv", "done"}]
          /\ results' \in [Ports -> Seq(Replies)]
          /\ since' \in [Ports -> SUBSET Stubs]
        BY <1>1, <1>2, <1>8
    <2>2. rcv' \in [Ports -> Seq(Replies)]
        BY <1>2, <1>8, EmptySeq
    <2>3. session' # NoPort => sock'[session'] # "closed"
        BY <1>1, <1>9 DEF IInv, Typing
    <2> QED
        BY <1>1, <2>1, <2>2, <2>3 DEF IInv, Typing
<1>11. Answered'
    <2>1. ASSUME NEW q \in Ports
          PROVE  /\ Len(results'[q]) <= 6
                 /\ sock'[q] \in {"send", "recv"} => Len(results'[q]) < 6
                 /\ sock'[q] = "closed" => results'[q] = <<>>
                 /\ \A i \in 1..Len(results'[q]) : results'[q][i].id = i
        <3>1. CASE q = p
            BY <1>2, <1>3, <1>7, <1>8, <1>9, <3>1
        <3>2. CASE q # p
            BY <1>2, <1>8, <1>9, <3>2 DEF IInv, Answered
        <3> QED
            BY <3>1, <3>2
    <2> QED
        BY <2>1 DEF Answered
<1>12. \A i \in 1..Len(inbox) : inbox[i].peer # p
    BY <1>1 DEF IInv, Outstanding, Buffered
<1>13. \A q \in Ports \ {p} : Current(q)' = Current(q) /\ rcv'[q] = rcv[q] /\ since'[q] = since[q]
    BY <1>1, <1>2, <1>8 DEF Current
<1>14. Outstanding'
    <2>1. Len(rcv'[p]) <= 1 /\ rcv'[p] = <<>>
        BY <1>2, <1>8
    <2> QED
        BY <1>1, <1>9, <1>12, <1>13, <2>1 DEF IInv, Outstanding, Buffered
<1>15. Own'
    BY <1>1, <1>9, <1>13 DEF IInv, Own, AnswerTo
<1>16. Printed'
    BY <1>1 DEF IInv, Printed
<1> QED
    BY <1>10, <1>11, <1>14, <1>15, <1>16 DEF IInv

\* A client gives up waiting; its answer may still come.
LEMMA TimeoutIInv ==
    ASSUME IInv, NEW p \in Ports, Timeout(p)
    PROVE  IInv'
<1> USE DEF loop, daemon
<1>1. /\ sock[p] = "recv" /\ sock' = [sock EXCEPT ![p] = "done"]
      /\ UNCHANGED <<loop, results, rcv, daemon, since>>
    BY DEF Timeout
<1>2. sock \in [Ports -> {"closed", "send", "recv", "done"}]
    BY DEF IInv, Typing
<1>3. Typing'
    BY <1>1, <1>2 DEF IInv, Typing
<1>4. Answered' /\ Own'
    BY <1>1, <1>2 DEF IInv, Answered, Own, AnswerTo, Current
<1>5. Outstanding'
    BY <1>1, <1>2 DEF IInv, Outstanding, Buffered, Current
<1>6. Printed'
    BY <1>1 DEF IInv, Printed
<1> QED
    BY <1>3, <1>4, <1>5, <1>6 DEF IInv

\* A client ends, heard or not.
LEMMA FinishIInv ==
    ASSUME IInv, NEW p \in Ports, Finish(p)
    PROVE  IInv'
<1> USE DEF daemon
<1>1. /\ sock[p] = "done" /\ sock' = [sock EXCEPT ![p] = "closed"]
      /\ results' = [results EXCEPT ![p] = <<>>] /\ rcv' = [rcv EXCEPT ![p] = <<>>]
      /\ since' = [since EXCEPT ![p] = {}]
      /\ UNCHANGED daemon
      /\ \/ session = p /\ watch' = "render" /\ session' = NoPort /\ payload' = results[p]
         \/ session # p /\ UNCHANGED <<watch, session, payload>>
    BY DEF Finish
<1>2. /\ sock \in [Ports -> {"closed", "send", "recv", "done"}]
      /\ results \in [Ports -> Seq(Replies)] /\ rcv \in [Ports -> Seq(Replies)]
      /\ since \in [Ports -> SUBSET Stubs] /\ <<>> \in Seq(Replies)
    BY EmptySeq DEF IInv, Typing
<1>3. Typing'
    <2>1. /\ sock' \in [Ports -> {"closed", "send", "recv", "done"}]
          /\ results' \in [Ports -> Seq(Replies)] /\ rcv' \in [Ports -> Seq(Replies)]
          /\ since' \in [Ports -> SUBSET Stubs]
        BY <1>1, <1>2
    <2>2. payload' \in Seq(Replies) /\ Len(payload') <= 6
        BY <1>1, <1>2 DEF IInv, Typing, Answered
    <2>3. /\ watch' \in {"sleep", "fetch", "render", "diag"} /\ session' \in Ports \cup {NoPort}
          /\ session' # NoPort => watch' = "fetch" /\ sock'[session'] # "closed"
        BY <1>1, <1>2 DEF IInv, Typing
    <2> QED
        BY <1>1, <2>1, <2>2, <2>3 DEF IInv, Typing
<1>4. \A q \in Ports \ {p} : /\ sock'[q] = sock[q] /\ results'[q] = results[q]
                             /\ rcv'[q] = rcv[q] /\ since'[q] = since[q]
    BY <1>1, <1>2
<1>5. sock'[p] = "closed" /\ results'[p] = <<>> /\ rcv'[p] = <<>>
    BY <1>1, <1>2
<1>6. Answered'
    BY <1>4, <1>5 DEF IInv, Answered
<1>7. \A q \in Ports \ {p} : Current(q)' = Current(q)
    BY <1>4 DEF Current
<1>8. Outstanding'
    BY <1>1, <1>4, <1>5, <1>7 DEF IInv, Outstanding, Buffered
<1>9. Own'
    BY <1>1, <1>4, <1>5, <1>7 DEF IInv, Own, AnswerTo
<1>10. Printed'
    BY <1>1 DEF IInv, Printed, Answered
<1> QED
    BY <1>3, <1>6, <1>8, <1>9, <1>10 DEF IInv

\* What was true among some stubs was true among more.
LEMMA AnswerGrows ==
    ASSUME NEW reply, NEW n, NEW S, NEW T, S \subseteq T, AnswerTo(reply, n, S)
    PROVE  AnswerTo(reply, n, T)
    BY DEF AnswerTo

\* The clients learn of another stub.
LEMMA SeenBy ==
    ASSUME IInv, NEW s \in Stubs, Seen(s)
    PROVE  /\ since' \in [Ports -> SUBSET Stubs]
           /\ \A p \in Ports : since[p] \subseteq since'[p]
           /\ \A p \in Ports : sock[p] = "recv" => s \in since'[p]
<1>1. since' = [p \in Ports |-> IF sock[p] = "recv" THEN since[p] \cup {s} ELSE since[p]]
    BY DEF Seen
<1>2. since \in [Ports -> SUBSET Stubs]
    BY DEF IInv, Typing
<1> QED
    BY <1>1, <1>2

\* psdkd answers a request, and the answer arrives or is lost.
LEMMA ServeIInv ==
    ASSUME IInv, Serve
    PROVE  IInv'
<1> USE DEF loop
<1> DEFINE r == Head(inbox)
           reply == [id |-> r.id, result |-> Answer(stub, r.method)]
           s == Effect(stub, r.method, r.arg)
<1>1. /\ inbox # <<>> /\ inbox' = Tail(inbox) /\ stub' = s /\ Seen(s)
      /\ \/ /\ r.peer \in Ports /\ sock[r.peer] # "closed"
            /\ rcv' = [rcv EXCEPT ![r.peer] = Append(rcv[r.peer], reply)]
         \/ UNCHANGED rcv
      /\ UNCHANGED <<loop, sock, results>>
    BY DEF Serve
<1>2. /\ inbox \in Seq(Accepted) /\ stub \in Stubs /\ rcv \in [Ports -> Seq(Replies)]
      /\ sock \in [Ports -> {"closed", "send", "recv", "done"}]
    BY DEF IInv, Typing
<1>3. /\ r \in Accepted /\ inbox' \in Seq(Accepted)
      /\ Len(inbox) \in Nat \ {0} /\ Len(inbox') = Len(inbox) - 1
      /\ \A i \in 1..Len(inbox') : inbox'[i] = inbox[i + 1]
    <2>1. Len(inbox) \in Nat \ {0}
        BY <1>1, <1>2, EmptySeq, Zenon
    <2> QED
        BY <1>1, <1>2, <2>1, HeadTailProperties, Zenon
<1>4. r = inbox[1]
    BY <1>1, <1>2
<1>5. s \in Stubs
    BY <1>2, <1>3, EffectType
<1>6. reply \in Replies
    <2>1. r.id \in 1..Len(reqs)
        BY <1>3 DEF Accepted, Requests
    <2>2. Answer(stub, r.method) \in Results
        BY <1>2, AnswerType
    <2> QED
        BY <2>1, <2>2 DEF Replies
<1>7. reply.id = r.id /\ reply.result = Answer(stub, r.method)
    OBVIOUS
<1> HIDE DEF r, reply, s
<1>8. /\ since' \in [Ports -> SUBSET Stubs]
      /\ \A p \in Ports : since[p] \subseteq since'[p]
      /\ \A p \in Ports : sock[p] = "recv" => s \in since'[p]
    BY <1>1, <1>5, SeenBy, Zenon
<1>9. ASSUME r.peer \in Ports
      PROVE  /\ sock[r.peer] # "send" /\ rcv[r.peer] = <<>>
             /\ sock[r.peer] = "recv" => r.id = Current(r.peer) /\ r.method = reqs[Current(r.peer)]
             /\ \A i \in 1..Len(inbox') : inbox'[i].peer # r.peer
    <2>1. 1 \in 1..Len(inbox)
        BY <1>3
    <2>2. \A i \in 1..Len(inbox') : i + 1 \in 1..Len(inbox) /\ i + 1 # 1
        BY <1>3
    <2>3. \A i \in 1..Len(inbox') : inbox'[i].peer # r.peer
        BY <1>3, <1>4, <1>9, <2>1, <2>2 DEF IInv, Outstanding
    <2> QED
        BY <1>4, <1>9, <2>1, <2>3 DEF IInv, Outstanding
<1>10. \A q \in Ports : Current(q)' = Current(q)
    BY <1>1 DEF Current
\* The client's buffer: as it was, or the answer alone.
<1>11. /\ rcv' \in [Ports -> Seq(Replies)]
       /\ \A q \in Ports :
              \/ rcv'[q] = rcv[q]
              \/ q = r.peer /\ sock[q] # "closed" /\ Len(rcv'[q]) = 1 /\ rcv'[q][1] = reply
    <2>1. CASE UNCHANGED rcv
        BY <1>2, <2>1
    <2>2. CASE /\ r.peer \in Ports /\ sock[r.peer] # "closed"
               /\ rcv' = [rcv EXCEPT ![r.peer] = Append(rcv[r.peer], reply)]
        <3> DEFINE one == Append(rcv[r.peer], reply)
        <3>1. <<>> \in Seq(Replies) /\ Len(<<>>) = 0
            BY EmptySeq
        <3>2. /\ Append(<<>>, reply) \in Seq(Replies)
              /\ Len(Append(<<>>, reply)) = Len(<<>>) + 1
              /\ Append(<<>>, reply)[Len(<<>>) + 1] = reply
            BY <1>6, <3>1, AppendProperties, Zenon
        <3>3. one = Append(<<>>, reply)
            BY <1>9, <2>2, Zenon
        <3> HIDE DEF one
        <3>4. rcv' = [rcv EXCEPT ![r.peer] = one]
            BY <2>2 DEF one
        <3>5. one \in Seq(Replies) /\ Len(one) = 1 /\ one[1] = reply
            BY <3>1, <3>2, <3>3
        <3> QED
            BY <1>2, <2>2, <3>4, <3>5
    <2> QED
        BY <1>1, <2>1, <2>2
<1>12. Typing'
    BY <1>1, <1>3, <1>5, <1>8, <1>11 DEF IInv, Typing
<1>13. Answered'
    BY <1>1 DEF IInv, Answered
<1>14. Outstanding'
    <2>1. Buffered'
        <3>1. Buffered
            BY DEF IInv, Outstanding
        <3>2. ASSUME NEW q \in Ports
              PROVE  Len(rcv'[q]) <= 1 /\ (sock[q] \in {"closed", "send"} => rcv'[q] = <<>>)
            <4>1. CASE rcv'[q] = rcv[q]
                BY <3>1, <4>1, Zenon DEF Buffered
            <4>2. CASE q = r.peer /\ sock[q] # "closed" /\ Len(rcv'[q]) = 1
                BY <1>9, <4>2
            <4> QED
                BY <1>11, <4>1, <4>2
        <3> QED
            BY <1>1, <3>2 DEF Buffered
    <2>2. ASSUME NEW i \in 1..Len(inbox'), inbox'[i].peer \in Ports
          PROVE  /\ sock[inbox'[i].peer] # "send" /\ rcv'[inbox'[i].peer] = <<>>
                 /\ sock[inbox'[i].peer] = "recv" =>
                        /\ inbox'[i].id = Current(inbox'[i].peer)
                        /\ inbox'[i].method = reqs[Current(inbox'[i].peer)]
        <3>1. i + 1 \in 1..Len(inbox) /\ inbox'[i] = inbox[i + 1]
            BY <1>3, <2>2
        <3>2. inbox'[i].peer # r.peer
            BY <1>9, <2>2
        <3>3. rcv'[inbox'[i].peer] = rcv[inbox'[i].peer]
            BY <1>11, <2>2, <3>2
        <3> QED
            BY <2>2, <3>1, <3>3 DEF IInv, Outstanding
    <2>3. ASSUME NEW i \in 1..Len(inbox'), NEW j \in 1..Len(inbox'),
                 inbox'[i].peer \in Ports, inbox'[i].peer = inbox'[j].peer
          PROVE  i = j
        <3>1. /\ i + 1 \in 1..Len(inbox) /\ inbox'[i] = inbox[i + 1]
              /\ j + 1 \in 1..Len(inbox) /\ inbox'[j] = inbox[j + 1]
            BY <1>3, <2>3
        <3>2. i + 1 = j + 1
            BY <2>3, <3>1 DEF IInv, Outstanding
        <3> QED
            BY <1>3, <3>2
    <2> QED
        BY <1>1, <1>10, <2>1, <2>2, <2>3 DEF Outstanding
<1>15. Own'
    <2>1. ASSUME NEW q \in Ports, sock[q] = "recv", NEW i \in 1..Len(rcv'[q])
          PROVE  AnswerTo(rcv'[q][i], Current(q), since'[q])
        <3>1. CASE rcv'[q] = rcv[q]
            <4>1. AnswerTo(rcv[q][i], Current(q), since[q])
                BY <2>1, <3>1 DEF IInv, Own
            <4> QED
                BY <1>8, <3>1, <4>1, AnswerGrows
        <3>2. CASE q = r.peer /\ Len(rcv'[q]) = 1 /\ rcv'[q][1] = reply
            <4>1. reply.id = Current(q) /\ reply.result = Answer(stub, reqs[Current(q)])
                BY <1>7, <1>9, <2>1, <3>2
            <4>2. stub \in since'[q]
                BY <1>8, <2>1 DEF IInv, Own
            <4>3. i = 1
                BY <2>1, <3>2
            <4> QED
                BY <3>2, <4>1, <4>2, <4>3 DEF AnswerTo
        <3> QED
            BY <1>11, <3>1, <3>2
    <2> QED
        BY <1>1, <1>8, <1>10, <2>1 DEF Own, AnswerTo
<1>16. Printed'
    BY <1>1 DEF IInv, Printed
<1> QED
    BY <1>12, <1>13, <1>14, <1>15, <1>16 DEF IInv

\* An operator's command queues up, which is no client's request.
LEMMA CommandIInv ==
    ASSUME IInv, NEW c \in Commands, Command(c)
    PROVE  IInv'
<1> USE DEF loop, clients
<1> DEFINE r == [peer |-> Operator, id |-> 1, method |-> c.method, arg |-> c.arg]
<1>1. inbox' = Append(inbox, r) /\ UNCHANGED <<loop, clients, stub, since>>
    BY DEF Command
<1>2. r \in Accepted /\ r.peer \notin Ports
    BY CommandsAssumption, PortsAssumption, Six DEF Accepted, Requests, Asked
<1> HIDE DEF r
<1>3. inbox \in Seq(Accepted)
    BY DEF IInv, Typing
<1>4. /\ inbox' \in Seq(Accepted) /\ Len(inbox') = Len(inbox) + 1
      /\ \A i \in 1..Len(inbox) : inbox'[i] = inbox[i]
      /\ inbox'[Len(inbox) + 1] = r
    BY <1>1, <1>2, <1>3, AppendProperties
<1>5. \A i \in 1..Len(inbox') : inbox'[i].peer \in Ports => i \in 1..Len(inbox)
    <2>1. Len(inbox) \in Nat
        BY <1>3, LenProperties
    <2>2. \A i \in 1..Len(inbox') : i \in 1..Len(inbox) \/ i = Len(inbox) + 1
        BY <1>4, <2>1
    <2> QED
        BY <1>2, <1>4, <2>2
<1>6. Typing'
    BY <1>1, <1>4 DEF IInv, Typing
<1>7. Answered' /\ Own' /\ Printed' /\ Buffered'
    BY <1>1 DEF IInv, Answered, Own, AnswerTo, Current, Printed, Outstanding, Buffered
<1>8. \A q \in Ports : Current(q)' = Current(q)
    BY <1>1 DEF Current
<1>9. Outstanding'
    <2>1. \A i \in 1..Len(inbox') : inbox'[i].peer \in Ports =>
              /\ sock[inbox'[i].peer] # "send" /\ rcv[inbox'[i].peer] = <<>>
              /\ sock[inbox'[i].peer] = "recv" =>
                     /\ inbox'[i].id = Current(inbox'[i].peer)
                     /\ inbox'[i].method = reqs[Current(inbox'[i].peer)]
        BY <1>4, <1>5 DEF IInv, Outstanding
    <2>2. \A i, j \in 1..Len(inbox') :
              inbox'[i].peer \in Ports /\ inbox'[i].peer = inbox'[j].peer => i = j
        BY <1>4, <1>5 DEF IInv, Outstanding
    <2> QED
        BY <1>1, <1>7, <1>8, <2>1, <2>2 DEF Outstanding
<1> QED
    BY <1>6, <1>7, <1>9 DEF IInv

\* psdkd starts over, and with it what is true of the stub.
LEMMA RestartIInv ==
    ASSUME IInv, Restart
    PROVE  IInv'
<1> USE DEF loop, clients
<1>1. inbox' = <<>> /\ stub' = Fresh /\ Seen(Fresh) /\ UNCHANGED <<loop, clients>>
    BY DEF Restart
<1>2. Fresh \in Stubs
    BY MockTypes
<1>3. /\ since' \in [Ports -> SUBSET Stubs]
      /\ \A p \in Ports : since[p] \subseteq since'[p]
      /\ \A p \in Ports : sock[p] = "recv" => Fresh \in since'[p]
    BY <1>1, <1>2, SeenBy, Zenon
<1>4. inbox' \in Seq(Accepted) /\ Len(inbox') = 0
    BY <1>1, EmptySeq
<1>5. Typing'
    BY <1>1, <1>2, <1>3, <1>4 DEF IInv, Typing
<1>6. Answered' /\ Printed' /\ Buffered'
    BY <1>1 DEF IInv, Answered, Printed, Outstanding, Buffered
<1>7. Outstanding'
    BY <1>4, <1>6 DEF Outstanding
<1>8. Own'
    <2>1. \A q \in Ports : Current(q)' = Current(q)
        BY <1>1 DEF Current
    <2>2. ASSUME NEW q \in Ports, sock[q] = "recv", NEW i \in 1..Len(rcv[q])
          PROVE  AnswerTo(rcv[q][i], Current(q), since'[q])
        <3>1. AnswerTo(rcv[q][i], Current(q), since[q])
            BY <2>2 DEF IInv, Own
        <3> QED
            BY <1>3, <3>1, AnswerGrows
    <2> QED
        BY <1>1, <1>3, <2>1, <2>2 DEF Own, AnswerTo
<1> QED
    BY <1>5, <1>6, <1>7, <1>8 DEF IInv

\* Every step preserves the invariant.
LEMMA NextIInv == IInv /\ [Next]_vars => IInv'
    BY LoopIInv, ConnectIInv, SendIInv, RecvIInv, TimeoutIInv, FinishIInv, ServeIInv,
       CommandIInv, RestartIInv
    DEF Next, Client

-----------------------------------------------------------------------------
(* Results.                                                                *)

\* The invariant holds in every reachable state.
THEOREM Invariance == Spec => []IInv
    BY InitIInv, NextIInv, PTL DEF Spec

\* The variables have their types; above all a client's buffer never holds more
\* than one datagram, and it never collects more answers than it asked for.
THEOREM TypeCorrect == Spec => []TypeOK
<1>1. IInv => TypeOK
    <2> SUFFICES ASSUME IInv PROVE TypeOK
        OBVIOUS
    <2>0. \A l \in Nat : (l <= 6 => l \in 0..6) /\ (l <= 1 => l \in 0..1)
        OBVIOUS
    <2>1. Len(payload) \in 0..Len(reqs)
        <3>1. payload \in Seq(Replies) /\ Len(payload) <= 6
            BY DEF IInv, Typing
        <3>2. Len(payload) \in Nat
            BY <3>1, LenProperties
        <3> QED
            BY <3>1, <3>2, <2>0, Six, Zenon
    <2>2. ASSUME NEW p \in Ports PROVE Len(results[p]) \in 0..Len(reqs) /\ Len(rcv[p]) \in 0..1
        <3>1. results[p] \in Seq(Replies) /\ rcv[p] \in Seq(Replies)
            BY DEF IInv, Typing
        <3>2. Len(results[p]) \in Nat /\ Len(rcv[p]) \in Nat
            BY <3>1, LenProperties
        <3>3. Len(results[p]) <= 6
            BY DEF IInv, Answered
        <3>4. Buffered
            BY DEF IInv, Outstanding
        <3>5. Len(rcv[p]) <= 1
            BY <3>4, Zenon DEF Buffered
        <3> QED
            BY <2>0, <3>2, <3>3, <3>5, Six, Zenon
    <2>3. inbox \in Seq(Requests)
        BY DEF IInv, Typing, Accepted
    <2> QED
        BY <2>1, <2>2, <2>3 DEF IInv, Typing, TypeOK
<1> QED
    BY <1>1, Invariance, PTL

\* A client that never looks at the id of what it receives still takes its own
\* answer, through loss, delay, abandoned clients and restarts of psdkd, and
\* every value is rendered under the request it answers.
THEOREM OnlyOwnAnswers == Spec => []OwnAnswers
<1>1. IInv => OwnAnswers
    BY DEF IInv, Own, Printed, OwnAnswers
<1> QED
    BY <1>1, Invariance, PTL

-----------------------------------------------------------------------------
(* The uptime.                                                             *)

\* Milliseconds of a borrow: a whole number of them may be taken out of the
\* nanoseconds before the division as well as after it.
LEMMA DivShift ==
    ASSUME NEW k \in Int, NEW n \in Int
    PROVE  (k * 1000000 + n) \div 1000000 = k + n \div 1000000
    BY SMT

\* uptime_ms is, for any two readings of the clock, the time between them in
\* nanoseconds rounded down to milliseconds: neither the borrow of a second nor
\* the two separate roundings lose or add one.
THEOREM UptimeExact ==
    ASSUME NEW g_start \in Timespec, NEW now \in Timespec
    PROVE  uptime_ms(g_start, now) = (Nanos(now) - Nanos(g_start)) \div 1000000
<1> DEFINE sec == now.tv_sec - g_start.tv_sec
           nsec == now.tv_nsec - g_start.tv_nsec
<1>0. Second \in Int
    BY SMT DEF Second
<1>1. /\ now.tv_sec \in Int /\ now.tv_nsec \in Int
      /\ g_start.tv_sec \in Int /\ g_start.tv_nsec \in Int
    <2>1. \A n \in 0..(Second - 1) : n \in Int
        BY SMT, <1>0
    <2>2. \A ts \in Timespec : ts.tv_sec \in Nat /\ ts.tv_nsec \in 0..(Second - 1)
        BY Zenon DEF Timespec
    <2> QED
        BY SMT, <2>1, <2>2
<1>2. /\ sec \in Int /\ nsec \in Int
      /\ Nanos(now) - Nanos(g_start) = sec * 1000000000 + nsec
    BY SMT, <1>0, <1>1 DEF Nanos, Second
<1>3. uptime_ms(g_start, now) = IF nsec < 0
                                THEN (sec - 1) * 1000 + (nsec + 1000000000) \div 1000000
                                ELSE sec * 1000 + nsec \div 1000000
    BY SMT DEF uptime_ms, Second
<1> HIDE DEF sec, nsec
<1>4. (sec * 1000 * 1000000 + nsec) \div 1000000 = sec * 1000 + nsec \div 1000000
    BY SMT, <1>2, DivShift
<1>5. (1000 * 1000000 + nsec) \div 1000000 = 1000 + nsec \div 1000000
    BY SMT, <1>2, DivShift
<1> QED
    BY SMT, <1>2, <1>3, <1>4, <1>5

=============================================================================
