----------------------------- MODULE RpcService -----------------------------
(***************************************************************************)
(* What the JSON-RPC interface of psdkd promises to a client: each request *)
(* taken from the socket is carried out as if at one instant, and is       *)
(* answered once, to the peer and under the id it came with, or not at all *)
(* if the answer cannot be sent; a datagram that is not a request is not   *)
(* answered. A result means that the command has taken effect; an error    *)
(* means that it has not, except that obstacle avoidance may be left       *)
(* switched on one axis only.                                              *)
(*                                                                         *)
(* RpcServer, which carries requests out call by call, implements this.    *)
(***************************************************************************)
EXTENDS Integers, Sequences

CONSTANT Requests  \* records [peer, id, method, params]

VARIABLES aircraft,  \* what the commands carried out so far have set
          taken,     \* requests taken from the socket, in order
          replies    \* replies sent, in order

vars == <<aircraft, taken, replies>>

\* The method of a request; every name handle_rpc does not know is "unknown",
\* and what rpc_parse rejects is "malformed".
Methods == {"malformed", "unknown", "ping", "telemetry", "battery", "gimbal", "rtk",
            "camera", "set_rth", "set_gimbal", "set_mode", "set_zoom", "set_home",
            "set_avoidance", "photo", "start_rec", "stop_rec", "upload"}

\* Methods answered from the cache or from constants: they cannot fail.
Reads == {"ping", "telemetry", "battery", "gimbal", "rtk"}

Parked == [rth |-> 0, gimbal |-> <<0, 0, 0>>, mode |-> 0, zoom |-> 1,
           home |-> <<0, 0>>, horizontal |-> TRUE, upward |-> TRUE,
           recording |-> FALSE, photos |-> 0, mission |-> 0]

NoBody == [mode |-> 0, recording |-> FALSE, zoom |-> 0]

\* The i-th parameter of a request, or its default when it is missing.
Param(r, i, default) == IF i <= Len(r.params) THEN r.params[i] ELSE default

\* File names: the empty one, one that leaves the KMZ directory, the others.
EmptyName == 0
OutsideName == -1

Valid(r) ==
    CASE r.method \in {"set_rth", "set_mode", "set_avoidance"} -> Param(r, 1, -1) >= 0
      [] r.method = "set_zoom" -> Param(r, 1, -1) >= 1
      [] r.method = "set_home" -> /\ Param(r, 1, 999) \in -90..90
                                  /\ Param(r, 2, 999) \in -180..180
      [] r.method = "upload" -> Param(r, 1, EmptyName) \notin {EmptyName, OutsideName}
      [] OTHER -> r.method # "unknown"

\* The aircraft after command r. The altitude is converted to a 16-bit number
\* of metres: the board's conversion keeps the low 16 bits.
Effect(a, r) ==
    CASE r.method = "set_rth" -> [a EXCEPT !.rth = Param(r, 1, -1) % 65536]
      [] r.method = "set_gimbal" ->
             [a EXCEPT !.gimbal = <<Param(r, 1, 0), Param(r, 2, 0), Param(r, 3, 0)>>]
      [] r.method = "set_mode" -> [a EXCEPT !.mode = IF Param(r, 1, -1) = 0 THEN 0 ELSE 1]
      [] r.method = "set_zoom" -> [a EXCEPT !.zoom = Param(r, 1, -1)]
      [] r.method = "set_home" -> [a EXCEPT !.home = <<Param(r, 1, 999), Param(r, 2, 999)>>]
      [] r.method = "set_avoidance" ->
             [a EXCEPT !.horizontal = (Param(r, 1, -1) = 0), !.upward = (Param(r, 1, -1) = 0)]
      [] r.method = "photo" -> [a EXCEPT !.photos = @ + 1]
      [] r.method = "start_rec" -> [a EXCEPT !.recording = TRUE]
      [] r.method = "stop_rec" -> [a EXCEPT !.recording = FALSE]
      [] r.method = "upload" -> [a EXCEPT !.mission = Param(r, 1, EmptyName)]
      [] OTHER -> a

\* What an error may leave behind.
Leftovers(a, r) ==
    {a} \cup IF r.method = "set_avoidance"
               THEN {[a EXCEPT !.horizontal = Effect(a, r).horizontal]} ELSE {}

\* A camera answer has the mode; the other two may fall back to a default.
Bodies(a, r) ==
    IF r.method = "camera"
      THEN [mode : {a.mode}, recording : {a.recording, FALSE}, zoom : {a.zoom, 1}]
      ELSE {NoBody}

Reply(r, kind, body) == [peer |-> r.peer, id |-> r.id, kind |-> kind, body |-> body]

Init == aircraft = Parked /\ taken = <<>> /\ replies = <<>>

Ignore(r) == /\ r.method = "malformed"
             /\ taken' = Append(taken, r)
             /\ UNCHANGED <<aircraft, replies>>

\* The answer goes out, or is lost.
Respond(r, kind, body) == replies' \in {replies, Append(replies, Reply(r, kind, body))}

Succeed(r) == /\ r.method # "malformed" /\ Valid(r)
              /\ taken' = Append(taken, r)
              /\ aircraft' = Effect(aircraft, r)
              /\ \E body \in Bodies(aircraft, r) : Respond(r, "result", body)

Refuse(r) == /\ r.method \notin Reads \cup {"malformed"}
             /\ taken' = Append(taken, r)
             /\ aircraft' \in IF Valid(r) THEN Leftovers(aircraft, r) ELSE {aircraft}
             /\ Respond(r, "error", NoBody)

Next == \E r \in Requests : Ignore(r) \/ Succeed(r) \/ Refuse(r)

Spec == Init /\ [][Next]_vars

=============================================================================
