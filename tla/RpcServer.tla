------------------------------ MODULE RpcServer ------------------------------
(***************************************************************************)
(* The request path of psdkd: udp_server_poll takes a datagram, handle_rpc *)
(* parses and dispatches it, the handler checks its parameters and calls   *)
(* drone_ctrl, drone_ctrl makes one or more SDK or file calls, and the     *)
(* handler answers. One step is one such call, each of which may fail,     *)
(* and datagrams arrive and KMZ files are rewritten between any two.       *)
(*                                                                         *)
(* The operators of RpcService name requests, replies and the effect of a  *)
(* command on the aircraft.                                                *)
(***************************************************************************)
EXTENDS Integers, Sequences, FiniteSets

CONSTANTS Requests,     \* datagrams clients may send, as parsed by rpc_parse
          Files,        \* KMZ files named by upload requests
          Sizes,        \* sizes a file may have; 0 is an empty file
          Range32,      \* how many values a uint32_t has
          QueueMax,     \* bound: datagrams waiting in the socket
          MaxRequests   \* bound: requests taken

VARIABLES inbox,     \* the socket's receive buffer
          pc,        \* where the main thread is: "idle" in poll, or in a handler
          req,       \* the request being handled
          verdict,   \* kind and body of the answer the handler has settled on
          aircraft,  \* what the SDK has been told
          s_waypoint_v3_inited,
          fp,        \* open FILE handles
          buf,       \* allocated upload buffers
          room,      \* bytes the last buffer was allocated with
          file_size, \* drone_upload_kmz's local
          size,      \* size[f]: bytes in file f, 0 also if it cannot be opened
          atRead,    \* history: bytes the file had when it was read
          sent,      \* history: bytes last handed to DjiWaypointV3_UploadKmzFile
          prior,     \* history: aircraft when the request was taken
          taken,     \* history: requests taken
          replies    \* replies sent

files == <<fp, buf, room, file_size, atRead, sent>>
history == <<prior, taken>>
vars == <<inbox, pc, req, verdict, aircraft, s_waypoint_v3_inited, files, size,
          history, replies>>

\* A client sees a request carried out at the moment of its answer.
Service == INSTANCE RpcService
               WITH aircraft <- IF pc = "idle" THEN aircraft ELSE prior,
                    taken <- IF pc = "idle" THEN taken
                                            ELSE SubSeq(taken, 1, Len(taken) - 1)

\* rpc_parse and the parameter accessors yield a known method and numbers; the
\* files are those that upload requests name, and a file may be empty.
ASSUME RequestsAssumption ==
    \A r \in Requests :
        /\ r.method \in Service!Methods
        /\ r.params \in Seq(Int)
        /\ r.method = "upload" /\ Service!Valid(r) =>
               Service!Param(r, 1, Service!EmptyName) \in Files
ASSUME SizesAssumption == Sizes \subseteq Nat /\ 0 \in Sizes /\ Range32 \in Nat \ {0}

\* The conversion to uint32_t.
Uint32(n) == n % Range32

Idle == [peer |-> "none", id |-> -1, method |-> "malformed", params |-> <<>>]
Error == [kind |-> "error", body |-> Service!NoBody]
Done == [kind |-> "result", body |-> Service!NoBody]

\* Methods that are one SDK call.
Commands == {"set_rth", "set_gimbal", "set_mode", "set_zoom", "set_home",
             "photo", "start_rec", "stop_rec"}

Init == /\ inbox = <<>>
        /\ pc = "idle" /\ req = Idle /\ verdict = Error
        /\ aircraft = Service!Parked
        /\ s_waypoint_v3_inited = FALSE
        /\ fp = 0 /\ buf = 0 /\ room = 0 /\ file_size = 0 /\ atRead = 0 /\ sent = 0
        /\ size \in [Files -> Sizes]
        /\ prior = Service!Parked /\ taken = <<>> /\ replies = <<>>

-----------------------------------------------------------------------------
(* The environment: clients, and whoever copies KMZ files to the board.    *)

Arrive(r) == /\ pc # "crashed"
             /\ Len(inbox) < QueueMax
             /\ Len(taken) + Len(inbox) < MaxRequests
             /\ inbox' = Append(inbox, r)
             /\ UNCHANGED <<pc, req, verdict, aircraft, s_waypoint_v3_inited,
                            files, size, history, replies>>

Rewrite(f) == /\ size' \in {[size EXCEPT ![f] = n] : n \in Sizes \ {size[f]}}
              /\ UNCHANGED <<inbox, pc, req, verdict, aircraft, files,
                             s_waypoint_v3_inited, history, replies>>

-----------------------------------------------------------------------------
(* udp_server_poll and handle_rpc.                                         *)

\* Where the dispatch of r leads. A datagram rpc_parse rejects is dropped; an
\* unknown method and parameters that fail the handler's test are answered
\* with an error before drone_ctrl is called.
Entry(r) ==
    CASE r.method = "malformed" -> "idle"
      [] r.method # "malformed" /\ (~Service!Valid(r) \/ r.method \in Service!Reads) -> "reply"
      [] r.method = "camera" -> "get_mode"
      [] r.method \in Commands /\ Service!Valid(r) -> "command"
      [] r.method = "set_avoidance" /\ Service!Valid(r) -> "horizontal"
      [] r.method = "upload" /\ Service!Valid(r) ->
             IF s_waypoint_v3_inited THEN "fopen" ELSE "wp_init"

Receive ==
    /\ pc = "idle" /\ inbox # <<>>
    /\ LET r == Head(inbox)
       IN  /\ req' = r
           /\ verdict' = IF r.method \in Service!Reads THEN Done ELSE Error
           /\ pc' = Entry(r)
           /\ taken' = Append(taken, r)
    /\ inbox' = Tail(inbox)
    /\ prior' = aircraft
    /\ UNCHANGED <<aircraft, s_waypoint_v3_inited, files, size, replies>>

\* send_result or send_error, and the return to the event loop. A sendto that
\* fails is logged and the answer is lost.
Answer ==
    /\ pc = "reply"
    /\ Service!Respond(req, verdict.kind, verdict.body)
    /\ pc' = "idle"
    /\ UNCHANGED <<inbox, req, verdict, aircraft, s_waypoint_v3_inited, files,
                   size, history>>

\* The SDK or file call at hand succeeds and control goes on to next, or it
\* fails and the handler answers with an error.
Proceed(next) == pc' = next /\ verdict' = IF next = "reply" THEN Done ELSE Error
Fail == pc' = "reply" /\ verdict' = Error

-----------------------------------------------------------------------------
(* drone_ctrl: commands of one SDK call, and obstacle avoidance.           *)

Command ==
    /\ pc = "command"
    /\ \/ aircraft' = Service!Effect(aircraft, req) /\ Proceed("reply")
       \/ UNCHANGED aircraft /\ Fail
    /\ UNCHANGED <<inbox, req, s_waypoint_v3_inited, files, size, history, replies>>

\* OBSTACLE_AVOID_CLOSE (0) selects ENABLE, every other mode DISABLE.
Switch == Service!Param(req, 1, -1) = 0

Horizontal ==
    /\ pc = "horizontal"
    /\ \/ aircraft' = [aircraft EXCEPT !.horizontal = Switch] /\ Proceed("upward")
       \/ UNCHANGED aircraft /\ Fail
    /\ UNCHANGED <<inbox, req, s_waypoint_v3_inited, files, size, history, replies>>

\* Mutant: the result of the upward call is not looked at.
UpwardUnchecked ==
    /\ pc = "upward"
    /\ aircraft' \in {aircraft, [aircraft EXCEPT !.upward = Switch]}
    /\ Proceed("reply")
    /\ UNCHANGED <<inbox, req, s_waypoint_v3_inited, files, size, history, replies>>

Upward ==
    /\ pc = "upward"
    /\ \/ aircraft' = [aircraft EXCEPT !.upward = Switch] /\ Proceed("reply")
       \/ UNCHANGED aircraft /\ Fail
    /\ UNCHANGED <<inbox, req, s_waypoint_v3_inited, files, size, history, replies>>

\* drone_get_camera_state: only the failure of the first query is an error;
\* the other two fall back to "not recording" and 1.0.
GetMode ==
    /\ pc = "get_mode"
    /\ \/ /\ pc' = "get_rec"
          /\ verdict' = [kind |-> "result",
                         body |-> [Service!NoBody EXCEPT !.mode = aircraft.mode]]
       \/ Fail
    /\ UNCHANGED <<inbox, req, aircraft, s_waypoint_v3_inited, files, size, history, replies>>

\* Mutant: a failed query starts the reading of the camera over.
GetRecordingStateRetried ==
    /\ pc = "get_rec"
    /\ \/ /\ pc' = "get_zoom"
          /\ verdict' = [verdict EXCEPT !.body.recording = aircraft.recording]
       \/ pc' = "get_mode" /\ UNCHANGED verdict
    /\ UNCHANGED <<inbox, req, aircraft, s_waypoint_v3_inited, files, size, history, replies>>

GetRecordingState ==
    /\ pc = "get_rec"
    /\ pc' = "get_zoom"
    /\ \E ok \in BOOLEAN :
           verdict' = [verdict EXCEPT !.body.recording = ok /\ aircraft.recording]
    /\ UNCHANGED <<inbox, req, aircraft, s_waypoint_v3_inited, files, size, history, replies>>

GetZoom ==
    /\ pc = "get_zoom"
    /\ pc' = "reply"
    /\ \E ok \in BOOLEAN :
           verdict' = [verdict EXCEPT !.body.zoom = IF ok THEN aircraft.zoom ELSE 1]
    /\ UNCHANGED <<inbox, req, aircraft, s_waypoint_v3_inited, files, size, history, replies>>

-----------------------------------------------------------------------------
(* drone_upload_kmz.                                                       *)

file == Service!Param(req, 1, Service!EmptyName)

\* Mutant: a failed call is logged and the upload goes on.
WaypointInitUnchecked(here, next) ==
    /\ pc = here
    /\ Proceed(next)
    /\ \/ s_waypoint_v3_inited' = (here = "wp_action")
       \/ UNCHANGED s_waypoint_v3_inited
    /\ UNCHANGED <<inbox, req, aircraft, files, size, history, replies>>

\* ensure_waypoint_v3_ready: three calls, the flag after the last.
WaypointInit(here, next) ==
    /\ pc = here
    /\ \/ Proceed(next) /\ s_waypoint_v3_inited' = (here = "wp_action")
       \/ Fail /\ UNCHANGED s_waypoint_v3_inited
    /\ UNCHANGED <<inbox, req, aircraft, files, size, history, replies>>

Fopen ==
    /\ pc = "fopen"
    /\ \/ Proceed("ftell") /\ fp' = fp + 1
       \/ Fail /\ UNCHANGED fp
    /\ UNCHANGED <<inbox, req, aircraft, s_waypoint_v3_inited, buf, room, file_size,
                   atRead, sent, size, history, replies>>

\* fseek to the end, ftell, fseek to the start; an empty file is an error.
Ftell ==
    /\ pc = "ftell"
    /\ \/ /\ size[file] > 0
          /\ file_size' = size[file]
          /\ Proceed("malloc") /\ UNCHANGED fp
       \/ Fail /\ fp' = fp - 1 /\ UNCHANGED file_size
    /\ UNCHANGED <<inbox, req, aircraft, s_waypoint_v3_inited, buf, room, atRead, sent,
                   size, history, replies>>

\* Mutant: the file stays open when the allocation fails.
MallocLeak ==
    /\ pc = "malloc"
    /\ \/ Proceed("fread") /\ buf' = buf + 1 /\ room' = Uint32(file_size)
       \/ Fail /\ UNCHANGED <<buf, room>>
    /\ UNCHANGED <<inbox, req, aircraft, s_waypoint_v3_inited, fp, file_size, atRead,
                   sent, size, history, replies>>

\* The OSAL handler is fetched and its Malloc called with a uint32_t.
Malloc ==
    /\ pc = "malloc"
    /\ \/ /\ Proceed("fread")
          /\ buf' = buf + 1 /\ room' = Uint32(file_size)
          /\ UNCHANGED fp
       \/ Fail /\ fp' = fp - 1 /\ UNCHANGED <<buf, room>>
    /\ UNCHANGED <<inbox, req, aircraft, s_waypoint_v3_inited, file_size, atRead, sent,
                   size, history, replies>>

\* Mutant: the number of bytes read is not compared with the size.
FreadUnchecked ==
    /\ pc = "fread"
    /\ fp' = fp - 1
    /\ atRead' = size[file]
    /\ Proceed("send")
    /\ UNCHANGED <<inbox, req, aircraft, s_waypoint_v3_inited, buf, room, file_size, sent,
                   size, history, replies>>

\* fread then fclose. A read error or a file that has shrunk since ftell comes
\* up short; one that has grown does not.
Fread ==
    /\ pc = "fread"
    /\ fp' = fp - 1
    /\ atRead' = size[file]
    /\ \/ size[file] >= file_size /\ Proceed("send") /\ UNCHANGED buf
       \/ Fail /\ buf' = buf - 1
    /\ UNCHANGED <<inbox, req, aircraft, s_waypoint_v3_inited, room, file_size, sent,
                   size, history, replies>>

\* fread is asked for file_size bytes, not for as many as the buffer has room
\* for. What it stores behind the buffer is undefined behaviour: it goes
\* unnoticed (Fread) or ends the process, and its socket and files with it.
Overrun ==
    /\ pc = "fread"
    /\ file_size > room /\ size[file] > room
    /\ pc' = "crashed"
    /\ fp' = 0 /\ buf' = 0 /\ inbox' = <<>>
    /\ UNCHANGED <<req, verdict, aircraft, s_waypoint_v3_inited, room, file_size, atRead,
                   sent, size, history, replies>>

\* Mutant: the failure path frees the buffer a second time.
SendDoubleFree ==
    /\ pc = "send"
    /\ sent' = Uint32(file_size)
    /\ \/ aircraft' = Service!Effect(aircraft, req) /\ Proceed("reply") /\ buf' = buf - 1
       \/ UNCHANGED aircraft /\ Fail /\ buf' = buf - 2
    /\ UNCHANGED <<inbox, req, s_waypoint_v3_inited, fp, room, file_size, atRead, size,
                   history, replies>>

\* DjiWaypointV3_UploadKmzFile is given the size as a uint32_t, then the buffer
\* is freed either way.
Send ==
    /\ pc = "send"
    /\ sent' = Uint32(file_size)
    /\ buf' = buf - 1
    /\ \/ aircraft' = Service!Effect(aircraft, req) /\ Proceed("reply")
       \/ UNCHANGED aircraft /\ Fail
    /\ UNCHANGED <<inbox, req, s_waypoint_v3_inited, fp, room, file_size, atRead, size,
                   history, replies>>

Upload == \/ WaypointInit("wp_init", "wp_mission")
          \/ WaypointInit("wp_mission", "wp_action")
          \/ WaypointInit("wp_action", "fopen")
          \/ Fopen \/ Ftell \/ Malloc \/ Fread \/ Overrun \/ Send

Handler == \/ Answer \/ Command \/ Horizontal \/ Upward
           \/ GetMode \/ GetRecordingState \/ GetZoom \/ Upload

Next == \/ \E r \in Requests : Arrive(r)
        \/ \E f \in Files : Rewrite(f)
        \/ Receive \/ Handler

Spec == Init /\ [][Next]_vars

\* The event loop keeps polling and the SDK's calls return.
FairSpec == Spec /\ WF_vars(Receive) /\ WF_vars(Handler)

-----------------------------------------------------------------------------
(* Properties.                                                             *)

TypeOK == /\ inbox \in Seq(Requests) /\ req \in Requests \cup {Idle}
          /\ pc \in {"idle", "reply", "command", "horizontal", "upward", "get_mode",
                     "get_rec", "get_zoom", "wp_init", "wp_mission", "wp_action",
                     "fopen", "ftell", "malloc", "fread", "send", "crashed"}
          /\ verdict.kind \in {"result", "error"}
          /\ s_waypoint_v3_inited \in BOOLEAN
          /\ fp \in 0..1 /\ buf \in 0..1
          /\ room \in 0..(Range32 - 1) /\ sent \in 0..(Range32 - 1)
          /\ file_size \in Sizes /\ atRead \in Sizes
          /\ size \in [Files -> Sizes]

\* Every path out of drone_upload_kmz, of which there are eight, closes the
\* file and frees the buffer exactly once.
ResourcesReturned ==
    /\ fp = (IF pc \in {"ftell", "malloc", "fread"} THEN 1 ELSE 0)
    /\ buf = (IF pc \in {"fread", "send"} THEN 1 ELSE 0)

\* The waypoint module is initialised, with both callbacks, before a file is
\* opened or sent, and an answer "uploaded" implies it.
ReadyBeforeUpload ==
    /\ pc \in {"fopen", "ftell", "malloc", "fread", "send"} => s_waypoint_v3_inited
    /\ aircraft.mission # 0 => s_waypoint_v3_inited

\* A file whose size fits into 32 bits, rewritten or not between ftell and
\* fread, never overruns the buffer, and a client that is told it was uploaded
\* can rely on it: what the SDK was given was in the file, all of it, when it
\* was read. Nothing of this holds for larger files, which the code accepts.
NeverSentShort ==
    file_size < Range32 =>
        /\ pc # "crashed"
        /\ pc = "reply" /\ req.method = "upload" /\ verdict.kind = "result" =>
               sent = file_size /\ sent \in 1..atRead

\* Each request is carried out and answered as RpcService says.
ImplementsService == Service!Spec

\* A request that was taken is answered, or dropped as malformed, and one that
\* waits in the socket is taken, unless the process ends in an overrun.
EveryRequestServed ==
    (inbox # <<>> \/ pc # "idle") ~> ((inbox = <<>> /\ pc = "idle") \/ pc = "crashed")

\* handler.c: "mode (0=off, 1=on, 2=brake)". A client that was told its
\* request to switch avoidance off succeeded has it switched off, and a client
\* that asked for it has it on.
AvoidanceAsDocumented ==
    pc = "reply" /\ req.method = "set_avoidance" /\ verdict.kind = "result" =>
        aircraft.horizontal = (Service!Param(req, 1, -1) # 0)

=============================================================================
