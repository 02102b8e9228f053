-------------------------- MODULE RpcServerProofs --------------------------
(***************************************************************************)
(* Proofs about RpcServer, for any set of requests, files and sizes and    *)
(* any bounds on the socket and on the number of requests.                 *)
(***************************************************************************)
EXTENDS RpcServer, TLAPS

-----------------------------------------------------------------------------
(* Types of what TypeOK leaves open.                                       *)

Aircraft == [rth : Int, gimbal : Int \X Int \X Int, mode : Int, zoom : Int,
             home : Int \X Int, horizontal : BOOLEAN, upward : BOOLEAN,
             recording : BOOLEAN, photos : Int, mission : Int]

Body == [mode : Int, recording : BOOLEAN, zoom : Int]
Verdict == [kind : {"result", "error"}, body : Body]

Typing == /\ TypeOK
          /\ verdict \in Verdict
          /\ aircraft \in Aircraft /\ prior \in Aircraft
          /\ taken \in Seq(Requests)

-----------------------------------------------------------------------------
(* The inductive invariant.                                                *)

Registering == {"wp_init", "wp_mission", "wp_action"}
Uploading == {"fopen", "ftell", "malloc", "fread", "send"}
Camera == {"get_mode", "get_rec", "get_zoom"}

\* A handler works on the request that was taken last.
Earlier == SubSeq(taken, 1, Len(taken) - 1)
Handling ==
    pc # "idle" => /\ req \in Requests /\ req.method # "malformed"
                   /\ Len(taken) > 0 /\ taken = Append(Earlier, req)

\* Each call is made for the method it belongs to, after the handler's tests,
\* and the aircraft is as it was when the request was taken, but for the first
\* half of obstacle avoidance.
AtCommand ==
    /\ pc = "command" => req.method \in Commands
    /\ pc \in {"horizontal", "upward"} => req.method = "set_avoidance"
    /\ pc \in Camera => req.method = "camera"
    /\ pc \in Registering \cup Uploading => req.method = "upload"
    /\ pc \notin {"idle", "reply"} => Service!Valid(req)
    /\ pc \notin {"idle", "reply", "upward"} => aircraft = prior
    /\ pc = "upward" => aircraft = [prior EXCEPT !.horizontal = Switch]

\* What drone_get_camera_state has collected so far.
AtCamera ==
    /\ pc \in {"get_rec", "get_zoom"} =>
           verdict.kind = "result" /\ verdict.body.mode = prior.mode
    /\ pc = "get_zoom" => verdict.body.recording \in {prior.recording, FALSE}

\* The answer the handler has settled on is true of the aircraft.
AtReply ==
    /\ pc = "reply" /\ verdict.kind = "result" =>
           /\ Service!Valid(req)
           /\ aircraft = Service!Effect(prior, req)
           /\ verdict.body \in Service!Bodies(prior, req)
    /\ pc = "reply" /\ verdict.kind = "error" =>
           /\ req.method \notin Service!Reads
           /\ aircraft \in IF Service!Valid(req) THEN Service!Leftovers(prior, req) ELSE {prior}
           /\ verdict.body = Service!NoBody

\* drone_upload_kmz, with what its properties leave out: the flag is clear while
\* the callbacks are being registered, the size it keeps is not 0, the buffer
\* has as many bytes as fit into 32 bits of it, and all were read.
UploadInv ==
    /\ ResourcesReturned /\ ReadyBeforeUpload /\ NeverSentShort
    /\ pc \in Registering => ~s_waypoint_v3_inited
    /\ pc \in {"malloc", "fread", "send"} => file_size > 0
    /\ pc = "fread" => room = Uint32(file_size)
    /\ pc = "send" => file_size <= atRead

IInv == Typing /\ Handling /\ AtCommand /\ AtCamera /\ AtReply /\ UploadInv

-----------------------------------------------------------------------------
(* The conversion, and the operators of RpcService.                        *)

\* A conversion to uint32_t stays in range and keeps what fits.
LEMMA Uint32Value ==
    ASSUME NEW n \in Nat
    PROVE  /\ Uint32(n) \in 0..(Range32 - 1)
           /\ n < Range32 => Uint32(n) = n
    BY SizesAssumption DEF Uint32

\* A parameter is a number, given or by default.
LEMMA ParamType ==
    ASSUME NEW r \in Requests, NEW i \in Nat \ {0}, NEW default \in Int
    PROVE  Service!Param(r, i, default) \in Int
<1>1. r.params \in Seq(Int)
    BY RequestsAssumption
<1>2. i <= Len(r.params) => r.params[i] \in Int
    BY <1>1
<1> QED
    BY <1>2 DEF Service!Param

\* A 16-bit altitude is a number.
LEMMA Low16Type == ASSUME NEW n \in Int PROVE n % 65536 \in Int
    BY SMT

\* Switching something on or off leaves an aircraft.
LEMMA SwitchType ==
    ASSUME NEW a \in Aircraft, NEW on \in BOOLEAN
    PROVE  /\ [a EXCEPT !.horizontal = on] \in Aircraft
           /\ [a EXCEPT !.upward = on] \in Aircraft
           /\ [a EXCEPT !.recording = on] \in Aircraft
    BY DEF Aircraft

\* Avoidance is both axes, set one after the other.
LEMMA EffectAvoidance ==
    ASSUME NEW a \in Aircraft, NEW r \in Requests, r.method = "set_avoidance"
    PROVE  /\ Service!Effect(a, r) = [[a EXCEPT !.horizontal = (Service!Param(r, 1, -1) = 0)]
                                        EXCEPT !.upward = (Service!Param(r, 1, -1) = 0)]
           /\ Service!Effect(a, r).horizontal = (Service!Param(r, 1, -1) = 0)
<1> DEFINE on == (Service!Param(r, 1, -1) = 0)
<1>1. Service!Effect(a, r) = [a EXCEPT !.horizontal = on, !.upward = on]
    BY SMT DEF Service!Effect
<1> HIDE DEF on
<1>2. /\ Service!Effect(a, r) = [[a EXCEPT !.horizontal = on] EXCEPT !.upward = on]
      /\ Service!Effect(a, r).horizontal = on
    BY <1>1 DEF Aircraft
<1> QED
    BY <1>2, Zenon DEF on

\* A command leaves an aircraft.
LEMMA EffectType ==
    ASSUME NEW a \in Aircraft, NEW r \in Requests
    PROVE  Service!Effect(a, r) \in Aircraft
<1>1. /\ Service!Param(r, 1, -1) \in Int /\ Service!Param(r, 1, 0) \in Int
      /\ Service!Param(r, 2, 0) \in Int /\ Service!Param(r, 3, 0) \in Int
      /\ Service!Param(r, 1, 999) \in Int /\ Service!Param(r, 2, 999) \in Int
      /\ Service!Param(r, 1, Service!EmptyName) \in Int
    BY ParamType DEF Service!EmptyName
<1>2. Service!Param(r, 1, -1) % 65536 \in Int
    BY <1>1, Low16Type
<1>3. CASE r.method = "set_rth"
    BY <1>1, <1>2, <1>3 DEF Service!Effect, Aircraft
<1>4. CASE r.method = "set_gimbal"
    BY <1>1, <1>4 DEF Service!Effect, Aircraft
<1>5. CASE r.method = "set_mode"
    BY <1>5 DEF Service!Effect, Aircraft
<1>6. CASE r.method = "set_zoom"
    BY <1>1, <1>6 DEF Service!Effect, Aircraft
<1>7. CASE r.method = "set_home"
    BY <1>1, <1>7 DEF Service!Effect, Aircraft
<1>8. CASE r.method = "set_avoidance"
    <2> DEFINE on == (Service!Param(r, 1, -1) = 0)
    <2>1. Service!Effect(a, r) = [[a EXCEPT !.horizontal = on] EXCEPT !.upward = on]
        BY <1>8, EffectAvoidance, Zenon
    <2>2. on \in BOOLEAN
        BY Zenon
    <2> HIDE DEF on
    <2> QED
        BY <2>1, <2>2, SwitchType, Zenon
<1>9. CASE r.method \in {"photo", "start_rec", "stop_rec"}
    <2>1. CASE r.method = "photo"
        BY <2>1 DEF Service!Effect, Aircraft
    <2>2. CASE r.method = "start_rec"
        <3>1. Service!Effect(a, r) = [a EXCEPT !.recording = TRUE]
            BY <2>2, SMT DEF Service!Effect
        <3> QED
            BY <3>1, SwitchType, Zenon
    <2>3. CASE r.method = "stop_rec"
        <3>1. Service!Effect(a, r) = [a EXCEPT !.recording = FALSE]
            BY <2>3, SMT DEF Service!Effect
        <3> QED
            BY <3>1, SwitchType, Zenon
    <2> QED
        BY <1>9, <2>1, <2>2, <2>3
<1>10. CASE r.method = "upload"
    BY <1>1, <1>10 DEF Service!Effect, Aircraft
<1>11. CASE r.method \notin {"set_rth", "set_gimbal", "set_mode", "set_zoom", "set_home",
                             "set_avoidance", "photo", "start_rec", "stop_rec", "upload"}
    BY <1>11 DEF Service!Effect, Aircraft
<1> QED
    BY <1>3, <1>4, <1>5, <1>6, <1>7, <1>8, <1>9, <1>10, <1>11

\* Nothing but an upload changes the mission.
LEMMA EffectMission ==
    ASSUME NEW a \in Aircraft, NEW r \in Requests, r.method # "upload"
    PROVE  Service!Effect(a, r).mission = a.mission
    BY DEF Service!Effect, Aircraft

\* Queries leave the aircraft alone and cannot be refused.
LEMMA EffectQuery ==
    ASSUME NEW a, NEW r \in Requests, r.method \in Service!Reads \cup {"camera"}
    PROVE  Service!Effect(a, r) = a /\ Service!Valid(r)
    BY DEF Service!Effect, Service!Valid, Service!Reads

\* Where handle_rpc goes with a request.
LEMMA EntryCases ==
    ASSUME NEW r \in Requests
    PROVE  \/ r.method = "malformed" /\ Entry(r) = "idle"
           \/ /\ r.method # "malformed" /\ (~Service!Valid(r) \/ r.method \in Service!Reads)
              /\ Entry(r) = "reply"
           \/ r.method = "camera" /\ Service!Valid(r) /\ Entry(r) = "get_mode"
           \/ r.method \in Commands /\ Service!Valid(r) /\ Entry(r) = "command"
           \/ r.method = "set_avoidance" /\ Service!Valid(r) /\ Entry(r) = "horizontal"
           \/ /\ r.method = "upload" /\ Service!Valid(r)
              /\ Entry(r) = IF s_waypoint_v3_inited THEN "fopen" ELSE "wp_init"
<1>1. r.method \in Service!Methods
    BY RequestsAssumption
<1>2. r.method \in Service!Reads \cup {"camera"} => Service!Valid(r)
    BY EffectQuery
<1>3. CASE r.method = "malformed"
    BY <1>3 DEF Entry
<1>4. CASE r.method # "malformed" /\ (~Service!Valid(r) \/ r.method \in Service!Reads)
    BY <1>2, <1>4 DEF Entry, Commands, Service!Reads
<1>5. CASE r.method = "camera"
    BY <1>2, <1>5 DEF Entry, Service!Reads
<1>6. CASE r.method \in Commands /\ Service!Valid(r)
    BY <1>6 DEF Entry, Commands, Service!Reads
<1>7. CASE r.method = "set_avoidance" /\ Service!Valid(r)
    BY <1>7 DEF Entry, Commands, Service!Reads
<1>8. CASE r.method = "upload" /\ Service!Valid(r)
    BY <1>8 DEF Entry, Commands, Service!Reads
<1>9. \/ r.method = "malformed"
      \/ r.method # "malformed" /\ (~Service!Valid(r) \/ r.method \in Service!Reads)
      \/ r.method = "camera"
      \/ r.method \in Commands /\ Service!Valid(r)
      \/ r.method = "set_avoidance" /\ Service!Valid(r)
      \/ r.method = "upload" /\ Service!Valid(r)
    <2>1. r.method \in {"malformed", "unknown", "camera", "set_avoidance", "upload"}
                        \cup Service!Reads \cup Commands
        BY <1>1 DEF Service!Methods, Service!Reads, Commands
    <2>2. r.method = "unknown" => ~Service!Valid(r)
        BY DEF Service!Valid
    <2> QED
        BY <2>1, <2>2
<1> QED
    BY <1>2, <1>3, <1>4, <1>5, <1>6, <1>7, <1>8, <1>9

-----------------------------------------------------------------------------
(* The steps.                                                              *)

\* psdkd starts idle, with an empty socket and an aircraft as parked.
LEMMA InitIInv == Init => IInv
<1> SUFFICES ASSUME Init PROVE IInv
    OBVIOUS
<1>1. TypeOK
    <2>1. file_size \in Sizes /\ atRead \in Sizes /\ s_waypoint_v3_inited \in BOOLEAN
        BY SizesAssumption DEF Init
    <2>2. room \in 0..(Range32 - 1) /\ sent \in 0..(Range32 - 1)
        BY SizesAssumption DEF Init
    <2>3. verdict.kind \in {"result", "error"}
        BY DEF Init, Error
    <2> QED
        BY <2>1, <2>2, <2>3 DEF Init, TypeOK
<1>2. verdict \in Verdict
    BY DEF Init, Verdict, Body, Error, Service!NoBody
<1>3. aircraft \in Aircraft /\ prior \in Aircraft /\ taken \in Seq(Requests)
    BY DEF Init, Aircraft, Service!Parked
<1>4. Handling /\ AtCommand /\ AtCamera /\ AtReply
    BY DEF Init, Handling, AtCommand, AtCamera, AtReply, Camera, Registering, Uploading
<1>5. UploadInv
    BY DEF Init, UploadInv, ResourcesReturned, ReadyBeforeUpload, NeverSentShort,
           Registering, Service!Parked
<1> QED
    BY <1>1, <1>2, <1>3, <1>4, <1>5 DEF IInv, Typing

\* A step that leaves the request at hand alone.
LEMMA FrameIInv ==
    ASSUME IInv, TypeOK',
           UNCHANGED <<pc, req, verdict, aircraft, s_waypoint_v3_inited, files, history>>
    PROVE  IInv'
<1> USE DEF files, history
<1>1. Typing'
    BY DEF IInv, Typing
<1>2. Handling' /\ AtCamera'
    BY DEF IInv, Handling, Earlier, AtCamera
<1>3. AtCommand'
    BY DEF IInv, AtCommand, Switch
<1>4. AtReply'
    BY DEF IInv, AtReply
<1>5. UploadInv'
    BY DEF IInv, UploadInv, ResourcesReturned, ReadyBeforeUpload, NeverSentShort
<1> QED
    BY <1>1, <1>2, <1>3, <1>4, <1>5 DEF IInv

\* Clients and whoever copies files.
LEMMA EnvironmentIInv ==
    ASSUME IInv, (\E r \in Requests : Arrive(r)) \/ (\E f \in Files : Rewrite(f))
    PROVE  IInv'
<1>1. CASE \E r \in Requests : Arrive(r)
    <2>1. TypeOK'
        BY <1>1 DEF IInv, Typing, Arrive, TypeOK, files
    <2> QED
        BY <1>1, <2>1, FrameIInv DEF Arrive
<1>2. CASE \E f \in Files : Rewrite(f)
    <2>1. TypeOK'
        BY <1>2 DEF IInv, Typing, Rewrite, TypeOK, files
    <2> QED
        BY <1>2, <2>1, FrameIInv DEF Rewrite
<1> QED
    BY <1>1, <1>2

\* Removing the newest request gives back the earlier ones.
LEMMA FrontOfAppend ==
    ASSUME NEW s \in Seq(Requests), NEW r \in Requests
    PROVE  /\ Append(s, r) \in Seq(Requests) /\ Len(Append(s, r)) > 0
           /\ SubSeq(Append(s, r), 1, Len(Append(s, r)) - 1) = s
    BY SMT

\* handle_rpc takes a datagram and drops it, answers it at once or starts its handler.
LEMMA ReceiveIInv ==
    ASSUME IInv, Receive
    PROVE  IInv'
<1> DEFINE r == Head(inbox)
<1>1. r \in Requests /\ inbox' \in Seq(Requests)
    BY DEF IInv, Typing, TypeOK, Receive
<1>2. /\ req' = r /\ pc = "idle" /\ pc' = Entry(r) /\ taken' = Append(taken, r)
      /\ verdict' = IF r.method \in Service!Reads THEN Done ELSE Error
      /\ prior' = aircraft /\ aircraft' = aircraft
      /\ UNCHANGED <<s_waypoint_v3_inited, files, size, replies>>
    BY DEF Receive
<1> HIDE DEF r
<1>3. Typing'
    <2>1. verdict' \in Verdict /\ verdict'.kind \in {"result", "error"}
        BY <1>2 DEF Done, Error, Verdict, Body, Service!NoBody
    <2>2. TypeOK'
        BY <1>1, <1>2, <2>1, EntryCases DEF IInv, Typing, TypeOK, files
    <2> QED
        BY <1>1, <1>2, <2>1, <2>2, FrontOfAppend DEF IInv, Typing
<1>4. Handling'
    BY <1>1, <1>2, EntryCases, FrontOfAppend DEF IInv, Typing, Handling, Earlier, Commands
<1>5. AtCommand'
    BY <1>1, <1>2, EntryCases DEF AtCommand, Camera, Registering, Uploading
<1>6. AtCamera'
    BY <1>1, <1>2, EntryCases DEF AtCamera
<1>7. AtReply'
    <2>1. CASE r.method \in Service!Reads
        BY <1>1, <1>2, <2>1, EffectQuery
        DEF AtReply, Done, Service!Bodies, Service!Reads
    <2>2. CASE r.method \notin Service!Reads
        BY <1>1, <1>2, <2>2, EntryCases DEF AtReply, Error
    <2> QED
        BY <2>1, <2>2
<1>8. UploadInv'
    <2>1. pc' # "crashed" /\ ~(req'.method = "upload" /\ verdict'.kind = "result")
        BY <1>1, <1>2, EntryCases DEF Error, Service!Reads
    <2>2. NeverSentShort'
        BY <2>1 DEF NeverSentShort
    <2> QED
        BY <1>1, <1>2, <2>2, EntryCases
        DEF IInv, UploadInv, ResourcesReturned, ReadyBeforeUpload, Registering, files
<1> QED
    BY <1>3, <1>4, <1>5, <1>6, <1>7, <1>8 DEF IInv

\* send_result and send_error end the handler.
LEMMA AnswerIInv ==
    ASSUME IInv, Answer
    PROVE  IInv'
<1> USE DEF Answer, files, history
<1>1. Typing'
    BY DEF IInv, Typing, TypeOK
<1>2. Handling' /\ AtCommand' /\ AtCamera' /\ AtReply'
    BY DEF Handling, AtCommand, AtCamera, AtReply, Camera, Registering, Uploading
<1>3. UploadInv'
    BY DEF IInv, UploadInv, ResourcesReturned, ReadyBeforeUpload, NeverSentShort, Registering
<1> QED
    BY <1>1, <1>2, <1>3 DEF IInv

\* The two answers without a body.
LEMMA VerdictTypes ==
    /\ Done \in Verdict /\ Done.kind = "result" /\ Done.body = Service!NoBody
    /\ Error \in Verdict /\ Error.kind = "error" /\ Error.body = Service!NoBody
    BY DEF Done, Error, Verdict, Body, Service!NoBody

\* A call has succeeded and was the last one of its handler.
LEMMA DoneReply ==
    ASSUME pc # "idle", Handling, UNCHANGED <<req, history>>, pc' = "reply", verdict' = Done,
           req.method # "camera", Service!Valid(req), aircraft' = Service!Effect(prior, req)
    PROVE  Handling' /\ AtCommand' /\ AtCamera' /\ AtReply'
    BY VerdictTypes DEF history, Handling, Earlier, AtCommand, AtCamera, AtReply, Camera,
           Registering, Uploading, Service!Bodies

\* A call has failed.
LEMMA ErrorReply ==
    ASSUME pc # "idle", Handling, UNCHANGED <<req, history>>, pc' = "reply", verdict' = Error,
           req.method \notin Service!Reads, Service!Valid(req),
           aircraft' \in Service!Leftovers(prior, req)
    PROVE  Handling' /\ AtCommand' /\ AtCamera' /\ AtReply'
    BY VerdictTypes DEF history, Handling, Earlier, AtCommand, AtCamera, AtReply, Camera,
           Registering, Uploading

\* A call that is neither, in a handler that goes on.
LEMMA HandlingKept ==
    ASSUME pc # "idle", Handling, UNCHANGED <<req, history>>
    PROVE  Handling'
    BY DEF Handling, Earlier, history

\* A command of one SDK call is carried out or has failed.
LEMMA CommandIInv ==
    ASSUME IInv, Command
    PROVE  IInv'
<1>1. /\ pc = "command" /\ req \in Requests /\ req.method \in Commands /\ Service!Valid(req)
      /\ aircraft = prior /\ prior \in Aircraft /\ Handling
      /\ UNCHANGED <<req, s_waypoint_v3_inited, files, size, history>>
    BY DEF IInv, Command, AtCommand, Handling, Typing
<1>2. \/ aircraft' = Service!Effect(prior, req) /\ pc' = "reply" /\ verdict' = Done
      \/ aircraft' = prior /\ pc' = "reply" /\ verdict' = Error
    BY <1>1 DEF Command, Proceed, Fail
<1>3. aircraft' \in Aircraft /\ aircraft'.mission = prior.mission
    BY <1>1, <1>2, EffectType, EffectMission DEF Commands
<1>4. Typing'
    BY <1>1, <1>2, <1>3, VerdictTypes DEF IInv, Typing, TypeOK, Command, files, history
<1>5. Handling' /\ AtCommand' /\ AtCamera' /\ AtReply'
    BY <1>1, <1>2, DoneReply, ErrorReply DEF Commands, Service!Reads, Service!Leftovers
<1>6. UploadInv'
    BY <1>1, <1>2, <1>3
    DEF IInv, UploadInv, ResourcesReturned, ReadyBeforeUpload, NeverSentShort, Registering, files,
        Commands
<1> QED
    BY <1>4, <1>5, <1>6 DEF IInv

\* After the first half of obstacle avoidance the second is next, or an error.
LEMMA HorizontalIInv ==
    ASSUME IInv, Horizontal
    PROVE  IInv'
<1>1. /\ pc = "horizontal" /\ req \in Requests /\ req.method = "set_avoidance"
      /\ Service!Valid(req) /\ aircraft = prior /\ prior \in Aircraft /\ Handling
      /\ UNCHANGED <<inbox, req, s_waypoint_v3_inited, files, size, history>>
    BY DEF IInv, Horizontal, AtCommand, Handling, Typing
<1>2. CASE aircraft' = [aircraft EXCEPT !.horizontal = Switch] /\ Proceed("upward")
    <2>1. pc' = "upward" /\ verdict' = Error /\ aircraft' = [prior EXCEPT !.horizontal = Switch]
        BY <1>1, <1>2 DEF Proceed
    <2>2. Switch \in BOOLEAN
        BY DEF Switch
    <2>3. aircraft' \in Aircraft /\ aircraft'.mission = prior.mission
        BY <1>1, <2>1, <2>2 DEF Aircraft
    <2>4. Typing'
        BY <1>1, <2>1, <2>3, VerdictTypes DEF IInv, Typing, TypeOK, files, history
    <2>5. AtCommand'
        BY <1>1, <2>1 DEF AtCommand, Camera, Registering, Uploading, Switch, history
    <2>6. Handling' /\ AtCamera' /\ AtReply'
        BY <1>1, <2>1, HandlingKept DEF AtCamera, AtReply
    <2>7. UploadInv'
        BY <1>1, <2>1, <2>3
        DEF IInv, UploadInv, ResourcesReturned, ReadyBeforeUpload, NeverSentShort, Registering, files
    <2> QED
        BY <2>4, <2>5, <2>6, <2>7 DEF IInv
<1>3. CASE UNCHANGED aircraft /\ Fail
    <2>1. pc' = "reply" /\ verdict' = Error /\ aircraft' = prior
        BY <1>1, <1>3 DEF Fail
    <2>2. Typing'
        BY <1>1, <2>1, VerdictTypes DEF IInv, Typing, TypeOK, files, history
    <2>3. Handling' /\ AtCommand' /\ AtCamera' /\ AtReply'
        BY <1>1, <2>1, ErrorReply DEF Service!Reads, Service!Leftovers
    <2>4. UploadInv'
        BY <1>1, <2>1
        DEF IInv, UploadInv, ResourcesReturned, ReadyBeforeUpload, NeverSentShort, Registering, files
    <2> QED
        BY <2>2, <2>3, <2>4 DEF IInv
<1> QED
    BY <1>2, <1>3 DEF Horizontal

\* The second half completes the command, or its failure leaves the first one set.
LEMMA UpwardIInv ==
    ASSUME IInv, Upward
    PROVE  IInv'
<1>1. /\ pc = "upward" /\ req \in Requests /\ req.method = "set_avoidance"
      /\ Service!Valid(req) /\ prior \in Aircraft /\ Handling /\ aircraft \in Aircraft
      /\ aircraft = [prior EXCEPT !.horizontal = Switch]
      /\ UNCHANGED <<inbox, req, s_waypoint_v3_inited, files, size, history>>
    BY DEF IInv, Upward, AtCommand, Handling, Typing
<1>2. Switch \in BOOLEAN
    BY DEF Switch
<1>3. \/ aircraft' = Service!Effect(prior, req) /\ pc' = "reply" /\ verdict' = Done
      \/ /\ aircraft' = aircraft /\ aircraft' \in Service!Leftovers(prior, req)
         /\ pc' = "reply" /\ verdict' = Error
    <2>1. CASE aircraft' = [aircraft EXCEPT !.upward = Switch] /\ Proceed("reply")
        BY <1>1, <2>1, EffectAvoidance DEF Proceed, Switch
    <2>2. CASE UNCHANGED aircraft /\ Fail
        <3>1. Service!Effect(prior, req).horizontal = Switch
            BY <1>1, EffectAvoidance DEF Switch
        <3>2. aircraft \in Service!Leftovers(prior, req)
            BY <1>1, <3>1, Zenon DEF Service!Leftovers
        <3> QED
            BY <2>2, <3>2 DEF Fail
    <2> QED
        BY <2>1, <2>2 DEF Upward
<1>4. aircraft' \in Aircraft /\ aircraft'.mission = prior.mission /\ aircraft.mission = prior.mission
    BY <1>1, <1>2, <1>3, EffectType, EffectMission DEF Aircraft
<1>5. Typing'
    BY <1>1, <1>3, <1>4, VerdictTypes DEF IInv, Typing, TypeOK, files, history
<1>6. Handling' /\ AtCommand' /\ AtCamera' /\ AtReply'
    BY <1>1, <1>3, DoneReply, ErrorReply DEF Service!Reads
<1>7. UploadInv'
    BY <1>1, <1>3, <1>4
    DEF IInv, UploadInv, ResourcesReturned, ReadyBeforeUpload, NeverSentShort, Registering, files
<1> QED
    BY <1>5, <1>6, <1>7 DEF IInv

\* The first camera query gives a mode or an error.
LEMMA GetModeIInv ==
    ASSUME IInv, GetMode
    PROVE  IInv'
<1>1. /\ pc = "get_mode" /\ req \in Requests /\ req.method = "camera"
      /\ Service!Valid(req) /\ aircraft = prior /\ prior \in Aircraft /\ Handling
      /\ UNCHANGED <<inbox, req, aircraft, s_waypoint_v3_inited, files, size, history>>
    BY DEF IInv, GetMode, AtCommand, Camera, Handling, Typing
<1>2. CASE /\ pc' = "get_rec"
           /\ verdict' = [kind |-> "result",
                          body |-> [Service!NoBody EXCEPT !.mode = aircraft.mode]]
    <2>1. aircraft.mode \in Int
        BY <1>1 DEF Aircraft
    <2> DEFINE body == [Service!NoBody EXCEPT !.mode = aircraft.mode]
    <2>2. body \in Body /\ body.mode = aircraft.mode
        <3>1. Service!NoBody \in Body
            BY DEF Body, Service!NoBody
        <3> QED
            BY <2>1, <3>1 DEF Body
    <2> HIDE DEF body
    <2>3. verdict' = [kind |-> "result", body |-> body]
        BY <1>2 DEF body
    <2>4. verdict' \in Verdict /\ verdict'.kind = "result" /\ verdict'.body.mode = prior.mode
        BY <1>1, <2>2, <2>3 DEF Verdict
    <2>5. Typing'
        BY <1>1, <1>2, <2>4 DEF IInv, Typing, TypeOK, files, history
    <2>6. Handling' /\ AtCommand' /\ AtCamera' /\ AtReply'
        BY <1>1, <1>2, <2>4, HandlingKept
        DEF AtCommand, AtCamera, AtReply, Camera, Registering, Uploading, history
    <2>7. UploadInv'
        BY <1>1, <1>2
        DEF IInv, UploadInv, ResourcesReturned, ReadyBeforeUpload, NeverSentShort, Registering, files
    <2> QED
        BY <2>5, <2>6, <2>7 DEF IInv
<1>3. CASE Fail
    <2>1. pc' = "reply" /\ verdict' = Error
        BY <1>3 DEF Fail
    <2>2. Typing'
        BY <1>1, <2>1, VerdictTypes DEF IInv, Typing, TypeOK, files, history
    <2>3. Handling' /\ AtCommand' /\ AtCamera' /\ AtReply'
        BY <1>1, <2>1, ErrorReply DEF Service!Reads, Service!Leftovers
    <2>4. UploadInv'
        BY <1>1, <2>1
        DEF IInv, UploadInv, ResourcesReturned, ReadyBeforeUpload, NeverSentShort, Registering, files
    <2> QED
        BY <2>2, <2>3, <2>4 DEF IInv
<1> QED
    BY <1>2, <1>3 DEF GetMode

\* The second query answers, or "not recording" stands in for it.
LEMMA GetRecordingStateIInv ==
    ASSUME IInv, GetRecordingState
    PROVE  IInv'
<1>1. /\ pc = "get_rec" /\ req \in Requests /\ req.method = "camera" /\ pc' = "get_zoom"
      /\ Service!Valid(req) /\ aircraft = prior /\ prior \in Aircraft /\ Handling
      /\ verdict \in Verdict /\ verdict.kind = "result" /\ verdict.body.mode = prior.mode
      /\ UNCHANGED <<inbox, req, aircraft, s_waypoint_v3_inited, files, size, history>>
    BY DEF IInv, GetRecordingState, AtCommand, AtCamera, Camera, Handling, Typing
<1>2. prior.recording \in BOOLEAN
    BY <1>1 DEF Aircraft
<1>3. PICK rec \in {prior.recording, FALSE} : verdict' = [verdict EXCEPT !.body.recording = rec]
    <2>1. PICK ok \in BOOLEAN :
              verdict' = [verdict EXCEPT !.body.recording = ok /\ aircraft.recording]
        BY DEF GetRecordingState
    <2>2. CASE ok
        BY <1>1, <1>2, <2>1, <2>2, (ok /\ aircraft.recording) = prior.recording
    <2>3. CASE ~ok
        BY <2>1, <2>3, (ok /\ aircraft.recording) = FALSE
    <2> QED
        BY <2>1, <2>2, <2>3
<1>4. rec \in BOOLEAN
    BY <1>2, <1>3
<1>5. /\ verdict' \in Verdict /\ verdict'.kind = "result" /\ verdict'.body.mode = prior.mode
      /\ verdict'.body.recording = rec
    BY <1>1, <1>3, <1>4 DEF Verdict, Body
<1>6. Typing'
    BY <1>1, <1>5 DEF IInv, Typing, TypeOK, files, history
<1>7. Handling' /\ AtCommand' /\ AtCamera' /\ AtReply'
    BY <1>1, <1>3, <1>5, HandlingKept
    DEF AtCommand, AtCamera, AtReply, Camera, Registering, Uploading, history
<1>8. UploadInv'
    BY <1>1
    DEF IInv, UploadInv, ResourcesReturned, ReadyBeforeUpload, NeverSentShort, Registering, files
<1> QED
    BY <1>6, <1>7, <1>8 DEF IInv

\* The third query answers, or 1.0 stands in for it, and the answer is complete.
LEMMA GetZoomIInv ==
    ASSUME IInv, GetZoom
    PROVE  IInv'
<1>1. /\ pc = "get_zoom" /\ req \in Requests /\ req.method = "camera" /\ pc' = "reply"
      /\ Service!Valid(req) /\ aircraft = prior /\ prior \in Aircraft /\ Handling
      /\ verdict \in Verdict /\ verdict.kind = "result" /\ verdict.body.mode = prior.mode
      /\ verdict.body.recording \in {prior.recording, FALSE}
      /\ UNCHANGED <<inbox, req, aircraft, s_waypoint_v3_inited, files, size, history>>
    BY DEF IInv, GetZoom, AtCommand, AtCamera, Camera, Handling, Typing
<1>2. prior.zoom \in Int
    BY <1>1 DEF Aircraft
<1>3. PICK z \in {prior.zoom, 1} : verdict' = [verdict EXCEPT !.body.zoom = z]
    BY <1>1 DEF GetZoom
<1>4. /\ verdict' \in Verdict /\ verdict'.kind = "result"
      /\ verdict'.body = [mode |-> prior.mode, recording |-> verdict.body.recording, zoom |-> z]
    BY <1>1, <1>2, <1>3 DEF Verdict, Body
<1>5. verdict'.body \in Service!Bodies(prior, req)
    <2> DEFINE Recs == {prior.recording, FALSE}
               rec == verdict.body.recording
    <2>1. rec \in Recs /\ Service!Bodies(prior, req) =
              [mode : {prior.mode}, recording : Recs, zoom : {prior.zoom, 1}]
        BY <1>1, Zenon DEF Service!Bodies
    <2>2. verdict'.body = [mode |-> prior.mode, recording |-> rec, zoom |-> z]
        BY <1>4, Zenon
    <2> HIDE DEF Recs, rec
    <2> QED
        BY <1>3, <2>1, <2>2
<1>6. Typing'
    BY <1>1, <1>4 DEF IInv, Typing, TypeOK, files, history
<1>7. AtReply'
    BY <1>1, <1>4, <1>5, EffectQuery DEF AtReply, history
<1>8. Handling' /\ AtCommand' /\ AtCamera'
    BY <1>1, HandlingKept DEF AtCommand, AtCamera, Camera, Registering, Uploading
<1>9. UploadInv'
    BY <1>1
    DEF IInv, UploadInv, ResourcesReturned, ReadyBeforeUpload, NeverSentShort, Registering, files
<1> QED
    BY <1>6, <1>7, <1>8, <1>9 DEF IInv

\* While an upload is under way its request names a file, which has a size.
LEMMA UploadRequest ==
    ASSUME IInv, pc \in Registering \cup Uploading
    PROVE  /\ req \in Requests /\ req.method = "upload" /\ Service!Valid(req)
           /\ aircraft = prior /\ aircraft \in Aircraft /\ Handling
           /\ file \in Files /\ size[file] \in Sizes /\ size[file] \in Nat
<1>1. /\ req \in Requests /\ req.method = "upload" /\ Service!Valid(req)
      /\ aircraft = prior /\ aircraft \in Aircraft /\ Handling
    BY DEF IInv, AtCommand, Handling, Registering, Uploading, Typing
<1>2. file \in Files
    BY <1>1, RequestsAssumption DEF file
<1> QED
    BY <1>1, <1>2, SizesAssumption DEF IInv, Typing, TypeOK

\* A call of drone_upload_kmz that succeeds and is not the last.
LEMMA UploadGoesOn ==
    ASSUME IInv, pc \in Registering \cup Uploading, pc' \in Registering \cup Uploading,
           UNCHANGED <<req, aircraft, history>>
    PROVE  Handling' /\ AtCommand' /\ AtCamera' /\ AtReply'
    BY UploadRequest, HandlingKept
    DEF AtCommand, AtCamera, AtReply, Camera, Registering, Uploading, Commands, history

\* A call of drone_upload_kmz that fails.
LEMMA UploadFails ==
    ASSUME IInv, pc \in Registering \cup Uploading, Fail, UNCHANGED <<req, aircraft, history>>
    PROVE  /\ Handling' /\ AtCommand' /\ AtCamera' /\ AtReply'
           /\ pc' = "reply" /\ verdict' = Error
<1>1. pc # "idle"
    BY DEF Registering, Uploading
<1>2. aircraft' \in Service!Leftovers(prior, req)
    BY UploadRequest DEF Service!Leftovers
<1>3. req.method \notin Service!Reads
    BY UploadRequest DEF Service!Reads
<1> QED
    BY <1>1, <1>2, <1>3, UploadRequest, ErrorReply DEF Fail

\* The flag is set by the last of the three calls and by no other.
LEMMA WaypointInitIInv ==
    ASSUME IInv,
           NEW here, NEW next,
           <<here, next>> \in {<<"wp_init", "wp_mission">>, <<"wp_mission", "wp_action">>,
                               <<"wp_action", "fopen">>},
           WaypointInit(here, next)
    PROVE  IInv'
<1>1. /\ here \in Registering /\ next \in Registering \cup {"fopen"}
      /\ next = "fopen" <=> here = "wp_action"
    BY DEF Registering
<1>2. /\ pc = here /\ ~s_waypoint_v3_inited
      /\ UNCHANGED <<inbox, req, aircraft, files, size, history>>
    BY <1>1 DEF WaypointInit, IInv, UploadInv
<1>3. CASE Proceed(next) /\ s_waypoint_v3_inited' = (here = "wp_action")
    <2>1. pc' = next /\ verdict' = Error
        BY <1>1, <1>3 DEF Proceed, Registering
    <2>2. s_waypoint_v3_inited' \in BOOLEAN /\ (s_waypoint_v3_inited' <=> next = "fopen")
        BY <1>1, <1>3
    <2>3. TypeOK'
        BY <1>1, <1>2, <2>1, <2>2, VerdictTypes DEF IInv, Typing, TypeOK, files, Registering
    <2>4. Typing'
        BY <1>2, <2>1, <2>3, VerdictTypes DEF IInv, Typing, history
    <2>5. Handling' /\ AtCommand' /\ AtCamera' /\ AtReply'
        BY <1>1, <1>2, <2>1, UploadGoesOn DEF Uploading
    <2>6. aircraft'.mission = 0
        BY <1>2 DEF IInv, UploadInv, ReadyBeforeUpload
    <2>7. UploadInv'
        BY <1>1, <1>2, <2>1, <2>2, <2>6
        DEF IInv, UploadInv, ResourcesReturned, ReadyBeforeUpload, NeverSentShort, Registering, files
    <2> QED
        BY <2>4, <2>5, <2>7 DEF IInv
<1>4. CASE Fail /\ UNCHANGED s_waypoint_v3_inited
    <2>1. Handling' /\ AtCommand' /\ AtCamera' /\ AtReply' /\ pc' = "reply" /\ verdict' = Error
        BY <1>1, <1>2, <1>4, UploadFails
    <2>2. Typing'
        BY <1>2, <1>4, <2>1, VerdictTypes DEF IInv, Typing, TypeOK, files, history
    <2>3. UploadInv'
        BY <1>1, <1>2, <1>4, <2>1, VerdictTypes
        DEF IInv, UploadInv, ResourcesReturned, ReadyBeforeUpload, NeverSentShort, Registering, files
    <2> QED
        BY <2>1, <2>2, <2>3 DEF IInv
<1> QED
    BY <1>3, <1>4 DEF WaypointInit

\* The steps on the file: each takes or returns the handle and the buffer as
\* ResourcesReturned says, on success and on failure.
LEMMA FileIInv ==
    ASSUME IInv, Fopen \/ Ftell \/ Malloc \/ Fread
    PROVE  IInv'
<1> USE DEF files
<1>1. /\ pc \in Uploading /\ pc \in {"fopen", "ftell", "malloc", "fread"}
      /\ UNCHANGED <<inbox, req, aircraft, s_waypoint_v3_inited, sent, size, history>>
    BY DEF Fopen, Ftell, Malloc, Fread, Uploading
<1>2. /\ size[file] \in Sizes /\ size[file] \in Nat /\ s_waypoint_v3_inited
      /\ file_size \in Nat /\ atRead \in Nat
    BY <1>1, UploadRequest, SizesAssumption
    DEF IInv, Typing, TypeOK, UploadInv, ReadyBeforeUpload
<1>3. CASE Fail
    <2>1. Handling' /\ AtCommand' /\ AtCamera' /\ AtReply' /\ pc' = "reply" /\ verdict' = Error
        BY <1>1, <1>3, UploadFails
    <2>2. /\ fp' = 0 /\ buf' = 0 /\ file_size' = file_size /\ room' = room
          /\ atRead' \in {atRead, size[file]}
        BY <1>1, <1>3 DEF IInv, UploadInv, ResourcesReturned, Fopen, Ftell, Malloc, Fread, Fail, Proceed
    <2>3. Typing'
        BY <1>1, <1>2, <2>1, <2>2, VerdictTypes DEF IInv, Typing, TypeOK, history
    <2>4. UploadInv'
        BY <1>1, <1>2, <2>1, <2>2, VerdictTypes
        DEF IInv, UploadInv, ResourcesReturned, ReadyBeforeUpload, NeverSentShort, Registering
    <2> QED
        BY <2>1, <2>3, <2>4 DEF IInv
<1>4. CASE ~Fail
    <2>1. \/ /\ Fopen /\ pc' = "ftell" /\ fp' = 1 /\ buf' = 0
             /\ UNCHANGED <<room, file_size, atRead>>
          \/ /\ Ftell /\ pc' = "malloc" /\ fp' = 1 /\ buf' = 0 /\ UNCHANGED <<room, atRead>>
             /\ file_size' = size[file] /\ file_size' > 0
          \/ /\ Malloc /\ pc' = "fread" /\ fp' = 1 /\ buf' = 1
             /\ room' = Uint32(file_size) /\ UNCHANGED <<file_size, atRead>>
          \/ /\ Fread /\ pc' = "send" /\ fp' = 0 /\ buf' = 1 /\ UNCHANGED <<room, file_size>>
             /\ atRead' = size[file] /\ size[file] >= file_size
        BY <1>1, <1>4
        DEF IInv, UploadInv, ResourcesReturned, Fopen, Ftell, Malloc, Fread, Proceed
    <2>2. verdict' = Error /\ pc' \in Uploading
        BY <1>4, <2>1 DEF Fopen, Ftell, Malloc, Fread, Proceed, Uploading
    <2>3. Handling' /\ AtCommand' /\ AtCamera' /\ AtReply'
        BY <1>1, <2>2, UploadGoesOn
    <2>4. room' \in 0..(Range32 - 1)
        BY <1>2, <2>1, Uint32Value DEF IInv, Typing, TypeOK
    <2>5. Typing'
        BY <1>1, <1>2, <2>1, <2>2, <2>4, VerdictTypes DEF IInv, Typing, TypeOK, history
    <2>6. UploadInv'
        BY <1>1, <1>2, <2>1
        DEF IInv, UploadInv, ResourcesReturned, ReadyBeforeUpload, NeverSentShort, Registering,
            Fopen, Ftell, Malloc, Fread, Uint32
    <2> QED
        BY <2>3, <2>5, <2>6 DEF IInv
<1> QED
    BY <1>3, <1>4

\* Only a file too large for 32 bits is read over the end of its buffer.
LEMMA OverrunIInv ==
    ASSUME IInv, Overrun
    PROVE  IInv'
<1> USE DEF files
<1>1. /\ pc = "fread" /\ pc \in Uploading /\ pc' = "crashed" /\ fp' = 0 /\ buf' = 0
      /\ inbox' = <<>> /\ file_size > room /\ room = Uint32(file_size) /\ s_waypoint_v3_inited
      /\ UNCHANGED <<req, verdict, aircraft, s_waypoint_v3_inited, room, file_size, atRead,
                     sent, size, history>>
    BY DEF IInv, UploadInv, ReadyBeforeUpload, Overrun, Uploading
<1>2. file_size \in Nat /\ ~(file_size < Range32)
    BY <1>1, SizesAssumption, Uint32Value DEF IInv, Typing, TypeOK
<1>3. Typing'
    BY <1>1 DEF IInv, Typing, TypeOK, history
<1>4. Handling' /\ AtCommand' /\ AtCamera' /\ AtReply'
    BY <1>1, UploadRequest, HandlingKept
    DEF AtCommand, AtCamera, AtReply, Camera, Registering, Uploading, history
<1>5. UploadInv'
    BY <1>1, <1>2
    DEF UploadInv, ResourcesReturned, ReadyBeforeUpload, NeverSentShort, Registering
<1> QED
    BY <1>3, <1>4, <1>5 DEF IInv

\* The mission is sent, or is not, and the buffer is freed.
LEMMA SendIInv ==
    ASSUME IInv, Send
    PROVE  IInv'
<1> USE DEF files
<1>1. /\ pc = "send" /\ pc \in Uploading /\ s_waypoint_v3_inited /\ fp' = 0 /\ buf' = 0
      /\ sent' = Uint32(file_size) /\ file_size > 0 /\ file_size <= atRead
      /\ UNCHANGED <<inbox, req, s_waypoint_v3_inited, size, history, room, file_size, atRead>>
    BY DEF IInv, UploadInv, ResourcesReturned, ReadyBeforeUpload, Send, Uploading
<1>2. \/ aircraft' = Service!Effect(prior, req) /\ pc' = "reply" /\ verdict' = Done
      \/ aircraft' = aircraft /\ Fail
    BY <1>1, UploadRequest DEF Send, Proceed
<1>3. pc' = "reply" /\ verdict' \in {Done, Error}
    BY <1>2 DEF Fail
<1>4. aircraft' \in Aircraft
    BY <1>1, <1>2, UploadRequest, EffectType
<1>5. /\ file_size \in Nat /\ atRead \in Nat /\ sent' \in 0..(Range32 - 1)
      /\ file_size < Range32 => sent' = file_size
    BY <1>1, SizesAssumption, Uint32Value DEF IInv, Typing, TypeOK
<1>6. Typing'
    BY <1>1, <1>3, <1>4, <1>5, VerdictTypes DEF IInv, Typing, TypeOK, history
<1>7. Handling' /\ AtCommand' /\ AtCamera' /\ AtReply'
    BY <1>1, <1>2, UploadRequest, DoneReply, UploadFails
<1>8. UploadInv'
    BY <1>1, <1>3, <1>5
    DEF UploadInv, ResourcesReturned, ReadyBeforeUpload, NeverSentShort, Registering
<1> QED
    BY <1>6, <1>7, <1>8 DEF IInv

\* Every step keeps the invariant.
LEMMA NextIInv == IInv /\ [Next]_vars => IInv'
<1> SUFFICES ASSUME IInv, [Next]_vars PROVE IInv'
    OBVIOUS
<1>1. CASE UNCHANGED vars
    <2>1. TypeOK'
        BY <1>1 DEF vars, files, IInv, Typing, TypeOK
    <2> QED
        BY <1>1, <2>1, FrameIInv DEF vars
<1>2. CASE (\E r \in Requests : Arrive(r)) \/ (\E f \in Files : Rewrite(f))
    BY <1>2, EnvironmentIInv
<1>3. CASE Upload
    BY <1>3, WaypointInitIInv, FileIInv, OverrunIInv, SendIInv DEF Upload
<1> QED
    BY <1>1, <1>2, <1>3, ReceiveIInv, AnswerIInv, CommandIInv, HorizontalIInv, UpwardIInv,
       GetModeIInv, GetRecordingStateIInv, GetZoomIInv
    DEF Next, Handler

-----------------------------------------------------------------------------
(* Results.                                                                *)

\* The invariant holds in every reachable state.
THEOREM Invariance == Spec => []IInv
    BY InitIInv, NextIInv, PTL DEF Spec

\* The variables of the request path have their types.
THEOREM TypeCorrect == Spec => []TypeOK
<1>1. IInv => TypeOK
    BY DEF IInv, Typing
<1> QED
    BY <1>1, Invariance, PTL

\* Whatever fails, and wherever, in an upload of any file: the handle is open
\* and the buffer allocated exactly where the code uses them, and both are
\* returned once.
THEOREM ResourcesAreReturned == Spec => []ResourcesReturned
<1>1. IInv => ResourcesReturned
    BY DEF IInv, UploadInv
<1> QED
    BY <1>1, Invariance, PTL

\* No file is opened or sent before all three waypoint calls have succeeded.
THEOREM ReadyBeforeAnyUpload == Spec => []ReadyBeforeUpload
<1>1. IInv => ReadyBeforeUpload
    BY DEF IInv, UploadInv
<1> QED
    BY <1>1, Invariance, PTL

\* A mission that was reported as uploaded is a whole file, and no buffer is
\* overrun, whatever is done to the file between its measurement and its
\* reading, for every file whose size fits into 32 bits.
THEOREM NeverAShortMission == Spec => []NeverSentShort
<1>1. IInv => NeverSentShort
    BY DEF IInv, UploadInv
<1> QED
    BY <1>1, Invariance, PTL

-----------------------------------------------------------------------------
(* The refinement. The mapped aircraft and the mapped requests are the ones *)
(* before the request at hand until it is answered, so that the calls in    *)
(* between stutter, a dropped datagram is an Ignore and an answer is a      *)
(* Succeed or a Refuse.                                                     *)

\* What a client sees: the variables of RpcService under the mapping.
Seen == IF pc = "idle" THEN aircraft ELSE prior
SeenTaken == IF pc = "idle" THEN taken ELSE Earlier

\* A step inside a handler, or of the environment, changes nothing a client sees.
LEMMA SilentStep ==
    ASSUME UNCHANGED <<history, replies>>, pc = "idle" => UNCHANGED aircraft,
           pc = "idle" <=> pc' = "idle"
    PROVE  UNCHANGED Service!vars
<1>1. UNCHANGED <<Seen, SeenTaken, replies>>
    BY DEF history, Seen, SeenTaken, Earlier
<1> QED
    BY <1>1 DEF Service!vars, Seen, SeenTaken, Earlier

\* The datagram at the head of the queue is dropped, or is not yet answered.
LEMMA ReceiveRefines ==
    ASSUME IInv, Receive
    PROVE  Service!Next \/ UNCHANGED Service!vars
<1> DEFINE r == Head(inbox)
<1>1. r \in Requests /\ taken \in Seq(Requests)
    BY DEF IInv, Typing, TypeOK, Receive
<1>2. /\ pc = "idle" /\ pc' = Entry(r) /\ taken' = Append(taken, r)
      /\ prior' = aircraft /\ aircraft' = aircraft /\ replies' = replies
    BY DEF Receive
<1> HIDE DEF r
<1>3. CASE r.method = "malformed"
    <2>1. pc' = "idle"
        BY <1>1, <1>2, <1>3, EntryCases DEF Commands, Service!Reads
    <2>2. Service!Ignore(r)
        BY <1>2, <1>3, <2>1 DEF Service!Ignore
    <2> QED
        BY <1>1, <2>2 DEF Service!Next
<1>4. CASE r.method # "malformed"
    <2>1. pc' # "idle"
        BY <1>1, <1>2, <1>4, EntryCases
    <2>2. SubSeq(taken', 1, Len(taken') - 1) = taken
        BY <1>1, <1>2, FrontOfAppend
    <2> QED
        BY <1>2, <2>1, <2>2 DEF Service!vars
<1> QED
    BY <1>3, <1>4

\* The answer is the instant at which a client sees the request carried out.
LEMMA AnswerRefines ==
    ASSUME IInv, Answer
    PROVE  Service!Next
<1>1. /\ pc = "reply" /\ pc' = "idle" /\ UNCHANGED <<aircraft, prior, taken>>
      /\ req \in Requests /\ req.method # "malformed" /\ taken = Append(Earlier, req)
      /\ verdict.kind \in {"result", "error"}
      /\ Service!Respond(req, verdict.kind, verdict.body)
    BY DEF IInv, Answer, history, Handling, Typing, TypeOK
<1>2. CASE verdict.kind = "result"
    <2>1. /\ Service!Valid(req) /\ aircraft = Service!Effect(prior, req)
          /\ verdict.body \in Service!Bodies(prior, req)
        BY <1>1, <1>2 DEF IInv, AtReply
    <2>2. Service!Succeed(req)
        BY <1>1, <1>2, <2>1 DEF Service!Succeed, Earlier
    <2> QED
        BY <1>1, <2>2 DEF Service!Next
<1>3. CASE verdict.kind = "error"
    <2>1. /\ req.method \notin Service!Reads /\ verdict.body = Service!NoBody
          /\ aircraft \in IF Service!Valid(req) THEN Service!Leftovers(prior, req) ELSE {prior}
        BY <1>1, <1>3 DEF IInv, AtReply
    <2>2. Service!Refuse(req)
        BY <1>1, <1>3, <2>1 DEF Service!Refuse, Earlier
    <2> QED
        BY <1>1, <2>2 DEF Service!Next
<1> QED
    BY <1>1, <1>2, <1>3

\* Every step is a step of RpcService or is not seen.
LEMMA NextRefines == IInv /\ [Next]_vars => [Service!Next]_(Service!vars)
<1> SUFFICES ASSUME IInv, [Next]_vars PROVE Service!Next \/ UNCHANGED Service!vars
    OBVIOUS
<1>1. CASE UNCHANGED vars \/ (\E r \in Requests : Arrive(r)) \/ (\E f \in Files : Rewrite(f))
    BY <1>1, SilentStep DEF vars, Arrive, Rewrite
<1>2. CASE Receive
    BY <1>2, ReceiveRefines
<1>3. CASE Answer
    BY <1>3, AnswerRefines
<1>4. CASE Command \/ Horizontal \/ Upward \/ GetMode \/ GetRecordingState \/ GetZoom
    BY <1>4, SilentStep
    DEF Command, Horizontal, Upward, GetMode, GetRecordingState, GetZoom, Proceed, Fail
<1>5. CASE Upload
    BY <1>5, SilentStep
    DEF Upload, WaypointInit, Fopen, Ftell, Malloc, Fread, Overrun, Send, Proceed, Fail
<1> QED
    BY <1>1, <1>2, <1>3, <1>4, <1>5 DEF Next, Handler

\* Carrying requests out call by call, with failures, losses and datagrams in
\* between, is indistinguishable to clients from carrying each out at once.
THEOREM RefinesService == Spec => ImplementsService
<1>1. Init => Service!Init
    BY DEF Init, Service!Init
<1>2. Spec => Service!Spec
    BY <1>1, NextRefines, Invariance, PTL DEF Spec, Service!Spec
<1> QED
    BY <1>2 DEF ImplementsService

=============================================================================
