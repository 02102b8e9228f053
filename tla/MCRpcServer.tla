---------------------------- MODULE MCRpcServer ----------------------------
(***************************************************************************)
(* Instances of RpcServer for TLC.                                         *)
(***************************************************************************)
EXTENDS RpcServer

Rq(peer, id, method, params) ==
    [peer |-> peer, id |-> id, method |-> method, params |-> params]

\* Every method, with parameters missing, out of range, at the edge of the
\* range and inside it. -1 is the id of a request without one.
MCRequests ==
    { Rq("a", -1, "malformed", <<>>), Rq("a", 1, "unknown", <<>>),
      Rq("b", 1, "ping", <<>>), Rq("a", -1, "telemetry", <<>>),
      Rq("a", 2, "camera", <<>>),
      Rq("a", 3, "set_rth", <<>>), Rq("a", 3, "set_rth", <<0>>),
      Rq("a", 3, "set_rth", <<70000>>),
      Rq("a", 4, "set_gimbal", <<>>), Rq("a", 4, "set_gimbal", <<-30, 0, 5>>),
      Rq("a", 5, "set_mode", <<-1>>), Rq("b", 5, "set_mode", <<2>>),
      Rq("a", 6, "set_zoom", <<0>>), Rq("a", 6, "set_zoom", <<5>>),
      Rq("a", 7, "set_home", <<10>>), Rq("a", 7, "set_home", <<-90, 180>>),
      Rq("a", 7, "set_home", <<91, 0>>),
      Rq("a", 8, "set_avoidance", <<>>), Rq("b", 8, "set_avoidance", <<0>>),
      Rq("a", 8, "set_avoidance", <<2>>),
      Rq("a", 9, "photo", <<>>), Rq("a", 9, "start_rec", <<>>),
      Rq("a", 9, "stop_rec", <<>>),
      Rq("a", 10, "upload", <<>>), Rq("a", 10, "upload", <<-1>>),
      Rq("b", 10, "upload", <<1>>) }

AvoidanceRequests == { Rq("a", 8, "set_avoidance", <<m>>) : m \in 0..2 }

=============================================================================
