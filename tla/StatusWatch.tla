----------------------------- MODULE StatusWatch -----------------------------
(***************************************************************************)
(* tools/watch_drone_status_local.sh: a loop that fetches the status of    *)
(* the aircraft and prints it. A fetch runs a Python client on the board   *)
(* over ssh. The client opens a UDP socket, asks psdkd its six questions   *)
(* one after the other, taking whatever datagram arrives next for the      *)
(* answer, and gives up at the first one that stays out for 4 s.           *)
(*                                                                         *)
(* A client is named by the port its socket is bound to. When the ssh      *)
(* connection breaks, the loop goes on while the client on the board still *)
(* runs, so that several clients can talk to psdkd. psdkd is the stub      *)
(* build of StubCtrl; it serves operators too, and may be restarted.       *)
(***************************************************************************)
EXTENDS StubCtrl, Sequences, FiniteSets

CONSTANTS Ports,     \* ephemeral ports of the board
          Commands,  \* what operators send: [method, arg]
          QueueMax,  \* bound: operators' datagrams waiting in psdkd's socket
          NoPort, Operator

ASSUME PortsAssumption == NoPort \notin Ports /\ Operator \notin Ports /\ NoPort # Operator

\* The handlers reject a negative camera mode.
ASSUME CommandsAssumption ==
    \A c \in Commands : /\ c.arg \in Int
                        /\ c.method = "drone.set_camera_mode" => c.arg \in Nat

VARIABLES watch,    \* the loop: "sleep", "fetch", "render" or "diag"
          session,  \* client of the ssh connection, NoPort while there is none
          payload,  \* what the fetch printed: the answers it got
          sock,     \* sock[p]: "closed", "send", "recv" or "done"
          results,  \* results[p]: the answers of client p so far
          rcv,      \* rcv[p]: receive buffer of the client's socket
          inbox,    \* psdkd's receive buffer
          stub,     \* psdkd's static variables
          since     \* history: since[p], the stubs there were since p last sent

loop == <<watch, session, payload>>
clients == <<sock, results, rcv>>
daemon == <<inbox, stub>>
vars == <<loop, clients, daemon, since>>

\* The client's requests; a request is sent with its index as its id.
reqs == << "system.ping", "drone.get_telemetry", "drone.get_battery_info",
           "drone.get_gimbal_angle", "drone.get_camera_state", "drone.get_rtk_status" >>

\* The request the client is at.
Current(p) == Len(results[p]) + 1

Init == /\ watch = "sleep" /\ session = NoPort /\ payload = <<>>
        /\ sock = [p \in Ports |-> "closed"]
        /\ results = [p \in Ports |-> <<>>]
        /\ rcv = [p \in Ports |-> <<>>]
        /\ inbox = <<>> /\ stub = Fresh
        /\ since = [p \in Ports |-> {}]

-----------------------------------------------------------------------------
(* The loop.                                                               *)

StartFetch == /\ watch = "sleep"
              /\ watch' = "fetch"
              /\ UNCHANGED <<session, payload, clients, daemon, since>>

\* ssh connects and the client opens its socket. The kernel binds it to a
\* port no socket has, and datagrams from that port's last use are gone.
SshConnects(p) ==
    /\ watch = "fetch" /\ session = NoPort
    /\ sock[p] = "closed" /\ \A i \in 1..Len(inbox) : inbox[i].peer # p
    /\ session' = p
    /\ sock' = [sock EXCEPT ![p] = "send"]
    /\ UNCHANGED <<watch, payload, results, rcv, daemon, since>>

\* ssh returns with an error: it could not connect, or the connection broke
\* and the client is left to itself.
SshFails == /\ watch = "fetch"
            /\ watch' = "diag"
            /\ session' = NoPort
            /\ UNCHANGED <<payload, clients, daemon, since>>

\* render_once: the six answers, or an error if one of the calls raised.
Render == /\ watch = "render"
          /\ watch' = "sleep" /\ payload' = <<>>
          /\ UNCHANGED <<session, clients, daemon, since>>

\* fetch_diag: it only looks, and its failure is ignored.
Diag == /\ watch = "diag"
        /\ watch' = "sleep"
        /\ UNCHANGED <<session, payload, clients, daemon, since>>

-----------------------------------------------------------------------------
(* A client.                                                               *)

\* sendto, which psdkd's full buffer or psdkd's absence turns into nothing.
Send(p) ==
    /\ sock[p] = "send"
    /\ sock' = [sock EXCEPT ![p] = "recv"]
    /\ since' = [since EXCEPT ![p] = {stub}]
    /\ \/ inbox' = Append(inbox, [peer |-> p, id |-> Current(p),
                                  method |-> reqs[Current(p)], arg |-> 0])
       \/ UNCHANGED inbox
    /\ UNCHANGED <<loop, results, rcv, stub>>

Recv(p) ==
    /\ sock[p] = "recv" /\ rcv[p] # <<>>
    /\ results' = [results EXCEPT ![p] = Append(@, Head(rcv[p]))]
    /\ rcv' = [rcv EXCEPT ![p] = Tail(@)]
    /\ sock' = [sock EXCEPT ![p] = IF Current(p) = Len(reqs) THEN "done" ELSE "send"]
    /\ since' = [since EXCEPT ![p] = {}]
    /\ UNCHANGED <<loop, daemon>>

\* Mutant: the client goes on with the next request, without an answer to this.
TimeoutContinues(p) ==
    /\ sock[p] = "recv" /\ rcv[p] = <<>>
    /\ sock' = [sock EXCEPT ![p] = IF Current(p) = Len(reqs) THEN "done" ELSE "send"]
    /\ results' = [results EXCEPT ![p] = Append(@, [id |-> Current(p), result |-> Null])]
    /\ UNCHANGED <<loop, rcv, daemon, since>>

\* Mutant: the client sends the request again.
TimeoutResends(p) ==
    /\ sock[p] = "recv" /\ rcv[p] = <<>>
    /\ sock' = [sock EXCEPT ![p] = "send"]
    /\ UNCHANGED <<loop, results, rcv, daemon, since>>

\* Mutant: the socket has no timeout.
TimeoutNever(p) == sock[p] = "none" /\ UNCHANGED vars

\* recvfrom raises after 4 s without a datagram, and the client is done with
\* its requests.
Timeout(p) ==
    /\ sock[p] = "recv" /\ rcv[p] = <<>>
    /\ sock' = [sock EXCEPT ![p] = "done"]
    /\ UNCHANGED <<loop, results, rcv, daemon, since>>

\* The client prints its results and ends. Only the client of the current
\* connection is heard.
Finish(p) ==
    /\ sock[p] = "done"
    /\ sock' = [sock EXCEPT ![p] = "closed"]
    /\ results' = [results EXCEPT ![p] = <<>>]
    /\ rcv' = [rcv EXCEPT ![p] = <<>>]
    /\ since' = [since EXCEPT ![p] = {}]
    /\ \/ session = p /\ watch' = "render" /\ session' = NoPort /\ payload' = results[p]
       \/ session # p /\ UNCHANGED <<watch, session, payload>>
    /\ UNCHANGED daemon

Client(p) == Send(p) \/ Recv(p) \/ Timeout(p) \/ Finish(p)

-----------------------------------------------------------------------------
(* psdkd.                                                                  *)

\* Waiting clients learn that the stub's variables were s for a while.
Seen(s) == since' = [p \in Ports |-> IF sock[p] = "recv" THEN since[p] \cup {s}
                                                         ELSE since[p]]

\* One request of the event loop. The answer goes to the request's port, over
\* the loopback interface; it is lost if the socket has been closed, and may
\* be lost in any case.
Serve ==
    /\ inbox # <<>>
    /\ inbox' = Tail(inbox)
    /\ LET r == Head(inbox)
           reply == [id |-> r.id, result |-> Answer(stub, r.method)]
       IN  /\ stub' = Effect(stub, r.method, r.arg)
           /\ Seen(Effect(stub, r.method, r.arg))
           /\ \/ /\ r.peer \in Ports /\ sock[r.peer] # "closed"
                 /\ rcv' = [rcv EXCEPT ![r.peer] = Append(@, reply)]
              \/ UNCHANGED rcv
    /\ UNCHANGED <<loop, sock, results>>

\* An operator's command arrives.
Command(c) ==
    /\ Cardinality({i \in 1..Len(inbox) : inbox[i].peer = Operator}) < QueueMax
    /\ inbox' = Append(inbox, [peer |-> Operator, id |-> 1, method |-> c.method,
                               arg |-> c.arg])
    /\ UNCHANGED <<loop, clients, stub, since>>

\* psdkd is stopped and started again.
Restart == /\ inbox' = <<>> /\ stub' = Fresh
           /\ Seen(Fresh)
           /\ UNCHANGED <<loop, clients>>

-----------------------------------------------------------------------------
Next == \/ StartFetch \/ SshFails \/ Render \/ Diag
        \/ \E p \in Ports : SshConnects(p) \/ Client(p)
        \/ Serve \/ Restart
        \/ \E c \in Commands : Command(c)

Spec == Init /\ [][Next]_vars

\* The loop and the clients run on, and an attempt to connect comes to an end.
\* Nothing is asked of psdkd, of operators or of the network.
FairSpec == /\ Spec
            /\ WF_vars(StartFetch \/ Render \/ Diag)
            /\ WF_vars(session = NoPort /\ (SshFails \/ \E p \in Ports : SshConnects(p)))
            /\ \A p \in Ports : WF_vars(Client(p))

-----------------------------------------------------------------------------
(* Properties.                                                             *)

Asked == {reqs[n] : n \in 1..Len(reqs)} \cup {c.method : c \in Commands}
Requests == [peer : Ports \cup {Operator}, id : 1..Len(reqs), method : Asked, arg : Int]

TypeOK == /\ watch \in {"sleep", "fetch", "render", "diag"}
          /\ session \in Ports \cup {NoPort}
          /\ sock \in [Ports -> {"closed", "send", "recv", "done"}]
          /\ Len(payload) \in 0..Len(reqs)
          /\ \A p \in Ports : Len(results[p]) \in 0..Len(reqs) /\ Len(rcv[p]) \in 0..1
          /\ inbox \in Seq(Requests)
          /\ stub \in Stubs
          /\ session # NoPort => watch = "fetch" /\ sock[session] # "closed"

\* An answer to the n-th request: it carries that request's id, and it was
\* true at some moment among stubs.
AnswerTo(reply, n, stubs) ==
    reply.id = n /\ \E s \in stubs : reply.result = Answer(s, reqs[n])

\* The client never compares the id of an answer with the id of its request.
\* All the same, every datagram it takes answers the request it waits for,
\* with what was true between the request and now, although answers get lost
\* or come after the timeout, other clients are left running and psdkd
\* restarts; and what is rendered has each answer under its own request.
OwnAnswers ==
    /\ \A p \in Ports : sock[p] = "recv" =>
           \A i \in 1..Len(rcv[p]) : AnswerTo(rcv[p][i], Current(p), since[p])
    /\ watch = "render" =>
           \A i \in 1..Len(payload) : payload[i].id = i

\* Every fetch comes to an end, printed or not, and the next one follows, with
\* psdkd answering, silent or gone.
FetchEnds == (watch = "fetch" ~> watch = "sleep") /\ (watch = "sleep" ~> watch = "fetch")

=============================================================================
