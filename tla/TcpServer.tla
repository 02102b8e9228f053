----------------------------- MODULE TcpServer -----------------------------
(***************************************************************************)
(* core/server/tcp_server.c: the single-threaded epoll server that         *)
(* collects newline-terminated requests from several TCP clients.          *)
(*                                                                         *)
(* One step is one system call of the server or one call of on_message.    *)
(* Between any two of them clients connect, send a byte, shut down or      *)
(* reset their connection. Client sockets are edge-triggered: the kernel   *)
(* reports a descriptor once and again only after something new happened   *)
(* on it; the listening socket is level-triggered. Descriptor numbers are  *)
(* given out lowest first, so that one is used again while events of its   *)
(* former connection may still wait in ev_scratch.                         *)
(***************************************************************************)
EXTENDS Integers, Sequences, FiniteSets, FiniteSetsExt, SequencesExt

CONSTANTS Conns,       \* connections clients may open, each at most once
          Streams,     \* bound: what a client may send, and any prefix of it;
                       \* the byte "r" is CR and "n" is LF
          MaxClients,  \* DRONE_MAX_CLIENTS
          BufLen       \* DRONE_RECV_BUF_LEN

ASSUME TcpBounds == MaxClients \in Nat \ {0} /\ BufLen \in Nat \ {0, 1}
ASSUME StreamsAssumption == Streams # {} /\ \A m \in Streams : m \in Seq(STRING)

VARIABLES phase,    \* phase[c]: "none", "pending", "open" or "closed"
          sent,     \* sent[c]: all bytes the client has sent
          taken,    \* taken[c]: how many of them read() has returned
          end,      \* end[c]: "no", or "fin" or "rst" once the client is gone
          backlog,  \* connections waiting for accept()
          owner,    \* owner[fd]: the connection of an open descriptor, or None
          watched,  \* client descriptors in the epoll interest list
          ready,    \* those with an edge that has not been reported
          clients,  \* srv->clients
          client_count,
          events,   \* the part of ev_scratch that is still to be handled
          pc,       \* "create", "idle", "events", "read", "lines" or "destroyed"
          cur,      \* slot whose recv_client is under way
          lines,    \* history: lines[c]: what on_message was called with
          wire      \* wire[c]: "whole", or "torn" once a reply was cut short

kernel == <<phase, sent, taken, end, backlog, owner, watched, ready, wire>>
server == <<clients, client_count, events, pc, cur, lines>>
vars == <<kernel, server>>

Slots == 1..MaxClients
\* One more than there are slots: a client that is rejected has one too.
Fds == 1..MaxClients + 1
None == "none"
Listen == 0
NoFd == -1
FreeSlot == [fd |-> NoFd, buf |-> <<>>]

ASSUME ConnsAssumption == None \notin Conns

Init == /\ phase = [c \in Conns |-> "none"]
        /\ sent = [c \in Conns |-> <<>>]
        /\ taken = [c \in Conns |-> 0]
        /\ end = [c \in Conns |-> "no"]
        /\ backlog = <<>>
        /\ owner = [fd \in Fds |-> None]
        /\ watched = {} /\ ready = {}
        /\ clients = [s \in Slots |-> FreeSlot]
        /\ client_count = 0
        /\ events = <<>>
        /\ pc = "create" /\ cur = 1
        /\ lines = [c \in Conns |-> <<>>]
        /\ wire = [c \in Conns |-> "whole"]

-----------------------------------------------------------------------------
(* The clients and the kernel.                                             *)

\* Something new happened on the server's socket of connection c.
Edge(c) == ready' = ready \cup {fd \in watched : owner[fd] = c}

Connect(c) ==
    /\ phase[c] = "none" /\ pc \notin {"create", "destroyed"}
    /\ phase' = [phase EXCEPT ![c] = "pending"]
    /\ backlog' = Append(backlog, c)
    /\ UNCHANGED <<sent, taken, end, owner, watched, ready, wire, server>>

\* One more byte reaches the server's socket.
Transmit(c) ==
    /\ phase[c] \in {"pending", "open"} /\ end[c] = "no"
    /\ \E stream \in Streams :
           /\ IsStrictPrefix(sent[c], stream)
           /\ sent' = [sent EXCEPT ![c] = SubSeq(stream, 1, Len(@) + 1)]
    /\ Edge(c)
    /\ UNCHANGED <<phase, taken, end, backlog, owner, watched, wire, server>>

\* The client shuts its side down, or resets the connection.
Hangup(c, how) ==
    /\ phase[c] \in {"pending", "open"} /\ end[c] = "no"
    /\ end' = [end EXCEPT ![c] = how]
    /\ Edge(c)
    /\ UNCHANGED <<phase, sent, taken, backlog, owner, watched, wire, server>>

Unread(c) == Len(sent[c]) - taken[c]

\* read() on the socket of c would not return EAGAIN.
Readable(c) == Unread(c) > 0 \/ end[c] # "no"

-----------------------------------------------------------------------------
(* The server's helpers.                                                   *)

\* find_client: the slot of a descriptor, if it has one.
SlotsOf(fd) == {s \in Slots : clients[s].fd = fd}

\* Mutant: the count is not taken down.
FreeClientUncounted(s) ==
    LET fd == clients[s].fd
        c == owner[fd]
    IN  /\ watched' = watched \ {fd}
        /\ ready' = ready \ {fd}
        /\ owner' = [owner EXCEPT ![fd] = None]
        /\ phase' = [phase EXCEPT ![c] = "closed"]
        /\ clients' = [clients EXCEPT ![s] = FreeSlot]
        /\ UNCHANGED client_count

\* free_client: out of epoll, closed, slot emptied, count down.
FreeClient(s) ==
    LET fd == clients[s].fd
        c == owner[fd]
    IN  /\ watched' = watched \ {fd}
        /\ ready' = ready \ {fd}
        /\ owner' = [owner EXCEPT ![fd] = None]
        /\ phase' = [phase EXCEPT ![c] = "closed"]
        /\ clients' = [clients EXCEPT ![s] = FreeSlot]
        /\ client_count' = client_count - 1

\* The event at hand is done.
NextEvent == /\ events' = Tail(events)
             /\ pc' = IF Len(events) = 1 THEN "idle" ELSE "events"

-----------------------------------------------------------------------------
(* tcp_server_poll.                                                        *)

\* epoll_wait reports every ready descriptor, in any order. Its result has
\* room for all of them: a client each, and the listening socket.
EpollWait ==
    /\ pc = "idle"
    /\ LET due == ready \cup (IF backlog # <<>> THEN {Listen} ELSE {})
       IN  /\ due # {}
           /\ events' \in SetToSeqs(due)
    /\ ready' = {}
    /\ pc' = "events"
    /\ UNCHANGED <<phase, sent, taken, end, backlog, owner, watched, wire,
                   clients, client_count, cur, lines>>

\* accept_client. accept() takes the lowest free descriptor; at the limit the
\* connection is closed at once; otherwise it gets the first free slot and is
\* added to epoll, which reports it if something has already come in.
Accept ==
    /\ pc = "events" /\ Head(events) = Listen
    /\ backlog # <<>>
    /\ LET c == Head(backlog)
           fd == Min({f \in Fds : owner[f] = None})
           s == Min(SlotsOf(NoFd))
       IN  /\ backlog' = Tail(backlog)
           /\ IF client_count >= MaxClients
                THEN /\ phase' = [phase EXCEPT ![c] = "closed"]
                     /\ UNCHANGED <<owner, watched, ready, clients, client_count>>
                ELSE /\ phase' = [phase EXCEPT ![c] = "open"]
                     /\ owner' = [owner EXCEPT ![fd] = c]
                     /\ watched' = watched \cup {fd}
                     /\ ready' = IF Readable(c) THEN ready \cup {fd} ELSE ready
                     /\ clients' = [clients EXCEPT ![s] = [fd |-> fd, buf |-> <<>>]]
                     /\ client_count' = client_count + 1
    /\ NextEvent
    /\ UNCHANGED <<sent, taken, end, wire, cur, lines>>

\* EPOLL_CTL_ADD fails: the slot just taken is freed again.
AcceptAddFails ==
    /\ pc = "events" /\ Head(events) = Listen
    /\ backlog # <<>> /\ client_count < MaxClients
    /\ LET c == Head(backlog)
       IN  /\ phase' = [phase EXCEPT ![c] = "closed"]
    /\ backlog' = Tail(backlog)
    /\ NextEvent
    /\ UNCHANGED <<sent, taken, end, owner, watched, ready, wire, clients,
                   client_count, cur, lines>>

\* accept() itself fails; the connection stays where it is.
AcceptFails ==
    /\ pc = "events" /\ Head(events) = Listen
    /\ NextEvent
    /\ UNCHANGED <<kernel, clients, client_count, cur, lines>>

\* A client's event: recv_client, unless the client has gone meanwhile.
ClientEvent ==
    /\ pc = "events" /\ Head(events) # Listen
    /\ IF SlotsOf(Head(events)) = {}
         THEN NextEvent /\ UNCHANGED cur
         ELSE /\ cur' = Min(SlotsOf(Head(events)))
              /\ pc' = "read"
              /\ UNCHANGED events
    /\ UNCHANGED <<kernel, clients, client_count, lines>>

-----------------------------------------------------------------------------
(* recv_client.                                                            *)

Conn == owner[clients[cur].fd]

\* Mutant: no room is kept for the terminating NUL.
SpaceUnterminated == BufLen - Len(clients[cur].buf)

Space == BufLen - Len(clients[cur].buf) - 1

\* Mutant: one read() per event.
ReadDataOnce ==
    /\ pc = "read" /\ Space > 0
    /\ end[Conn] # "rst" /\ Unread(Conn) > 0
    /\ LET n == Min({Space, Unread(Conn)})
       IN  /\ clients' = [clients EXCEPT ![cur].buf =
                              @ \o SubSeq(sent[Conn], taken[Conn] + 1, taken[Conn] + n)]
           /\ taken' = [taken EXCEPT ![Conn] = @ + n]
    /\ pc' = "lines"
    /\ UNCHANGED <<phase, sent, end, backlog, owner, watched, ready, wire,
                   client_count, events, cur, lines>>

\* read() returned data.
ReadData ==
    /\ pc = "read" /\ Space > 0
    /\ end[Conn] # "rst" /\ Unread(Conn) > 0
    /\ LET n == Min({Space, Unread(Conn)})
       IN  /\ clients' = [clients EXCEPT ![cur].buf =
                              @ \o SubSeq(sent[Conn], taken[Conn] + 1, taken[Conn] + n)]
           /\ taken' = [taken EXCEPT ![Conn] = @ + n]
    /\ UNCHANGED <<phase, sent, end, backlog, owner, watched, ready, wire,
                   client_count, events, pc, cur, lines>>

\* The socket is drained: EAGAIN ends the loop.
ReadAgain ==
    /\ pc = "read" /\ Space > 0 /\ ~Readable(Conn)
    /\ pc' = "lines"
    /\ UNCHANGED <<kernel, clients, client_count, events, cur, lines>>

\* The buffer is full, the client has shut down, or read() fails.
ReadCloses ==
    /\ pc = "read"
    /\ \/ Space = 0 /\ FreeClient(cur)
       \/ Space > 0 /\ end[Conn] = "fin" /\ Unread(Conn) = 0 /\ FreeClient(cur)
       \/ Space > 0 /\ end[Conn] = "rst" /\ FreeClient(cur)
    /\ NextEvent
    /\ UNCHANGED <<sent, taken, end, backlog, wire, cur, lines>>

\* A line without the CR before its LF.
Chomp(l) == IF l # <<>> /\ Last(l) = "r" THEN Front(l) ELSE l

LineEnds(s) == {i \in 1..Len(s) : s[i] = "n"}

\* The first complete line in the current client's buffer.
LineEnd == Min(LineEnds(clients[cur].buf))
NextLine == Chomp(SubSeq(clients[cur].buf, 1, LineEnd - 1))

\* on_message is running for the current client: an empty line is skipped.
Calling == pc = "lines" /\ LineEnds(clients[cur].buf) # {} /\ NextLine # <<>>

\* The next complete line is cut off the buffer and on_message returns, or asks
\* for the connection to be closed.
Line ==
    /\ pc = "lines"
    /\ LineEnds(clients[cur].buf) # {}
    /\ lines' = IF Calling THEN [lines EXCEPT ![Conn] = Append(@, NextLine)] ELSE lines
    /\ \/ /\ clients' = [clients EXCEPT ![cur].buf = SubSeq(@, LineEnd + 1, Len(@))]
          /\ UNCHANGED <<phase, owner, watched, ready, client_count, events, pc>>
       \/ Calling /\ FreeClient(cur) /\ NextEvent
    /\ UNCHANGED <<sent, taken, end, backlog, wire, cur>>

\* Mutant: buf_len is reset when the complete lines are done.
LinesDoneReset ==
    /\ pc = "lines"
    /\ LineEnds(clients[cur].buf) = {}
    /\ clients' = [clients EXCEPT ![cur].buf = <<>>]
    /\ NextEvent
    /\ UNCHANGED <<kernel, client_count, cur, lines>>

\* What is left is a partial line, and is kept for the next call.
LinesDone ==
    /\ pc = "lines"
    /\ LineEnds(clients[cur].buf) = {}
    /\ NextEvent
    /\ UNCHANGED <<kernel, clients, client_count, cur, lines>>

-----------------------------------------------------------------------------
(* The rest of the interface.                                              *)

\* tcp_server_create: the socket, its address or epoll cannot be had, and what
\* was made so far is released again; or the server is ready.
Create == /\ pc = "create"
          /\ pc' \in {"idle", "destroyed"}
          /\ UNCHANGED <<kernel, clients, client_count, events, cur, lines>>

\* tcp_server_send, from an on_message to its client. The socket does not
\* block: a write that takes a part of the reply is a success, and the line
\* end is sent after it.
TcpSend == /\ Calling
           /\ wire' \in {wire, [wire EXCEPT ![Conn] = "torn"]}
           /\ UNCHANGED <<phase, sent, taken, end, backlog, owner, watched, ready, server>>

\* tcp_server_close_client, between two polls or from an on_message that is
\* serving another client.
CloseClient(s) ==
    /\ clients[s].fd # NoFd
    /\ pc = "idle" \/ (Calling /\ s # cur)
    /\ FreeClient(s)
    /\ UNCHANGED <<sent, taken, end, backlog, wire, events, pc, cur, lines>>

\* tcp_server_destroy closes the clients, epoll and the listening socket.
Destroy ==
    /\ pc = "idle"
    /\ LET gone == {clients[s].fd : s \in Slots} \ {NoFd}
       IN  owner' = [fd \in Fds |-> IF fd \in gone THEN None ELSE owner[fd]]
    /\ LET cut == {c \in Conns : phase[c] \in {"pending", "open"}}
       IN  /\ phase' = [c \in Conns |-> IF c \in cut THEN "closed" ELSE phase[c]]
    /\ backlog' = <<>>
    /\ watched' = {} /\ ready' = {}
    /\ clients' = [s \in Slots |-> FreeSlot] /\ client_count' = 0
    /\ pc' = "destroyed"
    /\ UNCHANGED <<sent, taken, end, wire, events, cur, lines>>

Recv == ReadData \/ ReadAgain \/ ReadCloses \/ Line \/ LinesDone

Poll == \/ EpollWait \/ Accept \/ AcceptAddFails \/ AcceptFails \/ ClientEvent
        \/ Recv

Next == \/ \E c \in Conns : \/ Connect(c)
                            \/ Transmit(c)
                            \/ \E how \in {"fin", "rst"} : Hangup(c, how)
        \/ Poll
        \/ \E s \in Slots : CloseClient(s)
        \/ Create \/ TcpSend \/ Destroy

Spec == Init /\ [][Next]_vars

\* The event loop is run and on_message returns.
FairSpec == Spec /\ WF_vars(Poll)

-----------------------------------------------------------------------------
(* Properties.                                                             *)

TypeOK == /\ phase \in [Conns -> {"none", "pending", "open", "closed"}]
          /\ \A c \in Conns : (\E m \in Streams : IsPrefix(sent[c], m)) /\ taken[c] \in 0..Len(sent[c])
          /\ end \in [Conns -> {"no", "fin", "rst"}]
          /\ wire \in [Conns -> {"whole", "torn"}]
          /\ backlog \in Seq(Conns)
          /\ owner \in [Fds -> Conns \cup {None}]
          /\ ready \subseteq watched /\ watched \subseteq Fds
          /\ \A s \in Slots : /\ clients[s].fd \in Fds \cup {NoFd}
                              /\ Len(clients[s].buf) < BufLen
          /\ client_count \in 0..MaxClients
          /\ events \in Seq(Fds \cup {Listen})
          /\ pc \in {"create", "idle", "events", "read", "lines", "destroyed"} /\ cur \in Slots

InUse == {s \in Slots : clients[s].fd # NoFd}

\* The slot table, the count, epoll's interest list and the descriptor table
\* agree after every call, on every path by which a client comes or goes: no
\* descriptor is leaked, shared by two slots, or watched without a slot.
TablesAgree ==
    /\ client_count = Cardinality(InUse)
    /\ watched = {clients[s].fd : s \in InUse}
    /\ Cardinality(watched) = client_count
    /\ {fd \in Fds : owner[fd] # None} = watched
    /\ {owner[fd] : fd \in watched} = {c \in Conns : phase[c] = "open"}

\* Edge-triggered readiness is never lost: when the server goes back to
\* epoll_wait, every client with something to read has an unreported edge.
NoLostEdge ==
    pc = "idle" =>
        \A fd \in watched : Readable(owner[fd]) => fd \in ready

\* The bytes of a connection the server has read.
Received(c) == SubSeq(sent[c], 1, taken[c])

\* One more byte of a stream: the non-empty lines before it, done, and the
\* part after the last LF, rest.
Feed(acc, b) ==
    IF b # "n" THEN [done |-> acc.done, rest |-> Append(acc.rest, b)]
    ELSE [done |-> IF Chomp(acc.rest) = <<>> THEN acc.done
                   ELSE Append(acc.done, Chomp(acc.rest)),
          rest |-> <<>>]

\* The bytes of a stream, one after the other.
SplitFrom(acc, stream) ==
    LET f[n \in 0..Len(stream)] == IF n = 0 THEN acc ELSE Feed(f[n - 1], stream[n])
    IN  f[Len(stream)]

\* The non-empty lines of a stream, and the part after the last LF.
Split(stream) == SplitFrom([done |-> <<>>, rest |-> <<>>], stream)

\* However the bytes are cut up by the network and by the buffer, on_message
\* is called with lines of that connection only, each once and in order; and
\* between two polls with all of them, the partial line being kept.
Framing ==
    /\ \A c \in Conns : IsPrefix(lines[c], Split(Received(c)).done)
    /\ pc \in {"idle", "events"} =>
          \A s \in InUse :
              LET c == owner[clients[s].fd]
              IN  Split(Received(c)) = [done |-> lines[c], rest |-> clients[s].buf]

\* What a client has sent is read, or the connection is closed.
BytesRead ==
    \A c \in Conns : (phase[c] = "open" /\ Readable(c))
                        ~> (phase[c] = "closed" \/ ~Readable(c))

=============================================================================
