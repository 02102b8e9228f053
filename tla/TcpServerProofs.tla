-------------------------- MODULE TcpServerProofs --------------------------
(***************************************************************************)
(* Proofs about TcpServer, for any number of slots, any buffer, any        *)
(* connections and any streams.                                            *)
(***************************************************************************)
EXTENDS TcpServer, FiniteSetTheorems, WellFoundedInduction, SequenceTheorems, TLAPS

-----------------------------------------------------------------------------
(* The inductive invariant.                                                *)

\* Types that TypeOK leaves open.
Slot == [fd : Fds \cup {NoFd}, buf : Seq(STRING)]
Typing == /\ TypeOK
          /\ sent \in [Conns -> Seq(STRING)]
          /\ taken \in [Conns -> Nat]
          /\ clients \in [Slots -> Slot]

\* A descriptor belongs to one slot and a connection to one descriptor.
OneEach == /\ \A s, t \in InUse : clients[s].fd = clients[t].fd => s = t
           /\ \A f, g \in watched : owner[f] = owner[g] => f = g

\* A connection waits in the backlog once.
Waiting == /\ \A i \in 1..Len(backlog) : phase[backlog[i]] = "pending"
           /\ \A i, j \in 1..Len(backlog) : backlog[i] = backlog[j] => i = j

\* recv_client serves a client that has a slot, whose event is at hand.
Serving == /\ pc \in {"create", "idle", "destroyed"} <=> events = <<>>
           /\ pc \in {"read", "lines"} => cur \in InUse /\ Head(events) = clients[cur].fd

\* The events still to be handled: once the socket is drained, not the one at hand.
FirstOpen == IF pc = "lines" THEN 2 ELSE 1
Due(fd) == \E i \in FirstOpen..Len(events) : events[i] = fd

\* A client with something to read has an edge, unreported or not yet handled.
Edges == \A fd \in watched : Readable(owner[fd]) => fd \in ready \/ Due(fd)

IInv == Typing /\ TablesAgree /\ OneEach /\ Waiting /\ Serving /\ Edges

-----------------------------------------------------------------------------
(* Numbers, sets and sequences.                                            *)

\* A set of natural numbers that is not empty has a least member.
LEMMA MinMember ==
    ASSUME NEW S \in SUBSET Nat, S # {}
    PROVE  Min(S) \in S /\ \A x \in S : Min(S) <= x
<1>1. \E x \in S : \A y \in S : <<y, x>> \notin OpToRel(<, Nat)
    BY NatLessThanWellFounded, WFMin
<1>2. \A x, y \in Nat : y < x => <<y, x>> \in OpToRel(<, Nat)
    BY Zenon DEF OpToRel
<1>3. \E x \in S : \A y \in S : ~(y < x)
    BY <1>1, <1>2, Zenon
<1>4. \E x \in S : \A y \in S : x <= y
    BY <1>3
<1> QED
    BY <1>4 DEF Min

\* epoll_wait's answer names everything that is due, and nothing else.
LEMMA EveryOrder ==
    ASSUME NEW S, IsFiniteSet(S), NEW e \in SetToSeqs(S)
    PROVE  /\ e \in Seq(S) /\ Len(e) = Cardinality(S)
           /\ \A x \in S : \E i \in 1..Len(e) : e[i] = x
<1> DEFINE n == Cardinality(S)
<1>1. n \in Nat
    BY FS_CardinalityType
<1>2. e \in [1..n -> S] /\ \A i, j \in 1..n : i # j => e[i] # e[j]
    BY DEF SetToSeqs
<1> HIDE DEF n
<1>3. e \in Seq(S) /\ Len(e) = n
    BY <1>1, <1>2
<1>4. e \in Injection(1..n, S)
    BY <1>2 DEF Injection, IsInjective
<1>5. Cardinality(1..n) = n
    BY <1>1, FS_Interval
<1>6. e \in Surjection(1..n, S)
    BY <1>4, <1>5, FS_Injection DEF n
<1>7. \A x \in S : \E i \in 1..n : e[i] = x
    BY <1>6 DEF Surjection
<1> QED
    BY <1>3, <1>7 DEF n

-----------------------------------------------------------------------------
(* The tables.                                                             *)

\* TablesAgree, entry by entry.
Entries ==
    /\ client_count = Cardinality(InUse) /\ Cardinality(watched) = client_count
    /\ \A s \in InUse : clients[s].fd \in watched
    /\ \A fd \in watched : \E s \in InUse : clients[s].fd = fd
    /\ \A fd \in Fds : owner[fd] # None <=> fd \in watched
    /\ \A fd \in watched : phase[owner[fd]] = "open"
    /\ \A c \in Conns : phase[c] = "open" => \E fd \in watched : owner[fd] = c

\* The two forms say the same.
LEMMA TablesByEntry == Typing => (TablesAgree <=> Entries)
<1> SUFFICES ASSUME Typing PROVE TablesAgree <=> Entries
    OBVIOUS
<1>1. /\ watched \subseteq Fds /\ owner \in [Fds -> Conns \cup {None}]
    BY DEF Typing, TypeOK
<1>2. ASSUME TablesAgree PROVE Entries
    BY <1>1, <1>2 DEF TablesAgree, Entries
<1>3. ASSUME Entries PROVE TablesAgree
    <2>1. watched = {clients[s].fd : s \in InUse}
        BY <1>3 DEF Entries
    <2>2. {fd \in Fds : owner[fd] # None} = watched
        BY <1>1, <1>3 DEF Entries
    <2>3. {owner[fd] : fd \in watched} = {c \in Conns : phase[c] = "open"}
        BY <1>1, <1>3 DEF Entries
    <2> QED
        BY <1>3, <2>1, <2>2, <2>3 DEF TablesAgree, Entries
<1> QED
    BY <1>2, <1>3

\* The same after a step.
LEMMA TablesByEntryNext == Typing' => (TablesAgree' <=> Entries')
    BY TablesByEntry, PTL

\* Slots and descriptors are finitely many.
LEMMA Finite ==
    ASSUME Typing
    PROVE  /\ IsFiniteSet(Slots) /\ Cardinality(Slots) = MaxClients
           /\ IsFiniteSet(Fds) /\ Cardinality(Fds) = MaxClients + 1
           /\ IsFiniteSet(InUse) /\ IsFiniteSet(watched)
<1>1. /\ IsFiniteSet(Slots) /\ Cardinality(Slots) = MaxClients
      /\ IsFiniteSet(Fds) /\ Cardinality(Fds) = MaxClients + 1
    BY FS_Interval, TcpBounds DEF Slots, Fds
<1>2. InUse \in SUBSET Slots /\ watched \in SUBSET Fds
    BY DEF InUse, Typing, TypeOK
<1> QED
    BY <1>1, <1>2, FS_Subset

\* What the invariant says of a slot in use.
LEMMA SlotInUse ==
    ASSUME IInv, NEW s \in InUse
    PROVE  /\ s \in Slots /\ clients[s].fd \in Fds /\ clients[s].fd \in watched
           /\ owner[clients[s].fd] \in Conns /\ phase[owner[clients[s].fd]] = "open"
           /\ clients[s].buf \in Seq(STRING)
<1>1. Entries
    BY TablesByEntry DEF IInv
<1> QED
    BY <1>1 DEF IInv, Entries, Typing, TypeOK, InUse, Slot

\* The server starts with empty tables.
LEMMA InitIInv == Init => IInv
<1> SUFFICES ASSUME Init PROVE IInv
    OBVIOUS
<1>1. PICK m \in Streams : m \in Seq(STRING)
    BY StreamsAssumption
<1>2. IsPrefix(<<>>, m)
    BY <1>1 DEF IsPrefix
<1>3. 1 \in Slots /\ NoFd \notin Fds
    BY TcpBounds DEF Slots, Fds, NoFd
<1>4. clients \in [Slots -> Slot] /\ \A s \in Slots : clients[s] = FreeSlot
    BY DEF Init, Slot, FreeSlot
<1>5. /\ \A c \in Conns : (\E x \in Streams : IsPrefix(sent[c], x)) /\ taken[c] \in 0..Len(sent[c])
      /\ sent \in [Conns -> Seq(STRING)] /\ taken \in [Conns -> Nat]
    BY <1>1, <1>2 DEF Init
<1>6. /\ \A s \in Slots : clients[s].fd \in Fds \cup {NoFd} /\ Len(clients[s].buf) < BufLen
      /\ client_count \in 0..MaxClients
    BY <1>4, TcpBounds DEF Init, FreeSlot
<1>7. Typing
    BY <1>3, <1>4, <1>5, <1>6 DEF Init, Typing, TypeOK
<1>8. InUse = {} /\ watched = {}
    BY <1>4 DEF InUse, FreeSlot, Init
<1>9. Entries
    BY <1>3, <1>8, FS_EmptySet DEF Entries, Init
<1>10. OneEach /\ Waiting /\ Serving /\ Edges
    BY <1>8 DEF OneEach, Waiting, Serving, Edges, Init
<1> QED
    BY <1>7, <1>9, <1>10, TablesByEntry DEF IInv

-----------------------------------------------------------------------------
(* Steps that leave the tables alone.                                      *)

\* No connection is opened or closed and no slot or descriptor changes hands.
LEMMA TablesKept ==
    ASSUME IInv, Typing', UNCHANGED <<owner, watched, client_count>>,
           \A s \in Slots : clients'[s].fd = clients[s].fd,
           \A c \in Conns : phase'[c] = "open" <=> phase[c] = "open"
    PROVE  TablesAgree' /\ OneEach' /\ InUse' = InUse
<1>1. InUse' = InUse /\ InUse \subseteq Slots
    BY DEF InUse
<1>2. watched \subseteq Fds /\ \A fd \in watched : owner[fd] \in Conns
    BY DEF IInv, Typing, TypeOK, TablesAgree
<1>3. OneEach'
    BY <1>1, <1>2 DEF IInv, OneEach
<1>4. Entries'
    BY <1>1, <1>2, TablesByEntry DEF IInv, Entries
<1> QED
    BY <1>1, <1>3, <1>4, TablesByEntryNext

\* One more byte of a stream.
LEMMA LongerPrefix ==
    ASSUME NEW s \in Seq(STRING), NEW m \in Seq(STRING), IsStrictPrefix(s, m)
    PROVE  LET t == SubSeq(m, 1, Len(s) + 1)
           IN  t \in Seq(STRING) /\ IsPrefix(t, m) /\ Len(t) = Len(s) + 1
<1>1. Len(s) <= Len(m) /\ SubSeq(s, 1, Len(s)) = SubSeq(m, 1, Len(s)) /\ s # m
    BY DEF IsStrictPrefix, IsPrefix
<1>2. Len(s) < Len(m)
    <2>1. SubSeq(s, 1, Len(s)) = s /\ SubSeq(m, 1, Len(m)) = m
        BY SubSeqFull
    <2> QED
        BY <1>1, <2>1
<1> DEFINE t == SubSeq(m, 1, Len(s) + 1)
<1>3. t \in Seq(STRING) /\ Len(t) = Len(s) + 1
    BY <1>2
<1>4. SubSeq(t, 1, Len(t)) = t
    BY <1>3, SubSeqFull
<1>5. IsPrefix(t, m)
    BY <1>2, <1>3, <1>4 DEF IsPrefix
<1> QED
    BY <1>3, <1>5

\* A client connects.
LEMMA ConnectIInv ==
    ASSUME IInv, NEW c \in Conns, Connect(c)
    PROVE  IInv'
<1> USE DEF server
<1>1. /\ phase[c] = "none" /\ phase' = [phase EXCEPT ![c] = "pending"]
      /\ phase \in [Conns -> {"none", "pending", "open", "closed"}]
      /\ backlog' = Append(backlog, c) /\ backlog \in Seq(Conns)
      /\ UNCHANGED <<sent, taken, end, owner, watched, ready, wire, server>>
    BY DEF Connect, IInv, Typing, TypeOK
<1>2. Typing'
    BY <1>1 DEF IInv, Typing, TypeOK, InUse
<1>3. TablesAgree' /\ OneEach' /\ InUse' = InUse
    <2>1. \A d \in Conns : phase'[d] = "open" <=> phase[d] = "open"
        BY <1>1
    <2> QED
        BY <1>1, <1>2, <2>1, TablesKept
<1>4. Waiting'
    BY <1>1 DEF IInv, Waiting
<1>5. Serving' /\ Edges'
    BY <1>1, <1>3 DEF IInv, Serving, Edges, Due, FirstOpen, Readable, Unread
<1> QED
    BY <1>2, <1>3, <1>4, <1>5 DEF IInv

\* A byte or the end of a stream arrives: what becomes readable gets an edge.
LEMMA ArrivalIInv ==
    ASSUME IInv, NEW c \in Conns,
           Transmit(c) \/ \E how \in {"fin", "rst"} : Hangup(c, how)
    PROVE  IInv'
<1> USE DEF server
<1>1. /\ ready' = ready \cup {fd \in watched : owner[fd] = c}
      /\ UNCHANGED <<phase, taken, backlog, owner, watched, wire, server>>
      /\ \A d \in Conns \ {c} : sent'[d] = sent[d] /\ end'[d] = end[d]
    BY DEF Transmit, Hangup, Edge, IInv, Typing, TypeOK
<1>2. /\ sent' \in [Conns -> Seq(STRING)] /\ end' \in [Conns -> {"no", "fin", "rst"}]
      /\ \A d \in Conns : (\E m \in Streams : IsPrefix(sent'[d], m)) /\ taken'[d] \in 0..Len(sent'[d])
    <2>1. CASE Transmit(c)
        <3>1. PICK m \in Streams : IsStrictPrefix(sent[c], m)
                                   /\ sent' = [sent EXCEPT ![c] = SubSeq(m, 1, Len(sent[c]) + 1)]
            BY <2>1 DEF Transmit, IInv, Typing
        <3>2. sent[c] \in Seq(STRING) /\ m \in Seq(STRING) /\ taken[c] \in 0..Len(sent[c])
            BY <3>1, StreamsAssumption DEF IInv, Typing, TypeOK
        <3>3. sent'[c] \in Seq(STRING) /\ IsPrefix(sent'[c], m) /\ Len(sent'[c]) = Len(sent[c]) + 1
            BY <3>1, <3>2, LongerPrefix DEF IInv, Typing
        <3>4. taken[c] \in 0..Len(sent'[c])
            BY <3>2, <3>3
        <3> QED
            BY <1>1, <2>1, <3>1, <3>3, <3>4 DEF Transmit, IInv, Typing, TypeOK
    <2>2. CASE \E how \in {"fin", "rst"} : Hangup(c, how)
        BY <2>2 DEF Hangup, IInv, Typing, TypeOK
    <2> QED
        BY <2>1, <2>2
<1>3. Typing'
    BY <1>1, <1>2 DEF IInv, Typing, TypeOK, InUse
<1>4. TablesAgree' /\ OneEach' /\ InUse' = InUse
    BY <1>1, <1>3, TablesKept
<1>5. Waiting' /\ Serving'
    BY <1>1, <1>4 DEF IInv, Waiting, Serving
<1>6. Edges'
    <2>1. \A fd \in watched : owner[fd] \in Conns
        BY DEF IInv, Typing, TypeOK, TablesAgree
    <2>2. \A fd \in watched : Due(fd)' <=> Due(fd)
        BY <1>1 DEF Due, FirstOpen
    <2>3. \A d \in Conns \ {c} : Readable(d)' <=> Readable(d)
        BY <1>1 DEF Readable, Unread
    <2> QED
        BY <1>1, <2>1, <2>2, <2>3 DEF IInv, Edges
<1> QED
    BY <1>3, <1>4, <1>5, <1>6 DEF IInv

\* The event at hand is dropped: the others are still due.
LEMMA EventDone ==
    ASSUME IInv, events # <<>>, NextEvent
    PROVE  /\ events' \in Seq(Fds \cup {Listen}) /\ pc' \in {"idle", "events"}
           /\ pc' \in {"create", "idle", "destroyed"} <=> events' = <<>>
           /\ \A fd \in Fds : Due(fd) /\ (pc = "lines" \/ fd # Head(events)) => Due(fd)'
<1>1. /\ events \in Seq(Fds \cup {Listen}) /\ events' = Tail(events)
      /\ pc' = IF Len(events) = 1 THEN "idle" ELSE "events"
    BY DEF IInv, Typing, TypeOK, NextEvent
<1>2. events' \in Seq(Fds \cup {Listen}) /\ Len(events') = Len(events) - 1 /\ Len(events) > 0
    BY <1>1
<1>3. \A i \in 2..Len(events) : i - 1 \in 1..Len(events') /\ events'[i - 1] = events[i]
    BY <1>1, <1>2
<1>4. events[1] = Head(events)
    BY <1>1
<1>5. ASSUME NEW fd \in Fds, Due(fd), pc = "lines" \/ fd # Head(events) PROVE Due(fd)'
    <2>1. PICK i \in FirstOpen..Len(events) : events[i] = fd
        BY <1>5 DEF Due
    <2>2. i \in 2..Len(events)
        BY <1>2, <1>4, <1>5, <2>1 DEF FirstOpen
    <2> QED
        BY <1>1, <1>2, <1>3, <2>1, <2>2 DEF Due, FirstOpen
<1> QED
    BY <1>1, <1>2, <1>5

\* Everything that is ready is reported.
LEMMA EpollWaitIInv ==
    ASSUME IInv, EpollWait
    PROVE  IInv'
<1> DEFINE due == ready \cup (IF backlog # <<>> THEN {Listen} ELSE {})
<1>1. /\ pc = "idle" /\ pc' = "events" /\ ready' = {} /\ due # {} /\ events' \in SetToSeqs(due)
      /\ UNCHANGED <<phase, sent, taken, end, backlog, owner, watched, wire,
                     clients, client_count, cur, lines>>
    BY DEF EpollWait
<1>2. ready \subseteq due /\ due \subseteq Fds \cup {Listen} /\ ready \subseteq Fds
    BY DEF IInv, Typing, TypeOK
<1>3. IsFiniteSet(due)
    <2>1. IsFiniteSet(Fds \cup {Listen})
        BY Finite, FS_AddElement DEF IInv
    <2> QED
        BY <1>2, <2>1, FS_Subset
<1> HIDE DEF due
<1>4. /\ events' \in Seq(due)
      /\ \A x \in due : \E i \in 1..Len(events') : events'[i] = x
    BY <1>1, <1>3, EveryOrder
<1>5. events' # <<>> /\ events' \in Seq(Fds \cup {Listen})
    BY <1>1, <1>2, <1>4
<1>6. Typing'
    BY <1>1, <1>5 DEF IInv, Typing, TypeOK
<1>7. TablesAgree' /\ OneEach' /\ InUse' = InUse
    BY <1>1, <1>6, TablesKept
<1>8. Waiting' /\ Serving'
    BY <1>1, <1>5 DEF IInv, Waiting, Serving
<1>9. Edges'
    <2>1. \A fd \in ready : Due(fd)'
        BY <1>1, <1>2, <1>4 DEF Due, FirstOpen
    <2>2. \A fd \in watched : Readable(owner[fd]) => fd \in ready
        BY <1>1 DEF IInv, Edges, Due, FirstOpen, Serving
    <2>3. \A fd \in watched : Readable(owner[fd])' <=> Readable(owner[fd])
        BY <1>1 DEF Readable, Unread
    <2> QED
        BY <1>1, <2>1, <2>2, <2>3 DEF Edges
<1> QED
    BY <1>6, <1>7, <1>8, <1>9 DEF IInv

\* accept() fails, or a connection that is accepted cannot be added to epoll.
LEMMA AcceptFailsIInv ==
    ASSUME IInv, AcceptFails \/ AcceptAddFails
    PROVE  IInv'
<1> USE DEF kernel
<1>1. /\ pc = "events" /\ Head(events) = Listen /\ NextEvent /\ events # <<>>
      /\ UNCHANGED <<sent, taken, end, owner, watched, ready, wire, clients, client_count, cur, lines>>
    BY DEF AcceptFails, AcceptAddFails, IInv, Serving
<1>2. /\ phase' \in [Conns -> {"none", "pending", "open", "closed"}] /\ backlog' \in Seq(Conns)
      /\ \A c \in Conns : phase'[c] = "open" <=> phase[c] = "open"
      /\ Waiting'
    <2>1. CASE AcceptFails
        BY <2>1 DEF AcceptFails, IInv, Typing, TypeOK, Waiting
    <2>2. CASE AcceptAddFails
        <3>1. /\ backlog \in Seq(Conns) /\ backlog # <<>> /\ backlog' = Tail(backlog)
              /\ phase' = [phase EXCEPT ![Head(backlog)] = "closed"]
              /\ phase \in [Conns -> {"none", "pending", "open", "closed"}]
            BY <2>2 DEF AcceptAddFails, IInv, Typing, TypeOK
        <3>2. Head(backlog) \in Conns /\ Head(backlog) = backlog[1]
              /\ phase[Head(backlog)] = "pending"
            BY <3>1 DEF IInv, Waiting
        <3>3. /\ backlog' \in Seq(Conns) /\ Len(backlog') = Len(backlog) - 1
              /\ \A i \in 1..Len(backlog') : i + 1 \in 1..Len(backlog) /\ backlog'[i] = backlog[i + 1]
            BY <3>1
        <3>4. \A i \in 1..Len(backlog') : backlog'[i] # Head(backlog) /\ backlog'[i] \in Conns
            BY <3>1, <3>2, <3>3 DEF IInv, Waiting
        <3>5. Waiting'
            BY <3>1, <3>2, <3>3, <3>4 DEF IInv, Waiting
        <3> QED
            BY <3>1, <3>2, <3>3, <3>5
    <2> QED
        BY <1>1, <2>1, <2>2 DEF AcceptFails
<1>3. /\ events' \in Seq(Fds \cup {Listen}) /\ pc' \in {"idle", "events"}
      /\ pc' \in {"create", "idle", "destroyed"} <=> events' = <<>>
      /\ \A fd \in Fds : Due(fd) /\ fd # Listen => Due(fd)'
    BY <1>1, EventDone
<1>4. Typing'
    BY <1>1, <1>2, <1>3 DEF IInv, Typing, TypeOK
<1>5. TablesAgree' /\ OneEach' /\ InUse' = InUse
    BY <1>1, <1>2, <1>4, TablesKept
<1>6. Serving'
    BY <1>3 DEF Serving
<1>7. Edges'
    <2>1. watched \subseteq Fds /\ Listen \notin Fds
        BY TcpBounds DEF IInv, Typing, TypeOK, Fds, Listen
    <2>2. \A fd \in watched : Readable(owner[fd])' <=> Readable(owner[fd])
        BY <1>1 DEF Readable, Unread
    <2> QED
        BY <1>1, <1>3, <2>1, <2>2 DEF IInv, Edges
<1> QED
    BY <1>2, <1>4, <1>5, <1>6, <1>7 DEF IInv

\* An event whose client has gone is dropped; otherwise its slot is served.
LEMMA ClientEventIInv ==
    ASSUME IInv, ClientEvent
    PROVE  IInv'
<1> USE DEF kernel
<1>1. /\ pc = "events" /\ events # <<>> /\ Head(events) # Listen
      /\ UNCHANGED <<kernel, clients, client_count, lines>>
    BY DEF ClientEvent, IInv, Serving
<1>2. Head(events) \in Fds /\ watched \subseteq Fds
    BY <1>1 DEF IInv, Typing, TypeOK
<1>3. \A fd \in watched : Readable(owner[fd])' <=> Readable(owner[fd])
    BY <1>1 DEF Readable, Unread
<1>4. CASE SlotsOf(Head(events)) = {}
    <2>1. NextEvent /\ cur' = cur
        BY <1>4 DEF ClientEvent
    <2>2. Head(events) \notin watched
        BY <1>4 DEF SlotsOf, IInv, TablesAgree, InUse
    <2>3. /\ events' \in Seq(Fds \cup {Listen}) /\ pc' \in {"idle", "events"}
          /\ pc' \in {"create", "idle", "destroyed"} <=> events' = <<>>
          /\ \A fd \in watched : Due(fd) => Due(fd)'
        BY <1>1, <1>2, <2>1, <2>2, EventDone
    <2>4. Typing'
        BY <1>1, <2>1, <2>3 DEF IInv, Typing, TypeOK
    <2>5. TablesAgree' /\ OneEach' /\ InUse' = InUse
        BY <1>1, <2>4, TablesKept
    <2>6. Waiting' /\ Serving' /\ Edges'
        BY <1>1, <1>3, <2>3 DEF IInv, Waiting, Serving, Edges
    <2> QED
        BY <2>4, <2>5, <2>6 DEF IInv
<1>5. CASE SlotsOf(Head(events)) # {}
    <2>1. cur' = Min(SlotsOf(Head(events))) /\ pc' = "read" /\ events' = events
        BY <1>5 DEF ClientEvent
    <2>2. SlotsOf(Head(events)) \in SUBSET Nat
        BY TcpBounds DEF SlotsOf, Slots
    <2>3. cur' \in Slots /\ clients[cur'].fd = Head(events) /\ cur' \in InUse
        <3>1. cur' \in SlotsOf(Head(events))
            BY <1>5, <2>1, <2>2, MinMember
        <3>2. NoFd \notin Fds
            BY TcpBounds DEF Fds, NoFd
        <3> QED
            BY <1>2, <3>1, <3>2 DEF SlotsOf, InUse
    <2>4. Typing'
        BY <1>1, <2>1, <2>3 DEF IInv, Typing, TypeOK
    <2>5. TablesAgree' /\ OneEach' /\ InUse' = InUse
        BY <1>1, <2>4, TablesKept
    <2>6. Waiting' /\ Serving'
        BY <1>1, <2>1, <2>3, <2>5 DEF IInv, Waiting, Serving
    <2>7. Edges'
        BY <1>1, <1>3, <2>1 DEF IInv, Edges, Due, FirstOpen
    <2> QED
        BY <2>4, <2>5, <2>6, <2>7 DEF IInv
<1> QED
    BY <1>4, <1>5

-----------------------------------------------------------------------------
(* Clients come and go.                                                    *)

\* free_client takes a slot, its descriptor and its connection out together.
LEMMA FreeClientTables ==
    ASSUME IInv, NEW s \in InUse, FreeClient(s),
           UNCHANGED <<sent, taken, end, backlog, wire>>,
           pc' \in {"idle", "events", "lines"}, cur' = cur,
           events' \in Seq(Fds \cup {Listen})
    PROVE  /\ Typing' /\ TablesAgree' /\ OneEach' /\ Waiting'
           /\ InUse' = InUse \ {s} /\ watched' = watched \ {clients[s].fd}
           /\ \A t \in InUse' : clients'[t] = clients[t]
           /\ \A fd \in watched' : /\ owner'[fd] = owner[fd]
                                   /\ fd \in ready' <=> fd \in ready
<1> DEFINE f == clients[s].fd
           c == owner[f]
<1>1. /\ s \in Slots /\ f \in Fds /\ f \in watched /\ c \in Conns /\ phase[c] = "open"
    BY SlotInUse
<1>2. /\ watched' = watched \ {f} /\ ready' = ready \ {f}
      /\ owner' = [owner EXCEPT ![f] = None]
      /\ phase' = [phase EXCEPT ![c] = "closed"]
      /\ clients' = [clients EXCEPT ![s] = FreeSlot]
      /\ client_count' = client_count - 1
    BY DEF FreeClient
<1> HIDE DEF f, c
<1>3. /\ FreeSlot \in Slot /\ FreeSlot.fd = NoFd /\ FreeSlot.buf = <<>> /\ NoFd \notin Fds
      /\ Len(FreeSlot.buf) < BufLen
    BY TcpBounds DEF FreeSlot, Slot, NoFd, Fds
<1>4. /\ clients \in [Slots -> Slot] /\ owner \in [Fds -> Conns \cup {None}]
      /\ phase \in [Conns -> {"none", "pending", "open", "closed"}]
      /\ ready \subseteq watched /\ watched \subseteq Fds /\ client_count \in 0..MaxClients
      /\ Entries
    BY TablesByEntry DEF IInv, Typing, TypeOK
<1>5. /\ InUse' = InUse \ {s} /\ \A t \in InUse' : clients'[t] = clients[t]
      /\ \A t \in Slots : t # s => clients'[t] = clients[t]
    BY <1>1, <1>2, <1>3, <1>4 DEF InUse
<1>6. /\ Cardinality(InUse') = client_count' /\ Cardinality(watched') = client_count'
      /\ client_count' \in 0..MaxClients
    <2>1. IsFiniteSet(InUse) /\ IsFiniteSet(watched)
        BY Finite DEF IInv
    <2>2. Cardinality(InUse) \in Nat /\ Cardinality(InUse \ {s}) \in Nat
        BY <2>1, FS_CardinalityType, FS_RemoveElement
    <2>3. /\ Cardinality(InUse \ {s}) = Cardinality(InUse) - 1
          /\ Cardinality(watched \ {f}) = Cardinality(watched) - 1
        BY <1>1, <2>1, FS_RemoveElement
    <2> QED
        BY <1>2, <1>4, <1>5, <2>2, <2>3, TcpBounds DEF Entries
<1>7. Typing'
    <2>1. /\ clients' \in [Slots -> Slot] /\ owner' \in [Fds -> Conns \cup {None}]
          /\ phase' \in [Conns -> {"none", "pending", "open", "closed"}]
          /\ ready' \subseteq watched' /\ watched' \subseteq Fds
        BY <1>2, <1>3, <1>4
    <2>2. \A t \in Slots : clients'[t].fd \in Fds \cup {NoFd} /\ Len(clients'[t].buf) < BufLen
        BY <1>2, <1>3, <1>4 DEF IInv, Typing, TypeOK
    <2> QED
        BY <1>6, <2>1, <2>2 DEF IInv, Typing, TypeOK
<1>8. /\ \A fd \in watched' : owner'[fd] = owner[fd] /\ owner[fd] # c
      /\ \A fd \in watched' : fd \in ready' <=> fd \in ready
    BY <1>1, <1>2, <1>4 DEF IInv, OneEach, c
<1>9. OneEach'
    BY <1>1, <1>2, <1>4, <1>5, <1>8 DEF IInv, OneEach
<1>10. Waiting'
    <2>1. backlog \in Seq(Conns) /\ backlog' = backlog
        BY DEF IInv, Typing, TypeOK
    <2>2. \A i \in 1..Len(backlog) : backlog[i] \in Conns /\ backlog[i] # c
        BY <1>1, <2>1 DEF IInv, Waiting
    <2> QED
        BY <1>1, <1>2, <1>4, <2>1, <2>2 DEF IInv, Waiting
<1>11. Entries'
    <2>1. \A t \in InUse' : clients'[t].fd \in watched'
        BY <1>1, <1>2, <1>4, <1>5 DEF IInv, OneEach, Entries, f
    <2>2. \A fd \in watched' : \E t \in InUse' : clients'[t].fd = fd
        BY <1>2, <1>4, <1>5 DEF Entries, f
    <2>3. \A fd \in Fds : owner'[fd] # None <=> fd \in watched'
        BY <1>1, <1>2, <1>4, ConnsAssumption DEF Entries
    <2>4. \A fd \in watched' : phase'[owner'[fd]] = "open"
        BY <1>2, <1>4, <1>8, ConnsAssumption DEF Entries
    <2>5. \A d \in Conns : phase'[d] = "open" => \E fd \in watched' : owner'[fd] = d
        BY <1>1, <1>2, <1>4, <1>8 DEF Entries, c
    <2> QED
        BY <1>6, <2>1, <2>2, <2>3, <2>4, <2>5 DEF Entries
<1> QED
    BY <1>2, <1>5, <1>7, <1>8, <1>9, <1>10, <1>11, TablesByEntryNext DEF f

\* Below the limit there is a free descriptor and a free slot.
LEMMA FreeHandles ==
    ASSUME IInv, ~(client_count >= MaxClients),
           NEW f, f = Min({g \in Fds : owner[g] = None}), NEW s, s = Min(SlotsOf(NoFd))
    PROVE  f \in Fds /\ owner[f] = None /\ f \notin watched /\ s \in Slots /\ s \notin InUse
<1>1. /\ client_count < MaxClients /\ client_count \in Nat /\ Entries /\ watched \subseteq Fds
    BY TablesByEntry, TcpBounds DEF IInv, Typing, TypeOK
<1>2. Cardinality(Slots) = MaxClients /\ Cardinality(Fds) = MaxClients + 1
    BY Finite DEF IInv
<1>3. f \in Fds /\ owner[f] = None /\ f \notin watched
    <2>1. watched # Fds
        BY <1>1, <1>2, TcpBounds DEF Entries
    <2>2. PICK g \in Fds : g \notin watched
        BY <1>1, <2>1
    <2>3. owner[g] = None
        BY <1>1, <2>2 DEF Entries
    <2>4. {h \in Fds : owner[h] = None} # {} /\ {h \in Fds : owner[h] = None} \in SUBSET Nat
        BY <2>3, TcpBounds DEF Fds
    <2>5. f \in {h \in Fds : owner[h] = None}
        BY <2>4, MinMember
    <2> QED
        BY <1>1, <2>5 DEF Entries
<1>4. s \in Slots /\ s \notin InUse
    <2>1. InUse # Slots
        BY <1>1, <1>2, TcpBounds DEF Entries
    <2>2. SlotsOf(NoFd) # {}
        BY <2>1 DEF SlotsOf, InUse
    <2>3. SlotsOf(NoFd) \in SUBSET Nat
        BY TcpBounds DEF SlotsOf, Slots
    <2>4. s \in SlotsOf(NoFd)
        BY <2>2, <2>3, MinMember
    <2> QED
        BY <2>4 DEF SlotsOf, InUse
<1> QED
    BY <1>3, <1>4

\* An accepted connection gets a free descriptor and a free slot, or none.
LEMMA AcceptIInv ==
    ASSUME IInv, Accept
    PROVE  IInv'
<1> DEFINE c == Head(backlog)
           f == Min({g \in Fds : owner[g] = None})
           s == Min(SlotsOf(NoFd))
<1>1. /\ pc = "events" /\ Head(events) = Listen /\ backlog # <<>> /\ NextEvent
      /\ events # <<>> /\ backlog' = Tail(backlog)
      /\ UNCHANGED <<sent, taken, end, wire, cur, lines>>
    BY DEF Accept, IInv, Serving
<1>2. /\ backlog \in Seq(Conns) /\ c \in Conns /\ c = backlog[1] /\ phase[c] = "pending"
      /\ phase \in [Conns -> {"none", "pending", "open", "closed"}]
    BY <1>1 DEF IInv, Typing, TypeOK, Waiting
<1>3. /\ backlog' \in Seq(Conns)
      /\ \A i \in 1..Len(backlog') : /\ i + 1 \in 1..Len(backlog) /\ backlog'[i] = backlog[i + 1]
                                     /\ backlog'[i] \in Conns /\ backlog'[i] # c
    <2>1. /\ backlog' \in Seq(Conns) /\ Len(backlog') = Len(backlog) - 1
          /\ \A i \in 1..Len(backlog') : i + 1 \in 1..Len(backlog) /\ backlog'[i] = backlog[i + 1]
        BY <1>1, <1>2
    <2> QED
        BY <1>1, <1>2, <2>1 DEF IInv, Waiting
<1>4. ASSUME \A d \in Conns : d # c => phase'[d] = phase[d]
      PROVE  Waiting'
    BY <1>2, <1>3, <1>4 DEF IInv, Waiting
<1>5. /\ events' \in Seq(Fds \cup {Listen}) /\ pc' \in {"idle", "events"}
      /\ pc' \in {"create", "idle", "destroyed"} <=> events' = <<>>
      /\ \A fd \in Fds : Due(fd) /\ fd # Listen => Due(fd)'
    BY <1>1, EventDone
<1>6. Serving'
    BY <1>5 DEF Serving
<1>7. \A d \in Conns : Readable(d)' <=> Readable(d)
    BY <1>1 DEF Readable, Unread
<1>8. /\ watched \subseteq Fds /\ Listen \notin Fds /\ NoFd \notin Fds
      /\ \A fd \in watched : owner[fd] \in Conns
    BY TcpBounds DEF IInv, Typing, TypeOK, Fds, Listen, NoFd, TablesAgree
<1>9. CASE client_count >= MaxClients
    <2>1. /\ phase' = [phase EXCEPT ![c] = "closed"]
          /\ UNCHANGED <<owner, watched, ready, clients, client_count>>
        BY <1>9 DEF Accept
    <2>2. Typing'
        BY <1>1, <1>2, <1>3, <1>5, <2>1 DEF IInv, Typing, TypeOK
    <2>3. TablesAgree' /\ OneEach'
        BY <1>2, <2>1, <2>2, TablesKept
    <2>4. Waiting'
        BY <1>2, <1>4, <2>1
    <2>5. Edges'
        BY <1>5, <1>7, <1>8, <2>1 DEF IInv, Edges
    <2> QED
        BY <1>6, <2>2, <2>3, <2>4, <2>5 DEF IInv
<1>10. CASE ~(client_count >= MaxClients)
    <2>1. /\ phase' = [phase EXCEPT ![c] = "open"] /\ owner' = [owner EXCEPT ![f] = c]
          /\ watched' = watched \cup {f}
          /\ ready' = IF Readable(c) THEN ready \cup {f} ELSE ready
          /\ clients' = [clients EXCEPT ![s] = [fd |-> f, buf |-> <<>>]]
          /\ client_count' = client_count + 1
        BY <1>10 DEF Accept
    <2>2. /\ clients \in [Slots -> Slot] /\ owner \in [Fds -> Conns \cup {None}]
          /\ client_count < MaxClients /\ client_count \in Nat /\ ready \subseteq watched
          /\ Entries
        BY <1>10, TablesByEntry, TcpBounds DEF IInv, Typing, TypeOK
    <2>3. IsFiniteSet(InUse) /\ IsFiniteSet(watched)
        BY Finite DEF IInv
    <2>4. f \in Fds /\ owner[f] = None /\ f \notin watched
        BY <1>10, FreeHandles
    <2>5. s \in Slots /\ s \notin InUse
        BY <1>10, FreeHandles
    <2> HIDE DEF c, f, s
    <2>6. /\ [fd |-> f, buf |-> <<>>] \in Slot /\ [fd |-> f, buf |-> <<>>].fd = f
          /\ Len([fd |-> f, buf |-> <<>>].buf) < BufLen
        BY <2>4, TcpBounds DEF Slot
    <2>7. InUse' = InUse \cup {s} /\ \A t \in Slots : t # s => clients'[t] = clients[t]
        BY <1>8, <2>1, <2>2, <2>4, <2>5, <2>6 DEF InUse
    <2>8. clients'[s].fd = f
        BY <2>1, <2>2, <2>5, <2>6
    <2>9. /\ Cardinality(InUse') = client_count' /\ Cardinality(watched') = client_count'
          /\ client_count' \in 0..MaxClients
        <3>1. /\ Cardinality(InUse \cup {s}) = Cardinality(InUse) + 1
              /\ Cardinality(watched \cup {f}) = Cardinality(watched) + 1
            BY <2>3, <2>4, <2>5, FS_AddElement
        <3> QED
            BY <2>1, <2>2, <2>7, <3>1, TcpBounds DEF Entries
    <2>10. Typing'
        <3>1. /\ clients' \in [Slots -> Slot] /\ owner' \in [Fds -> Conns \cup {None}]
              /\ phase' \in [Conns -> {"none", "pending", "open", "closed"}]
              /\ ready' \subseteq watched' /\ watched' \subseteq Fds
            BY <1>2, <1>8, <2>1, <2>2, <2>4, <2>5, <2>6
        <3>2. \A t \in Slots : clients'[t].fd \in Fds \cup {NoFd} /\ Len(clients'[t].buf) < BufLen
            BY <2>1, <2>2, <2>4, <2>6 DEF IInv, Typing, TypeOK
        <3> QED
            BY <1>1, <1>3, <1>5, <2>9, <3>1, <3>2 DEF IInv, Typing, TypeOK
    <2>11. /\ \A fd \in watched : owner'[fd] = owner[fd] /\ owner[fd] # c
           /\ owner'[f] = c
        BY <1>2, <1>8, <2>1, <2>2, <2>4 DEF Entries
    <2>12. OneEach'
        BY <2>1, <2>2, <2>4, <2>5, <2>7, <2>8, <2>11 DEF IInv, OneEach, Entries, InUse
    <2>13. Entries'
        <3>1. \A t \in InUse' : clients'[t].fd \in watched'
            BY <2>1, <2>2, <2>5, <2>7, <2>8 DEF Entries, InUse
        <3>2. \A fd \in watched' : \E t \in InUse' : clients'[t].fd = fd
            BY <2>1, <2>2, <2>5, <2>7, <2>8 DEF Entries, InUse
        <3>3. \A fd \in Fds : owner'[fd] # None <=> fd \in watched'
            BY <1>2, <2>1, <2>2, <2>4, ConnsAssumption DEF Entries
        <3>4. \A fd \in watched' : phase'[owner'[fd]] = "open"
            BY <1>2, <1>8, <2>1, <2>2, <2>11 DEF Entries
        <3>5. \A d \in Conns : phase'[d] = "open" => \E fd \in watched' : owner'[fd] = d
            BY <1>2, <2>1, <2>2, <2>11 DEF Entries
        <3> QED
            BY <2>9, <3>1, <3>2, <3>3, <3>4, <3>5 DEF Entries
    <2>14. Waiting'
        BY <1>2, <1>4, <2>1
    <2>15. Edges'
        BY <1>2, <1>5, <1>7, <1>8, <2>1, <2>11 DEF IInv, Edges
    <2> QED
        BY <1>6, <2>10, <2>12, <2>13, <2>14, <2>15, TablesByEntryNext DEF IInv
<1> QED
    BY <1>9, <1>10

-----------------------------------------------------------------------------
(* recv_client.                                                            *)

\* The buffer of the client being served changes, within its bound.
LEMMA BufferStep ==
    ASSUME IInv, pc \in {"read", "lines"}, NEW b \in Seq(STRING), Len(b) < BufLen,
           clients' = [clients EXCEPT ![cur].buf = b],
           UNCHANGED <<phase, sent, end, backlog, owner, watched, ready, wire,
                       client_count, events, pc, cur>>,
           taken' \in [Conns -> Nat],
           \A c \in Conns : taken'[c] \in taken[c]..Len(sent[c])
    PROVE  IInv'
<1>1. cur \in Slots /\ cur \in InUse /\ clients \in [Slots -> Slot]
    BY DEF IInv, Typing, Serving, InUse
<1>2. clients' \in [Slots -> Slot] /\ \A t \in Slots : clients'[t].fd = clients[t].fd
    BY <1>1 DEF Slot
<1>3. \A t \in Slots : clients'[t].fd \in Fds \cup {NoFd} /\ Len(clients'[t].buf) < BufLen
    BY <1>1 DEF IInv, Typing, TypeOK, Slot
<1>4. \A c \in Conns : taken[c] \in Nat /\ Len(sent[c]) \in Nat
    BY DEF IInv, Typing
<1>5. Typing'
    BY <1>2, <1>3, <1>4 DEF IInv, Typing, TypeOK
<1>6. TablesAgree' /\ OneEach' /\ InUse' = InUse
    BY <1>2, <1>5, TablesKept
<1>7. Waiting' /\ Serving'
    BY <1>1, <1>2, <1>6 DEF IInv, Waiting, Serving
<1>8. Edges'
    <2>1. \A fd \in watched : owner[fd] \in Conns
        BY DEF IInv, TablesAgree
    <2>2. \A c \in Conns : Readable(c)' => Readable(c)
        BY <1>4 DEF Readable, Unread
    <2>3. \A fd \in watched : Due(fd)' <=> Due(fd)
        BY DEF Due, FirstOpen
    <2> QED
        BY <2>1, <2>2, <2>3 DEF IInv, Edges
<1> QED
    BY <1>5, <1>6, <1>7, <1>8 DEF IInv

\* The client being served has a slot, a connection and room in its buffer.
LEMMA Served ==
    ASSUME IInv, pc \in {"read", "lines"}
    PROVE  /\ cur \in InUse /\ cur \in Slots /\ Conn \in Conns /\ clients[cur].fd \in watched
           /\ clients[cur].buf \in Seq(STRING) /\ Len(clients[cur].buf) < BufLen
           /\ Head(events) = clients[cur].fd /\ events # <<>>
           /\ sent[Conn] \in Seq(STRING) /\ taken[Conn] \in 0..Len(sent[Conn])
<1>1. cur \in InUse /\ Head(events) = clients[cur].fd /\ events # <<>>
    BY DEF IInv, Serving
<1> QED
    BY <1>1, SlotInUse DEF Conn, IInv, Typing, TypeOK

\* read() returns what fits.
LEMMA ReadDataIInv ==
    ASSUME IInv, ReadData
    PROVE  IInv'
<1> DEFINE n == Min({Space, Unread(Conn)})
           c == Conn
           new == SubSeq(sent[c], taken[c] + 1, taken[c] + n)
           b == clients[cur].buf
<1>1. /\ pc = "read" /\ Space > 0 /\ Unread(c) > 0
      /\ clients' = [clients EXCEPT ![cur].buf = @ \o new]
      /\ taken' = [taken EXCEPT ![c] = @ + n]
      /\ UNCHANGED <<phase, sent, end, backlog, owner, watched, ready, wire,
                     client_count, events, pc, cur, lines>>
    BY DEF ReadData
<1>2. /\ c \in Conns /\ b \in Seq(STRING) /\ Len(b) < BufLen /\ cur \in Slots
      /\ sent[c] \in Seq(STRING) /\ taken[c] \in 0..Len(sent[c])
    BY <1>1, Served
<1>3. Space = BufLen - Len(b) - 1 /\ Unread(c) = Len(sent[c]) - taken[c]
    BY DEF Space, Unread
<1> HIDE DEF c, b
<1>4. Space \in Nat /\ Unread(c) \in Nat
    BY <1>1, <1>2, <1>3, TcpBounds
<1>5. n \in {Space, Unread(c)} /\ n <= Space /\ n <= Unread(c)
    BY <1>4, MinMember DEF c
<1> HIDE DEF n
<1>6. n \in Nat /\ n > 0 /\ taken[c] + n <= Len(sent[c]) /\ Len(b) + n < BufLen
    BY <1>1, <1>2, <1>3, <1>4, <1>5, TcpBounds
<1>7. new \in Seq(STRING) /\ Len(new) = n
    BY <1>2, <1>6
<1> HIDE DEF new
<1>8. b \o new \in Seq(STRING) /\ Len(b \o new) < BufLen
    BY <1>2, <1>6, <1>7
<1>9. clients' = [clients EXCEPT ![cur].buf = b \o new]
    BY <1>1, <1>2 DEF b, IInv, Typing, Slot
<1>10. /\ taken' \in [Conns -> Nat]
       /\ \A d \in Conns : taken'[d] \in taken[d]..Len(sent[d])
    BY <1>1, <1>2, <1>6 DEF IInv, Typing, TypeOK
<1> QED
    BY <1>1, <1>8, <1>9, <1>10, BufferStep

\* EAGAIN: the socket is drained, so that its event is no longer needed.
LEMMA ReadAgainIInv ==
    ASSUME IInv, ReadAgain
    PROVE  IInv'
<1> USE DEF kernel
<1>1. /\ pc = "read" /\ pc' = "lines" /\ ~Readable(Conn)
      /\ UNCHANGED <<kernel, clients, client_count, events, cur, lines>>
    BY DEF ReadAgain
<1>2. Typing'
    BY <1>1 DEF IInv, Typing, TypeOK
<1>3. TablesAgree' /\ OneEach' /\ InUse' = InUse
    BY <1>1, <1>2, TablesKept
<1>4. Waiting' /\ Serving'
    BY <1>1, <1>3 DEF IInv, Waiting, Serving
<1>5. Edges'
    <2>1. \A fd \in watched : Readable(owner[fd])' <=> Readable(owner[fd])
        BY <1>1 DEF Readable, Unread
    <2>2. ASSUME NEW fd \in watched, Readable(owner[fd]), fd \notin ready PROVE Due(fd)'
        <3>1. PICK j \in 1..Len(events) : events[j] = fd
            BY <1>1, <2>2 DEF IInv, Edges, Due, FirstOpen
        <3>2. fd # Head(events)
            BY <1>1, <2>2, Served DEF Conn
        <3>3. events \in Seq(Fds \cup {Listen}) /\ events # <<>>
            BY <1>1, Served DEF IInv, Typing, TypeOK
        <3>4. j \in 2..Len(events)
            BY <3>1, <3>2, <3>3
        <3> QED
            BY <1>1, <3>1, <3>4 DEF Due, FirstOpen
    <2> QED
        BY <1>1, <2>1, <2>2 DEF Edges
<1> QED
    BY <1>2, <1>3, <1>4, <1>5 DEF IInv

\* The client being served is freed and its event is done.
LEMMA ServedFreed ==
    ASSUME IInv, pc \in {"read", "lines"}, FreeClient(cur), NextEvent,
           UNCHANGED <<sent, taken, end, backlog, wire, cur>>
    PROVE  IInv'
<1>1. /\ events' \in Seq(Fds \cup {Listen}) /\ pc' \in {"idle", "events"}
      /\ pc' \in {"create", "idle", "destroyed"} <=> events' = <<>>
      /\ \A fd \in Fds : Due(fd) /\ (pc = "lines" \/ fd # Head(events)) => Due(fd)'
    BY EventDone, Served
<1>2. /\ Typing' /\ TablesAgree' /\ OneEach' /\ Waiting'
      /\ watched' = watched \ {clients[cur].fd}
      /\ \A fd \in watched' : owner'[fd] = owner[fd] /\ (fd \in ready' <=> fd \in ready)
    BY <1>1, FreeClientTables, Served
<1>3. Serving'
    BY <1>1 DEF Serving
<1>4. Edges'
    <2>1. watched' \subseteq Fds
        BY <1>2 DEF Typing, TypeOK
    <2>2. \A fd \in watched' : Due(fd) => Due(fd)'
        BY <1>1, <1>2, <2>1, Served
    <2>3. \A fd \in watched' : Readable(owner[fd])' <=> Readable(owner[fd])
        BY <1>2 DEF Readable, Unread
    <2> QED
        BY <1>2, <2>2, <2>3 DEF IInv, Edges
<1> QED
    BY <1>2, <1>3, <1>4 DEF IInv

\* recv_client closes the connection.
LEMMA ReadClosesIInv ==
    ASSUME IInv, ReadCloses
    PROVE  IInv'
    BY ServedFreed DEF ReadCloses

\* A line is cut off the front of the buffer, or on_message ends the connection.
LEMMA LineIInv ==
    ASSUME IInv, Line
    PROVE  IInv'
<1> DEFINE b == clients[cur].buf
<1>1. /\ pc = "lines" /\ LineEnds(b) # {} /\ UNCHANGED <<sent, taken, end, backlog, wire, cur>>
    BY DEF Line
<1>2. CASE FreeClient(cur) /\ NextEvent
    BY <1>1, <1>2, ServedFreed
<1>3. CASE /\ clients' = [clients EXCEPT ![cur].buf = SubSeq(@, LineEnd + 1, Len(@))]
           /\ UNCHANGED <<phase, owner, watched, ready, client_count, events, pc>>
    <2>1. b \in Seq(STRING) /\ Len(b) < BufLen /\ cur \in Slots
        BY <1>1, Served
    <2>2. LineEnds(b) \in SUBSET Nat /\ LineEnds(b) \subseteq 1..Len(b)
        BY <2>1 DEF LineEnds
    <2>3. LineEnd \in 1..Len(b)
        BY <1>1, <2>2, MinMember DEF LineEnd
    <2>4. clients' = [clients EXCEPT ![cur].buf = SubSeq(b, LineEnd + 1, Len(b))]
        BY <1>3, <2>1 DEF IInv, Typing, Slot
    <2> HIDE DEF b
    <2>5. /\ SubSeq(b, LineEnd + 1, Len(b)) \in Seq(STRING)
          /\ Len(SubSeq(b, LineEnd + 1, Len(b))) < BufLen
        BY <2>1, <2>3, TcpBounds
    <2>6. taken' \in [Conns -> Nat] /\ \A d \in Conns : taken'[d] \in taken[d]..Len(sent[d])
        BY <1>1 DEF IInv, Typing, TypeOK
    <2> QED
        BY <1>1, <1>3, <2>4, <2>5, <2>6, BufferStep
<1> QED
    BY <1>2, <1>3 DEF Line

\* The partial line is kept: everything readable has another event or an edge.
LEMMA LinesDoneIInv ==
    ASSUME IInv, LinesDone
    PROVE  IInv'
<1> USE DEF kernel
<1>1. /\ pc = "lines" /\ NextEvent /\ UNCHANGED <<kernel, clients, client_count, cur, lines>>
    BY DEF LinesDone
<1>2. /\ events' \in Seq(Fds \cup {Listen}) /\ pc' \in {"idle", "events"}
      /\ pc' \in {"create", "idle", "destroyed"} <=> events' = <<>>
      /\ \A fd \in Fds : Due(fd) => Due(fd)'
    BY <1>1, EventDone, Served
<1>3. Typing'
    BY <1>1, <1>2 DEF IInv, Typing, TypeOK
<1>4. TablesAgree' /\ OneEach' /\ InUse' = InUse
    BY <1>1, <1>3, TablesKept
<1>5. Waiting' /\ Serving'
    BY <1>1, <1>2 DEF IInv, Waiting, Serving
<1>6. Edges'
    <2>1. \A fd \in watched : Readable(owner[fd])' <=> Readable(owner[fd])
        BY <1>1 DEF Readable, Unread
    <2> QED
        BY <1>1, <1>2, <2>1 DEF IInv, Edges, Typing, TypeOK
<1> QED
    BY <1>3, <1>4, <1>5, <1>6 DEF IInv

-----------------------------------------------------------------------------
(* The rest of the interface.                                              *)

\* A client other than the one being served is closed.
LEMMA CloseClientIInv ==
    ASSUME IInv, NEW s \in Slots, CloseClient(s)
    PROVE  IInv'
<1>1. /\ s \in InUse /\ FreeClient(s) /\ (pc = "idle" \/ (pc = "lines" /\ s # cur))
      /\ UNCHANGED <<sent, taken, end, backlog, wire, events, pc, cur, lines>>
    BY DEF CloseClient, InUse, Calling
<1>2. /\ Typing' /\ TablesAgree' /\ OneEach' /\ Waiting' /\ InUse' = InUse \ {s}
      /\ watched' = watched \ {clients[s].fd} /\ \A t \in InUse' : clients'[t] = clients[t]
      /\ \A fd \in watched' : owner'[fd] = owner[fd] /\ (fd \in ready' <=> fd \in ready)
    <2>1. pc' \in {"idle", "events", "lines"} /\ events' \in Seq(Fds \cup {Listen})
        BY <1>1 DEF IInv, Typing, TypeOK
    <2> QED
        BY <1>1, <2>1, FreeClientTables
<1>3. Serving'
    BY <1>1, <1>2 DEF IInv, Serving
<1>4. Edges'
    <2>1. \A fd \in watched' : Readable(owner[fd])' <=> Readable(owner[fd])
        BY <1>1, <1>2 DEF Readable, Unread
    <2>2. \A fd \in watched' : Due(fd)' <=> Due(fd)
        BY <1>1 DEF Due, FirstOpen
    <2> QED
        BY <1>2, <2>1, <2>2 DEF IInv, Edges
<1> QED
    BY <1>2, <1>3, <1>4 DEF IInv

\* A server that is destroyed has empty tables.
LEMMA DestroyIInv ==
    ASSUME IInv, Destroy
    PROVE  IInv'
<1>1. /\ pc = "idle" /\ pc' = "destroyed" /\ backlog' = <<>> /\ watched' = {} /\ ready' = {}
      /\ clients' = [s \in Slots |-> FreeSlot] /\ client_count' = 0
      /\ UNCHANGED <<sent, taken, end, wire, events, cur, lines>>
    BY DEF Destroy
<1>2. \A fd \in Fds : owner'[fd] = None
    <2>1. /\ \A fd \in watched : \E s \in InUse : clients[s].fd = fd
          /\ \A fd \in Fds : owner[fd] # None <=> fd \in watched
        BY TablesByEntry DEF IInv, Entries
    <2>2. \A fd \in watched : fd \in {clients[s].fd : s \in Slots} \ {NoFd}
        BY <2>1 DEF InUse
    <2> QED
        BY <2>1, <2>2 DEF Destroy
<1>3. /\ owner' \in [Fds -> Conns \cup {None}]
      /\ phase' \in [Conns -> {"none", "pending", "open", "closed"}]
      /\ \A c \in Conns : phase'[c] # "open"
    BY DEF Destroy, IInv, Typing, TypeOK
<1>4. /\ clients' \in [Slots -> Slot] /\ InUse' = {} /\ client_count' \in 0..MaxClients
      /\ \A s \in Slots : clients'[s].fd \in Fds \cup {NoFd} /\ Len(clients'[s].buf) < BufLen
    BY <1>1, TcpBounds DEF FreeSlot, Slot, InUse
<1>5. Typing'
    BY <1>1, <1>3, <1>4 DEF IInv, Typing, TypeOK
<1>6. Entries'
    BY <1>1, <1>2, <1>3, <1>4, FS_EmptySet DEF Entries
<1>7. OneEach' /\ Waiting' /\ Serving' /\ Edges'
    BY <1>1, <1>4 DEF IInv, OneEach, Waiting, Serving, Edges
<1> QED
    BY <1>5, <1>6, <1>7, TablesByEntryNext DEF IInv

\* tcp_server_create, tcp_server_send and steps of nobody.
LEMMA OtherIInv ==
    ASSUME IInv, Create \/ TcpSend \/ UNCHANGED vars
    PROVE  IInv'
<1> USE DEF kernel, server, vars
<1>1. /\ UNCHANGED <<phase, sent, taken, end, backlog, owner, watched, ready, clients,
                     client_count, events, cur>>
      /\ pc' = pc \/ (pc = "create" /\ pc' \in {"idle", "destroyed"})
    BY DEF Create, TcpSend
<1>2. wire' \in [Conns -> {"whole", "torn"}]
    BY DEF Create, TcpSend, IInv, Typing, TypeOK
<1>3. Typing'
    BY <1>1, <1>2 DEF IInv, Typing, TypeOK
<1>4. TablesAgree' /\ OneEach' /\ InUse' = InUse
    BY <1>1, <1>3, TablesKept
<1>5. Waiting' /\ Serving'
    BY <1>1, <1>4 DEF IInv, Waiting, Serving
<1>6. Edges'
    <2>1. \A fd \in watched : Readable(owner[fd])' <=> Readable(owner[fd])
        BY <1>1 DEF Readable, Unread
    <2>2. \A fd \in watched : Due(fd)' <=> Due(fd)
        BY <1>1 DEF Due, FirstOpen
    <2> QED
        BY <1>1, <2>1, <2>2 DEF IInv, Edges
<1> QED
    BY <1>3, <1>4, <1>5, <1>6 DEF IInv

\* Every step keeps the invariant.
LEMMA NextIInv == IInv /\ [Next]_vars => IInv'
<1> SUFFICES ASSUME IInv, [Next]_vars PROVE IInv'
    OBVIOUS
<1>1. CASE \E c \in Conns : Connect(c) \/ Transmit(c) \/ \E how \in {"fin", "rst"} : Hangup(c, how)
    BY <1>1, ConnectIInv, ArrivalIInv
<1>2. CASE Poll
    BY <1>2, EpollWaitIInv, AcceptIInv, AcceptFailsIInv, ClientEventIInv, ReadDataIInv,
       ReadAgainIInv, ReadClosesIInv, LineIInv, LinesDoneIInv
    DEF Poll, Recv
<1>3. CASE \E s \in Slots : CloseClient(s)
    BY <1>3, CloseClientIInv
<1>4. CASE Create \/ TcpSend \/ UNCHANGED vars
    BY <1>4, OtherIInv
<1>5. CASE Destroy
    BY <1>5, DestroyIInv
<1> QED
    BY <1>1, <1>2, <1>3, <1>4, <1>5 DEF Next

-----------------------------------------------------------------------------
(* Reading lines out of a stream.                                          *)

\* Counting from 0 to n.
LEMMA Counting ==
    ASSUME NEW n \in Nat, NEW S, 0 \in S, \A i \in 1..n : i - 1 \in S => i \in S
    PROVE  \A i \in 0..n : i \in S
<1> DEFINE T == {i \in 0..n : i \notin S}
<1> SUFFICES ASSUME T # {} PROVE FALSE
    OBVIOUS
<1>1. T \in SUBSET Nat
    OBVIOUS
<1>2. PICK m \in T : \A x \in T : m <= x
    BY <1>1, MinMember
<1>3. m \in 1..n /\ m - 1 \in 0..n
    BY <1>2
<1>4. m - 1 \in S
    BY <1>2, <1>3
<1> QED
    BY <1>2, <1>3, <1>4

\* What a reader of lines has seen of a stream.
Acc == [done : Seq(Seq(STRING)), rest : Seq(STRING)]

\* f records the reading of s from a, byte by byte.
Reading(f, a, s) == f = [n \in 0..Len(s) |-> IF n = 0 THEN a ELSE Feed(f[n - 1], s[n])]

\* Every stream can be read.
LEMMA ReadingExists ==
    ASSUME NEW a, NEW s, Len(s) \in Nat
    PROVE  \E f : Reading(f, a, s)
<1> DEFINE l == Len(s)
           P(m, f) == f = [n \in 0..m |-> IF n = 0 THEN a ELSE Feed(f[n - 1], s[n])]
           S == {m \in 0..l : \E f : P(m, f)}
<1>1. 0 \in S
    <2> DEFINE f == [n \in 0..0 |-> a]
    <2>1. P(0, f) /\ 0 \in 0..l
        OBVIOUS
    <2> HIDE DEF f, P
    <2> QED
        BY <2>1
<1>2. ASSUME NEW i \in 1..l, i - 1 \in S PROVE i \in S
    <2>1. PICK f : P(i - 1, f)
        BY <1>2
    <2> DEFINE g == [n \in 0..i |-> IF n = i THEN Feed(f[i - 1], s[i]) ELSE f[n]]
    <2>2. \A n \in 0..i - 1 : g[n] = f[n]
        OBVIOUS
    <2>3. \A n \in 0..i : g[n] = IF n = 0 THEN a ELSE Feed(g[n - 1], s[n])
        <3> SUFFICES ASSUME NEW n \in 0..i PROVE g[n] = IF n = 0 THEN a ELSE Feed(g[n - 1], s[n])
            OBVIOUS
        <3>1. CASE n = i
            BY <2>2, <3>1
        <3>2. CASE n # i
            <4>1. n \in 0..i - 1
                BY <3>2
            <4>2. g[n] = f[n] /\ (n # 0 => g[n - 1] = f[n - 1])
                BY <2>2, <4>1
            <4>3. f[n] = IF n = 0 THEN a ELSE Feed(f[n - 1], s[n])
                BY <2>1, <4>1
            <4> QED
                BY <4>2, <4>3
        <3> QED
            BY <3>1, <3>2
    <2>4. P(i, g)
        <3>1. g = [n \in 0..i |-> g[n]]
            OBVIOUS
        <3> HIDE DEF g
        <3> QED
            BY <2>3, <3>1
    <2>5. i \in 0..l
        OBVIOUS
    <2> QED
        BY <2>4, <2>5
<1>3. l \in Nat /\ l \in 0..l
    OBVIOUS
<1>4. \A i \in 1..l : i - 1 \in S => i \in S
    BY <1>2
<1> HIDE DEF S, l
<1>5. l \in S
    BY <1>1, <1>3, <1>4, Counting, Zenon
<1> QED
    BY <1>5 DEF S, l, Reading

\* SplitFrom is the end of a reading.
LEMMA SplitReads ==
    ASSUME NEW a, NEW s, Len(s) \in Nat
    PROVE  \E f : Reading(f, a, s) /\ SplitFrom(a, s) = f[Len(s)]
<1> DEFINE f == CHOOSE g : g = [n \in 0..Len(s) |-> IF n = 0 THEN a ELSE Feed(g[n - 1], s[n])]
<1>1. \E g : Reading(g, a, s)
    BY ReadingExists
<1>2. Reading(f, a, s)
    BY <1>1, Zenon DEF Reading
<1>3. SplitFrom(a, s) = f[Len(s)]
    BY Zenon DEF SplitFrom
<1> QED
    BY <1>2, <1>3

\* Two readings agree as far as their streams do.
LEMMA ReadingUnique ==
    ASSUME NEW a, NEW s, NEW t, NEW f, NEW g, Reading(f, a, s), Reading(g, a, t),
           NEW n \in Nat, Len(s) \in Nat, Len(t) \in Nat, n <= Len(s), n <= Len(t),
           \A i \in 1..n : s[i] = t[i]
    PROVE  f[n] = g[n]
<1> DEFINE S == {i \in 0..n : f[i] = g[i]}
<1>1. \A i \in 0..n : f[i] = IF i = 0 THEN a ELSE Feed(f[i - 1], s[i])
    BY DEF Reading
<1>2. \A i \in 0..n : g[i] = IF i = 0 THEN a ELSE Feed(g[i - 1], t[i])
    BY DEF Reading
<1>3. 0 \in S
    BY <1>1, <1>2
<1>4. ASSUME NEW i \in 1..n, i - 1 \in S PROVE i \in S
    <2>1. f[i] = Feed(f[i - 1], s[i]) /\ g[i] = Feed(g[i - 1], t[i])
        BY <1>1, <1>2
    <2> QED
        BY <1>4, <2>1
<1>5. \A i \in 1..n : i - 1 \in S => i \in S
    BY <1>4
<1>6. n \in 0..n
    OBVIOUS
<1> HIDE DEF S
<1>7. n \in S
    BY <1>3, <1>5, <1>6, Counting, Zenon
<1> QED
    BY <1>7 DEF S

\* Nothing is read.
LEMMA SplitEmpty ==
    ASSUME NEW a
    PROVE  SplitFrom(a, <<>>) = a
<1>1. Len(<<>>) = 0
    OBVIOUS
<1>2. PICK f : Reading(f, a, <<>>) /\ SplitFrom(a, <<>>) = f[Len(<<>>)]
    BY <1>1, SplitReads
<1> QED
    BY <1>1, <1>2 DEF Reading

\* One more byte is read.
LEMMA SplitAppend ==
    ASSUME NEW a, NEW s \in Seq(STRING), NEW b \in STRING
    PROVE  SplitFrom(a, Append(s, b)) = Feed(SplitFrom(a, s), b)
<1> DEFINE t == Append(s, b)
           l == Len(s)
<1>1. /\ l \in Nat /\ Len(t) = l + 1 /\ Len(t) \in Nat /\ t[l + 1] = b
      /\ \A i \in 1..l : t[i] = s[i]
    BY AppendProperties
<1> HIDE DEF t
<1>2. PICK f : Reading(f, a, s) /\ SplitFrom(a, s) = f[l]
    BY <1>1, SplitReads
<1>3. PICK g : Reading(g, a, t) /\ SplitFrom(a, t) = g[Len(t)]
    BY <1>1, SplitReads
<1>4. f[l] = g[l]
    BY <1>1, <1>2, <1>3, ReadingUnique
<1> HIDE DEF l
<1>5. g[l + 1] = Feed(g[l], t[l + 1])
    <2>1. \A n \in 0..Len(t) : g[n] = IF n = 0 THEN a ELSE Feed(g[n - 1], t[n])
        BY <1>3 DEF Reading
    <2>2. l + 1 \in 0..Len(t) /\ l + 1 # 0 /\ (l + 1) - 1 = l
        BY <1>1
    <2> QED
        BY <2>1, <2>2
<1> QED
    BY <1>1, <1>2, <1>3, <1>4, <1>5 DEF t

\* A prefix of a stream, byte by byte.
LEMMA PrefixAppend ==
    ASSUME NEW s \in Seq(STRING), NEW i \in 1..Len(s)
    PROVE  /\ SubSeq(s, 1, i - 1) \in Seq(STRING) /\ s[i] \in STRING
           /\ SubSeq(s, 1, i) = Append(SubSeq(s, 1, i - 1), s[i])
<1> DEFINE u == SubSeq(s, 1, i - 1)
<1>1. u \in Seq(STRING) /\ s[i] \in STRING
    OBVIOUS
<1>2. 1 \in 1..Len(s) /\ i \in 1..Len(s)
    OBVIOUS
<1>3. SubSeq(s, 1, i) = u \o <<s[i]>>
    BY <1>2, SubSeqRecursiveSecond
<1>4. Append(u, s[i]) = u \o <<s[i]>>
    BY <1>1, AppendIsConcat
<1> QED
    BY <1>1, <1>3, <1>4

\* A byte after two pieces.
LEMMA AppendConcat ==
    ASSUME NEW r \in Seq(STRING), NEW u \in Seq(STRING), NEW b \in STRING
    PROVE  r \o Append(u, b) = Append(r \o u, b) /\ r \o u \in Seq(STRING)
<1>1. Append(u, b) = u \o <<b>>
    BY AppendIsConcat
<1>2. r \o u \in Seq(STRING)
    BY ConcatProperties
<1>3. Append(r \o u, b) = (r \o u) \o <<b>>
    BY <1>2, AppendIsConcat
<1>4. (r \o u) \o <<b>> = r \o (u \o <<b>>)
    <2>1. <<b>> \in Seq(STRING)
        <3>1. \A T : \A x \in T : <<x>> \in Seq(T)
            OBVIOUS
        <3> QED
            BY <3>1, Zenon
    <2> QED
        BY <2>1, ConcatAssociative
<1> QED
    BY <1>1, <1>2, <1>3, <1>4

\* A line without its CR is a line.
LEMMA ChompType ==
    ASSUME NEW l \in Seq(STRING)
    PROVE  Chomp(l) \in Seq(STRING)
<1>1. CASE l # <<>>
    <2>1. SubSeq(l, 1, Len(l) - 1) \in Seq(STRING)
        BY <1>1
    <2> QED
        BY <2>1 DEF Chomp, Front
<1>2. CASE l = <<>>
    BY <1>2 DEF Chomp
<1> QED
    BY <1>1, <1>2

\* A byte keeps the reader's types, and what was done.
LEMMA FeedType ==
    ASSUME NEW a \in Acc, NEW b \in STRING
    PROVE  /\ Feed(a, b) \in Acc
           /\ \/ Feed(a, b).done = a.done
              \/ \E l \in Seq(STRING) : Feed(a, b).done = Append(a.done, l)
<1> DEFINE d == a.done
           r == a.rest
           c == Chomp(a.rest)
<1>1. d \in Seq(Seq(STRING)) /\ r \in Seq(STRING) /\ c \in Seq(STRING)
    BY ChompType DEF Acc
<1>2. /\ Append(r, b) \in Seq(STRING) /\ Append(d, c) \in Seq(Seq(STRING)) /\ <<>> \in Seq(STRING)
    BY <1>1
<1>3. Feed(a, b) = IF b # "n" THEN [done |-> d, rest |-> Append(r, b)]
                   ELSE [done |-> IF c = <<>> THEN d ELSE Append(d, c), rest |-> <<>>]
    BY DEF Feed
<1> HIDE DEF d, r, c
<1>4. Feed(a, b) \in Acc
    <2>1. \A x \in Seq(Seq(STRING)), y \in Seq(STRING) : [done |-> x, rest |-> y] \in Acc
        BY DEF Acc
    <2> QED
        BY <1>1, <1>2, <1>3, <2>1
<1>5. Feed(a, b).done = d \/ Feed(a, b).done = Append(d, c)
    BY <1>3
<1> QED
    BY <1>1, <1>4, <1>5 DEF d

\* A reader keeps its types.
LEMMA SplitType ==
    ASSUME NEW a \in Acc, NEW t \in Seq(STRING)
    PROVE  SplitFrom(a, t) \in Acc
<1> DEFINE l == Len(t)
           S == {i \in 0..l : SplitFrom(a, SubSeq(t, 1, i)) \in Acc}
<1>1. l \in Nat /\ l \in 0..l /\ SubSeq(t, 1, l) = t /\ SubSeq(t, 1, 0) = <<>>
    BY SubSeqFull, SubSeqEmpty
<1>2. 0 \in S
    <2>1. SplitFrom(a, <<>>) = a /\ 0 \in 0..l
        BY SplitEmpty
    <2> HIDE DEF l
    <2> QED
        BY <1>1, <2>1
<1>3. ASSUME NEW i \in 1..l, i - 1 \in S PROVE i \in S
    <2> DEFINE u == SubSeq(t, 1, i - 1)
    <2>1. u \in Seq(STRING) /\ t[i] \in STRING /\ SubSeq(t, 1, i) = Append(u, t[i])
        BY PrefixAppend
    <2>2. SplitFrom(a, u) \in Acc /\ i \in 0..l
        BY <1>3
    <2> HIDE DEF u, l
    <2>3. SplitFrom(a, Append(u, t[i])) = Feed(SplitFrom(a, u), t[i])
        BY <2>1, SplitAppend
    <2>4. Feed(SplitFrom(a, u), t[i]) \in Acc
        BY <2>1, <2>2, FeedType
    <2> QED
        BY <2>1, <2>2, <2>3, <2>4
<1>4. \A i \in 1..l : i - 1 \in S => i \in S
    BY <1>3
<1> HIDE DEF S, l
<1>5. l \in S
    BY <1>1, <1>2, <1>4, Counting, Zenon
<1> QED
    BY <1>1, <1>5 DEF S

\* A stream may be read in two pieces.
LEMMA SplitConcat ==
    ASSUME NEW a \in Acc, NEW s \in Seq(STRING), NEW t \in Seq(STRING)
    PROVE  SplitFrom(a, s \o t) = SplitFrom(SplitFrom(a, s), t)
<1> DEFINE l == Len(t)
           m == SplitFrom(a, s)
           S == {i \in 0..l : SplitFrom(a, s \o SubSeq(t, 1, i)) = SplitFrom(m, SubSeq(t, 1, i))}
<1>1. l \in Nat /\ l \in 0..l /\ 0 \in 0..l /\ SubSeq(t, 1, l) = t /\ SubSeq(t, 1, 0) = <<>>
    BY SubSeqFull, SubSeqEmpty
<1>2. 0 \in S
    <2>1. s \o <<>> = s
        BY ConcatEmptySeq
    <2>2. SplitFrom(m, <<>>) = m
        BY SplitEmpty
    <2> HIDE DEF l
    <2> QED
        BY <1>1, <2>1, <2>2
<1>3. ASSUME NEW i \in 1..l, i - 1 \in S PROVE i \in S
    <2> DEFINE u == SubSeq(t, 1, i - 1)
               b == t[i]
    <2>1. u \in Seq(STRING) /\ b \in STRING /\ SubSeq(t, 1, i) = Append(u, b)
        BY PrefixAppend
    <2>2. SplitFrom(a, s \o u) = SplitFrom(m, u) /\ i \in 0..l
        BY <1>3
    <2> HIDE DEF u, b, l, m
    <2>3. s \o Append(u, b) = Append(s \o u, b) /\ s \o u \in Seq(STRING)
        BY <2>1, AppendConcat
    <2>4. SplitFrom(a, Append(s \o u, b)) = Feed(SplitFrom(a, s \o u), b)
        BY <2>1, <2>3, SplitAppend
    <2>5. SplitFrom(m, Append(u, b)) = Feed(SplitFrom(m, u), b)
        BY <2>1, SplitAppend
    <2> QED
        BY <2>1, <2>2, <2>3, <2>4, <2>5
<1>4. \A i \in 1..l : i - 1 \in S => i \in S
    BY <1>3
<1> HIDE DEF S, l
<1>5. l \in S
    BY <1>1, <1>2, <1>4, Counting, Zenon
<1> QED
    BY <1>1, <1>5 DEF S

\* Without a line end a stream is only kept.
LEMMA SplitPartial ==
    ASSUME NEW d, NEW r \in Seq(STRING), NEW t \in Seq(STRING), LineEnds(t) = {}
    PROVE  SplitFrom([done |-> d, rest |-> r], t) = [done |-> d, rest |-> r \o t]
<1> DEFINE l == Len(t)
           a == [done |-> d, rest |-> r]
           S == {i \in 0..l : SplitFrom(a, SubSeq(t, 1, i)) = [done |-> d, rest |-> r \o SubSeq(t, 1, i)]}
<1>1. l \in Nat /\ l \in 0..l /\ 0 \in 0..l /\ SubSeq(t, 1, l) = t /\ SubSeq(t, 1, 0) = <<>>
    BY SubSeqFull, SubSeqEmpty
<1>2. 0 \in S
    <2>1. r \o <<>> = r
        BY ConcatEmptySeq
    <2>2. SplitFrom(a, <<>>) = a
        BY SplitEmpty
    <2> HIDE DEF l
    <2> QED
        BY <1>1, <2>1, <2>2
<1>3. ASSUME NEW i \in 1..l, i - 1 \in S PROVE i \in S
    <2> DEFINE u == SubSeq(t, 1, i - 1)
               b == t[i]
    <2>1. u \in Seq(STRING) /\ b \in STRING /\ SubSeq(t, 1, i) = Append(u, b)
        BY PrefixAppend
    <2>2. SplitFrom(a, u) = [done |-> d, rest |-> r \o u] /\ i \in 0..l
        BY <1>3
    <2>3. b # "n"
        BY DEF LineEnds
    <2> HIDE DEF u, b, l, a
    <2>4. r \o Append(u, b) = Append(r \o u, b)
        BY <2>1, AppendConcat
    <2>5. SplitFrom(a, Append(u, b)) = Feed([done |-> d, rest |-> r \o u], b)
        BY <2>1, <2>2, SplitAppend
    <2>6. Feed([done |-> d, rest |-> r \o u], b) = [done |-> d, rest |-> Append(r \o u, b)]
        BY <2>3 DEF Feed
    <2> QED
        BY <2>1, <2>2, <2>4, <2>5, <2>6
<1>4. \A i \in 1..l : i - 1 \in S => i \in S
    BY <1>3
<1> HIDE DEF S, l
<1>5. l \in S
    BY <1>1, <1>2, <1>4, Counting, Zenon
<1> QED
    BY <1>1, <1>5 DEF S

\* A longer list of lines.
LEMMA PrefixGrows ==
    ASSUME NEW T, NEW p \in Seq(T), NEW q \in Seq(T), NEW x \in T
    PROVE  IsPrefix(p, p) /\ (IsPrefix(p, q) => IsPrefix(p, Append(q, x)))
<1>1. IsPrefix(p, p)
    BY DEF IsPrefix
<1>2. ASSUME IsPrefix(p, q) PROVE IsPrefix(p, Append(q, x))
    <2>1. Len(p) <= Len(q) /\ SubSeq(p, 1, Len(p)) = SubSeq(q, 1, Len(p))
        BY <1>2 DEF IsPrefix
    <2>2. SubSeq(Append(q, x), 1, Len(p)) = SubSeq(q, 1, Len(p))
        BY <2>1
    <2> QED
        BY <2>1, <2>2 DEF IsPrefix
<1> QED
    BY <1>1, <1>2

\* What is done stays done.
LEMMA SplitMonotone ==
    ASSUME NEW a \in Acc, NEW t \in Seq(STRING)
    PROVE  IsPrefix(a.done, SplitFrom(a, t).done)
<1> DEFINE l == Len(t)
           p == a.done
           S == {i \in 0..l : IsPrefix(p, SplitFrom(a, SubSeq(t, 1, i)).done)}
<1>1. l \in Nat /\ l \in 0..l /\ 0 \in 0..l /\ SubSeq(t, 1, l) = t /\ SubSeq(t, 1, 0) = <<>>
    BY SubSeqFull, SubSeqEmpty
<1>2. p \in Seq(Seq(STRING))
    BY DEF Acc
<1>3. 0 \in S
    <2>1. SplitFrom(a, <<>>) = a
        BY SplitEmpty
    <2>2. IsPrefix(p, p)
        BY <1>2, EmptySeq, PrefixGrows
    <2> HIDE DEF l
    <2> QED
        BY <1>1, <2>1, <2>2
<1>4. ASSUME NEW i \in 1..l, i - 1 \in S PROVE i \in S
    <2> DEFINE u == SubSeq(t, 1, i - 1)
               b == t[i]
               m == SplitFrom(a, u)
    <2>1. u \in Seq(STRING) /\ b \in STRING /\ SubSeq(t, 1, i) = Append(u, b)
        BY PrefixAppend
    <2>2. IsPrefix(p, m.done) /\ i \in 0..l
        BY <1>4
    <2>3. m \in Acc /\ SplitFrom(a, Append(u, b)) = Feed(m, b)
        BY <2>1, SplitType, SplitAppend
    <2> HIDE DEF u, b, m, l, p
    <2>4. m.done \in Seq(Seq(STRING))
        BY <2>3 DEF Acc
    <2>5. IsPrefix(p, Feed(m, b).done)
        <3>1. CASE Feed(m, b).done = m.done
            BY <2>2, <3>1
        <3>2. CASE \E x \in Seq(STRING) : Feed(m, b).done = Append(m.done, x)
            BY <1>2, <2>2, <2>4, <3>2, PrefixGrows
        <3> QED
            BY <2>1, <2>3, <3>1, <3>2, FeedType
    <2> QED
        BY <2>1, <2>2, <2>3, <2>5
<1>5. \A i \in 1..l : i - 1 \in S => i \in S
    BY <1>4
<1> HIDE DEF S, l
<1>6. l \in S
    BY <1>1, <1>3, <1>5, Counting, Zenon
<1> QED
    BY <1>1, <1>6 DEF S

\* The first line of a buffer, what comes after it, and the lines with it.
First(b) == Chomp(SubSeq(b, 1, Min(LineEnds(b)) - 1))
After(b) == SubSeq(b, Min(LineEnds(b)) + 1, Len(b))
More(d, l) == IF l = <<>> THEN d ELSE Append(d, l)

\* A reader that takes the first line of a buffer can go on from what is after it.
LEMMA FirstLine ==
    ASSUME NEW d \in Seq(Seq(STRING)), NEW b \in Seq(STRING), LineEnds(b) # {}
    PROVE  /\ Min(LineEnds(b)) \in 1..Len(b) /\ First(b) \in Seq(STRING) /\ After(b) \in Seq(STRING)
           /\ SplitFrom([done |-> d, rest |-> <<>>], b)
                  = SplitFrom([done |-> More(d, First(b)), rest |-> <<>>], After(b))
<1> DEFINE e == Min(LineEnds(b))
           l == First(b)
           p == SubSeq(b, 1, e - 1)
           q == SubSeq(b, 1, e)
           r == SubSeq(b, e + 1, Len(b))
           a == [done |-> d, rest |-> <<>>]
<1>1. /\ e \in 1..Len(b) /\ b[e] = "n" /\ \A i \in 1..e - 1 : b[i] # "n"
    <2>1. LineEnds(b) \in SUBSET Nat
        BY DEF LineEnds
    <2>2. e \in LineEnds(b) /\ \A i \in LineEnds(b) : e <= i
        BY <2>1, MinMember
    <2> HIDE DEF e
    <2>3. e \in 1..Len(b) /\ b[e] = "n"
        BY <2>2 DEF LineEnds
    <2>4. \A i \in 1..e - 1 : i \in 1..Len(b) /\ i < e
        BY <2>3
    <2>5. ASSUME NEW i \in 1..e - 1, b[i] = "n" PROVE FALSE
        <3>1. i \in LineEnds(b)
            BY <2>4, <2>5 DEF LineEnds
        <3> QED
            BY <2>2, <2>3, <2>4, <3>1
    <2> QED
        BY <2>3, <2>5
<1> HIDE DEF e
<1>2. /\ p \in Seq(STRING) /\ Len(p) = e - 1 /\ \A i \in 1..e - 1 : p[i] = b[i]
      /\ r \in Seq(STRING) /\ q \in Seq(STRING)
    BY <1>1
<1>3. l \in Seq(STRING)
    BY <1>2, ChompType DEF First, e
<1>4. q = Append(p, b[e]) /\ b[e] \in STRING
    BY <1>1, PrefixAppend
<1>5. b = q \o r
    <2>1. 1 \in 1..Len(b) + 1 /\ e \in 1 - 1..Len(b) /\ Len(b) \in e..Len(b)
        BY <1>1
    <2>2. q \o r = SubSeq(b, 1, Len(b))
        BY <2>1, ConcatAdjacentSubSeq
    <2> QED
        BY <2>2, SubSeqFull
<1>6. LineEnds(p) = {}
    <2> HIDE DEF p
    <2> QED
        BY <1>1, <1>2 DEF LineEnds
<1>7. a \in Acc /\ <<>> \o p = p
    BY <1>2, ConcatEmptySeq DEF Acc
<1> HIDE DEF p, q, r, l
<1>8. SplitFrom(a, p) = [done |-> d, rest |-> p]
    <2>1. SplitFrom(a, p) = [done |-> d, rest |-> <<>> \o p]
        BY <1>2, <1>6, EmptySeq, SplitPartial
    <2> QED
        BY <1>7, <2>1
<1>9. SplitFrom(a, q) = Feed([done |-> d, rest |-> p], b[e])
    <2>1. SplitFrom(a, Append(p, b[e])) = Feed(SplitFrom(a, p), b[e])
        BY <1>2, <1>4, SplitAppend
    <2> QED
        BY <1>4, <1>8, <2>1
<1>10. Feed([done |-> d, rest |-> p], b[e]) = [done |-> More(d, l), rest |-> <<>>]
    <2>1. l = Chomp(p)
        BY DEF First, l, p, e
    <2> QED
        BY <1>1, <2>1 DEF Feed, More
<1>11. SplitFrom(a, b) = SplitFrom(SplitFrom(a, q), r)
    <2> HIDE DEF a
    <2>1. SplitFrom(a, q \o r) = SplitFrom(SplitFrom(a, q), r)
        BY <1>2, <1>7, SplitConcat, Zenon
    <2> QED
        BY <1>5, <2>1
<1> QED
    BY <1>1, <1>2, <1>3, <1>9, <1>10, <1>11 DEF r, l, e, After

-----------------------------------------------------------------------------
(* The framing.                                                            *)

\* A connection that was not accepted has had nothing read and no calls.
Untouched == \A c \in Conns : phase[c] \in {"none", "pending"} => taken[c] = 0 /\ lines[c] = <<>>

\* The lines that were dispatched and the buffer together are what was read.
Buffered == \A s \in InUse :
                SplitFrom([done |-> lines[owner[clients[s].fd]], rest |-> <<>>], clients[s].buf)
                    = Split(Received(owner[clients[s].fd]))

\* Only the client being served has a complete line in its buffer.
Partial == \A s \in InUse :
               pc \notin {"read", "lines"} \/ s # cur => LineEnds(clients[s].buf) = {}

\* Lines are dispatched in order, none twice and none of another connection.
Dispatched == \A c \in Conns : IsPrefix(lines[c], Split(Received(c)).done)

\* The invariant of the framing, beside IInv.
FInv == /\ lines \in [Conns -> Seq(Seq(STRING))]
        /\ Untouched /\ Buffered /\ Partial /\ Dispatched

\* At the beginning nothing was read.
LEMMA InitFInv == Init => FInv
<1> SUFFICES ASSUME Init PROVE FInv
    OBVIOUS
<1>1. InUse = {} /\ \A c \in Conns : sent[c] = <<>> /\ taken[c] = 0 /\ lines[c] = <<>>
    BY DEF Init, InUse, FreeSlot
<1>2. lines \in [Conns -> Seq(Seq(STRING))] /\ Untouched /\ Buffered /\ Partial
    BY <1>1 DEF Init, Untouched, Buffered, Partial
<1>3. ASSUME NEW c \in Conns PROVE IsPrefix(lines[c], Split(Received(c)).done)
    <2>1. Received(c) = <<>>
        BY <1>1, SubSeqEmpty DEF Received
    <2>2. Split(<<>>) = [done |-> <<>>, rest |-> <<>>]
        BY SplitEmpty DEF Split
    <2>3. IsPrefix(<<>>, <<>>)
        BY DEF IsPrefix
    <2> QED
        BY <1>1, <2>1, <2>2, <2>3
<1> QED
    BY <1>2, <1>3 DEF FInv, Dispatched

\* Two slots serve two connections.
LEMMA SlotsApart ==
    ASSUME IInv, NEW s \in InUse, NEW t \in InUse, s # t
    PROVE  owner[clients[s].fd] # owner[clients[t].fd]
<1>1. clients[s].fd \in watched /\ clients[t].fd \in watched
    BY SlotInUse
<1> QED
    BY <1>1 DEF IInv, OneEach

\* Steps that read nothing and call nobody: clients may leave.
LEMMA FrameKept ==
    ASSUME IInv, FInv, UNCHANGED <<taken, lines>>,
           \A c \in Conns : Received(c)' = Received(c),
           \A c \in Conns : phase'[c] \in {"none", "pending"} => phase[c] \in {"none", "pending"},
           \A s \in InUse' : /\ s \in InUse /\ clients'[s] = clients[s]
                             /\ owner'[clients[s].fd] = owner[clients[s].fd]
                             /\ pc' \notin {"read", "lines"} \/ s # cur'
                                   => LineEnds(clients[s].buf) = {}
    PROVE  FInv'
<1>1. lines' \in [Conns -> Seq(Seq(STRING))] /\ Untouched'
    BY DEF FInv, Untouched
<1>2. Dispatched'
    BY DEF FInv, Dispatched
<1>3. Partial'
    BY DEF Partial
<1>4. Buffered'
    <2>1. ASSUME NEW s \in InUse'
          PROVE  (SplitFrom([done |-> lines[owner[clients[s].fd]], rest |-> <<>>], clients[s].buf)
                     = Split(Received(owner[clients[s].fd])))'
        <3>1. PICK c \in Conns : c = owner[clients[s].fd] /\ c = owner'[clients'[s].fd]
            BY <2>1, SlotInUse
        <3>2. SplitFrom([done |-> lines[c], rest |-> <<>>], clients[s].buf) = Split(Received(c))
            BY <2>1, <3>1 DEF FInv, Buffered
        <3>3. Received(owner[clients[s].fd])' = Received(c)
            <4>1. Received(c)' = Received(c)
                OBVIOUS
            <4> QED
                BY <3>1, <4>1 DEF Received
        <3> QED
            BY <2>1, <3>1, <3>2, <3>3
    <2> QED
        BY <2>1 DEF Buffered
<1> QED
    BY <1>1, <1>2, <1>3, <1>4 DEF FInv

\* What was read of a stream does not change when more of it arrives.
LEMMA PrefixStays ==
    ASSUME NEW s \in Seq(STRING), NEW m \in Seq(STRING), IsStrictPrefix(s, m), NEW n \in 0..Len(s)
    PROVE  SubSeq(SubSeq(m, 1, Len(s) + 1), 1, n) = SubSeq(s, 1, n)
<1> DEFINE t == SubSeq(m, 1, Len(s) + 1)
<1>1. t \in Seq(STRING) /\ Len(t) = Len(s) + 1 /\ IsPrefix(t, m)
    BY LongerPrefix
<1>2. Len(s) <= Len(m) /\ SubSeq(s, 1, Len(s)) = SubSeq(m, 1, Len(s))
    BY DEF IsStrictPrefix, IsPrefix
<1>3. Len(t) <= Len(m)
    BY <1>1 DEF IsPrefix
<1>4. \A i \in 1..Len(s) : s[i] = m[i]
    <2>1. \A i \in 1..Len(s) : SubSeq(s, 1, Len(s))[i] = s[i] /\ SubSeq(m, 1, Len(s))[i] = m[i]
        BY <1>2
    <2> QED
        BY <1>2, <2>1
<1>5. \A i \in 1..Len(s) : t[i] = m[i]
    BY <1>1, <1>3
<1> HIDE DEF t
<1>6. /\ SubSeq(t, 1, n) \in Seq(STRING) /\ SubSeq(s, 1, n) \in Seq(STRING)
      /\ Len(SubSeq(t, 1, n)) = n /\ Len(SubSeq(s, 1, n)) = n
      /\ \A i \in 1..n : SubSeq(t, 1, n)[i] = t[i] /\ SubSeq(s, 1, n)[i] = s[i]
    BY <1>1
<1>7. \A i \in 1..n : SubSeq(t, 1, n)[i] = SubSeq(s, 1, n)[i]
    BY <1>4, <1>5, <1>6
<1>8. SubSeq(t, 1, n) = SubSeq(s, 1, n)
    BY <1>6, <1>7, SeqEqual
<1> QED
    BY <1>8 DEF t

\* Clients connect, send and hang up.
LEMMA ArrivalFInv ==
    ASSUME IInv, FInv, NEW c \in Conns,
           Connect(c) \/ Transmit(c) \/ \E how \in {"fin", "rst"} : Hangup(c, how)
    PROVE  FInv'
<1> USE DEF server
<1>1. /\ UNCHANGED <<taken, owner, clients, pc, cur, lines>>
      /\ \A d \in Conns : phase'[d] \in {"none", "pending"} => phase[d] \in {"none", "pending"}
    BY DEF Connect, Transmit, Hangup, IInv, Typing, TypeOK
<1>2. ASSUME NEW d \in Conns PROVE Received(d)' = Received(d)
    <2>1. CASE sent' = sent
        BY <1>1, <2>1 DEF Received
    <2>2. CASE Transmit(c)
        <3>1. PICK m \in Streams : IsStrictPrefix(sent[c], m)
                                   /\ sent' = [sent EXCEPT ![c] = SubSeq(m, 1, Len(sent[c]) + 1)]
            BY <2>2 DEF Transmit, IInv, Typing
        <3>2. sent[c] \in Seq(STRING) /\ m \in Seq(STRING) /\ taken[c] \in 0..Len(sent[c])
            BY <3>1, StreamsAssumption DEF IInv, Typing, TypeOK
        <3>3. SubSeq(SubSeq(m, 1, Len(sent[c]) + 1), 1, taken[c]) = SubSeq(sent[c], 1, taken[c])
            BY <3>1, <3>2, PrefixStays
        <3>4. sent'[d] = IF d = c THEN SubSeq(m, 1, Len(sent[c]) + 1) ELSE sent[d]
            BY <3>1 DEF IInv, Typing
        <3> QED
            BY <1>1, <3>3, <3>4 DEF Received
    <2> QED
        BY <2>1, <2>2 DEF Connect, Hangup
<1>3. InUse' = InUse
    BY <1>1 DEF InUse
<1>4. Partial
    BY DEF FInv
<1> QED
    BY <1>1, <1>2, <1>3, <1>4, FrameKept DEF Partial

\* Steps of the server that leave every slot alone.
LEMMA SlotsKeptFInv ==
    ASSUME IInv, FInv,
           \/ EpollWait \/ AcceptAddFails \/ AcceptFails \/ ClientEvent \/ ReadAgain \/ LinesDone
           \/ Create \/ TcpSend \/ UNCHANGED vars
    PROVE  FInv'
<1> USE DEF kernel, server, vars
<1>1. UNCHANGED <<sent, taken, owner, clients, lines>>
    BY DEF EpollWait, AcceptAddFails, AcceptFails, ClientEvent, ReadAgain, LinesDone, Create, TcpSend
<1>2. \A d \in Conns : phase'[d] \in {"none", "pending"} => phase[d] \in {"none", "pending"}
    <2>1. CASE AcceptAddFails
        BY <2>1 DEF AcceptAddFails, IInv, Typing, TypeOK
    <2>2. CASE phase' = phase
        BY <2>2
    <2> QED
        BY <2>1, <2>2
        DEF EpollWait, AcceptFails, ClientEvent, ReadAgain, LinesDone, Create, TcpSend
<1>3. InUse' = InUse /\ \A d \in Conns : Received(d)' = Received(d)
    BY <1>1 DEF InUse, Received
<1>4. \A s \in InUse : pc' \notin {"read", "lines"} \/ s # cur' => LineEnds(clients[s].buf) = {}
    <2>1. \A s \in InUse : pc \notin {"read", "lines"} \/ s # cur => LineEnds(clients[s].buf) = {}
        BY DEF FInv, Partial
    <2>2. CASE LinesDone
        BY <2>1, <2>2 DEF LinesDone
    <2>3. CASE pc \in {"idle", "events", "create"}
        BY <2>1, <2>3
    <2>4. CASE cur' = cur /\ (pc' \in {"read", "lines"} <=> pc \in {"read", "lines"})
        BY <2>1, <2>4
    <2> QED
        BY <2>2, <2>3, <2>4
        DEF EpollWait, AcceptAddFails, AcceptFails, ClientEvent, ReadAgain, Create, TcpSend
<1> QED
    BY <1>1, <1>2, <1>3, <1>4, FrameKept

\* A client is freed, with whatever is left in its buffer.
LEMMA FreedFInv ==
    ASSUME IInv, FInv, IInv', NEW s \in InUse, FreeClient(s),
           UNCHANGED <<sent, taken, lines, cur>>,
           s = cur \/ pc' = pc
    PROVE  FInv'
<1> DEFINE f == clients[s].fd
           c == owner[f]
<1>1. /\ s \in Slots /\ f \in Fds /\ f \in watched /\ c \in Conns
    BY SlotInUse
<1>2. /\ owner' = [owner EXCEPT ![f] = None] /\ phase' = [phase EXCEPT ![c] = "closed"]
      /\ clients' = [clients EXCEPT ![s] = FreeSlot]
    BY DEF FreeClient
<1> HIDE DEF f, c
<1>3. \A t \in InUse' : t \in InUse /\ t # s /\ clients'[t] = clients[t]
    BY <1>1, <1>2 DEF InUse, FreeSlot, IInv, Typing
<1>4. \A t \in InUse' : owner'[clients[t].fd] = owner[clients[t].fd]
    BY <1>2, <1>3, SlotInUse DEF IInv, OneEach, Typing, TypeOK, f
<1>5. \A d \in Conns : /\ phase'[d] \in {"none", "pending"} => phase[d] \in {"none", "pending"}
                       /\ Received(d)' = Received(d)
    BY <1>1, <1>2 DEF IInv, Typing, TypeOK, Received
<1>6. \A t \in InUse' : pc' \notin {"read", "lines"} \/ t # cur' => LineEnds(clients[t].buf) = {}
    BY <1>3 DEF FInv, Partial
<1> QED
    BY <1>3, <1>4, <1>5, <1>6, FrameKept

\* The server closes a client or all of them.
LEMMA ClosesFInv ==
    ASSUME IInv, FInv, IInv', ReadCloses \/ Destroy \/ \E s \in Slots : CloseClient(s)
    PROVE  FInv'
<1>1. CASE ReadCloses
    <2>1. FreeClient(cur) /\ UNCHANGED <<sent, taken, lines, cur>> /\ cur \in InUse
        BY <1>1, Served DEF ReadCloses
    <2> QED
        BY <2>1, FreedFInv
<1>2. ASSUME NEW s \in Slots, CloseClient(s) PROVE FInv'
    <2>1. s \in InUse /\ FreeClient(s) /\ UNCHANGED <<sent, taken, lines, cur, pc>>
        BY <1>2 DEF CloseClient, InUse
    <2> QED
        BY <2>1, FreedFInv
<1>3. CASE Destroy
    <2>1. /\ UNCHANGED <<sent, taken, lines>> /\ InUse' = {}
          /\ \A d \in Conns : phase'[d] \in {"none", "pending"} => phase[d] \in {"none", "pending"}
        BY <1>3 DEF Destroy, InUse, FreeSlot
    <2>2. \A d \in Conns : Received(d)' = Received(d)
        BY <2>1 DEF Received
    <2> QED
        BY <2>1, <2>2, FrameKept
<1> QED
    BY <1>1, <1>2, <1>3

\* A slot whose connection was not touched is as good as before.
LEMMA BufferedElsewhere ==
    ASSUME IInv, FInv, NEW t \in InUse, NEW c \in Conns, c = owner[clients[t].fd],
           clients'[t] = clients[t], owner'[clients[t].fd] = c,
           lines'[c] = lines[c], Received(c)' = Received(c)
    PROVE  (SplitFrom([done |-> lines[owner[clients[t].fd]], rest |-> <<>>], clients[t].buf)
               = Split(Received(owner[clients[t].fd])))'
<1>1. SplitFrom([done |-> lines[c], rest |-> <<>>], clients[t].buf) = Split(Received(c))
    BY DEF FInv, Buffered
<1>2. Received(owner[clients[t].fd])' = Received(c)
    BY DEF Received
<1> QED
    BY <1>1, <1>2

\* A connection that is accepted starts with an empty buffer.
LEMMA AcceptFInv ==
    ASSUME IInv, FInv, IInv', Accept
    PROVE  FInv'
<1> DEFINE c == Head(backlog)
           f == Min({g \in Fds : owner[g] = None})
           s == Min(SlotsOf(NoFd))
<1>1. /\ pc = "events" /\ backlog # <<>> /\ NextEvent
      /\ UNCHANGED <<sent, taken, cur, lines>>
    BY DEF Accept
<1>2. c \in Conns /\ phase[c] = "pending" /\ phase \in [Conns -> {"none", "pending", "open", "closed"}]
    <2>1. backlog \in Seq(Conns) /\ c = backlog[1] /\ 1 \in 1..Len(backlog) /\ c \in Conns
        BY <1>1 DEF IInv, Typing, TypeOK
    <2> QED
        BY <2>1 DEF IInv, Waiting, Typing, TypeOK
<1>3. /\ pc' \notin {"read", "lines"} /\ \A d \in Conns : Received(d)' = Received(d)
      /\ \A t \in InUse : LineEnds(clients[t].buf) = {}
    BY <1>1 DEF NextEvent, Received, FInv, Partial
<1>4. CASE client_count >= MaxClients
    <2>1. phase' = [phase EXCEPT ![c] = "closed"] /\ UNCHANGED <<owner, clients>>
        BY <1>4 DEF Accept
    <2>2. InUse' = InUse
        BY <2>1 DEF InUse
    <2>3. \A d \in Conns : phase'[d] \in {"none", "pending"} => phase[d] \in {"none", "pending"}
        BY <1>2, <2>1
    <2> QED
        BY <1>1, <1>3, <2>1, <2>2, <2>3, FrameKept
<1>5. CASE ~(client_count >= MaxClients)
    <2>1. /\ phase' = [phase EXCEPT ![c] = "open"] /\ owner' = [owner EXCEPT ![f] = c]
          /\ clients' = [clients EXCEPT ![s] = [fd |-> f, buf |-> <<>>]]
        BY <1>5 DEF Accept
    <2>2. f \in Fds /\ owner[f] = None /\ f \notin watched /\ s \in Slots /\ s \notin InUse
        BY <1>5, FreeHandles
    <2> HIDE DEF c, f, s
    <2>3. /\ \A t \in InUse' : t # s => /\ t \in InUse /\ clients'[t] = clients[t]
                                        /\ owner'[clients[t].fd] = owner[clients[t].fd]
          /\ clients'[s] = [fd |-> f, buf |-> <<>>] /\ owner'[f] = c
        <3>1. \A t \in InUse' : t # s => t \in InUse /\ clients'[t] = clients[t]
            BY <2>1, <2>2 DEF InUse, IInv, Typing
        <3>2. \A t \in InUse : clients[t].fd # f /\ clients[t].fd \in Fds
            BY <2>2, SlotInUse
        <3>3. /\ \A t \in InUse : owner'[clients[t].fd] = owner[clients[t].fd]
              /\ clients'[s] = [fd |-> f, buf |-> <<>>] /\ owner'[f] = c
            BY <2>1, <2>2, <3>2 DEF IInv, Typing, TypeOK
        <3> QED
            BY <3>1, <3>3
    <2>4. Untouched' /\ Dispatched' /\ lines' \in [Conns -> Seq(Seq(STRING))]
        BY <1>1, <1>2, <1>3, <2>1 DEF FInv, Untouched, Dispatched
    <2>5. Partial'
        <3>1. LineEnds(<<>>) = {}
            BY DEF LineEnds
        <3>2. \A t \in InUse' : LineEnds(clients'[t].buf) = {}
            BY <1>3, <2>3, <3>1
        <3> QED
            BY <3>2 DEF Partial, LineEnds
    <2>6. ASSUME NEW t \in InUse'
          PROVE  (SplitFrom([done |-> lines[owner[clients[t].fd]], rest |-> <<>>], clients[t].buf)
                     = Split(Received(owner[clients[t].fd])))'
        <3>1. CASE t # s
            BY <1>1, <1>3, <2>3, <3>1, SlotInUse, BufferedElsewhere
        <3>2. CASE t = s
            <4>1. taken[c] = 0 /\ lines[c] = <<>>
                BY <1>2 DEF FInv, Untouched
            <4>2. Received(c) = <<>>
                BY <4>1, SubSeqEmpty DEF Received
            <4>3. PICK d \in Conns : d = c
                BY <1>2
            <4>4. Received(d)' = <<>>
                BY <1>3, <4>2, <4>3
            <4>5. Received(owner[clients[t].fd])' = <<>>
                BY <2>3, <3>2, <4>3, <4>4 DEF Received
            <4> QED
                BY <1>1, <2>3, <3>2, <4>1, <4>5 DEF Split
        <3> QED
            BY <3>1, <3>2
    <2>7. Buffered'
        BY <2>6 DEF Buffered
    <2> QED
        BY <2>4, <2>5, <2>7 DEF FInv
<1> QED
    BY <1>4, <1>5

\* Bytes that are read go to the end of the buffer.
LEMMA ReadDataFInv ==
    ASSUME IInv, FInv, IInv', ReadData
    PROVE  FInv'
<1> DEFINE n == Min({Space, Unread(Conn)})
           new == SubSeq(sent[Conn], taken[Conn] + 1, taken[Conn] + n)
           b == clients[cur].buf
           a == [done |-> lines[Conn], rest |-> <<>>]
           none == [done |-> <<>>, rest |-> <<>>]
<1>1. /\ pc = "read" /\ Space > 0 /\ Unread(Conn) > 0
      /\ clients' = [clients EXCEPT ![cur].buf = @ \o new]
      /\ taken' = [taken EXCEPT ![Conn] = @ + n]
      /\ UNCHANGED <<phase, sent, owner, pc, cur, lines>>
    BY DEF ReadData
<1>2. PICK c \in Conns : c = Conn
    BY <1>1, Served
<1>3. /\ cur \in InUse /\ cur \in Slots /\ b \in Seq(STRING) /\ Len(b) < BufLen
      /\ sent[c] \in Seq(STRING) /\ taken[c] \in 0..Len(sent[c])
    BY <1>1, <1>2, Served
<1>4. n \in Nat /\ taken[c] + n <= Len(sent[c])
    <2>1. Space \in Nat /\ Unread(Conn) \in Nat /\ Unread(Conn) = Len(sent[c]) - taken[c]
        BY <1>1, <1>2, <1>3, TcpBounds DEF Space, Unread
    <2>2. n \in {Space, Unread(Conn)} /\ n <= Unread(Conn)
        BY <2>1, MinMember
    <2> HIDE DEF n
    <2> QED
        BY <1>3, <2>1, <2>2
<1> HIDE DEF n
<1>5. new \in Seq(STRING) /\ Received(c) \in Seq(STRING)
    BY <1>2, <1>3, <1>4 DEF Received
<1>6. taken'[c] = taken[c] + n /\ \A d \in Conns : d # c => taken'[d] = taken[d]
    BY <1>1, <1>2 DEF IInv, Typing
<1>7. Received(c)' = Received(c) \o new
    <2> DEFINE k == taken[c]
               m == taken[c] + n
    <2>1. 1 \in 1..Len(sent[c]) + 1 /\ k \in 1 - 1..Len(sent[c]) /\ m \in k..Len(sent[c])
        BY <1>3, <1>4
    <2> HIDE DEF k, m
    <2>2. SubSeq(sent[c], 1, k) \o SubSeq(sent[c], k + 1, m) = SubSeq(sent[c], 1, m)
        BY <1>3, <2>1, ConcatAdjacentSubSeq
    <2> QED
        BY <1>1, <1>2, <1>6, <2>2 DEF Received, k, m
<1>8. \A d \in Conns : d # c => Received(d)' = Received(d)
    BY <1>1, <1>6 DEF Received
<1>9. /\ clients'[cur].buf = b \o new /\ InUse' = InUse
      /\ \A t \in Slots : clients'[t].fd = clients[t].fd
      /\ \A t \in Slots : t # cur => clients'[t] = clients[t]
    <2> HIDE DEF new
    <2> QED
        BY <1>1, <1>3 DEF IInv, Typing, Slot, InUse
<1>10. a \in Acc /\ none \in Acc /\ lines[c] \in Seq(Seq(STRING))
    BY <1>2 DEF FInv, Acc
<1>11. SplitFrom(a, b \o new) = Split(Received(c) \o new)
    <2> HIDE DEF new, a, b, none
    <2>1. SplitFrom(a, b) = Split(Received(c))
        BY <1>2, <1>3 DEF FInv, Buffered, Conn, a, b
    <2>2. SplitFrom(a, b \o new) = SplitFrom(SplitFrom(a, b), new)
        BY <1>3, <1>5, <1>10, SplitConcat
    <2>3. SplitFrom(none, Received(c) \o new) = SplitFrom(SplitFrom(none, Received(c)), new)
        BY <1>5, <1>10, SplitConcat
    <2> QED
        BY <2>1, <2>2, <2>3 DEF Split, none
<1>12. Buffered'
    <2>1. ASSUME NEW t \in InUse'
          PROVE  (SplitFrom([done |-> lines[owner[clients[t].fd]], rest |-> <<>>], clients[t].buf)
                     = Split(Received(owner[clients[t].fd])))'
        <3>1. t \in InUse /\ t \in Slots
            BY <1>9, <2>1 DEF InUse
        <3>2. CASE t = cur
            <4> HIDE DEF new, b
            <4>1. (owner[clients[t].fd])' = c
                BY <1>1, <1>2, <1>9, <3>1, <3>2 DEF Conn
            <4>2. Received(owner[clients[t].fd])' = Received(c) \o new
                BY <1>7, <4>1 DEF Received
            <4> QED
                BY <1>1, <1>2, <1>9, <1>11, <3>2, <4>1, <4>2
        <3>3. CASE t # cur
            <4>1. PICK d \in Conns : d = owner[clients[t].fd]
                BY <3>1, SlotInUse
            <4>2. d # c
                BY <1>2, <1>3, <3>1, <3>3, <4>1, SlotsApart DEF Conn
            <4>3. clients'[t] = clients[t] /\ Received(d)' = Received(d)
                BY <1>8, <1>9, <3>1, <3>3, <4>2
            <4> QED
                BY <1>1, <3>1, <4>1, <4>3, BufferedElsewhere
        <3> QED
            BY <3>2, <3>3
    <2> QED
        BY <2>1 DEF Buffered
<1>13. Dispatched'
    <2>1. IsPrefix(lines[c], Split(Received(c) \o new).done)
        <3> HIDE DEF new, b
        <3>1. IsPrefix(a.done, SplitFrom(a, b \o new).done)
            BY <1>3, <1>5, <1>10, ConcatProperties, SplitMonotone
        <3> QED
            BY <1>2, <1>11, <3>1
    <2>2. \A d \in Conns : (IsPrefix(lines[d], Split(Received(d)).done))'
        BY <1>1, <1>7, <1>8, <2>1 DEF FInv, Dispatched
    <2> QED
        BY <2>2 DEF Dispatched
<1>14. Untouched'
    <2>1. phase[c] = "open"
        BY <1>2, <1>3, SlotInUse DEF Conn
    <2> QED
        BY <1>1, <1>6, <2>1 DEF FInv, Untouched
<1>15. Partial'
    <2>1. \A t \in InUse : t # cur => LineEnds(clients[t].buf) = {} /\ t \in Slots
        BY DEF FInv, Partial, InUse
    <2> QED
        BY <1>1, <1>9, <2>1 DEF Partial, LineEnds
<1> QED
    BY <1>1, <1>12, <1>13, <1>14, <1>15 DEF FInv

\* The first line goes from the buffer to on_message; an empty one goes nowhere.
LEMMA LineFInv ==
    ASSUME IInv, FInv, IInv', Line
    PROVE  FInv'
<1> DEFINE b == clients[cur].buf
           e == LineEnd
           l == NextLine
           rest == SubSeq(b, e + 1, Len(b))
<1>1. /\ pc = "lines" /\ LineEnds(b) # {} /\ UNCHANGED <<sent, taken, cur>>
      /\ lines' = IF Calling THEN [lines EXCEPT ![Conn] = Append(@, l)] ELSE lines
    BY DEF Line
<1>2. PICK c \in Conns : c = Conn
    BY <1>1, Served
<1>3. cur \in InUse /\ cur \in Slots /\ b \in Seq(STRING)
    BY <1>1, Served
<1>4. lines \in [Conns -> Seq(Seq(STRING))]
    BY DEF FInv
<1> DEFINE d == lines[c]
           more == IF l = <<>> THEN d ELSE Append(d, l)
<1>5. /\ e \in 1..Len(b) /\ l \in Seq(STRING) /\ rest \in Seq(STRING)
      /\ SplitFrom([done |-> d, rest |-> <<>>], b) = SplitFrom([done |-> more, rest |-> <<>>], rest)
    <2>1. /\ e = Min(LineEnds(b)) /\ l = First(b) /\ rest = After(b) /\ more = More(d, l)
          /\ d \in Seq(Seq(STRING))
        BY <1>4 DEF LineEnd, NextLine, First, After, More
    <2> HIDE DEF b, e, l, d, rest, more
    <2> QED
        BY <1>1, <1>3, <2>1, FirstLine
<1>6. Calling <=> l # <<>>
    BY <1>1 DEF Calling
<1> HIDE DEF e, l
<1>7. /\ lines'[c] = more /\ lines' \in [Conns -> Seq(Seq(STRING))] /\ more \in Seq(Seq(STRING))
      /\ \A k \in Conns : k # c => lines'[k] = lines[k]
    <2>1. d \in Seq(Seq(STRING)) /\ Append(d, l) \in Seq(Seq(STRING))
        BY <1>4, <1>5
    <2> DEFINE a == Append(d, l)
    <2>2. CASE Calling
        <3>1. lines' = [lines EXCEPT ![c] = a] /\ more = a
            BY <1>1, <1>2, <1>4, <1>6, <2>2
        <3> HIDE DEF a, more
        <3> QED
            BY <1>4, <2>1, <3>1 DEF a
    <2>3. CASE ~Calling
        <3>1. lines' = lines /\ more = d
            BY <1>1, <1>6, <2>3
        <3> QED
            BY <1>4, <2>1, <3>1
    <2> QED
        BY <2>2, <2>3
<1>8. \A k \in Conns : Received(k)' = Received(k)
    BY <1>1 DEF Received
<1>9. SplitFrom([done |-> more, rest |-> <<>>], rest) = Split(Received(c))
    BY <1>2, <1>3, <1>5 DEF FInv, Buffered, Conn
<1> HIDE DEF more, rest
<1>10. Dispatched'
    <2>1. [done |-> more, rest |-> <<>>] \in Acc
        BY <1>7 DEF Acc
    <2>2. IsPrefix([done |-> more, rest |-> <<>>].done, Split(Received(c)).done)
        BY <1>5, <1>9, <2>1, SplitMonotone
    <2>3. IsPrefix(more, Split(Received(c)).done)
        BY <2>2
    <2>4. \A k \in Conns : (IsPrefix(lines[k], Split(Received(k)).done))'
        BY <1>7, <1>8, <2>3 DEF FInv, Dispatched
    <2> QED
        BY <2>4 DEF Dispatched
<1>11. phase[c] = "open" /\ \A t \in InUse : t # cur => owner[clients[t].fd] \in Conns \ {c}
    BY <1>2, <1>3, SlotInUse, SlotsApart DEF Conn
<1>12. \A t \in InUse : t # cur => LineEnds(clients[t].buf) = {}
    BY DEF FInv, Partial
<1>13. ASSUME NEW t \in InUse, t # cur, clients'[t] = clients[t],
              owner'[clients[t].fd] = owner[clients[t].fd]
       PROVE  (SplitFrom([done |-> lines[owner[clients[t].fd]], rest |-> <<>>], clients[t].buf)
                  = Split(Received(owner[clients[t].fd])))'
    <2>1. PICK k \in Conns : k = owner[clients[t].fd] /\ k # c
        BY <1>11, <1>13
    <2> QED
        BY <1>7, <1>8, <1>13, <2>1, BufferedElsewhere
<1>14. CASE /\ clients' = [clients EXCEPT ![cur].buf = SubSeq(@, LineEnd + 1, Len(@))]
            /\ UNCHANGED <<phase, owner, watched, ready, client_count, events, pc>>
    <2>1. /\ clients'[cur].buf = rest /\ InUse' = InUse
          /\ \A t \in Slots : clients'[t].fd = clients[t].fd
          /\ \A t \in Slots : t # cur => clients'[t] = clients[t]
        BY <1>3, <1>14 DEF IInv, Typing, Slot, InUse, rest, e
    <2>2. ASSUME NEW t \in InUse'
          PROVE  (SplitFrom([done |-> lines[owner[clients[t].fd]], rest |-> <<>>], clients[t].buf)
                     = Split(Received(owner[clients[t].fd])))'
        <3>1. t \in InUse /\ t \in Slots
            BY <2>1, <2>2 DEF InUse
        <3>2. CASE t = cur
            <4>1. (owner[clients[t].fd])' = c
                BY <1>2, <1>14, <2>1, <3>1, <3>2 DEF Conn
            <4>2. Received(owner[clients[t].fd])' = Received(c)
                BY <1>8, <4>1 DEF Received
            <4> QED
                BY <1>7, <1>9, <2>1, <3>2, <4>1, <4>2
        <3>3. CASE t # cur
            BY <1>13, <1>14, <2>1, <3>1, <3>3
        <3> QED
            BY <3>2, <3>3
    <2>3. Untouched'
        BY <1>1, <1>7, <1>11, <1>14 DEF FInv, Untouched
    <2>4. Partial'
        <3>1. \A t \in InUse : t # cur => clients'[t] = clients[t]
            BY <2>1 DEF InUse
        <3> QED
            BY <1>1, <1>12, <1>14, <2>1, <3>1 DEF Partial, LineEnds
    <2>5. Buffered'
        BY <2>2 DEF Buffered
    <2> QED
        BY <1>7, <1>10, <2>3, <2>4, <2>5 DEF FInv
<1>15. CASE FreeClient(cur) /\ NextEvent
    <2> DEFINE f == clients[cur].fd
    <2>1. /\ owner' = [owner EXCEPT ![f] = None] /\ phase' = [phase EXCEPT ![c] = "closed"]
          /\ clients' = [clients EXCEPT ![cur] = FreeSlot]
        BY <1>2, <1>15 DEF FreeClient, Conn
    <2>2. \A t \in InUse' : t \in InUse /\ t # cur /\ clients'[t] = clients[t]
        BY <1>3, <2>1 DEF InUse, FreeSlot, IInv, Typing
    <2>3. \A t \in InUse' : owner'[clients[t].fd] = owner[clients[t].fd]
        BY <1>3, <2>1, <2>2, SlotInUse DEF IInv, OneEach, Typing, TypeOK
    <2>4. Buffered'
        BY <1>13, <2>2, <2>3 DEF Buffered
    <2>5. Untouched'
        BY <1>1, <1>7, <2>1 DEF FInv, Untouched, IInv, Typing, TypeOK
    <2>6. Partial'
        BY <1>12, <2>2 DEF Partial, LineEnds
    <2> QED
        BY <1>7, <1>10, <2>4, <2>5, <2>6 DEF FInv
<1> QED
    BY <1>14, <1>15 DEF Line

\* Every step keeps the invariant of the framing.
LEMMA NextFInv == IInv /\ FInv /\ [Next]_vars => FInv'
<1> SUFFICES ASSUME IInv, FInv, [Next]_vars PROVE FInv'
    OBVIOUS
<1>1. IInv'
    BY NextIInv
<1>2. CASE \E c \in Conns : Connect(c) \/ Transmit(c) \/ \E how \in {"fin", "rst"} : Hangup(c, how)
    BY <1>2, ArrivalFInv
<1>3. CASE Poll
    BY <1>1, <1>3, SlotsKeptFInv, AcceptFInv, ReadDataFInv, ClosesFInv, LineFInv DEF Poll, Recv
<1>4. CASE Destroy \/ \E s \in Slots : CloseClient(s)
    BY <1>1, <1>4, ClosesFInv
<1>5. CASE Create \/ TcpSend \/ UNCHANGED vars
    BY <1>5, SlotsKeptFInv
<1> QED
    BY <1>2, <1>3, <1>4, <1>5 DEF Next

-----------------------------------------------------------------------------
(* Results.                                                                *)

\* The invariant holds in every reachable state.
THEOREM Invariance == Spec => []IInv
    BY InitIInv, NextIInv, PTL DEF Spec

\* The server's variables have their types; in particular no buffer is filled
\* to its last byte, which the terminating NUL takes.
THEOREM TypeCorrect == Spec => []TypeOK
<1>1. IInv => TypeOK
    BY DEF IInv, Typing
<1> QED
    BY <1>1, Invariance, PTL

\* The slot table, the count, the interest list and the descriptor table agree,
\* for any number of slots and connections.
THEOREM TablesAlwaysAgree == Spec => []TablesAgree
<1>1. IInv => TablesAgree
    BY DEF IInv
<1> QED
    BY <1>1, Invariance, PTL

\* No edge is lost: recv_client drains each socket, so that a server that goes
\* back to epoll_wait is told of everything that is still to be read.
THEOREM NoEdgeIsLost == Spec => []NoLostEdge
<1>1. IInv => NoLostEdge
    BY DEF IInv, Edges, Serving, Due, FirstOpen, NoLostEdge
<1> QED
    BY <1>1, Invariance, PTL

\* However the network and the buffer cut the bytes up, and whichever slots and
\* descriptors are used again, on_message is called with the lines of that
\* connection, each once and in order; and between two polls with all of them.
THEOREM FramingHolds == Spec => []Framing
<1>1. ASSUME IInv, FInv PROVE Framing
    <2>1. \A c \in Conns : IsPrefix(lines[c], Split(Received(c)).done)
        BY <1>1 DEF FInv, Dispatched
    <2>2. ASSUME pc \in {"idle", "events"}, NEW s \in InUse, NEW c, c = owner[clients[s].fd]
          PROVE  Split(Received(c)) = [done |-> lines[c], rest |-> clients[s].buf]
        <3>1. LineEnds(clients[s].buf) = {} /\ clients[s].buf \in Seq(STRING)
            BY <1>1, <2>2, SlotInUse DEF FInv, Partial
        <3>2. SplitFrom([done |-> lines[c], rest |-> <<>>], clients[s].buf)
                 = [done |-> lines[c], rest |-> <<>> \o clients[s].buf]
            BY <3>1, EmptySeq, SplitPartial
        <3>3. <<>> \o clients[s].buf = clients[s].buf
            BY <3>1, ConcatEmptySeq
        <3> QED
            BY <1>1, <2>2, <3>2, <3>3 DEF FInv, Buffered
    <2> QED
        BY <2>1, <2>2 DEF Framing
<1>2. FInv /\ IInv => Framing
    BY <1>1
<1>3. Spec => []FInv
    BY InitFInv, NextFInv, Invariance, PTL DEF Spec
<1> QED
    BY <1>2, <1>3, Invariance, PTL

=============================================================================
