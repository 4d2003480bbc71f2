---------------------------- MODULE AcceptProofs ----------------------------
(***************************************************************************)
(* How the poll loop treats the sockets poll() reports: accept() never     *)
(* blocks, a client is turned away only from a full table, and as long as  *)
(* no client aborts a connection none is closed without a reason of its    *)
(* own.  The slot table of PollServerProofs is the invariant beneath; each *)
(* promise adds what the scan still knows of the events poll() reported.   *)
(***************************************************************************)
EXTENDS PollServerProofs, FiniteSetTheorems

(* A listening socket sits in its own slot, at the front.                  *)
LEMMA ListeningSlot ==
    ASSUME TypeOK, SlotsOK, Running, NEW s \in InUse, net_fd[s] \in Listening
    PROVE  s + 1 \in DOMAIN ListenOrder /\ ListenOrder[s+1] = net_fd[s]
<1>1. ConnSlots /\ ListenersFirst
  BY DEF SlotsOK
<1>2. s \in Nat /\ net_nfds \in Nat
  BY SocketFacts DEF InUse, TypeOK
<1>3. s < Len(ListenOrder)
  <2> SUFFICES ASSUME s >= Len(ListenOrder) PROVE FALSE
    BY <1>2, ListenFacts
  <2>1. net_fd[s] \in Conns \cup {NoSocket}
    BY <1>1 DEF ConnSlots
  <2> QED BY <2>1, ListenersApart
<1>4. s + 1 \in DOMAIN ListenOrder /\ (s + 1) - 1 = s
  BY <1>2, <1>3, ListenFacts
<1> QED BY <1>1, <1>4 DEF ListenersFirst

(* What the scan works on: the slot it is at is in use and not a gap.      *)
LEMMA ScannedSlot ==
    ASSUME TypeOK, SlotsOK, Scanning \/ pc \in {"recv", "send"}
    PROVE  /\ Running /\ idx \in InUse /\ idx \in Nat
           /\ net_fd[idx] \in Conns => tcp[net_fd[idx]] = "open"
           /\ net_fd[idx] \in Listening \/ net_fd[idx] \in Conns
<1>1. Running
  BY DEF Scanning, Running
<1>2. /\ ListenersFirst /\ ConnSlots /\ Gaps /\ Working
  BY <1>1 DEF SlotsOK
<1>3. idx \in InUse /\ idx \in Nat /\ net_nfds \in Nat
  BY <1>2, SocketFacts DEF Scanning, InUse, TypeOK, Working
<1>4. net_fd[idx] # NoSocket
  BY <1>2, <1>3 DEF Gaps, Scanning
<1>5. CASE idx < Len(ListenOrder)
  <2>1. idx + 1 \in DOMAIN ListenOrder /\ (idx + 1) - 1 = idx
    BY <1>3, <1>5, ListenFacts
  <2>2. net_fd[idx] \in Listening
    BY <1>2, <2>1, ListenFacts DEF ListenersFirst
  <2> QED BY <1>1, <1>3, <2>2, ListenersApart
<1>6. CASE idx >= Len(ListenOrder)
  BY <1>1, <1>2, <1>3, <1>4, <1>6 DEF ConnSlots
<1> QED BY <1>3, <1>5, <1>6, ListenFacts

(* receive_from_peer() works on an open connection, by its own channel.    *)
LEMMA ServedSlot ==
    ASSUME TypeOK, SlotsOK, pc \in {"recv", "send"}
    PROVE  /\ Running /\ idx \in InUse /\ idx \in Nat
           /\ Sock \in Conns /\ tcp[Sock] = "open" /\ Chn = Chan(port[Sock])
<1>1. Running /\ idx \in InUse /\ idx \in Nat /\ Sock = net_fd[idx]
  BY ScannedSlot DEF Sock
<1>2. ConnSlots /\ ListenersFirst /\ Sock \in Conns
  BY <1>1 DEF SlotsOK, Working
<1>3. idx >= Len(ListenOrder)
  <2> SUFFICES ASSUME idx < Len(ListenOrder) PROVE FALSE
    BY <1>1, ListenFacts
  <2>1. idx + 1 \in DOMAIN ListenOrder /\ (idx + 1) - 1 = idx
    BY <1>1, ListenFacts
  <2> QED BY <1>1, <1>2, <2>1, ListenFacts, ConnsApart DEF ListenersFirst
<1> QED BY <1>1, <1>2, <1>3 DEF ConnSlots, Chn

(* A slot with an error is a connection.                                   *)
LEMMA ErroredSlot ==
    ASSUME TypeOK, SlotsOK, Scanning, net_revents[idx] = "err"
    PROVE  net_fd[idx] \in Conns /\ net_fd[idx] \notin Listening
<1>1. Running /\ idx \in InUse /\ net_fd[idx] \in Listening \cup Conns
  BY ScannedSlot
<1>2. SUFFICES ASSUME net_fd[idx] \in Listening PROVE FALSE
  BY <1>1, ConnsApart
<1>3. idx + 1 \in DOMAIN ListenOrder /\ (idx + 1) - 1 = idx
  BY <1>1, <1>2, ListeningSlot, SocketFacts DEF InUse, TypeOK
<1>4. ListenersFirst
  BY <1>1 DEF SlotsOK
<1> QED BY <1>3, <1>4 DEF ListenersFirst

(* Only an open connection is closed in a slot: nobody who waits is.       *)
LEMMA WaitersKept ==
    ASSUME TypeOK, Vacate, net_fd[idx] \in Conns, tcp[net_fd[idx]] = "open",
           NEW c \in Conns, tcp[c] = "queued"
    PROVE  tcp'[c] = "queued"
  BY DEF Vacate

----------------------------------------------------------------------------
(* While the scan goes on, every listening socket it has not passed and    *)
(* poll() found ready still has a connection waiting: each is accepted     *)
(* from at most once a round, and nobody else accepts from it.             *)
Waiting ==
    pc \in {"scan", "recv", "send"} =>
        \A k \in DOMAIN ListenOrder :
            k - 1 >= idx /\ net_revents[k-1] = "in"
                => \E c \in Conns : tcp[c] = "queued" /\ port[c] = ListenOrder[k]

LEMMA WaitingKept ==
    ASSUME TypeOK, Waiting, pc \in {"scan", "recv", "send"},
           UNCHANGED <<net_revents, port>>, idx' \in Nat, idx' >= idx,
           \A c \in Conns : tcp[c] = "queued" => tcp'[c] = "queued"
    PROVE  Waiting'
<1> SUFFICES ASSUME NEW k \in DOMAIN ListenOrder, k - 1 >= idx', net_revents[k-1] = "in"
             PROVE  \E c \in Conns : tcp'[c] = "queued" /\ port[c] = ListenOrder[k]
  BY DEF Waiting
<1>1. k - 1 >= idx
  BY ListenFacts, SocketFacts DEF TypeOK
<1> QED BY <1>1 DEF Waiting

LEMMA WaitingStep == TypeOK /\ SlotsOK /\ Waiting /\ [Next]_vars => Waiting'
<1> SUFFICES ASSUME TypeOK, SlotsOK, Waiting, [Next]_vars, pc' \in {"scan", "recv", "send"}
             PROVE  Waiting'
  BY DEF Waiting
<1>i. idx \in Nat /\ net_nfds \in 0..MaxFds
  BY SocketFacts DEF TypeOK
<1>1. ASSUME NEW c \in Conns, Client(c) PROVE Waiting'
  <2>1. UNCHANGED <<net_revents, pc, idx, port>>
    BY <1>1 DEF Client, Connect, ClientSend, ClientRead, ClientClose, ClientReset, tables, locals
  <2>2. \A d \in Conns : tcp[d] = "queued" => tcp'[d] = "queued"
    BY <1>1 DEF Client, Connect, ClientSend, ClientRead, ClientClose, ClientReset, TypeOK
  <2> QED BY <2>1, <2>2, <1>i, WaitingKept
<1>2. CASE UNCHANGED vars
  BY <1>2, <1>i, WaitingKept DEF vars, tables, locals, wire
<1>3. CASE Poll
  <2> SUFFICES ASSUME NEW k \in DOMAIN ListenOrder, net_revents'[k-1] = "in"
               PROVE  \E c \in Conns : tcp[c] = "queued" /\ port[c] = ListenOrder[k]
    BY <1>3 DEF Waiting, Poll, wire
  <2>1. ListenersFirst
    BY <1>3 DEF Poll, SlotsOK, Running
  <2>2. k-1 \in InUse /\ k-1 \in Slot
    BY <1>i, <2>1, ListenFacts, SocketFacts DEF ListenersFirst, InUse, Slot
  <2>3. net_revents'[k-1] = PollEvents(ListenOrder[k])
    BY <1>3, <2>1, <2>2 DEF Poll, Polled, ListenersFirst
  <2>4. ListenOrder[k] \notin Conns
    BY ListenFacts, ListenersApart
  <2> QED BY <2>3, <2>4 DEF PollEvents
<1>4. CASE SkipSlot
  BY <1>4, <1>i, WaitingKept DEF SkipSlot, Scanning, tables, wire
<1>5. CASE DropErrored
  <2>1. net_fd[idx] \in Conns /\ tcp[net_fd[idx]] = "open"
    BY <1>5, ErroredSlot, ScannedSlot DEF DropErrored
  <2>2. \A c \in Conns : tcp[c] = "queued" => tcp'[c] = "queued"
    BY <1>5, <2>1, WaitersKept DEF DropErrored
  <2> QED BY <1>5, <1>i, <2>2, WaitingKept DEF DropErrored, Scanning
<1>6. ASSUME NEW c \in Conns, AcceptConnection(c) PROVE Waiting'
  <2>1. /\ pc = "scan" /\ idx \in InUse /\ net_fd[idx] \in Listening
        /\ idx' = idx + 1 /\ UNCHANGED <<net_revents, port>> /\ port[c] = net_fd[idx]
    BY <1>6, <1>i DEF AcceptConnection, Scanning, InUse, Install
  <2>2. \A d \in Conns : d # c => tcp'[d] = tcp[d]
    BY <1>6 DEF AcceptConnection, TypeOK
  <2>3. idx + 1 \in DOMAIN ListenOrder /\ ListenOrder[idx+1] = net_fd[idx]
    BY <2>1, ListeningSlot DEF Running
  <2> SUFFICES ASSUME NEW k \in DOMAIN ListenOrder, k - 1 >= idx + 1, net_revents[k-1] = "in"
               PROVE  \E d \in Conns : tcp'[d] = "queued" /\ port[d] = ListenOrder[k]
    BY <2>1 DEF Waiting
  <2>4. PICK d \in Conns : tcp[d] = "queued" /\ port[d] = ListenOrder[k]
    <3>1. k - 1 >= idx
      BY <1>i, ListenFacts
    <3> QED BY <2>1, <3>1 DEF Waiting
  <2>5. ListenOrder[k] # ListenOrder[idx+1]
    <3>1. k # idx + 1
      BY <1>i, ListenFacts
    <3> QED BY <2>3, <3>1, ListenFacts
  <2>6. d # c
    BY <2>1, <2>3, <2>4, <2>5
  <2> QED BY <2>2, <2>4, <2>6
<1>7. CASE BeginReceive
  BY <1>7, <1>i, WaitingKept DEF BeginReceive, Scanning, tables, wire
<1>8. ASSUME NEW c \in Conns, NEW b \in Byte, StoreByte(c, b) \/ DiscardLine(c, b) \/ HandleRequest(c, b)
      PROVE  Waiting'
  <2>1. UNCHANGED <<net_revents, idx, tcp, port>> /\ pc = "recv"
    BY <1>8 DEF StoreByte, DiscardLine, HandleRequest, Received, tables
  <2> QED BY <1>i, <2>1, WaitingKept
<1>9. ASSUME NEW c \in Conns, SendReply(c) \/ SendFails(c) PROVE Waiting'
  <2>1. UNCHANGED <<net_revents, idx, tcp, port>> /\ pc = "send"
    BY <1>9 DEF SendReply, SendFails, tables, wire
  <2> QED BY <1>i, <2>1, WaitingKept
<1>10. ASSUME NEW c \in Conns, RecvDone(c) PROVE Waiting'
  <2>1. UNCHANGED <<net_revents, port>> /\ pc = "recv" /\ idx' = idx + 1 /\ c = net_fd[idx]
    BY <1>10 DEF RecvDone, Sock
  <2>2. tcp[c] = "open"
    BY <2>1, ScannedSlot
  <2>3. \A d \in Conns : tcp[d] = "queued" => tcp'[d] = "queued"
    <3>1. Vacate \/ tcp' = tcp
      BY <1>10 DEF RecvDone
    <3> QED BY <2>1, <2>2, <3>1, WaitersKept
  <2> QED BY <1>i, <2>1, <2>3, WaitingKept
<1>11. ASSUME ScanDone \/ PollTimeout \/ CloseGap \/ KeepSlot \/ CompressDone PROVE FALSE
  BY <1>11 DEF ScanDone, PollTimeout, CloseGap, KeepSlot, CompressDone, locals
<1>12. ASSUME PollFails \/ AcceptFails \/ Interrupt
                \/ \E c \in Conns : SendSigpipe(c) \/ \E b \in Byte : HandlerCrashes(c, b)
       PROVE  FALSE
  BY <1>12 DEF PollFails, AcceptFails, Interrupt, SendSigpipe, HandlerCrashes, Exit
<1> QED
  BY <1>1, <1>2, <1>3, <1>4, <1>5, <1>6, <1>7, <1>8, <1>9, <1>10, <1>11, <1>12
  DEF Next, Server, Receive

(***************************************************************************)
(* accept() on a blocking listening socket is called only when somebody    *)
(* waits to be accepted, so handle_new_connection() never hangs the loop.  *)
(***************************************************************************)
THEOREM AcceptSafe == Spec => []AcceptNeverBlocks
<1>1. Init => Waiting
  BY DEF Init, Waiting
<1>2. TypeOK /\ SlotsOK /\ Waiting => AcceptNeverBlocks
  <2> SUFFICES ASSUME TypeOK, SlotsOK, Waiting, Scanning,
                      net_revents[idx] = "in", net_fd[idx] \in Listening
               PROVE  \E c \in Conns : tcp[c] = "queued" /\ port[c] = net_fd[idx]
    BY DEF AcceptNeverBlocks
  <2>1. Running /\ idx \in InUse /\ idx \in Nat
    BY ScannedSlot
  <2>2. idx + 1 \in DOMAIN ListenOrder /\ ListenOrder[idx+1] = net_fd[idx] /\ (idx + 1) - 1 = idx
    BY <2>1, ListeningSlot
  <2> QED BY <2>1, <2>2 DEF Waiting, Scanning
<1> QED BY <1>1, <1>2, WaitingStep, Inductive, PTL DEF Spec

----------------------------------------------------------------------------
(* When the scan stands at a listening socket there are no gaps behind it: *)
(* a full table is full of open connections.                               *)
LEMMA FullTable ==
    ASSUME TypeOK, SlotsOK, Scanning, net_fd[idx] \in Listening, Full
    PROVE  Cardinality(Served) + Len(ListenOrder) = MaxFds
<1> DEFINE L == Len(ListenOrder)
           S == L..(MaxFds - 1)
           f == [s \in S |-> net_fd[s]]
<1>1. /\ Running /\ idx \in InUse /\ idx \in Nat
      /\ ListenersFirst /\ ConnSlots /\ OneSlotEach /\ Gaps
  BY ScannedSlot DEF SlotsOK
<1>2. net_nfds = MaxFds /\ L \in Nat /\ MaxFds \in Nat /\ L <= MaxFds
  BY <1>1, SocketFacts, ListenFacts DEF TypeOK, Full, ListenersFirst
<1>3. idx < L
  BY <1>1, <1>2, ListeningSlot, ListenFacts
<1>4. \A s \in S : s \in InUse /\ s >= L /\ s # idx /\ ~(s < idx)
  BY <1>1, <1>2, <1>3 DEF InUse
<1>5. \A s \in S : net_fd[s] \in Served
  <2> SUFFICES ASSUME NEW s \in S PROVE net_fd[s] \in Served
    OBVIOUS
  <2>1. net_fd[s] # NoSocket
    BY <1>1, <1>4 DEF Gaps, Scanning
  <2> QED BY <1>1, <1>4, <2>1 DEF ConnSlots, Served
<1>6. f \in Bijection(S, Served)
  <2>1. f \in [S -> Served]
    BY <1>5
  <2>2. \A s, t \in S : f[s] = f[t] => s = t
    <3>1. \A s \in S : net_fd[s] # NoSocket
      BY <1>5, ConnsApart DEF Served
    <3> QED BY <1>1, <1>4, <3>1 DEF OneSlotEach
  <2>3. ASSUME NEW c \in Served PROVE \E s \in S : f[s] = c
    <3>1. PICK s \in InUse : net_fd[s] = c
      BY <1>1 DEF OneSlotEach
    <3>2. s \in Nat /\ s < MaxFds
      BY <1>2, <3>1 DEF InUse
    <3>3. ~(s < L)
      <4> SUFFICES ASSUME s < L PROVE FALSE
        OBVIOUS
      <4>1. s + 1 \in DOMAIN ListenOrder /\ (s + 1) - 1 = s
        BY <3>2, ListenFacts
      <4>2. net_fd[s] \in Listening
        BY <1>1, <4>1, ListenFacts DEF ListenersFirst
      <4> QED BY <3>1, <4>2, ConnsApart DEF Served
    <3>4. s \in S
      BY <1>2, <3>2, <3>3
    <3> QED BY <3>1, <3>4
  <2> HIDE DEF f, S
  <2> QED BY <2>1, <2>2, <2>3 DEF Bijection, Injection, Surjection, IsInjective
<1>7. IsFiniteSet(S) /\ Cardinality(S) = MaxFds - L
  <2>1. L \in Int /\ MaxFds - 1 \in Int
    BY <1>2
  <2>2. /\ IsFiniteSet(L..(MaxFds - 1))
        /\ Cardinality(L..(MaxFds - 1)) = IF L > MaxFds - 1 THEN 0 ELSE (MaxFds - 1) - L + 1
    <3> HIDE DEF L
    <3> QED BY <2>1, FS_Interval
  <2> HIDE DEF L
  <2> QED BY <1>2, <2>2
<1>8. Cardinality(Served) = Cardinality(S)
  <2>1. ExistsBijection(S, Served)
    <3> HIDE DEF f, S
    <3> QED BY <1>6 DEF ExistsBijection
  <2> HIDE DEF S
  <2> QED BY <1>7, <2>1, FS_Bijection
<1> HIDE DEF S, f, L
<1>9. Cardinality(Served) + L = MaxFds
  BY <1>2, <1>7, <1>8
<1> QED BY <1>9 DEF L

(***************************************************************************)
(* handle_new_connection() turns a client away only when the listening     *)
(* sockets and open connections take every slot: in particular never while *)
(* a slot vacated in the same round waits to be compressed away.           *)
(***************************************************************************)
THEOREM RefusalIsJustified == Spec => RefusesOnlyWhenFull
<1> DEFINE Refusal == \A c \in Conns :
              tcp[c] = "queued" /\ tcp'[c] = "closed" /\ Running'
                  => Cardinality(Served) + Len(ListenOrder) = MaxFds
<1>1. TypeOK /\ SlotsOK /\ [Next]_vars => Refusal
  <2> SUFFICES ASSUME TypeOK, SlotsOK, [Next]_vars, NEW c \in Conns,
                      tcp[c] = "queued", tcp'[c] = "closed", Running'
               PROVE  Cardinality(Served) + Len(ListenOrder) = MaxFds
    OBVIOUS
  <2>1. ASSUME NEW d \in Conns, Client(d) PROVE FALSE
    BY <2>1 DEF Client, Connect, ClientSend, ClientRead, ClientClose, ClientReset, TypeOK
  <2>2. ASSUME NEW d \in Conns, AcceptConnection(d)
        PROVE  Cardinality(Served) + Len(ListenOrder) = MaxFds
    <3>1. Full
      BY <2>2 DEF AcceptConnection, TypeOK
    <3> QED BY <2>2, <3>1, FullTable DEF AcceptConnection
  <2>3. ASSUME Vacate, Scanning \/ pc = "recv", net_fd[idx] \in Conns PROVE FALSE
    BY <2>3, ScannedSlot, WaitersKept
  <2>4. CASE DropErrored
    BY <2>3, <2>4, ErroredSlot DEF DropErrored
  <2>5. ASSUME NEW d \in Conns, RecvDone(d) PROVE FALSE
    BY <2>3, <2>5 DEF RecvDone, Sock
  <2>6. ASSUME tcp' = tcp PROVE FALSE
    BY <2>6
  <2>7. ASSUME PollFails \/ AcceptFails \/ Interrupt
                 \/ \E d \in Conns : SendSigpipe(d) \/ \E b \in Byte : HandlerCrashes(d, b)
        PROVE  FALSE
    BY <2>7 DEF PollFails, AcceptFails, Interrupt, SendSigpipe, HandlerCrashes, Exit, Running
  <2>8. ASSUME Poll \/ PollTimeout \/ SkipSlot \/ BeginReceive \/ ScanDone
                 \/ CloseGap \/ KeepSlot \/ CompressDone \/ UNCHANGED vars
        PROVE  tcp' = tcp
    BY <2>8 DEF Poll, PollTimeout, SkipSlot, BeginReceive, ScanDone, CloseGap, KeepSlot,
                CompressDone, wire, vars
  <2>9. ASSUME NEW d \in Conns, SendReply(d) \/ SendFails(d)
                 \/ \E b \in Byte : StoreByte(d, b) \/ DiscardLine(d, b) \/ HandleRequest(d, b)
        PROVE  tcp' = tcp
    BY <2>9 DEF SendReply, SendFails, StoreByte, DiscardLine, HandleRequest, wire
  <2> QED
    BY <2>1, <2>2, <2>4, <2>5, <2>6, <2>7, <2>8, <2>9 DEF Next, Server, Receive
<1>2. TypeOK /\ SlotsOK /\ [Next]_vars => [Refusal]_vars
  BY <1>1
<1> QED BY <1>2, Inductive, PTL DEF Spec, RefusesOnlyWhenFull

----------------------------------------------------------------------------
(* An error event, even a stale one, is the mark of some client that       *)
(* aborted; the note to close a connection is due to that connection.      *)
Causes ==
    /\ \A s \in Slot : net_revents[s] = "err" => \E d \in Conns : rst[d]
    /\ pc \in {"recv", "send"} /\ close_conn => AskedToQuit(Sock) \/ rst[Sock]

LEMMA ResetsStay == TypeOK /\ [Next]_vars => \A d \in Conns : rst[d] => rst'[d]
<1> SUFFICES ASSUME TypeOK, [Next]_vars, NEW d \in Conns, rst[d] PROVE rst'[d]
  OBVIOUS
<1>1. ASSUME NEW c \in Conns, Client(c) PROVE rst'[d]
  BY <1>1 DEF Client, Connect, ClientSend, ClientRead, ClientClose, ClientReset, TypeOK
<1>2. CASE UNCHANGED rst
  BY <1>2
<1> QED
  BY <1>1, <1>2 DEF Next, Server, Receive, vars, wire, Poll, PollTimeout, PollFails, SkipSlot,
     DropErrored, AcceptFails, BeginReceive, ScanDone, AcceptConnection, StoreByte, DiscardLine,
     HandleRequest, HandlerCrashes, SendReply, SendFails, SendSigpipe, RecvDone, CloseGap,
     KeepSlot, CompressDone, Interrupt

(* Steps that leave the receive loop, the events and the histories alone.  *)
LEMMA CausesKept ==
    ASSUME TypeOK, SlotsOK, Causes, [Next]_vars, UNCHANGED <<net_revents, net_fd, idx, port, handled>>,
           pc' \in {"recv", "send"} /\ close_conn' => pc \in {"recv", "send"} /\ close_conn
    PROVE  Causes'
<1>1. \A d \in Conns : rst[d] => rst'[d]
  BY ResetsStay
<1>2. \A s \in Slot : net_revents'[s] = "err" => \E d \in Conns : rst'[d]
  BY <1>1 DEF Causes
<1>3. ASSUME pc' \in {"recv", "send"}, close_conn' PROVE AskedToQuit(Sock)' \/ rst'[Sock']
  <2>1. Sock' = Sock /\ Sock \in Conns
    <3>1. Working
      BY <1>3 DEF SlotsOK, Running
    <3> QED BY <1>3, <3>1 DEF Sock, Working
  <2>2. AskedToQuit(Sock) \/ rst[Sock]
    BY <1>3 DEF Causes
  <2>3. AskedToQuit(Sock) => AskedToQuit(Sock)'
    BY <2>1 DEF AskedToQuit
  <2> QED BY <1>1, <2>1, <2>2, <2>3
<1> QED BY <1>2, <1>3 DEF Causes

LEMMA CausesStep == TypeOK /\ SlotsOK /\ Causes /\ [Next]_vars => Causes'
<1> SUFFICES ASSUME TypeOK, SlotsOK, Causes, [Next]_vars PROVE Causes'
  OBVIOUS
<1>0. \A d \in Conns : rst[d] => rst'[d]
  BY ResetsStay
<1>1. ASSUME NEW c \in Conns, Client(c) PROVE Causes'
  <2>1. UNCHANGED <<net_revents, net_fd, idx, port, handled, pc, close_conn>>
    BY <1>1 DEF Client, Connect, ClientSend, ClientRead, ClientClose, ClientReset,
                tables, locals, history
  <2> QED BY <2>1, CausesKept
<1>2. CASE UNCHANGED vars
  BY <1>2, CausesKept DEF vars, tables, locals, wire, history
<1>3. ASSUME net_revents' = Polled, pc' \notin {"recv", "send"} PROVE Causes'
  <2> SUFFICES ASSUME NEW s \in Slot, net_revents'[s] = "err" PROVE \E d \in Conns : rst'[d]
    BY <1>3 DEF Causes
  <2>1. net_revents'[s] = IF s \in InUse THEN PollEvents(net_fd[s]) ELSE net_revents[s]
    BY <1>3 DEF Polled
  <2>2. CASE s \in InUse
    BY <1>0, <2>1, <2>2 DEF PollEvents
  <2>3. CASE s \notin InUse
    BY <1>0, <2>1, <2>3 DEF Causes
  <2> QED BY <2>2, <2>3
<1>4. ASSUME net_revents' = net_revents, pc' \notin {"recv", "send"} \/ ~close_conn' PROVE Causes'
  BY <1>0, <1>4 DEF Causes
<1>5. ASSUME Poll \/ PollTimeout PROVE Causes'
  <2>1. net_revents' = Polled /\ pc' \notin {"recv", "send"}
    BY <1>5 DEF Poll, PollTimeout
  <2> QED BY <1>3, <2>1
<1>6. ASSUME SkipSlot \/ DropErrored \/ BeginReceive \/ ScanDone \/ CloseGap \/ KeepSlot \/ CompressDone
      PROVE  Causes'
  <2>1. net_revents' = net_revents /\ (pc' \notin {"recv", "send"} \/ ~close_conn')
    BY <1>6 DEF SkipSlot, DropErrored, BeginReceive, ScanDone, CloseGap, KeepSlot, CompressDone,
                tables, Scanning
  <2> QED BY <1>4, <2>1
<1>7. ASSUME PollFails \/ AcceptFails \/ Interrupt
                \/ \E c \in Conns : SendSigpipe(c) \/ \E b \in Byte : HandlerCrashes(c, b)
      PROVE  Causes'
  <2>1. net_revents' = net_revents /\ pc' = "exit"
    BY <1>7 DEF PollFails, AcceptFails, Interrupt, SendSigpipe, HandlerCrashes, Exit, tables
  <2> QED BY <1>4, <2>1
<1>8. ASSUME NEW c \in Conns, AcceptConnection(c) \/ RecvDone(c) PROVE Causes'
  <2>1. net_revents' = net_revents /\ pc' = "scan"
    BY <1>8 DEF AcceptConnection, RecvDone, Install, Scanning
  <2> QED BY <1>4, <2>1
<1>9. ASSUME NEW c \in Conns, NEW b \in Byte, StoreByte(c, b) \/ DiscardLine(c, b) PROVE Causes'
  <2>1. UNCHANGED <<net_revents, net_fd, idx, port, handled, pc, close_conn>>
    BY <1>9 DEF StoreByte, DiscardLine, tables
  <2> QED BY <2>1, CausesKept
<1>10. ASSUME NEW c \in Conns, NEW b \in Byte, HandleRequest(c, b) PROVE Causes'
  <2>1. /\ UNCHANGED <<net_revents, net_fd, idx, port>> /\ pc = "recv"
        /\ c = Sock /\ c = Sock' /\ handled' = [handled EXCEPT ![c] = Append(@, rx)]
        /\ close_conn' = (close_conn \/ Outcome(Chn, rx) = "close")
    BY <1>10 DEF HandleRequest, Received, tables, Sock
  <2>2. \A s \in Slot : net_revents'[s] = "err" => \E d \in Conns : rst'[d]
    BY <1>0, <2>1 DEF Causes
  <2>3. Chn = Chan(port[c])
    BY <2>1, ServedSlot
  <2>4. /\ handled[c] \in Seq(Seq(Byte)) /\ rx \in Seq(Byte)
        /\ handled'[c] = Append(handled[c], rx) /\ port'[c] = port[c]
    BY <2>1 DEF TypeOK
  <2>5. /\ DOMAIN handled'[c] = 1..(Len(handled[c]) + 1) /\ Len(handled[c]) \in Nat
        /\ DOMAIN handled[c] = 1..Len(handled[c])
        /\ handled'[c][Len(handled[c]) + 1] = rx
        /\ \A k \in DOMAIN handled[c] : handled'[c][k] = handled[c][k]
    BY <2>4
  <2>6. AskedToQuit(c) \/ Outcome(Chn, rx) = "close" => AskedToQuit(c)'
    <3> DEFINE new == handled'[c]
               n == Len(handled[c])
    <3>1. AskedToQuit(c)' <=> \E k \in DOMAIN new : Outcome(Chan(port[c]), new[k]) = "close"
      BY <2>4 DEF AskedToQuit, Chan
    <3>2. ASSUME AskedToQuit(c) PROVE \E k \in DOMAIN new : Outcome(Chan(port[c]), new[k]) = "close"
      <4>1. PICK k \in DOMAIN handled[c] : Outcome(Chan(port[c]), handled[c][k]) = "close"
        BY <3>2 DEF AskedToQuit
      <4>2. k \in DOMAIN new /\ new[k] = handled[c][k]
        BY <2>5
      <4> HIDE DEF new
      <4> QED BY <4>1, <4>2
    <3>3. ASSUME Outcome(Chn, rx) = "close" PROVE \E k \in DOMAIN new : Outcome(Chan(port[c]), new[k]) = "close"
      <4>1. n + 1 \in DOMAIN new /\ new[n + 1] = rx
        BY <2>5
      <4> HIDE DEF new, n
      <4> QED BY <2>3, <3>3, <4>1
    <3> HIDE DEF new, n
    <3> QED BY <3>1, <3>2, <3>3
  <2>7. ASSUME close_conn' PROVE AskedToQuit(c)' \/ rst'[c]
    BY <1>0, <2>1, <2>6, <2>7 DEF Causes
  <2>8. close_conn' => AskedToQuit(Sock)' \/ rst'[Sock']
    BY <2>1, <2>7 DEF AskedToQuit
  <2> QED BY <2>2, <2>8 DEF Causes
<1>11. ASSUME NEW c \in Conns, SendReply(c) PROVE Causes'
  <2>1. UNCHANGED <<net_revents, net_fd, idx, port, handled, close_conn>> /\ pc = "send"
    BY <1>11 DEF SendReply, tables
  <2> QED BY <2>1, CausesKept
<1>12. ASSUME NEW c \in Conns, SendFails(c) PROVE Causes'
  <2>1. UNCHANGED <<net_revents, net_fd, idx, rst>> /\ c = Sock /\ c = Sock' /\ rst[c]
    BY <1>12 DEF SendFails, tables, wire, Sock
  <2> QED BY <2>1 DEF Causes
<1> QED
  BY <1>1, <1>2, <1>5, <1>6, <1>7, <1>8, <1>9, <1>10, <1>11, <1>12 DEF Next, Server, Receive

(***************************************************************************)
(* As long as no client has aborted a connection, the server closes one    *)
(* only for a reason of its own: its client left, or asked with 'q'.  Once *)
(* a client has aborted, an event left over in net_fds[] may close the     *)
(* connection of another.                                                  *)
(***************************************************************************)
THEOREM ClosingIsJustified == Spec /\ [](\A d \in Conns : ~rst[d]) => ClosesForCause
<1> DEFINE Unbroken == \A d \in Conns : ~rst[d]
           Justified == \A c \in Served :
              tcp'[c] = "closed" /\ Running' => fin[c] \/ rst[c] \/ AskedToQuit(c)
<1>1. Init => Causes
  BY DEF Init, Causes
<1>2. TypeOK /\ SlotsOK /\ Causes /\ Unbroken /\ [Next]_vars => Justified
  <2> SUFFICES ASSUME TypeOK, SlotsOK, Causes, Unbroken, [Next]_vars, NEW c \in Conns,
                      tcp[c] = "open", tcp'[c] = "closed", Running'
               PROVE  fin[c] \/ AskedToQuit(c)
    BY DEF Served
  <2>1. ASSUME NEW d \in Conns, Client(d) PROVE FALSE
    BY <2>1 DEF Client, Connect, ClientSend, ClientRead, ClientClose, ClientReset, TypeOK
  <2>2. ASSUME NEW d \in Conns, AcceptConnection(d) PROVE FALSE
    BY <2>2 DEF AcceptConnection, TypeOK
  <2>3. ASSUME DropErrored PROVE FALSE
    <3>1. Running /\ idx \in InUse /\ idx \in Nat
      BY <2>3, ScannedSlot DEF DropErrored
    <3>2. idx \in Slot
      BY <3>1, SocketFacts DEF TypeOK, InUse, Slot
    <3> QED BY <2>3, <3>2 DEF DropErrored, Causes
  <2>4. ASSUME NEW d \in Conns, RecvDone(d) PROVE fin[c] \/ AskedToQuit(c)
    <3>1. pc = "recv" /\ d = Sock /\ ((MustClose(d) /\ Vacate) \/ tcp' = tcp)
      BY <2>4 DEF RecvDone
    <3>2. c = Sock /\ MustClose(c)
      BY <3>1 DEF Vacate, Sock
    <3> QED BY <3>1, <3>2 DEF MustClose, Causes
  <2>5. ASSUME PollFails \/ AcceptFails \/ Interrupt
                 \/ \E d \in Conns : SendSigpipe(d) \/ \E b \in Byte : HandlerCrashes(d, b)
        PROVE  FALSE
    BY <2>5 DEF PollFails, AcceptFails, Interrupt, SendSigpipe, HandlerCrashes, Exit, Running
  <2>6. ASSUME tcp' = tcp PROVE FALSE
    BY <2>6
  <2>7. ASSUME Poll \/ PollTimeout \/ SkipSlot \/ BeginReceive \/ ScanDone
                 \/ CloseGap \/ KeepSlot \/ CompressDone \/ UNCHANGED vars
        PROVE  tcp' = tcp
    BY <2>7 DEF Poll, PollTimeout, SkipSlot, BeginReceive, ScanDone, CloseGap, KeepSlot,
                CompressDone, wire, vars
  <2>8. ASSUME NEW d \in Conns, SendReply(d) \/ SendFails(d)
                 \/ \E b \in Byte : StoreByte(d, b) \/ DiscardLine(d, b) \/ HandleRequest(d, b)
        PROVE  tcp' = tcp
    BY <2>8 DEF SendReply, SendFails, StoreByte, DiscardLine, HandleRequest, wire
  <2> QED
    BY <2>1, <2>2, <2>3, <2>4, <2>5, <2>6, <2>7, <2>8 DEF Next, Server, Receive
<1>3. TypeOK /\ SlotsOK /\ Causes /\ Unbroken /\ [Next]_vars => [Justified]_vars
  BY <1>2
<1> QED BY <1>1, <1>3, CausesStep, Inductive, PTL DEF Spec, ClosesForCause
=============================================================================
