-------------------------- MODULE PollServerProofs --------------------------
(***************************************************************************)
(* The slot table of the poll loop stays in step with the open sockets,    *)
(* for every number of connections, every size of the table, every stream  *)
(* and both or either of the listening sockets.                            *)
(*                                                                         *)
(* TypeOK /\ SlotsOK is inductive: the type of the stored requests needs   *)
(* the slot invariant (a slot beyond the table is never received into),    *)
(* and the slot invariant needs the bounds of the indices.                 *)
(***************************************************************************)
EXTENDS PollServer, SequenceTheorems, TLAPS

(* The values that stand for sockets are all different.                    *)
LEMMA SocketFacts ==
    /\ NoSocket # Beyond
    /\ NoSocket \notin Conns /\ Beyond \notin Conns
    /\ RigSock \notin Conns /\ CatSock \notin Conns
    /\ RigSock # CatSock
    /\ RigSock \notin {NoSocket, Beyond} /\ CatSock \notin {NoSocket, Beyond}
    /\ MaxFds \in Nat /\ MaxFds >= 2
  BY PollAssumption DEF PollAssumption

(* The listening sockets are one or two, each opened once.                 *)
LEMMA ListenFacts ==
    /\ Len(ListenOrder) \in 1..2
    /\ DOMAIN ListenOrder = 1..Len(ListenOrder)
    /\ \A k \in DOMAIN ListenOrder : ListenOrder[k] \in Listening
    /\ \A k, m \in DOMAIN ListenOrder : ListenOrder[k] = ListenOrder[m] => k = m
    /\ Listening \subseteq {RigSock, CatSock}
    /\ \A s \in Listening : \E k \in DOMAIN ListenOrder : ListenOrder[k] = s
<1>1. /\ Len(ListenOrder) \in 1..2
      /\ DOMAIN ListenOrder = 1..Len(ListenOrder)
      /\ \A k \in DOMAIN ListenOrder : ListenOrder[k] \in {RigSock, CatSock}
      /\ Len(ListenOrder) = 2 => ListenOrder[1] # ListenOrder[2]
  <2>1. CASE ListenOrder = <<RigSock>>
    BY <2>1
  <2>2. CASE ListenOrder = <<CatSock>>
    BY <2>2
  <2>3. CASE ListenOrder = <<RigSock, CatSock>>
    BY <2>3, SocketFacts
  <2> QED BY <2>1, <2>2, <2>3, PollAssumption DEF PollAssumption
<1>2. \A k, m \in 1..Len(ListenOrder) : ListenOrder[k] = ListenOrder[m] => k = m
  BY <1>1
<1> QED BY <1>1, <1>2 DEF Listening

(* So a listening socket is none of the other values of a slot.            *)
LEMMA ListenersApart ==
    ASSUME NEW s \in Listening
    PROVE  s \notin Conns /\ s # NoSocket /\ s # Beyond /\ s \in Fd
  BY SocketFacts, ListenFacts DEF Fd

LEMMA ConnsApart ==
    ASSUME NEW c \in Conns
    PROVE  c \notin Listening /\ c # NoSocket /\ c # Beyond /\ c \in Fd
  BY SocketFacts, ListenFacts DEF Fd

(* TypeOK and SlotsOK hold when net_start_listen() returns.                *)
THEOREM InitOK == Init => TypeOK /\ SlotsOK
<1> SUFFICES ASSUME Init PROVE TypeOK /\ SlotsOK
    OBVIOUS
<1>0. \A s \in 0..MaxFds : s < Len(ListenOrder) => s+1 \in DOMAIN ListenOrder /\ ListenOrder[s+1] \in Listening
  BY ListenFacts, SocketFacts
<1>1. TypeOK
  <2>1. net_fd \in [0..MaxFds -> Fd \cup {Beyond}]
    BY <1>0 DEF Init, Fd
  <2>2. peer \in [0..MaxFds -> [channel : 0..2, rx : Seq(Byte \cup {Beyond})]]
    <3>1. <<Beyond>> \in Seq(Byte \cup {Beyond}) /\ <<>> \in Seq(Byte \cup {Beyond})
      OBVIOUS
    <3> DEFINE R(s) == [channel |-> 0, rx |-> IF s = MaxFds THEN <<Beyond>> ELSE <<>>]
    <3>2. \A s \in 0..MaxFds : R(s) \in [channel : 0..2, rx : Seq(Byte \cup {Beyond})]
      <4> TAKE s \in 0..MaxFds
      <4> DEFINE b == IF s = MaxFds THEN <<Beyond>> ELSE <<>>
      <4>1. b \in Seq(Byte \cup {Beyond})
        BY <3>1
      <4>2. R(s) = [channel |-> 0, rx |-> b]
        OBVIOUS
      <4> HIDE DEF b, R
      <4> QED BY <4>1, <4>2
    <3>3. peer = [s \in 0..MaxFds |-> R(s)]
      BY DEF Init
    <3> HIDE DEF R
    <3> QED BY <3>2, <3>3
  <2>3. net_nfds \in 0..MaxFds /\ idx \in 0..MaxFds
    <3>1. net_nfds = Len(ListenOrder) /\ idx = 0
      BY DEF Init
    <3> QED BY <3>1, ListenFacts, SocketFacts
  <2>4. script \in [Conns -> Seq(Byte)]
    BY PollAssumption DEF Init, PollAssumption
  <2>5. unread \in [Conns -> 0..SndBuf]
    BY PollAssumption DEF Init, PollAssumption
  <2>6. /\ net_revents \in [Slot -> {"none", "in", "err"}]
        /\ compress_array \in BOOLEAN /\ pc \in Phase
        /\ rx \in Seq(Byte) /\ close_conn \in BOOLEAN /\ txbuf \in Seq(Byte)
        /\ why \in {"none", "poll", "accept", "sigint", "sigpipe", "crash"}
    <3>1. /\ net_revents = [s \in Slot |-> "none"] /\ compress_array = FALSE /\ pc = "poll"
          /\ rx = <<>> /\ close_conn = FALSE /\ txbuf = <<>> /\ why = "none"
      BY DEF Init
    <3>2. net_revents \in [Slot -> {"none", "in", "err"}]
      BY <3>1
    <3>3. rx \in Seq(Byte) /\ txbuf \in Seq(Byte)
      BY <3>1
    <3> QED BY <3>1, <3>2, <3>3, Zenon DEF Phase
  <2>7. /\ tcp \in [Conns -> {"idle", "queued", "open", "closed"}]
        /\ port \in [Conns -> Listening]
        /\ fin \in [Conns -> BOOLEAN] /\ rst \in [Conns -> BOOLEAN]
    BY DEF Init
  <2>8. /\ input \in [Conns -> Seq(Byte)] /\ got \in [Conns -> Seq(Byte)]
        /\ handled \in [Conns -> Seq(Seq(Byte))]
        /\ replies \in [Conns -> Seq(Seq(Byte))]
    <3>1. \A S : <<>> \in Seq(S)
      OBVIOUS
    <3> QED BY <3>1 DEF Init
  <2> QED BY <2>1, <2>2, <2>3, <2>4, <2>5, <2>6, <2>7, <2>8 DEF TypeOK
<1>2. SlotsOK
  <2>1. \A s \in InUse : /\ s \in 0..MaxFds /\ s+1 \in DOMAIN ListenOrder
                         /\ net_fd[s] = ListenOrder[s+1] /\ net_fd[s] \in Listening
    <3>1. net_nfds = Len(ListenOrder)
      BY DEF Init
    <3>2. \A s \in InUse : s \in 0..MaxFds /\ s < Len(ListenOrder)
      BY <3>1, ListenFacts, SocketFacts DEF InUse
    <3> QED BY <1>0, <3>2 DEF Init
  <2>2. ListenersFirst
    <3>1. net_nfds = Len(ListenOrder) /\ net_revents = [s \in Slot |-> "none"]
      BY DEF Init
    <3> SUFFICES ASSUME NEW k \in DOMAIN ListenOrder
                 PROVE  net_fd[k-1] = ListenOrder[k] /\ net_revents[k-1] # "err"
      BY <3>1, ListenFacts DEF ListenersFirst
    <3>2. k-1 \in InUse /\ k-1 \in Slot
      BY <3>1, ListenFacts, SocketFacts DEF InUse, Slot
    <3> QED BY <2>1, <3>1, <3>2, ListenFacts
  <2>3. ConnSlots
    <3>1. net_nfds = Len(ListenOrder)
      BY DEF Init
    <3> QED BY <3>1, ListenFacts DEF ConnSlots, InUse
  <2>4. OneSlotEach
    <3>1. Served = {}
      BY DEF Init, Served
    <3>2. ASSUME NEW s \in InUse, NEW t \in InUse, net_fd[s] = net_fd[t]
          PROVE  s = t
      <4>1. s+1 = t+1
        BY <2>1, <3>2, ListenFacts
      <4> QED BY <4>1, <2>1
    <3> QED BY <3>1, <3>2 DEF OneSlotEach
  <2>5. Gaps
    BY <2>1, ListenersApart DEF Gaps
  <2>6. Working
    BY DEF Working, Init
  <2> QED BY <2>2, <2>3, <2>4, <2>5, <2>6 DEF SlotsOK
<1> QED BY <1>1, <1>2

----------------------------------------------------------------------------
(* poll() fills in the event of every slot. *)
LEMMA PolledType == TypeOK => Polled \in [Slot -> {"none", "in", "err"}]
<1> SUFFICES ASSUME TypeOK, NEW s \in Slot
             PROVE  (IF s \in InUse THEN PollEvents(net_fd[s]) ELSE net_revents[s]) \in {"none", "in", "err"}
  BY DEF Polled
<1>1. PollEvents(net_fd[s]) \in {"none", "in", "err"}
  BY DEF PollEvents
<1>2. net_revents[s] \in {"none", "in", "err"}
  BY DEF TypeOK
<1> QED BY <1>1, <1>2

(* What the scan finds in a slot and does not know as a listening socket   *)
(* is an open connection.                                                  *)
LEMMA ScannedConn ==
    ASSUME TypeOK, SlotsOK, Scanning, net_fd[idx] \notin Listening
    PROVE  /\ idx \in InUse /\ idx >= Len(ListenOrder)
           /\ net_fd[idx] \in Conns
           /\ peer[idx].rx \in Seq(Byte)
<1>1. /\ ListenersFirst /\ ConnSlots /\ Gaps
  BY DEF SlotsOK, Scanning, Running
<1>2. idx \in InUse /\ idx \in Nat
  BY SocketFacts DEF Scanning, InUse, TypeOK
<1>3. idx >= Len(ListenOrder)
  <2> SUFFICES ASSUME idx < Len(ListenOrder) PROVE FALSE
    BY <1>2, ListenFacts
  <2>1. idx + 1 \in DOMAIN ListenOrder
    BY <1>2, ListenFacts
  <2> QED BY <1>1, <1>2, <2>1, ListenFacts DEF ListenersFirst
<1>4. net_fd[idx] # NoSocket
  BY <1>1, <1>2 DEF Gaps, Scanning
<1> QED BY <1>1, <1>2, <1>3, <1>4 DEF ConnSlots

(* Every step keeps the types. *)
LEMMA TypeStep == TypeOK /\ SlotsOK /\ [Next]_vars => TypeOK'
<1> SUFFICES ASSUME TypeOK, SlotsOK, [Next]_vars PROVE TypeOK'
    OBVIOUS
<1> USE DEF TypeOK, tables, locals, wire, history
<1>1. ASSUME NEW c \in Conns, Connect(c) PROVE TypeOK'
  BY <1>1 DEF Connect
<1>2. ASSUME NEW c \in Conns, ClientSend(c) PROVE TypeOK'
  BY <1>2, HeadTailProperties DEF ClientSend
<1>3. ASSUME NEW c \in Conns, ClientRead(c) PROVE TypeOK'
  BY <1>3, PollAssumption DEF ClientRead, PollAssumption
<1>4. ASSUME NEW c \in Conns, ClientClose(c) PROVE TypeOK'
  BY <1>4 DEF ClientClose
<1>5. ASSUME NEW c \in Conns, ClientReset(c) PROVE TypeOK'
  BY <1>5 DEF ClientReset
<1>6. ASSUME Interrupt PROVE TypeOK'
  BY <1>6 DEF Interrupt, Exit, Phase
<1>7. ASSUME Poll PROVE TypeOK'
  <2>1. net_revents' \in [Slot -> {"none", "in", "err"}]
    BY <1>7, PolledType DEF Poll
  <2>2. compress_array' \in BOOLEAN /\ pc' \in Phase
    BY <1>7 DEF Poll, Phase
  <2>3. idx' \in 0..MaxFds
    BY <1>7, SocketFacts DEF Poll
  <2> QED BY <1>7, <2>1, <2>2, <2>3 DEF Poll
<1>8. ASSUME PollTimeout PROVE TypeOK'
  BY <1>8, PolledType DEF PollTimeout
<1>9. ASSUME PollFails PROVE TypeOK'
  BY <1>9 DEF PollFails, Exit, Phase
<1>10. ASSUME SkipSlot PROVE TypeOK'
  BY <1>10, SocketFacts DEF SkipSlot, Scanning
<1>11. ASSUME DropErrored PROVE TypeOK'
  BY <1>11, SocketFacts DEF DropErrored, Scanning, Vacate, Fd
<1>12. ASSUME AcceptFails PROVE TypeOK'
  BY <1>12 DEF AcceptFails, Exit, Phase
<1>13. ASSUME BeginReceive PROVE TypeOK'
  BY <1>13, ScannedConn DEF BeginReceive, Phase
<1>14. ASSUME ScanDone PROVE TypeOK'
  <2>1. pc' \in Phase
    BY <1>14 DEF ScanDone, Phase
  <2>2. idx' \in 0..MaxFds
    BY <1>14, SocketFacts DEF ScanDone
  <2> QED BY <1>14, <2>1, <2>2 DEF ScanDone
<1>15. ASSUME NEW c \in Conns, AcceptConnection(c) PROVE TypeOK'
  <2>1. idx' \in 0..MaxFds
    BY <1>15, SocketFacts DEF AcceptConnection, Scanning
  <2>2. CASE Full
    BY <1>15, <2>1, <2>2 DEF AcceptConnection
  <2>3. CASE ~Full
    <3>1. net_nfds \in 0..MaxFds /\ net_nfds + 1 \in 0..MaxFds
      BY <2>3, SocketFacts DEF Full
    <3>2. [channel |-> Chan(net_fd[idx]), rx |-> <<>>] \in [channel : 0..2, rx : Seq(Byte \cup {Beyond})]
      BY DEF Chan
    <3>3. peer' \in [0..MaxFds -> [channel : 0..2, rx : Seq(Byte \cup {Beyond})]]
      BY <1>15, <2>3, <3>1, <3>2 DEF AcceptConnection, Install
    <3>4. net_fd' \in [0..MaxFds -> Fd \cup {Beyond}]
      BY <1>15, <2>3, <3>1 DEF AcceptConnection, Install, Fd
    <3> QED BY <1>15, <2>1, <2>3, <3>1, <3>3, <3>4 DEF AcceptConnection, Install
  <2> QED BY <2>2, <2>3
<1>16. ASSUME NEW c \in Conns, NEW b \in Byte, StoreByte(c, b) PROVE TypeOK'
  <2>1. input' \in [Conns -> Seq(Byte)] /\ got' \in [Conns -> Seq(Byte)]
    BY <1>16 DEF StoreByte, Received
  <2>2. rx' \in Seq(Byte)
    BY <1>16 DEF StoreByte
  <2>3. UNCHANGED <<tables, idx, close_conn, txbuf, pc, why,
                    tcp, port, script, fin, rst, unread, handled, replies>>
    BY <1>16 DEF StoreByte
  <2> QED BY <2>1, <2>2, <2>3
<1>17. ASSUME NEW c \in Conns, NEW b \in Byte, DiscardLine(c, b) PROVE TypeOK'
  <2>1. input' \in [Conns -> Seq(Byte)] /\ got' \in [Conns -> Seq(Byte)]
    BY <1>17 DEF DiscardLine, Received
  <2>2. rx' \in Seq(Byte)
    BY <1>17 DEF DiscardLine
  <2>3. UNCHANGED <<tables, idx, close_conn, txbuf, pc, why,
                    tcp, port, script, fin, rst, unread, handled, replies>>
    BY <1>17 DEF DiscardLine
  <2> QED BY <2>1, <2>2, <2>3
<1>18. ASSUME NEW c \in Conns, NEW b \in Byte, HandleRequest(c, b) PROVE TypeOK'
  <2>1. handled' \in [Conns -> Seq(Seq(Byte))]
    BY <1>18 DEF HandleRequest
  <2>2. input' \in [Conns -> Seq(Byte)] /\ got' \in [Conns -> Seq(Byte)]
    BY <1>18 DEF HandleRequest, Received
  <2>3. close_conn' \in BOOLEAN
    BY <1>18 DEF HandleRequest
  <2>4. pc' \in Phase /\ txbuf' \in Seq(Byte)
    BY <1>18 DEF HandleRequest, Phase
  <2>5. rx' \in Seq(Byte)
    BY <1>18 DEF HandleRequest
  <2>6. UNCHANGED <<tables, idx, why, tcp, port, script, fin, rst, unread, replies>>
    BY <1>18 DEF HandleRequest
  <2> QED BY <2>1, <2>2, <2>3, <2>4, <2>5, <2>6
<1>19. ASSUME NEW c \in Conns, NEW b \in Byte, HandlerCrashes(c, b) PROVE TypeOK'
  <2>1. input' \in [Conns -> Seq(Byte)] /\ got' \in [Conns -> Seq(Byte)]
    BY <1>19 DEF HandlerCrashes, Received
  <2>2. UNCHANGED <<net_fd, net_revents, net_nfds, peer, compress_array>>
    BY <1>19 DEF HandlerCrashes, tables
  <2> QED BY <1>19, <2>1, <2>2 DEF HandlerCrashes, Exit, Phase
<1>20. ASSUME NEW c \in Conns, SendReply(c) PROVE TypeOK'
  <2>1. unread' \in [Conns -> 0..SndBuf]
    BY <1>20, PollAssumption DEF SendReply, PollAssumption
  <2>2. replies' \in [Conns -> Seq(Seq(Byte))]
    BY <1>20 DEF SendReply
  <2> QED BY <1>20, <2>1, <2>2 DEF SendReply, Phase
<1>21. ASSUME NEW c \in Conns, SendFails(c) PROVE TypeOK'
  BY <1>21 DEF SendFails, Phase
<1>22. ASSUME NEW c \in Conns, SendSigpipe(c) PROVE TypeOK'
  BY <1>22 DEF SendSigpipe, Exit, Phase
<1>23. ASSUME NEW c \in Conns, RecvDone(c) PROVE TypeOK'
  <2>1. idx \in 0..MaxFds /\ idx' \in 0..MaxFds
    <3>1. idx < net_nfds
      BY <1>23 DEF RecvDone, SlotsOK, Running, Working
    <3>2. idx' = idx + 1
      BY <1>23 DEF RecvDone
    <3>3. idx \in 0..MaxFds /\ net_nfds \in 0..MaxFds
      OBVIOUS
    <3> QED BY <3>1, <3>2, <3>3, SocketFacts
  <2>2. peer' \in [0..MaxFds -> [channel : 0..2, rx : Seq(Byte \cup {Beyond})]]
    <3> DEFINE p == peer[idx]
    <3>1. rx \in Seq(Byte \cup {Beyond})
      BY SeqMonotonic
    <3>2. p \in [channel : 0..2, rx : Seq(Byte \cup {Beyond})]
      BY <2>1
    <3>3. [p EXCEPT !.rx = rx] \in [channel : 0..2, rx : Seq(Byte \cup {Beyond})]
      <4> HIDE DEF p
      <4> QED BY <3>1, <3>2
    <3>4. peer' = [peer EXCEPT ![idx] = [peer[idx] EXCEPT !.rx = rx]]
      BY <1>23 DEF RecvDone
    <3> QED BY <2>1, <3>3, <3>4
  <2>3. /\ net_fd' \in [0..MaxFds -> Fd \cup {Beyond}]
        /\ compress_array' \in BOOLEAN
        /\ tcp' \in [Conns -> {"idle", "queued", "open", "closed"}]
    <3>1. CASE MustClose(c)
      BY <1>23, <2>1, <3>1 DEF RecvDone, Vacate, Fd
    <3>2. CASE ~MustClose(c)
      BY <1>23, <3>2 DEF RecvDone
    <3> QED BY <3>1, <3>2
  <2>4. rx' \in Seq(Byte)
    BY <1>23 DEF RecvDone
  <2>5. close_conn' \in BOOLEAN /\ pc' \in Phase
    BY <1>23 DEF RecvDone, Phase
  <2>6. UNCHANGED <<net_revents, net_nfds, txbuf, why, port, script, input, fin, rst, unread, history>>
    BY <1>23 DEF RecvDone
  <2> QED BY <2>1, <2>2, <2>3, <2>4, <2>5, <2>6
<1>24. ASSUME CloseGap PROVE TypeOK'
  <2>1. \A s \in idx..(net_nfds - 1) : s + 1 \in 0..MaxFds
    BY SocketFacts
  <2>2. net_fd' \in [0..MaxFds -> Fd \cup {Beyond}]
    BY <1>24, <2>1 DEF CloseGap
  <2>3. peer' \in [0..MaxFds -> [channel : 0..2, rx : Seq(Byte \cup {Beyond})]]
    BY <1>24, <2>1 DEF CloseGap
  <2>4. net_nfds' \in 0..MaxFds
    BY <1>24, SocketFacts DEF CloseGap
  <2> QED BY <1>24, <2>2, <2>3, <2>4 DEF CloseGap
<1>25. ASSUME KeepSlot PROVE TypeOK'
  BY <1>25, SocketFacts DEF KeepSlot
<1>26. ASSUME CompressDone PROVE TypeOK'
  BY <1>26, SocketFacts DEF CompressDone, Phase
<1>27. ASSUME UNCHANGED vars PROVE TypeOK'
  BY <1>27 DEF vars
<1> QED
  BY <1>1, <1>2, <1>3, <1>4, <1>5, <1>6, <1>7, <1>8, <1>9, <1>10, <1>11, <1>12, <1>13,
     <1>14, <1>15, <1>16, <1>17, <1>18, <1>19, <1>20, <1>21, <1>22, <1>23, <1>24, <1>25,
     <1>26, <1>27 DEF Next, Server, Client, Receive

----------------------------------------------------------------------------
(* Every step keeps the slots. *)

Parts == ListenersFirst /\ ConnSlots /\ OneSlotEach

(* The first three parts of SlotsOK speak of the tables and of which       *)
(* connections are open, and of nothing else.                              *)
LEMMA PartsKept ==
    ASSUME Parts, UNCHANGED <<net_fd, net_nfds, net_revents, peer, port>>,
           \A c \in Conns : tcp'[c] = "open" <=> tcp[c] = "open"
    PROVE  Parts'
<1>1. Served' = Served /\ InUse' = InUse
  BY DEF Served, InUse
<1>2. ListenersFirst'
  BY DEF ListenersFirst, Parts
<1>3. ConnSlots'
  BY <1>1 DEF ConnSlots, Parts
<1>4. OneSlotEach'
  BY <1>1 DEF OneSlotEach, Parts
<1> QED BY <1>2, <1>3, <1>4 DEF Parts

LEMMA GapsKept ==
    ASSUME Gaps, UNCHANGED <<net_fd, net_nfds, compress_array>>,
           UNCHANGED <<pc, idx>>
    PROVE  Gaps'
  BY DEF Gaps, InUse

(* A step that touches neither the tables nor the place of the thread.     *)
LEMMA SlotsKept ==
    ASSUME SlotsOK, UNCHANGED <<tables, pc, idx, port>>,
           \A c \in Conns : tcp'[c] = "open" <=> tcp[c] = "open"
    PROVE  SlotsOK'
<1> SUFFICES ASSUME Running' PROVE SlotsOK'
  BY DEF SlotsOK
<1>1. Running /\ Parts /\ Gaps /\ Working
  BY DEF SlotsOK, Running, Parts
<1>2. UNCHANGED <<net_fd, net_nfds, net_revents, peer, port, compress_array, pc, idx>>
  BY DEF tables
<1>3. Parts'
  BY <1>1, <1>2, PartsKept
<1>4. Gaps'
  BY <1>1, <1>2, GapsKept
<1>5. Working'
  BY <1>1, <1>2 DEF Working
<1> QED BY <1>3, <1>4, <1>5 DEF SlotsOK, Parts

(* poll() changes the events only, and never reports a listening socket    *)
(* as broken.                                                              *)
LEMMA PartsPolled ==
    ASSUME TypeOK, Parts, UNCHANGED <<net_fd, net_nfds, peer, port, tcp>>, net_revents' = Polled
    PROVE  Parts'
<1>1. Served' = Served /\ InUse' = InUse
  BY DEF Served, InUse
<1>2. ListenersFirst'
  <2> SUFFICES ASSUME NEW k \in DOMAIN ListenOrder PROVE net_revents'[k-1] # "err"
    BY DEF ListenersFirst, Parts
  <2>1. k-1 \in InUse /\ k-1 \in Slot
    BY ListenFacts, SocketFacts DEF Parts, ListenersFirst, InUse, Slot, TypeOK
  <2>2. net_revents'[k-1] = PollEvents(net_fd[k-1])
    BY <2>1 DEF Polled
  <2>3. net_fd[k-1] \notin Conns
    BY ListenFacts, ListenersApart DEF Parts, ListenersFirst
  <2> QED BY <2>2, <2>3 DEF PollEvents
<1>3. ConnSlots'
  BY <1>1 DEF ConnSlots, Parts
<1>4. OneSlotEach'
  BY <1>1 DEF OneSlotEach, Parts
<1> QED BY <1>2, <1>3, <1>4 DEF Parts

(* Closing a connection: its slot is empty, and no other connection loses  *)
(* its own.                                                                *)
LEMMA PartsVacated ==
    ASSUME TypeOK, Parts, Vacate, idx \in InUse, net_fd[idx] \notin Listening,
           UNCHANGED <<net_revents, net_nfds, port>>,
           \A s \in InUse : s # idx => peer'[s] = peer[s]
    PROVE  Parts'
<1>1. InUse' = InUse /\ InUse \subseteq 0..MaxFds
  BY SocketFacts DEF InUse, TypeOK
<1>2. /\ net_fd'[idx] = NoSocket
      /\ \A s \in InUse : s # idx => net_fd'[s] = net_fd[s]
  BY <1>1 DEF Vacate, TypeOK
<1>3. \A s \in InUse : s # idx /\ net_fd[s] \in Conns => tcp'[net_fd[s]] = tcp[net_fd[s]]
  <2> SUFFICES ASSUME NEW s \in InUse, s # idx, net_fd[s] \in Conns
               PROVE  net_fd[s] # net_fd[idx]
    BY DEF Vacate
  <2> QED BY ConnsApart DEF Parts, OneSlotEach
<1>4. Served' \subseteq Served \ {net_fd[idx]}
  BY DEF Served, Vacate, TypeOK
<1>5. ListenersFirst'
  <2> SUFFICES ASSUME NEW k \in DOMAIN ListenOrder PROVE net_fd'[k-1] = ListenOrder[k]
    BY DEF ListenersFirst, Parts
  <2>1. k-1 \in InUse /\ net_fd[k-1] = ListenOrder[k]
    BY ListenFacts DEF Parts, ListenersFirst, InUse, TypeOK
  <2>2. k-1 # idx
    BY <2>1, ListenFacts
  <2> QED BY <1>2, <2>1, <2>2
<1>6. ConnSlots'
  <2> SUFFICES ASSUME NEW s \in InUse, s >= Len(ListenOrder)
               PROVE  /\ net_fd'[s] \in Conns \cup {NoSocket}
                      /\ net_fd'[s] \in Conns =>
                            /\ tcp'[net_fd'[s]] = "open"
                            /\ peer'[s].channel = Chan(port'[net_fd'[s]])
                            /\ peer'[s].rx \in Seq(Byte)
    BY <1>1 DEF ConnSlots
  <2>1. CASE s = idx
    BY <2>1, <1>2, SocketFacts
  <2>2. CASE s # idx
    BY <2>2, <1>2, <1>3 DEF Parts, ConnSlots
  <2> QED BY <2>1, <2>2
<1>7. OneSlotEach'
  <2>1. ASSUME NEW s \in InUse, NEW t \in InUse, net_fd'[s] = net_fd'[t], net_fd'[s] # NoSocket
        PROVE  s = t
    BY <1>2, <2>1 DEF Parts, OneSlotEach
  <2>2. ASSUME NEW c \in Served' PROVE \E s \in InUse : net_fd'[s] = c
    BY <1>2, <1>4 DEF Parts, OneSlotEach
  <2> QED BY <1>1, <2>1, <2>2 DEF OneSlotEach
<1> QED BY <1>5, <1>6, <1>7 DEF Parts

(* Accepting a connection: it gets the slot behind the last one.           *)
LEMMA PartsInstalled ==
    ASSUME TypeOK, Parts, NEW c \in Conns, Install(c), ~Full,
           tcp[c] = "queued", tcp' = [tcp EXCEPT ![c] = "open"],
           port[c] = net_fd[idx], UNCHANGED port
    PROVE  Parts'
<1>1. /\ net_nfds \in 0..(MaxFds-1) /\ net_nfds \notin InUse
      /\ InUse \subseteq 0..MaxFds /\ InUse' = InUse \cup {net_nfds}
  BY SocketFacts DEF InUse, TypeOK, Full, Install
<1>2. /\ net_fd'[net_nfds] = c /\ peer'[net_nfds] = [channel |-> Chan(port[c]), rx |-> <<>>]
      /\ \A s \in InUse : net_fd'[s] = net_fd[s] /\ peer'[s] = peer[s]
  BY <1>1 DEF Install, TypeOK
<1>3. \A s \in InUse : net_fd[s] # c
  <2> SUFFICES ASSUME NEW s \in InUse, net_fd[s] = c PROVE FALSE
    OBVIOUS
  <2>1. CASE s >= Len(ListenOrder)
    BY <2>1 DEF Parts, ConnSlots
  <2>2. CASE s < Len(ListenOrder)
    <3>1. s + 1 \in DOMAIN ListenOrder /\ s \in Nat
      BY <2>2, ListenFacts DEF InUse
    <3> QED BY <3>1, ListenFacts, ConnsApart DEF Parts, ListenersFirst
  <2> QED BY <2>1, <2>2, ListenFacts DEF InUse
<1>4. Served' = Served \cup {c} /\ \A d \in Conns : d # c => tcp'[d] = tcp[d]
  BY DEF Served, TypeOK
<1>5. ListenersFirst'
  <2>1. Len(ListenOrder) <= net_nfds'
    BY ListenFacts DEF Parts, ListenersFirst, Install, TypeOK
  <2>2. \A k \in DOMAIN ListenOrder : k-1 \in InUse
    BY ListenFacts DEF Parts, ListenersFirst, InUse, TypeOK
  <2> QED BY <2>1, <2>2, <1>2 DEF Parts, ListenersFirst, Install
<1>6. ConnSlots'
  <2> SUFFICES ASSUME NEW s \in InUse', s >= Len(ListenOrder)
               PROVE  /\ net_fd'[s] \in Conns \cup {NoSocket}
                      /\ net_fd'[s] \in Conns =>
                            /\ tcp'[net_fd'[s]] = "open"
                            /\ peer'[s].channel = Chan(port'[net_fd'[s]])
                            /\ peer'[s].rx \in Seq(Byte)
    BY DEF ConnSlots
  <2>1. CASE s = net_nfds
    BY <2>1, <1>2, <1>4 DEF TypeOK
  <2>2. CASE s \in InUse
    BY <2>2, <1>2, <1>3, <1>4 DEF Parts, ConnSlots
  <2> QED BY <1>1, <2>1, <2>2
<1>7. OneSlotEach'
  <2>1. ASSUME NEW s \in InUse', NEW t \in InUse', net_fd'[s] = net_fd'[t], net_fd'[s] # NoSocket
        PROVE  s = t
    BY <1>1, <1>2, <1>3, <2>1 DEF Parts, OneSlotEach
  <2>2. ASSUME NEW d \in Served' PROVE \E s \in InUse' : net_fd'[s] = d
    BY <1>1, <1>2, <1>4 DEF Parts, OneSlotEach
  <2> QED BY <2>1, <2>2 DEF OneSlotEach
<1> QED BY <1>5, <1>6, <1>7 DEF Parts

(* Closing a gap: the slots behind it move down by one, sockets and framing *)
(* state together.                                                         *)
LEMMA PartsShifted ==
    ASSUME TypeOK, Parts, CloseGap
    PROVE  Parts'
<1>0. idx \in Nat /\ net_nfds \in Nat /\ Len(ListenOrder) \in Nat
  BY SocketFacts, ListenFacts DEF TypeOK
<1>1. /\ idx \in InUse /\ InUse \subseteq 0..MaxFds /\ InUse' \subseteq InUse
      /\ \A s \in InUse' : s \in Nat /\ s < net_nfds - 1 /\ s + 1 \in InUse
      /\ \A s \in InUse : s \in Nat
      /\ \A s \in InUse : s > idx => s - 1 \in InUse'
      /\ \A s \in InUse : s < idx => s \in InUse'
  BY SocketFacts DEF InUse, TypeOK, CloseGap
<1>2. /\ \A s \in InUse' : s < idx => net_fd'[s] = net_fd[s]
      /\ \A s \in InUse' : s < idx => peer'[s] = peer[s]
      /\ \A s \in InUse' : s >= idx => net_fd'[s] = net_fd[s+1]
      /\ \A s \in InUse' : s >= idx => peer'[s] = peer[s+1]
  <2>1. \A s \in InUse' : s \in 0..MaxFds /\ (s >= idx <=> s \in idx..(net_nfds - 1))
    BY <1>0, <1>1
  <2>2. \A s \in InUse' : s < idx => s \notin idx..(net_nfds - 1)
    BY <1>0, <1>1
  <2> QED BY <2>1, <2>2 DEF CloseGap
<1>3. tcp' = tcp /\ port' = port /\ net_revents' = net_revents /\ Served' = Served
  BY DEF CloseGap, wire, Served
<1>4. idx >= Len(ListenOrder)
  <2> SUFFICES ASSUME idx < Len(ListenOrder) PROVE FALSE
    BY <1>1, ListenFacts DEF TypeOK
  <2>1. idx + 1 \in DOMAIN ListenOrder
    BY ListenFacts DEF TypeOK
  <2>2. net_fd[idx] \in Listening
    <3>1. net_fd[(idx + 1) - 1] = ListenOrder[idx + 1] /\ (idx + 1) - 1 = idx
      BY <1>0, <2>1 DEF Parts, ListenersFirst
    <3> QED BY <2>1, <3>1, ListenFacts
  <2> QED BY <2>2, ListenersApart DEF CloseGap
<1>5. ListenersFirst'
  <2>1. Len(ListenOrder) <= net_nfds'
    BY <1>4, ListenFacts DEF CloseGap, TypeOK
  <2> SUFFICES ASSUME NEW k \in DOMAIN ListenOrder PROVE net_fd'[k-1] = ListenOrder[k]
    BY <1>3, <2>1 DEF ListenersFirst, Parts
  <2>2. k-1 \in InUse' /\ k-1 < idx
    <3>1. k \in 1..Len(ListenOrder) /\ net_nfds' \in Nat
      BY <1>0, <1>1, ListenFacts DEF CloseGap, InUse
    <3> QED BY <1>0, <1>4, <2>1, <3>1 DEF InUse
  <2>3. k-1 \in Nat
    BY ListenFacts
  <2> QED BY <1>0, <1>2, <2>2, <2>3 DEF Parts, ListenersFirst
<1>6. ConnSlots'
  <2> SUFFICES ASSUME NEW s \in InUse', s >= Len(ListenOrder)
               PROVE  /\ net_fd'[s] \in Conns \cup {NoSocket}
                      /\ net_fd'[s] \in Conns =>
                            /\ tcp'[net_fd'[s]] = "open"
                            /\ peer'[s].channel = Chan(port'[net_fd'[s]])
                            /\ peer'[s].rx \in Seq(Byte)
    BY DEF ConnSlots
  <2>1. CASE s < idx
    BY <1>0, <1>1, <1>2, <1>3, <2>1 DEF Parts, ConnSlots
  <2>2. CASE s >= idx
    <3>1. s + 1 \in InUse /\ s + 1 >= Len(ListenOrder)
      BY <1>0, <1>1
    <3> QED BY <1>0, <1>1, <1>2, <1>3, <2>2, <3>1 DEF Parts, ConnSlots
  <2> QED BY <1>0, <1>1, <2>1, <2>2
<1>7. OneSlotEach'
  <2> DEFINE from(s) == IF s < idx THEN s ELSE s + 1
  <2>1. \A s \in InUse' : from(s) \in InUse /\ net_fd'[s] = net_fd[from(s)]
    BY <1>0, <1>1, <1>2
  <2>2. \A s, t \in InUse' : from(s) = from(t) => s = t
    BY <1>0, <1>1
  <2>3. ASSUME NEW s \in InUse', NEW t \in InUse', net_fd'[s] = net_fd'[t], net_fd'[s] # NoSocket
        PROVE  s = t
    <3> HIDE DEF from
    <3> QED BY <2>1, <2>2, <2>3 DEF Parts, OneSlotEach
  <2>4. ASSUME NEW c \in Served' PROVE \E s \in InUse' : net_fd'[s] = c
    <3>1. PICK t \in InUse : net_fd[t] = c
      BY <1>3 DEF Parts, OneSlotEach
    <3>2. t # idx
      BY <3>1, ConnsApart DEF CloseGap, Served
    <3>3. CASE t < idx
      BY <1>0, <1>1, <1>2, <3>1, <3>3
    <3>4. CASE t > idx
      <4>1. t - 1 \in InUse' /\ t - 1 >= idx /\ (t - 1) + 1 = t
        BY <1>0, <1>1, <3>4
      <4> QED BY <1>0, <1>1, <1>2, <3>1, <4>1
    <3> QED BY <1>0, <1>1, <3>2, <3>3, <3>4
  <2> QED BY <2>3, <2>4 DEF OneSlotEach
<1> QED BY <1>5, <1>6, <1>7 DEF Parts

(* The steps of the clients and of receive_from_peer() leave the tables    *)
(* alone; each of the others has a proof of its own.                       *)
LEMMA SlotsStep == TypeOK /\ SlotsOK /\ [Next]_vars => SlotsOK'
<1> SUFFICES ASSUME TypeOK, SlotsOK, [Next]_vars PROVE SlotsOK'
    OBVIOUS
<1>1. ASSUME NEW c \in Conns, Client(c) PROVE SlotsOK'
  <2>1. UNCHANGED <<tables, pc, idx, port>>
    BY <1>1 DEF Client, Connect, ClientSend, ClientRead, ClientClose, ClientReset, locals, wire
  <2>2. \A d \in Conns : tcp'[d] = "open" <=> tcp[d] = "open"
    BY <1>1 DEF Client, Connect, ClientSend, ClientRead, ClientClose, ClientReset, TypeOK
  <2> QED BY <2>1, <2>2, SlotsKept
<1>2. ASSUME \E reason \in {"sigint", "poll", "accept", "sigpipe", "crash"} : Exit(reason) PROVE SlotsOK'
  BY <1>2 DEF Exit, SlotsOK, Running
<1>3. ASSUME UNCHANGED vars PROVE SlotsOK'
  BY <1>3, SlotsKept DEF vars, locals, wire
<1>4. ASSUME Running /\ Server PROVE SlotsOK'
  <2>0. Parts /\ Gaps /\ Working
    BY <1>4 DEF SlotsOK, Parts
  <2>i. idx \in Nat /\ net_nfds \in 0..MaxFds
    BY SocketFacts DEF TypeOK
  <2> SUFFICES ASSUME Running' PROVE Parts' /\ Gaps' /\ Working'
    BY DEF SlotsOK, Parts
  <2>1. CASE Poll
    <3>1. Parts'
      BY <2>0, <2>1, PartsPolled DEF Poll, wire
    <3>2. \A s \in InUse : net_fd[s] # NoSocket
      BY <2>0, <2>1 DEF Gaps, Poll
    <3>3. Gaps' /\ Working'
      BY <2>1, <2>i, <3>2 DEF Gaps, Working, Poll, InUse
    <3> QED BY <3>1, <3>3
  <2>2. CASE PollTimeout
    <3>1. Parts'
      BY <2>0, <2>2, PartsPolled DEF PollTimeout, wire
    <3>2. Gaps'
      BY <2>0, <2>2, GapsKept DEF PollTimeout, locals
    <3>3. Working'
      BY <2>0, <2>2 DEF Working, PollTimeout, locals
    <3> QED BY <3>1, <3>2, <3>3
  <2>3. CASE SkipSlot
    <3>1. Parts'
      BY <2>0, <2>3, PartsKept DEF SkipSlot, tables, wire
    <3>2. Gaps'
      BY <2>0, <2>3, <2>i DEF Gaps, SkipSlot, Scanning, InUse, tables
    <3>3. Working'
      BY <2>3, <2>i DEF Working, SkipSlot, Scanning, tables
    <3> QED BY <3>1, <3>2, <3>3
  <2>4. CASE DropErrored
    <3>1. idx \in InUse /\ idx < net_nfds
      BY <2>4, <2>i DEF DropErrored, Scanning, InUse
    <3>2. net_fd[idx] \notin Listening
      <4>1. CASE idx < Len(ListenOrder)
        <5>1. idx + 1 \in DOMAIN ListenOrder /\ (idx + 1) - 1 = idx
          BY <2>i, <4>1, ListenFacts
        <5>2. net_revents[idx] # "err"
          BY <2>0, <5>1 DEF Parts, ListenersFirst
        <5> QED BY <2>4, <5>2 DEF DropErrored
      <4>2. CASE idx >= Len(ListenOrder)
        BY <2>0, <3>1, <4>2, ListenersApart DEF Parts, ConnSlots
      <4> QED BY <2>i, <4>1, <4>2, ListenFacts
    <3>3. Parts'
      BY <2>0, <2>4, <3>1, <3>2, PartsVacated DEF DropErrored
    <3>4. Gaps'
      <4>1. /\ net_nfds' = net_nfds /\ pc' = "scan" /\ pc = "scan" /\ idx' = idx + 1
            /\ compress_array' = TRUE /\ net_fd' = [net_fd EXCEPT ![idx] = NoSocket]
        BY <2>4 DEF DropErrored, Vacate, Scanning
      <4> QED BY <2>0, <2>i, <4>1 DEF Gaps, InUse, TypeOK
    <3>5. Working'
      BY <2>4, <2>i, <3>1 DEF Working, DropErrored, Scanning
    <3> QED BY <3>3, <3>4, <3>5
  <2>5. ASSUME NEW c \in Conns, AcceptConnection(c) PROVE Parts' /\ Gaps' /\ Working'
    <3>1. idx < net_nfds /\ pc = "scan" /\ pc' = "scan" /\ idx' = idx + 1
      BY <2>5 DEF AcceptConnection, Scanning
    <3>2. CASE Full
      <4>1. UNCHANGED <<net_fd, net_nfds, net_revents, peer, compress_array, port>>
        BY <2>5, <3>2 DEF AcceptConnection
      <4>2. Parts'
        <5>1. \A d \in Conns : tcp'[d] = "open" <=> tcp[d] = "open"
          BY <2>5, <3>2 DEF AcceptConnection, TypeOK
        <5> QED BY <2>0, <4>1, <5>1, PartsKept
      <4>3. Gaps' /\ Working'
        BY <2>0, <2>i, <3>1, <4>1 DEF Gaps, Working, InUse
      <4> QED BY <4>2, <4>3
    <3>3. CASE ~Full
      <4>1. /\ Install(c) /\ tcp[c] = "queued" /\ tcp' = [tcp EXCEPT ![c] = "open"]
            /\ port[c] = net_fd[idx] /\ UNCHANGED <<port, compress_array>>
        BY <2>5, <3>3 DEF AcceptConnection
      <4>2. Parts'
        BY <2>0, <3>3, <4>1, PartsInstalled
      <4>3. /\ net_nfds' = net_nfds + 1 /\ net_nfds \in 0..MaxFds
            /\ net_fd' = [net_fd EXCEPT ![net_nfds] = c]
        BY <2>i, <4>1 DEF Install
      <4>4. Gaps'
        <5> SUFFICES ASSUME NEW s \in InUse', net_fd'[s] = NoSocket
                     PROVE  compress_array /\ s < idx + 1
          BY <3>1, <4>1 DEF Gaps
        <5>1. s # net_nfds
          BY <4>3, ConnsApart DEF TypeOK
        <5>2. s \in InUse /\ net_fd[s] = NoSocket
          BY <2>i, <4>3, <5>1 DEF InUse, TypeOK
        <5> QED BY <2>0, <2>i, <3>1, <5>2 DEF Gaps, InUse
      <4>5. Working'
        BY <2>i, <3>1, <4>3 DEF Working
      <4> QED BY <4>2, <4>4, <4>5
    <3> QED BY <3>2, <3>3
  <2>6. CASE BeginReceive
    <3>1. net_fd[idx] \in Conns /\ idx < net_nfds
      BY <2>6, ScannedConn DEF BeginReceive, Scanning
    <3>2. Parts'
      BY <2>0, <2>6, PartsKept DEF BeginReceive, tables, wire
    <3>3. Gaps' /\ Working'
      BY <2>0, <2>6, <3>1 DEF BeginReceive, Scanning, Gaps, Working, InUse, tables
    <3> QED BY <3>2, <3>3
  <2>7. CASE ScanDone
    <3>1. Parts'
      BY <2>0, <2>7, PartsKept DEF ScanDone, tables, wire
    <3>2. UNCHANGED <<net_fd, net_nfds, compress_array>> /\ idx' = 0 /\ pc = "scan"
      BY <2>7 DEF ScanDone, tables
    <3>3. ASSUME compress_array PROVE Gaps' /\ Working'
      <4>1. pc' = "compress"
        BY <2>7, <3>3 DEF ScanDone
      <4> QED BY <2>0, <2>i, <3>2, <3>3, <4>1 DEF Gaps, Working, InUse
    <3>4. ASSUME ~compress_array PROVE Gaps' /\ Working'
      <4>1. pc' = "poll"
        BY <2>7, <3>4 DEF ScanDone
      <4> QED BY <2>0, <3>2, <3>4, <4>1 DEF Gaps, Working, InUse
    <3> QED BY <3>1, <3>3, <3>4
  <2>8. ASSUME NEW c \in Conns, NEW b \in Byte, StoreByte(c, b) \/ DiscardLine(c, b) \/ HandleRequest(c, b)
        PROVE  Parts' /\ Gaps' /\ Working'
    <3>1. UNCHANGED <<tables, idx, tcp, port>> /\ pc = "recv" /\ pc' \in {"recv", "send"}
      BY <2>8 DEF StoreByte, DiscardLine, HandleRequest, Received
    <3>2. Parts'
      BY <2>0, <3>1, PartsKept DEF tables
    <3>3. Gaps' /\ Working'
      BY <2>0, <3>1 DEF Gaps, Working, InUse, tables
    <3> QED BY <3>2, <3>3
  <2>9. ASSUME NEW c \in Conns, SendReply(c) \/ SendFails(c)
        PROVE  Parts' /\ Gaps' /\ Working'
    <3>1. UNCHANGED <<tables, idx, tcp, port>> /\ pc = "send" /\ pc' = "recv"
      BY <2>9 DEF SendReply, SendFails, wire
    <3>2. Parts'
      BY <2>0, <3>1, PartsKept DEF tables
    <3>3. Gaps' /\ Working'
      BY <2>0, <3>1 DEF Gaps, Working, InUse, tables
    <3> QED BY <3>2, <3>3
  <2>10. ASSUME NEW c \in Conns, RecvDone(c) PROVE Parts' /\ Gaps' /\ Working'
    <3>1. /\ idx \in InUse /\ idx < net_nfds /\ net_fd[idx] \in Conns
          /\ pc = "recv" /\ pc' = "scan" /\ idx' = idx + 1
      BY <2>0, <2>10, <2>i DEF RecvDone, Working, InUse
    <3>2. UNCHANGED <<net_revents, net_nfds, port>>
      BY <2>10 DEF RecvDone
    <3>3. /\ \A s \in InUse : peer'[s].channel = peer[s].channel /\ peer'[s].rx \in {peer[s].rx, rx}
          /\ \A s \in InUse : s # idx => peer'[s] = peer[s]
      <4>1. InUse \subseteq 0..MaxFds
        BY <2>i, SocketFacts DEF InUse
      <4> QED BY <2>10, <4>1 DEF RecvDone, TypeOK
    <3>4. CASE MustClose(c)
      <4>1. Vacate
        BY <2>10, <3>4 DEF RecvDone
      <4>2. Parts'
        BY <2>0, <3>1, <3>2, <3>3, <4>1, ConnsApart, PartsVacated
      <4>3. Gaps'
        <5>1. compress_array' = TRUE /\ net_fd' = [net_fd EXCEPT ![idx] = NoSocket]
          BY <4>1 DEF Vacate
        <5> QED BY <2>0, <2>i, <3>1, <3>2, <5>1 DEF Gaps, InUse, TypeOK
      <4>4. Working'
        BY <2>i, <3>1, <3>2 DEF Working
      <4> QED BY <4>2, <4>3, <4>4
    <3>5. CASE ~MustClose(c)
      <4>1. UNCHANGED <<net_fd, compress_array, tcp>>
        BY <2>10, <3>5 DEF RecvDone
      <4>2. Served' = Served /\ InUse' = InUse
        BY <3>2, <4>1 DEF Served, InUse
      <4>3. ListenersFirst'
        BY <2>0, <3>2, <4>1 DEF Parts, ListenersFirst
      <4>4. ConnSlots'
        BY <2>0, <3>2, <3>3, <4>1, <4>2 DEF Parts, ConnSlots, TypeOK
      <4>5. OneSlotEach'
        BY <2>0, <3>2, <4>1, <4>2 DEF Parts, OneSlotEach
      <4>6. Gaps' /\ Working'
        BY <2>0, <2>i, <3>1, <3>2, <4>1 DEF Gaps, Working, InUse
      <4> QED BY <4>3, <4>4, <4>5, <4>6 DEF Parts
    <3> QED BY <3>4, <3>5
  <2>11. CASE CloseGap
    <3>1. Parts'
      BY <2>0, <2>11, PartsShifted
    <3>2. Gaps'
      <4> SUFFICES ASSUME NEW s \in InUse', net_fd'[s] = NoSocket
                   PROVE  compress_array /\ s >= idx
        BY <2>11 DEF Gaps, CloseGap, locals
      <4>1. compress_array
        BY <2>0, <2>11, <2>i DEF Gaps, CloseGap, InUse
      <4>2. s \in Nat /\ s \in InUse /\ s \in 0..MaxFds
        BY <2>11, <2>i, SocketFacts DEF InUse, CloseGap
      <4>3. CASE s < idx
        <5>1. s \notin idx..(net_nfds - 1)
          BY <2>i, <4>2, <4>3
        <5>2. net_fd[s] = NoSocket
          BY <2>11, <4>2, <5>1 DEF CloseGap
        <5> QED BY <2>0, <2>11, <2>i, <4>2, <4>3, <5>2 DEF Gaps, CloseGap
      <4> QED BY <2>i, <4>1, <4>2, <4>3
    <3>3. Working'
      BY <2>11 DEF Working, CloseGap, locals
    <3> QED BY <3>1, <3>2, <3>3
  <2>12. CASE KeepSlot
    <3>1. Parts'
      BY <2>0, <2>12, PartsKept DEF KeepSlot, tables, wire
    <3>2. Gaps'
      BY <2>0, <2>12, <2>i DEF Gaps, KeepSlot, InUse, tables
    <3>3. Working'
      BY <2>12 DEF Working, KeepSlot
    <3> QED BY <3>1, <3>2, <3>3
  <2>13. CASE CompressDone
    <3>1. Parts'
      BY <2>0, <2>13, PartsKept DEF CompressDone, tables, wire
    <3>2. Gaps'
      BY <2>0, <2>13, <2>i DEF Gaps, CompressDone, InUse, tables
    <3>3. Working'
      BY <2>13 DEF Working, CompressDone
    <3> QED BY <3>1, <3>2, <3>3
  <2>14. ASSUME PollFails \/ AcceptFails
                  \/ \E c \in Conns : SendSigpipe(c) \/ \E b \in Byte : HandlerCrashes(c, b)
         PROVE  FALSE
    BY <2>14 DEF PollFails, AcceptFails, SendSigpipe, HandlerCrashes, Exit, Running
  <2> QED
    BY <1>4, <2>1, <2>2, <2>3, <2>4, <2>5, <2>6, <2>7, <2>8, <2>9, <2>10, <2>11, <2>12, <2>13, <2>14
    DEF Server, Receive
<1>5. Server => Running
  BY DEF Server, Poll, PollTimeout, PollFails, SkipSlot, DropErrored, AcceptFails, BeginReceive,
         ScanDone, AcceptConnection, Receive, StoreByte, DiscardLine, HandleRequest, HandlerCrashes,
         Received, SendReply, SendFails, SendSigpipe, RecvDone, CloseGap, KeepSlot, CompressDone,
         Scanning, Running
<1> QED BY <1>1, <1>2, <1>3, <1>4, <1>5 DEF Next, Interrupt

(* TypeOK and SlotsOK are inductive together. *)
LEMMA Inductive == Spec => [](TypeOK /\ SlotsOK)
<1>1. TypeOK /\ SlotsOK /\ [Next]_vars => (TypeOK /\ SlotsOK)'
  BY TypeStep, SlotsStep
<1> QED BY <1>1, InitOK, PTL DEF Spec

(* Every variable of the poll loop keeps its type: in particular the        *)
(* indices stay within net_fds[] and peer[], and what the shift reads from *)
(* behind the arrays never reaches a request.                              *)
THEOREM TypesAlways == Spec => []TypeOK
  BY Inductive, PTL

(***************************************************************************)
(* The slot table of net_poll() agrees with the open sockets in every      *)
(* reachable state: no connection is lost or held twice by accepting,      *)
(* closing and compressing, and none is served with another one's state.   *)
(***************************************************************************)
THEOREM SlotTable == Spec => []SlotsOK
  BY Inductive, PTL
=============================================================================
