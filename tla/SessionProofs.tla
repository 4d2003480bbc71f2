---------------------------- MODULE SessionProofs ----------------------------
(***************************************************************************)
(* The poll loop serves every connection as LineServer says: the slots,    *)
(* the one receive buffer and the one transmit buffer it works with never  *)
(* mix two sessions, the requests of a session are those of its stream,    *)
(* and they are answered once each and in order.                           *)
(*                                                                         *)
(* Every step of PollServer is first sorted by what it does to the         *)
(* sessions (SessionStep); the invariants and the refinement follow from   *)
(* the few kinds of steps that remain.                                     *)
(***************************************************************************)
EXTENDS AcceptProofs, FramingProofs

LEMMA ChosenSlot ==
    ASSUME NEW S, NEW f, NEW c, NEW s \in S, f[s] = c, \A t \in S : f[t] = c => t = s
    PROVE  (CHOOSE t \in S : f[t] = c) = s
  OBVIOUS

(* The request being collected for a connection lies with its slot, and in *)
(* the local buffer while receive_from_peer() works for it.                *)
LEMMA PartialIs ==
    ASSUME TypeOK, SlotsOK, Running, NEW c \in Conns, NEW s \in InUse, net_fd[s] = c
    PROVE  /\ tcp[c] = "open"
           /\ PartialOf(c) = IF Current(c) THEN rx ELSE peer[s].rx
           /\ PartialOf(c) \in Seq(Byte)
<1>1. ConnSlots /\ OneSlotEach /\ ListenersFirst
  BY DEF SlotsOK
<1>2. s >= Len(ListenOrder)
  <2>0. s \in Nat
    BY SocketFacts DEF InUse, TypeOK
  <2> SUFFICES ASSUME s < Len(ListenOrder) PROVE FALSE
    BY <2>0, ListenFacts
  <2>1. s + 1 \in DOMAIN ListenOrder /\ (s + 1) - 1 = s
    BY <2>0, ListenFacts
  <2> QED BY <1>1, <2>1, ListenFacts, ConnsApart DEF ListenersFirst
<1>3. tcp[c] = "open" /\ peer[s].rx \in Seq(Byte)
  BY <1>1, <1>2 DEF ConnSlots
<1>4. \A t \in InUse : net_fd[t] = c => t = s
  BY <1>1, ConnsApart DEF OneSlotEach
<1>5. (CHOOSE t \in InUse : net_fd[t] = c) = s
  BY <1>4, ChosenSlot
<1>6. PartialOf(c) = IF Current(c) THEN rx ELSE peer[s].rx
  BY <1>3, <1>5 DEF PartialOf
<1> QED BY <1>3, <1>6 DEF TypeOK

(* The same of the next state.                                             *)
LEMMA PartialIsNext ==
    ASSUME TypeOK', SlotsOK', Running', NEW c \in Conns, NEW s \in InUse', net_fd'[s] = c
    PROVE  /\ tcp'[c] = "open"
           /\ PartialOf(c)' = IF Current(c)' THEN rx' ELSE peer'[s].rx
<1>1. ConnSlots' /\ OneSlotEach' /\ ListenersFirst'
  BY DEF SlotsOK
<1>2. s >= Len(ListenOrder)
  <2>0. s \in Nat
    BY SocketFacts DEF InUse, TypeOK
  <2> SUFFICES ASSUME s < Len(ListenOrder) PROVE FALSE
    BY <2>0, ListenFacts
  <2>1. s + 1 \in DOMAIN ListenOrder /\ (s + 1) - 1 = s
    BY <2>0, ListenFacts
  <2> QED BY <1>1, <2>1, ListenFacts, ConnsApart DEF ListenersFirst
<1>3. tcp'[c] = "open"
  BY <1>1, <1>2 DEF ConnSlots
<1>4. \A t \in InUse' : net_fd'[t] = c => t = s
  BY <1>1, ConnsApart DEF OneSlotEach
<1>5. (CHOOSE t \in InUse' : net_fd'[t] = c) = s
  BY <1>4, ChosenSlot
<1>6. PartialOf(c)' = IF Current(c)' THEN rx' ELSE peer'[s].rx
  BY <1>3, <1>5 DEF PartialOf
<1> QED BY <1>3, <1>6

(* So it is kept when the slot keeps it, wherever the slot has moved to.   *)
LEMMA PartialKept ==
    ASSUME TypeOK, SlotsOK, TypeOK', SlotsOK', Running, Running', NEW c \in Conns,
           tcp'[c] = "open" <=> tcp[c] = "open",
           \A s \in InUse : net_fd[s] = c =>
               \E t \in InUse' :
                  /\ net_fd'[t] = c
                  /\ (IF Current(c)' THEN rx' ELSE peer'[t].rx) = (IF Current(c) THEN rx ELSE peer[s].rx)
    PROVE  PartialOf(c)' = PartialOf(c)
<1>1. CASE tcp[c] # "open"
  BY <1>1 DEF PartialOf
<1>2. CASE tcp[c] = "open"
  <2>1. PICK s \in InUse : net_fd[s] = c
    BY <1>2 DEF SlotsOK, OneSlotEach, Served
  <2>2. PICK t \in InUse' :
            /\ net_fd'[t] = c
            /\ (IF Current(c)' THEN rx' ELSE peer'[t].rx) = (IF Current(c) THEN rx ELSE peer[s].rx)
    BY <2>1
  <2>3. PartialOf(c) = IF Current(c) THEN rx ELSE peer[s].rx
    BY <2>1, PartialIs
  <2>4. PartialOf(c)' = IF Current(c)' THEN rx' ELSE peer'[t].rx
    BY <2>2, PartialIsNext
  <2> QED BY <2>2, <2>3, <2>4
<1> QED BY <1>1, <1>2

----------------------------------------------------------------------------
(* What a step does to the sessions. *)

(* An answer to the connection waits in the transmit buffer.               *)
Owing(c) == pc = "send" /\ Current(c)

SameHistory(c) == port'[c] = port[c] /\ got'[c] = got[c] /\ handled'[c] = handled[c] /\ replies'[c] = replies[c]

Untouched(c) ==
    /\ SameHistory(c)
    /\ StageOf(c)' = StageOf(c) /\ PartialOf(c)' = PartialOf(c)
    /\ ~rst[c] => (Owing(c)' <=> Owing(c)) /\ (Owing(c) => txbuf' = txbuf)

(* A connection is admitted, refused, or closed.                           *)
Moved(c, from, to) ==
    /\ SameHistory(c)
    /\ StageOf(c) = from /\ StageOf(c)' = to /\ PartialOf(c)' = <<>>
    /\ ~Owing(c)'

Took(c, b) ==
    /\ StageOf(c) = "served" /\ StageOf(c)' = "served" /\ ~Owing(c)
    /\ port'[c] = port[c] /\ got'[c] = Append(got[c], b) /\ replies'[c] = replies[c]
    /\ IF Len(PartialOf(c)) < RxSize /\ Completes(Chan(port[c]), b, PartialOf(c))
       THEN /\ PartialOf(c)' = <<>>
            /\ handled'[c] = Append(handled[c], PartialOf(c))
            /\ Owing(c)' <=> Outcome(Chan(port[c]), PartialOf(c)) = "answer"
            /\ Owing(c)' => txbuf' = PartialOf(c)
       ELSE /\ PartialOf(c)' = IF Len(PartialOf(c)) < RxSize /\ Accepts(Chan(port[c]), b)
                               THEN Append(PartialOf(c), b) ELSE <<>>
            /\ handled'[c] = handled[c]
            /\ ~Owing(c)'

Replied(c) ==
    /\ StageOf(c) = "served" /\ StageOf(c)' = "served" /\ ~rst[c]
    /\ Owing(c) /\ ~Owing(c)' /\ PartialOf(c)' = PartialOf(c)
    /\ port'[c] = port[c] /\ got'[c] = got[c] /\ handled'[c] = handled[c]
    /\ replies'[c] = Append(replies[c], txbuf)

Stopped ==
    /\ ~Running'
    /\ UNCHANGED <<port, handled, replies>>
    /\ got' = got \/ why' = "crash"
    /\ \A c \in Conns : /\ StageOf(c) = "away" => got'[c] = got[c]
                        /\ PartialOf(c)' = <<>>
                        /\ StageOf(c) = "served" => StageOf(c)' = "gone"
                        /\ StageOf(c)' \in {StageOf(c), "gone"} /\ StageOf(c)' # "served"

OneSession(c) ==
    \/ Untouched(c)
    \/ Moved(c, "away", "served") \/ Moved(c, "away", "gone") \/ Moved(c, "served", "gone")
    \/ \E b \in Byte : Took(c, b)
    \/ Replied(c)

SessionMove ==
    \/ Stopped
    \/ Running' /\ \E c \in Conns : OneSession(c) /\ \A d \in Conns \ {c} : Untouched(d)
    \/ Running' /\ \A d \in Conns : Untouched(d)

(* Nothing is left open when the process has ended.                        *)
Ended ==
    /\ ~Running => \A c \in Conns : tcp[c] \notin {"queued", "open"}
    /\ Running => why # "crash"

LEMMA EndedStep == TypeOK /\ Ended /\ [Next]_vars => Ended'
<1> SUFFICES ASSUME TypeOK, Ended, [Next]_vars PROVE Ended'
  OBVIOUS
<1>1. ASSUME pc' = "exit", tcp' = [c \in Conns |-> IF tcp[c] \in {"queued", "open"} THEN "closed" ELSE tcp[c]]
      PROVE  Ended'
  BY <1>1 DEF Ended, Running, TypeOK
<1>2. ASSUME PollFails \/ AcceptFails \/ Interrupt
                \/ \E c \in Conns : SendSigpipe(c) \/ \E b \in Byte : HandlerCrashes(c, b)
      PROVE  Ended'
  BY <1>1, <1>2 DEF PollFails, AcceptFails, Interrupt, SendSigpipe, HandlerCrashes, Exit
<1>3. ASSUME NEW c \in Conns, Client(c) PROVE Ended'
  BY <1>3 DEF Client, Connect, ClientSend, ClientRead, ClientClose, ClientReset, Reachable,
              Ended, Running, TypeOK
<1>4. CASE UNCHANGED vars
  BY <1>4 DEF vars, wire, Ended, Running
<1>5. ASSUME why' = why, Running, Running' PROVE Ended'
  BY <1>5 DEF Ended
<1>6. ASSUME Poll \/ PollTimeout \/ SkipSlot \/ DropErrored \/ BeginReceive \/ ScanDone
                \/ CloseGap \/ KeepSlot \/ CompressDone
      PROVE  Ended'
  BY <1>5, <1>6 DEF Poll, PollTimeout, SkipSlot, DropErrored, BeginReceive, ScanDone, CloseGap,
                    KeepSlot, CompressDone, Scanning, Running
<1>7. ASSUME NEW c \in Conns, AcceptConnection(c) \/ SendReply(c) \/ SendFails(c) \/ RecvDone(c)
      PROVE  Ended'
  BY <1>5, <1>7 DEF AcceptConnection, SendReply, SendFails, RecvDone, Scanning, Running
<1>8. ASSUME NEW c \in Conns, NEW b \in Byte, StoreByte(c, b) \/ DiscardLine(c, b) \/ HandleRequest(c, b)
      PROVE  Ended'
  BY <1>5, <1>8 DEF StoreByte, DiscardLine, HandleRequest, Received, Running
<1> QED
  BY <1>2, <1>3, <1>4, <1>6, <1>7, <1>8 DEF Next, Server, Receive

(* Steps that leave the tables and the histories alone.                    *)
LEMMA TablesKept ==
    ASSUME TypeOK, SlotsOK, TypeOK', SlotsOK', Running, Running', NEW c \in Conns,
           UNCHANGED <<net_fd, net_nfds, peer, port, history>>, StageOf(c)' = StageOf(c),
           Current(c)' <=> Current(c), Current(c) => rx' = rx,
           ~rst[c] => (Owing(c)' <=> Owing(c)) /\ (Owing(c) => txbuf' = txbuf)
    PROVE  Untouched(c)
<1>1. InUse' = InUse
  BY DEF InUse
<1>2. tcp'[c] = "open" <=> tcp[c] = "open"
  <2>1. /\ tcp[c] \in {"idle", "queued", "open", "closed"}
        /\ tcp'[c] \in {"idle", "queued", "open", "closed"}
    BY DEF TypeOK
  <2> QED BY <2>1 DEF StageOf
<1>3. PartialOf(c)' = PartialOf(c)
  BY <1>1, <1>2, PartialKept
<1>4. SameHistory(c)
  BY DEF SameHistory, history
<1> QED BY <1>3, <1>4 DEF Untouched

LEMMA ClientMove ==
    ASSUME TypeOK, SlotsOK, TypeOK', SlotsOK', Running, Running', NEW d \in Conns, Client(d)
    PROVE  \A c \in Conns : Untouched(c)
<1> SUFFICES ASSUME NEW c \in Conns PROVE Untouched(c)
  OBVIOUS
<1>1. UNCHANGED <<net_fd, net_nfds, peer, port, history, pc, idx, rx, txbuf>>
  BY DEF Client, Connect, ClientSend, ClientRead, ClientClose, ClientReset, tables, locals
<1>2. StageOf(c)' = StageOf(c)
  <2>1. CASE Connect(d)
    BY <2>1 DEF Connect, TypeOK, StageOf
  <2>2. CASE tcp' = tcp
    BY <2>2 DEF StageOf
  <2> QED BY <2>1, <2>2 DEF Client, ClientSend, ClientRead, ClientClose, ClientReset
<1>3. (Current(c)' <=> Current(c)) /\ (Owing(c)' <=> Owing(c))
  BY <1>1 DEF Current, Owing
<1> QED BY <1>1, <1>2, <1>3, TablesKept

LEMMA QuietMove ==
    ASSUME TypeOK, SlotsOK, TypeOK', SlotsOK', Running, Running',
           Poll \/ PollTimeout \/ SkipSlot \/ ScanDone \/ KeepSlot \/ CompressDone
    PROVE  \A c \in Conns : Untouched(c)
<1> SUFFICES ASSUME NEW c \in Conns PROVE Untouched(c)
  OBVIOUS
<1>1. UNCHANGED <<net_fd, net_nfds, peer, port, history, tcp, rx, txbuf>>
  BY DEF Poll, PollTimeout, SkipSlot, ScanDone, KeepSlot, CompressDone, tables, locals, wire
<1>2. pc \notin {"recv", "send"} /\ pc' \notin {"recv", "send"}
  BY DEF Poll, PollTimeout, SkipSlot, ScanDone, KeepSlot, CompressDone, Scanning
<1>3. StageOf(c)' = StageOf(c)
  BY <1>1 DEF StageOf
<1>4. ~Current(c) /\ ~Current(c)' /\ ~Owing(c) /\ ~Owing(c)'
  BY <1>2 DEF Current, Owing
<1> QED BY <1>1, <1>3, <1>4, TablesKept

(* The connection takes its partial request along into the local buffer.   *)
LEMMA BeginMove ==
    ASSUME TypeOK, SlotsOK, TypeOK', SlotsOK', Running, Running', BeginReceive
    PROVE  \A c \in Conns : Untouched(c)
<1> SUFFICES ASSUME NEW c \in Conns PROVE Untouched(c)
  OBVIOUS
<1>1. /\ UNCHANGED <<net_fd, net_nfds, peer, port, history, tcp, idx, txbuf>>
      /\ pc = "scan" /\ pc' = "recv" /\ rx' = peer[idx].rx
  BY DEF BeginReceive, Scanning, tables, wire
<1>2. InUse' = InUse /\ idx \in InUse /\ OneSlotEach
  BY <1>1, ScannedSlot DEF InUse, BeginReceive, SlotsOK
<1>3. ~Current(c) /\ (Current(c)' <=> net_fd[idx] = c)
  BY <1>1 DEF Current
<1>4. PartialOf(c)' = PartialOf(c)
  <2> SUFFICES ASSUME NEW s \in InUse, net_fd[s] = c
               PROVE  (IF Current(c)' THEN rx' ELSE peer'[s].rx) = peer[s].rx
    BY <1>1, <1>2, <1>3, PartialKept
  <2>1. Current(c)' => s = idx
    BY <1>2, <1>3, ConnsApart DEF OneSlotEach
  <2> QED BY <1>1, <2>1
<1>5. StageOf(c)' = StageOf(c) /\ SameHistory(c) /\ ~Owing(c) /\ ~Owing(c)'
  BY <1>1 DEF StageOf, SameHistory, history, Owing
<1> QED BY <1>4, <1>5 DEF Untouched

LEMMA SendFailsMove ==
    ASSUME TypeOK, SlotsOK, TypeOK', SlotsOK', Running, Running', NEW d \in Conns, SendFails(d)
    PROVE  \A c \in Conns : Untouched(c)
<1> SUFFICES ASSUME NEW c \in Conns PROVE Untouched(c)
  OBVIOUS
<1>1. /\ UNCHANGED <<net_fd, net_nfds, peer, port, history, tcp, idx, rx>>
      /\ pc = "send" /\ pc' = "recv" /\ d = net_fd[idx] /\ rst[d]
  BY DEF SendFails, tables, wire, Sock
<1>2. StageOf(c)' = StageOf(c) /\ (Current(c)' <=> Current(c))
  BY <1>1 DEF StageOf, Current
<1>3. ~rst[c] => ~Owing(c) /\ ~Owing(c)'
  BY <1>1 DEF Owing, Current
<1> QED BY <1>1, <1>2, <1>3, TablesKept

(* A slot and its framing state move down together.                        *)
LEMMA ShiftMove ==
    ASSUME TypeOK, SlotsOK, TypeOK', SlotsOK', Running, Running', CloseGap
    PROVE  \A c \in Conns : Untouched(c)
<1> SUFFICES ASSUME NEW c \in Conns PROVE Untouched(c)
  OBVIOUS
<1>1. /\ UNCHANGED <<port, history, tcp>> /\ pc = "compress" /\ pc' = "compress"
      /\ net_nfds' = net_nfds - 1 /\ idx < net_nfds /\ net_fd[idx] = NoSocket
      /\ net_fd' = [s \in 0..MaxFds |-> IF s \in idx..(net_nfds - 1) THEN net_fd[s+1] ELSE net_fd[s]]
      /\ peer' = [s \in 0..MaxFds |-> IF s \in idx..(net_nfds - 1) THEN peer[s+1] ELSE peer[s]]
  BY DEF CloseGap, wire
<1>i. idx \in Nat /\ net_nfds \in 0..MaxFds /\ MaxFds \in Nat
  BY SocketFacts DEF TypeOK
<1>2. ~Current(c) /\ ~Current(c)'
  BY <1>1 DEF Current
<1>3. PartialOf(c)' = PartialOf(c)
  <2> SUFFICES ASSUME NEW s \in InUse, net_fd[s] = c
               PROVE  \E t \in InUse' : net_fd'[t] = c /\ peer'[t].rx = peer[s].rx
    BY <1>1, <1>2, PartialKept
  <2>1. s # idx /\ s \in Nat /\ s < net_nfds
    BY <1>1, <1>i, ConnsApart DEF InUse
  <2>2. CASE s < idx
    <3>1. s \in InUse' /\ s \in 0..MaxFds /\ s \notin idx..(net_nfds - 1)
      BY <1>1, <1>i, <2>1, <2>2 DEF InUse
    <3> QED BY <1>1, <3>1
  <2>3. CASE s > idx
    <3> DEFINE t == s - 1
    <3>1. t \in InUse' /\ t \in 0..MaxFds /\ t \in idx..(net_nfds - 1) /\ t + 1 = s
      BY <1>1, <1>i, <2>1, <2>3 DEF InUse
    <3> HIDE DEF t
    <3> QED BY <1>1, <3>1
  <2> QED BY <1>i, <2>1, <2>2, <2>3
<1>4. StageOf(c)' = StageOf(c) /\ SameHistory(c) /\ ~Owing(c) /\ ~Owing(c)'
  BY <1>1 DEF StageOf, SameHistory, history, Owing
<1> QED BY <1>3, <1>4 DEF Untouched

(* Closing one connection touches no other.                                *)
LEMMA VacateMove ==
    ASSUME TypeOK, SlotsOK, TypeOK', SlotsOK', Running, Running', Vacate,
           NEW c \in Conns, c = net_fd[idx], idx \in InUse,
           UNCHANGED <<net_nfds, port, history>>, pc \in {"scan", "recv"}, pc' = "scan",
           \A s \in InUse : s # idx => peer'[s] = peer[s]
    PROVE  Moved(c, "served", "gone") /\ \A d \in Conns \ {c} : Untouched(d)
<1>1. InUse' = InUse /\ InUse \subseteq 0..MaxFds
  BY SocketFacts DEF InUse, TypeOK
<1>2. tcp[c] = "open" /\ tcp'[c] = "closed" /\ \A d \in Conns \ {c} : tcp'[d] = tcp[d]
  BY PartialIs DEF Vacate
<1>3. \A d \in Conns : ~Current(d)' /\ ~Owing(d)' /\ ~Owing(d) /\ SameHistory(d)
  BY DEF Current, Owing, SameHistory, history
<1>4. Moved(c, "served", "gone")
  BY <1>2, <1>3 DEF Moved, StageOf, PartialOf
<1>5. ASSUME NEW d \in Conns \ {c} PROVE Untouched(d)
  <2>1. ~Current(d)
    BY DEF Current
  <2>2. PartialOf(d)' = PartialOf(d)
    <3> SUFFICES ASSUME NEW s \in InUse, net_fd[s] = d
                 PROVE  net_fd'[s] = d /\ peer'[s].rx = peer[s].rx
      BY <1>1, <1>2, <1>3, <2>1, PartialKept
    <3>1. s # idx
      OBVIOUS
    <3> QED BY <1>1, <3>1 DEF Vacate, TypeOK
  <2>3. StageOf(d)' = StageOf(d)
    BY <1>2 DEF StageOf
  <2> QED BY <1>3, <2>2, <2>3 DEF Untouched
<1> QED BY <1>4, <1>5

LEMMA DropMove ==
    ASSUME TypeOK, SlotsOK, TypeOK', SlotsOK', Running, Running', DropErrored
    PROVE  \E c \in Conns : Moved(c, "served", "gone") /\ \A d \in Conns \ {c} : Untouched(d)
<1>1. net_fd[idx] \in Conns /\ idx \in InUse /\ Scanning
  BY ErroredSlot, ScannedSlot DEF DropErrored
<1>2. /\ Vacate /\ UNCHANGED <<net_nfds, port, history, peer>> /\ pc = "scan" /\ pc' = "scan"
  BY DEF DropErrored, Scanning, history
<1> QED BY <1>1, <1>2, VacateMove

(* A new connection starts with an empty buffer, whatever its slot held.   *)
LEMMA AcceptMove ==
    ASSUME TypeOK, SlotsOK, TypeOK', SlotsOK', Running, Running', NEW c \in Conns, AcceptConnection(c)
    PROVE  /\ Moved(c, "away", "served") \/ Moved(c, "away", "gone")
           /\ \A d \in Conns \ {c} : Untouched(d)
<1>1. /\ UNCHANGED <<port, history>> /\ pc = "scan" /\ pc' = "scan" /\ tcp[c] = "queued"
      /\ \A d \in Conns \ {c} : tcp'[d] = tcp[d]
  BY DEF AcceptConnection, Scanning, TypeOK
<1>2. \A d \in Conns : ~Current(d)' /\ ~Current(d) /\ ~Owing(d)' /\ ~Owing(d) /\ SameHistory(d)
  BY <1>1 DEF Current, Owing, SameHistory, history
<1>3. \A d \in Conns \ {c} : StageOf(d)' = StageOf(d)
  BY <1>1 DEF StageOf
<1>4. CASE Full
  <2>1. tcp'[c] = "closed" /\ UNCHANGED <<net_fd, peer, net_nfds>>
    BY <1>4 DEF AcceptConnection, TypeOK
  <2>2. Moved(c, "away", "gone")
    BY <1>1, <1>2, <2>1 DEF Moved, StageOf, PartialOf
  <2>3. ASSUME NEW d \in Conns \ {c} PROVE Untouched(d)
    <3>1. InUse' = InUse
      BY <2>1 DEF InUse
    <3>2. PartialOf(d)' = PartialOf(d)
      BY <1>1, <1>2, <2>1, <3>1, PartialKept
    <3> QED BY <1>2, <1>3, <3>2 DEF Untouched
  <2> QED BY <2>2, <2>3
<1>5. CASE ~Full
  <2>1. tcp'[c] = "open" /\ Install(c)
    BY <1>5 DEF AcceptConnection, TypeOK
  <2>2. /\ net_nfds \in 0..(MaxFds-1) /\ InUse' = InUse \cup {net_nfds}
        /\ net_nfds \notin InUse /\ InUse \subseteq 0..MaxFds /\ net_nfds \in 0..MaxFds
    <3>1. net_nfds \in 0..MaxFds /\ MaxFds \in Nat /\ ~(net_nfds >= MaxFds) /\ net_nfds' = net_nfds + 1
      BY <1>5, <2>1, SocketFacts DEF TypeOK, Full, Install
    <3> QED BY <3>1 DEF InUse
  <2>3. /\ net_fd'[net_nfds] = c /\ peer'[net_nfds].rx = <<>>
        /\ \A s \in InUse : net_fd'[s] = net_fd[s] /\ peer'[s] = peer[s]
    BY <2>1, <2>2 DEF Install, TypeOK
  <2>4. PartialOf(c)' = <<>>
    <3>1. net_nfds \in InUse' /\ ~Current(c)'
      BY <1>2, <2>2
    <3> QED BY <2>3, <3>1, PartialIsNext
  <2>5. Moved(c, "away", "served")
    BY <1>1, <1>2, <2>1, <2>4 DEF Moved, StageOf
  <2>6. ASSUME NEW d \in Conns \ {c} PROVE Untouched(d)
    <3>1. PartialOf(d)' = PartialOf(d)
      BY <1>1, <1>2, <2>2, <2>3, PartialKept
    <3> QED BY <1>2, <1>3, <3>1 DEF Untouched
  <2> QED BY <2>5, <2>6
<1> QED BY <1>4, <1>5

(* The local buffer goes back to the slot, unless the connection is closed.*)
LEMMA RecvDoneMove ==
    ASSUME TypeOK, SlotsOK, TypeOK', SlotsOK', Running, Running', NEW c \in Conns, RecvDone(c)
    PROVE  OneSession(c) /\ \A d \in Conns \ {c} : Untouched(d)
<1>1. /\ UNCHANGED <<net_nfds, port, history>> /\ pc = "recv" /\ pc' = "scan"
      /\ c = net_fd[idx] /\ peer' = [peer EXCEPT ![idx].rx = rx]
  BY DEF RecvDone, Sock
<1>2. idx \in InUse /\ InUse \subseteq 0..MaxFds /\ InUse' = InUse
  <2>1. idx \in InUse
    BY <1>1, ServedSlot
  <2>2. net_nfds \in 0..MaxFds /\ MaxFds \in Nat
    BY SocketFacts DEF TypeOK
  <2> QED BY <1>1, <2>1, <2>2 DEF InUse
<1>3. peer'[idx].rx = rx /\ \A s \in InUse : s # idx => peer'[s] = peer[s]
  BY <1>1, <1>2 DEF TypeOK
<1>4. CASE MustClose(c)
  <2>1. Vacate
    BY <1>4 DEF RecvDone
  <2> QED BY <1>1, <1>2, <1>3, <2>1, VacateMove DEF OneSession
<1>5. CASE ~MustClose(c)
  <2>1. UNCHANGED <<net_fd, tcp>>
    BY <1>5 DEF RecvDone
  <2>2. ASSUME NEW d \in Conns PROVE Untouched(d)
    <3>1. ~Current(d)' /\ ~Owing(d)' /\ ~Owing(d) /\ SameHistory(d) /\ StageOf(d)' = StageOf(d)
      BY <1>1, <2>1 DEF Current, Owing, SameHistory, history, StageOf
    <3>2. PartialOf(d)' = PartialOf(d)
      <4> SUFFICES ASSUME NEW s \in InUse, net_fd[s] = d
                   PROVE  peer'[s].rx = IF Current(d) THEN rx ELSE peer[s].rx
        BY <1>2, <2>1, <3>1, PartialKept
      <4>1. Current(d) <=> s = idx
        BY <1>1, <1>2, ConnsApart DEF Current, SlotsOK, OneSlotEach
      <4> QED BY <1>3, <4>1
    <3> QED BY <3>1, <3>2 DEF Untouched
  <2> QED BY <2>2 DEF OneSession
<1> QED BY <1>4, <1>5

(* A step of receive_from_peer() for c, seen from the other connections.   *)
LEMMA OthersUntouched ==
    ASSUME TypeOK, SlotsOK, TypeOK', SlotsOK', Running, Running', NEW c \in Conns,
           pc \in {"recv", "send"}, pc' \in {"recv", "send"}, c = Sock,
           UNCHANGED <<tables, idx, tcp, port>>, NEW d \in Conns \ {c}, SameHistory(d)
    PROVE  Untouched(d)
<1>1. UNCHANGED <<net_fd, peer, net_nfds, idx, tcp>>
  BY DEF tables
<1>2. InUse' = InUse /\ ~Current(d) /\ ~Current(d)' /\ ~Owing(d) /\ ~Owing(d)' /\ StageOf(d)' = StageOf(d)
  BY <1>1 DEF InUse, Current, Owing, StageOf, Sock
<1>3. PartialOf(d)' = PartialOf(d)
  BY <1>1, <1>2, PartialKept
<1> QED BY <1>2, <1>3 DEF Untouched

(* The session that is being received for.                                 *)
LEMMA CurrentSession ==
    ASSUME TypeOK, SlotsOK, TypeOK', SlotsOK', Running, Running', NEW c \in Conns,
           pc \in {"recv", "send"}, pc' \in {"recv", "send"}, c = Sock,
           UNCHANGED <<tables, idx, tcp, port>>
    PROVE  /\ StageOf(c) = "served" /\ StageOf(c)' = "served"
           /\ PartialOf(c) = rx /\ PartialOf(c)' = rx'
           /\ Chn = Chan(port[c]) /\ port'[c] = port[c]
           /\ Owing(c) <=> pc = "send"
           /\ Owing(c)' <=> pc' = "send"
<1>1. UNCHANGED <<net_fd, peer, net_nfds, idx, tcp, port>>
  BY DEF tables
<1>2. idx \in InUse /\ tcp[c] = "open" /\ Chn = Chan(port[c]) /\ idx \in InUse'
  BY <1>1, ServedSlot DEF InUse
<1>3. Current(c) /\ Current(c)'
  BY <1>1 DEF Current, Sock
<1>4. PartialOf(c) = rx
  BY <1>2, <1>3, PartialIs DEF Sock
<1>5. PartialOf(c)' = rx'
  <2>1. net_fd'[idx] = c
    BY <1>1 DEF Sock
  <2> QED BY <1>2, <1>3, <2>1, PartialIsNext
<1>6. StageOf(c) = "served" /\ StageOf(c)' = "served"
  BY <1>1, <1>2 DEF StageOf
<1> QED BY <1>1, <1>2, <1>3, <1>4, <1>5, <1>6 DEF Owing

LEMMA TakeMove ==
    ASSUME TypeOK, SlotsOK, TypeOK', SlotsOK', Running, Running', NEW c \in Conns, NEW b \in Byte,
           StoreByte(c, b) \/ DiscardLine(c, b) \/ HandleRequest(c, b)
    PROVE  Took(c, b) /\ \A d \in Conns \ {c} : Untouched(d)
<1>1. /\ UNCHANGED <<tables, idx, tcp, port, replies>> /\ c = Sock
      /\ pc = "recv" /\ pc' \in {"recv", "send"}
      /\ got' = [got EXCEPT ![c] = Append(@, b)]
      /\ handled' = handled \/ handled' = [handled EXCEPT ![c] = Append(@, rx)]
  BY DEF StoreByte, DiscardLine, HandleRequest, Received
<1>2. /\ StageOf(c) = "served" /\ StageOf(c)' = "served"
      /\ PartialOf(c) = rx /\ PartialOf(c)' = rx'
      /\ Chn = Chan(port[c]) /\ port'[c] = port[c]
      /\ Owing(c) <=> pc = "send"
      /\ Owing(c)' <=> pc' = "send"
  BY <1>1, CurrentSession
<1>3. got'[c] = Append(got[c], b) /\ replies'[c] = replies[c] /\ ~Owing(c)
  BY <1>1, <1>2 DEF TypeOK
<1>4. Took(c, b)
  <2>1. CASE StoreByte(c, b)
    <3>1. /\ HasRoom /\ ~Completes(Chn, b, rx) /\ Accepts(Chn, b)
          /\ rx' = Append(rx, b) /\ pc' = "recv" /\ handled' = handled
      BY <1>1, <2>1 DEF StoreByte
    <3> QED BY <1>2, <1>3, <3>1 DEF Took, HasRoom
  <2>2. CASE DiscardLine(c, b)
    <3>1. /\ ~HasRoom \/ (~Completes(Chn, b, rx) /\ ~Accepts(Chn, b))
          /\ rx' = <<>> /\ pc' = "recv" /\ handled' = handled
      BY <1>1, <2>2 DEF DiscardLine
    <3> QED BY <1>2, <1>3, <3>1 DEF Took, HasRoom
  <2>3. CASE HandleRequest(c, b)
    <3>1. /\ HasRoom /\ Completes(Chn, b, rx) /\ rx' = <<>>
          /\ handled' = [handled EXCEPT ![c] = Append(@, rx)]
          /\ IF Outcome(Chn, rx) = "answer" THEN pc' = "send" /\ txbuf' = rx ELSE pc' = "recv"
      BY <1>1, <2>3 DEF HandleRequest
    <3>2. handled'[c] = Append(handled[c], rx)
      BY <3>1 DEF TypeOK
    <3> QED BY <1>2, <1>3, <3>1, <3>2 DEF Took, HasRoom
  <2> QED BY <2>1, <2>2, <2>3
<1>5. ASSUME NEW d \in Conns \ {c} PROVE Untouched(d)
  <2>1. SameHistory(d)
    BY <1>1 DEF SameHistory, TypeOK
  <2> QED BY <1>1, <2>1, OthersUntouched
<1> QED BY <1>4, <1>5

LEMMA ReplyMove ==
    ASSUME TypeOK, SlotsOK, TypeOK', SlotsOK', Running, Running', NEW c \in Conns, SendReply(c)
    PROVE  Replied(c) /\ \A d \in Conns \ {c} : Untouched(d)
<1>1. /\ UNCHANGED <<tables, idx, tcp, port, got, handled, rx>> /\ c = Sock
      /\ pc = "send" /\ pc' = "recv" /\ ~rst[c]
      /\ replies' = [replies EXCEPT ![c] = Append(@, txbuf)]
  BY DEF SendReply
<1>2. /\ StageOf(c) = "served" /\ StageOf(c)' = "served"
      /\ PartialOf(c) = rx /\ PartialOf(c)' = rx'
      /\ Owing(c) <=> pc = "send"
      /\ Owing(c)' <=> pc' = "send"
  BY <1>1, CurrentSession
<1>3. replies'[c] = Append(replies[c], txbuf)
  BY <1>1 DEF TypeOK
<1>4. Replied(c)
  BY <1>1, <1>2, <1>3 DEF Replied
<1>5. ASSUME NEW d \in Conns \ {c} PROVE Untouched(d)
  <2>1. SameHistory(d)
    BY <1>1 DEF SameHistory, TypeOK
  <2> QED BY <1>1, <2>1, OthersUntouched
<1> QED BY <1>4, <1>5

LEMMA ExitMove ==
    ASSUME TypeOK, SlotsOK,
           PollFails \/ AcceptFails \/ Interrupt
             \/ \E c \in Conns : SendSigpipe(c) \/ \E b \in Byte : HandlerCrashes(c, b)
    PROVE  Stopped
<1>1. /\ pc' = "exit" /\ UNCHANGED <<port, handled, replies>> /\ (got' = got \/ why' = "crash")
      /\ tcp' = [c \in Conns |-> IF tcp[c] \in {"queued", "open"} THEN "closed" ELSE tcp[c]]
  BY DEF PollFails, AcceptFails, Interrupt, SendSigpipe, HandlerCrashes, Exit, history
<1>2. \A c \in Conns : tcp'[c] # "open"
  BY <1>1
<1>3. \A c \in Conns : PartialOf(c)' = <<>>
  BY <1>2 DEF PartialOf
<1>4. \A c \in Conns : /\ StageOf(c) = "served" => StageOf(c)' = "gone"
                       /\ StageOf(c)' \in {StageOf(c), "gone"} /\ StageOf(c)' # "served"
  BY <1>1 DEF StageOf, TypeOK
<1>5. \A c \in Conns : StageOf(c) = "away" => got'[c] = got[c]
  <2>1. CASE got' = got
    BY <2>1
  <2>2. ASSUME NEW d \in Conns, NEW b \in Byte, HandlerCrashes(d, b)
        PROVE  \A c \in Conns : StageOf(c) = "away" => got'[c] = got[c]
    <3>1. pc = "recv" /\ d = Sock /\ got' = [got EXCEPT ![d] = Append(@, b)]
      BY <2>2 DEF HandlerCrashes, Received
    <3>2. StageOf(d) = "served"
      BY <3>1, ServedSlot DEF StageOf
    <3> QED BY <3>1, <3>2 DEF TypeOK
  <2> QED BY <2>1, <2>2 DEF PollFails, AcceptFails, Interrupt, SendSigpipe, history
<1> QED BY <1>1, <1>3, <1>4, <1>5 DEF Stopped, Running

(* Every step moves one session at most, or stops the server.              *)
LEMMA SessionStep ==
    ASSUME TypeOK, SlotsOK, TypeOK', SlotsOK', Ended, [Next]_vars, Running
    PROVE  SessionMove
<1>1. ASSUME PollFails \/ AcceptFails \/ Interrupt
                \/ \E c \in Conns : SendSigpipe(c) \/ \E b \in Byte : HandlerCrashes(c, b)
      PROVE  SessionMove
  BY <1>1, ExitMove DEF SessionMove
<1>2. CASE UNCHANGED vars
  <2>1. ASSUME NEW c \in Conns PROVE Untouched(c)
    <3>1. UNCHANGED <<net_fd, net_nfds, peer, port, history, tcp, pc, idx, rx, txbuf>>
      BY <1>2 DEF vars, tables, locals, wire
    <3>2. /\ StageOf(c)' = StageOf(c) /\ (Current(c)' <=> Current(c))
          /\ (Owing(c)' <=> Owing(c)) /\ Running'
      BY <3>1 DEF StageOf, Current, Owing, Running
    <3> QED BY <3>1, <3>2, TablesKept
  <2>2. Running'
    BY <1>2 DEF vars, Running
  <2> QED BY <2>1, <2>2 DEF SessionMove
<1>3. ASSUME NEW d \in Conns, Client(d) PROVE SessionMove
  <2>1. Running'
    BY <1>3 DEF Client, Connect, ClientSend, ClientRead, ClientClose, ClientReset, Running
  <2> QED BY <1>3, <2>1, ClientMove DEF SessionMove
<1>4. ASSUME Poll \/ PollTimeout \/ SkipSlot \/ ScanDone \/ KeepSlot \/ CompressDone PROVE SessionMove
  <2>1. Running'
    BY <1>4 DEF Poll, PollTimeout, SkipSlot, ScanDone, KeepSlot, CompressDone, Scanning, Running
  <2> QED BY <1>4, <2>1, QuietMove DEF SessionMove
<1>5. ASSUME BeginReceive PROVE SessionMove
  <2>1. Running'
    BY <1>5 DEF BeginReceive, Running
  <2> QED BY <1>5, <2>1, BeginMove DEF SessionMove
<1>6. ASSUME NEW c \in Conns, SendFails(c) PROVE SessionMove
  <2>1. Running'
    BY <1>6 DEF SendFails, Running
  <2> QED BY <1>6, <2>1, SendFailsMove DEF SessionMove
<1>7. ASSUME CloseGap PROVE SessionMove
  <2>1. Running'
    BY <1>7 DEF CloseGap, Running
  <2> QED BY <1>7, <2>1, ShiftMove DEF SessionMove
<1>8. ASSUME DropErrored PROVE SessionMove
  <2>1. Running'
    BY <1>8 DEF DropErrored, Running
  <2>2. PICK c \in Conns : Moved(c, "served", "gone") /\ \A d \in Conns \ {c} : Untouched(d)
    BY <1>8, <2>1, DropMove
  <2> QED BY <2>1, <2>2 DEF SessionMove, OneSession
<1>9. ASSUME NEW c \in Conns, AcceptConnection(c) PROVE SessionMove
  <2>1. Running'
    BY <1>9 DEF AcceptConnection, Scanning, Running
  <2> QED BY <1>9, <2>1, AcceptMove DEF SessionMove, OneSession
<1>10. ASSUME NEW c \in Conns, RecvDone(c) PROVE SessionMove
  <2>1. Running'
    BY <1>10 DEF RecvDone, Running
  <2> QED BY <1>10, <2>1, RecvDoneMove DEF SessionMove
<1>11. ASSUME NEW c \in Conns, NEW b \in Byte, StoreByte(c, b) \/ DiscardLine(c, b) \/ HandleRequest(c, b)
       PROVE  SessionMove
  <2>1. Running'
    BY <1>11 DEF StoreByte, DiscardLine, HandleRequest, Received, Running
  <2> QED BY <1>11, <2>1, TakeMove DEF SessionMove, OneSession
<1>12. ASSUME NEW c \in Conns, SendReply(c) PROVE SessionMove
  <2>1. Running'
    BY <1>12 DEF SendReply, Running
  <2> QED BY <1>12, <2>1, ReplyMove DEF SessionMove, OneSession
<1> QED
  BY <1>1, <1>2, <1>3, <1>4, <1>5, <1>6, <1>7, <1>8, <1>9, <1>10, <1>11, <1>12
  DEF Next, Server, Receive

(* And a server that has ended stays so.                                   *)
LEMMA EndedStays ==
    ASSUME TypeOK, Ended, [Next]_vars, ~Running
    PROVE  UNCHANGED vars
<1>1. \A c \in Conns : ~Client(c)
  BY DEF Client, Connect, ClientSend, ClientRead, ClientClose, ClientReset, Reachable, Ended, Running
<1>2. ~Server /\ ~Interrupt
  BY DEF Server, Poll, PollTimeout, PollFails, SkipSlot, DropErrored, AcceptFails, BeginReceive,
         ScanDone, AcceptConnection, Receive, StoreByte, DiscardLine, HandleRequest, HandlerCrashes,
         Received, SendReply, SendFails, SendSigpipe, RecvDone, CloseGap, KeepSlot, CompressDone,
         Scanning, Running, Interrupt
<1> QED BY <1>1, <1>2 DEF Next

----------------------------------------------------------------------------
(* The invariant of the sessions. *)

(* A connection that was not admitted has no past.                         *)
Fresh(c) == StageOf(c) = "away" => got[c] = <<>> /\ handled[c] = <<>> /\ replies[c] = <<>>

(* The requests of the stream were handled, its open run is being collected. *)
Framed(c) ==
    FitsBuffer(Chan(port[c]), got[c]) /\ why # "crash" =>
        /\ handled[c] = RequestsOf(Chan(port[c]), got[c])
        /\ StageOf(c) = "served" => PartialOf(c) = OpenRun(Chan(port[c]), got[c])

(* The answers due were sent, but for the one in the transmit buffer.      *)
Answered(c) ==
    StageOf(c) = "served" /\ ~rst[c] =>
        IF Owing(c)
        THEN Answerable(Chan(port[c]), handled[c]) = Append(replies[c], txbuf)
        ELSE Answerable(Chan(port[c]), handled[c]) = replies[c]

SessionsOK == Ended /\ \A c \in Conns : Fresh(c) /\ Framed(c) /\ Answered(c)

LEMMA PartialType ==
    ASSUME TypeOK, SlotsOK, Running, NEW c \in Conns
    PROVE  PartialOf(c) \in Seq(Byte)
<1>1. CASE tcp[c] # "open"
  <2>1. PartialOf(c) = <<>>
    BY <1>1 DEF PartialOf
  <2> QED BY <2>1
<1>2. CASE tcp[c] = "open"
  <2>1. PICK s \in InUse : net_fd[s] = c
    BY <1>2 DEF SlotsOK, OneSlotEach, Served
  <2> QED BY <2>1, PartialIs
<1> QED BY <1>1, <1>2

LEMMA ChannelOf == \A s : Chan(s) \in Channel
  BY DEF Chan, Channel

LEMMA FreshStep ==
    ASSUME TypeOK, SlotsOK, SessionsOK, SessionMove, NEW c \in Conns
    PROVE  Fresh(c)'
<1>0. Fresh(c)
  BY DEF SessionsOK
<1>1. CASE Stopped
  <2>1. StageOf(c)' = "away" => StageOf(c) = "away"
    BY <1>1 DEF Stopped
  <2> QED BY <1>0, <1>1, <2>1 DEF Stopped, Fresh
<1>2. CASE Untouched(c)
  BY <1>0, <1>2 DEF Untouched, SameHistory, Fresh
<1>3. CASE OneSession(c)
  BY <1>2, <1>3 DEF OneSession, Moved, Took, Replied, Fresh
<1> QED BY <1>1, <1>2, <1>3 DEF SessionMove

LEMMA FramedStep ==
    ASSUME TypeOK, SlotsOK, SessionsOK, Ended', Running, SessionMove, NEW c \in Conns
    PROVE  Framed(c)'
<1> DEFINE ch == Chan(port[c])
<1>0. /\ Framed(c) /\ Fresh(c) /\ why # "crash" /\ ch \in Channel
      /\ got[c] \in Seq(Byte) /\ PartialOf(c) \in Seq(Byte)
  BY PartialType, ChannelOf DEF SessionsOK, Ended, TypeOK
<1>1. CASE Stopped
  BY <1>0, <1>1 DEF Stopped, Framed
<1>2. CASE Untouched(c)
  BY <1>0, <1>2 DEF Untouched, SameHistory, Framed
<1>3. CASE Moved(c, "away", "served")
  <2>1. /\ got'[c] = <<>> /\ handled'[c] = <<>> /\ PartialOf(c)' = <<>> /\ port'[c] = port[c]
    BY <1>0, <1>3 DEF Moved, SameHistory, Fresh
  <2>2. RequestsOf(ch, <<>>) = <<>> /\ OpenRun(ch, <<>>) = <<>>
    <3>1. Semi \in Byte
      BY DEF Byte
    <3> QED BY <1>0, <3>1, RequestsGrow DEF OpenRun
  <2> QED BY <2>1, <2>2 DEF Framed
<1>4. CASE Moved(c, "away", "gone") \/ Moved(c, "served", "gone") \/ Replied(c)
  BY <1>0, <1>4 DEF Moved, Replied, SameHistory, Framed
<1>5. ASSUME NEW b \in Byte, Took(c, b) PROVE Framed(c)'
  <2> DEFINE g == got[c]
             p == PartialOf(c)
  <2>1. port'[c] = port[c] /\ got'[c] = Append(g, b) /\ StageOf(c) = "served"
    BY <1>5 DEF Took
  <2> SUFFICES ASSUME FitsBuffer(ch, Append(g, b))
               PROVE  /\ handled'[c] = RequestsOf(ch, Append(g, b))
                      /\ PartialOf(c)' = OpenRun(ch, Append(g, b))
    BY <2>1 DEF Framed
  <2>2. FitsBuffer(ch, g) /\ Len(OpenRun(ch, g)) < RxSize
    BY <1>0, FitsGrow
  <2>3. handled[c] = RequestsOf(ch, g) /\ p = OpenRun(ch, g)
    BY <1>0, <2>1, <2>2 DEF Framed
  <2>4. /\ RequestsOf(ch, Append(g, b)) = IF Completes(ch, b, p) THEN Append(handled[c], p) ELSE handled[c]
        /\ OpenRun(ch, Append(g, b)) = IF Accepts(ch, b) THEN Append(p, b) ELSE <<>>
    BY <1>0, <2>3, RequestsGrow, OpenRunGrows
  <2>5. Completes(ch, b, p) => ~Accepts(ch, b)
    <3>1. Completes(ch, b, p) => b = Terminator(ch)
      BY DEF Completes, Terminator
    <3> QED BY <1>0, <3>1, TerminatorApart
  <2>6. Len(p) < RxSize
    BY <2>2, <2>3
  <2>7. CASE Completes(ch, b, p)
    <3>1. handled'[c] = Append(handled[c], p) /\ PartialOf(c)' = <<>>
      BY <1>5, <2>6, <2>7 DEF Took
    <3> HIDE DEF ch, g, p
    <3> QED BY <2>4, <2>5, <2>7, <3>1
  <2>8. CASE ~Completes(ch, b, p)
    <3>1. /\ handled'[c] = handled[c]
          /\ PartialOf(c)' = IF Accepts(ch, b) THEN Append(p, b) ELSE <<>>
      BY <1>5, <2>6, <2>8 DEF Took
    <3> HIDE DEF ch, g, p
    <3> QED BY <2>4, <2>8, <3>1
  <2> QED BY <2>7, <2>8
<1> QED BY <1>1, <1>2, <1>3, <1>4, <1>5 DEF SessionMove, OneSession

LEMMA AnsweredStep ==
    ASSUME TypeOK, SlotsOK, SessionsOK, Running, SessionMove,
           NEW c \in Conns, rst[c] => rst'[c]
    PROVE  Answered(c)'
<1> DEFINE ch == Chan(port[c])
           p == PartialOf(c)
<1>0. /\ Answered(c) /\ Fresh(c) /\ p \in Seq(Byte) /\ handled[c] \in Seq(Seq(Byte))
  BY PartialType DEF SessionsOK, TypeOK
<1>1. CASE Stopped
  BY <1>1 DEF Stopped, Answered
<1>2. CASE Untouched(c)
  BY <1>0, <1>2 DEF Untouched, SameHistory, Answered
<1>3. CASE Moved(c, "away", "served")
  <2>1. handled'[c] = <<>> /\ replies'[c] = <<>> /\ ~Owing(c)' /\ port'[c] = port[c]
    BY <1>0, <1>3 DEF Moved, SameHistory, Fresh
  <2>2. Answerable(ch, <<>>) = <<>>
    <3>1. handled[c] \in Seq(Seq(Byte)) /\ p \in Seq(Byte)
      BY <1>0
    <3> HIDE DEF ch, p
    <3> QED BY <3>1, AnswerableGrows
  <2> QED BY <2>1, <2>2 DEF Answered
<1>4. CASE Moved(c, "away", "gone") \/ Moved(c, "served", "gone")
  BY <1>4 DEF Moved, Answered
<1>5. ASSUME NEW b \in Byte, Took(c, b) PROVE Answered(c)'
  <2> SUFFICES ASSUME ~rst'[c]
               PROVE  IF Owing(c)'
                      THEN Answerable(ch, handled'[c]) = Append(replies[c], txbuf')
                      ELSE Answerable(ch, handled'[c]) = replies[c]
    BY <1>5 DEF Took, Answered
  <2>1. Answerable(ch, handled[c]) = replies[c]
    BY <1>0, <1>5 DEF Took, Answered
  <2>2. CASE handled'[c] = handled[c] /\ ~Owing(c)'
    BY <2>1, <2>2
  <2>3. CASE /\ handled'[c] = Append(handled[c], p)
             /\ Owing(c)' <=> Outcome(ch, p) = "answer"
             /\ Owing(c)' => txbuf' = p
    <3> DEFINE h == handled[c]
    <3>1. Answerable(ch, Append(h, p)) =
             IF Outcome(ch, p) = "answer" THEN Append(Answerable(ch, h), p) ELSE Answerable(ch, h)
      <4> HIDE DEF ch, p, h
      <4>1. h \in Seq(Seq(Byte)) /\ p \in Seq(Byte)
        BY <1>0 DEF h
      <4> QED BY <4>1, AnswerableGrows
    <3> HIDE DEF ch, p
    <3> QED BY <2>1, <2>3, <3>1
  <2> QED BY <1>5, <2>2, <2>3 DEF Took
<1>6. CASE Replied(c)
  BY <1>0, <1>6 DEF Replied, Answered
<1> QED BY <1>1, <1>2, <1>3, <1>4, <1>5, <1>6 DEF SessionMove, OneSession

LEMMA SessionsInvariant == Spec => []SessionsOK
<1>1. Init => SessionsOK
  <2> SUFFICES ASSUME Init PROVE SessionsOK
    OBVIOUS
  <2>1. Ended
    BY DEF Init, Ended, Running
  <2>2. ASSUME NEW c \in Conns PROVE Fresh(c) /\ Framed(c) /\ Answered(c)
    <3>1. got[c] = <<>> /\ handled[c] = <<>> /\ replies[c] = <<>> /\ StageOf(c) = "away"
      BY DEF Init, StageOf
    <3>2. RequestsOf(Chan(port[c]), <<>>) = <<>>
      <4>1. Semi \in Byte /\ <<>> \in Seq(Byte)
        BY DEF Byte
      <4> QED BY <4>1, ChannelOf, RequestsGrow
    <3> QED BY <3>1, <3>2 DEF Fresh, Framed, Answered
  <2> QED BY <2>1, <2>2 DEF SessionsOK
<1>2. TypeOK /\ SlotsOK /\ SessionsOK /\ [Next]_vars => SessionsOK'
  <2> SUFFICES ASSUME TypeOK, SlotsOK, SessionsOK, [Next]_vars PROVE SessionsOK'
    OBVIOUS
  <2>1. TypeOK' /\ SlotsOK' /\ Ended /\ Ended'
    BY TypeStep, SlotsStep, EndedStep DEF SessionsOK
  <2>2. CASE Running
    <3>1. SessionMove
      BY <2>1, <2>2, SessionStep
    <3>2. \A c \in Conns : rst[c] => rst'[c]
      BY ResetsStay
    <3>3. ASSUME NEW c \in Conns PROVE Fresh(c)' /\ Framed(c)' /\ Answered(c)'
      BY <2>1, <2>2, <3>1, <3>2, FreshStep, FramedStep, AnsweredStep
    <3> QED BY <2>1, <3>3 DEF SessionsOK
  <2>3. CASE ~Running
    <3>1. UNCHANGED vars
      BY <2>1, <2>3, EndedStays
    <3>2. UNCHANGED <<pc, why, tcp, port, rst, got, handled, replies, net_fd, idx, txbuf>>
      BY <3>1 DEF vars, tables, locals, wire, history
    <3>3. \A c \in Conns : tcp[c] # "open"
      BY <2>1, <2>3 DEF Ended
    <3>4. ASSUME NEW c \in Conns PROVE Fresh(c)' /\ Framed(c)' /\ Answered(c)'
      <4>1. StageOf(c)' = StageOf(c) /\ StageOf(c) # "served"
        BY <3>2, <3>3 DEF StageOf
      <4>2. Fresh(c) /\ Framed(c)
        BY DEF SessionsOK
      <4> QED BY <3>2, <4>1, <4>2 DEF Fresh, Framed, Answered
    <3> QED BY <2>1, <3>4 DEF SessionsOK
  <2> QED BY <2>2, <2>3
<1> QED BY <1>1, <1>2, Inductive, PTL DEF Spec

(***************************************************************************)
(* receive_from_peer(), a byte at a time and over any number of wakeups    *)
(* and moves of its slot, handles exactly the requests of the stream of    *)
(* each connection, as long as no run of bytes overflows rxbuf.            *)
(***************************************************************************)
THEOREM FramesWhatWasSent == Spec => []FramesRequests
<1>1. SessionsOK => FramesRequests
  BY DEF SessionsOK, Framed, FramesRequests
<1> QED BY <1>1, SessionsInvariant, PTL

(***************************************************************************)
(* Between two calls of receive_from_peer() every request that has an      *)
(* answer was answered to the connection it came from, once and in order.  *)
(***************************************************************************)
THEOREM AnswersOnceInOrder == Spec => []AnswersAll
<1>1. SessionsOK => AnswersAll
  BY DEF SessionsOK, Answered, AnswersAll, Owing, Served, StageOf
<1> QED BY <1>1, SessionsInvariant, PTL

----------------------------------------------------------------------------
(* The refinement of LineServer. *)

Channels == [c \in Conns |-> Chan(port[c])]
Stages   == [c \in Conns |-> StageOf(c)]
Partials == [c \in Conns |-> PartialOf(c)]

(* LineServer reads the framing as PollServer does.                        *)
LEMMA SameFraming ==
    /\ Sessions!Byte = Byte /\ Sessions!Channel = Channel
    /\ \A chn, b, r : Sessions!Completes(chn, b, r) <=> Completes(chn, b, r)
    /\ \A chn, b : Sessions!Accepts(chn, b) <=> Accepts(chn, b)
    /\ \A chn, r : Sessions!Outcome(chn, r) = Outcome(chn, r)
    /\ \A chn, s : Sessions!Answerable(chn, s) = Answerable(chn, s)
<1>1. Sessions!Byte = Byte /\ Sessions!Channel = Channel
  BY DEF Sessions!Byte, Byte, Sessions!Channel, Channel
<1>2. \A chn, b, r : Sessions!Completes(chn, b, r) <=> Completes(chn, b, r)
  BY DEF Sessions!Completes, Completes
<1>3. \A chn, b : Sessions!Accepts(chn, b) <=> Accepts(chn, b)
  BY DEF Sessions!Accepts, Accepts
<1>4. \A chn, r : Sessions!Outcome(chn, r) = Outcome(chn, r)
  BY DEF Sessions!Outcome, Outcome
<1>5. \A chn, s : Sessions!Answerable(chn, s) = Answerable(chn, s)
  BY <1>4 DEF Sessions!Answerable, Answerable
<1> QED BY <1>1, <1>2, <1>3, <1>4, <1>5

(* What a step of one session leaves of the others.                        *)
LEMMA OthersStay ==
    ASSUME TypeOK, TypeOK', NEW c \in Conns, \A d \in Conns \ {c} : Untouched(d), port'[c] = port[c]
    PROVE  /\ Channels' = Channels
           /\ Stages' = [Stages EXCEPT ![c] = StageOf(c)']
           /\ Partials' = [Partials EXCEPT ![c] = PartialOf(c)']
           /\ handled' = [handled EXCEPT ![c] = handled'[c]]
           /\ replies' = [replies EXCEPT ![c] = replies'[c]]
<1>1. \A d \in Conns : port'[d] = port[d]
  BY DEF Untouched, SameHistory
<1>2. Channels' = Channels
  BY <1>1 DEF Channels
<1>3. Stages' = [Stages EXCEPT ![c] = StageOf(c)']
  BY DEF Stages, Untouched
<1>4. Partials' = [Partials EXCEPT ![c] = PartialOf(c)']
  BY DEF Partials, Untouched
<1>5. handled' = [handled EXCEPT ![c] = handled'[c]]
  BY DEF TypeOK, Untouched, SameHistory
<1>6. replies' = [replies EXCEPT ![c] = replies'[c]]
  BY DEF TypeOK, Untouched, SameHistory
<1> QED BY <1>2, <1>3, <1>4, <1>5, <1>6

LEMMA StutterMaps ==
    ASSUME TypeOK, TypeOK', \A c \in Conns : Untouched(c)
    PROVE  UNCHANGED Sessions!vars
<1>1. Channels' = Channels /\ Stages' = Stages /\ Partials' = Partials
  BY DEF Channels, Stages, Partials, Untouched, SameHistory
<1>2. handled' = handled /\ replies' = replies
  BY DEF TypeOK, Untouched, SameHistory
<1> QED BY <1>1, <1>2 DEF Sessions!vars, Channels, Stages, Partials

LEMMA MovedMaps ==
    ASSUME TypeOK, TypeOK', NEW c \in Conns, \A d \in Conns \ {c} : Untouched(d),
           Moved(c, "away", "served") \/ Moved(c, "away", "gone") \/ Moved(c, "served", "gone")
    PROVE  Sessions!Admit(c) \/ Sessions!Refuse(c) \/ Sessions!Leave(c)
<1>1. port'[c] = port[c] /\ handled'[c] = handled[c] /\ replies'[c] = replies[c] /\ PartialOf(c)' = <<>>
  BY DEF Moved, SameHistory
<1>2. /\ Channels' = Channels
      /\ Stages' = [Stages EXCEPT ![c] = StageOf(c)']
      /\ Partials' = [Partials EXCEPT ![c] = <<>>]
      /\ handled' = handled /\ replies' = replies
  <2>1. /\ Channels' = Channels
        /\ Stages' = [Stages EXCEPT ![c] = StageOf(c)']
        /\ Partials' = [Partials EXCEPT ![c] = PartialOf(c)']
        /\ handled' = [handled EXCEPT ![c] = handled'[c]]
        /\ replies' = [replies EXCEPT ![c] = replies'[c]]
    BY <1>1, OthersStay
  <2>2. \A f, S : f \in [Conns -> S] => [f EXCEPT ![c] = f[c]] = f
    OBVIOUS
  <2>3. handled' = handled
    <3>1. handled \in [Conns -> Seq(Seq(Byte))]
      BY DEF TypeOK
    <3> QED BY <1>1, <2>1, <2>2, <3>1
  <2>4. replies' = replies
    <3>1. replies \in [Conns -> Seq(Seq(Byte))]
      BY DEF TypeOK
    <3> QED BY <1>1, <2>1, <2>2, <3>1
  <2> QED BY <1>1, <2>1, <2>3, <2>4
<1>3. Stages[c] = StageOf(c)
  BY DEF Stages
<1>4. ASSUME StageOf(c) = "away" PROVE Partials' = Partials
  <2>1. PartialOf(c) = <<>>
    BY <1>4 DEF StageOf, PartialOf
  <2> QED BY <1>2, <2>1 DEF Partials
<1>5. CASE Moved(c, "away", "served")
  <2>1. Stages[c] = "away" /\ Stages' = [Stages EXCEPT ![c] = "served"] /\ Partials' = Partials
    BY <1>2, <1>3, <1>4, <1>5 DEF Moved
  <2> QED BY <1>2, <2>1 DEF Sessions!Admit, Channels, Stages, Partials
<1>6. CASE Moved(c, "away", "gone")
  <2>1. Stages[c] = "away" /\ Stages' = [Stages EXCEPT ![c] = "gone"] /\ Partials' = Partials
    BY <1>2, <1>3, <1>4, <1>6 DEF Moved
  <2> QED BY <1>2, <2>1 DEF Sessions!Refuse, Channels, Stages, Partials
<1>7. CASE Moved(c, "served", "gone")
  <2>1. Stages[c] = "served" /\ Stages' = [Stages EXCEPT ![c] = "gone"]
    BY <1>2, <1>3, <1>7 DEF Moved
  <2> QED BY <1>2, <2>1 DEF Sessions!Leave, Channels, Stages, Partials
<1> QED BY <1>5, <1>6, <1>7

LEMMA TookMaps ==
    ASSUME TypeOK, TypeOK', NEW c \in Conns, \A d \in Conns \ {c} : Untouched(d),
           NEW b \in Byte, Took(c, b)
    PROVE  Sessions!Take(c, b)
<1> DEFINE p == PartialOf(c)
           ch == Chan(port[c])
<1>1. port'[c] = port[c] /\ replies'[c] = replies[c] /\ StageOf(c) = "served" /\ StageOf(c)' = "served"
  BY DEF Took
<1>2. /\ Channels' = Channels /\ Stages' = Stages /\ replies' = replies
      /\ Partials' = [Partials EXCEPT ![c] = PartialOf(c)']
      /\ handled' = [handled EXCEPT ![c] = handled'[c]]
  <2>1. /\ Channels' = Channels
        /\ Stages' = [Stages EXCEPT ![c] = StageOf(c)']
        /\ Partials' = [Partials EXCEPT ![c] = PartialOf(c)']
        /\ handled' = [handled EXCEPT ![c] = handled'[c]]
        /\ replies' = [replies EXCEPT ![c] = replies'[c]]
    BY <1>1, OthersStay
  <2>2. \A f, S : f \in [Conns -> S] => [f EXCEPT ![c] = f[c]] = f
    OBVIOUS
  <2>4. replies' = replies
    <3>1. replies \in [Conns -> Seq(Seq(Byte))]
      BY DEF TypeOK
    <3> QED BY <1>1, <2>1, <2>2, <3>1
  <2>5. Stages' = Stages
    BY <1>1, <2>1 DEF Stages
  <2> QED BY <2>1, <2>4, <2>5
<1>3. Stages[c] = "served" /\ Partials[c] = p /\ Channels[c] = ch
  BY <1>1 DEF Stages, Partials, Channels
<1>4. CASE Len(p) < RxSize /\ Completes(ch, b, p)
  <2>1. handled' = [handled EXCEPT ![c] = Append(@, Partials[c])] /\ Partials' = [Partials EXCEPT ![c] = <<>>]
    BY <1>2, <1>3, <1>4 DEF Took, TypeOK
  <2>2. Len(Partials[c]) < RxSize /\ Sessions!Completes(Channels[c], b, Partials[c])
    BY <1>3, <1>4, SameFraming
  <2> QED BY <1>2, <1>3, <2>1, <2>2 DEF Sessions!Take, Channels, Stages, Partials
<1>5. CASE ~(Len(p) < RxSize /\ Completes(ch, b, p))
  <2>1. handled' = handled
    BY <1>2, <1>5 DEF Took, TypeOK
  <2>2. PartialOf(c)' = IF Len(p) < RxSize /\ Accepts(ch, b) THEN Append(p, b) ELSE <<>>
    BY <1>5 DEF Took
  <2>3. Partials' = [Partials EXCEPT ![c] =
            IF Len(@) < RxSize /\ Sessions!Accepts(Channels[c], b) THEN Append(@, b) ELSE <<>>]
    <3>1. c \in DOMAIN Partials
      BY DEF Partials
    <3> HIDE DEF p, ch
    <3> QED BY <1>2, <1>3, <2>2, <3>1, SameFraming
  <2>4. ~(Len(Partials[c]) < RxSize /\ Sessions!Completes(Channels[c], b, Partials[c]))
    BY <1>3, <1>5, SameFraming
  <2> QED BY <1>2, <1>3, <2>1, <2>3, <2>4 DEF Sessions!Take, Channels, Stages, Partials
<1> QED BY <1>4, <1>5

LEMMA RepliedMaps ==
    ASSUME TypeOK, TypeOK', NEW c \in Conns, \A d \in Conns \ {c} : Untouched(d),
           Replied(c), Answered(c)
    PROVE  Sessions!Reply(c)
<1> DEFINE r == replies[c]
           due == Sessions!Answerable(Channels[c], handled[c])
<1>1. port'[c] = port[c] /\ handled'[c] = handled[c] /\ StageOf(c) = "served" /\ StageOf(c)' = "served"
      /\ PartialOf(c)' = PartialOf(c) /\ replies'[c] = Append(r, txbuf)
  BY DEF Replied
<1>2. /\ Channels' = Channels /\ Stages' = Stages /\ Partials' = Partials /\ handled' = handled
      /\ replies' = [replies EXCEPT ![c] = Append(r, txbuf)]
  <2>1. /\ Channels' = Channels
        /\ Stages' = [Stages EXCEPT ![c] = StageOf(c)']
        /\ Partials' = [Partials EXCEPT ![c] = PartialOf(c)']
        /\ handled' = [handled EXCEPT ![c] = handled'[c]]
        /\ replies' = [replies EXCEPT ![c] = replies'[c]]
    BY <1>1, OthersStay
  <2>2. \A f, S : f \in [Conns -> S] => [f EXCEPT ![c] = f[c]] = f
    OBVIOUS
  <2>3. handled' = handled
    <3>1. handled \in [Conns -> Seq(Seq(Byte))]
      BY DEF TypeOK
    <3> QED BY <1>1, <2>1, <2>2, <3>1
  <2>5. Stages' = Stages
    BY <1>1, <2>1 DEF Stages
  <2>6. Partials' = Partials
    BY <1>1, <2>1 DEF Partials
  <2> QED BY <1>1, <2>1, <2>3, <2>5, <2>6
<1>3. Stages[c] = "served" /\ Channels[c] = Chan(port[c])
  BY <1>1 DEF Stages, Channels
<1>4. due = Append(r, txbuf)
  BY <1>1, <1>3, SameFraming DEF Replied, Answered
<1>5. r \in Seq(Seq(Byte)) /\ txbuf \in Seq(Byte)
  BY DEF TypeOK
<1> HIDE DEF r
<1>6. Len(r) + 1 <= Len(due) /\ due[Len(r) + 1] = txbuf
  BY <1>4, <1>5
<1>7. replies' = [replies EXCEPT ![c] = Append(@, due[Len(replies[c]) + 1])]
  BY <1>2, <1>6 DEF TypeOK, r
<1> QED BY <1>2, <1>3, <1>6, <1>7 DEF Sessions!Reply, Channels, Stages, Partials, r

LEMMA StoppedMaps ==
    ASSUME TypeOK, TypeOK', Stopped
    PROVE  \E waiting \in SUBSET Conns : Sessions!Stop(waiting)
<1> DEFINE waiting == {c \in Conns : StageOf(c) = "away" /\ StageOf(c)' = "gone"}
<1>1. Channels' = Channels /\ handled' = handled /\ replies' = replies
  BY DEF Stopped, Channels
<1>2. Partials' = [c \in Conns |-> <<>>]
  <2>1. \A c \in Conns : PartialOf(c)' = <<>>
    BY DEF Stopped
  <2> QED BY <2>1 DEF Partials
<1>3. \A c \in Conns : StageOf(c)' = IF StageOf(c) = "served" \/ c \in waiting THEN "gone" ELSE StageOf(c)
  BY DEF Stopped, StageOf
<1>4. Stages' = [c \in Conns |-> IF Stages[c] = "served" \/ c \in waiting THEN "gone" ELSE Stages[c]]
  BY <1>3 DEF Stages
<1>5. waiting \in SUBSET Conns
  OBVIOUS
<1> HIDE DEF waiting
<1>6. Sessions!Stop(waiting)
  BY <1>1, <1>2, <1>4 DEF Sessions!Stop, Channels, Stages, Partials
<1> QED BY <1>5, <1>6

(***************************************************************************)
(* The poll loop with its slots, its events and its shared buffers is a    *)
(* server of independent sessions: every step is one of LineServer's, or   *)
(* leaves the sessions alone.                                              *)
(***************************************************************************)
THEOREM ServesSessions == Spec => ServesLines
<1>1. Init => Sessions!Init
  <2> SUFFICES ASSUME Init PROVE Sessions!Init
    OBVIOUS
  <2>1. \A c \in Conns : StageOf(c) = "away" /\ PartialOf(c) = <<>>
    BY DEF Init, StageOf, PartialOf
  <2>2. Stages = [c \in Conns |-> "away"] /\ Partials = [c \in Conns |-> <<>>]
    BY <2>1 DEF Stages, Partials
  <2>3. Channels \in [Conns -> Sessions!Channel]
    BY ChannelOf, SameFraming DEF Channels
  <2>4. handled = [c \in Conns |-> <<>>] /\ replies = [c \in Conns |-> <<>>]
    BY DEF Init
  <2> QED BY <2>2, <2>3, <2>4 DEF Sessions!Init, Channels, Stages, Partials
<1>2. TypeOK /\ SlotsOK /\ SessionsOK /\ [Next]_vars => [Sessions!Next]_(Sessions!vars)
  <2> SUFFICES ASSUME TypeOK, SlotsOK, SessionsOK, [Next]_vars
               PROVE  Sessions!Next \/ UNCHANGED Sessions!vars
    OBVIOUS
  <2>1. TypeOK' /\ SlotsOK' /\ Ended
    BY TypeStep, SlotsStep DEF SessionsOK
  <2>2. CASE ~Running
    <3>1. UNCHANGED vars
      BY <2>1, <2>2, EndedStays
    <3>2. UNCHANGED <<tcp, port, handled, replies>>
      BY <3>1 DEF vars, wire, history
    <3>3. \A c \in Conns : tcp[c] # "open" /\ tcp'[c] # "open"
      BY <2>1, <2>2, <3>2 DEF Ended
    <3>4. Channels' = Channels
      BY <3>2 DEF Channels
    <3>5. Stages' = Stages
      BY <3>2 DEF Stages, StageOf
    <3>6. \A c \in Conns : PartialOf(c) = <<>> /\ PartialOf(c)' = <<>>
      BY <3>3 DEF PartialOf
    <3>7. Partials' = Partials
      BY <3>6 DEF Partials
    <3> QED BY <3>2, <3>4, <3>5, <3>7 DEF Sessions!vars, Channels, Stages, Partials
  <2>3. CASE Running
    <3>1. SessionMove
      BY <2>1, <2>3, SessionStep
    <3>2. CASE Stopped
      BY <2>1, <3>2, StoppedMaps DEF Sessions!Next
    <3>3. CASE \A d \in Conns : Untouched(d)
      BY <2>1, <3>3, StutterMaps
    <3>4. ASSUME NEW c \in Conns, OneSession(c), \A d \in Conns \ {c} : Untouched(d)
          PROVE  Sessions!Next \/ UNCHANGED Sessions!vars
      <4>1. CASE Untouched(c)
        <5>1. \A d \in Conns : Untouched(d)
          BY <3>4, <4>1
        <5> QED BY <2>1, <5>1, StutterMaps
      <4>2. CASE Moved(c, "away", "served") \/ Moved(c, "away", "gone") \/ Moved(c, "served", "gone")
        BY <2>1, <3>4, <4>2, MovedMaps DEF Sessions!Next
      <4>3. ASSUME NEW b \in Byte, Took(c, b) PROVE Sessions!Next
        BY <2>1, <3>4, <4>3, TookMaps, SameFraming DEF Sessions!Next
      <4>4. CASE Replied(c)
        <5>1. Answered(c)
          BY DEF SessionsOK
        <5> QED BY <2>1, <3>4, <4>4, <5>1, RepliedMaps DEF Sessions!Next
      <4> QED BY <3>4, <4>1, <4>2, <4>3, <4>4 DEF OneSession
    <3> QED BY <3>1, <3>2, <3>3, <3>4 DEF SessionMove
  <2> QED BY <2>2, <2>3
<1> QED BY <1>1, <1>2, Inductive, SessionsInvariant, PTL DEF Spec, ServesLines, Sessions!Spec
=============================================================================
