----------------------------- MODULE PollServer -----------------------------
(***************************************************************************)
(* The event loop of the RigCTL server: net_poll(), handle_new_connection()*)
(* and receive_from_peer() of network.c, the loop of main() that calls     *)
(* them, and the signal handler that ends the process.  The server is one  *)
(* thread; its clients and the TCP stack of the kernel run between any two *)
(* of its system calls, so a step of the server is what it does between    *)
(* two system calls.                                                       *)
(*                                                                         *)
(* A socket is known to the server by its descriptor only.  A descriptor   *)
(* is modelled by the listening socket or the connection it refers to;     *)
(* reuse of a descriptor number is not modelled.                           *)
(***************************************************************************)
EXTENDS Framing

CONSTANTS
    Conns,        \* the connections clients may open, each at most once
    ListenOrder,  \* the listening sockets, in the order they were opened
    RigSock,      \* socket_rigctl, the listening socket of channel 1
    CatSock,      \* socket_comm, the listening socket of channel 2
    NoSocket,     \* NO_SOCKET
    Beyond,       \* whatever lies in memory behind net_fds[]
    MaxFds,       \* MAX_CLIENT_CONNECTIONS, the size of net_fds[] and peer[]
    Streams,      \* the byte sequences a client may send
    SndBuf,       \* answers the kernel buffers for a client that does not read
    MayReset,     \* the connections whose client may abort them (TCP RST)
    Signals       \* a SIGINT may arrive, a system call of the loop may fail

ASSUME PollAssumption ==
    /\ ListenOrder \in { <<RigSock>>, <<CatSock>>, <<RigSock, CatSock>> }
    /\ RigSock # CatSock
    /\ NoSocket # Beyond
    /\ {RigSock, CatSock, NoSocket, Beyond} \cap Conns = {}
    /\ {RigSock, CatSock} \cap {NoSocket, Beyond} = {}
    /\ MaxFds \in Nat /\ MaxFds >= 2
    /\ Streams \subseteq Seq(Byte)
    /\ SndBuf \in Nat \ {0}
    /\ MayReset \subseteq Conns
    /\ Signals \in BOOLEAN

VARIABLES
    net_fd,          \* net_fds[].fd, with one more slot for what lies behind
    net_revents,     \* net_fds[].revents
    net_nfds,        \* number of slots in use
    peer,            \* peer[], the framing state of each slot
    compress_array,  \* a slot was vacated in this round
    pc,              \* where the thread is
    idx,             \* i of net_poll(), idx of receive_from_peer()
    rx,              \* rxbuf[0..pos-1], pos a local of receive_from_peer()
    close_conn,      \* local of receive_from_peer()
    txbuf,           \* peer_txbuf, as the request it answers
    why              \* what ended the process

VARIABLES
    tcp,      \* life cycle of each connection
    port,     \* the listening socket it was made to
    script,   \* bytes the client has not sent yet
    input,    \* bytes received by the kernel and not yet read
    fin,      \* the client closed its side
    rst,      \* the client aborted the connection
    unread    \* answers the client has not read

VARIABLES     \* histories, for the properties
    got,      \* bytes read from each connection
    handled,  \* requests handled for each connection
    replies   \* answers sent to each connection, as the request answered

tables  == <<net_fd, net_revents, net_nfds, peer, compress_array>>
locals  == <<idx, rx, close_conn, txbuf>>
wire    == <<tcp, port, script, input, fin, rst, unread>>
history == <<got, handled, replies>>
vars    == <<tables, locals, pc, why, wire, history>>

Listening == {ListenOrder[k] : k \in DOMAIN ListenOrder}
Slot      == 0..(MaxFds - 1)
InUse     == 0..(net_nfds - 1)
Fd        == Conns \cup Listening \cup {NoSocket}
Chan(s)   == IF s = RigSock THEN 1 ELSE 2
Phase     == {"poll", "scan", "recv", "send", "compress", "exit"}

TypeOK ==
    /\ net_fd \in [0..MaxFds -> Fd \cup {Beyond}]
    /\ net_revents \in [Slot -> {"none", "in", "err"}]
    /\ net_nfds \in 0..MaxFds
    /\ peer \in [0..MaxFds -> [channel : 0..2, rx : Seq(Byte \cup {Beyond})]]
    /\ compress_array \in BOOLEAN
    /\ pc \in Phase
    /\ idx \in 0..MaxFds
    /\ rx \in Seq(Byte)
    /\ close_conn \in BOOLEAN
    /\ txbuf \in Seq(Byte)
    /\ why \in {"none", "poll", "accept", "sigint", "sigpipe", "crash"}
    /\ tcp \in [Conns -> {"idle", "queued", "open", "closed"}]
    /\ port \in [Conns -> Listening]
    /\ script \in [Conns -> Seq(Byte)]
    /\ input \in [Conns -> Seq(Byte)]
    /\ fin \in [Conns -> BOOLEAN]
    /\ rst \in [Conns -> BOOLEAN]
    /\ unread \in [Conns -> 0..SndBuf]
    /\ got \in [Conns -> Seq(Byte)]
    /\ handled \in [Conns -> Seq(Seq(Byte))]
    /\ replies \in [Conns -> Seq(Seq(Byte))]

(* The state net_start_listen() leaves behind, and static storage. *)
Init ==
    /\ net_fd = [s \in 0..MaxFds |->
                    IF s < Len(ListenOrder) THEN ListenOrder[s+1]
                    ELSE IF s = MaxFds THEN Beyond ELSE NoSocket]
    /\ net_revents = [s \in Slot |-> "none"]
    /\ net_nfds = Len(ListenOrder)
    /\ peer = [s \in 0..MaxFds |->
                  [channel |-> 0, rx |-> IF s = MaxFds THEN <<Beyond>> ELSE <<>>]]
    /\ compress_array = FALSE
    /\ pc = "poll" /\ why = "none"
    /\ idx = 0 /\ rx = <<>> /\ close_conn = FALSE /\ txbuf = <<>>
    /\ tcp = [c \in Conns |-> "idle"]
    /\ port \in [Conns -> Listening]
    /\ script \in [Conns -> Streams]
    /\ input = [c \in Conns |-> <<>>]
    /\ fin = [c \in Conns |-> FALSE]
    /\ rst = [c \in Conns |-> FALSE]
    /\ unread = [c \in Conns |-> 0]
    /\ got = [c \in Conns |-> <<>>]
    /\ handled = [c \in Conns |-> <<>>]
    /\ replies = [c \in Conns |-> <<>>]

----------------------------------------------------------------------------
(* Clients and the kernel *)

Reachable(c) == tcp[c] \in {"queued", "open"} /\ ~fin[c] /\ ~rst[c]

Connect(c) ==
    /\ tcp[c] = "idle" /\ pc # "exit"
    /\ tcp' = [tcp EXCEPT ![c] = "queued"]
    /\ UNCHANGED <<tables, locals, pc, why, port, script, input, fin, rst, unread, history>>

ClientSend(c) ==
    /\ Reachable(c) /\ script[c] # <<>>
    /\ input' = [input EXCEPT ![c] = Append(@, Head(script[c]))]
    /\ script' = [script EXCEPT ![c] = Tail(@)]
    /\ UNCHANGED <<tables, locals, pc, why, tcp, port, fin, rst, unread, history>>

ClientRead(c) ==
    /\ tcp[c] = "open" /\ ~rst[c] /\ unread[c] > 0
    /\ unread' = [unread EXCEPT ![c] = 0]
    /\ UNCHANGED <<tables, locals, pc, why, tcp, port, script, input, fin, rst, history>>

ClientClose(c) ==
    /\ Reachable(c)
    /\ fin' = [fin EXCEPT ![c] = TRUE]
    /\ UNCHANGED <<tables, locals, pc, why, tcp, port, script, input, rst, unread, history>>

(* A client aborts; or it has closed its socket, and an answer that comes  *)
(* after that is met with a reset by its machine.                          *)
ClientReset(c) ==
    /\ c \in MayReset \/ (fin[c] /\ unread[c] > 0)
    /\ tcp[c] \in {"queued", "open"} /\ ~rst[c]
    /\ rst' = [rst EXCEPT ![c] = TRUE]
    /\ UNCHANGED <<tables, locals, pc, why, tcp, port, script, input, fin, unread, history>>

Client(c) == Connect(c) \/ ClientSend(c) \/ ClientRead(c) \/ ClientClose(c) \/ ClientReset(c)

(* The process ends: every socket it holds is closed. *)
Exit(reason) ==
    /\ pc' = "exit" /\ why' = reason
    /\ tcp' = [c \in Conns |-> IF tcp[c] \in {"queued", "open"} THEN "closed" ELSE tcp[c]]

(* SIGINT is handled at any point of the loop. *)
Interrupt ==
    /\ Signals /\ pc # "exit"
    /\ Exit("sigint")
    /\ UNCHANGED <<tables, locals, port, script, input, fin, rst, unread, history>>

----------------------------------------------------------------------------
(* net_poll(): waiting *)

(* What poll() reports of a descriptor; "err" is anything but POLLIN alone. *)
PollEvents(fd) ==
    IF fd \in Conns
    THEN IF rst[fd] THEN "err" ELSE IF input[fd] # <<>> \/ fin[fd] THEN "in" ELSE "none"
    ELSE IF \E c \in Conns : tcp[c] = "queued" /\ port[c] = fd THEN "in" ELSE "none"

Ready == \E s \in InUse : PollEvents(net_fd[s]) # "none"

(* poll() writes the slots in use only. *)
Polled == [s \in Slot |-> IF s \in InUse THEN PollEvents(net_fd[s]) ELSE net_revents[s]]

(* Mutant: the scan starts behind the first slot. *)
PollSkippingFirst ==
    /\ pc = "poll" /\ Ready
    /\ net_revents' = Polled
    /\ compress_array' = FALSE
    /\ idx' = 1
    /\ pc' = "scan"
    /\ UNCHANGED <<net_fd, net_nfds, peer, rx, close_conn, txbuf, why, wire, history>>

Poll ==
    /\ pc = "poll" /\ Ready
    /\ net_revents' = Polled
    /\ compress_array' = FALSE
    /\ idx' = 0
    /\ pc' = "scan"
    /\ UNCHANGED <<net_fd, net_nfds, peer, rx, close_conn, txbuf, why, wire, history>>

PollTimeout ==
    /\ pc = "poll" /\ ~Ready
    /\ net_revents' = Polled
    /\ UNCHANGED <<net_fd, net_nfds, peer, compress_array, locals, pc, why, wire, history>>

PollFails ==
    /\ Signals /\ pc = "poll"
    /\ Exit("poll")
    /\ UNCHANGED <<tables, locals, port, script, input, fin, rst, unread, history>>

----------------------------------------------------------------------------
(* net_poll(): the scan over net_fds[] *)

Scanning == pc = "scan" /\ idx < net_nfds

(* Mutant: the slot is vacated and the compression forgotten. *)
VacateQuietly ==
    /\ tcp' = [c \in Conns |-> IF c = net_fd[idx] THEN "closed" ELSE tcp[c]]
    /\ net_fd' = [net_fd EXCEPT ![idx] = NoSocket]
    /\ UNCHANGED compress_array

(* close() of the descriptor in slot idx, and the note to compress. *)
Vacate ==
    /\ tcp' = [c \in Conns |-> IF c = net_fd[idx] THEN "closed" ELSE tcp[c]]
    /\ net_fd' = [net_fd EXCEPT ![idx] = NoSocket]
    /\ compress_array' = TRUE

SkipSlot ==
    /\ Scanning /\ net_revents[idx] = "none"
    /\ idx' = idx + 1
    /\ UNCHANGED <<tables, rx, close_conn, txbuf, pc, why, wire, history>>

DropErrored ==
    /\ Scanning /\ net_revents[idx] = "err"
    /\ Vacate
    /\ idx' = idx + 1
    /\ UNCHANGED <<net_revents, net_nfds, peer, rx, close_conn, txbuf, pc, why,
                   port, script, input, fin, rst, unread, history>>

(* Mutant: one slot too few. *)
FullEarly == net_nfds >= MaxFds - 1

(* Mutant: one slot too many. *)
FullLate == net_nfds > MaxFds

Full == net_nfds >= MaxFds

(* Mutant: the new slot is filled and not counted. *)
InstallUncounted(c) ==
    /\ net_fd' = [net_fd EXCEPT ![net_nfds] = c]
    /\ peer' = [peer EXCEPT ![net_nfds] = [channel |-> Chan(net_fd[idx]), rx |-> <<>>]]
    /\ UNCHANGED <<net_nfds, net_revents>>

(* handle_new_connection(): the slot's revents are whatever they were. *)
Install(c) ==
    /\ net_fd' = [net_fd EXCEPT ![net_nfds] = c]
    /\ peer' = [peer EXCEPT ![net_nfds] = [channel |-> Chan(net_fd[idx]), rx |-> <<>>]]
    /\ net_nfds' = net_nfds + 1
    /\ UNCHANGED net_revents

(* Mutant: accept() again and again, as one does on a nonblocking socket. *)
AcceptDraining(c) ==
    /\ Scanning /\ net_revents[idx] = "in" /\ net_fd[idx] \in Listening
    /\ tcp[c] = "queued" /\ port[c] = net_fd[idx]
    /\ IF Full
       THEN tcp' = [tcp EXCEPT ![c] = "closed"] /\ UNCHANGED <<net_fd, peer, net_nfds, net_revents>>
       ELSE tcp' = [tcp EXCEPT ![c] = "open"] /\ Install(c)
    /\ UNCHANGED <<compress_array, idx, rx, close_conn, txbuf, pc, why,
                   port, script, input, fin, rst, unread, history>>

AcceptConnection(c) ==
    /\ Scanning /\ net_revents[idx] = "in" /\ net_fd[idx] \in Listening
    /\ tcp[c] = "queued" /\ port[c] = net_fd[idx]
    /\ IF Full
       THEN tcp' = [tcp EXCEPT ![c] = "closed"] /\ UNCHANGED <<net_fd, peer, net_nfds, net_revents>>
       ELSE tcp' = [tcp EXCEPT ![c] = "open"] /\ Install(c)
    /\ idx' = idx + 1
    /\ UNCHANGED <<compress_array, rx, close_conn, txbuf, pc, why,
                   port, script, input, fin, rst, unread, history>>

AcceptFails ==
    /\ Signals /\ Scanning /\ net_revents[idx] = "in" /\ net_fd[idx] \in Listening
    /\ Exit("accept")
    /\ UNCHANGED <<tables, locals, port, script, input, fin, rst, unread, history>>

BeginReceive ==
    /\ Scanning /\ net_revents[idx] = "in" /\ net_fd[idx] \notin Listening
    /\ rx' = peer[idx].rx
    /\ close_conn' = FALSE
    /\ pc' = "recv"
    /\ UNCHANGED <<tables, idx, txbuf, why, wire, history>>

ScanDone ==
    /\ pc = "scan" /\ idx >= net_nfds
    /\ pc' = IF compress_array THEN "compress" ELSE "poll"
    /\ idx' = 0
    /\ UNCHANGED <<tables, rx, close_conn, txbuf, why, wire, history>>

----------------------------------------------------------------------------
(* receive_from_peer() *)

Sock == net_fd[idx]
Chn  == peer[idx].channel

(* Mutant: receiving goes on while an answer waits to be sent. *)
ReceivedWhileSending(c, b) ==
    /\ pc \in {"recv", "send"} /\ c = Sock
    /\ input[c] # <<>> /\ b = Head(input[c])
    /\ input' = [input EXCEPT ![c] = Tail(@)]
    /\ got' = [got EXCEPT ![c] = Append(@, b)]

(* recv() returned one byte. *)
Received(c, b) ==
    /\ pc = "recv" /\ c = Sock
    /\ input[c] # <<>> /\ b = Head(input[c])
    /\ input' = [input EXCEPT ![c] = Tail(@)]
    /\ got' = [got EXCEPT ![c] = Append(@, b)]

HasRoom == Len(rx) < RxSize

StoreByte(c, b) ==
    /\ Received(c, b)
    /\ HasRoom /\ ~Completes(Chn, b, rx) /\ Accepts(Chn, b)
    /\ rx' = Append(rx, b)
    /\ UNCHANGED <<tables, idx, close_conn, txbuf, pc, why,
                   tcp, port, script, fin, rst, unread, handled, replies>>

DiscardLine(c, b) ==
    /\ Received(c, b)
    /\ ~HasRoom \/ (~Completes(Chn, b, rx) /\ ~Accepts(Chn, b))
    /\ rx' = <<>>
    /\ UNCHANGED <<tables, idx, close_conn, txbuf, pc, why,
                   tcp, port, script, fin, rst, unread, handled, replies>>

(* rigctl_req() or commcat_req(); a call to close leaves the loop running. *)
HandleRequest(c, b) ==
    /\ Received(c, b)
    /\ HasRoom /\ Completes(Chn, b, rx) /\ Outcome(Chn, rx) # "crash"
    /\ handled' = [handled EXCEPT ![c] = Append(@, rx)]
    /\ close_conn' = (close_conn \/ Outcome(Chn, rx) = "close")
    /\ IF Outcome(Chn, rx) = "answer"
       THEN pc' = "send" /\ txbuf' = rx
       ELSE UNCHANGED <<pc, txbuf>>
    /\ rx' = <<>>
    /\ UNCHANGED <<tables, idx, why, tcp, port, script, fin, rst, unread, replies>>

HandlerCrashes(c, b) ==
    /\ Received(c, b)
    /\ HasRoom /\ Completes(Chn, b, rx) /\ Outcome(Chn, rx) = "crash"
    /\ Exit("crash")
    /\ UNCHANGED <<tables, locals, port, script, fin, rst, unread, handled, replies>>

(* Mutant: a send() that does not wait, its EWOULDBLOCK ignored. *)
SendOrDrop(c) ==
    /\ pc = "send" /\ c = Sock /\ ~rst[c]
    /\ IF unread[c] < SndBuf
       THEN /\ replies' = [replies EXCEPT ![c] = Append(@, txbuf)]
            /\ unread' = [unread EXCEPT ![c] = @ + 1]
       ELSE UNCHANGED <<replies, unread>>
    /\ pc' = "recv" /\ txbuf' = <<>>
    /\ UNCHANGED <<tables, idx, rx, close_conn, why, tcp, port, script, input, fin, rst, got, handled>>

(* send(): a blocking call, it waits while the client's buffers are full. *)
SendReply(c) ==
    /\ pc = "send" /\ c = Sock
    /\ ~rst[c] /\ unread[c] < SndBuf
    /\ replies' = [replies EXCEPT ![c] = Append(@, txbuf)]
    /\ unread' = [unread EXCEPT ![c] = @ + 1]
    /\ pc' = "recv" /\ txbuf' = <<>>
    /\ UNCHANGED <<tables, idx, rx, close_conn, why, tcp, port, script, input, fin, rst, got, handled>>

SendFails(c) ==
    /\ pc = "send" /\ c = Sock /\ rst[c]
    /\ close_conn' = TRUE
    /\ pc' = "recv" /\ txbuf' = <<>>
    /\ UNCHANGED <<tables, idx, rx, why, wire, history>>

SendSigpipe(c) ==
    /\ pc = "send" /\ c = Sock /\ rst[c]
    /\ Exit("sigpipe")
    /\ UNCHANGED <<tables, locals, port, script, input, fin, rst, unread, history>>

(* Mutant: a recv() that would block is taken for an error. *)
CloseWhenDry(c) == TRUE

(* Mutant: an end of file is ignored. *)
CloseUnlessEof(c) == close_conn \/ rst[c]

(* recv() failed with another error than EWOULDBLOCK, or returned 0. *)
MustClose(c) == close_conn \/ fin[c] \/ rst[c]

(* Mutant: the end of a connection is looked for before its last bytes. *)
RecvDoneAtHangup(c) ==
    /\ pc = "recv" /\ c = Sock /\ (input[c] = <<>> \/ fin[c])
    /\ peer' = [peer EXCEPT ![idx].rx = rx]
    /\ IF MustClose(c)
       THEN Vacate
       ELSE UNCHANGED <<net_fd, compress_array, tcp>>
    /\ idx' = idx + 1 /\ pc' = "scan"
    /\ rx' = <<>> /\ close_conn' = FALSE
    /\ UNCHANGED <<net_revents, net_nfds, txbuf, why, port, script, input, fin, rst, unread, history>>

(* recv() found no byte: end of file, an error, or nothing to read yet. *)
RecvDone(c) ==
    /\ pc = "recv" /\ c = Sock /\ input[c] = <<>>
    /\ peer' = [peer EXCEPT ![idx].rx = rx]
    /\ IF MustClose(c)
       THEN Vacate
       ELSE UNCHANGED <<net_fd, compress_array, tcp>>
    /\ idx' = idx + 1 /\ pc' = "scan"
    /\ rx' = <<>> /\ close_conn' = FALSE
    /\ UNCHANGED <<net_revents, net_nfds, txbuf, why, port, script, input, fin, rst, unread, history>>

Receive(c) ==
    \/ \E b \in Byte : StoreByte(c, b) \/ DiscardLine(c, b) \/ HandleRequest(c, b) \/ HandlerCrashes(c, b)
    \/ SendReply(c) \/ SendFails(c) \/ SendSigpipe(c) \/ RecvDone(c)

----------------------------------------------------------------------------
(* net_poll(): compressing net_fds[] and peer[] *)

(* Mutant: the framing state stays behind when the sockets move down. *)
CloseGapOfSockets ==
    /\ pc = "compress" /\ idx < net_nfds /\ net_fd[idx] = NoSocket
    /\ net_fd' = [s \in 0..MaxFds |-> IF s \in idx..(net_nfds - 1) THEN net_fd[s+1] ELSE net_fd[s]]
    /\ net_nfds' = net_nfds - 1
    /\ UNCHANGED <<net_revents, peer, compress_array, locals, pc, why, wire, history>>

(* Mutant: i is not stepped back, the slot moved in is not looked at. *)
CloseGapAndStep ==
    /\ pc = "compress" /\ idx < net_nfds /\ net_fd[idx] = NoSocket
    /\ net_fd' = [s \in 0..MaxFds |-> IF s \in idx..(net_nfds - 1) THEN net_fd[s+1] ELSE net_fd[s]]
    /\ peer' = [s \in 0..MaxFds |-> IF s \in idx..(net_nfds - 1) THEN peer[s+1] ELSE peer[s]]
    /\ net_nfds' = net_nfds - 1 /\ idx' = idx + 1
    /\ UNCHANGED <<net_revents, compress_array, rx, close_conn, txbuf, pc, why, wire, history>>

(* One round of the outer loop; the shift reads the slot behind the last one. *)
CloseGap ==
    /\ pc = "compress" /\ idx < net_nfds /\ net_fd[idx] = NoSocket
    /\ net_fd' = [s \in 0..MaxFds |-> IF s \in idx..(net_nfds - 1) THEN net_fd[s+1] ELSE net_fd[s]]
    /\ peer' = [s \in 0..MaxFds |-> IF s \in idx..(net_nfds - 1) THEN peer[s+1] ELSE peer[s]]
    /\ net_nfds' = net_nfds - 1
    /\ UNCHANGED <<net_revents, compress_array, locals, pc, why, wire, history>>

KeepSlot ==
    /\ pc = "compress" /\ idx < net_nfds /\ net_fd[idx] # NoSocket
    /\ idx' = idx + 1
    /\ UNCHANGED <<tables, rx, close_conn, txbuf, pc, why, wire, history>>

CompressDone ==
    /\ pc = "compress" /\ idx >= net_nfds
    /\ pc' = "poll" /\ idx' = 0
    /\ UNCHANGED <<tables, rx, close_conn, txbuf, why, wire, history>>

----------------------------------------------------------------------------
Server ==
    \/ Poll \/ PollTimeout \/ PollFails
    \/ SkipSlot \/ DropErrored \/ AcceptFails \/ BeginReceive \/ ScanDone
    \/ \E c \in Conns : AcceptConnection(c) \/ Receive(c)
    \/ CloseGap \/ KeepSlot \/ CompressDone

Next == Server \/ Interrupt \/ \E c \in Conns : Client(c)

Spec == Init /\ [][Next]_vars

(* The process is scheduled: as long as it is not blocked it goes on. *)
FairSpec == Spec /\ WF_vars(Server)

(* Clients that read the answers they are sent. *)
PoliteSpec == FairSpec /\ \A c \in Conns : WF_vars(ClientRead(c))

----------------------------------------------------------------------------
(* Properties *)

Running == pc # "exit"
Served  == {c \in Conns : tcp[c] = "open"}

(* The connection receive_from_peer() is working for. *)
Current(c) == pc \in {"recv", "send"} /\ net_fd[idx] = c

(***************************************************************************)
(* net_fds[], net_nfds and peer[] agree with the sockets that are open:    *)
(* every listening socket keeps its slot at the front, every connection    *)
(* accepted and not yet closed has exactly one slot, that slot carries its *)
(* channel, receive_from_peer() works on such a slot, no slot in use holds *)
(* memory from behind the arrays, and a slot without a socket exists only  *)
(* between the close() and the compression.                                *)
(***************************************************************************)
ListenersFirst ==
    /\ Len(ListenOrder) <= net_nfds
    /\ \A k \in DOMAIN ListenOrder :
          net_fd[k-1] = ListenOrder[k] /\ net_revents[k-1] # "err"

ConnSlots ==
    \A s \in InUse : s >= Len(ListenOrder) =>
        /\ net_fd[s] \in Conns \cup {NoSocket}
        /\ net_fd[s] \in Conns =>
              /\ tcp[net_fd[s]] = "open"
              /\ peer[s].channel = Chan(port[net_fd[s]])
              /\ peer[s].rx \in Seq(Byte)

OneSlotEach ==
    /\ \A s, t \in InUse : net_fd[s] = net_fd[t] /\ net_fd[s] # NoSocket => s = t
    /\ \A c \in Served : \E s \in InUse : net_fd[s] = c

Gaps ==
    \A s \in InUse : net_fd[s] = NoSocket =>
        /\ compress_array /\ pc \in {"scan", "recv", "send", "compress"}
        /\ IF pc = "compress" THEN s >= idx ELSE s < idx

Working ==
    /\ pc = "scan" => idx <= net_nfds
    /\ pc \in {"recv", "send"} => idx < net_nfds /\ net_fd[idx] \in Conns

SlotsOK == Running => ListenersFirst /\ ConnSlots /\ OneSlotEach /\ Gaps /\ Working

(***************************************************************************)
(* The bytewise framing of receive_from_peer(), spread over many wakeups   *)
(* and slots, finds exactly the requests of the stream as a whole, as long *)
(* as no run of accepted bytes overflows rxbuf.                            *)
(***************************************************************************)
FramesRequests ==
    \A c \in Conns :
        FitsBuffer(Chan(port[c]), got[c]) /\ why # "crash"
            => handled[c] = RequestsOf(Chan(port[c]), got[c])

(***************************************************************************)
(* Between two calls of receive_from_peer() no answer is owed: every       *)
(* request that has one was answered, once and in order.                   *)
(***************************************************************************)
AnswersAll ==
    \A c \in Served :
        ~rst[c] /\ ~(pc = "send" /\ Current(c))
            => replies[c] = Answerable(Chan(port[c]), handled[c])

(***************************************************************************)
(* The listening sockets are blocking, so accept() must be called only     *)
(* when a connection is waiting: otherwise the loop hangs in it.           *)
(***************************************************************************)
AcceptNeverBlocks ==
    Scanning /\ net_revents[idx] = "in" /\ net_fd[idx] \in Listening
        => \E c \in Conns : tcp[c] = "queued" /\ port[c] = net_fd[idx]

(***************************************************************************)
(* handle_new_connection() turns a client away only when all the slots the *)
(* listening sockets leave are taken by connections that are still open.   *)
(***************************************************************************)
RefusesOnlyWhenFull ==
    [][\A c \in Conns :
          tcp[c] = "queued" /\ tcp'[c] = "closed" /\ Running'
              => Cardinality(Served) + Len(ListenOrder) = MaxFds]_vars

(***************************************************************************)
(* The server closes a connection for a reason of that connection: its     *)
(* client left, broke, or asked with 'q'.                                  *)
(***************************************************************************)
AskedToQuit(c) == \E k \in DOMAIN handled[c] : Outcome(Chan(port[c]), handled[c][k]) = "close"

ClosesForCause ==
    [][\A c \in Served :
          tcp'[c] = "closed" /\ Running' => fin[c] \/ rst[c] \/ AskedToQuit(c)]_vars

(***************************************************************************)
(* Every byte that reached the server is read, every connection that waits *)
(* is accepted or refused, and every client that left has its slot freed,  *)
(* unless the process ends.                                                *)
(***************************************************************************)
EventuallyRead ==
    \A c \in Conns : (tcp[c] = "open" /\ input[c] # <<>>) ~> (input[c] = <<>> \/ tcp[c] = "closed")

EventuallyAccepted == \A c \in Conns : (tcp[c] = "queued") ~> (tcp[c] # "queued")

EventuallyFreed == \A c \in Conns : (fin[c] \/ rst[c]) ~> (tcp[c] = "closed")

(***************************************************************************)
(* The loop, its slots and its shared buffers implement LineServer.        *)
(***************************************************************************)
StageOf(c) ==
    CASE tcp[c] \in {"idle", "queued"} -> "away"
      [] tcp[c] = "open"               -> "served"
      [] OTHER                         -> "gone"

PartialOf(c) ==
    IF tcp[c] # "open" THEN <<>>
    ELSE IF Current(c) THEN rx
    ELSE peer[CHOOSE s \in InUse : net_fd[s] = c].rx

Sessions == INSTANCE LineServer WITH
    channel <- [c \in Conns |-> Chan(port[c])],
    stage   <- [c \in Conns |-> StageOf(c)],
    partial <- [c \in Conns |-> PartialOf(c)]

ServesLines == Sessions!Spec
=============================================================================
