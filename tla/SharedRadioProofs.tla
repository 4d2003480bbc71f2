-------------------------- MODULE SharedRadioProofs --------------------------
(***************************************************************************)
(* The loop and the handlers together: the program implements both models  *)
(* it is made of, so what is proved of them holds here; the requests       *)
(* carried out for a client are those it sent; the answers that pass       *)
(* through the one transmit buffer reach the clients they are for, and are *)
(* true when they go out; and the settings are what the requests of all    *)
(* clients, in one order, have made of them.                               *)
(***************************************************************************)
EXTENDS SharedRadio, SessionProofs, StationProofs

(* The recursive function of Chosen, and the equations it satisfies.       *)
ChosenUpTo(s, T) ==
    CHOOSE upTo : upTo = [n \in 0..Len(s) |->
        IF n = 0 THEN <<>>
        ELSE IF n \in T THEN Append(upTo[n-1], s[n]) ELSE upTo[n-1]]

LEMMA ChosenEquations ==
    ASSUME NEW S, NEW s \in Seq(S), NEW T
    PROVE  LET upTo == ChosenUpTo(s, T)
           IN  /\ upTo \in [0..Len(s) -> Seq(S)]
               /\ upTo[0] = <<>>
               /\ \A n \in 1..Len(s) : upTo[n] = IF n \in T THEN Append(upTo[n-1], s[n]) ELSE upTo[n-1]
               /\ Chosen(s, T) = upTo[Len(s)]
<1> DEFINE h == [i \in 1..Len(s) |-> [v \in Seq(S) |-> IF i \in T THEN Append(v, s[i]) ELSE v]]
           body(f, n) == IF n = 0 THEN <<>>
                         ELSE IF n \in T THEN Append(f[n-1], s[n]) ELSE f[n-1]
<1>1. Len(s) \in Nat /\ \A i \in 1..Len(s) : s[i] \in S
  OBVIOUS
<1>2. h \in [1..Len(s) -> [Seq(S) -> Seq(S)]]
  BY <1>1
<1>3. <<>> \in Seq(S)
  OBVIOUS
<1>4. PICK f : /\ f \in [0..Len(s) -> Seq(S)]
               /\ f[0] = <<>> /\ \A i \in 1..Len(s) : f[i] = h[i][f[i-1]]
  <2> DEFINE X == Seq(S)
             n == Len(s)
             a == <<>>
  <2>1. n \in Nat /\ a \in X /\ h \in [1..n -> [X -> X]]
    BY <1>1, <1>2, <1>3
  <2> HIDE DEF h, X, n, a
  <2>2. \E f \in [0..n -> X] : f[0] = a /\ \A i \in 1..n : f[i] = h[i][f[i-1]]
    BY <2>1, RecursionExists
  <2> QED BY <2>2 DEF X, n, a
<1>5. \A i \in 1..Len(s) : f[i] = IF i \in T THEN Append(f[i-1], s[i]) ELSE f[i-1]
  <2> SUFFICES ASSUME NEW i \in 1..Len(s)
               PROVE  f[i] = IF i \in T THEN Append(f[i-1], s[i]) ELSE f[i-1]
    OBVIOUS
  <2>1. f[i-1] \in Seq(S)
    BY <1>4
  <2> QED BY <1>4, <2>1
<1>6. f = [n \in 0..Len(s) |-> body(f, n)]
  <2>1. f[0] = <<>>
    BY <1>4
  <2>2. \A n \in 0..Len(s) : f[n] = body(f, n)
    BY <1>1, <1>5, <2>1
  <2> HIDE DEF body
  <2> QED BY <1>4, <2>2
<1> DEFINE upTo == ChosenUpTo(s, T)
<1>7. upTo = [n \in 0..Len(s) |-> body(upTo, n)]
  BY <1>6 DEF ChosenUpTo
<1>8. \A n \in 0..Len(s) : upTo[n] = body(upTo, n)
  <2> HIDE DEF upTo, body
  <2> QED BY <1>7
<1>9. /\ upTo[0] = <<>>
      /\ \A n \in 1..Len(s) : upTo[n] = IF n \in T THEN Append(upTo[n-1], s[n]) ELSE upTo[n-1]
  <2> HIDE DEF upTo
  <2> QED BY <1>1, <1>8
<1>10. \A n \in 0..Len(s) : upTo[n] = f[n]
  <2> HIDE DEF upTo
  <2>1. \A i \in 1..Len(s) : upTo[i-1] = f[i-1] => upTo[i] = f[i]
    BY <1>5, <1>9
  <2>2. upTo[0] = f[0] /\ Len(s) \in Nat
    BY <1>1, <1>4, <1>9
  <2> QED BY <2>1, <2>2, RecursionUnique
<1>11. upTo \in [0..Len(s) -> Seq(S)]
  <2> HIDE DEF upTo
  <2> QED BY <1>4, <1>7, <1>10
<1>12. Chosen(s, T) = upTo[Len(s)]
  BY DEF Chosen, ChosenUpTo
<1> QED BY <1>9, <1>11, <1>12

(* One more element is chosen or not; which of the others are does not     *)
(* depend on it.                                                           *)
(* Two sets with the same of the positions up to n.                        *)
Agree(T, U, n) == \A i \in 1..n : i \in T <=> i \in U

LEMMA ChosenGrows ==
    ASSUME NEW S, NEW s \in Seq(S), NEW e \in S, NEW T, NEW U, Agree(T, U, Len(s))
    PROVE  /\ Chosen(s, T) \in Seq(S)
           /\ Chosen(s, T) = Chosen(s, U)
           /\ Chosen(Append(s, e), U) =
                 IF Len(s) + 1 \in U THEN Append(Chosen(s, T), e) ELSE Chosen(s, T)
<1> DEFINE t == Append(s, e)
           f == ChosenUpTo(s, T)
           g == ChosenUpTo(t, U)
           k == ChosenUpTo(s, U)
<1>0. \A i \in 1..Len(s) : i \in T <=> i \in U
  BY DEF Agree
<1>1. /\ t \in Seq(S) /\ Len(t) = Len(s) + 1 /\ t[Len(s) + 1] = e
      /\ Len(s) \in Nat /\ \A i \in 1..Len(s) : t[i] = s[i]
  OBVIOUS
<1>2. /\ f \in [0..Len(s) -> Seq(S)] /\ f[0] = <<>>
      /\ \A n \in 1..Len(s) : f[n] = IF n \in T THEN Append(f[n-1], s[n]) ELSE f[n-1]
      /\ Chosen(s, T) = f[Len(s)]
  BY ChosenEquations
<1>3. /\ g[0] = <<>>
      /\ \A n \in 1..Len(t) : g[n] = IF n \in U THEN Append(g[n-1], t[n]) ELSE g[n-1]
      /\ Chosen(t, U) = g[Len(t)]
  <2> HIDE DEF t
  <2> QED BY <1>1, ChosenEquations
<1>4. /\ k[0] = <<>>
      /\ \A n \in 1..Len(s) : k[n] = IF n \in U THEN Append(k[n-1], s[n]) ELSE k[n-1]
      /\ Chosen(s, U) = k[Len(s)]
  BY ChosenEquations
<1>5. \A n \in 0..Len(s) : f[n] = g[n]
  <2> HIDE DEF t, f, g
  <2>1. \A i \in 1..Len(s) : f[i-1] = g[i-1] => f[i] = g[i]
    <3> SUFFICES ASSUME NEW i \in 1..Len(s), f[i-1] = g[i-1] PROVE f[i] = g[i]
      OBVIOUS
    <3>1. i \in 1..Len(t) /\ t[i] = s[i]
      BY <1>1
    <3> QED BY <1>0, <1>2, <1>3, <3>1
  <2>2. f[0] = g[0] /\ Len(s) \in Nat
    BY <1>1, <1>2, <1>3
  <2> QED BY <2>1, <2>2, RecursionUnique
<1>6. \A n \in 0..Len(s) : f[n] = k[n]
  <2> HIDE DEF f, k
  <2>1. \A i \in 1..Len(s) : f[i-1] = k[i-1] => f[i] = k[i]
    BY <1>0, <1>2, <1>4
  <2>2. f[0] = k[0] /\ Len(s) \in Nat
    BY <1>1, <1>2, <1>4
  <2> QED BY <2>1, <2>2, RecursionUnique
<1>7. Chosen(t, U) = IF Len(s) + 1 \in U THEN Append(f[Len(s)], e) ELSE f[Len(s)]
  <2> HIDE DEF t, f, g
  <2>1. Len(t) \in 1..Len(t) /\ Len(t) - 1 = Len(s) /\ Len(s) \in 0..Len(s)
    BY <1>1
  <2> QED BY <1>1, <1>3, <1>5, <2>1
<1>8. Chosen(s, T) \in Seq(S) /\ Chosen(s, T) = Chosen(s, U)
  <2>1. Len(s) \in 0..Len(s)
    BY <1>1
  <2> HIDE DEF f, k
  <2> QED BY <1>2, <1>4, <1>6, <2>1
<1> QED BY <1>2, <1>7, <1>8

LEMMA ChosenNone ==
    ASSUME NEW T
    PROVE  Chosen(<<>>, T) = <<>>
<1> DEFINE e == <<>>
<1>1. PICK S : e \in Seq(S)
  OBVIOUS
<1>2. Len(e) = 0
  OBVIOUS
<1> HIDE DEF e
<1>3. /\ ChosenUpTo(e, T)[0] = <<>>
      /\ Chosen(e, T) = ChosenUpTo(e, T)[Len(e)]
  BY <1>1, ChosenEquations
<1>4. Chosen(e, T) = <<>>
  BY <1>2, <1>3
<1> QED BY <1>4 DEF e

----------------------------------------------------------------------------
(* A step of the program as a step of the loop. *)

(***************************************************************************)
(* The program while it serves is the loop of PollServer, whatever its     *)
(* handlers do: what is proved of Spec holds of it.                        *)
(***************************************************************************)
THEOREM LoopIsServer == SharedSpec => Spec
<1>1. SharedInit => Init
  BY DEF SharedInit
<1>2. [SharedNext]_allVars => [Next]_vars
  BY DEF SharedNext, ServerStep, Next, allVars
<1> QED BY <1>1, <1>2, PTL DEF SharedSpec, Spec

(* A step in which a request is completed, one in which an answer is sent, *)
(* and the others.                                                         *)
Completing(c) ==
    /\ pc = "recv" /\ c = Sock /\ Handles(c) /\ UNCHANGED <<port, tcp, rst, net_fd, idx, why, replies>>
    /\ \E r \in Line : /\ handled' = [handled EXCEPT ![c] = Append(@, r)]
                       /\ Outcome(Chn, r) # "crash"
                       /\ pc' = IF Outcome(Chn, r) = "answer" THEN "send" ELSE "recv"

Answering(c) ==
    /\ pc = "send" /\ pc' = "recv" /\ c = Sock /\ Sends(c)
    /\ UNCHANGED <<port, tcp, rst, net_fd, idx, why, handled>>

Quiet == UNCHANGED <<shared, port, handled, replies>> /\ (pc' = "send" => pc = "send")

LEMMA LinesAreBytes == Line \subseteq Seq(Byte)
<1>1. RxSize \in Nat
  BY FramingAssumption DEF FramingAssumption
<1> QED BY <1>1 DEF Line

LEMMA StepKinds ==
    ASSUME TypeOK, [SharedNext]_allVars
    PROVE  \/ \E c \in Conns : Completing(c) \/ Answering(c)
           \/ Quiet
<1>1. CASE UNCHANGED allVars
  BY <1>1 DEF allVars, vars, wire, history, Quiet
<1>2. ASSUME NEW c \in Conns, Client(c), UNCHANGED shared PROVE Quiet
  BY <1>2 DEF Client, Connect, ClientSend, ClientRead, ClientClose, ClientReset, history, Quiet
<1>3. CASE Interrupt /\ UNCHANGED shared
  BY <1>3 DEF Interrupt, Exit, history, Quiet
<1>4. CASE ServerStep
  <2>1. ASSUME NEW c \in Conns, NEW b \in Byte, HandleRequest(c, b) PROVE Completing(c)
    <3>1. /\ pc = "recv" /\ c = Sock /\ UNCHANGED <<port, tcp, rst, net_fd, idx, why, replies>>
          /\ handled' = [handled EXCEPT ![c] = Append(@, rx)] /\ rx \in Seq(Byte)
          /\ pc' = IF Outcome(Chn, rx) = "answer" THEN "send" ELSE "recv"
          /\ Outcome(Chn, rx) # "crash" /\ Len(rx) < RxSize /\ Len(rx) > 0
      BY <2>1 DEF HandleRequest, Received, tables, TypeOK, HasRoom, Completes
    <3>4. rx \in Line
      <4>1. RxSize \in Nat /\ Len(rx) \in Nat
        BY <3>1, FramingAssumption DEF FramingAssumption
      <4>2. rx \in [1..Len(rx) -> Byte] /\ Len(rx) \in 1..(RxSize - 1)
        BY <3>1, <4>1
      <4> QED BY <4>2 DEF Line
    <3>2. handled'[c] # handled[c] /\ \A d \in Conns \ {c} : handled'[d] = handled[d]
      BY <3>1 DEF TypeOK
    <3>3. Handles(c)
      BY <1>4, <3>1, <3>2 DEF ServerStep, Handles, Sends
    <3> QED BY <3>1, <3>3, <3>4 DEF Completing
  <2>2. ASSUME NEW c \in Conns, SendReply(c) PROVE Answering(c)
    <3>1. /\ pc = "send" /\ pc' = "recv" /\ c = Sock /\ handled' = handled
          /\ UNCHANGED <<port, tcp, rst, net_fd, idx, why>>
          /\ replies' = [replies EXCEPT ![c] = Append(@, txbuf)] /\ txbuf \in Seq(Byte)
      BY <2>2 DEF SendReply, tables, TypeOK
    <3>2. replies'[c] # replies[c] /\ \A d \in Conns \ {c} : replies'[d] = replies[d]
      BY <3>1 DEF TypeOK
    <3>3. Sends(c)
      BY <1>4, <3>1, <3>2 DEF ServerStep, Handles, Sends
    <3> QED BY <3>1, <3>3 DEF Answering
  <2>3. ASSUME \A c \in Conns : ~SendReply(c) /\ \A b \in Byte : ~HandleRequest(c, b)
        PROVE  Quiet
    <3>1. UNCHANGED <<port, handled, replies>> /\ (pc' = "send" => pc = "send")
      BY <1>4, <2>3 DEF ServerStep, Server, Receive, Poll, PollTimeout, PollFails, SkipSlot,
         DropErrored, AcceptFails, BeginReceive, ScanDone, AcceptConnection, StoreByte, DiscardLine,
         HandlerCrashes, SendFails, SendSigpipe, RecvDone, CloseGap, KeepSlot, CompressDone,
         Exit, wire, history, Received, locals
    <3>2. UNCHANGED shared
      BY <1>4, <3>1 DEF ServerStep, Handles, Sends
    <3> QED BY <3>1, <3>2 DEF Quiet
  <2> QED BY <2>1, <2>2, <2>3
<1> QED BY <1>1, <1>2, <1>3, <1>4 DEF SharedNext

----------------------------------------------------------------------------
(* The requests carried out, against those that were sent. *)

JournalOK == \E S : journal \in Seq(S)

(* The handlers record the request they were called with. *)
LEMMA RigRecords ==
    ASSUME NEW q, RigRequest(q)
    PROVE  answer'.cmd = q.cmd /\ answer'.parm = q.parm
<1>1. Rig!rigctl_req(q)
  BY DEF RigRequest
<1> QED
  BY <1>1 DEF Rig!rigctl_req, Rig!Answer, Rig!Says, Rig!Reports, Rig!Rejects,
     Rig!cbRigCTLChkVFO, Rig!cbRigCTLDumpState, Rig!cbRigCTLGetPowerState,
     Rig!cbRigCTLGetVFOinfo, Rig!cbRigCTLGetLockMode, Rig!cbRigCTLGetFreq,
     Rig!cbRigCTLGetVFO, Rig!cbRigCTLGetMode, Rig!cbRigCTLGetPTT,
     Rig!cbRigCTLGetSplitVFO, Rig!cbRigCTLGetSplitMode, Rig!cbRigCTLGetSplitFreq,
     Rig!cbRigCTLGetRit, Rig!cbRigCTLGetXit, Rig!cbRigCTLGetFullInfo,
     Rig!cbRigCTLSetSplitMode, Rig!cbRigCTLGetFunc, Rig!NotFound,
     Rig!cbRigCTLSetLockMode, Rig!cbRigCTLSetFreq, Rig!cbRigCTLSetVFO,
     Rig!cbRigCTLSetMode, Rig!cbRigCTLSetPTT, Rig!cbRigCTLSetSplitVFO,
     Rig!cbRigCTLSetSplitFreq, Rig!cbRigCTLSetRit, Rig!cbRigCTLSetXit,
     Rig!cbRigCTLSetFunc

LEMMA CatRecords ==
    ASSUME NEW q, CatRequest(q)
    PROVE  answer'.cmd = q.cmd /\ answer'.parm = q.parm
<1>1. Cat!commcat_req(q)
  BY DEF CatRequest
<1> QED
  BY <1>1 DEF Cat!commcat_req, Cat!Says, Cat!Reads, Cat!Sets, Cat!Idle, Cat!TunesVfo,
     Cat!cbReqFA, Cat!cbReqFB, Cat!cbReqFR, Cat!cbReqFT, Cat!cbReqIF,
     Cat!cbReqMD, Cat!cbReqRD, Cat!cbReqRU, Cat!cbReqRT, Cat!cbReqXT,
     Cat!cbReqRX, Cat!cbReqTX, Cat!cbReqAG0, Cat!cbReqAI, Cat!cbReqPC,
     Cat!cbReqIDorSM, Cat!cbReqKSorNB, Cat!NotFound

(* The handler of a channel runs on a request. *)
Runs(r) == IF Chn = 1 THEN RigRequest(Meaning(1, r)) ELSE CatRequest(Meaning(2, r))

(* What a completed request does to the journal. *)
LEMMA CompletingIs ==
    ASSUME TypeOK, SlotsOK, NEW c \in Conns, Completing(c)
    PROVE  /\ Chn = Chan(port[c]) /\ Chn \in Channel
           /\ \A d \in Conns \ {c} : ~Current(d)
           /\ \E r \in Seq(Byte) :
                 /\ r \in Line /\ Outcome(Chn, r) # "crash"
                 /\ handled' = [handled EXCEPT ![c] = Append(@, r)] /\ Last(handled'[c]) = r
                 /\ pc' = IF Outcome(Chn, r) = "answer" THEN "send" ELSE "recv"
                 /\ IF IsCommand(Chn, r)
                    THEN /\ Runs(r)
                         /\ journal' = Append(journal, [from |-> c, answer |-> answer'])
                         /\ Command(answer') = Command(Meaning(Chn, r))
                         /\ peer_txbuf' = IF Speaks(Chn, answer') THEN answer' ELSE peer_txbuf
                    ELSE UNCHANGED <<stationVars, journal, peer_txbuf>>
<1>1. net_fd[idx] = c
  BY DEF Completing, Sock
<1>2. Chn = Chan(port[c]) /\ Chn \in {1, 2} /\ Chn \in Channel
  BY ServedSlot DEF Completing, Chan, Channel
<1>3. \A d \in Conns \ {c} : ~Current(d)
  BY <1>1 DEF Current
<1>4. PICK r \in Line : /\ handled' = [handled EXCEPT ![c] = Append(@, r)]
                        /\ Outcome(Chn, r) # "crash"
                        /\ pc' = IF Outcome(Chn, r) = "answer" THEN "send" ELSE "recv"
  BY DEF Completing
<1>8. r \in Seq(Byte)
  BY LinesAreBytes
<1>5. Last(handled'[c]) = r
  <2>1. handled[c] \in Seq(Seq(Byte)) /\ handled'[c] = Append(handled[c], r)
    BY <1>4 DEF TypeOK
  <2> QED BY <2>1, <1>8 DEF Last
<1>6. IF IsCommand(Chn, r)
      THEN /\ Runs(r)
           /\ journal' = Append(journal, [from |-> c, answer |-> answer'])
           /\ peer_txbuf' = IF Speaks(Chn, answer') THEN answer' ELSE peer_txbuf
      ELSE UNCHANGED <<stationVars, journal, peer_txbuf>>
  BY <1>5 DEF Completing, Handles, Runs
<1>7. IsCommand(Chn, r) => Command(answer') = Command(Meaning(Chn, r))
  BY <1>2, <1>6, RigRecords, CatRecords DEF Command, Runs
<1> QED BY <1>2, <1>3, <1>4, <1>5, <1>6, <1>7, <1>8

(* b is a with one more element.                                           *)
OneMore(a, b, n) ==
    /\ a = [i \in 1..n |-> a[i]]
    /\ b = [i \in 1..(n+1) |-> b[i]]
    /\ \A i \in 1..n : b[i] = a[i]

LEMMA OneMoreAppends ==
    ASSUME NEW n \in Nat, NEW a, NEW b, OneMore(a, b, n)
    PROVE  \E S : a \in Seq(S) /\ b[n+1] \in S /\ Len(a) = n /\ b = Append(a, b[n+1])
<1> DEFINE S == {b[i] : i \in 1..(n+1)}
           e == b[n+1]
           t == Append(a, e)
<1>1. a \in [1..n -> S] /\ e \in S /\ b \in [1..(n+1) -> S]
  BY DEF OneMore
<1>2. (\A i \in 1..n : b[i] = a[i]) /\ b[n+1] = e
  BY DEF OneMore
<1> HIDE DEF S, e
<1>3. a \in Seq(S) /\ Len(a) = n
  BY <1>1
<1>4. /\ t \in [1..(n+1) -> S] /\ t[n+1] = e
      /\ \A i \in 1..n : t[i] = a[i]
  <2>1. t \in Seq(S) /\ Len(t) = n+1
    BY <1>1, <1>3
  <2>2. t[n+1] = e /\ \A i \in 1..n : t[i] = a[i]
    BY <1>1, <1>3
  <2> HIDE DEF t
  <2> QED BY <2>1, <2>2
<1> HIDE DEF t
<1>5. \A i \in 1..(n+1) : b[i] = t[i]
  BY <1>2, <1>4
<1>6. b = t
  BY <1>1, <1>4, <1>5
<1> QED BY <1>1, <1>3, <1>6 DEF e, t

(* A sequence of images grows with the sequence. *)
LEMMA AnswersGrow ==
    ASSUME NEW S, journal \in Seq(S), NEW c, journal' = Append(journal, [from |-> c, answer |-> answer'])
    PROVE  /\ JournalOK'
           /\ Len(journal') = Len(journal) + 1 /\ Len(journal) \in Nat
           /\ DOMAIN journal = 1..Len(journal) /\ DOMAIN journal' = 1..(Len(journal) + 1)
           /\ \A n \in 1..Len(journal) : journal'[n] = journal[n]
           /\ journal'[Len(journal) + 1] = [from |-> c, answer |-> answer']
<1> DEFINE e == [from |-> c, answer |-> answer']
           T == S \cup {e}
<1>1. journal \in Seq(T) /\ e \in T
  OBVIOUS
<1>2. journal' = Append(journal, e)
  OBVIOUS
<1> HIDE DEF e, T
<1>3. journal' \in Seq(T)
  BY <1>1, <1>2
<1>4. JournalOK'
  BY <1>3 DEF JournalOK
<1>5. /\ Len(journal') = Len(journal) + 1 /\ Len(journal) \in Nat
      /\ DOMAIN journal = 1..Len(journal) /\ DOMAIN journal' = 1..(Len(journal) + 1)
      /\ \A n \in 1..Len(journal) : journal'[n] = journal[n]
      /\ journal'[Len(journal) + 1] = e
  BY <1>1, <1>2
<1> QED BY <1>4, <1>5 DEF e

(* What is chosen of a sequence that is one longer.                        *)
LEMMA ChosenOneMore ==
    ASSUME NEW n \in Nat, NEW a, NEW b, OneMore(a, b, n), NEW T, NEW U, Agree(T, U, n)
    PROVE  Chosen(b, U) = IF n+1 \in U THEN Append(Chosen(a, T), b[n+1]) ELSE Chosen(a, T)
<1>1. PICK S : a \in Seq(S) /\ b[n+1] \in S /\ Len(a) = n /\ b = Append(a, b[n+1])
  BY OneMoreAppends
<1>2. PICK e : e = b[n+1]
  OBVIOUS
<1>3. Chosen(Append(a, e), U) =
         IF Len(a) + 1 \in U THEN Append(Chosen(a, T), e) ELSE Chosen(a, T)
  <2>1. a \in Seq(S) /\ e \in S /\ Agree(T, U, Len(a))
    BY <1>1, <1>2
  <2> QED BY <2>1, ChosenGrows
<1> QED BY <1>1, <1>2, <1>3

LEMMA CarriedOutGrows ==
    ASSUME JournalOK, NEW c, NEW d, journal' = Append(journal, [from |-> c, answer |-> answer'])
    PROVE  CarriedOut(d)' = IF d = c THEN Append(CarriedOut(d), Command(answer')) ELSE CarriedOut(d)
<1> DEFINE n == Len(journal)
           a == [i \in DOMAIN journal |-> Command(journal[i].answer)]
           b == [i \in DOMAIN journal' |-> Command(journal'[i].answer)]
           T == {i \in DOMAIN journal : journal[i].from = d}
           U == {i \in DOMAIN journal' : journal'[i].from = d}
<1>1. PICK R : journal \in Seq(R)
  BY DEF JournalOK
<1>2. /\ n \in Nat /\ DOMAIN journal = 1..n /\ DOMAIN journal' = 1..(n+1)
      /\ \A i \in 1..n : journal'[i] = journal[i]
      /\ journal'[n+1] = [from |-> c, answer |-> answer']
  BY <1>1, AnswersGrow
<1> HIDE DEF n
<1>3. /\ OneMore(a, b, n) /\ b[n+1] = Command(answer')
      /\ Agree(T, U, n) /\ (n+1 \in U <=> d = c)
  BY <1>2 DEF OneMore, Agree
<1>4. CarriedOut(d) = Chosen(a, T) /\ CarriedOut(d)' = Chosen(b, U)
  BY DEF CarriedOut, Command
<1> HIDE DEF a, b, T, U
<1>5. Chosen(b, U) = IF n+1 \in U THEN Append(Chosen(a, T), b[n+1]) ELSE Chosen(a, T)
  <2>1. n \in Nat /\ OneMore(a, b, n) /\ Agree(T, U, n)
    BY <1>2, <1>3
  <2> QED BY <2>1, ChosenOneMore
<1> QED BY <1>3, <1>4, <1>5

LEMMA AnswersToGrows ==
    ASSUME JournalOK, NEW c, NEW d, journal' = Append(journal, [from |-> c, answer |-> answer']),
           port'[d] = port[d]
    PROVE  AnswersTo(d)' = IF d = c /\ Speaks(Chan(port[d]), answer')
                           THEN Append(AnswersTo(d), answer') ELSE AnswersTo(d)
<1> DEFINE n == Len(journal)
           a == Answers
           b == Answers'
           T == {i \in DOMAIN journal : journal[i].from = d /\ Speaks(Chan(port[d]), journal[i].answer)}
           U == {i \in DOMAIN journal' : journal'[i].from = d /\ Speaks(Chan(port[d]), journal'[i].answer)}
<1>1. PICK R : journal \in Seq(R)
  BY DEF JournalOK
<1>2. /\ n \in Nat /\ DOMAIN journal = 1..n /\ DOMAIN journal' = 1..(n+1)
      /\ \A i \in 1..n : journal'[i] = journal[i]
      /\ journal'[n+1] = [from |-> c, answer |-> answer']
  BY <1>1, AnswersGrow
<1> HIDE DEF n
<1>3. OneMore(a, b, n) /\ b[n+1] = answer'
  BY <1>2 DEF Answers, OneMore
<1>4. Agree(T, U, n) /\ (n+1 \in U <=> d = c /\ Speaks(Chan(port[d]), answer'))
  BY <1>2 DEF Agree
<1>5. AnswersTo(d) = Chosen(a, T) /\ AnswersTo(d)' = Chosen(b, U)
  BY DEF AnswersTo, Speaks
<1> HIDE DEF a, b, T, U
<1>6. Chosen(b, U) = IF n+1 \in U THEN Append(Chosen(a, T), b[n+1]) ELSE Chosen(a, T)
  BY <1>2, <1>3, <1>4, ChosenOneMore
<1> QED BY <1>3, <1>4, <1>5, <1>6

LEMMA MeantGrows ==
    ASSUME NEW chn, NEW h \in Seq(Seq(Byte)), NEW r \in Seq(Byte)
    PROVE  Meant(chn, Append(h, r)) = IF IsCommand(chn, r)
                                      THEN Append(Meant(chn, h), Command(Meaning(chn, r))) ELSE Meant(chn, h)
<1> DEFINE n == Len(h)
           g == Append(h, r)
           a == [i \in DOMAIN h |-> Command(Meaning(chn, h[i]))]
           b == [i \in DOMAIN g |-> Command(Meaning(chn, g[i]))]
           T == {i \in DOMAIN h : IsCommand(chn, h[i])}
           U == {i \in DOMAIN g : IsCommand(chn, g[i])}
<1>1. /\ n \in Nat /\ DOMAIN h = 1..n /\ DOMAIN g = 1..(n+1)
      /\ \A i \in 1..n : g[i] = h[i]
      /\ g[n+1] = r
  OBVIOUS
<1> HIDE DEF n, g
<1>2. OneMore(a, b, n) /\ b[n+1] = Command(Meaning(chn, r))
  BY <1>1 DEF OneMore
<1>3. Agree(T, U, n) /\ (n+1 \in U <=> IsCommand(chn, r))
  BY <1>1 DEF Agree
<1>4. Meant(chn, h) = Chosen(a, T) /\ Meant(chn, g) = Chosen(b, U)
  BY DEF Meant
<1> HIDE DEF a, b, T, U
<1>5. Chosen(b, U) = IF n+1 \in U THEN Append(Chosen(a, T), b[n+1]) ELSE Chosen(a, T)
  BY <1>1, <1>2, <1>3, ChosenOneMore
<1> QED BY <1>2, <1>3, <1>4, <1>5 DEF g

(* Every request handled that is a command was carried out, as what it     *)
(* means, and nothing else was.                                            *)
Carried == JournalOK /\ \A c \in Conns : CarriedOut(c) = Meant(Chan(port[c]), handled[c])

LEMMA CarriedStep == TypeOK /\ SlotsOK /\ Carried /\ [SharedNext]_allVars => Carried'
<1> SUFFICES ASSUME TypeOK, SlotsOK, Carried, [SharedNext]_allVars PROVE Carried'
  OBVIOUS
<1>1. ASSUME UNCHANGED <<journal, port, handled>> PROVE Carried'
  BY <1>1 DEF Carried, JournalOK, CarriedOut
<1>2. ASSUME NEW c \in Conns, Completing(c) PROVE Carried'
  <2> DEFINE chn == Chan(port[c])
  <2>1. PICK r \in Seq(Byte) :
           /\ handled' = [handled EXCEPT ![c] = Append(@, r)]
           /\ IF IsCommand(chn, r)
              THEN /\ journal' = Append(journal, [from |-> c, answer |-> answer'])
                   /\ Command(answer') = Command(Meaning(chn, r))
              ELSE journal' = journal
    BY <1>2, CompletingIs
  <2>2. port' = port /\ \A d \in Conns : handled[d] \in Seq(Seq(Byte))
    BY <1>2 DEF Completing, TypeOK
  <2>3. ASSUME NEW d \in Conns
        PROVE  Meant(Chan(port[d]), handled'[d]) =
                  IF d = c /\ IsCommand(chn, r)
                  THEN Append(Meant(Chan(port[d]), handled[d]), Command(Meaning(chn, r)))
                  ELSE Meant(Chan(port[d]), handled[d])
    <3>1. CASE d = c
      <4>1. handled'[c] = Append(handled[c], r)
        BY <2>1 DEF TypeOK
      <4> QED BY <2>2, <3>1, <4>1, MeantGrows
    <3>2. CASE d # c
      BY <2>1, <3>2 DEF TypeOK
    <3> QED BY <3>1, <3>2
  <2>4. JournalOK /\ \A d \in Conns : CarriedOut(d) = Meant(Chan(port[d]), handled[d])
    BY DEF Carried
  <2>5. CASE ~IsCommand(chn, r)
    <3>1. JournalOK' /\ \A d \in Conns : CarriedOut(d)' = CarriedOut(d)
      BY <2>1, <2>4, <2>5 DEF JournalOK, CarriedOut
    <3> QED BY <2>2, <2>3, <2>4, <2>5, <3>1 DEF Carried
  <2>6. CASE IsCommand(chn, r)
    <3>1. JournalOK'
      BY <2>1, <2>4, <2>6, AnswersGrow DEF JournalOK
    <3>2. ASSUME NEW d \in Conns
          PROVE  CarriedOut(d)' = IF d = c THEN Append(CarriedOut(d), Command(answer')) ELSE CarriedOut(d)
      BY <2>1, <2>4, <2>6, CarriedOutGrows
    <3> QED BY <2>1, <2>2, <2>3, <2>4, <2>6, <3>1, <3>2 DEF Carried
  <2> QED BY <2>5, <2>6
<1>3. ASSUME NEW c \in Conns, Answering(c) PROVE UNCHANGED <<journal, port, handled>>
  BY <1>3 DEF Answering, Sends
<1>4. CASE Quiet
  BY <1>1, <1>4 DEF Quiet, shared
<1> QED BY <1>1, <1>2, <1>3, <1>4, StepKinds

(* The radio and the journal change in the steps of handlers alone.        *)
LEMMA JournalKept ==
    ASSUME TypeOK, SlotsOK, [SharedNext]_allVars
    PROVE  \/ UNCHANGED <<stationVars, journal>>
           \/ /\ StationNext
              /\ \E c \in Conns : journal' = Append(journal, [from |-> c, answer |-> answer'])
<1>1. CASE \E c \in Conns : Completing(c)
  <2>1. PICK c \in Conns : Completing(c)
    BY <1>1
  <2>2. PICK r \in Line :
           /\ Chn \in Channel /\ Outcome(Chn, r) # "crash"
           /\ IF IsCommand(Chn, r)
              THEN Runs(r) /\ journal' = Append(journal, [from |-> c, answer |-> answer'])
              ELSE UNCHANGED <<stationVars, journal>>
    BY <2>1, CompletingIs
  <2>3. CASE IsCommand(Chn, r)
    <3>1. IF Chn = 1 THEN Meaning(1, r) \in RigRequests ELSE Meaning(2, r) \in CatRequests
      BY <2>2, <2>3, MeaningAssumption DEF MeaningAssumption, Channel
    <3> QED BY <2>2, <2>3, <3>1 DEF Runs, StationNext
  <2> QED BY <2>2, <2>3
<1> QED BY <1>1, StepKinds DEF Answering, Sends, Quiet, shared

(***************************************************************************)
(* The program is the transceiver with its two protocols: however the      *)
(* requests of all clients come in, the handlers run one after the other   *)
(* on the one radio, so what is proved of Station holds of it, too.        *)
(***************************************************************************)
THEOREM LoopDrivesStation == SharedSpec => StationSpec
<1>1. SharedInit => StationInit
  BY DEF SharedInit
<1>2. TypeOK /\ SlotsOK /\ [SharedNext]_allVars => [StationNext]_stationVars
  BY JournalKept
<1> QED BY <1>1, <1>2, LoopIsServer, Inductive, PTL DEF SharedSpec, StationSpec

(***************************************************************************)
(* So the whole program, with its connections, slots, buffers and          *)
(* messages, is one transceiver that all clients turn the knobs of, one    *)
(* after the other.                                                        *)
(***************************************************************************)
THEOREM ProgramDrivesTransceiver == SharedSpec => DrivesTransceiver
BY LoopDrivesStation, StationDrivesTransceiver

(***************************************************************************)
(* What is carried out for a client is what its bytes mean, in their       *)
(* order: neither the loop nor the others drop, double or swap a request.  *)
(***************************************************************************)
THEOREM RequestsAreCarriedOut == SharedSpec => []CarriesOutWhatWasSent
<1>1. SharedInit => Carried
  <2> SUFFICES ASSUME SharedInit PROVE Carried
    OBVIOUS
  <2>1. journal = <<>> /\ \A c \in Conns : handled[c] = <<>>
    BY DEF SharedInit, Init
  <2>2. JournalOK
    BY <2>1 DEF JournalOK
  <2>3. ASSUME NEW c \in Conns PROVE CarriedOut(c) = Meant(Chan(port[c]), handled[c])
    <3>1. CarriedOut(c) = Chosen(<<>>, {n \in DOMAIN journal : journal[n].from = c})
      BY <2>1 DEF CarriedOut
    <3>2. Meant(Chan(port[c]), handled[c]) =
             Chosen(<<>>, {k \in DOMAIN handled[c] : IsCommand(Chan(port[c]), handled[c][k])})
      BY <2>1 DEF Meant
    <3> QED BY <3>1, <3>2, ChosenNone
  <2> QED BY <2>2, <2>3 DEF Carried
<1>2. Carried /\ FramesRequests => CarriesOutWhatWasSent
  BY DEF Carried, FramesRequests, CarriesOutWhatWasSent
<1> QED BY <1>1, <1>2, CarriedStep, LoopIsServer, Inductive, FramesWhatWasSent, PTL DEF SharedSpec

----------------------------------------------------------------------------
(* Whether there is an answer at all. *)

(* A handler of rigctl.c leaves neither text nor report for a function     *)
(* without callbacks, and for nothing else.                                *)
LEMMA RigSpeaks ==
    ASSUME StationTypeOK, NEW q \in RigRequests, RigRequest(q)
    PROVE  Speaks(1, answer') <=> ~RigIsMute(q)
<1>1. Rig!IsRequest(q) /\ Rig!rigctl_req(q) /\ radio \in Settings /\ rigMsg \in Messages
  BY RequestsAssumption DEF RigRequest, StationTypeOK
<1>2. CASE q.cmd \notin {"set_func", "get_func"}
  <2>1. RigHandled(q)
    BY <1>1, RigRequestsHandled
  <2> QED BY <1>2, <2>1 DEF RigHandled, Speaks, RigIsMute
<1>3. ASSUME Rig!Rejects(q, rigMsg) PROVE Speaks(1, answer')
  BY <1>3, AnswerIs, Numbers DEF Rig!Rejects, Rig!Reports, Speaks
<1>4. ASSUME Rig!Reports(q, Rig!RIG_OK) PROVE Speaks(1, answer')
  BY <1>4, AnswerIs, Numbers DEF Rig!Reports, Speaks
<1>5. ASSUME NEW says, Rig!Says(q, says), "nothing" \notin DOMAIN says PROVE Speaks(1, answer')
  <2>1. "nothing" \in DOMAIN Rig!Nothing
    BY DEF Rig!Nothing
  <2> QED BY <1>5, <2>1, AnswerIs DEF Rig!Says, Speaks
<1>6. ASSUME q.parm # <<>>, q.parm[1].text \notin {"RIT", "XIT"}, q.cmd \in {"set_func", "get_func"},
             Rig!Answer(q, IF q.parm[1].lead = "?" THEN Rig!Notes ELSE Rig!Nothing,
                        IF q.parm[1].lead = "?" \/ q.parm[1].text \in IdleFunctions
                        THEN Rig!RIG_EEND ELSE Rig!RIG_ENAVAIL)
      PROVE  Speaks(1, answer') <=> ~RigIsMute(q)
  <2>1. Rig!Notes # Rig!Nothing
    <3>1. "nothing" \in DOMAIN Rig!Nothing /\ "nothing" \notin DOMAIN Rig!Notes
      BY DEF Rig!Nothing, Rig!Notes
    <3> QED BY <3>1
  <2>2. CASE q.parm[1].lead = "?"
    BY <1>6, <2>1, <2>2, AnswerIs DEF Speaks, RigIsMute
  <2>3. CASE q.parm[1].lead # "?"
    <3>1. answer'.says = Rig!Nothing
      BY <1>6, <2>3, AnswerIs
    <3>2. answer'.rprt = IF q.parm[1].text \in IdleFunctions THEN Rig!RIG_EEND ELSE Rig!RIG_ENAVAIL
      BY <1>6, <2>3, AnswerIs
    <3> QED BY <1>6, <2>3, <3>1, <3>2, Numbers DEF Speaks, RigIsMute
  <2> QED BY <2>2, <2>3
<1>7. CASE q.cmd = "set_func"
  <2>1. Rig!cbRigCTLSetFunc(q)
    BY <1>1, <1>7, RigCommands
  <2>2. CASE q.parm = <<>> /\ Rig!Rejects(q, rigMsg)
    BY <1>3, <2>2 DEF RigIsMute
  <2>3. CASE Rig!Word(q, 1) \in {"RIT", "XIT"} /\ Rig!Reports(q, Rig!RIG_OK)
    BY <1>4, <2>3 DEF RigIsMute, Rig!Word
  <2>4. ASSUME Rig!Has(q, 1) PROVE q.parm # <<>>
    BY <2>4 DEF Rig!Has
  <2> QED BY <1>6, <1>7, <2>1, <2>2, <2>3, <2>4 DEF Rig!cbRigCTLSetFunc, Rig!Word, Rig!Lead
<1>8. CASE q.cmd = "get_func"
  <2>1. Rig!cbRigCTLGetFunc(q)
    BY <1>1, <1>8, RigCommands
  <2>2. CASE q.parm = <<>> /\ Rig!Rejects(q, rigMsg)
    BY <1>3, <2>2 DEF RigIsMute
  <2>3. CASE Rig!Word(q, 1) = "RIT" /\ Rig!Says(q, [status |-> radio.rit])
    BY <1>5, <2>3 DEF RigIsMute, Rig!Word
  <2>4. CASE Rig!Word(q, 1) = "XIT" /\ Rig!Says(q, [status |-> radio.xit])
    BY <1>5, <2>4 DEF RigIsMute, Rig!Word
  <2>5. ASSUME Rig!Has(q, 1) PROVE q.parm # <<>>
    BY <2>5 DEF Rig!Has
  <2> QED BY <1>6, <1>8, <2>1, <2>2, <2>3, <2>4, <2>5 DEF Rig!cbRigCTLGetFunc, Rig!Word, Rig!Lead
<1> QED BY <1>2, <1>7, <1>8

(* One of commcat.c says nothing to a setting, but for the keys and AI.    *)
LEMMA CatSpeaks ==
    ASSUME NEW q, CatRequest(q)
    PROVE  Speaks(2, answer') <=> ~CatIsMute(q)
<1>1. Cat!commcat_req(q)
  BY DEF CatRequest
<1>2. ASSUME Cat!Says(q, Cat!Silence) PROVE ~Speaks(2, answer')
  BY <1>2, CatSaysIs DEF Speaks
<1>3. ASSUME NEW says, Cat!Says(q, says), "silence" \notin DOMAIN says PROVE Speaks(2, answer')
  <2>1. "silence" \in DOMAIN Cat!Silence
    BY DEF Cat!Silence
  <2> QED BY <1>3, <2>1, CatSaysIs DEF Speaks
<1>4. CASE Cat!cbReqFA(q) \/ Cat!cbReqFB(q)
  BY <1>2, <1>3, <1>4 DEF Cat!cbReqFA, Cat!cbReqFB, Cat!TunesVfo, Cat!Reads, Cat!Sets, Cat!None, CatIsMute
<1>5. CASE Cat!cbReqFR(q) \/ Cat!cbReqFT(q)
  BY <1>2, <1>3, <1>5 DEF Cat!cbReqFR, Cat!cbReqFT, Cat!Reads, Cat!Sets, Cat!Idle, Cat!None, CatIsMute
<1>6. CASE Cat!cbReqIF(q)
  <2>1. "silence" \notin DOMAIN Cat!SaysIF(radio)
    BY DEF Cat!SaysIF
  <2> QED BY <1>3, <1>6, <2>1 DEF Cat!cbReqIF, Cat!Reads, CatIsMute
<1>7. CASE Cat!cbReqMD(q) \/ Cat!cbReqRT(q) \/ Cat!cbReqXT(q)
  BY <1>2, <1>3, <1>7 DEF Cat!cbReqMD, Cat!cbReqRT, Cat!cbReqXT, Cat!Reads, Cat!Sets, Cat!None, CatIsMute
<1>8. CASE Cat!cbReqRD(q) \/ Cat!cbReqRU(q)
  BY <1>2, <1>8 DEF Cat!cbReqRD, Cat!cbReqRU, Cat!Reads, Cat!Sets, CatIsMute
<1>9. CASE Cat!cbReqRX(q) \/ Cat!cbReqTX(q)
  <2>1. "silence" \notin DOMAIN Cat!Fixed
    BY DEF Cat!Fixed
  <2> QED BY <1>3, <1>9, <2>1 DEF Cat!cbReqRX, Cat!cbReqTX, Cat!Sets, CatIsMute
<1>10. CASE Cat!cbReqAG0(q) \/ Cat!cbReqAI(q) \/ Cat!cbReqPC(q)
  BY <1>2, <1>3, <1>10 DEF Cat!cbReqAG0, Cat!cbReqAI, Cat!cbReqPC, Cat!Idle, Cat!None, CatIsMute
<1>11. CASE Cat!cbReqIDorSM(q) \/ Cat!cbReqKSorNB(q) \/ Cat!NotFound(q)
  <2>1. "silence" \notin DOMAIN Cat!Fixed
    BY DEF Cat!Fixed
  <2> QED BY <1>2, <1>3, <1>11, <2>1 DEF Cat!cbReqIDorSM, Cat!cbReqKSorNB, Cat!NotFound, Cat!Idle, Cat!None, CatIsMute
<1> QED BY <1>1, <1>4, <1>5, <1>6, <1>7, <1>8, <1>9, <1>10, <1>11 DEF Cat!commcat_req

(* Outcome knows which requests these are. *)
LEMMA OutcomeIs ==
    ASSUME NEW chn \in Channel, NEW r, Outcome(chn, r) # "crash"
    PROVE  /\ ~IsCommand(chn, r) => Outcome(chn, r) # "answer"
           /\ IsCommand(chn, r) => (Outcome(chn, r) = "answer" <=> r \notin Mute[chn])
<1>1. Quit # Hash /\ \A m \in Mute[1] : Head(m) \notin {Quit, Hash} /\ ~Wordless(m)
  BY FramingAssumption DEF FramingAssumption
<1>2. chn = 1 \/ chn = 2
  BY DEF Channel
<1> QED BY <1>1, <1>2 DEF Outcome, IsCommand

(***************************************************************************)
(* send() is called for new text only: whatever the settings are and       *)
(* whatever lies in the messages, each handler leaves something to send    *)
(* exactly when network.c is told a length that is not 0.                  *)
(***************************************************************************)
THEOREM NothingOldIsSent == SharedSpec => SendsWhatWasWritten
<1>1. TypeOK /\ SlotsOK /\ StationTypeOK /\ [SharedNext]_allVars => [Written]_allVars
  <2> SUFFICES ASSUME TypeOK, SlotsOK, StationTypeOK, [SharedNext]_allVars,
                      NEW d \in Conns, handled'[d] # handled[d]
               PROVE  pc' = "send" <=> IsCommand(Chn, Last(handled'[d])) /\ Speaks(Chn, answer')
    BY DEF Written
  <2>1. PICK c \in Conns : Completing(c)
    BY StepKinds DEF Answering, Quiet
  <2>2. PICK r \in Line :
           /\ Chn \in Channel /\ Outcome(Chn, r) # "crash"
           /\ handled' = [handled EXCEPT ![c] = Append(@, r)] /\ Last(handled'[c]) = r
           /\ pc' = IF Outcome(Chn, r) = "answer" THEN "send" ELSE "recv"
           /\ IsCommand(Chn, r) => Runs(r)
    BY <2>1, CompletingIs
  <2>3. d = c
    BY <2>2 DEF TypeOK
  <2>4. IsCommand(Chn, r) => (Speaks(Chn, answer') <=> r \notin Mute[Chn])
    <3> SUFFICES ASSUME IsCommand(Chn, r) PROVE Speaks(Chn, answer') <=> r \notin Mute[Chn]
      OBVIOUS
    <3>1. CASE Chn = 1
      <4>1. Meaning(1, r) \in RigRequests /\ (r \in Mute[1] <=> RigIsMute(Meaning(1, r)))
        BY <2>2, <3>1, MeaningAssumption DEF MeaningAssumption
      <4> QED BY <2>2, <3>1, <4>1, RigSpeaks DEF Runs
    <3>2. CASE Chn = 2
      <4>1. r \in Mute[2] <=> CatIsMute(Meaning(2, r))
        BY <2>2, <3>2, MeaningAssumption DEF MeaningAssumption
      <4> QED BY <2>2, <3>2, <4>1, CatSpeaks DEF Runs
    <3> QED BY <2>2, <3>1, <3>2 DEF Channel
  <2> QED BY <2>2, <2>3, <2>4, OutcomeIs
<1> QED BY <1>1, LoopIsServer, Inductive, LoopDrivesStation, StationTypes, PTL
        DEF SharedSpec, SendsWhatWasWritten

----------------------------------------------------------------------------
(* The answers, against the clients they are sent to. *)

(* What a client was sent, with what lies in peer_txbuf for it.            *)
Delivers(c) ==
    ~rst[c] /\ StageOf(c) # "gone"
        => IF Owing(c) THEN AnswersTo(c) = Append(delivered[c], peer_txbuf)
                       ELSE delivered[c] = AnswersTo(c)

Delivery == /\ JournalOK
            /\ delivered = [c \in Conns |-> delivered[c]]
            /\ \A c \in Conns : Delivers(c)

(* An answer waits for those only who are served.                          *)
LEMMA OwedAreServed ==
    ASSUME TypeOK, SlotsOK, NEW c \in Conns, Owing(c)
    PROVE  StageOf(c) = "served"
<1>1. Sock = c /\ tcp[Sock] = "open"
  BY ServedSlot DEF Owing, Current, Sock
<1> QED BY <1>1 DEF StageOf

(* A quiet step neither begins nor ends to owe anybody an answer.          *)
LEMMA OwingKept ==
    ASSUME TypeOK, SlotsOK, TypeOK', SlotsOK', Ended, [Next]_vars, Quiet,
           NEW c \in Conns, ~rst'[c], StageOf(c)' # "gone"
    PROVE  ~rst[c] /\ StageOf(c) # "gone" /\ (Owing(c)' <=> Owing(c))
<1>1. ~rst[c]
  BY ResetsStay
<1>2. handled'[c] = handled[c] /\ replies'[c] = replies[c]
  BY DEF Quiet
<1>3. CASE ~Running
  <2>1. UNCHANGED vars
    BY <1>3, EndedStays
  <2>2. UNCHANGED <<tcp, pc, net_fd, idx>>
    BY <2>1 DEF vars, tables, locals, wire
  <2> QED BY <1>1, <2>2 DEF StageOf, Owing, Current
<1>4. CASE Running
  <2>1. SessionMove
    BY <1>4, SessionStep
  <2>2. CASE Stopped
    <3>1. StageOf(c) # "served" /\ StageOf(c) # "gone" /\ pc' = "exit"
      BY <2>2 DEF Stopped, Running
    <3> QED BY <1>1, <3>1, OwedAreServed DEF Owing
  <2>3. CASE Untouched(c)
    BY <1>1, <2>3 DEF Untouched
  <2>4. CASE OneSession(c) /\ ~Untouched(c)
    <3>1. CASE Moved(c, "away", "served") \/ Moved(c, "away", "gone") \/ Moved(c, "served", "gone")
      <4>1. StageOf(c) = "away" /\ ~Owing(c)'
        BY <3>1 DEF Moved
      <4> QED BY <1>1, <4>1, OwedAreServed
    <3>2. ASSUME NEW b \in Byte, Took(c, b) PROVE StageOf(c) = "served" /\ ~Owing(c) /\ ~Owing(c)'
      <4>1. handled[c] \in Seq(Seq(Byte))
        BY DEF TypeOK
      <4>2. handled'[c] # Append(handled[c], PartialOf(c))
        <5> DEFINE h == handled[c]
                   p == PartialOf(c)
        <5>1. h \in Seq(Seq(Byte))
          BY <4>1
        <5> HIDE DEF h, p
        <5>2. Len(Append(h, p)) = Len(h) + 1 /\ Len(h) \in Nat
          BY <5>1
        <5>3. Append(h, p) # h
          BY <5>2
        <5> QED BY <1>2, <5>3 DEF h, p
      <4> QED BY <3>2, <4>2 DEF Took
    <3>3. ~Replied(c)
      <4> SUFFICES ASSUME Replied(c) PROVE FALSE
        OBVIOUS
      <4>1. replies[c] \in Seq(Seq(Byte)) /\ replies[c] = Append(replies[c], txbuf)
        BY <1>2 DEF Replied, TypeOK
      <4> DEFINE r == replies[c]
      <4> HIDE DEF r
      <4>2. r \in Seq(Seq(Byte)) /\ r = Append(r, txbuf)
        BY <4>1 DEF r
      <4>3. Len(Append(r, txbuf)) = Len(r) + 1 /\ Len(r) \in Nat
        BY <4>2
      <4> QED BY <4>2, <4>3
    <3> QED BY <1>1, <2>4, <3>1, <3>2, <3>3 DEF OneSession
  <2> QED BY <2>1, <2>2, <2>3, <2>4 DEF SessionMove
<1> QED BY <1>3, <1>4

LEMMA DeliveryStep ==
    ASSUME TypeOK, SlotsOK, TypeOK', SlotsOK', Ended, Delivery, [SharedNext]_allVars, [Next]_vars,
           [Written]_allVars
    PROVE  Delivery'
<1>1. \/ \E c \in Conns : Completing(c) \/ Answering(c)
      \/ Quiet
  BY StepKinds
<1>2. JournalOK /\ delivered = [c \in Conns |-> delivered[c]] /\ \A c \in Conns : Delivers(c)
  BY DEF Delivery
<1>3. CASE Quiet
  <2>1. UNCHANGED <<journal, delivered, peer_txbuf, port>>
    BY <1>3 DEF Quiet, shared
  <2>2. JournalOK' /\ delivered' = [c \in Conns |-> delivered'[c]]
    BY <1>2, <2>1 DEF JournalOK
  <2>3. ASSUME NEW c \in Conns PROVE Delivers(c)'
    <3>1. AnswersTo(c)' = AnswersTo(c)
      BY <2>1 DEF AnswersTo, Answers, Speaks
    <3> QED BY <1>2, <1>3, <2>1, <3>1, OwingKept DEF Delivers
  <2> QED BY <2>2, <2>3 DEF Delivery
<1>4. ASSUME NEW c \in Conns, Completing(c) PROVE Delivery'
  <2>1. /\ Chn = Chan(port[c])
        /\ \A d \in Conns \ {c} : ~Current(d)
    BY <1>4, CompletingIs
  <2>2. PICK r \in Seq(Byte) :
           /\ handled' = [handled EXCEPT ![c] = Append(@, r)] /\ Last(handled'[c]) = r
           /\ pc' = IF Outcome(Chn, r) = "answer" THEN "send" ELSE "recv"
           /\ IF IsCommand(Chn, r)
              THEN /\ journal' = Append(journal, [from |-> c, answer |-> answer'])
                   /\ peer_txbuf' = IF Speaks(Chn, answer') THEN answer' ELSE peer_txbuf
              ELSE UNCHANGED <<stationVars, journal, peer_txbuf>>
    BY <1>4, CompletingIs
  <2>3. /\ UNCHANGED <<port, tcp, rst, net_fd, idx, delivered>>
        /\ pc = "recv" /\ pc' \in {"recv", "send"} /\ handled'[c] # handled[c]
        /\ net_fd[idx] = c
    BY <1>4, <2>2 DEF Completing, Handles, Sock
  <2>4. pc' = "send" <=> IsCommand(Chn, r) /\ Speaks(Chn, answer')
    BY <2>2, <2>3 DEF Written, allVars, vars, history
  <2>5. /\ \A d \in Conns : ~Owing(d)
        /\ \A d \in Conns : Owing(d)' <=> pc' = "send" /\ d = c
    BY <2>3 DEF Owing, Current
  <2>6. delivered' = [d \in Conns |-> delivered'[d]]
    BY <1>2, <2>3
  <2>7. CASE ~IsCommand(Chn, r)
    <3>1. UNCHANGED <<journal, peer_txbuf>> /\ pc' # "send"
      BY <2>2, <2>4, <2>7
    <3>2. JournalOK'
      BY <1>2, <3>1 DEF JournalOK
    <3>3. ASSUME NEW d \in Conns PROVE Delivers(d)'
      <4>1. AnswersTo(d)' = AnswersTo(d)
        BY <2>3, <3>1 DEF AnswersTo, Answers, Speaks
      <4>2. StageOf(d)' = StageOf(d)
        BY <2>3 DEF StageOf
      <4> QED BY <1>2, <2>3, <2>5, <3>1, <4>1, <4>2 DEF Delivers
    <3> QED BY <2>6, <3>2, <3>3 DEF Delivery
  <2>8. CASE IsCommand(Chn, r)
    <3>1. journal' = Append(journal, [from |-> c, answer |-> answer'])
      BY <2>2, <2>8
    <3>2. JournalOK'
      BY <1>2, <3>1, AnswersGrow DEF JournalOK
    <3>3. ASSUME NEW d \in Conns PROVE Delivers(d)'
      <4>1. AnswersTo(d)' = IF d = c /\ Speaks(Chan(port[d]), answer')
                            THEN Append(AnswersTo(d), answer') ELSE AnswersTo(d)
        <5>1. port'[d] = port[d]
          BY <2>3
        <5> QED BY <1>2, <3>1, <5>1, AnswersToGrows
      <4>2. StageOf(d)' = StageOf(d) /\ rst'[d] = rst[d] /\ delivered'[d] = delivered[d]
        BY <2>3 DEF StageOf
      <4>3. ~rst[d] /\ StageOf(d) # "gone" => delivered[d] = AnswersTo(d)
        BY <1>2, <2>5 DEF Delivers
      <4>4. CASE Owing(d)'
        <5>1. d = c /\ Speaks(Chan(port[d]), answer') /\ peer_txbuf' = answer'
          BY <2>1, <2>2, <2>4, <2>5, <2>8, <4>4
        <5> QED BY <4>1, <4>2, <4>3, <4>4, <5>1 DEF Delivers
      <4>5. CASE ~Owing(d)'
        <5>1. ~(d = c /\ Speaks(Chan(port[d]), answer'))
          BY <2>1, <2>4, <2>5, <2>8, <4>5
        <5> QED BY <4>1, <4>2, <4>3, <4>5, <5>1 DEF Delivers
      <4> QED BY <4>4, <4>5
    <3> QED BY <2>6, <3>2, <3>3 DEF Delivery
  <2> QED BY <2>7, <2>8
<1>5. ASSUME NEW c \in Conns, Answering(c) PROVE Delivery'
  <2>1. /\ UNCHANGED <<port, tcp, rst, net_fd, idx, journal, peer_txbuf>>
        /\ pc = "send" /\ pc' = "recv" /\ net_fd[idx] = c
        /\ delivered' = [delivered EXCEPT ![c] = Append(@, peer_txbuf)]
    BY <1>5 DEF Answering, Sends, Sock
  <2>2. JournalOK' /\ delivered' = [d \in Conns |-> delivered'[d]]
    BY <1>2, <2>1 DEF JournalOK
  <2>3. ASSUME NEW d \in Conns PROVE Delivers(d)'
    <3>1. AnswersTo(d)' = AnswersTo(d)
      BY <2>1 DEF AnswersTo, Answers, Speaks
    <3>2. StageOf(d)' = StageOf(d) /\ rst'[d] = rst[d] /\ ~Owing(d)' /\ (Owing(d) <=> d = c)
      BY <2>1 DEF StageOf, Owing, Current
    <3>3. delivered'[d] = IF d = c THEN Append(delivered[d], peer_txbuf) ELSE delivered[d]
      BY <1>2, <2>1
    <3> QED BY <1>2, <3>1, <3>2, <3>3 DEF Delivers
  <2> QED BY <2>2, <2>3 DEF Delivery
<1> QED BY <1>1, <1>3, <1>4, <1>5

(***************************************************************************)
(* All answers go through one buffer, and a request without an answer      *)
(* leaves in it what was there.  Yet every client is sent the answers to   *)
(* its own requests, each once and in order, whoever else is served and    *)
(* whatever becomes of the slots.                                          *)
(***************************************************************************)
THEOREM AnswersReachTheirClients == SharedSpec => []OwnAnswers
<1>1. SharedInit => Delivery
  <2> SUFFICES ASSUME SharedInit PROVE Delivery
    OBVIOUS
  <2>1. journal = <<>> /\ delivered = [c \in Conns |-> <<>>] /\ pc = "poll"
    BY DEF SharedInit, Init
  <2>2. JournalOK
    BY <2>1 DEF JournalOK
  <2>3. ASSUME NEW c \in Conns PROVE Delivers(c)
    <3> DEFINE T == {n \in DOMAIN journal :
                        journal[n].from = c /\ Speaks(Chan(port[c]), journal[n].answer)}
    <3>1. Answers = <<>>
      BY <2>1 DEF Answers
    <3>2. AnswersTo(c) = Chosen(<<>>, T)
      BY <3>1 DEF AnswersTo
    <3>3. AnswersTo(c) = <<>>
      BY <3>2, ChosenNone
    <3> QED BY <2>1, <3>3 DEF Delivers, Owing
  <2> QED BY <2>1, <2>2, <2>3 DEF Delivery
<1>2. TypeOK /\ SlotsOK /\ TypeOK' /\ SlotsOK' /\ SessionsOK /\ Delivery
      /\ [SharedNext]_allVars /\ [Next]_vars /\ [Written]_allVars => Delivery'
  BY DeliveryStep DEF SessionsOK
<1>3. Delivery => OwnAnswers
  BY DEF Delivery, Delivers, OwnAnswers, Served, StageOf, Owing
<1> QED BY <1>1, <1>2, <1>3, LoopIsServer, Inductive, SessionsInvariant, NothingOldIsSent, PTL
        DEF SharedSpec, Spec, SendsWhatWasWritten

(* The answer that waits is the last one given, and it shows the settings. *)
Timely ==
    /\ Radio!Shows(answer.says, Radio!Shown(answer, radio))
    /\ pc = "send" => peer_txbuf = answer

(***************************************************************************)
(* However long send() waits, the answer shows the settings as they are    *)
(* when it goes out: an answer is right when it is given, and nothing      *)
(* comes between the two.                                                  *)
(***************************************************************************)
THEOREM AnswersStayCurrent == SharedSpec => []AnswersAreCurrent
<1>1. SharedInit => Timely
  <2> SUFFICES ASSUME SharedInit PROVE Timely
    OBVIOUS
  <2>1. answer.cmd = "none" /\ pc = "poll"
    BY DEF SharedInit, Init, StationInit
  <2>2. Radio!Shown(answer, radio) = Radio!Nothing
    BY <2>1 DEF Radio!Shown
  <2>3. DOMAIN Radio!Nothing = {}
    BY DEF Radio!Nothing
  <2> QED BY <2>1, <2>2, <2>3 DEF Timely, Radio!Shows
<1>2. TypeOK /\ SlotsOK /\ Timely /\ [SharedNext]_allVars /\ [Written]_allVars
      /\ [Radio!Serve(answer')]_(Radio!vars) => Timely'
  <2> SUFFICES ASSUME TypeOK, SlotsOK, Timely, [SharedNext]_allVars, [Written]_allVars,
                      [Radio!Serve(answer')]_(Radio!vars)
               PROVE  Timely'
    OBVIOUS
  <2>1. Radio!Shows(answer.says, Radio!Shown(answer, radio))'
    <3>1. CASE Radio!Serve(answer')
      BY <3>1 DEF Radio!Serve, Radio!Shows
    <3>2. CASE UNCHANGED Radio!vars
      <4>1. answer' = answer /\ radio' = radio
        BY <3>2 DEF Radio!vars
      <4> QED BY <4>1 DEF Timely, Radio!Shows
    <3> QED BY <3>1, <3>2
  <2>2. \/ \E c \in Conns : Completing(c) \/ Answering(c)
        \/ Quiet
    BY StepKinds
  <2>3. CASE Quiet
    <3>1. UNCHANGED <<answer, peer_txbuf>> /\ (pc' = "send" => pc = "send")
      BY <2>3 DEF Quiet, shared, stationVars
    <3> QED BY <2>1, <3>1 DEF Timely
  <2>4. ASSUME NEW c \in Conns, Answering(c) PROVE Timely'
    BY <2>1, <2>4 DEF Answering, Timely
  <2>5. ASSUME NEW c \in Conns, Completing(c) PROVE Timely'
    <3>1. PICK r \in Seq(Byte) :
             /\ handled' = [handled EXCEPT ![c] = Append(@, r)] /\ Last(handled'[c]) = r
             /\ IF IsCommand(Chn, r)
                THEN peer_txbuf' = IF Speaks(Chn, answer') THEN answer' ELSE peer_txbuf
                ELSE UNCHANGED <<stationVars, journal, peer_txbuf>>
      BY <2>5, CompletingIs
    <3>2. handled'[c] # handled[c]
      BY <2>5 DEF Completing, Handles
    <3>3. pc' = "send" => IsCommand(Chn, r) /\ Speaks(Chn, answer')
      BY <3>1, <3>2 DEF Written, allVars, vars, history
    <3> QED BY <2>1, <3>1, <3>3 DEF Timely
  <2> QED BY <2>2, <2>3, <2>4, <2>5
<1>3. Timely => AnswersAreCurrent
  BY DEF Timely, AnswersAreCurrent, Radio!Shows
<1> QED BY <1>1, <1>2, <1>3, LoopIsServer, Inductive, NothingOldIsSent, ProgramDrivesTransceiver, PTL
        DEF SharedSpec, SendsWhatWasWritten, DrivesTransceiver, Radio!Spec

----------------------------------------------------------------------------
(* One order of all requests. *)

(* The recursive function of RadiosAfter, for any journal. *)
Follow(j, k, radios) == UNION {SettingsAfter(j[k].answer, r) : r \in radios}

RadiosStep(j, after, k) == IF k = 0 THEN {PowerOn} ELSE Follow(j, k, after[k-1])

RadiosUpTo(j, n) == CHOOSE after : after = [k \in 0..n |-> RadiosStep(j, after, k)]

LEMMA RadiosEquations ==
    ASSUME NEW j, NEW n \in Nat
    PROVE  /\ RadiosUpTo(j, n)[0] = {PowerOn}
           /\ \A k \in 1..n : RadiosUpTo(j, n)[k] = Follow(j, k, RadiosUpTo(j, n)[k-1])
<1> DEFINE Solves(f, m) == f = [k \in 0..m |-> RadiosStep(j, f, k)]
           S == {m \in Nat : \E f : Solves(f, m)}
<1>1. 0 \in S
  <2> DEFINE f == [k \in 0..0 |-> {PowerOn}]
  <2>1. \A k \in 0..0 : RadiosStep(j, f, k) = {PowerOn}
    BY DEF RadiosStep
  <2>2. Solves(f, 0)
    BY <2>1
  <2> QED BY <2>2
<1>2. ASSUME NEW m \in Nat, m \in S PROVE m + 1 \in S
  <2>1. PICK f : Solves(f, m)
    BY <1>2
  <2> DEFINE last == Follow(j, m + 1, f[m])
             g == [k \in 0..(m+1) |-> IF k = m + 1 THEN last ELSE f[k]]
  <2>2. \A k \in 0..m : f[k] = RadiosStep(j, f, k)
    BY <2>1
  <2>3. \A k \in 0..m : g[k] = f[k]
    OBVIOUS
  <2>4. g[m+1] = last
    OBVIOUS
  <2>5. ASSUME NEW k \in 0..(m+1) PROVE g[k] = RadiosStep(j, g, k)
    <3> HIDE DEF g
    <3>1. CASE k = m + 1
      BY <2>3, <2>4, <3>1 DEF RadiosStep
    <3>2. CASE k = 0
      BY <2>2, <2>3, <3>2 DEF RadiosStep
    <3>3. CASE k \in 1..m
      <4>1. k-1 \in 0..m /\ k \in 0..m /\ k # 0
        BY <3>3
      <4> QED BY <2>2, <2>3, <4>1 DEF RadiosStep
    <3> QED BY <3>1, <3>2, <3>3
  <2>6. g = [k \in 0..(m+1) |-> g[k]]
    OBVIOUS
  <2>7. Solves(g, m + 1)
    <3> HIDE DEF g
    <3> QED BY <2>5, <2>6
  <2> HIDE DEF Solves, g
  <2> QED BY <2>7
<1>3. Nat \subseteq S
  <2> HIDE DEF S
  <2> QED BY <1>1, <1>2, SetInduction
<1>4. PICK f : f = [k \in 0..n |-> RadiosStep(j, f, k)]
  BY <1>3
<1> DEFINE after == RadiosUpTo(j, n)
<1>5. after = [k \in 0..n |-> RadiosStep(j, after, k)]
  BY <1>4 DEF RadiosUpTo
<1>6. \A k \in 0..n : after[k] = RadiosStep(j, after, k)
  <2> HIDE DEF after
  <2> QED BY <1>5
<1> HIDE DEF after
<1>7. after[0] = {PowerOn} /\ \A k \in 1..n : after[k] = Follow(j, k, after[k-1])
  BY <1>6 DEF RadiosStep
<1> QED BY <1>7 DEF after

(* A request more is a step more from where the others may have led.       *)
LEMMA RadiosGrow ==
    ASSUME NEW i, NEW j, NEW n \in Nat, \A k \in 1..n : j[k] = i[k]
    PROVE  RadiosUpTo(j, n + 1)[n + 1] = Follow(j, n + 1, RadiosUpTo(i, n)[n])
<1> DEFINE f == RadiosUpTo(i, n)
           g == RadiosUpTo(j, n + 1)
<1>1. f[0] = {PowerOn} /\ \A k \in 1..n : f[k] = Follow(i, k, f[k-1])
  BY RadiosEquations
<1>2. g[0] = {PowerOn} /\ \A k \in 1..(n+1) : g[k] = Follow(j, k, g[k-1])
  BY RadiosEquations
<1> HIDE DEF f, g
<1>3. \A k \in 1..n : \A radios : Follow(j, k, radios) = Follow(i, k, radios)
  BY DEF Follow
<1>4. \A k \in 1..n : f[k-1] = g[k-1] => f[k] = g[k]
  BY <1>1, <1>2, <1>3
<1>5. \A k \in 0..n : f[k] = g[k]
  BY <1>1, <1>2, <1>4, RecursionUnique
<1>6. g[n+1] = Follow(j, n+1, f[n])
  BY <1>2, <1>5
<1> QED BY <1>6 DEF f, g

LEMMA RadiosAfterIs ==
    ASSUME NEW n
    PROVE  RadiosAfter(n) = RadiosUpTo(journal, n)[n]
BY DEF RadiosAfter, RadiosUpTo, RadiosStep, Follow

(* Every knob that is told is one the radio has.                           *)
OfKnobs(t) == DOMAIN t \subseteq Knobs

LEMMA ToldKnobs ==
    ASSUME NEW a, NEW r
    PROVE  DOMAIN Radio!Told(a, r) \subseteq Knobs
<1>1. \A k \in Knobs : \A v : OfKnobs(Radio!Turns(k, v))
  BY DEF Radio!Turns, OfKnobs
<1>2. OfKnobs(Radio!Nothing)
  BY DEF Radio!Nothing, OfKnobs
<1>3. \A b, v : OfKnobs([split |-> b, vfoS |-> v])
  BY DEF OfKnobs, Knobs
<1>4. \A v : Radio!FreqOf(v) \in Knobs
  BY DEF Radio!FreqOf, Knobs
<1>5. {"vfo", "mode", "ptt", "lock", "ritFreq", "xitFreq", "rit", "xit", "freqA", "freqB"} \subseteq Knobs
  BY DEF Knobs
<1>6. OfKnobs(Radio!ToldByRig(a, r))
  BY <1>1, <1>2, <1>3, <1>4, <1>5 DEF Radio!ToldByRig
<1>7. OfKnobs(Radio!ToldByCat(a, r))
  BY <1>1, <1>2, <1>3, <1>4, <1>5 DEF Radio!ToldByCat, Radio!Stepped
<1> QED BY <1>6, <1>7 DEF Radio!Told, OfKnobs

LEMMA ObeyedIsAfter ==
    ASSUME NEW a, NEW r \in Settings, NEW s \in Settings, Radio!Obeyed(Radio!Told(a, r), r, s)
    PROVE  s \in SettingsAfter(a, r)
<1> DEFINE told == Radio!Told(a, r)
           new  == [k \in DOMAIN told |-> s[k]]
<1>1. DOMAIN r = Knobs /\ DOMAIN s = Knobs /\ DOMAIN told \subseteq Knobs
  BY SettingsKnobs, ToldKnobs
<1>2. \A k \in Knobs : s[k] \in IF k \in DOMAIN told THEN told[k] ELSE {r[k]}
  BY <1>1 DEF Radio!Obeyed
<1> HIDE DEF told
<1>3. new \in [DOMAIN told -> UNION {told[k] : k \in DOMAIN told}] /\ \A k \in DOMAIN told : new[k] \in told[k]
  BY <1>1, <1>2
<1>4. s = [k \in DOMAIN r |-> IF k \in DOMAIN told THEN new[k] ELSE r[k]]
  <2>1. s = [k \in DOMAIN r |-> s[k]]
    BY <1>1 DEF Settings
  <2>2. \A k \in DOMAIN r : s[k] = IF k \in DOMAIN told THEN new[k] ELSE r[k]
    BY <1>1, <1>2
  <2> HIDE DEF new
  <2> QED BY <2>1, <2>2
<1> HIDE DEF new
<1> QED BY <1>3, <1>4 DEF SettingsAfter, told

(***************************************************************************)
(* One order explains it all: from power-on, the requests of all clients   *)
(* one after the other lead to the settings as they are.  Nothing else     *)
(* turns a knob, neither a connection that ends nor what lies in a         *)
(* message, and no request is lost or done twice.                          *)
(***************************************************************************)
THEOREM OneOrderExplainsAll == SharedSpec => []Serializable
<1>1. SharedInit => JournalOK /\ Serializable
  <2> SUFFICES ASSUME SharedInit PROVE JournalOK /\ Serializable
    OBVIOUS
  <2>1. journal = <<>> /\ radio = PowerOn
    BY DEF SharedInit, StationInit
  <2>2. Len(journal) = 0
    BY <2>1
  <2>3. RadiosAfter(Len(journal)) = {PowerOn}
    BY <2>2, RadiosAfterIs, RadiosEquations
  <2> QED BY <2>1, <2>3 DEF JournalOK, Serializable
<1>2. TypeOK /\ SlotsOK /\ StationTypeOK /\ StationTypeOK' /\ JournalOK /\ Serializable
      /\ [SharedNext]_allVars => JournalOK' /\ Serializable'
  <2> SUFFICES ASSUME TypeOK, SlotsOK, StationTypeOK, StationTypeOK', JournalOK, Serializable,
                      [SharedNext]_allVars
               PROVE  JournalOK' /\ Serializable'
    OBVIOUS
  <2>1. CASE UNCHANGED <<stationVars, journal>>
    BY <2>1 DEF stationVars, JournalOK, Serializable, RadiosAfter
  <2>2. ASSUME NEW c, StationNext, journal' = Append(journal, [from |-> c, answer |-> answer'])
        PROVE  JournalOK' /\ Serializable'
    <3> DEFINE n == Len(journal)
    <3>1. PICK S : journal \in Seq(S)
      BY DEF JournalOK
    <3>2. /\ JournalOK' /\ n \in Nat /\ Len(journal') = n + 1
          /\ \A k \in 1..n : journal'[k] = journal[k]
          /\ journal'[n + 1].answer = answer'
      BY <2>2, <3>1, AnswersGrow
    <3> HIDE DEF n
    <3>3. radio \in Settings /\ radio' \in Settings
      BY DEF StationTypeOK
    <3>4. radio' \in SettingsAfter(answer', radio)
      <4>1. Radio!Obeyed(Radio!Told(answer', radio), radio, radio')
        BY <2>2, Handled DEF RigHandled, CatHandled
      <4> QED BY <3>3, <4>1, ObeyedIsAfter
    <3>5. radio \in RadiosUpTo(journal, n)[n]
      BY RadiosAfterIs DEF Serializable, n
    <3>6. RadiosUpTo(journal', n + 1)[n + 1] = Follow(journal', n + 1, RadiosUpTo(journal, n)[n])
      BY <3>2, RadiosGrow
    <3>7. radio' \in RadiosUpTo(journal', n + 1)[n + 1]
      BY <3>2, <3>4, <3>5, <3>6 DEF Follow
    <3>8. RadiosAfter(Len(journal))' = RadiosUpTo(journal', n + 1)[n + 1]
      BY <3>2 DEF RadiosAfter, RadiosUpTo, RadiosStep, Follow
    <3> QED BY <3>2, <3>7, <3>8 DEF Serializable
  <2> QED BY <2>1, <2>2, JournalKept
<1> QED BY <1>1, <1>2, LoopIsServer, Inductive, LoopDrivesStation, StationTypes, PTL DEF SharedSpec
=============================================================================
