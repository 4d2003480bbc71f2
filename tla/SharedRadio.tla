----------------------------- MODULE SharedRadio -----------------------------
(***************************************************************************)
(* The whole program while it serves: the event loop of PollServer calls   *)
(* the handlers of Station, for all clients of both ports, on the one      *)
(* transceiver.  PollServer knows a request by its bytes and an answer by  *)
(* the request; here a request has a meaning, its handler runs in the step *)
(* that completes it, and what it says goes through peer_txbuf, the buffer *)
(* all connections share, to the client.                                   *)
(***************************************************************************)
EXTENDS PollServer, Station, TLC

CONSTANTS
    Meaning(_, _)   \* the request of Station that the bytes mean on a channel

VARIABLES
    peer_txbuf,   \* the last answer a handler wrote
    journal,      \* every request carried out: whose it was, and its answer
    delivered     \* what each client was sent

shared  == <<stationVars, peer_txbuf, journal, delivered>>
allVars == <<vars, shared>>

SharedInit ==
    /\ Init
    /\ StationInit
    /\ peer_txbuf = answer
    /\ journal = <<>>
    /\ delivered = [c \in Conns |-> <<>>]

(* Neither a call to close nor a comment reaches a handler (rigctl.c:1036). *)
IsCommand(chn, request) == Outcome(chn, request) # "close" /\ ~(chn = 1 /\ Head(request) = Hash)

(* The handler wrote something: a text, or in rigctl.c a report. *)
Speaks(chn, a) ==
    \/ chn = 1 /\ (a.says # Rig!Nothing \/ a.rprt # Rig!RIG_EEND)
    \/ chn = 2 /\ a.says # Cat!Silence

(* The requests whose handler has nothing to say, whatever the settings:   *)
(* functions without callbacks, and the settings of CAT.                   *)
RigIsMute(q) ==
    /\ q.cmd \in {"set_func", "get_func"}
    /\ q.parm # <<>> /\ q.parm[1].lead # "?"
    /\ q.parm[1].text \in IdleFunctions \ {"RIT", "XIT"}

CatIsMute(q) ==
    \/ q.cmd \in {"RU", "RD"}
    \/ /\ q.cmd \in {"FA", "ZZFA", "FB", "ZZFB", "FR", "FT", "MD", "RT", "XT",
                      "AG0", "AG", "ZZAG", "PC", "KS", "NB"}
       /\ q.parm # <<>>

(* What can be collected as a request. *)
Line == UNION { [1..n -> Byte] : n \in 1..(RxSize - 1) }

(* Bytes that reach a handler are a request of its protocol, and Mute has  *)
(* those that get no answer from it.                                       *)
ASSUME MeaningAssumption ==
    \A chn \in Channel : \A r \in Line :
        IsCommand(chn, r) /\ Outcome(chn, r) # "crash" =>
            IF chn = 1 THEN /\ Meaning(1, r) \in RigRequests
                            /\ r \in Mute[1] <=> RigIsMute(Meaning(1, r))
                       ELSE /\ Meaning(2, r) \in CatRequests
                            /\ r \in Mute[2] <=> CatIsMute(Meaning(2, r))

(* rigctl_req() or commcat_req() on the request just completed. *)
Handles(c) ==
    LET request == Last(handled'[c])
    IN  /\ handled'[c] # handled[c]
        /\ IF IsCommand(Chn, request)
           THEN /\ IF Chn = 1 THEN RigRequest(Meaning(1, request))
                              ELSE CatRequest(Meaning(2, request))
                /\ journal' = Append(journal, [from |-> c, answer |-> answer'])
                /\ peer_txbuf' = IF Speaks(Chn, answer') THEN answer' ELSE peer_txbuf
           ELSE UNCHANGED <<stationVars, journal, peer_txbuf>>
        /\ UNCHANGED delivered

(* send() of what lies in peer_txbuf. *)
Sends(c) ==
    /\ replies'[c] # replies[c]
    /\ delivered' = [delivered EXCEPT ![c] = Append(@, peer_txbuf)]
    /\ UNCHANGED <<stationVars, journal, peer_txbuf>>

ServerStep ==
    /\ Server
    /\ \/ \E c \in Conns : Handles(c) \/ Sends(c)
       \/ handled' = handled /\ replies' = replies /\ UNCHANGED shared

SharedNext ==
    \/ ServerStep
    \/ (Interrupt \/ \E c \in Conns : Client(c)) /\ UNCHANGED shared

SharedSpec == SharedInit /\ [][SharedNext]_allVars

(* The fairness of PoliteSpec: no handler waits for anything. *)
Fairness == WF_vars(Server) /\ \A c \in Conns : WF_vars(ClientRead(c))

----------------------------------------------------------------------------
(* Properties *)

(* The elements of a sequence at the positions in T, in order. *)
Chosen(s, T) ==
    LET upTo[n \in 0..Len(s)] ==
            IF n = 0 THEN <<>>
            ELSE IF n \in T THEN Append(upTo[n-1], s[n]) ELSE upTo[n-1]
    IN  upTo[Len(s)]

(* The settings a request may leave where it found r, by the words of      *)
(* Transceiver alone, and those that the first n requests may have left.   *)
SettingsAfter(a, r) ==
    LET told    == Radio!Told(a, r)
        choices == [DOMAIN told -> UNION {told[k] : k \in DOMAIN told}]
    IN  { [k \in DOMAIN r |-> IF k \in DOMAIN told THEN new[k] ELSE r[k]] :
            new \in {f \in choices : \A k \in DOMAIN told : f[k] \in told[k]} }

RadiosAfter(n) ==
    LET after[k \in 0..n] ==
            IF k = 0 THEN {PowerOn}
            ELSE UNION {SettingsAfter(journal[k].answer, r) : r \in after[k-1]}
    IN  after[n]

Answers == [n \in DOMAIN journal |-> journal[n].answer]

(* The commands carried out for a client, and those its bytes mean. *)
Command(q) == [cmd |-> q.cmd, parm |-> q.parm]

CarriedOut(c) ==
    Chosen([n \in DOMAIN journal |-> Command(journal[n].answer)],
           {n \in DOMAIN journal : journal[n].from = c})

Meant(chn, requests) ==
    Chosen([k \in DOMAIN requests |-> Command(Meaning(chn, requests[k]))],
           {k \in DOMAIN requests : IsCommand(chn, requests[k])})

(***************************************************************************)
(* The requests carried out for a client are those in the bytes it sent,   *)
(* in their order, whatever slots, leftovers and departures of others lay  *)
(* between them.                                                           *)
(***************************************************************************)
CarriesOutWhatWasSent ==
    \A c \in Conns :
        LET chn == Chan(port[c])
        IN  FitsBuffer(chn, got[c]) /\ why # "crash"
                => CarriedOut(c) = Meant(chn, RequestsOf(chn, got[c]))

(***************************************************************************)
(* One order explains it all: the transceiver is where the requests of     *)
(* all clients, one after the other, have put it, those of clients that    *)
(* are gone included (network.c:146: nothing is undone).                   *)
(***************************************************************************)
Serializable == radio \in RadiosAfter(Len(journal))

(***************************************************************************)
(* A client is sent the answers to its own requests, each once, in order,  *)
(* although all answers pass through one static buffer that a request      *)
(* without an answer does not overwrite (network.c:39).                    *)
(***************************************************************************)
AnswersTo(c) ==
    Chosen(Answers, {n \in DOMAIN journal :
                        journal[n].from = c /\ Speaks(Chan(port[c]), journal[n].answer)})

OwnAnswers ==
    \A c \in Served :
        ~rst[c] /\ ~(pc = "send" /\ Current(c)) => delivered[c] = AnswersTo(c)

(***************************************************************************)
(* send() is called for what a handler has just written, and never for the *)
(* text that lies there from a request before: the length that is returned *)
(* is that of the new text (network.c:76, 105).                            *)
(***************************************************************************)
Written ==
    \A c \in Conns : handled'[c] # handled[c] =>
        (pc' = "send" <=> IsCommand(Chn, Last(handled'[c])) /\ Speaks(Chn, answer'))

SendsWhatWasWritten == [][Written]_allVars

(***************************************************************************)
(* However long send() waits, what it sends is true when it goes out: it   *)
(* shows the settings as they are, for no other request is carried out     *)
(* before it.                                                              *)
(***************************************************************************)
AnswersAreCurrent ==
    pc = "send" => Radio!Shows(peer_txbuf.says, Radio!Shown(peer_txbuf, radio))

(***************************************************************************)
(* Every request that reached the machine of the server is carried out,    *)
(* the last one of a client that has left since included: a transmitter    *)
(* that its client turned off before it went is off.  Not so once a        *)
(* connection was reset: its own requests are dropped with it, and the     *)
(* events it leaves in its slot can close another one (network.c:242).     *)
(***************************************************************************)
Arrived(c) == Cardinality(RequestEnds(Chan(port[c]), got[c] \o input[c]))

ServesWhatArrived ==
    \A c \in Conns : \A n \in 1..2 :
        (tcp[c] = "open" /\ Arrived(c) >= n)
            ~> (Len(handled[c]) >= n \/ AskedToQuit(c) \/ ~Running \/ \E d \in Conns : rst[d])
=============================================================================
