------------------------------ MODULE Framing ------------------------------
(***************************************************************************)
(* How network.c turns a byte stream into requests.  receive_from_peer()   *)
(* feeds one byte at a time into peer[idx].rxbuf; the rule depends on the  *)
(* channel the connection came in on: 1 is the Hamlib "rigctl" protocol    *)
(* (lines), 2 the Kenwood CAT protocol (requests closed by ';').           *)
(*                                                                         *)
(* Bytes are abstracted to the classes the code tells apart.               *)
(***************************************************************************)
EXTENDS Naturals, Sequences, FiniteSets, SequencesExt

CONSTANTS
    Alnum,    \* bytes '0'..'9' and 'A'..'Z' (and the other letters of channel 1)
    Quit,     \* the one of them that stands for 'q' and 'Q'
    Mute,     \* the requests of each channel that are handled but not answered
    Hash,     \* '#', printable but not a CAT byte
    Plus,     \* '+', likewise
    Semi,     \* ';', the terminator of channel 2; for channel 1 any of " ;|,"
    Eol,      \* '\n' or '\r'
    Bad,      \* any byte neither protocol accepts
    RxSize    \* PEER_MAX_RX_SIZE

(* A line strtok() finds no command word in, with the '+' that asks for a  *)
(* long answer skipped or not (rigctl.c:1019-1045).                        *)
Wordless(r) ==
    /\ Head(r) \in {Plus, Semi}
    /\ \A k \in 2..Len(r) : r[k] = Semi

(* The classes are apart, and what is silent is what reached a handler and *)
(* not a close, a comment or a line without a command (rigctl.c:1030).     *)
ASSUME FramingAssumption ==
    /\ Quit \in Alnum
    /\ {Hash, Plus, Semi, Eol, Bad} \cap Alnum = {}
    /\ Cardinality({Hash, Plus, Semi, Eol, Bad}) = 5
    /\ RxSize \in Nat \ {0}
    /\ \A r \in Mute[1] : Head(r) \notin {Quit, Hash} /\ ~Wordless(r)

Byte == Alnum \cup {Hash, Plus, Semi, Eol, Bad}

Channel == {1, 2}

(* Mutant: a CAT request may have one letter. *)
CompletesShort(chn, b, rx) ==
    \/ chn = 1 /\ b = Eol /\ Len(rx) > 0
    \/ chn = 2 /\ b = Semi /\ Len(rx) > 0

(* The byte closes the request collected so far. *)
Completes(chn, b, rx) ==
    \/ chn = 1 /\ b = Eol /\ Len(rx) > 0
    \/ chn = 2 /\ b = Semi /\ Len(rx) > 1

(* The byte belongs in the receive buffer of a connection of this channel. *)
Accepts(chn, b) ==
    \/ chn = 1 /\ b \in Alnum \cup {Hash, Plus, Semi}
    \/ chn = 2 /\ b \in Alnum

(* Mutant: an empty answer is sent, too. *)
OutcomeSent(chn, request) ==
    CASE chn = 1 /\ Head(request) = Quit           -> "close"
      [] chn = 1 /\ Head(request) = Hash           -> "silent"
      [] chn = 1 /\ Wordless(request)              -> "crash"
      [] OTHER                                     -> "answer"

(***************************************************************************)
(* What the request handler of the channel does with a complete request:   *)
(* rigctl_req() returns -1 for a line that starts with q, nothing for a    *)
(* comment; a line of delimiters only, or '+' and nothing else but those,  *)
(* has no command word, so strtok() yields NULL and the process dies in    *)
(* strcmp() (rigctl.c:1063).  commcat_req() never asks to close.  Requests *)
(* of either protocol may be silent.                                       *)
(***************************************************************************)
Outcome(chn, request) ==
    CASE chn = 1 /\ Head(request) = Quit           -> "close"
      [] chn = 1 /\ Head(request) = Hash           -> "silent"
      [] chn = 1 /\ Wordless(request)              -> "crash"
      [] request \in Mute[chn]                      -> "silent"
      [] OTHER                                     -> "answer"

(* The requests of a channel that produce an answer, in order. *)
Answerable(chn, requests) ==
    LET upTo[n \in 0..Len(requests)] ==
            IF n = 0 THEN <<>>
            ELSE IF Outcome(chn, requests[n]) = "answer"
            THEN Append(upTo[n-1], requests[n])
            ELSE upTo[n-1]
    IN  upTo[Len(requests)]

----------------------------------------------------------------------------
(***************************************************************************)
(* Reference definition of the framing, on a whole stream at once: a       *)
(* request is a maximal run of accepted bytes that is directly followed by *)
(* the terminator of the channel (and is long enough to count as one).     *)
(***************************************************************************)
Terminator(chn) == IF chn = 1 THEN Eol ELSE Semi

(* Start of the maximal run of accepted bytes that ends at position p. *)
RunStart(chn, s, p) ==
    CHOOSE q \in 1..p : /\ \A k \in q..p : Accepts(chn, s[k])
                        /\ q = 1 \/ ~Accepts(chn, s[q-1])

RequestEnds(chn, s) ==
    { p \in 1..(Len(s) - 1) :
        /\ s[p+1] = Terminator(chn)
        /\ \A k \in (IF chn = 1 THEN p ELSE p-1)..p : k > 0 /\ Accepts(chn, s[k]) }

RequestsOf(chn, s) ==
    LET upTo[p \in 0..Len(s)] ==
            IF p = 0 THEN <<>>
            ELSE IF p \in RequestEnds(chn, s)
            THEN Append(upTo[p-1], SubSeq(s, RunStart(chn, s, p), p))
            ELSE upTo[p-1]
    IN  upTo[Len(s)]

(* No run of accepted bytes of s overflows the receive buffer. *)
FitsBuffer(chn, s) ==
    \A p \in 1..Len(s) : Accepts(chn, s[p]) => p - RunStart(chn, s, p) < RxSize - 1
=============================================================================
