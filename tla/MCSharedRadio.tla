---------------------------- MODULE MCSharedRadio ----------------------------
(* A small instance of SharedRadio for TLC. *)
EXTENDS SharedRadio

CONSTANTS c1, c2, A, Q, M

Both == <<RigSock, CatSock>>

Word(text, lead, num) == [text |-> text, lead |-> lead, num |-> num]

RigMeaning ==
    (<<A>>    :> [cmd |-> "set_ptt", parm |-> <<Word("", "1", 1)>>, long |-> FALSE]) @@
    (<<A, A>> :> [cmd |-> "get_ptt", parm |-> <<>>, long |-> FALSE])

CatMeaning ==
    (<<A, A>> :> [cmd |-> "RX", parm |-> <<>>]) @@
    (<<M, A>> :> [cmd |-> "MD", parm |-> <<[lead |-> 8, num |-> 8, len |-> 1]>>]) @@
    (<<A, M>> :> [cmd |-> "IF", parm |-> <<>>])

(* Bytes of the one protocol on the port of the other mean nothing there. *)
NoRigCommand == [cmd |-> "other", parm |-> <<>>, long |-> FALSE]
NoCatCommand == [cmd |-> "other", parm |-> <<>>]

MCMeaning(chn, request) ==
    IF chn = 1
    THEN IF request \in DOMAIN RigMeaning THEN RigMeaning[request] ELSE NoRigCommand
    ELSE IF request \in DOMAIN CatMeaning THEN CatMeaning[request] ELSE NoCatCommand

MCMute == <<{}, {<<M, A>>}>>

MCRigRequests == {RigMeaning[r] : r \in DOMAIN RigMeaning} \cup {NoRigCommand}
MCCatRequests == {CatMeaning[r] : r \in DOMAIN CatMeaning} \cup {NoCatCommand}

(* A client of each port: T 1 and t against RX; and one that has nothing   *)
(* to say against IF with a silent request behind it.                      *)
Dialogues ==
    { (RigSock :> <<A, Eol, A, A, Eol>>) @@ (CatSock :> <<A, A, Semi>>),
      (RigSock :> <<>>) @@ (CatSock :> <<A, M, Semi, M, A, Semi>>) }

MCScripts == UNION { {d[s] : s \in Listening} : d \in Dialogues }

MCInit ==
    /\ SharedInit
    /\ port = (c1 :> RigSock) @@ (c2 :> CatSock)
    /\ \E d \in Dialogues : \A c \in Conns : script[c] = d[port[c]]

MCSpec     == MCInit /\ [][SharedNext]_allVars
MCFairSpec == MCSpec /\ Fairness

Idle == {"NB"}
=============================================================================
