---------------------------- MODULE MCPollServer ----------------------------
(* Small instances of PollServer for TLC. *)
EXTENDS PollServer, TLC

CONSTANTS c1, c2, c3, A, Q

Both    == <<RigSock, CatSock>>
RigOnly == <<RigSock>>

(* A request of each protocol that is not answered.                        *)
MuteRequests == <<{<<A, A>>}, {<<A, Q>>}>>

(* A request of either protocol; every prefix may be left in the buffer.    *)
MixedStreams == { <<A, Eol>>, <<A, A, Semi>> }

(* The second client speaks the protocol of its port; the first need not.  *)
SessionsInit ==
    /\ Init
    /\ script[c2] = IF port[c2] = RigSock THEN <<A, Eol>> ELSE <<A, A, Semi>>

SessionsSpec == SessionsInit /\ [][Next]_vars

ShortStreams == { <<A, Eol>> }

(* Every stream of up to four bytes: all the ways to frame one.            *)
AllStreams == UNION { [1..n -> {A, Q, Hash, Plus, Semi, Eol}] : n \in 0..4 }

QuitStreams == { <<Q, Eol>>, <<A>> }

(* Two requests in a row: the second answer may find the buffers full.     *)
Pipelined == { <<A, Eol, A, Eol>> }

(* One client with two requests, one with a single one. *)
Unequal  == Pipelined \cup ShortStreams
LiveInit == Init /\ script = (c1 :> <<A, Eol, A, Eol>>) @@ (c2 :> <<A, Eol>>)
LiveSpec == LiveInit /\ [][Next]_vars /\ WF_vars(Server) /\ \A c \in Conns : WF_vars(ClientRead(c))
Symmetry == Permutations(Conns)
=============================================================================
