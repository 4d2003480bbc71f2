----------------------------- MODULE LineServer -----------------------------
(***************************************************************************)
(* What the RigCTL server promises to its clients, without descriptors,    *)
(* slots or a poll loop: every connection is a session of its own.  The    *)
(* bytes of a session are framed by themselves, whatever the others do,    *)
(* and its requests are answered in order, each at most once.              *)
(***************************************************************************)
EXTENDS Framing

CONSTANT Conns     \* the connections clients may open

VARIABLES
    channel,   \* the protocol of the session, fixed by the port it came in on
    stage,     \* "away" until admitted, "served", then "gone"
    partial,   \* the request that is being collected
    handled,   \* the requests handled
    replies    \* the answers sent, as the requests they answer

vars == <<channel, stage, partial, handled, replies>>

Init ==
    /\ channel \in [Conns -> Channel]
    /\ stage = [c \in Conns |-> "away"]
    /\ partial = [c \in Conns |-> <<>>]
    /\ handled = [c \in Conns |-> <<>>]
    /\ replies = [c \in Conns |-> <<>>]

Admit(c) ==
    /\ stage[c] = "away"
    /\ stage' = [stage EXCEPT ![c] = "served"]
    /\ UNCHANGED <<channel, partial, handled, replies>>

Refuse(c) ==
    /\ stage[c] = "away"
    /\ stage' = [stage EXCEPT ![c] = "gone"]
    /\ UNCHANGED <<channel, partial, handled, replies>>

(* A byte of session c arrives: only the state of c moves. *)
Take(c, b) ==
    /\ stage[c] = "served"
    /\ IF Len(partial[c]) < RxSize /\ Completes(channel[c], b, partial[c])
       THEN /\ handled' = [handled EXCEPT ![c] = Append(@, partial[c])]
            /\ partial' = [partial EXCEPT ![c] = <<>>]
       ELSE /\ partial' = [partial EXCEPT ![c] =
                    IF Len(@) < RxSize /\ Accepts(channel[c], b) THEN Append(@, b) ELSE <<>>]
            /\ UNCHANGED handled
    /\ UNCHANGED <<channel, stage, replies>>

(* The next answer that is due goes out. *)
Reply(c) ==
    LET due == Answerable(channel[c], handled[c])
        n   == Len(replies[c]) + 1
    IN  /\ stage[c] = "served" /\ n <= Len(due)
        /\ replies' = [replies EXCEPT ![c] = Append(@, due[n])]
        /\ UNCHANGED <<channel, stage, partial, handled>>

Leave(c) ==
    /\ stage[c] = "served"
    /\ stage' = [stage EXCEPT ![c] = "gone"]
    /\ partial' = [partial EXCEPT ![c] = <<>>]
    /\ UNCHANGED <<channel, handled, replies>>

(* The process ends, and with it every session and some that only waited. *)
Stop(waiting) ==
    /\ stage' = [c \in Conns |-> IF stage[c] = "served" \/ c \in waiting THEN "gone" ELSE stage[c]]
    /\ partial' = [c \in Conns |-> <<>>]
    /\ UNCHANGED <<channel, handled, replies>>

Next ==
    \/ \E waiting \in SUBSET Conns : Stop(waiting)
    \/ \E c \in Conns : Admit(c) \/ Refuse(c) \/ Reply(c) \/ Leave(c) \/ \E b \in Byte : Take(c, b)

Spec == Init /\ [][Next]_vars
=============================================================================
