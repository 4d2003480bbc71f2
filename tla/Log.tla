--------------------------------- MODULE Log ---------------------------------
(***************************************************************************)
(* The log of the program, log.c as config.c sets it up, and the signals   *)
(* that end it: handle_signal_action() of main.c logs, too, and may do so  *)
(* in the middle of a log_log() of the thread it interrupts.               *)
(*                                                                         *)
(* log_log() has no lock here (log_set_lock() is never called), but the    *)
(* time zone of the C library has one, which localtime() takes, and        *)
(* strftime() in the callbacks, and localtime() one static result, which   *)
(* ev.time points to.  The lock of a FILE lets the same thread in again.   *)
(* A line is three prints; one of them is a step.                          *)
(***************************************************************************)
EXTENDS Integers, Sequences, SequencesExt

CONSTANTS
    Levels,      \* the levels of the log that are told apart
    MaxEvents,   \* bound on the lines the program logs
    MaxDepth     \* bound on the calls in progress, the program and its handlers

LOG_TRACE == 0
LOG_INFO  == 2
LOG_ERROR == 4

ASSUME LogAssumption ==
    Levels \subseteq LOG_TRACE..LOG_ERROR /\ MaxEvents \in Nat /\ MaxDepth \in Nat

Outputs == {"stderr", "file"}

(* The prints of a line: its time, level and place; its text; its end. *)
Parts == 1..3

VARIABLES
    L,         \* the level, whether quiet, and whether there is a file callback
    sa_flags,  \* what the uninitialized flags say of a second signal of a kind
    stack,     \* the calls in progress, the program first, the last handler last
    made,      \* every event, in the order log_log() was called
    tm,        \* whose time lies in the result of localtime()
    out,       \* what was printed to each output: whose, which part, which time
    ended      \* the process is gone

vars == <<L, sa_flags, stack, made, tm, out, ended>>

Signals == {"SIGINT", "SIGPIPE"}

(* A call: the signal it handles, the events it has yet to log, and where  *)
(* in log_log() it is with the first of them: the output it works for, the *)
(* part it prints next, and the time its callback has in buf.              *)
Call(signal, todo) ==
    [signal |-> signal, todo |-> todo, at |-> "outside", udata |-> "stderr", part |-> 1, buf |-> 0]

Init ==
    /\ L \in [level : Levels, quiet : BOOLEAN, output : BOOLEAN]
    /\ sa_flags \in {"blocks", "nests", "resets"}
    /\ stack = <<Call("none", <<>>)>>
    /\ made = <<>> /\ tm = 0 /\ out = [o \in Outputs |-> <<>>] /\ ended = FALSE

----------------------------------------------------------------------------
Top      == Last(stack)
Event    == Head(Top.todo)

(* Mutant: a file that takes what is above the level only. *)
TakesLess(o, e) ==
    IF o = "stderr" THEN ~L.quiet /\ e.level >= L.level ELSE L.output /\ e.level > L.level

(* Whether log_log() calls the callback of an output: at most one file. *)
Takes(o, e) ==
    IF o = "stderr" THEN ~L.quiet /\ e.level >= L.level ELSE L.output /\ e.level >= L.level

Becomes(call) == stack' = [stack EXCEPT ![Len(stack)] = call]
Proceed(at)   == Becomes([Top EXCEPT !.at = at])
Return        == Becomes([Top EXCEPT !.todo = Tail(Top.todo), !.at = "outside"])

(* The callback for an output comes next. *)
Prepared(at, o) == [Top EXCEPT !.at = at, !.udata = o, !.part = 1]

(* Some line of the program calls log_log(). *)
Logs(level) ==
    /\ ~ended /\ Len(stack) = 1 /\ Top.todo = <<>> /\ Len(made) < MaxEvents
    /\ stack' = [stack EXCEPT ![1].todo = <<[id |-> Len(made) + 1, level |-> level]>>]
    /\ UNCHANGED <<L, sa_flags, made, tm, out, ended>>

(* log_log() of an event: one that no output takes needs no time. *)
Enter ==
    /\ ~ended /\ Top.todo # <<>> /\ Top.at = "outside"
    /\ made' = Append(made, Event)
    /\ \/ Takes("stderr", Event) /\ Becomes(Prepared("init_event", "stderr"))
       \/ ~Takes("stderr", Event) /\ Takes("file", Event) /\ Becomes(Prepared("init_event", "file"))
       \/ ~Takes("stderr", Event) /\ ~Takes("file", Event) /\ Return
    /\ UNCHANGED <<L, sa_flags, tm, out, ended>>

(* The lock of the time zone is taken. *)
Locked == \E k \in 1..Len(stack) : stack[k].at \in {"localtime", "strftime"}

(* localtime() and strftime() enter their lock... *)
TakeLock ==
    /\ ~ended /\ Top.at \in {"init_event", "callback"} /\ ~Locked
    /\ Proceed(IF Top.at = "init_event" THEN "localtime" ELSE "strftime")
    /\ UNCHANGED <<L, sa_flags, made, tm, out, ended>>

(* ...and leave it: init_event() has the time, for both outputs, *)
HaveTime ==
    /\ ~ended /\ Top.at = "localtime"
    /\ tm' = Event.id
    /\ Proceed("callback")
    /\ UNCHANGED <<L, sa_flags, made, out, ended>>

(* and the callback has its text. *)
HaveText ==
    /\ ~ended /\ Top.at = "strftime"
    /\ Becomes([Top EXCEPT !.at = "print", !.buf = tm])
    /\ UNCHANGED <<L, sa_flags, made, tm, out, ended>>

(* stdout_callback() and file_callback(): fprintf(), vfprintf(), and again *)
(* fprintf() with the flush.                                               *)
PrintPart ==
    /\ ~ended /\ Top.at = "print"
    /\ out' = [out EXCEPT ![Top.udata] = Append(@, [id |-> Event.id, part |-> Top.part, time |-> Top.buf])]
    /\ \/ Top.part # 3 /\ Becomes([Top EXCEPT !.part = @ + 1])
       \/ /\ Top.part = 3 /\ Top.udata = "stderr" /\ Takes("file", Event)
          /\ Becomes(Prepared("callback", "file"))
       \/ Top.part = 3 /\ ~(Top.udata = "stderr" /\ Takes("file", Event)) /\ Return
    /\ UNCHANGED <<L, sa_flags, made, tm, ended>>

----------------------------------------------------------------------------
(* SIGINT comes at any time, SIGPIPE from a send() of the program. *)
Raised(s) ==
    /\ ~ended /\ Len(stack) < MaxDepth
    /\ s = "SIGPIPE" => Len(stack) = 1 /\ Top.todo = <<>>

Handling(s) == \E k \in 1..Len(stack) : stack[k].signal = s

(* handle_signal_action(), with the two lines it and shutdown_srv() log:   *)
(* no other event has their numbers.                                       *)
LinesAt(depth) == [n \in 1..2 |-> [id |-> MaxEvents + 2 * depth + n, level |-> LOG_INFO]]

Signal(s) ==
    /\ Raised(s) /\ (Handling(s) => sa_flags = "nests")
    /\ stack' = Append(stack, Call(s, LinesAt(Len(stack))))
    /\ UNCHANGED <<L, sa_flags, made, tm, out, ended>>

(* A second signal finds the default action. *)
Killed(s) ==
    /\ Raised(s) /\ Handling(s) /\ sa_flags = "resets"
    /\ ended' = TRUE
    /\ UNCHANGED <<L, sa_flags, stack, made, tm, out>>

(* Mutant: a handler that only logs, and returns to what it interrupted. *)
HandlerReturns ==
    /\ ~ended /\ Len(stack) > 1 /\ Top.todo = <<>>
    /\ stack' = Front(stack)
    /\ UNCHANGED <<L, sa_flags, made, tm, out, ended>>

(* shutdown_srv(): exit() in the handler. *)
shutdown_srv ==
    /\ ~ended /\ Len(stack) > 1 /\ Top.todo = <<>>
    /\ ended' = TRUE
    /\ UNCHANGED <<L, sa_flags, stack, made, tm, out>>

----------------------------------------------------------------------------
Goes == Enter \/ TakeLock \/ HaveTime \/ HaveText \/ PrintPart \/ shutdown_srv

Next ==
    \/ Goes
    \/ \E level \in Levels : Logs(level)
    \/ \E s \in Signals : Signal(s) \/ Killed(s)

Spec == Init /\ [][Next]_vars

(* The thread goes on with what it is doing. *)
FairSpec == Spec /\ WF_vars(Goes)

----------------------------------------------------------------------------
(* What of the line at which a call was interrupted was not printed to an  *)
(* output: all of it, if the call had not come to that output.             *)
LeftBy(call, o) ==
    { <<Head(call.todo).id, part>> : part \in
        { p \in Parts : /\ call.at # "outside"
                        /\ \/ call.udata = o /\ p >= call.part
                           \/ call.udata = "stderr" /\ o = "file" } }

Left(o) == UNION {LeftBy(stack[k], o) : k \in 1..Len(stack)}

(* The events an output is there for. *)
Wanted(o) == {m \in DOMAIN made : made[m].level >= L.level /\ IF o = "stderr" THEN ~L.quiet ELSE L.output}

(* Both outputs have all parts of every event of their level, in the order *)
(* the program and its handlers logged them, and the parts of a line stand *)
(* together: a signal costs at most what was left of the line it fell into *)
(* (log.c:55-68, 150-165, main.c:23).                                      *)
NothingLost ==
    \A o \in Outputs :
        LET prints == out[o]
        IN  /\ {<<prints[k].id, prints[k].part>> : k \in DOMAIN prints}
                  = {<<made[n].id, part>> : n \in Wanted(o), part \in Parts} \ Left(o)
            /\ \A j, k \in DOMAIN prints : \A m, n \in DOMAIN made :
                  j < k /\ prints[j].id = made[m].id /\ prints[k].id = made[n].id
                      => m < n \/ (m = n /\ prints[j].part < prints[k].part)

(* A line has the time of its own event, although all times are in one     *)
(* static result that a handler overwrites: it does not return to a        *)
(* log_log() that has still to use it (log.c:55, 134, main.c:17).          *)
StampedByOwnTime ==
    \A o \in Outputs : \A k \in DOMAIN out[o] : out[o][k].time = out[o][k].id

(* The handler waits for the lock the thread holds: only when it has       *)
(* something to log, which at the level without -v it has not.             *)
Stuck == Len(stack) > 1 /\ Top.at = "init_event" /\ Locked /\ L.level <= LOG_INFO

(* A signal that is handled ends the process, unless it came during        *)
(* localtime() or strftime() (log.c:55, 74, 134): then its own log_info()  *)
(* never returns.                                                          *)
SignalEnds == (Len(stack) > 1) ~> (ended \/ Stuck)
=============================================================================
