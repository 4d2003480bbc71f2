------------------------------ MODULE LogProofs ------------------------------
(***************************************************************************)
(* The promises of Log, for any number of events and of handlers one above *)
(* the other.  Both rest on what a handler that never returns makes true:  *)
(* only the last call of the stack moves, so nothing is put between an     *)
(* event and the parts of its line.                                        *)
(***************************************************************************)
EXTENDS Log, TLAPS

Events == [id : Nat, level : Int]
Places == {"outside", "init_event", "localtime", "callback", "strftime", "print"}
Calls  == [signal : Signals \cup {"none"}, todo : Seq(Events), at : Places,
           udata : Outputs, part : Parts, buf : Nat]
Prints == [id : Nat, part : Parts, time : Nat]

LogTypeOK ==
    /\ L \in [level : Levels, quiet : BOOLEAN, output : BOOLEAN]
    /\ stack \in Seq(Calls) /\ stack # <<>>
    /\ made \in Seq(Events)
    /\ tm \in Nat
    /\ out \in [Outputs -> Seq(Prints)]

(* The last call is in log_log() only with an event.                       *)
AtAnEvent == Top.at # "outside" => Top.todo # <<>>

(* The last call has the time it is about to format, or to print.          *)
Stamped ==
    /\ Top.at \in {"callback", "strftime", "print"} => tm = Event.id
    /\ Top.at = "print" => Top.buf = Event.id

LogOK == LogTypeOK /\ AtAnEvent /\ Stamped /\ StampedByOwnTime

(* What the calls below the last one had not printed.                      *)
LeftBelow(o) == UNION {LeftBy(stack[k], o) : k \in 1..(Len(stack)-1)}

(* The last call, and what it works on.                                    *)
LEMMA TopIs ==
    ASSUME LogTypeOK, AtAnEvent
    PROVE  /\ Len(stack) \in Nat \ {0} /\ Top = stack[Len(stack)] /\ Top \in Calls
           /\ Top.at # "outside" => Top.todo # <<>>
           /\ Top.todo # <<>> => /\ Event \in Events /\ Tail(Top.todo) \in Seq(Events)
                                 /\ Len(Top.todo) \in Nat \ {0}
                                 /\ Len(Tail(Top.todo)) = Len(Top.todo) - 1
                                 /\ \A n \in 1..Len(Tail(Top.todo)) : Tail(Top.todo)[n] = Top.todo[n+1]
<1>1. Len(stack) \in Nat \ {0} /\ Top = stack[Len(stack)] /\ Top \in Calls
  BY DEF LogTypeOK, Top, Last
<1>2. Top.todo \in Seq(Events)
  BY <1>1 DEF Calls
<1> QED BY <1>1, <1>2 DEF AtAnEvent, Event

(* The ways the stack changes, as its last element.                        *)
LEMMA BecomesIs ==
    ASSUME LogTypeOK, NEW call \in Calls, Becomes(call)
    PROVE  /\ stack' \in Seq(Calls) /\ stack' # <<>> /\ Len(stack') = Len(stack)
           /\ Top' = call
           /\ \A o : LeftBelow(o)' = LeftBelow(o)
<1> DEFINE n == Len(stack)
<1>1. n \in Nat \ {0} /\ stack \in Seq(Calls)
  BY DEF LogTypeOK
<1>2. stack' = [stack EXCEPT ![n] = call]
  BY DEF Becomes
<1>3. stack' \in Seq(Calls) /\ Len(stack') = n /\ stack'[n] = call
  BY <1>1, <1>2
<1>4. Top' = call
  BY <1>1, <1>3 DEF Top, Last
<1>5. \A k \in 1..(n-1) : stack'[k] = stack[k]
  BY <1>1, <1>2
<1>6. \A o : LeftBelow(o)' = LeftBelow(o)
  BY <1>3, <1>5 DEF LeftBelow, LeftBy
<1> QED BY <1>1, <1>3, <1>4, <1>6

LEMMA PushIs ==
    ASSUME LogTypeOK, NEW s \in Signals, NEW todo \in Seq(Events),
           stack' = Append(stack, Call(s, todo))
    PROVE  /\ stack' \in Seq(Calls) /\ stack' # <<>> /\ Len(stack') = Len(stack) + 1
           /\ Top' = Call(s, todo) /\ Top'.at = "outside" /\ Top'.todo = todo
           /\ \A k \in 1..Len(stack) : stack'[k] = stack[k]
<1>1. Call(s, todo) \in Calls /\ Call(s, todo).at = "outside" /\ Call(s, todo).todo = todo
  BY DEF Call, Calls, Places, Outputs, Parts
<1>2. stack \in Seq(Calls) /\ Len(stack) \in Nat
  BY DEF LogTypeOK
<1>3. /\ stack' \in Seq(Calls) /\ Len(stack') = Len(stack) + 1
      /\ stack'[Len(stack')] = Call(s, todo) /\ \A k \in 1..Len(stack) : stack'[k] = stack[k]
  BY <1>1, <1>2
<1>4. Top' = Call(s, todo)
  BY <1>2, <1>3 DEF Top, Last
<1> QED BY <1>1, <1>2, <1>3, <1>4

(* A call that goes on with its event, and one that is done with it.       *)
Onward(call) == call \in Calls /\ call.at # "outside" /\ call.todo = Top.todo
Done         == [Top EXCEPT !.todo = Tail(Top.todo), !.at = "outside"]

LEMMA ProceedIs ==
    ASSUME Top \in Calls, NEW at \in Places \ {"outside"}
    PROVE  LET call == [Top EXCEPT !.at = at]
           IN  Onward(call) /\ call.at = at /\ call.udata = Top.udata /\ call.part = Top.part /\ call.buf = Top.buf
BY DEF Onward, Calls

LEMMA PreparedIs ==
    ASSUME Top \in Calls, NEW at \in Places \ {"outside"}, NEW o \in Outputs
    PROVE  /\ Onward(Prepared(at, o)) /\ Prepared(at, o).at = at
           /\ Prepared(at, o).udata = o /\ Prepared(at, o).part = 1
<1> DEFINE c == Prepared(at, o)
<1>1. c = [[[Top EXCEPT !.at = at] EXCEPT !.udata = o] EXCEPT !.part = 1] /\ 1 \in Parts
  BY DEF Prepared, Parts
<1>2. c \in Calls /\ c.at = at /\ c.udata = o /\ c.part = 1 /\ c.todo = Top.todo
  BY <1>1 DEF Calls
<1> QED BY <1>2 DEF Onward

LEMMA FormattedIs ==
    ASSUME Top \in Calls, tm \in Nat
    PROVE  LET call == [Top EXCEPT !.at = "print", !.buf = tm]
           IN  Onward(call) /\ call.at = "print" /\ call.udata = Top.udata /\ call.part = Top.part /\ call.buf = tm
BY DEF Onward, Calls, Places

LEMMA NextPartIs ==
    ASSUME Top \in Calls, Top.at = "print", Top.part # 3
    PROVE  LET call == [Top EXCEPT !.part = @ + 1]
           IN  /\ Onward(call) /\ call.at = "print" /\ call.udata = Top.udata /\ call.buf = Top.buf
               /\ call.part = Top.part + 1
<1>1. Top.part + 1 \in Parts
  BY DEF Calls, Parts
<1> QED BY <1>1 DEF Onward, Calls

LEMMA DoneIs ==
    ASSUME LogTypeOK, AtAnEvent, Top.todo # <<>>
    PROVE  Done \in Calls /\ Done.at = "outside" /\ Done.todo = Tail(Top.todo)
<1>1. Top \in Calls /\ Tail(Top.todo) \in Seq(Events)
  BY TopIs
<1> QED BY <1>1 DEF Done, Calls, Places

(* The steps of log_log(), as what becomes of the last call.               *)
LEMMA GoesIs ==
    ASSUME LogTypeOK, AtAnEvent, Enter \/ TakeLock \/ HaveTime \/ HaveText \/ PrintPart
    PROVE  /\ Top.todo # <<>> /\ Event \in Events
           /\ \E call \in Calls : /\ Becomes(call)
                                  /\ Onward(call) \/ call = Done
<1>1. Top.todo # <<>> /\ Event \in Events /\ Top \in Calls /\ tm \in Nat
  BY TopIs DEF Enter, TakeLock, HaveTime, HaveText, PrintPart, LogTypeOK
<1>2. Done \in Calls
  BY <1>1, DoneIs
<1>3. CASE Return
  BY <1>1, <1>2, <1>3 DEF Return, Done
<1>4. ASSUME NEW at \in Places \ {"outside"}, Proceed(at)
      PROVE  \E call \in Calls : Becomes(call) /\ (Onward(call) \/ call = Done)
  BY <1>1, <1>4, ProceedIs DEF Proceed, Onward
<1>5. ASSUME NEW at \in Places \ {"outside"}, NEW o \in Outputs, Becomes(Prepared(at, o))
      PROVE  \E call \in Calls : Becomes(call) /\ (Onward(call) \/ call = Done)
  BY <1>1, <1>5, PreparedIs DEF Onward
<1>6. CASE Enter
  BY <1>1, <1>3, <1>5, <1>6 DEF Enter, Places, Outputs
<1>7. CASE TakeLock
  BY <1>1, <1>4, <1>7 DEF TakeLock, Places
<1>8. CASE HaveTime
  BY <1>1, <1>4, <1>8 DEF HaveTime, Places
<1>9. CASE HaveText
  BY <1>1, <1>9, FormattedIs DEF HaveText, Onward
<1>10. CASE PrintPart
  BY <1>1, <1>3, <1>5, <1>10, NextPartIs DEF PrintPart, Onward, Places, Outputs
<1> QED BY <1>1, <1>6, <1>7, <1>8, <1>9, <1>10

(***************************************************************************)
(* Every time in a line is that of its event: localtime() has one result,  *)
(* and whoever overwrites it does not return to whoever had it before      *)
(* (log.c:55, 74, 134, main.c:17).                                         *)
(***************************************************************************)
LEMMA LogStart == Init => LogOK
<1> SUFFICES ASSUME Init PROVE LogOK
  OBVIOUS
<1>1. stack = <<Call("none", <<>>)>> /\ Call("none", <<>>) \in Calls
  BY DEF Init, Call, Calls, Places, Outputs, Parts
<1>2. LogTypeOK
  BY <1>1 DEF Init, LogTypeOK
<1>3. Top.at = "outside"
  BY <1>1 DEF Top, Last, Call
<1> QED BY <1>2, <1>3 DEF LogOK, AtAnEvent, Stamped, Init, StampedByOwnTime

(* The print that is added has the time of its event.                      *)
LEMMA PrintIs ==
    ASSUME LogOK, PrintPart
    PROVE  /\ Top \in Calls /\ Top.todo # <<>> /\ Top.udata \in Outputs /\ Top.part \in Parts
           /\ out' \in [Outputs -> Seq(Prints)]
           /\ LET print == [id |-> Event.id, part |-> Top.part, time |-> Top.buf]
              IN  print \in Prints /\ print.time = print.id /\ out'[Top.udata] = Append(out[Top.udata], print)
           /\ \A o \in Outputs : o # Top.udata => out'[o] = out[o]
           /\ StampedByOwnTime'
<1> DEFINE print == [id |-> Event.id, part |-> Top.part, time |-> Top.buf]
           u     == Top.udata
<1>1. Top.at = "print" /\ out' = [out EXCEPT ![u] = Append(@, print)] /\ LogTypeOK /\ AtAnEvent /\ Top.buf = Event.id
  BY DEF PrintPart, LogOK, Stamped
<1>2. Top \in Calls /\ Top.todo # <<>> /\ Event \in Events /\ u \in Outputs /\ Top.part \in Parts
  BY <1>1, TopIs DEF Calls
<1>3. print \in Prints /\ print.time = print.id
  BY <1>1, <1>2 DEF Prints, Events
<1> HIDE DEF print, u
<1>4. out \in [Outputs -> Seq(Prints)]
  BY <1>1 DEF LogTypeOK
<1>5. /\ Append(out[u], print) \in Seq(Prints)
      /\ \A k \in DOMAIN Append(out[u], print) : \/ Append(out[u], print)[k] = print
                                                 \/ k \in DOMAIN out[u] /\ Append(out[u], print)[k] = out[u][k]
  BY <1>2, <1>3, <1>4
<1>6. /\ out' \in [Outputs -> Seq(Prints)] /\ out'[u] = Append(out[u], print)
      /\ \A o \in Outputs : o # u => out'[o] = out[o]
  BY <1>1, <1>2, <1>4, <1>5
<1>7. ASSUME NEW o \in Outputs, NEW k \in DOMAIN out'[o] PROVE out'[o][k].time = out'[o][k].id
  <2>1. \A j \in DOMAIN out[o] : out[o][j].time = out[o][j].id
    BY DEF LogOK, StampedByOwnTime
  <2>2. CASE o # u
    BY <1>6, <1>7, <2>1, <2>2
  <2>3. CASE o = u
    BY <1>3, <1>5, <1>6, <1>7, <2>1, <2>3
  <2> QED BY <2>2, <2>3
<1>8. StampedByOwnTime'
  BY <1>7 DEF StampedByOwnTime
<1> QED BY <1>2, <1>3, <1>6, <1>8 DEF print, u

LEMMA LogStep == LogOK /\ [Next]_vars => LogOK'
<1> SUFFICES ASSUME LogOK, [Next]_vars PROVE LogOK'
  OBVIOUS
<1>0. /\ LogTypeOK /\ AtAnEvent /\ Stamped /\ StampedByOwnTime
      /\ Top \in Calls /\ Len(stack) \in Nat \ {0} /\ stack \in Seq(Calls) /\ tm \in Nat /\ made \in Seq(Events)
  BY TopIs DEF LogTypeOK, LogOK
<1>1. ASSUME NEW level \in Levels, Logs(level) PROVE LogOK'
  <2> DEFINE e == [id |-> Len(made) + 1, level |-> level]
             t == [stack[1] EXCEPT !.todo = <<e>>]
  <2>1. /\ Len(stack) = 1 /\ Top = stack[1] /\ stack' = [stack EXCEPT ![1].todo = <<e>>]
        /\ Top.at = "outside"
    BY <1>0, <1>1, TopIs DEF Logs, AtAnEvent
  <2>2. e \in Events
    BY <1>0, LogAssumption DEF Events, LOG_TRACE, LOG_ERROR
  <2>3. <<e>> \in Seq(Events)
    BY <2>2
  <2> HIDE DEF e
  <2>4. stack' = [stack EXCEPT ![1] = t]
    BY <2>1
  <2>5. t \in Calls /\ t.at = "outside"
    BY <1>0, <2>1, <2>3 DEF Calls
  <2> HIDE DEF t
  <2>6. Becomes(t)
    BY <2>1, <2>4 DEF Becomes
  <2>7. stack' \in Seq(Calls) /\ stack' # <<>> /\ Top'.at = "outside"
    BY <1>0, <2>5, <2>6, BecomesIs
  <2> QED BY <1>0, <1>1, <2>7 DEF Logs, LogTypeOK, Stamped, StampedByOwnTime, AtAnEvent, LogOK
<1>2. ASSUME Enter \/ TakeLock \/ HaveTime \/ HaveText \/ PrintPart
      PROVE  /\ Top.todo # <<>> /\ Event \in Events /\ stack' \in Seq(Calls) /\ stack' # <<>> /\ AtAnEvent' /\ L' = L
             /\ Top'.at = "outside" \/ Event' = Event
  <2>1. PICK call \in Calls : Becomes(call) /\ (Onward(call) \/ call = Done)
    BY <1>0, <1>2, GoesIs
  <2>2. Top.todo # <<>> /\ Event \in Events
    BY <1>0, <1>2, GoesIs
  <2>3. stack' \in Seq(Calls) /\ stack' # <<>> /\ Top' = call
    BY <1>0, <2>1, BecomesIs
  <2>4. CASE Onward(call)
    BY <1>2, <2>2, <2>3, <2>4 DEF Onward, AtAnEvent, Event, Enter, TakeLock, HaveTime, HaveText, PrintPart
  <2>5. CASE call = Done
    BY <1>0, <1>2, <2>2, <2>3, <2>5, DoneIs DEF AtAnEvent, Enter, TakeLock, HaveTime, HaveText, PrintPart
  <2> QED BY <2>1, <2>4, <2>5
<1>3. CASE Enter
  <2>1. Top'.at \in {"init_event", "outside"}
    <3>1. CASE Return
      BY <1>0, <1>2, <1>3, <3>1, DoneIs, BecomesIs DEF Return, Done
    <3>2. ASSUME NEW o \in Outputs, Becomes(Prepared("init_event", o)) PROVE Top'.at = "init_event"
      BY <1>0, <3>2, PreparedIs, BecomesIs DEF Places, Onward
    <3> QED BY <1>3, <3>1, <3>2 DEF Enter, Outputs
  <2>2. made' \in Seq(Events)
    BY <1>0, <1>2, <1>3 DEF Enter
  <2> QED BY <1>0, <1>2, <1>3, <2>1, <2>2 DEF Enter, LogTypeOK, Stamped, StampedByOwnTime, LogOK
<1>4. CASE TakeLock
  <2>1. PICK at \in {"localtime", "strftime"} : Proceed(at) /\ (at = "strftime" => Top.at = "callback")
    BY <1>4 DEF TakeLock
  <2>2. Top' = [Top EXCEPT !.at = at] /\ Top'.at = at /\ at # "outside" /\ at # "print"
    BY <1>0, <2>1, ProceedIs, BecomesIs DEF Places, Onward, Proceed
  <2> QED BY <1>0, <1>2, <1>4, <2>1, <2>2 DEF TakeLock, LogTypeOK, Stamped, StampedByOwnTime, LogOK
<1>5. CASE HaveTime
  <2>1. Top'.at = "callback" /\ tm' = Event.id
    BY <1>0, <1>5, ProceedIs, BecomesIs DEF HaveTime, Places, Onward, Proceed
  <2>2. tm' \in Nat
    BY <1>2, <1>5, <2>1 DEF Events
  <2> QED BY <1>0, <1>2, <1>5, <2>1, <2>2 DEF HaveTime, LogTypeOK, Stamped, StampedByOwnTime, LogOK
<1>6. CASE HaveText
  <2>1. Top.at = "strftime" /\ Top'.at = "print" /\ Top'.buf = tm /\ tm' = tm
    BY <1>0, <1>6, FormattedIs, BecomesIs DEF HaveText, Onward
  <2> QED BY <1>0, <1>2, <1>6, <2>1 DEF HaveText, LogTypeOK, Stamped, StampedByOwnTime, LogOK
<1>7. CASE PrintPart
  <2>1. out' \in [Outputs -> Seq(Prints)] /\ StampedByOwnTime' /\ Top.at = "print" /\ tm' = tm /\ made' = made
    BY <1>7, PrintIs DEF PrintPart
  <2>2. Stamped'
    <3>1. CASE Top.part # 3 /\ Becomes([Top EXCEPT !.part = @ + 1])
      <4>1. Top'.at = "print" /\ Top'.buf = Top.buf
        BY <1>0, <2>1, <3>1, NextPartIs, BecomesIs DEF Onward
      <4> QED BY <1>0, <1>2, <1>7, <2>1, <4>1 DEF Stamped
    <3>2. CASE Becomes(Prepared("callback", "file"))
      <4>1. Top'.at = "callback"
        BY <1>0, <3>2, PreparedIs, BecomesIs DEF Onward, Places, Outputs
      <4> QED BY <1>0, <1>2, <1>7, <2>1, <4>1 DEF Stamped
    <3>3. CASE Return
      <4>1. Top'.at = "outside"
        BY <1>0, <1>2, <1>7, <3>3, DoneIs, BecomesIs DEF Return, Done
      <4> QED BY <4>1 DEF Stamped
    <3> QED BY <1>7, <3>1, <3>2, <3>3 DEF PrintPart
  <2> QED BY <1>0, <1>2, <1>7, <2>1, <2>2 DEF LogTypeOK, LogOK
<1>8. ASSUME NEW s \in Signals, Signal(s) PROVE LogOK'
  <2>1. LinesAt(Len(stack)) \in Seq(Events)
    BY <1>0, LogAssumption DEF LinesAt, Events, LOG_INFO
  <2>2. stack' = Append(stack, Call(s, LinesAt(Len(stack))))
    BY <1>8 DEF Signal
  <2> DEFINE todo == LinesAt(Len(stack))
  <2> HIDE DEF todo
  <2>3. stack' \in Seq(Calls) /\ stack' # <<>> /\ Top'.at = "outside"
    BY <1>0, <2>1, <2>2, PushIs DEF todo
  <2> QED BY <1>0, <1>8, <2>3 DEF Signal, LogTypeOK, Stamped, StampedByOwnTime, AtAnEvent, LogOK
<1>9. ASSUME UNCHANGED <<L, stack, made, tm, out>> PROVE LogOK'
  BY <1>0, <1>9 DEF LogTypeOK, AtAnEvent, Stamped, Top, Event, Last, StampedByOwnTime, LogOK
<1> QED
  BY <1>1, <1>3, <1>4, <1>5, <1>6, <1>7, <1>8, <1>9 DEF Next, Goes, Killed, shutdown_srv, vars

THEOREM TimesAreOwn == Spec => []StampedByOwnTime
<1> QED BY LogStart, LogStep, PTL DEF Spec, LogOK

----------------------------------------------------------------------------
(***************************************************************************)
(* Nothing is lost.  Events are numbered as they are made, so the prints   *)
(* of an output are in order when their numbers rise, and with the same    *)
(* number their parts.                                                     *)
(***************************************************************************)
Rising(s) == \A j, k \in DOMAIN s : j < k => s[j].id < s[k].id

(* The numbers: what is made is older than what is to be logged, and so is *)
(* what is left below; what a call is at is made last.                     *)
Numbered ==
    /\ Rising(made) /\ Rising(Top.todo)
    /\ \A m \in DOMAIN made : made[m].id <= MaxEvents + 2 * Len(stack)
    /\ \A n \in DOMAIN Top.todo : Top.todo[n].id <= MaxEvents + 2 * Len(stack)
    /\ Top.at = "outside" => \A m \in DOMAIN made : \A n \in DOMAIN Top.todo : made[m].id < Top.todo[n].id
    /\ Top.at # "outside" => made # <<>> /\ made[Len(made)] = Event
    /\ \A o \in Outputs : \A x \in LeftBelow(o) :
          /\ x[1] \in Nat /\ x[1] <= MaxEvents + 2 * Len(stack)
          /\ \A n \in DOMAIN Top.todo : x[1] < Top.todo[n].id
    /\ Len(stack) = 1 => /\ \A m \in DOMAIN made : made[m].id <= Len(made)
                         /\ \A n \in DOMAIN Top.todo : Top.todo[n].id <= Len(made) + 1

(* The last call works for an output that takes its event.                 *)
Heading == Top.at # "outside" => Takes(Top.udata, Event)

Owed(o)         == {<<made[n].id, part>> : n \in {m \in DOMAIN made : Takes(o, made[m])}, part \in Parts}
Printed(prints) == {<<prints[k].id, prints[k].part>> : k \in DOMAIN prints}
InOrder(prints) ==
    \A j, k \in DOMAIN prints :
        j < k => \/ prints[j].id < prints[k].id
                 \/ prints[j].id = prints[k].id /\ prints[j].part < prints[k].part

Recorded == \A o \in Outputs : Printed(out[o]) = Owed(o) \ Left(o) /\ InOrder(out[o])

NumberedOK == LogOK /\ Numbered /\ Heading

(* What is left is so below, or by the last call.                          *)
LEMMA LeftIs == LogTypeOK => \A o : Left(o) = LeftBelow(o) \cup LeftBy(Top, o)
<1> SUFFICES ASSUME LogTypeOK, NEW o PROVE Left(o) = LeftBelow(o) \cup LeftBy(Top, o)
  OBVIOUS
<1> DEFINE n == Len(stack)
<1>1. n \in Nat \ {0} /\ Top = stack[n]
  BY DEF LogTypeOK, Top, Last
<1>2. 1..n = (1..(n-1)) \cup {n}
  BY <1>1
<1> HIDE DEF n
<1> QED BY <1>1, <1>2 DEF Left, LeftBelow, n

LEMMA LeftNext == LogTypeOK' => \A o : Left(o)' = LeftBelow(o)' \cup LeftBy(Top', o)
<1>1. (LogTypeOK => \A o : Left(o) = LeftBelow(o) \cup LeftBy(Top, o))'
  BY LeftIs, PTL
<1> QED BY <1>1 DEF LeftBy

(* A handler finds all that is left below it.                              *)
LEMMA LeftGrows ==
    ASSUME LogTypeOK, Len(stack') = Len(stack) + 1,
           \A k \in 1..Len(stack) : stack'[k] = stack[k]
    PROVE  \A o : LeftBelow(o)' = Left(o)
<1>1. Len(stack) \in Nat /\ Len(stack') - 1 = Len(stack)
  BY DEF LogTypeOK
<1> QED BY <1>1 DEF LeftBelow, Left, LeftBy

LEMMA EventsIn ==
    ASSUME NEW s \in Seq(Events)
    PROVE  \A n \in DOMAIN s : s[n] \in Events /\ s[n].id \in Nat /\ s[n].level \in Int
<1>1. \A n \in DOMAIN s : s[n] \in Events
  OBVIOUS
<1> QED BY <1>1 DEF Events

(* What is behind the event of the last call comes after it.               *)
LEMMA RestIs ==
    ASSUME LogTypeOK, AtAnEvent, Rising(Top.todo), Top.todo # <<>>
    PROVE  /\ 1 \in DOMAIN Top.todo /\ Event = Top.todo[1] /\ Event.id \in Nat /\ Rising(Tail(Top.todo))
           /\ \A n \in DOMAIN Tail(Top.todo) : /\ n + 1 \in DOMAIN Top.todo /\ Tail(Top.todo)[n] = Top.todo[n+1]
                                               /\ Tail(Top.todo)[n].id \in Nat /\ Event.id < Tail(Top.todo)[n].id
           /\ \A n \in DOMAIN Top.todo : Event.id <= Top.todo[n].id /\ Top.todo[n].id \in Nat
<1>1. Top.todo \in Seq(Events) /\ Len(Top.todo) \in Nat \ {0} /\ Tail(Top.todo) \in Seq(Events) /\ Event \in Events
  BY TopIs DEF Calls
<1>2. /\ 1 \in DOMAIN Top.todo /\ Event = Top.todo[1]
      /\ \A n \in DOMAIN Tail(Top.todo) : n + 1 \in DOMAIN Top.todo /\ 1 < n + 1 /\ Tail(Top.todo)[n] = Top.todo[n+1]
      /\ \A n, k \in DOMAIN Tail(Top.todo) : n < k => n + 1 < k + 1
      /\ \A n \in DOMAIN Top.todo : n = 1 \/ 1 < n
  BY <1>1 DEF Event
<1>3. Event.id \in Nat
  BY <1>1 DEF Events
<1>4. Rising(Tail(Top.todo))
  BY <1>2 DEF Rising
<1>5. \A n \in DOMAIN Tail(Top.todo) : Tail(Top.todo)[n].id \in Nat /\ Event.id < Tail(Top.todo)[n].id
  BY <1>1, <1>2, EventsIn DEF Rising
<1>6. \A n \in DOMAIN Top.todo : Event.id <= Top.todo[n].id /\ Top.todo[n].id \in Nat
  BY <1>1, <1>2, <1>3, EventsIn DEF Rising
<1> QED BY <1>2, <1>3, <1>4, <1>5, <1>6

(* Each step keeps the numbers.                                            *)
LEMMA NumbersOnward ==
    ASSUME NumberedOK, Top.at # "outside", NEW call, Onward(call), Becomes(call), made' = made
    PROVE  Numbered'
<1>1. LogTypeOK /\ AtAnEvent /\ call \in Calls /\ Numbered
  BY DEF NumberedOK, LogOK, Onward
<1>2. Len(stack') = Len(stack) /\ Top' = call /\ \A o : LeftBelow(o)' = LeftBelow(o)
  BY <1>1, BecomesIs
<1>3. Top'.todo = Top.todo /\ Top'.at # "outside" /\ Event' = Event
  BY <1>2 DEF Event, Onward
<1> QED BY <1>1, <1>2, <1>3 DEF Numbered, Rising

LEMMA NumbersDone ==
    ASSUME NumberedOK, Top.at # "outside", Becomes(Done), made' = made
    PROVE  Numbered'
<1>1. LogTypeOK /\ AtAnEvent /\ Top.todo # <<>> /\ Numbered
  BY DEF NumberedOK, LogOK, AtAnEvent
<1>2. /\ Len(stack') = Len(stack) /\ Top'.todo = Tail(Top.todo) /\ Top'.at = "outside"
      /\ \A o : LeftBelow(o)' = LeftBelow(o)
  BY <1>1, DoneIs, BecomesIs
<1>3. /\ 1 \in DOMAIN Top.todo /\ Event = Top.todo[1] /\ Event.id \in Nat /\ Rising(Tail(Top.todo))
      /\ \A n \in DOMAIN Tail(Top.todo) : /\ n + 1 \in DOMAIN Top.todo /\ Tail(Top.todo)[n] = Top.todo[n+1]
                                          /\ Tail(Top.todo)[n].id \in Nat /\ Event.id < Tail(Top.todo)[n].id
  BY <1>1, RestIs DEF Numbered
<1>4. \A m \in DOMAIN made : made[m].id \in Nat /\ made[m].id <= Event.id
  <2>1. made \in Seq(Events) /\ made # <<>> /\ made[Len(made)] = Event /\ Rising(made)
    BY <1>1 DEF Numbered, LogTypeOK
  <2>2. Len(made) \in DOMAIN made /\ \A m \in DOMAIN made : m = Len(made) \/ m < Len(made)
    BY <2>1
  <2>3. \A m \in DOMAIN made : made[m].id \in Nat
    BY <2>1, EventsIn
  <2> QED BY <2>1, <2>2, <2>3 DEF Rising
<1>5. \A m \in DOMAIN made : \A n \in DOMAIN Tail(Top.todo) : made[m].id < Tail(Top.todo)[n].id
  BY <1>3, <1>4
<1>6. /\ \A n \in DOMAIN Tail(Top.todo) : Tail(Top.todo)[n].id <= MaxEvents + 2 * Len(stack)
      /\ Len(stack) = 1 => \A n \in DOMAIN Tail(Top.todo) : Tail(Top.todo)[n].id <= Len(made) + 1
      /\ \A o \in Outputs : \A x \in LeftBelow(o) : \A n \in DOMAIN Tail(Top.todo) : x[1] < Tail(Top.todo)[n].id
  BY <1>1, <1>3 DEF Numbered
<1> QED BY <1>1, <1>2, <1>3, <1>5, <1>6 DEF Numbered

(* The event that enters is the last one.                                  *)
LEMMA NumbersEnter ==
    ASSUME NumberedOK, Top.at = "outside", Top.todo # <<>>, made' = Append(made, Event),
           NEW call, Becomes(call), Onward(call) \/ call = Done
    PROVE  Numbered'
<1>1. LogTypeOK /\ AtAnEvent /\ Len(stack) \in Nat \ {0} /\ Numbered /\ Event \in Events /\ MaxEvents \in Nat
  BY TopIs, LogAssumption DEF NumberedOK, LogOK
<1>2. /\ made \in Seq(Events) /\ made' \in Seq(Events) /\ Len(made') = Len(made) + 1 /\ made'[Len(made')] = Event
      /\ DOMAIN made' = DOMAIN made \cup {Len(made) + 1} /\ Len(made) \in Nat /\ made' # <<>>
      /\ \A m \in DOMAIN made : made'[m] = made[m] /\ m < Len(made) + 1
  BY <1>1 DEF LogTypeOK
<1>3. /\ 1 \in DOMAIN Top.todo /\ Event = Top.todo[1] /\ Event.id \in Nat /\ Rising(Tail(Top.todo))
      /\ \A n \in DOMAIN Tail(Top.todo) : /\ n + 1 \in DOMAIN Top.todo /\ Tail(Top.todo)[n] = Top.todo[n+1]
                                          /\ Tail(Top.todo)[n].id \in Nat /\ Event.id < Tail(Top.todo)[n].id
      /\ \A n \in DOMAIN Top.todo : Event.id <= Top.todo[n].id /\ Top.todo[n].id \in Nat
  BY <1>1, RestIs DEF Numbered
<1>4. \A m \in DOMAIN made : made[m].id \in Nat /\ made[m].id < Event.id
  BY <1>1, <1>2, <1>3, EventsIn DEF Numbered
<1>5. Rising(made') /\ \A m \in DOMAIN made' : made'[m].id \in Nat /\ made'[m].id <= Event.id
  BY <1>1, <1>2, <1>3, <1>4 DEF Numbered, Rising
<1>6. Event.id <= MaxEvents + 2 * Len(stack)
  BY <1>1, <1>3 DEF Numbered
<1>7. \A m \in DOMAIN made' : made'[m].id <= MaxEvents + 2 * Len(stack)
  BY <1>1, <1>3, <1>5, <1>6
<1>8. Len(stack) = 1 => /\ \A m \in DOMAIN made' : made'[m].id <= Len(made')
                        /\ \A n \in DOMAIN Top.todo : Top.todo[n].id <= Len(made') + 1
  <2> SUFFICES ASSUME Len(stack) = 1 PROVE /\ \A m \in DOMAIN made' : made'[m].id <= Len(made')
                                           /\ \A n \in DOMAIN Top.todo : Top.todo[n].id <= Len(made') + 1
    OBVIOUS
  <2>1. /\ \A m \in DOMAIN made : made[m].id <= Len(made)
        /\ \A n \in DOMAIN Top.todo : Top.todo[n].id <= Len(made) + 1
    BY <1>1 DEF Numbered
  <2> QED BY <1>2, <1>3, <1>4, <2>1
<1>9. call \in Calls
  BY <1>1, DoneIs DEF Onward
<1>10. Len(stack') = Len(stack) /\ Top' = call /\ \A o : LeftBelow(o)' = LeftBelow(o)
  BY <1>1, <1>9, BecomesIs
<1>11. CASE Onward(call)
  <2>1. Top'.todo = Top.todo /\ Top'.at # "outside" /\ Event' = Event
    BY <1>10, <1>11 DEF Event, Onward
  <2> QED BY <1>1, <1>2, <1>5, <1>7, <1>8, <1>10, <2>1 DEF Numbered
<1>12. CASE call = Done
  <2>1. Top'.todo = Tail(Top.todo) /\ Top'.at = "outside"
    BY <1>1, <1>10, <1>12, DoneIs
  <2>2. \A m \in DOMAIN made' : \A n \in DOMAIN Tail(Top.todo) : made'[m].id < Tail(Top.todo)[n].id
    BY <1>3, <1>5
  <2>3. /\ \A n \in DOMAIN Tail(Top.todo) : Tail(Top.todo)[n].id <= MaxEvents + 2 * Len(stack)
        /\ Len(stack) = 1 => \A n \in DOMAIN Tail(Top.todo) : Tail(Top.todo)[n].id <= Len(made') + 1
        /\ \A o \in Outputs : \A x \in LeftBelow(o) : \A n \in DOMAIN Tail(Top.todo) : x[1] < Tail(Top.todo)[n].id
    BY <1>1, <1>3, <1>8 DEF Numbered
  <2> QED BY <1>1, <1>3, <1>5, <1>7, <1>8, <1>10, <2>1, <2>2, <2>3 DEF Numbered
<1> QED BY <1>11, <1>12

(* The program logs nothing while a handler is above it, so its own events *)
(* are numbered as they are counted.                                       *)
LEMMA NumbersLogs ==
    ASSUME NumberedOK, NEW level \in Levels, Logs(level)
    PROVE  /\ Numbered' /\ Top.at = "outside" /\ Top'.at = "outside"
           /\ \A o : LeftBelow(o) = {} /\ LeftBelow(o)' = {}
<1> DEFINE e == [id |-> Len(made) + 1, level |-> level]
           t == [stack[1] EXCEPT !.todo = <<e>>]
<1>1. LogTypeOK /\ AtAnEvent /\ Numbered /\ MaxEvents \in Nat /\ made' = made /\ made \in Seq(Events)
  BY LogAssumption DEF NumberedOK, LogOK, Logs, LogTypeOK
<1>2. Len(stack) = 1 /\ Top = stack[1] /\ Top \in Calls /\ Top.at = "outside" /\ Len(made) < MaxEvents /\ Len(made) \in Nat
  BY <1>1, TopIs DEF Logs
<1>3. stack' = [stack EXCEPT ![1] = t] /\ stack \in Seq(Calls)
  BY <1>1 DEF Logs, LogTypeOK
<1>4. <<e>> \in Seq(Events) /\ <<e>>[1].id = Len(made) + 1 /\ DOMAIN <<e>> = {1}
  BY <1>2, LogAssumption DEF Events, LOG_TRACE, LOG_ERROR
<1> HIDE DEF e
<1>5. t \in Calls /\ t.todo = <<e>> /\ t.at = "outside"
  BY <1>2, <1>4 DEF Calls
<1> HIDE DEF t
<1>6. Becomes(t)
  BY <1>2, <1>3 DEF Becomes
<1>7. Len(stack') = 1 /\ Top'.todo = <<e>> /\ Top'.at = "outside" /\ \A o : LeftBelow(o)' = LeftBelow(o)
  BY <1>1, <1>2, <1>5, <1>6, BecomesIs
<1>8. \A o : LeftBelow(o) = {}
  <2>1. 1..(Len(stack)-1) = {}
    BY <1>2
  <2> QED BY <2>1 DEF LeftBelow
<1>9. Rising(<<e>>)
  BY <1>4 DEF Rising
<1>10. \A m \in DOMAIN made : made[m].id <= Len(made) /\ made[m].id \in Nat
  BY <1>1, <1>2, EventsIn DEF Numbered
<1>11. \A m \in DOMAIN made : \A n \in DOMAIN <<e>> : made[m].id < <<e>>[n].id
  BY <1>2, <1>4, <1>10
<1>12. \A n \in DOMAIN <<e>> : <<e>>[n].id <= Len(made) + 1 /\ <<e>>[n].id <= MaxEvents + 2 * Len(stack')
  BY <1>1, <1>2, <1>4, <1>7
<1>13. Numbered'
  BY <1>1, <1>2, <1>7, <1>8, <1>9, <1>10, <1>11, <1>12 DEF Numbered
<1> QED BY <1>2, <1>7, <1>8, <1>13

(* A handler's events come after all that is made or to be logged below.   *)
LEMMA NumbersSignal ==
    ASSUME NumberedOK, NEW s \in Signals, Signal(s)
    PROVE  /\ Numbered' /\ Top'.at = "outside" /\ \A o : LeftBelow(o)' = Left(o)
<1> DEFINE d    == Len(stack)
           todo == LinesAt(d)
<1>1. LogTypeOK /\ AtAnEvent /\ Numbered /\ MaxEvents \in Nat /\ made' = made /\ made \in Seq(Events) /\ d \in Nat \ {0}
  BY LogAssumption, TopIs DEF NumberedOK, LogOK, Signal, LogTypeOK
<1>2. /\ todo \in Seq(Events) /\ DOMAIN todo = {1, 2}
      /\ todo[1].id = MaxEvents + 2 * d + 1 /\ todo[2].id = MaxEvents + 2 * d + 2
  <2>1. \A n \in 1..2 : [id |-> MaxEvents + 2 * d + n, level |-> LOG_INFO] \in Events
    BY <1>1 DEF Events, LOG_INFO
  <2> QED BY <1>1, <2>1 DEF LinesAt
<1>3. stack' = Append(stack, Call(s, todo))
  BY DEF Signal
<1> HIDE DEF todo
<1>4. /\ Len(stack') = d + 1 /\ Top'.at = "outside" /\ Top'.todo = todo
      /\ \A k \in 1..Len(stack) : stack'[k] = stack[k]
  BY <1>1, <1>2, <1>3, PushIs
<1>5. \A o : LeftBelow(o)' = Left(o)
  BY <1>1, <1>4, LeftGrows
<1>6. \A m \in DOMAIN made : made[m].id \in Nat /\ made[m].id <= MaxEvents + 2 * d
  BY <1>1, EventsIn DEF Numbered
<1>7. \A m \in DOMAIN made : \A n \in DOMAIN todo : made[m].id < todo[n].id
  BY <1>1, <1>2, <1>6
<1>8. ASSUME NEW o \in Outputs, NEW x \in Left(o)
      PROVE  x[1] \in Nat /\ x[1] <= MaxEvents + 2 * d
  <2>1. CASE x \in LeftBelow(o)
    BY <1>1, <2>1 DEF Numbered
  <2>2. CASE x \in LeftBy(Top, o)
    <3>1. Top.at # "outside" /\ x[1] = Event.id
      BY <2>2 DEF LeftBy, Event
    <3>2. /\ 1 \in DOMAIN Top.todo /\ Event = Top.todo[1] /\ Event.id \in Nat
      BY <1>1, <3>1, RestIs DEF Numbered, AtAnEvent
    <3> QED BY <1>1, <3>1, <3>2 DEF Numbered
  <2> QED BY <1>1, <1>8, <2>1, <2>2, LeftIs
<1>9. \A o \in Outputs : \A x \in Left(o) : /\ x[1] \in Nat /\ x[1] <= MaxEvents + 2 * Len(stack')
                                            /\ \A n \in DOMAIN todo : x[1] < todo[n].id
  BY <1>1, <1>2, <1>4, <1>8
<1>10. Rising(todo)
  BY <1>1, <1>2 DEF Rising
<1>11. /\ \A m \in DOMAIN made : made[m].id <= MaxEvents + 2 * Len(stack')
       /\ \A n \in DOMAIN todo : todo[n].id <= MaxEvents + 2 * Len(stack')
  BY <1>1, <1>2, <1>4, <1>6
<1>12. Rising(made) /\ Len(stack') # 1
  BY <1>1, <1>4 DEF Numbered
<1>13. Numbered'
  BY <1>1, <1>4, <1>5, <1>7, <1>9, <1>10, <1>11, <1>12 DEF Numbered
<1> QED BY <1>4, <1>5, <1>13

(* What the last call is at is the last event, and nothing of it is left   *)
(* below.                                                                  *)
LEMMA OneEvent ==
    ASSUME NumberedOK, Top.at # "outside"
    PROVE  /\ Len(made) \in DOMAIN made /\ made[Len(made)] = Event /\ Event.id \in Nat
           /\ \A n \in DOMAIN made : made[n].id \in Nat /\ (n = Len(made) \/ made[n].id < Event.id)
           /\ \A o \in Outputs : \A x \in LeftBelow(o) : x[1] # Event.id
<1>1. made \in Seq(Events) /\ Numbered /\ LogTypeOK /\ AtAnEvent
  BY DEF NumberedOK, LogOK, LogTypeOK
<1>2. made # <<>> /\ made[Len(made)] = Event
  BY <1>1 DEF Numbered
<1>3. Len(made) \in DOMAIN made /\ \A n \in DOMAIN made : n = Len(made) \/ n < Len(made)
  BY <1>1, <1>2
<1>4. \A n \in DOMAIN made : made[n].id \in Nat
  BY <1>1, EventsIn
<1>5. \A n \in DOMAIN made : n = Len(made) \/ made[n].id < Event.id
  BY <1>1, <1>2, <1>3 DEF Numbered, Rising
<1>6. 1 \in DOMAIN Top.todo /\ Event = Top.todo[1] /\ Event.id \in Nat
  BY <1>1, RestIs DEF Numbered, AtAnEvent
<1>7. \A o \in Outputs : \A x \in LeftBelow(o) : x[1] # Event.id
  <2> SUFFICES ASSUME NEW o \in Outputs, NEW x \in LeftBelow(o) PROVE x[1] # Event.id
    OBVIOUS
  <2>1. x[1] \in Nat /\ x[1] < Event.id
    BY <1>1, <1>6 DEF Numbered
  <2> QED BY <1>6, <2>1
<1> QED BY <1>2, <1>3, <1>4, <1>5, <1>6, <1>7

(* An output that has all it had and is owed all it was, less the same.    *)
LEMMA NothingLostStart == Init => Numbered /\ Heading /\ Recorded
<1> SUFFICES ASSUME Init PROVE Numbered /\ Heading /\ Recorded
  OBVIOUS
<1>1. Len(stack) = 1 /\ Top = Call("none", <<>>) /\ Top.at = "outside" /\ Top.todo = <<>>
  BY DEF Init, Top, Last, Call
<1>2. DOMAIN made = {} /\ DOMAIN Top.todo = {} /\ \A o \in Outputs : DOMAIN out[o] = {}
  BY <1>1 DEF Init
<1>3. \A o : LeftBelow(o) = {}
  BY <1>1 DEF LeftBelow
<1>4. Numbered
  BY <1>1, <1>2, <1>3 DEF Numbered, Rising
<1>5. Heading
  BY <1>1 DEF Heading
<1>6. \A o \in Outputs : Printed(out[o]) = {} /\ Owed(o) = {} /\ InOrder(out[o])
  BY <1>2 DEF Owed, Printed, InOrder
<1>7. Recorded
  BY <1>6 DEF Recorded
<1> QED BY <1>4, <1>5, <1>7

LEMMA RecordedStays ==
    ASSUME Recorded, out' = out, \A o \in Outputs : (Owed(o) \ Left(o))' = Owed(o) \ Left(o)
    PROVE  Recorded'
BY DEF Recorded

(* log_log() of an event: what an output is owed of it, it lacks.          *)
LEMMA EnterRecorded ==
    ASSUME NumberedOK, Recorded, LogTypeOK', L' = L, Enter
    PROVE  Numbered' /\ Heading' /\ Recorded'
<1>1. LogTypeOK /\ AtAnEvent /\ Numbered /\ Top \in Calls /\ made \in Seq(Events) /\ Len(made) \in Nat
  BY TopIs DEF NumberedOK, LogOK, LogTypeOK
<1>2. /\ Top.todo # <<>> /\ Top.at = "outside" /\ made' = Append(made, Event) /\ Event \in Events /\ out' = out
      /\ \E call \in Calls : Becomes(call) /\ (Onward(call) \/ call = Done)
  BY <1>1, GoesIs DEF Enter
<1>3. Numbered'
  BY <1>2, NumbersEnter
<1>4. \A o : LeftBelow(o)' = LeftBelow(o)
  BY <1>1, <1>2, BecomesIs
<1>5. \A o, e : Takes(o, e)' = Takes(o, e)
  BY DEF Takes
<1>6. \A n \in DOMAIN made : made[n].id \in Nat /\ made[n].id < Event.id /\ made'[n] = made[n]
  <2>1. 1 \in DOMAIN Top.todo /\ Event = Top.todo[1]
    BY <1>1, <1>2, RestIs DEF Numbered
  <2> QED BY <1>1, <1>2, <2>1, EventsIn DEF Numbered
<1>7. DOMAIN made' = DOMAIN made \cup {Len(made) + 1} /\ made'[Len(made) + 1] = Event /\ Event.id \in Nat
  BY <1>1, <1>2 DEF Events
<1>8. \A o : Owed(o)' = Owed(o) \cup {<<Event.id, part>> : part \in {p \in Parts : Takes(o, Event)}}
  BY <1>5, <1>6, <1>7 DEF Owed
<1>9. \A o : \A x \in Owed(o) : x[1] # Event.id
  BY <1>6, <1>7 DEF Owed
<1>10. Top'.at # "outside" => Event' = Event /\ Takes(Top'.udata, Event)
  <2>1. CASE Return
    BY <1>1, <1>2, <2>1, DoneIs, BecomesIs DEF Return, Done
  <2>2. ASSUME NEW o \in Outputs, Becomes(Prepared("init_event", o)), Takes(o, Event)
        PROVE  Event' = Event /\ Takes(Top'.udata, Event)
    BY <1>1, <2>2, PreparedIs, BecomesIs DEF Places, Onward, Event
  <2> QED BY <2>1, <2>2 DEF Enter, Outputs
<1>11. Heading'
  BY <1>5, <1>10 DEF Heading
<1>12. ASSUME NEW o \in Outputs
       PROVE  /\ \A x \in LeftBy(Top', o) : x[1] = Event.id
              /\ Takes(o, Event) => LeftBy(Top', o) = {<<Event.id, part>> : part \in Parts}
  <2>1. CASE Return
    <3>1. Top'.at = "outside"
      BY <1>1, <1>2, <2>1, DoneIs, BecomesIs DEF Return, Done
    <3>2. LeftBy(Top', o) = {}
      BY <3>1 DEF LeftBy
    <3>3. ~Takes(o, Event)
      <4>1. ASSUME NEW v \in Outputs, Becomes(Prepared("init_event", v)) PROVE FALSE
        BY <1>1, <3>1, <4>1, PreparedIs, BecomesIs DEF Places, Onward
      <4> QED BY <4>1 DEF Enter, Outputs
    <3> QED BY <3>2, <3>3
  <2>2. ASSUME NEW v \in Outputs, Becomes(Prepared("init_event", v)), v = "file" => ~Takes("stderr", Event)
        PROVE  /\ \A x \in LeftBy(Top', o) : x[1] = Event.id
               /\ Takes(o, Event) => LeftBy(Top', o) = {<<Event.id, part>> : part \in Parts}
    <3>1. /\ Top'.at = "init_event" /\ Top'.udata = v /\ Top'.part = 1 /\ Top'.todo = Top.todo
      BY <1>1, <2>2, PreparedIs, BecomesIs DEF Places, Onward
    <3>2. LeftBy(Top', o) = {<<Event.id, part>> : part \in {p \in Parts : v = o \/ (v = "stderr" /\ o = "file")}}
      BY <3>1 DEF LeftBy, Parts, Event
    <3> QED BY <2>2, <3>2 DEF Outputs
  <2> QED BY <2>1, <2>2 DEF Enter, Outputs
<1>13. ASSUME NEW o \in Outputs PROVE (Owed(o) \ Left(o))' = Owed(o) \ Left(o)
  <2>1. LeftBy(Top, o) = {}
    BY <1>2 DEF LeftBy
  <2>2. Left(o)' = LeftBelow(o) \cup LeftBy(Top', o) /\ Left(o) = LeftBelow(o)
    BY <1>1, <1>4, <2>1, LeftIs, LeftNext
  <2>3. {<<Event.id, part>> : part \in {p \in Parts : Takes(o, Event)}} \subseteq LeftBy(Top', o)
    BY <1>12
  <2>4. Owed(o) \cap LeftBy(Top', o) = {}
    BY <1>9, <1>12
  <2> QED BY <1>8, <2>2, <2>3, <2>4
<1>14. Recorded'
  BY <1>2, <1>13, RecordedStays
<1> QED BY <1>3, <1>11, <1>14

(* The steps between: what is left stays so.                               *)
LEMMA OnwardRecorded ==
    ASSUME NumberedOK, Recorded, LogTypeOK', L' = L, TakeLock \/ HaveTime \/ HaveText
    PROVE  Numbered' /\ Heading' /\ Recorded'
<1>1. LogTypeOK /\ AtAnEvent /\ Numbered /\ Top \in Calls /\ tm \in Nat
  BY TopIs DEF NumberedOK, LogOK, LogTypeOK
<1>2. Top.at # "outside" /\ made' = made /\ out' = out
  BY DEF TakeLock, HaveTime, HaveText
<1>3. PICK call : Onward(call) /\ Becomes(call) /\ call.udata = Top.udata /\ call.part = Top.part
  <2>1. ASSUME NEW at \in Places \ {"outside"}, Proceed(at)
        PROVE  \E call : Onward(call) /\ Becomes(call) /\ call.udata = Top.udata /\ call.part = Top.part
    BY <1>1, <2>1, ProceedIs DEF Proceed
  <2>2. CASE TakeLock \/ HaveTime
    BY <2>1, <2>2 DEF TakeLock, HaveTime, Places
  <2>3. CASE HaveText
    BY <1>1, <2>3, FormattedIs DEF HaveText
  <2> QED BY <2>2, <2>3
<1>4. Numbered'
  BY <1>2, <1>3, NumbersOnward
<1>5. call \in Calls /\ Top' = call /\ \A o : LeftBelow(o)' = LeftBelow(o)
  BY <1>1, <1>3, BecomesIs DEF Onward
<1>6. Event' = Event /\ \A o, e : Takes(o, e)' = Takes(o, e)
  BY <1>3, <1>5 DEF Event, Onward, Takes
<1>7. Heading'
  BY <1>2, <1>3, <1>5, <1>6 DEF Heading, NumberedOK
<1>8. \A o : LeftBy(Top', o) = LeftBy(Top, o)
  BY <1>2, <1>3, <1>5 DEF LeftBy, Onward
<1>9. \A o : Left(o)' = Left(o) /\ Owed(o)' = Owed(o)
  BY <1>1, <1>2, <1>5, <1>6, <1>8, LeftIs, LeftNext DEF Owed
<1> QED BY <1>2, <1>4, <1>7, <1>9, RecordedStays

(* A print: what it prints is the first that was left, and comes last.     *)
LEMMA PrintRecorded ==
    ASSUME NumberedOK, Recorded, LogTypeOK', L' = L, PrintPart
    PROVE  Numbered' /\ Heading' /\ Recorded'
<1> DEFINE u     == Top.udata
           p     == Top.part
           print == [id |-> Event.id, part |-> p, time |-> Top.buf]
<1>1. /\ LogTypeOK /\ AtAnEvent /\ Numbered /\ Heading /\ Top \in Calls /\ LogOK
      /\ Top.todo # <<>> /\ u \in Outputs /\ p \in Parts /\ Top.at = "print" /\ made' = made
      /\ out \in [Outputs -> Seq(Prints)]
  BY PrintIs DEF NumberedOK, LogOK, LogTypeOK, PrintPart
<1>2. /\ out'[u] = Append(out[u], print) /\ out[u] \in Seq(Prints)
      /\ \A o \in Outputs : o # u => out'[o] = out[o]
  BY <1>1, PrintIs
<1>3. PICK call \in Calls : Becomes(call) /\ (Onward(call) \/ call = Done)
  BY <1>1, GoesIs
<1>4. Numbered'
  BY <1>1, <1>3, NumbersOnward, NumbersDone
<1>5. Top' = call /\ \A o : LeftBelow(o)' = LeftBelow(o)
  BY <1>1, <1>3, BecomesIs
<1>6. \A o, e : Takes(o, e)' = Takes(o, e)
  BY DEF Takes
<1>7. /\ Len(made) \in DOMAIN made /\ made[Len(made)] = Event /\ Event.id \in Nat
      /\ \A n \in DOMAIN made : made[n].id \in Nat /\ (n = Len(made) \/ made[n].id < Event.id)
      /\ \A o \in Outputs : \A x \in LeftBelow(o) : x[1] # Event.id
  BY <1>1, OneEvent
<1>8. \A o : LeftBy(Top, o) = {<<Event.id, q>> : q \in {r \in Parts : (u = o /\ r >= p) \/ (u = "stderr" /\ o = "file")}}
  BY <1>1 DEF LeftBy, Event
<1>9. \/ Top'.at = "outside" /\ p = 3 /\ ~(u = "stderr" /\ Takes("file", Event))
      \/ /\ Top'.at # "outside" /\ Event' = Event /\ Top'.udata = u /\ Top'.part = p + 1 /\ p # 3
      \/ /\ Top'.at # "outside" /\ Event' = Event /\ Top'.udata = "file" /\ Top'.part = 1 /\ p = 3
         /\ u = "stderr" /\ Takes("file", Event)
  <2>1. CASE p # 3 /\ Becomes([Top EXCEPT !.part = @ + 1])
    <3>1. Top' = [Top EXCEPT !.part = @ + 1]
      BY <1>1, <2>1, NextPartIs, BecomesIs DEF Onward
    <3> QED BY <1>1, <2>1, <3>1, NextPartIs DEF Onward, Event
  <2>2. CASE p = 3 /\ u = "stderr" /\ Takes("file", Event) /\ Becomes(Prepared("callback", "file"))
    <3>1. Top' = Prepared("callback", "file")
      BY <1>1, <2>2, PreparedIs, BecomesIs DEF Onward, Places, Outputs
    <3> QED BY <1>1, <2>2, <3>1, PreparedIs DEF Onward, Event, Places, Outputs
  <2>3. CASE p = 3 /\ ~(u = "stderr" /\ Takes("file", Event)) /\ Return
    BY <1>1, <2>3, DoneIs, BecomesIs DEF Return, Done
  <2> QED BY <2>1, <2>2, <2>3 DEF PrintPart
<1>10. Heading'
  BY <1>1, <1>6, <1>9 DEF Heading
<1>11. \A o : Owed(o)' = Owed(o)
  BY <1>1, <1>6 DEF Owed
<1>12. Top'.at # "outside" => Top'.todo # <<>> /\ Head(Top'.todo) = Event
  BY <1>1, <1>3, <1>5, DoneIs DEF Onward, Event
<1>13. \A o : LeftBy(Top', o) = {<<Event.id, q>> :
                   q \in {r \in Parts : /\ Top'.at # "outside"
                                        /\ (Top'.udata = o /\ r >= Top'.part) \/ (Top'.udata = "stderr" /\ o = "file")}}
  BY <1>12 DEF LeftBy
<1>14. <<Event.id, p>> \in Owed(u)
  BY <1>1, <1>7 DEF Owed, Heading
<1>15. LeftBy(Top', u) = LeftBy(Top, u) \ {<<Event.id, p>>} /\ <<Event.id, p>> \in LeftBy(Top, u)
  <2>1. <<Event.id, p>> \in LeftBy(Top, u)
    BY <1>1, <1>8 DEF Parts
  <2>2. \A q \in Parts : <<Event.id, q>> \in LeftBy(Top, u) <=> q >= p
    BY <1>1, <1>8
  <2>3. \A q \in Parts : <<Event.id, q>> \in LeftBy(Top', u) <=> q >= p /\ q # p
    BY <1>1, <1>9, <1>13 DEF Parts
  <2>4. \A x \in LeftBy(Top, u) \cup LeftBy(Top', u) : \E q \in Parts : x = <<Event.id, q>>
    BY <1>8, <1>13
  <2>5. \A q \in Parts : <<Event.id, q>> = <<Event.id, p>> <=> q = p
    OBVIOUS
  <2> QED BY <2>1, <2>2, <2>3, <2>4, <2>5
<1>16. ASSUME NEW o \in Outputs, o # u
       PROVE  (Owed(o) \ Left(o))' = Owed(o) \ Left(o)
  <2>1. /\ Left(o)' = LeftBelow(o) \cup LeftBy(Top', o)
        /\ Left(o) = LeftBelow(o) \cup LeftBy(Top, o)
    BY <1>1, <1>5, LeftIs, LeftNext
  <2>2. CASE LeftBy(Top', o) = LeftBy(Top, o)
    BY <1>11, <2>1, <2>2
  <2>3. CASE ~Takes(o, Event)
    <3>1. \A x \in Owed(o) : x[1] # Event.id
      <4>1. \A n \in DOMAIN made : Takes(o, made[n]) => made[n].id # Event.id
        BY <1>7, <2>3
      <4> QED BY <4>1 DEF Owed
    <3>2. \A x \in LeftBy(Top, o) \cup LeftBy(Top', o) : x[1] = Event.id
      BY <1>8, <1>13
    <3> QED BY <1>11, <2>1, <3>1, <3>2
  <2>4. LeftBy(Top', o) = LeftBy(Top, o) \/ ~Takes(o, Event)
    <3>1. CASE o = "file"
      <4>1. u = "stderr"
        BY <1>1, <1>16, <3>1 DEF Outputs
      <4>2. CASE Top'.at = "outside"
        BY <1>9, <3>1, <4>1, <4>2
      <4>3. CASE Top'.at # "outside" /\ Top'.udata = u
        BY <1>8, <1>13, <3>1, <4>1, <4>3
      <4>4. CASE Top'.at # "outside" /\ Top'.udata = "file" /\ Top'.part = 1
        <5>1. \A r \in Parts : r >= 1
          BY DEF Parts
        <5>2. {r \in Parts : /\ Top'.at # "outside"
                             /\ (Top'.udata = o /\ r >= Top'.part) \/ (Top'.udata = "stderr" /\ o = "file")} = Parts
          BY <3>1, <4>4, <5>1
        <5>3. {r \in Parts : (u = o /\ r >= p) \/ (u = "stderr" /\ o = "file")} = Parts
          BY <3>1, <4>1
        <5>4. LeftBy(Top', o) = {<<Event.id, q>> : q \in Parts} /\ LeftBy(Top, o) = {<<Event.id, q>> : q \in Parts}
          BY <1>8, <1>13, <5>2, <5>3
        <5> QED BY <5>4
      <4> QED BY <1>9, <4>2, <4>3, <4>4
    <3>2. CASE o = "stderr"
      <4>1. u = "file"
        BY <1>1, <1>16, <3>2 DEF Outputs
      <4>2. LeftBy(Top, o) = {}
        BY <1>8, <3>2, <4>1
      <4>3. LeftBy(Top', o) = {}
        BY <1>9, <1>13, <3>2, <4>1
      <4> QED BY <4>2, <4>3
    <3> QED BY <3>1, <3>2 DEF Outputs
  <2> QED BY <2>2, <2>3, <2>4
<1>17. ASSUME NEW o \in Outputs, o = u
       PROVE  (Owed(o) \ Left(o))' = (Owed(o) \ Left(o)) \cup {<<Event.id, p>>}
  <2>1. /\ Left(o)' = LeftBelow(o) \cup LeftBy(Top', o)
        /\ Left(o) = LeftBelow(o) \cup LeftBy(Top, o)
    BY <1>1, <1>5, LeftIs, LeftNext
  <2>2. <<Event.id, p>> \notin LeftBelow(o)
    BY <1>7
  <2> QED BY <1>11, <1>14, <1>15, <1>17, <2>1, <2>2
<1>18. Printed(Append(out[u], print)) = Printed(out[u]) \cup {<<Event.id, p>>} /\ InOrder(Append(out[u], print))
  <2> DEFINE prints == out[u]
             more   == Append(prints, print)
             n      == Len(prints)
  <2>1. /\ n \in Nat /\ DOMAIN prints = 1..n /\ DOMAIN more = 1..(n+1)
        /\ more[n+1] = print /\ \A k \in 1..n : more[k] = prints[k]
    BY <1>2
  <2>2. \A k \in 1..n : \/ prints[k].id < Event.id
                        \/ prints[k].id = Event.id /\ prints[k].part < p
    <3> TAKE k \in 1..n
    <3>1. Printed(prints) = Owed(u) \ Left(u)
      BY <1>1 DEF Recorded
    <3>2. <<prints[k].id, prints[k].part>> \in Owed(u) \ Left(u)
      BY <2>1, <3>1 DEF Printed
    <3>3. PICK m \in DOMAIN made, part \in Parts : prints[k].id = made[m].id /\ prints[k].part = part
      BY <3>2 DEF Owed
    <3>4. CASE made[m].id < Event.id
      BY <3>3, <3>4
    <3>5. CASE m = Len(made)
      <4>1. prints[k].id = Event.id /\ <<Event.id, part>> \notin LeftBy(Top, u)
        BY <1>1, <1>7, <3>2, <3>3, <3>5, LeftIs
      <4>2. ~(part >= p)
        BY <1>8, <4>1
      <4> QED BY <1>1, <3>3, <4>1, <4>2 DEF Parts
    <3> QED BY <1>7, <3>4, <3>5
  <2>3. InOrder(prints) /\ print.id = Event.id /\ print.part = p
    BY <1>1 DEF Recorded
  <2> HIDE DEF prints, more, print, n, p
  <2>4. InOrder(more)
    <3> SUFFICES ASSUME NEW j \in 1..(n+1), NEW k \in 1..(n+1), j < k
                 PROVE  \/ more[j].id < more[k].id
                        \/ more[j].id = more[k].id /\ more[j].part < more[k].part
      BY <2>1 DEF InOrder
    <3>1. j \in 1..n
      BY <2>1
    <3>2. CASE k = n + 1
      BY <2>1, <2>2, <2>3, <3>1, <3>2
    <3>3. CASE k \in 1..n
      BY <2>1, <2>3, <3>1, <3>3 DEF InOrder
    <3> QED BY <2>1, <3>2, <3>3
  <2>5. Printed(more) = Printed(prints) \cup {<<Event.id, p>>}
    <3>1. 1..(n+1) = (1..n) \cup {n+1}
      BY <2>1
    <3>2. \A k \in 1..n : <<more[k].id, more[k].part>> = <<prints[k].id, prints[k].part>>
      BY <2>1
    <3>3. <<more[n+1].id, more[n+1].part>> = <<Event.id, p>>
      BY <2>1, <2>3
    <3> QED BY <2>1, <3>1, <3>2, <3>3 DEF Printed
  <2> QED BY <2>4, <2>5 DEF prints, more
<1>19. ASSUME NEW o \in Outputs PROVE Printed(out'[o]) = (Owed(o) \ Left(o))' /\ InOrder(out'[o])
  <2>1. CASE o = u
    BY <1>2, <1>17, <1>18, <2>1 DEF Recorded
  <2>2. CASE o # u
    BY <1>2, <1>16, <2>2 DEF Recorded
  <2> QED BY <2>1, <2>2
<1>20. Recorded'
  BY <1>19 DEF Recorded
<1> QED BY <1>4, <1>10, <1>20

LEMMA NothingLostStep ==
    ASSUME NumberedOK, Recorded, [Next]_vars
    PROVE  Numbered' /\ Heading' /\ Recorded'
<1>0. LogTypeOK /\ LogTypeOK' /\ Numbered /\ L' = L
  BY LogStep DEF NumberedOK, LogOK, Next, Goes, Enter, TakeLock, HaveTime, HaveText, PrintPart, shutdown_srv,
                 Logs, Signal, Killed, vars
<1>1. ASSUME NEW level \in Levels, Logs(level) PROVE Numbered' /\ Heading' /\ Recorded'
  <2>1. /\ Numbered' /\ Top.at = "outside" /\ Top'.at = "outside" /\ made' = made /\ out' = out
        /\ \A o : LeftBelow(o) = {} /\ LeftBelow(o)' = {}
    BY <1>1, NumbersLogs DEF Logs
  <2>2. \A o : LeftBy(Top, o) = {} /\ LeftBy(Top', o) = {}
    BY <2>1 DEF LeftBy
  <2>3. \A o : Left(o)' = Left(o)
    BY <1>0, <2>1, <2>2, LeftIs, LeftNext
  <2>4. \A o : Owed(o)' = Owed(o)
    BY <1>0, <2>1 DEF Owed, Takes
  <2> QED BY <2>1, <2>3, <2>4, RecordedStays DEF Heading
<1>2. ASSUME NEW s \in Signals, Signal(s) PROVE Numbered' /\ Heading' /\ Recorded'
  <2>1. Numbered' /\ Top'.at = "outside" /\ made' = made /\ out' = out /\ \A o : LeftBelow(o)' = Left(o)
    BY <1>2, NumbersSignal DEF Signal
  <2>2. \A o : LeftBy(Top', o) = {}
    BY <2>1 DEF LeftBy
  <2>3. \A o : Left(o)' = Left(o)
    BY <1>0, <2>1, <2>2, LeftNext
  <2>4. \A o : Owed(o)' = Owed(o)
    BY <1>0, <2>1 DEF Owed, Takes
  <2> QED BY <2>1, <2>3, <2>4, RecordedStays DEF Heading
<1>3. ASSUME UNCHANGED <<L, stack, made, tm, out>> PROVE Numbered' /\ Heading' /\ Recorded'
  <2>1. Top' = Top /\ Event' = Event /\ made' = made /\ out' = out /\ Len(stack') = Len(stack)
    BY <1>3 DEF Top, Event, Last
  <2>2. \A o : LeftBelow(o)' = LeftBelow(o) /\ Left(o)' = Left(o)
    BY <1>3 DEF LeftBelow, Left, LeftBy
  <2>3. Numbered'
    BY <1>0, <2>1, <2>2 DEF Numbered, Rising
  <2>4. Heading'
    BY <1>0, <2>1 DEF Heading, NumberedOK, Takes
  <2>5. \A o : Owed(o)' = Owed(o)
    BY <1>0, <2>1 DEF Owed, Takes
  <2> QED BY <2>1, <2>2, <2>3, <2>4, <2>5, RecordedStays
<1> QED
  BY <1>0, <1>1, <1>2, <1>3, EnterRecorded, OnwardRecorded, PrintRecorded
     DEF Next, Goes, Killed, shutdown_srv, vars

(* What the invariant says of the outputs is what was promised.            *)
LEMMA RecordedIsAll == NumberedOK /\ Recorded => NothingLost
<1> SUFFICES ASSUME NumberedOK, Recorded, NEW o \in Outputs
             PROVE  LET prints == out[o]
                    IN  /\ Printed(prints) = Owed(o) \ Left(o)
                        /\ \A j, k \in DOMAIN prints : \A m, n \in DOMAIN made :
                              j < k /\ prints[j].id = made[m].id /\ prints[k].id = made[n].id
                                  => m < n \/ (m = n /\ prints[j].part < prints[k].part)
  BY DEF NothingLost, Printed, Owed, Wanted, Takes
<1>1. made \in Seq(Events) /\ Rising(made) /\ Printed(out[o]) = Owed(o) \ Left(o) /\ InOrder(out[o])
  BY DEF NumberedOK, LogOK, LogTypeOK, Numbered, Recorded
<1>2. \A m, n \in DOMAIN made : m \in Int /\ n \in Int /\ made[m].id \in Int
  BY <1>1, EventsIn
<1>3. \A m, n \in DOMAIN made : /\ made[m].id < made[n].id => m < n
                                /\ made[m].id = made[n].id => m = n
  BY <1>1, <1>2 DEF Rising
<1> QED BY <1>1, <1>3 DEF InOrder

(***************************************************************************)
(* Each output has every event of its level, in order: a signal costs at   *)
(* most what was left of the line it fell into (log.c:55-68, 150-165).     *)
(***************************************************************************)
THEOREM NothingIsLost == Spec => []NothingLost
<1>1. Init => NumberedOK /\ Recorded
  BY LogStart, NothingLostStart DEF NumberedOK
<1>2. NumberedOK /\ Recorded /\ [Next]_vars => (NumberedOK /\ Recorded)'
  <2> SUFFICES ASSUME NumberedOK, Recorded, [Next]_vars PROVE (NumberedOK /\ Recorded)'
    OBVIOUS
  <2>1. Numbered' /\ Heading' /\ Recorded'
    BY NothingLostStep
  <2>2. LogOK'
    BY LogStep DEF NumberedOK
  <2> QED BY <2>1, <2>2 DEF NumberedOK
<1>3. NumberedOK /\ Recorded => NothingLost
  BY RecordedIsAll
<1> QED BY <1>1, <1>2, <1>3, PTL DEF Spec
=============================================================================
