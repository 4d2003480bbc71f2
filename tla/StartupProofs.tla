--------------------------- MODULE StartupProofs ---------------------------
(* The table the event loop starts with, for every command line. *)
EXTENDS Startup, SequenceTheorems, TLAPS

IsShort(n) == n \in Int /\ -32768 <= n /\ n < 32768

(* Narrowing to a short int (config.h:9-10) leaves no port above 32767:    *)
(* this is what makes up for the 655535 of config.c:105.                   *)
LEMMA ShortRange == \A n \in Nat : IsShort(Short(n))
<1> SUFFICES ASSUME NEW n \in Nat
             PROVE  IsShort(Short(n))
  OBVIOUS
<1>1. n % 65536 \in Int /\ 0 <= n % 65536 /\ n % 65536 < 65536
  BY SMT
<1>2. CASE n % 65536 < 32768
  BY <1>1, <1>2, SMT DEF Short, IsShort
<1>3. CASE ~(n % 65536 < 32768)
  BY <1>1, <1>3, SMT DEF Short, IsShort
<1> QED
  BY <1>2, <1>3

(* A port parse_parm() accepts is one net_start_listen() listens on. *)
LEMMA UsableIsListenable ==
    \A p : IsShort(p) /\ Usable(p) => Listenable(p)
BY SMT DEF IsShort, Usable, Listenable

(* No port is the number that stands for no socket. *)
LEMMA ListenableIsPort ==
    \A p : Listenable(p) => p # NO_SOCKET
BY SMT DEF Listenable, NO_SOCKET

Ranges == IsShort(rigctlport) /\ IsShort(commport)

(* Either port can be listened on, once the command line was accepted. *)
OneUsable == Listenable(rigctlport) \/ Listenable(commport)

RigDone ==
    \/ Listenable(rigctlport) /\ net_fds = <<rigctlport>> /\ socket_rigctl = rigctlport
    \/ ~Listenable(rigctlport) /\ net_fds = <<>> /\ socket_rigctl = NO_SOCKET

(* The inductive invariant: what has been opened at each stage. *)
Staged ==
    /\ Ranges
    /\ pc = "parse" => net_fds = <<>> /\ socket_rigctl = NO_SOCKET /\ socket_comm = NO_SOCKET
    /\ pc = "rig" => /\ OneUsable /\ net_fds = <<>>
                     /\ socket_rigctl = NO_SOCKET /\ socket_comm = NO_SOCKET
    /\ pc = "comm" => OneUsable /\ RigDone /\ socket_comm = NO_SOCKET
    /\ TableReady

LEMMA StagedInit == Init => Staged
<1>1. IsShort(RIGCTLPORT) /\ IsShort(COMMPORT)
  BY SMT DEF IsShort, RIGCTLPORT, COMMPORT
<1> QED
  BY <1>1 DEF Init, Staged, Ranges, TableReady

(* The second socket comes after the first. *)
LEMMA PairAppended ==
    ASSUME NEW a \in Int, NEW b \in Int
    PROVE  Append(<<a>>, b) = <<a, b>>
<1> DEFINE s == <<a>>
           t == <<a, b>>
<1>1. s \in Seq(Int) /\ Len(s) = 1 /\ s[1] = a
  OBVIOUS
<1>2. t \in Seq(Int) /\ Len(t) = 2 /\ t[1] = a /\ t[2] = b
  OBVIOUS
<1> HIDE DEF s, t
<1>3. s \in Seq(Int) /\ b \in Int
  BY <1>1
<1>4. /\ Append(s, b) \in Seq(Int)
      /\ Len(Append(s, b)) = Len(s) + 1
      /\ \A i \in 1..Len(s) : Append(s, b)[i] = s[i]
      /\ Append(s, b)[Len(s) + 1] = b
  BY <1>3, AppendProperties, SMTT(60)
<1>5. Len(Append(s, b)) = Len(t) /\ \A i \in 1..Len(Append(s, b)) : Append(s, b)[i] = t[i]
  BY <1>1, <1>2, <1>4, SMTT(60)
<1>6. Append(s, b) = t
  BY <1>2, <1>4, <1>5, SeqEqual, SMTT(60)
<1> QED
  BY <1>6 DEF s, t

(* Opening the second socket, or none, on top of what the first step left. *)
LEMMA CommStep == Staged /\ ListenComm => Staged'
<1> SUFFICES ASSUME Staged, ListenComm
             PROVE  Staged'
  OBVIOUS
<1>1. /\ pc = "comm" /\ OneUsable /\ RigDone /\ socket_comm = NO_SOCKET
      /\ UNCHANGED <<rigctlport, commport, socket_rigctl>>
  BY DEF Staged, ListenComm
<1>2. Ranges /\ Ranges'
  BY <1>1 DEF Staged, Ranges
<1>3. pc' \in {"serve", "exit"}
  BY DEF ListenComm, Opens
<1>4. ASSUME pc' = "serve"
      PROVE  TableReady'
  <2>1. CASE Listenable(commport)
    <3>1. /\ commport \notin {net_fds[k] : k \in DOMAIN net_fds}
          /\ net_fds' = Append(net_fds, commport) /\ socket_comm' = commport
      BY <1>4, <2>1 DEF ListenComm, Opens
    <3>2. commport # NO_SOCKET
      BY <2>1, ListenableIsPort
    <3>3. CASE Listenable(rigctlport) /\ net_fds = <<rigctlport>> /\ socket_rigctl = rigctlport
      <4>1. rigctlport # NO_SOCKET /\ rigctlport # commport
        BY <3>1, <3>3, ListenableIsPort
      <4>2. net_fds' = <<rigctlport, commport>>
        <5>1. rigctlport \in Int /\ commport \in Int
          BY <1>2 DEF Ranges, IsShort
        <5> QED
          BY <3>1, <3>3, <5>1, PairAppended
      <4> QED
        BY <4>1, <4>2, <3>1, <3>2, <3>3, <1>1 DEF TableReady
    <3>4. CASE net_fds = <<>> /\ socket_rigctl = NO_SOCKET
      <4>1. net_fds' = <<commport>>
        BY <3>1, <3>4
      <4> QED
        BY <4>1, <3>1, <3>2, <3>4, <1>1 DEF TableReady
    <3> QED
      BY <1>1, <3>3, <3>4 DEF RigDone
  <2>2. CASE ~Listenable(commport)
    <3>1. Listenable(rigctlport) /\ net_fds = <<rigctlport>> /\ socket_rigctl = rigctlport
      BY <1>1, <2>2 DEF OneUsable, RigDone
    <3>2. net_fds' = net_fds /\ socket_comm' = NO_SOCKET
      BY <1>1, <1>4, <2>2 DEF ListenComm
    <3>3. rigctlport # NO_SOCKET
      BY <3>1, ListenableIsPort
    <3> QED
      BY <3>1, <3>2, <3>3, <1>1 DEF TableReady
  <2> QED
    BY <2>1, <2>2
<1> QED
  BY <1>2, <1>3, <1>4 DEF Staged, TableReady

LEMMA StagedStep == Staged /\ [Next]_vars => Staged'
<1> SUFFICES ASSUME Staged, [Next]_vars
             PROVE  Staged'
  OBVIOUS
<1>1. CASE OptionV
  BY <1>1 DEF Staged, Ranges, OptionV, Option, TableReady, sockets
<1>2. ASSUME NEW n \in Ports, OptionP(n)
      PROVE  Staged'
  <2>1. n \in Nat
    BY StartupAssumption DEF StartupAssumption
  <2>2. IsShort(Short(n))
    BY <2>1, ShortRange
  <2> QED
    BY <1>2, <2>2 DEF Staged, Ranges, OptionP, Option, TableReady, sockets
<1>3. ASSUME NEW n \in Ports, OptionC(n)
      PROVE  Staged'
  <2>1. n \in Nat
    BY StartupAssumption DEF StartupAssumption
  <2>2. IsShort(Short(n))
    BY <2>1, ShortRange
  <2> QED
    BY <1>3, <2>2 DEF Staged, Ranges, OptionC, Option, TableReady, sockets
<1>4. CASE Parsed
  <2>1. pc' = "rig" => OneUsable'
    BY <1>4, UsableIsListenable DEF Parsed, Staged, Ranges, OneUsable
  <2> QED
    BY <1>4, <2>1 DEF Staged, Ranges, Parsed, TableReady, sockets
<1>5. CASE ListenRig
  <2>1. pc = "rig" /\ OneUsable /\ net_fds = <<>> /\ socket_rigctl = NO_SOCKET
    BY <1>5 DEF ListenRig, Staged
  <2>2. pc' = "comm" => RigDone'
    BY <1>5, <2>1 DEF ListenRig, Opens, RigDone
  <2>3. pc' \in {"comm", "exit"}
    BY <1>5 DEF ListenRig, Opens
  <2> QED
    BY <1>5, <2>1, <2>2, <2>3 DEF ListenRig, Staged, Ranges, OneUsable, TableReady
<1>6. CASE ListenComm
  BY <1>6, CommStep
<1>7. CASE UNCHANGED vars
  BY <1>7 DEF vars, Staged, Ranges, OneUsable, RigDone, TableReady
<1> QED
  BY <1>1, <1>2, <1>3, <1>4, <1>5, <1>6, <1>7 DEF Next

(* Whatever is on the command line, the loop of main() starts with a poll  *)
(* table that PollServer assumes: one or both listening sockets, in order. *)
THEOREM LoopStartsReady == Spec => []TableReady
<1>1. Init => Staged
  BY StagedInit
<1>2. Staged /\ [Next]_vars => Staged'
  BY StagedStep
<1>3. Staged => TableReady
  BY DEF Staged
<1> QED
  BY <1>1, <1>2, <1>3, PTL DEF Spec
=============================================================================
