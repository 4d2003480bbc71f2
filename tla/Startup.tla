------------------------------ MODULE Startup ------------------------------
(***************************************************************************)
(* From the command line to the event loop: parse_parm() of config.c,      *)
(* setup_signals() and main() of main.c, net_start_listen() and            *)
(* start_listen_socket() of network.c.  What it leaves behind is the       *)
(* initial state of PollServer.                                            *)
(***************************************************************************)
EXTENDS Integers, Sequences

CONSTANTS
    Ports,      \* the numbers given to -p and -c
    Busy,       \* ports other programs listen on
    MaxOptions  \* options on the command line

ASSUME StartupAssumption ==
    Ports \subseteq Nat /\ Busy \subseteq Nat /\ MaxOptions \in Nat

VARIABLES
    pc,             \* "parse", "rig", "comm", "serve" or "exit"
    options,        \* how many options were parsed
    verbose, level, \* the counter of config.c and the level of log.c
    rigctlport, commport,
    socket_rigctl, socket_comm,
    net_fds         \* the sockets in the poll table, by the port they listen on

vars == <<pc, options, verbose, level, rigctlport, commport, socket_rigctl, socket_comm, net_fds>>

RIGCTLPORT == 4532
COMMPORT   == 5555
NO_SOCKET  == -1

(* A port in a short int that was not narrowed (a mutant). *)
Wide(n) == n

(* What atoi() leaves in a short int. *)
Short(n) == IF n % 65536 < 32768 THEN n % 65536 ELSE (n % 65536) - 65536

(* The range of net_start_listen(), and of parse_parm() for the -c port;   *)
(* for the -p port parse_parm() has another one.                           *)
Listenable(port) == port > 1000 /\ port < 65535
Usable(port)     == port > 1000 /\ port < 655535

Init ==
    /\ pc = "parse" /\ options = 0
    /\ verbose = -1 /\ level = 0
    /\ rigctlport = RIGCTLPORT /\ commport = COMMPORT
    /\ socket_rigctl = NO_SOCKET /\ socket_comm = NO_SOCKET /\ net_fds = <<>>

sockets == <<socket_rigctl, socket_comm, net_fds>>

----------------------------------------------------------------------------
(* parse_opt(), one action per option; -q and -o leave this state alone. *)
Option ==
    /\ pc = "parse" /\ options < MaxOptions
    /\ options' = options + 1
    /\ UNCHANGED <<pc, level, sockets>>

OptionV ==
    /\ Option
    /\ verbose' = IF verbose < 4 THEN verbose + 1 ELSE verbose
    /\ UNCHANGED <<rigctlport, commport>>

OptionP(n) ==
    /\ Option
    /\ rigctlport' = Short(n)
    /\ UNCHANGED <<verbose, commport>>

OptionC(n) ==
    /\ Option
    /\ commport' = Short(n)
    /\ UNCHANGED <<verbose, rigctlport>>

(* The end of parse_parm(), and setup_signals(), which may fail. *)
Parsed ==
    /\ pc = "parse"
    /\ verbose' = IF verbose = -1 THEN 4 ELSE 4 - verbose
    /\ level' = verbose'
    /\ \/ pc' = "exit"
       \/ /\ Usable(rigctlport) \/ Listenable(commport)
          /\ pc' = "rig"
    /\ UNCHANGED <<options, rigctlport, commport, sockets>>

(* start_listen_socket(): a busy port fails at bind(), and any of its      *)
(* calls may fail; then the socket is closed and the table is as it was.   *)
Opens(port, then, else) ==
    \/ /\ port \notin Busy \cup {net_fds[k] : k \in DOMAIN net_fds}
       /\ net_fds' = Append(net_fds, port)
       /\ pc' = then
    \/ /\ net_fds' = else /\ pc' = "exit"

ListenRig ==
    /\ pc = "rig"
    /\ IF Listenable(rigctlport)
       THEN /\ Opens(rigctlport, "comm", net_fds)
            /\ socket_rigctl' = IF pc' = "exit" THEN NO_SOCKET ELSE rigctlport
       ELSE pc' = "comm" /\ UNCHANGED <<net_fds, socket_rigctl>>
    /\ UNCHANGED <<options, verbose, level, rigctlport, commport, socket_comm>>

(* Without a return statement at its end, net_start_listen() returns what  *)
(* its last test left in the register (gcc as the Makefile calls it): the  *)
(* number of the socket, or of the port it did not open.  A failure closes *)
(* the sockets, and so does the end of a process that main() exits.        *)
ListenComm ==
    /\ pc = "comm"
    /\ IF Listenable(commport)
       THEN /\ Opens(commport, "serve", <<>>)
            /\ socket_comm' = IF pc' = "exit" THEN NO_SOCKET ELSE commport
       ELSE /\ pc' = IF commport < 0 THEN "exit" ELSE "serve"
            /\ net_fds' = IF commport < 0 THEN <<>> ELSE net_fds
            /\ UNCHANGED socket_comm
    /\ UNCHANGED <<options, verbose, level, rigctlport, commport, socket_rigctl>>

Next ==
    \/ OptionV \/ Parsed \/ ListenRig \/ ListenComm
    \/ \E n \in Ports : OptionP(n) \/ OptionC(n)

Spec == Init /\ [][Next]_vars

----------------------------------------------------------------------------
(* When the loop of main() starts, the poll table is one PollServer can    *)
(* start with: it is not empty, so that what parse_parm() accepts          *)
(* (config.c:105, with its 655535) is enough for net_start_listen()        *)
(* (network.c:282, 291) to open a socket; and net_poll() finds each        *)
(* listening socket in socket_rigctl or socket_comm, in their order.       *)
TableReady ==
    pc = "serve" =>
        /\ net_fds \in { <<socket_rigctl>>, <<socket_comm>>, <<socket_rigctl, socket_comm>> }
        /\ socket_rigctl # socket_comm
        /\ NO_SOCKET \notin {net_fds[k] : k \in DOMAIN net_fds}
=============================================================================
