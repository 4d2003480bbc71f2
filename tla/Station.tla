------------------------------ MODULE Station ------------------------------
(***************************************************************************)
(* The two protocols on one transceiver.  The server is one thread and     *)
(* handles a request to its end before it looks at the next byte, so a     *)
(* request is a step; which client it came from makes no difference, only  *)
(* the protocol does: each has a static message of its own, and both send  *)
(* it to the same radio.                                                   *)
(***************************************************************************)
EXTENDS Ermak, Sequences

CONSTANTS
    RigRequests,    \* the requests hamlib clients make
    CatRequests,    \* the requests CAT clients make
    RitLimit,       \* 9999, the widest offset of an IF answer and of RU and RD
    IdleFunctions   \* entries of _rigctlFunc[] without callbacks

VARIABLES
    radio,     \* the settings of ermak.c
    rigMsg,    \* msg of rigctl.c
    catMsg,    \* msg of commcat.c
    answer,    \* the last request and its answer
    parm_ai, parm_af, parm_pwr

Rig == INSTANCE Rigctl  WITH msg <- rigMsg
Cat == INSTANCE Commcat WITH msg <- catMsg

ASSUME RequestsAssumption ==
    /\ \A q \in RigRequests : Rig!IsRequest(q)
    /\ \A q \in CatRequests : Cat!IsRequest(q)
    /\ RitLimit \in Nat

(* What OffsetFits assumes of the clients: offsets within the limit, and   *)
(* steps without a sign.  The code leaves it to them ("ToDo Check min -    *)
(* max", rigctl.c:839, 865).                                               *)
LegalOffset(q) ==
    /\ q.cmd \in {"set_rit", "set_xit"} /\ q.parm # <<>> => q.parm[1].num \in (-RitLimit)..RitLimit
    /\ q.cmd \in {"RU", "RD"} /\ q.parm # <<>>           => q.parm[1].num \in Nat

stationVars == <<radio, rigMsg, catMsg, answer, parm_ai, parm_af, parm_pwr>>

StationInit ==
    /\ radio = PowerOn
    /\ rigMsg = Zeroed /\ catMsg = Zeroed
    /\ answer = [cmd |-> "none", parm |-> <<>>, says |-> Rig!Nothing, rprt |-> 0]
    /\ parm_ai = 0 /\ parm_af = 128 /\ parm_pwr = 100

RigRequest(q) == Rig!rigctl_req(q) /\ UNCHANGED <<catMsg, parm_ai, parm_af, parm_pwr>>
CatRequest(q) == Cat!commcat_req(q) /\ UNCHANGED rigMsg

StationNext ==
    \/ \E q \in RigRequests : RigRequest(q)
    \/ \E q \in CatRequests : CatRequest(q)

StationSpec == StationInit /\ [][StationNext]_stationVars

----------------------------------------------------------------------------
(* Every variable keeps its type: in particular the radio never keeps a    *)
(* VFO, a switch or a power that its setters were to rule out, although    *)
(* words of other requests lie in the messages (ermak.c, commcat.c:576).   *)
StationTypeOK ==
    /\ radio \in Settings
    /\ rigMsg \in Messages /\ catMsg \in Messages
    /\ parm_ai \in Int /\ parm_af \in Nat
    /\ parm_pwr \in 5..100

(* The handlers, with a message for each protocol that carries the words   *)
(* of earlier requests, implement a transceiver without messages: whatever *)
(* came before, and from which protocol, a request changes the settings it *)
(* names, to the values it gives, and nothing else; and an answer shows    *)
(* the settings as they are.                                               *)
Radio == INSTANCE Transceiver WITH gains <- [ai |-> parm_ai, af |-> parm_af, pwr |-> parm_pwr]

DrivesTransceiver == Radio!Spec

(* A mode set by one protocol is the mode the other one reports, and the   *)
(* one it reports itself: the four conversion tables agree on all modes    *)
(* that Kenwood has a digit for (rigctl.c:243, 288; commcat.c:1001, 1025). *)
KenwoodDigits == {Radio!Digit[w] : w \in DOMAIN Radio!Digit}

ModesReadBack ==
    [][ LET set  == answer'.cmd = "set_mode" /\ answer'.rprt = Rig!RIG_OK
            word == Rig!SaysMode(radio', rigMsg').mode
            sent == answer'.parm[IF Len(answer'.parm) = 3 THEN 2 ELSE 1]
        IN  /\ set => word = sent.text /\ Cat!SaysIF(radio').mode = Radio!Digit[word]
            /\ answer'.cmd = "MD" /\ answer'.parm # <<>> /\ answer'.parm[1].num \in KenwoodDigits
                 => /\ Cat!SaysIF(radio').mode = answer'.parm[1].num
                    /\ word \in DOMAIN Radio!Digit /\ Radio!Digit[word] = answer'.parm[1].num ]_stationVars

(* A hamlib client waits for an answer to whatever it sends: each handler,  *)
(* each rejection and each way through them leaves one, but for a function *)
(* of the table that has no callbacks (rigctl.c:953, 994).                 *)
OnlyIdleFunctionsAreMute ==
    [][ answer'.rprt = Rig!RIG_EEND /\ answer'.says = Rig!Nothing
            => answer'.cmd \in {"set_func", "get_func"} /\ answer'.parm[1].text \in IdleFunctions ]_stationVars

(* The offset of an IF answer fits its field of four digits                *)
(* (commcat.c:390), for RU and RD stop in time at both ends.               *)
OffsetFits == Cat!SaysIF(radio).offset \in (-RitLimit)..RitLimit

----------------------------------------------------------------------------
(* What the documentation of the program says, and the program does not do. *)

(* The stack memory that \f prints is a member of ERMAK_STACK_MEM_t        *)
(* (ermak.h:249-254).                                                      *)
StackMemExists == answer.cmd = "full_info" => answer.says.stackMem - 1 \in ERMAK_STACK_MEM_t

(* An IF answer with split on, decoded with the table at                   *)
(* commcat.c:405-410, names the two VFOs the radio uses.                   *)
IfNamesVfos ==
    answer.cmd = "IF" /\ answer.says.split = ON
      => LET other == 1 - answer.says.vfo
         IN  <<radio.vfo, radio.vfoS>> = IF answer.says.ptt = OFF
                                         THEN <<answer.says.vfo, other>>
                                         ELSE <<other, answer.says.vfo>>
=============================================================================
