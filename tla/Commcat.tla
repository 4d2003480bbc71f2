------------------------------ MODULE Commcat ------------------------------
(***************************************************************************)
(* The Kenwood CAT protocol of commcat.c: one action per handler.          *)
(*                                                                         *)
(* A request is [cmd, parm]: the command of the table it matches, and the  *)
(* rest of the line, <<>> or one [lead, num, len]: its first character as  *)
(* a distance from '0', the number atoi() reads in it and its length.      *)
(* FA and ZZFA, FB and ZZFB, AG0, AG and ZZAG differ in the wording of     *)
(* their answers only.                                                     *)
(***************************************************************************)
EXTENDS Ermak, Sequences

CONSTANT RitLimit    \* 9999, where RU and RD stop

VARIABLES
    radio,    \* the settings of the transceiver
    msg,      \* the static msg of commcat.c
    answer,   \* the last request and what was said to it
    parm_ai, parm_af, parm_pwr

parms == <<parm_ai, parm_af, parm_pwr>>

Silence == [silence |-> TRUE]
Fixed   == [ack |-> TRUE]     \* an answer that depends on no setting

None(q)  == q.parm = <<>>
Lead(q)  == q.parm[1].lead
Value(q) == q.parm[1].num

(* What commcat_req() hands on.  A frequency or a gain has no sign.        *)
IsRequest(q) ==
    /\ q \in [cmd : STRING, parm : Seq([lead : Int, num : Int, len : Nat])]
    /\ Len(q.parm) <= 1
    /\ q.cmd \in {"FA", "ZZFA", "FB", "ZZFB", "AG0", "AG", "ZZAG"} =>
          \A i \in DOMAIN q.parm : q.parm[i].num \in Nat

cvtModeK2E(mode) ==
    CASE mode = 1 -> ERMAK_MODE_LSB  [] mode = 2 -> ERMAK_MODE_USB
      [] mode = 3 -> ERMAK_MODE_CWU  [] mode = 4 -> ERMAK_MODE_FM
      [] mode = 5 -> ERMAK_MODE_AM   [] mode = 6 -> ERMAK_MODE_FSK
      [] mode = 7 -> ERMAK_MODE_CWL  [] mode = 9 -> ERMAK_MODE_PKTUSB
      [] OTHER    -> Unknown

cvtModeE2K(mode) ==
    CASE mode = ERMAK_MODE_LSB -> 1  [] mode = ERMAK_MODE_USB    -> 2
      [] mode = ERMAK_MODE_CWU -> 3  [] mode = ERMAK_MODE_FM     -> 4
      [] mode = ERMAK_MODE_AM  -> 5  [] mode = ERMAK_MODE_FSK    -> 6
      [] mode = ERMAK_MODE_CWL -> 7  [] mode = ERMAK_MODE_PKTUSB -> 9
      [] OTHER -> 0

(* IF: the offset of RIT, or that of XIT when it alone is on; the VFO that *)
(* receives, or the other one while a split transmission is on the air.    *)
SaysIF(r) ==
    [ freq   |-> VfoFreq(r, r.vfo),
      offset |-> IF r.xit = ON /\ r.rit = OFF THEN r.xitFreq ELSE r.ritFreq,
      rit    |-> r.rit,
      xit    |-> r.xit,
      ptt    |-> r.ptt,
      mode   |-> cvtModeE2K(r.mode),
      vfo    |-> IF r.split = OFF \/ r.ptt = OFF THEN r.vfo ELSE r.vfoS,
      split  |-> r.split ]

----------------------------------------------------------------------------
Says(q, says) == answer' = [cmd |-> q.cmd, parm |-> q.parm, says |-> says, rprt |-> 0]

Ask == UNCHANGED radio /\ msg' = FullInfo(radio, msg)

Send(command, m) ==
    /\ radio' = Perform(radio, command, m)
    /\ msg' = Returned(radio, command, m)

(* A reading handler, and one that neither reads nor sets the radio. *)
Reads(q, says) == Ask /\ Says(q, says) /\ UNCHANGED parms
Idle(q, says)  == Says(q, says) /\ UNCHANGED <<radio, msg, parms>>

(* A setting handler: most of them answer nothing. *)
Sets(q, command, m, says) == Send(command, m) /\ Says(q, says) /\ UNCHANGED parms

TunesVfo(q, vfo) ==
    IF None(q) THEN Reads(q, [freq |-> VfoFreq(radio, vfo)])
    ELSE Sets(q, "SET_VFO", VfoData(msg, Value(q), vfo), Silence)

cbReqFA(q) == q.cmd \in {"FA", "ZZFA"} /\ TunesVfo(q, ERMAK_VFO_MODE_A)
cbReqFB(q) == q.cmd \in {"FB", "ZZFB"} /\ TunesVfo(q, ERMAK_VFO_MODE_B)

cbReqFR(q) ==
    /\ q.cmd = "FR"
    /\ IF None(q) THEN Reads(q, [vfo |-> radio.vfo])
       ELSE IF Lead(q) \in ERMAK_VFO_MODE_t
       THEN Sets(q, "SWITCH_VFO", VfoOnly(msg, Lead(q)), Silence)
       ELSE Idle(q, Silence)

(* Split is on when the two VFOs differ at this moment. *)
cbReqFT(q) ==
    /\ q.cmd = "FT"
    /\ IF None(q) THEN Reads(q, [vfo |-> radio.vfoS])
       ELSE IF Lead(q) \in ERMAK_VFO_MODE_t
       THEN Sets(q, "SET_SPLIT",
                 KenwoodFT(FullInfo(radio, msg), IF radio.vfo # Lead(q) THEN ON ELSE OFF, Lead(q)),
                 Silence)
       ELSE Reads(q, Silence)

cbReqIF(q) == q.cmd = "IF" /\ Reads(q, SaysIF(radio))

cbReqMD(q) ==
    /\ q.cmd = "MD"
    /\ IF None(q) THEN Reads(q, [mode |-> cvtModeE2K(radio.mode)])
       ELSE Sets(q, "SET_MODE", ModeData(msg, cvtModeK2E(Value(q))), Silence)

(* RD and RU step by 1, or by a parameter of five characters. *)
Step(q) == IF ~None(q) /\ q.parm[1].len = 5 THEN Value(q) ELSE 1

RitFreq(offset) == [FullInfo(radio, msg) EXCEPT !.w0 = offset]

(* RD that tests the offset before the step (a mutant). *)
TestsBeforeStep(q) ==
    /\ q.cmd = "RD"
    /\ IF radio.ritFreq > -RitLimit
       THEN Sets(q, "SET_RIT_FREQ", RitFreq(radio.ritFreq - Step(q)), Silence)
       ELSE Reads(q, Silence)

cbReqRD(q) ==
    /\ q.cmd = "RD"
    /\ IF radio.ritFreq - Step(q) > -RitLimit
       THEN Sets(q, "SET_RIT_FREQ", RitFreq(radio.ritFreq - Step(q)), Silence)
       ELSE Reads(q, Silence)

cbReqRU(q) ==
    /\ q.cmd = "RU"
    /\ IF radio.ritFreq + Step(q) < RitLimit
       THEN Sets(q, "SET_RIT_FREQ", RitFreq(radio.ritFreq + Step(q)), Silence)
       ELSE Reads(q, Silence)

IsOne(q) == IF Lead(q) = 1 THEN ON ELSE OFF

cbReqRT(q) ==
    /\ q.cmd = "RT"
    /\ IF None(q) THEN Reads(q, [rit |-> radio.rit])
       ELSE Sets(q, "SET_RIT", [msg EXCEPT !.w1 = IsOne(q)], Silence)

cbReqXT(q) ==
    /\ q.cmd = "XT"
    /\ IF None(q) THEN Reads(q, [xit |-> radio.xit])
       ELSE Sets(q, "SET_XIT", [msg EXCEPT !.w3 = IsOne(q)], Silence)

(* RX that ends what TX began and nothing else (a mutant). *)
UnkeysOwn(q) ==
    /\ q.cmd = "RX"
    /\ IF msg.w0 = ON THEN Sets(q, "SET_TRANSMITT_RX", TransmittRx(msg, OFF), Fixed) ELSE Idle(q, Fixed)

cbReqRX(q) ==
    /\ q.cmd = "RX"
    /\ Sets(q, "SET_TRANSMITT_RX", TransmittRx(msg, OFF), Fixed)

cbReqTX(q) ==
    /\ q.cmd = "TX"
    /\ Sets(q, "SET_TRANSMITT_RX", TransmittRx(msg, ON), [echo |-> IF None(q) THEN 0 ELSE Lead(q)])

----------------------------------------------------------------------------
(* Handlers without the radio *)

cbReqAG0(q) ==
    /\ q.cmd \in {"AG0", "AG", "ZZAG"}
    /\ IF None(q) THEN Idle(q, [gain |-> parm_af])
       ELSE /\ parm_af' = Value(q)
            /\ Says(q, Silence) /\ UNCHANGED <<radio, msg, parm_ai, parm_pwr>>

cbReqAI(q) ==
    /\ q.cmd = "AI"
    /\ parm_ai' = IF None(q) THEN parm_ai ELSE Lead(q)
    /\ Says(q, [ai |-> parm_ai']) /\ UNCHANGED <<radio, msg, parm_af, parm_pwr>>

(* Without the lower limit (a mutant). *)
NoFloor(pwr) == IF pwr > 100 THEN 100 ELSE pwr

PowerFor(pwr) == IF pwr < 5 THEN 5 ELSE IF pwr > 100 THEN 100 ELSE pwr

cbReqPC(q) ==
    /\ q.cmd = "PC"
    /\ IF None(q) THEN Idle(q, [power |-> parm_pwr])
       ELSE /\ parm_pwr' = PowerFor(Value(q))
            /\ Says(q, Silence) /\ UNCHANGED <<radio, msg, parm_ai, parm_af>>

(* ID and SM always answer, KS and NB when they are read. *)
cbReqIDorSM(q) == q.cmd \in {"ID", "SM"} /\ Idle(q, Fixed)
cbReqKSorNB(q) == q.cmd \in {"KS", "NB"} /\ Idle(q, IF None(q) THEN Fixed ELSE Silence)

(* commcat_req(): no command of the table starts the request. *)
NotFound(q) == q.cmd = "other" /\ Idle(q, [unknown |-> TRUE])

commcat_req(q) ==
    \/ cbReqFA(q) \/ cbReqFB(q) \/ cbReqFR(q) \/ cbReqFT(q) \/ cbReqIF(q) \/ cbReqMD(q)
    \/ cbReqRD(q) \/ cbReqRU(q) \/ cbReqRT(q) \/ cbReqXT(q) \/ cbReqRX(q) \/ cbReqTX(q)
    \/ cbReqAG0(q) \/ cbReqAI(q) \/ cbReqPC(q) \/ cbReqIDorSM(q) \/ cbReqKSorNB(q) \/ NotFound(q)
=============================================================================
