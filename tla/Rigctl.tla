------------------------------- MODULE Rigctl -------------------------------
(***************************************************************************)
(* The hamlib protocol of rigctl.c: one action per command handler.        *)
(*                                                                         *)
(* A request is [cmd, parm, long]: the command, by its long name, its at   *)
(* most three parameters, and whether a prefix (+ ; | ,) asks for a long   *)
(* reply.  A parameter is [text, lead, num]: the word it is ("" for one    *)
(* no handler compares with), whether it starts with "1", "?" or neither,  *)
(* and the number strtof() and atoi() read in it.  An answer is what it    *)
(* says, as a record without the labels, and its RPRT code.                *)
(***************************************************************************)
EXTENDS Ermak, Sequences

VARIABLES
    radio,    \* the settings of the transceiver
    msg,      \* the static msg of rigctl.c
    answer    \* the last request, what was said to it, and its RPRT

RIG_OK     == 0
RIG_EINVAL == 1
RIG_ENAVAIL == 11
RIG_EEND   == 21    \* no RPRT line

Nothing == [nothing |-> TRUE]
Notes   == [ack |-> TRUE]          \* a text that depends on no setting

(* (uint32_t) strtof(): the nearest float, which has 24 bits, ties to even. *)
(* Below 2^30, far above what the transceiver tunes to.                    *)
ToFloat(n) ==
    LET ulp  == CHOOSE u \in {1, 2, 4, 8, 16, 32, 64} :
                   n < 16777216 * u /\ (u = 1 \/ n >= 8388608 * u)
        q    == n \div ulp
        r    == n % ulp
    IN  IF 2*r < ulp \/ (2*r = ulp /\ q % 2 = 0) THEN q * ulp ELSE (q+1) * ulp

Has(q, i)     == Len(q.parm) >= i
Word(q, i)    == q.parm[i].text
Lead(q, i)    == q.parm[i].lead
Number(q, i)  == q.parm[i].num
StartsWith1(q, i) == Has(q, i) /\ Lead(q, i) = "1"

(* What rigctl_parse_in() hands on, with frequencies a transceiver has: the *)
(* float of any other is cast to an uint32_t it may not fit.               *)
Parameters == [text : STRING, lead : {"1", "?", "other"}, num : Int]

IsRequest(q) ==
    /\ q \in [cmd : STRING, parm : Seq(Parameters), long : BOOLEAN]
    /\ Len(q.parm) <= 3
    /\ q.cmd \in {"set_freq", "set_split_freq"} =>
          \A i \in DOMAIN q.parm : q.parm[i].num \in Nat /\ q.parm[i].num < 1073741824

ModeWords == {"PKTUSB", "PKTLSB", "USB", "LSB", "CWR", "CW", "AM", "FM"}

(* A table with CW and CWR swapped (a mutant). *)
SwappedStr2Mode(w) ==
    CASE w = "PKTUSB" -> ERMAK_MODE_PKTUSB
      [] w = "PKTLSB" -> ERMAK_MODE_FSK
      [] w = "USB"    -> ERMAK_MODE_USB
      [] w = "LSB"    -> ERMAK_MODE_LSB
      [] w = "CWR"    -> ERMAK_MODE_CWU
      [] w = "CW"     -> ERMAK_MODE_CWL
      [] w = "AM"     -> ERMAK_MODE_AM
      [] w = "FM"     -> ERMAK_MODE_FM
      [] OTHER        -> Unknown

rigctl_cvtStr2Mode(w) ==
    CASE w = "PKTUSB" -> ERMAK_MODE_PKTUSB
      [] w = "PKTLSB" -> ERMAK_MODE_FSK
      [] w = "USB"    -> ERMAK_MODE_USB
      [] w = "LSB"    -> ERMAK_MODE_LSB
      [] w = "CWR"    -> ERMAK_MODE_CWL
      [] w = "CW"     -> ERMAK_MODE_CWU
      [] w = "AM"     -> ERMAK_MODE_AM
      [] w = "FM"     -> ERMAK_MODE_FM
      [] OTHER        -> Unknown

rigctl_cvtMode2Str(mode) ==
    CASE mode = ERMAK_MODE_LSB    -> "LSB"
      [] mode = ERMAK_MODE_USB    -> "USB"
      [] mode = ERMAK_MODE_CWU    -> "CW"
      [] mode = ERMAK_MODE_FM     -> "FM"
      [] mode = ERMAK_MODE_AM     -> "AM"
      [] mode = ERMAK_MODE_FSK    -> "PKTLSB"
      [] mode = ERMAK_MODE_CWL    -> "CWR"
      [] mode = ERMAK_MODE_PKTUSB -> "PKTUSB"
      [] OTHER                    -> "UNK"

rigctl_cvtVfo2Str(vfo) ==
    CASE vfo = ERMAK_VFO_MODE_A -> "VFOA" [] vfo = ERMAK_VFO_MODE_B -> "VFOB" [] OTHER -> "currVFO"

Width == ermak_cfg_bp_high - ermak_cfg_bp_low

(* What the queries say about a radio: one operator per reply that is      *)
(* compared with another one.                                              *)
SaysMode(r, m)    == [mode |-> rigctl_cvtMode2Str(r.mode), passband |-> Low16(m.w0)]
SaysSplit(r)      == [split |-> r.split, vfo |-> rigctl_cvtVfo2Str(r.vfoS)]
SaysSplitFreq(r)  == [freq |-> VfoFreq(r, r.vfoS)]

----------------------------------------------------------------------------
(* rigctl_req(): a text alone gets an RPRT in a long reply only. *)

Answer(q, says, rprt) ==
    answer' = [ cmd |-> q.cmd, parm |-> q.parm, says |-> says,
                rprt |-> IF q.long /\ says # Nothing /\ rprt = RIG_EEND THEN RIG_OK ELSE rprt ]

Says(q, says)    == Answer(q, says, RIG_EEND)
Reports(q, rprt) == Answer(q, Nothing, rprt)

Ask == UNCHANGED radio /\ msg' = FullInfo(radio, msg)

Send(command, m) ==
    /\ radio' = Perform(radio, command, m)
    /\ msg' = Returned(radio, command, m)

(* SEND_REQUEST_TO_ERMAK() and NotifyWEBRemote() after it. *)
SendAndNotify(command, m, type) ==
    /\ radio' = Perform(radio, command, m)
    /\ msg' = [Returned(radio, command, m) EXCEPT !.w0 = type]

Rejects(q, m) ==
    /\ Reports(q, RIG_EINVAL) /\ UNCHANGED radio /\ msg' = m

----------------------------------------------------------------------------
(* Queries *)

cbRigCTLChkVFO(q) ==
    /\ q.cmd = "chk_vfo"
    /\ Says(q, [vfo |-> 0]) /\ UNCHANGED <<radio, msg>>

cbRigCTLDumpState(q) ==
    /\ q.cmd = "dump_state"
    /\ Says(q, Notes) /\ UNCHANGED <<radio, msg>>

cbRigCTLGetPowerState(q) ==
    /\ q.cmd = "get_powerstat"
    /\ Says(q, [power |-> 1]) /\ UNCHANGED <<radio, msg>>

cbRigCTLGetVFOinfo(q) ==
    /\ q.cmd = "get_vfo_info"
    /\ Ask
    /\ LET vfo == IF Has(q, 1) /\ Word(q, 1) = "VFOA" THEN ERMAK_VFO_MODE_A
                  ELSE IF Has(q, 1) /\ Word(q, 1) = "VFOB" THEN ERMAK_VFO_MODE_B
                  ELSE radio.vfo
       IN  Says(q, IF Has(q, 1) /\ Word(q, 1) = "?" THEN Notes
                   ELSE [freq |-> VfoFreq(radio, vfo), mode |-> rigctl_cvtMode2Str(radio.mode),
                         width |-> Width, split |-> radio.split])

cbRigCTLGetLockMode(q) ==
    /\ q.cmd = "get_lock_mode"
    /\ Ask /\ Says(q, [lock |-> radio.lock])

cbRigCTLGetFreq(q) ==
    /\ q.cmd = "get_freq"
    /\ Ask /\ Says(q, [freq |-> VfoFreq(radio, radio.vfo)])

cbRigCTLGetVFO(q) ==
    /\ q.cmd = "get_vfo"
    /\ Ask /\ Says(q, [vfo |-> rigctl_cvtVfo2Str(radio.vfo)])

(* The passband is read from freqModeData, which is the storage of rx. *)
cbRigCTLGetMode(q) ==
    /\ q.cmd = "get_mode"
    /\ Ask /\ Says(q, SaysMode(radio, msg'))

cbRigCTLGetPTT(q) ==
    /\ q.cmd = "get_ptt"
    /\ Ask /\ Says(q, [ptt |-> msg'.w2])

cbRigCTLGetSplitVFO(q) ==
    /\ q.cmd = "get_split_vfo"
    /\ Ask /\ Says(q, SaysSplit(radio))

cbRigCTLGetSplitMode(q) ==
    /\ q.cmd = "get_split_mode"
    /\ Ask /\ Says(q, [mode |-> rigctl_cvtMode2Str(radio.mode), passband |-> Width])

cbRigCTLGetSplitFreq(q) ==
    /\ q.cmd = "get_split_freq"
    /\ Ask /\ Says(q, SaysSplitFreq(radio))

cbRigCTLGetRit(q) ==
    /\ q.cmd = "get_rit"
    /\ Ask /\ Says(q, [offset |-> radio.ritFreq])

cbRigCTLGetXit(q) ==
    /\ q.cmd = "get_xit"
    /\ Ask /\ Says(q, [offset |-> radio.xitFreq])

(* The second request leaves rx as it has just been set. *)
cbRigCTLGetFullInfo(q) ==
    /\ q.cmd = "full_info"
    /\ UNCHANGED radio
    /\ msg' = LET m == FullInfo(radio, msg)
              IN  IF StartsWith1(q, 1) THEN [m EXCEPT !.w0 = ERMAK_RX_SUB] ELSE m
    /\ Says(q, [rx |-> msg'.w0, ptt |-> msg'.w2, stackMem |-> msg'.w1 + 1, band |-> msg'.w3,
                mode |-> rigctl_cvtMode2Str(radio.mode), freqA |-> radio.freqA,
                freqB |-> radio.freqB, split |-> radio.split, rit |-> radio.rit,
                xit |-> radio.xit, lock |-> radio.lock,
                vfoRX |-> rigctl_cvtVfo2Str(radio.vfo), vfoTX |-> rigctl_cvtVfo2Str(radio.vfoS)])

----------------------------------------------------------------------------
(* Settings *)

cbRigCTLSetLockMode(q) ==
    /\ q.cmd = "set_lock_mode"
    /\ Send("SET_LOCK", [msg EXCEPT !.lockOn = StartsWith1(q, 1)])
    /\ Reports(q, RIG_OK)

cbRigCTLSetFreq(q) ==
    /\ q.cmd = "set_freq"
    /\ IF q.parm = <<>>
       THEN Rejects(q, VfoData(msg, msg.w0, Unknown))
       ELSE LET freq == ToFloat(Number(q, IF Has(q, 2) THEN 2 ELSE 1))
                vfo  == IF Has(q, 2) /\ Word(q, 1) = "VFOB" THEN ERMAK_VFO_MODE_B
                        ELSE IF Has(q, 2) /\ Word(q, 1) = "VFOA" THEN ERMAK_VFO_MODE_A
                        ELSE Unknown
            IN  /\ SendAndNotify("SET_VFO", VfoData(msg, freq, vfo), ERMAK_NOTIFY_TYPE_WEB_ALL)
                /\ Reports(q, RIG_OK)

cbRigCTLSetVFO(q) ==
    /\ q.cmd = "set_vfo"
    /\ IF q.parm = <<>> THEN Rejects(q, msg)
       ELSE IF Word(q, 1) = "?"
       THEN Answer(q, Notes, RIG_OK) /\ UNCHANGED <<radio, msg>>
       ELSE /\ SendAndNotify("SWITCH_VFO",
                   VfoOnly(msg, IF Word(q, 1) = "VFOB" THEN ERMAK_VFO_MODE_B ELSE ERMAK_VFO_MODE_A),
                   ERMAK_NOTIFY_TYPE_WEB_ALL)
            /\ Reports(q, RIG_OK)

(* With three parameters the first names a VFO, and is ignored. *)
cbRigCTLSetMode(q) ==
    /\ q.cmd = "set_mode"
    /\ LET mode == IF Has(q, 3) THEN rigctl_cvtStr2Mode(Word(q, 2))
                   ELSE IF Has(q, 1) THEN rigctl_cvtStr2Mode(Word(q, 1)) ELSE Unknown
       IN  IF mode = Unknown THEN Rejects(q, msg)
           ELSE /\ SendAndNotify("SET_MODE", ModeData(msg, mode), ERMAK_NOTIFY_TYPE_WEB_ALL)
                /\ Reports(q, RIG_OK)

cbRigCTLSetPTT(q) ==
    /\ q.cmd = "set_ptt"
    /\ IF q.parm = <<>> THEN Rejects(q, TransmittRx(msg, msg.w0))
       ELSE /\ SendAndNotify("SET_TRANSMITT_RX",
                   TransmittRx(msg, IF StartsWith1(q, 1) THEN ON ELSE OFF), ERMAK_NOTIFY_TYPE_WEB_RXTX)
            /\ Reports(q, RIG_OK)

cbRigCTLSetSplitVFO(q) ==
    /\ q.cmd = "set_split_vfo"
    /\ SendAndNotify("SET_SPLIT",
           KenwoodFT(msg, IF StartsWith1(q, 1) THEN ON ELSE OFF,
                     IF Has(q, 2) /\ Word(q, 2) = "VFOA" THEN ERMAK_VFO_MODE_A ELSE ERMAK_VFO_MODE_B),
           ERMAK_NOTIFY_TYPE_WEB_RXTX)
    /\ Reports(q, RIG_OK)

cbRigCTLSetSplitMode(q) ==
    /\ q.cmd = "set_split_mode"
    /\ Reports(q, RIG_OK) /\ UNCHANGED <<radio, msg>>

cbRigCTLSetSplitFreq(q) ==
    /\ q.cmd = "set_split_freq"
    /\ LET m == FullInfo(radio, msg)
       IN  IF q.parm = <<>> THEN Rejects(q, VfoData(m, m.w0, radio.vfoS))
           ELSE /\ SendAndNotify("SET_VFO", VfoData(m, ToFloat(Number(q, 1)), radio.vfoS),
                                 ERMAK_NOTIFY_TYPE_WEB_ALL)
                /\ Reports(q, RIG_OK)

cbRigCTLSetRit(q) ==
    /\ q.cmd = "set_rit"
    /\ IF q.parm = <<>> THEN Rejects(q, msg)
       ELSE Send("SET_RIT_FREQ", [msg EXCEPT !.w0 = Number(q, 1)]) /\ Reports(q, RIG_OK)

cbRigCTLSetXit(q) ==
    /\ q.cmd = "set_xit"
    /\ IF q.parm = <<>> THEN Rejects(q, msg)
       ELSE Send("SET_XIT_FREQ", [msg EXCEPT !.w2 = Number(q, 1)]) /\ Reports(q, RIG_OK)

----------------------------------------------------------------------------
(* Functions: RIT and XIT have callbacks, the other entries of             *)
(* _rigctlFunc[] do not.                                                   *)

CONSTANT IdleFunctions    \* functions of the table without callbacks

(* atoi() into a uint8_t. *)
Parm8(q) == IF Has(q, 2) THEN Number(q, 2) % 256 ELSE 0

cbRigFuncSetRit(m, parm) == [m EXCEPT !.w1 = IF parm = 1 THEN ON ELSE OFF]
cbRigFuncSetXit(m, parm) == [m EXCEPT !.w3 = IF parm = 1 THEN ON ELSE OFF]

(* Returning from the function that has no callback leaves no answer. *)
cbRigCTLSetFunc(q) ==
    /\ q.cmd = "set_func"
    /\ \/ q.parm = <<>> /\ Rejects(q, msg)
       \/ /\ Has(q, 1) /\ Word(q, 1) = "RIT"
          /\ Send("SET_RIT", cbRigFuncSetRit(msg, Parm8(q))) /\ Reports(q, RIG_OK)
       \/ /\ Has(q, 1) /\ Word(q, 1) = "XIT"
          /\ Send("SET_XIT", cbRigFuncSetXit(msg, Parm8(q))) /\ Reports(q, RIG_OK)
       \/ /\ Has(q, 1) /\ Word(q, 1) \notin {"RIT", "XIT"}
          /\ UNCHANGED <<radio, msg>>
          /\ Answer(q, IF Lead(q, 1) = "?" THEN Notes ELSE Nothing,
                    IF Lead(q, 1) = "?" \/ Word(q, 1) \in IdleFunctions THEN RIG_EEND
                    ELSE RIG_ENAVAIL)

cbRigCTLGetFunc(q) ==
    /\ q.cmd = "get_func"
    /\ \/ q.parm = <<>> /\ Rejects(q, msg)
       \/ Has(q, 1) /\ Word(q, 1) = "RIT" /\ Ask /\ Says(q, [status |-> radio.rit])
       \/ Has(q, 1) /\ Word(q, 1) = "XIT" /\ Ask /\ Says(q, [status |-> radio.xit])
       \/ /\ Has(q, 1) /\ Word(q, 1) \notin {"RIT", "XIT"}
          /\ UNCHANGED <<radio, msg>>
          /\ Answer(q, IF Lead(q, 1) = "?" THEN Notes ELSE Nothing,
                    IF Lead(q, 1) = "?" \/ Word(q, 1) \in IdleFunctions THEN RIG_EEND
                    ELSE RIG_ENAVAIL)

(* Mutant: an unknown command is logged and not reported. *)
NotFoundQuietly(q) ==
    /\ q.cmd = "other"
    /\ Answer(q, Nothing, RIG_EEND) /\ UNCHANGED <<radio, msg>>

(* rigctl_parse_in(): a command that is not in the table. *)
NotFound(q) ==
    /\ q.cmd = "other"
    /\ Reports(q, RIG_ENAVAIL) /\ UNCHANGED <<radio, msg>>

rigctl_req(q) ==
    \/ cbRigCTLChkVFO(q) \/ cbRigCTLDumpState(q) \/ cbRigCTLGetPowerState(q)
    \/ cbRigCTLGetVFOinfo(q) \/ cbRigCTLGetLockMode(q) \/ cbRigCTLGetFreq(q)
    \/ cbRigCTLGetVFO(q) \/ cbRigCTLGetMode(q) \/ cbRigCTLGetPTT(q)
    \/ cbRigCTLGetSplitVFO(q) \/ cbRigCTLGetSplitMode(q) \/ cbRigCTLGetSplitFreq(q)
    \/ cbRigCTLGetRit(q) \/ cbRigCTLGetXit(q) \/ cbRigCTLGetFullInfo(q)
    \/ cbRigCTLSetLockMode(q) \/ cbRigCTLSetFreq(q) \/ cbRigCTLSetVFO(q)
    \/ cbRigCTLSetMode(q) \/ cbRigCTLSetPTT(q) \/ cbRigCTLSetSplitVFO(q)
    \/ cbRigCTLSetSplitMode(q) \/ cbRigCTLSetSplitFreq(q) \/ cbRigCTLSetRit(q)
    \/ cbRigCTLSetXit(q) \/ cbRigCTLSetFunc(q) \/ cbRigCTLGetFunc(q) \/ NotFound(q)
=============================================================================
