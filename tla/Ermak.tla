------------------------------- MODULE Ermak -------------------------------
(***************************************************************************)
(* The transceiver of ermak.c: the settings it keeps, and what             *)
(* ermak_SendRequest() makes of a message.                                 *)
(*                                                                         *)
(* ERMAK_MSG_t is a union: the structures of its variants share storage.   *)
(* A message is modelled by the 32-bit words the variants overlap in,      *)
(*                                                                         *)
(*     word  fullInfo  vfoData  freqModeData  transmittRx  kenwoodFT  ritXit  *)
(*      w0   rx        freq     bw (low half) transmitt    split    ritFreq   *)
(*      w1   stackMem  rx       mode          rx           vfoRx    rit       *)
(*      w2   ptt       vfo                                          xitFreq   *)
(*      w3   band                                                   xit       *)
(*                                                                         *)
(* notifyType is w0 too.  The words of fullInfo behind w3 are written by   *)
(* GET_FULL_INFO only, and read only by the handler that has just sent it: *)
(* their readers read the radio.  The command is always set before a       *)
(* message is sent, so it is a parameter and not a part of the message.    *)
(***************************************************************************)
EXTENDS Integers

ERMAK_VFO_MODE_A == 0
ERMAK_VFO_MODE_B == 1
ERMAK_RX_MAIN    == 0
ERMAK_RX_SUB     == 1
OFF == 0    \* LOCK, TRANSMIT, SPLIT, RIT and XIT: _OFF
ON  == 1    \* LOCK, TRANSMIT, SPLIT, RIT and XIT: _ON

ERMAK_NOTIFY_TYPE_WEB_ALL  == 0
ERMAK_NOTIFY_TYPE_WEB_RXTX == 12

ERMAK_MODE_AM     == 48
ERMAK_MODE_USB    == 49
ERMAK_MODE_LSB    == 50
ERMAK_MODE_CWU    == 51
ERMAK_MODE_FM     == 52
ERMAK_MODE_CWL    == 53
ERMAK_MODE_FSK    == 54
ERMAK_MODE_PKTUSB == 57

ERMAK_MODE_t == (48..54) \cup {57}
ERMAK_VFO_MODE_t == {ERMAK_VFO_MODE_A, ERMAK_VFO_MODE_B}
ERMAK_STACK_MEM_t == 0..2
Switch == {OFF, ON}

(* What -1 becomes in an enumeration: not a member of it. *)
Unknown == -1

(* The settings.  A mode may be Unknown, an enumeration holds any int.     *)
Settings ==
    [lock : Switch, vfo : ERMAK_VFO_MODE_t, vfoS : ERMAK_VFO_MODE_t, ptt : Switch,
     split : Switch, mode : ERMAK_MODE_t \cup {Unknown}, freqA : Nat, freqB : Nat,
     ritFreq : Int, rit : Switch, xitFreq : Int, xit : Switch]

PowerOn ==
    [lock |-> OFF, vfo |-> ERMAK_VFO_MODE_A, vfoS |-> ERMAK_VFO_MODE_B, ptt |-> OFF,
     split |-> OFF, mode |-> ERMAK_MODE_PKTUSB, freqA |-> 14074000, freqB |-> 21074000,
     ritFreq |-> 0, rit |-> OFF, xitFreq |-> 0, xit |-> OFF]

(* Never written: the two edges of the receive filter. *)
ermak_cfg_bp_high == 2800
ermak_cfg_bp_low  == 100

Messages == [w0 : Int, w1 : Int, w2 : Int, w3 : Int, lockOn : BOOLEAN]

Zeroed == [w0 |-> 0, w1 |-> 0, w2 |-> 0, w3 |-> 0, lockOn |-> FALSE]

Low16(w) == w % 65536

(* ermak_chk_vfo() without its test (a mutant): -1 is taken for VFO A. *)
VfoAsSent(radio, m) == m.w2

(* ermak_chk_vfo(): the VFO a message means, the current one if it names none. *)
ermak_chk_vfo(radio, m) == IF m.w2 \in ERMAK_VFO_MODE_t THEN m.w2 ELSE radio.vfo

(* The frequency setting of a VFO, and its value. *)
FreqOf(vfo)      == IF vfo = ERMAK_VFO_MODE_B THEN "freqB" ELSE "freqA"
VfoFreq(r, vfo)  == r[FreqOf(vfo)]

(* SET_RIT_FREQ that stores all of ritXit (a mutant). *)
StoreRitXit(radio, m) == [radio EXCEPT !.ritFreq = m.w0, !.rit = m.w1, !.xitFreq = m.w2]

StoreRitFreq(radio, m) == [radio EXCEPT !.ritFreq = m.w0]

(* ermak_SendRequest(): the settings after a message. *)
Perform(radio, command, m) ==
    CASE command = "SET_LOCK"          -> [radio EXCEPT !.lock = IF m.lockOn THEN ON ELSE OFF]
      [] command = "SWITCH_VFO"        -> [radio EXCEPT !.vfo = m.w2]
      [] command = "SET_VFO"           -> [radio EXCEPT ![FreqOf(ermak_chk_vfo(radio, m))] = m.w0]
      [] command = "SET_MODE"          -> [radio EXCEPT !.mode = m.w1]
      [] command = "SET_TRANSMITT_RX"  -> [radio EXCEPT !.ptt = m.w0]
      [] command = "SET_SPLIT"         -> [radio EXCEPT !.split = m.w0, !.vfoS = m.w1]
      [] command = "SET_RIT"           -> [radio EXCEPT !.rit = m.w1]
      [] command = "SET_RIT_FREQ"      -> StoreRitFreq(radio, m)
      [] command = "SET_XIT"           -> [radio EXCEPT !.xit = m.w3]
      [] command = "SET_XIT_FREQ"      -> [radio EXCEPT !.xitFreq = m.w2]
      [] OTHER                         -> radio    \* GET_FULL_INFO, NOTIFY_WEB_REMOTE

(* ermak_SendRequest(): the message after it.  GET_FULL_INFO leaves rx,    *)
(* stackMem and band as they were.                                         *)
Returned(radio, command, m) ==
    CASE command = "GET_FULL_INFO" -> [m EXCEPT !.w2 = radio.ptt]
      [] command = "SET_VFO"       -> [m EXCEPT !.w2 = ermak_chk_vfo(radio, m)]
      [] OTHER                     -> m

(* The variants of the union, as what filling them in does to the words. *)
VfoData(m, freq, vfo)     == [m EXCEPT !.w0 = freq, !.w1 = ERMAK_RX_MAIN, !.w2 = vfo]
VfoOnly(m, vfo)           == [m EXCEPT !.w2 = vfo]
ModeData(m, mode)         == [m EXCEPT !.w1 = mode]
TransmittRx(m, transmitt) == [m EXCEPT !.w0 = transmitt, !.w1 = ERMAK_RX_MAIN]
KenwoodFT(m, split, vfo)  == [m EXCEPT !.w0 = split, !.w1 = vfo]

(* requestFullInfo(), the same in both protocols: m_rxActive is RX_MAIN. *)
FullInfo(radio, m) == Returned(radio, "GET_FULL_INFO", [m EXCEPT !.w0 = ERMAK_RX_MAIN])
=============================================================================
