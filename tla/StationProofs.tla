---------------------------- MODULE StationProofs ----------------------------
(***************************************************************************)
(* The handlers of both protocols, for every request they may be handed:   *)
(* what each leaves in the settings and in the messages, what it tells its *)
(* client, and that all of them together are the transceiver that keeps no *)
(* messages.                                                               *)
(***************************************************************************)
EXTENDS Station, TLAPS

(* The radio of the two protocols, and that of Transceiver, is one.        *)
LEMMA RigErmak ==
    ASSUME NEW r, NEW c, NEW m
    PROVE  /\ Rig!Perform(r, c, m) = Perform(r, c, m)
           /\ Rig!Returned(r, c, m) = Returned(r, c, m)
           /\ Rig!FullInfo(r, m) = FullInfo(r, m)
           /\ Rig!VfoFreq(r, c) = VfoFreq(r, c)
BY DEF Rig!Perform, Perform, Rig!ON, ON, Rig!OFF, OFF, Rig!FreqOf, FreqOf, Rig!ermak_chk_vfo, ermak_chk_vfo,
       Rig!ERMAK_VFO_MODE_t, ERMAK_VFO_MODE_t, Rig!ERMAK_VFO_MODE_A, ERMAK_VFO_MODE_A,
       Rig!ERMAK_VFO_MODE_B, ERMAK_VFO_MODE_B, Rig!StoreRitFreq, StoreRitFreq, Rig!Returned, Returned,
       Rig!FullInfo, FullInfo, Rig!ERMAK_RX_MAIN, ERMAK_RX_MAIN, Rig!VfoFreq, VfoFreq

LEMMA CatErmak ==
    ASSUME NEW r, NEW c, NEW m
    PROVE  /\ Cat!Perform(r, c, m) = Perform(r, c, m)
           /\ Cat!Returned(r, c, m) = Returned(r, c, m)
           /\ Cat!FullInfo(r, m) = FullInfo(r, m)
           /\ Cat!VfoFreq(r, c) = VfoFreq(r, c)
BY DEF Cat!Perform, Perform, Cat!ON, ON, Cat!OFF, OFF, Cat!FreqOf, FreqOf, Cat!ermak_chk_vfo, ermak_chk_vfo,
       Cat!ERMAK_VFO_MODE_t, ERMAK_VFO_MODE_t, Cat!ERMAK_VFO_MODE_A, ERMAK_VFO_MODE_A,
       Cat!ERMAK_VFO_MODE_B, ERMAK_VFO_MODE_B, Cat!StoreRitFreq, StoreRitFreq, Cat!Returned, Returned,
       Cat!FullInfo, FullInfo, Cat!ERMAK_RX_MAIN, ERMAK_RX_MAIN, Cat!VfoFreq, VfoFreq

LEMMA RadioErmak ==
    /\ \A v : Radio!FreqOf(v) = FreqOf(v)
    /\ Radio!ON = ON /\ Radio!OFF = OFF
    /\ Radio!ERMAK_VFO_MODE_t = ERMAK_VFO_MODE_t
    /\ Radio!ERMAK_VFO_MODE_A = ERMAK_VFO_MODE_A /\ Radio!ERMAK_VFO_MODE_B = ERMAK_VFO_MODE_B
    /\ Radio!PowerOn = PowerOn
BY DEF Radio!FreqOf, FreqOf, Radio!ON, ON, Radio!OFF, OFF, Radio!ERMAK_VFO_MODE_t, ERMAK_VFO_MODE_t,
       Radio!ERMAK_VFO_MODE_A, ERMAK_VFO_MODE_A, Radio!ERMAK_VFO_MODE_B, ERMAK_VFO_MODE_B,
       Radio!PowerOn, PowerOn, Radio!ERMAK_MODE_PKTUSB, ERMAK_MODE_PKTUSB

LEMMA Numbers ==
    /\ ON = 1 /\ OFF = 0 /\ Switch = {0, 1} /\ Unknown = -1 /\ Rig!Unknown = -1 /\ Cat!Unknown = -1
    /\ Radio!Unknown = -1
    /\ ERMAK_VFO_MODE_t = {0, 1} /\ ERMAK_VFO_MODE_A = 0 /\ ERMAK_VFO_MODE_B = 1
    /\ Rig!ON = 1 /\ Rig!OFF = 0 /\ Rig!ERMAK_VFO_MODE_A = 0 /\ Rig!ERMAK_VFO_MODE_B = 1
    /\ Cat!ON = 1 /\ Cat!OFF = 0 /\ Cat!ERMAK_VFO_MODE_A = 0 /\ Cat!ERMAK_VFO_MODE_B = 1
    /\ Cat!ERMAK_VFO_MODE_t = {0, 1}
    /\ Rig!ERMAK_NOTIFY_TYPE_WEB_ALL \in Int /\ Rig!ERMAK_NOTIFY_TYPE_WEB_RXTX \in Int
    /\ Rig!RIG_OK = 0 /\ Rig!RIG_EINVAL = 1 /\ Rig!RIG_ENAVAIL = 11 /\ Rig!RIG_EEND = 21
BY DEF ON, OFF, Switch, Unknown, Rig!Unknown, Cat!Unknown, Radio!Unknown, ERMAK_VFO_MODE_t, ERMAK_VFO_MODE_A, ERMAK_VFO_MODE_B,
       Rig!ON, Rig!OFF, Rig!ERMAK_VFO_MODE_A, Rig!ERMAK_VFO_MODE_B,
       Cat!ON, Cat!OFF, Cat!ERMAK_VFO_MODE_A, Cat!ERMAK_VFO_MODE_B, Cat!ERMAK_VFO_MODE_t,
       Rig!ERMAK_NOTIFY_TYPE_WEB_ALL, Rig!ERMAK_NOTIFY_TYPE_WEB_RXTX,
       Rig!RIG_OK, Rig!RIG_EINVAL, Rig!RIG_ENAVAIL, Rig!RIG_EEND

----------------------------------------------------------------------------
(* What a message does: each command turns one knob, SET_SPLIT two, and it *)
(* reads no more of the message than it was meant to.                      *)
LEMMA Performs ==
    ASSUME NEW r, NEW m
    PROVE  /\ Perform(r, "SET_LOCK", m) = [r EXCEPT !.lock = IF m.lockOn THEN ON ELSE OFF]
           /\ Perform(r, "SWITCH_VFO", m) = [r EXCEPT !.vfo = m.w2]
           /\ Perform(r, "SET_VFO", m) = [r EXCEPT ![FreqOf(ermak_chk_vfo(r, m))] = m.w0]
           /\ Perform(r, "SET_MODE", m) = [r EXCEPT !.mode = m.w1]
           /\ Perform(r, "SET_TRANSMITT_RX", m) = [r EXCEPT !.ptt = m.w0]
           /\ Perform(r, "SET_SPLIT", m) = [r EXCEPT !.split = m.w0, !.vfoS = m.w1]
           /\ Perform(r, "SET_RIT", m) = [r EXCEPT !.rit = m.w1]
           /\ Perform(r, "SET_RIT_FREQ", m) = [r EXCEPT !.ritFreq = m.w0]
           /\ Perform(r, "SET_XIT", m) = [r EXCEPT !.xit = m.w3]
           /\ Perform(r, "SET_XIT_FREQ", m) = [r EXCEPT !.xitFreq = m.w2]
BY DEF Perform, StoreRitFreq

(* What it makes of the message itself: only the ones with a VFO and       *)
(* GET_FULL_INFO write to it.                                              *)
LEMMA Returns ==
    ASSUME NEW r \in Settings, NEW m \in Messages, NEW c
    PROVE  /\ Returned(r, c, m) \in Messages
           /\ [Returned(r, c, m) EXCEPT !.w0 = Rig!ERMAK_NOTIFY_TYPE_WEB_ALL] \in Messages
           /\ [Returned(r, c, m) EXCEPT !.w0 = Rig!ERMAK_NOTIFY_TYPE_WEB_RXTX] \in Messages
           /\ FullInfo(r, m) \in Messages /\ FullInfo(r, m).w2 = r.ptt
<1>1. r.ptt \in Int /\ r.vfo \in Int /\ ermak_chk_vfo(r, m) \in Int
  BY Numbers DEF Settings, Messages, ermak_chk_vfo
<1>2. \A n \in Messages : \A v \in Int : [n EXCEPT !.w0 = v] \in Messages /\ [n EXCEPT !.w2 = v] \in Messages
                                         /\ [n EXCEPT !.w2 = v].w2 = v
  BY DEF Messages
<1>3. ERMAK_RX_MAIN \in Int
  BY DEF ERMAK_RX_MAIN
<1>4. Returned(r, c, m) \in Messages
  BY <1>1, <1>2 DEF Returned
<1>5. FullInfo(r, m) \in Messages /\ FullInfo(r, m).w2 = r.ptt
  BY <1>1, <1>2, <1>3 DEF FullInfo, Returned
<1> QED BY <1>2, <1>4, <1>5, Numbers

(* The variants of the union, as the words they are read by.               *)
LEMMA LockVariant ==
    ASSUME NEW m \in Messages, NEW b \in BOOLEAN
    PROVE  [m EXCEPT !.lockOn = b] \in Messages /\ [m EXCEPT !.lockOn = b].lockOn = b
BY DEF Messages

LEMMA Variants ==
    ASSUME NEW m \in Messages, NEW v \in Int, NEW w \in Int
    PROVE  /\ Rig!VfoData(m, v, w) \in Messages /\ Rig!VfoData(m, v, w).w0 = v /\ Rig!VfoData(m, v, w).w2 = w
           /\ Cat!VfoData(m, v, w) = Rig!VfoData(m, v, w)
           /\ Rig!VfoOnly(m, v) \in Messages /\ Rig!VfoOnly(m, v).w2 = v /\ Cat!VfoOnly(m, v) = Rig!VfoOnly(m, v)
           /\ Rig!ModeData(m, v) \in Messages /\ Rig!ModeData(m, v).w1 = v /\ Cat!ModeData(m, v) = Rig!ModeData(m, v)
           /\ Rig!TransmittRx(m, v) \in Messages /\ Rig!TransmittRx(m, v).w0 = v
           /\ Cat!TransmittRx(m, v) = Rig!TransmittRx(m, v)
           /\ Rig!KenwoodFT(m, v, w) \in Messages /\ Rig!KenwoodFT(m, v, w).w0 = v /\ Rig!KenwoodFT(m, v, w).w1 = w
           /\ Cat!KenwoodFT(m, v, w) = Rig!KenwoodFT(m, v, w)
           /\ [m EXCEPT !.w0 = v] \in Messages /\ [m EXCEPT !.w0 = v].w0 = v
           /\ [m EXCEPT !.w1 = v] \in Messages /\ [m EXCEPT !.w1 = v].w1 = v
           /\ [m EXCEPT !.w2 = v] \in Messages /\ [m EXCEPT !.w2 = v].w2 = v
           /\ [m EXCEPT !.w3 = v] \in Messages /\ [m EXCEPT !.w3 = v].w3 = v
           /\ m.w0 \in Int
<1>1. /\ [m EXCEPT !.w0 = v] \in Messages /\ [m EXCEPT !.w0 = v].w0 = v
      /\ [m EXCEPT !.w1 = v] \in Messages /\ [m EXCEPT !.w1 = v].w1 = v
      /\ [m EXCEPT !.w2 = v] \in Messages /\ [m EXCEPT !.w2 = v].w2 = v
      /\ [m EXCEPT !.w3 = v] \in Messages /\ [m EXCEPT !.w3 = v].w3 = v
      /\ m.w0 \in Int
  BY DEF Messages
<1>0. Rig!ERMAK_RX_MAIN \in Int
  BY DEF Rig!ERMAK_RX_MAIN
<1>2. Rig!VfoData(m, v, w) \in Messages /\ Rig!VfoData(m, v, w).w0 = v /\ Rig!VfoData(m, v, w).w2 = w
  BY <1>0 DEF Messages, Rig!VfoData
<1>3. Cat!VfoData(m, v, w) = Rig!VfoData(m, v, w) /\ Cat!TransmittRx(m, v) = Rig!TransmittRx(m, v)
  BY DEF Rig!VfoData, Rig!ERMAK_RX_MAIN, Cat!VfoData, Cat!ERMAK_RX_MAIN, Rig!TransmittRx, Cat!TransmittRx
<1>4. /\ Rig!VfoOnly(m, v) \in Messages /\ Rig!VfoOnly(m, v).w2 = v /\ Cat!VfoOnly(m, v) = Rig!VfoOnly(m, v)
      /\ Rig!ModeData(m, v) \in Messages /\ Rig!ModeData(m, v).w1 = v /\ Cat!ModeData(m, v) = Rig!ModeData(m, v)
  BY <1>1 DEF Rig!VfoOnly, Cat!VfoOnly, Rig!ModeData, Cat!ModeData
<1>5. Rig!TransmittRx(m, v) \in Messages /\ Rig!TransmittRx(m, v).w0 = v
  BY <1>0 DEF Messages, Rig!TransmittRx
<1>6. /\ Rig!KenwoodFT(m, v, w) \in Messages /\ Rig!KenwoodFT(m, v, w).w0 = v /\ Rig!KenwoodFT(m, v, w).w1 = w
      /\ Cat!KenwoodFT(m, v, w) = Rig!KenwoodFT(m, v, w)
  BY DEF Messages, Rig!KenwoodFT, Cat!KenwoodFT
<1> QED BY <1>1, <1>2, <1>3, <1>4, <1>5, <1>6

LEMMA VfoDataIs ==
    \A m \in Messages : \A v \in Int : \A w \in Int :
        Rig!VfoData(m, v, w) \in Messages /\ Rig!VfoData(m, v, w).w0 = v /\ Rig!VfoData(m, v, w).w2 = w
<1> TAKE m \in Messages
<1> TAKE v \in Int
<1> TAKE w \in Int
<1>1. Rig!ERMAK_RX_MAIN \in Int
  BY DEF Rig!ERMAK_RX_MAIN
<1> QED BY <1>1 DEF Messages, Rig!VfoData

(* Turning a knob to one of its positions leaves settings.                 *)
LEMMA SettingsTurned ==
    ASSUME NEW r \in Settings
    PROVE  /\ \A v \in Switch : /\ [r EXCEPT !.lock = v] \in Settings /\ [r EXCEPT !.ptt = v] \in Settings
                                /\ [r EXCEPT !.rit = v] \in Settings /\ [r EXCEPT !.xit = v] \in Settings
           /\ \A v \in ERMAK_VFO_MODE_t : [r EXCEPT !.vfo = v] \in Settings
           /\ \A v \in ERMAK_VFO_MODE_t : \A b \in Switch : [r EXCEPT !.split = b, !.vfoS = v] \in Settings
           /\ \A v \in ERMAK_MODE_t \cup {Unknown} : [r EXCEPT !.mode = v] \in Settings
           /\ \A v \in Int : [r EXCEPT !.ritFreq = v] \in Settings /\ [r EXCEPT !.xitFreq = v] \in Settings
           /\ \A v \in Nat : \A o : [r EXCEPT ![FreqOf(o)] = v] \in Settings
           /\ r.vfo \in ERMAK_VFO_MODE_t /\ r.vfoS \in ERMAK_VFO_MODE_t
<1>1. \A v \in Switch : /\ [r EXCEPT !.lock = v] \in Settings /\ [r EXCEPT !.ptt = v] \in Settings
                        /\ [r EXCEPT !.rit = v] \in Settings /\ [r EXCEPT !.xit = v] \in Settings
  BY DEF Settings
<1>2. \A v \in ERMAK_VFO_MODE_t : [r EXCEPT !.vfo = v] \in Settings
  BY DEF Settings
<1>3. \A v \in ERMAK_VFO_MODE_t : \A b \in Switch : [r EXCEPT !.split = b, !.vfoS = v] \in Settings
  BY DEF Settings
<1>4. \A v \in ERMAK_MODE_t \cup {Unknown} : [r EXCEPT !.mode = v] \in Settings
  BY DEF Settings
<1>5. \A v \in Int : [r EXCEPT !.ritFreq = v] \in Settings /\ [r EXCEPT !.xitFreq = v] \in Settings
  BY DEF Settings
<1>6. \A v \in Nat : [r EXCEPT !["freqA"] = v] \in Settings /\ [r EXCEPT !["freqB"] = v] \in Settings
  BY DEF Settings
<1>7. \A o : FreqOf(o) = "freqA" \/ FreqOf(o) = "freqB"
  BY DEF FreqOf
<1>8. \A v \in Nat : \A o : [r EXCEPT ![FreqOf(o)] = v] \in Settings
  BY <1>6, <1>7
<1>9. r.vfo \in ERMAK_VFO_MODE_t /\ r.vfoS \in ERMAK_VFO_MODE_t
  BY DEF Settings
<1> QED BY <1>1, <1>2, <1>3, <1>4, <1>5, <1>8, <1>9

(* Turning the knob one is told, and no knob when told of none.            *)
Knobs == {"lock", "vfo", "vfoS", "ptt", "split", "mode", "freqA", "freqB", "ritFreq", "rit", "xitFreq", "xit"}

LEMMA SettingsKnobs == ASSUME NEW r \in Settings PROVE DOMAIN r = Knobs
BY DEF Settings, Knobs

LEMMA ObeyedOne ==
    ASSUME NEW r \in Settings, NEW k, NEW v, NEW vs, v \in vs
    PROVE  Radio!Obeyed(Radio!Turns(k, vs), r, [r EXCEPT ![k] = v])
BY DEF Radio!Obeyed, Radio!Turns

LEMMA ObeyedNone ==
    ASSUME NEW r
    PROVE  Radio!Obeyed(Radio!Nothing, r, r)
BY DEF Radio!Obeyed, Radio!Nothing

LEMMA ObeyedSplit ==
    ASSUME NEW r \in Settings, NEW b, NEW v, NEW bs, NEW vs, b \in bs, v \in vs
    PROVE  Radio!Obeyed([split |-> bs, vfoS |-> vs], r, [r EXCEPT !.split = b, !.vfoS = v])
<1>1. DOMAIN [split |-> bs, vfoS |-> vs] = {"split", "vfoS"}
  OBVIOUS
<1> DEFINE new == [r EXCEPT !.split = b, !.vfoS = v]
<1>2. /\ new.split = b /\ new.vfoS = v /\ DOMAIN new = DOMAIN r
      /\ \A k \in DOMAIN r : k \notin {"split", "vfoS"} => new[k] = r[k]
  BY DEF Settings
<1> HIDE DEF new
<1>3. Radio!Obeyed([split |-> bs, vfoS |-> vs], r, new)
  BY <1>1, <1>2 DEF Radio!Obeyed
<1> QED BY <1>3 DEF new

(* A command belongs to one protocol.                                      *)
Query == {"chk_vfo", "dump_state", "get_powerstat", "get_vfo_info", "get_lock_mode", "get_freq", "get_vfo",
          "get_mode", "get_ptt", "get_split_vfo", "get_split_mode", "get_split_freq", "get_rit", "get_xit",
          "full_info", "get_func", "other", "set_split_mode"}
Setting == {"set_lock_mode", "set_freq", "set_vfo", "set_mode", "set_ptt", "set_split_vfo", "set_split_freq",
            "set_rit", "set_xit", "set_func"}
CatCommand == {"FA", "ZZFA", "FB", "ZZFB", "FR", "FT", "IF", "MD", "RD", "RU", "RT", "XT", "RX", "TX",
               "AG0", "AG", "ZZAG", "AI", "PC", "ID", "SM", "KS", "NB"}

(* A command has one handler, and belongs to one protocol.                 *)
LEMMA RigCommands ==
    ASSUME NEW q, Rig!rigctl_req(q)
    PROVE  /\ q.cmd \in Query \cup Setting
           /\ q.cmd = "set_mode" => Rig!cbRigCTLSetMode(q)
           /\ q.cmd = "set_split_freq" => Rig!cbRigCTLSetSplitFreq(q)
           /\ q.cmd = "set_func" => Rig!cbRigCTLSetFunc(q)
           /\ q.cmd = "get_func" => Rig!cbRigCTLGetFunc(q)
BY DEF Query, Setting, Rig!rigctl_req, Rig!cbRigCTLChkVFO, Rig!cbRigCTLDumpState, Rig!cbRigCTLGetPowerState,
       Rig!cbRigCTLGetVFOinfo, Rig!cbRigCTLGetLockMode, Rig!cbRigCTLGetFreq, Rig!cbRigCTLGetVFO,
       Rig!cbRigCTLGetMode, Rig!cbRigCTLGetPTT, Rig!cbRigCTLGetSplitVFO, Rig!cbRigCTLGetSplitMode,
       Rig!cbRigCTLGetSplitFreq, Rig!cbRigCTLGetRit, Rig!cbRigCTLGetXit, Rig!cbRigCTLGetFullInfo,
       Rig!cbRigCTLSetSplitMode, Rig!cbRigCTLGetFunc, Rig!NotFound, Rig!cbRigCTLSetLockMode, Rig!cbRigCTLSetFreq,
       Rig!cbRigCTLSetVFO, Rig!cbRigCTLSetMode, Rig!cbRigCTLSetPTT, Rig!cbRigCTLSetSplitVFO,
       Rig!cbRigCTLSetSplitFreq, Rig!cbRigCTLSetRit, Rig!cbRigCTLSetXit, Rig!cbRigCTLSetFunc

LEMMA CatCommands ==
    ASSUME NEW q, Cat!commcat_req(q)
    PROVE  /\ q.cmd \in CatCommand \cup {"other"}
           /\ q.cmd \notin Setting
           /\ q.cmd = "MD" => Cat!cbReqMD(q)
BY DEF CatCommand, Setting, Cat!commcat_req, Cat!cbReqFA, Cat!cbReqFB, Cat!cbReqFR, Cat!cbReqFT, Cat!cbReqIF,
       Cat!cbReqMD, Cat!cbReqRD, Cat!cbReqRU, Cat!cbReqRT, Cat!cbReqXT, Cat!cbReqRX, Cat!cbReqTX, Cat!cbReqAG0,
       Cat!cbReqAI, Cat!cbReqPC, Cat!cbReqIDorSM, Cat!cbReqKSorNB, Cat!NotFound

LEMMA ToldOf ==
    ASSUME NEW a, NEW r
    PROVE  /\ a.cmd \in Query \cup Setting => Radio!ToldByCat(a, r) = Radio!Nothing
           /\ a.cmd \in Query \cup CatCommand => Radio!ToldByRig(a, r) = Radio!Nothing
           /\ a.cmd \in Query \cup Setting => Radio!ToldGains(a) = Radio!Nothing
<1>1. a.cmd \in Query \cup Setting => Radio!ToldByCat(a, r) = Radio!Nothing
  BY DEF Radio!ToldByCat, Query, Setting
<1>2. a.cmd \in Query \cup CatCommand => Radio!ToldByRig(a, r) = Radio!Nothing
  BY DEF Radio!ToldByRig, Query, CatCommand
<1>3. a.cmd \in Query \cup Setting => Radio!ToldGains(a) = Radio!Nothing
  BY DEF Radio!ToldGains, Query, Setting
<1> QED BY <1>1, <1>2, <1>3

(* What is told by one protocol is all that is told.                       *)
LEMMA ObeyedRig ==
    ASSUME NEW a, NEW r, NEW new, Radio!ToldByCat(a, r) = Radio!Nothing,
           Radio!Obeyed(Radio!ToldByRig(a, r), r, new)
    PROVE  Radio!Obeyed(Radio!Told(a, r), r, new)
<1> DEFINE t == Radio!ToldByRig(a, r)
<1>1. DOMAIN Radio!Nothing = {}
  BY DEF Radio!Nothing
<1>2. /\ DOMAIN Radio!Told(a, r) = DOMAIN t
      /\ \A k \in DOMAIN t : Radio!Told(a, r)[k] = t[k]
  BY <1>1 DEF Radio!Told
<1> QED BY <1>2 DEF Radio!Obeyed

LEMMA ObeyedCat ==
    ASSUME NEW a, NEW r, NEW new, Radio!ToldByRig(a, r) = Radio!Nothing,
           Radio!Obeyed(Radio!ToldByCat(a, r), r, new)
    PROVE  Radio!Obeyed(Radio!Told(a, r), r, new)
<1> DEFINE t == Radio!ToldByCat(a, r)
<1>1. DOMAIN Radio!Nothing = {}
  BY DEF Radio!Nothing
<1>2. /\ DOMAIN Radio!Told(a, r) = DOMAIN t
      /\ \A k \in DOMAIN t : Radio!Told(a, r)[k] = t[k]
  BY <1>1 DEF Radio!Told
<1> QED BY <1>2 DEF Radio!Obeyed

----------------------------------------------------------------------------
(* The float that holds a frequency is as near to it as 24 bits allow.     *)
LEMMA FloatIsNear ==
    ASSUME NEW n \in Nat, n < 1073741824
    PROVE  Rig!ToFloat(n) \in Nat /\ Rig!ToFloat(n) \in Radio!Near(n)
<1> DEFINE U == {1, 2, 4, 8, 16, 32, 64}
           P(u) == n < 16777216 * u /\ (u = 1 \/ n >= 8388608 * u)
           ulp == CHOOSE u \in U : P(u)
<1>1. \E u \in U : P(u)
  BY SMT
<1>2. ulp \in U /\ P(ulp)
  <2> HIDE DEF U, P
  <2> QED BY <1>1, SMT
<1> DEFINE q == n \div ulp
           d == n % ulp
<1>3. Rig!ToFloat(n) = IF 2*d < ulp \/ (2*d = ulp /\ q % 2 = 0) THEN q * ulp ELSE (q+1) * ulp
  BY SMT DEF Rig!ToFloat
<1> HIDE DEF ulp
<1>4. ASSUME NEW u \in U, ulp = u, u = 1 PROVE Rig!ToFloat(n) = n
  <2>1. q = n /\ d = 0
    BY <1>4, SMT
  <2> QED BY <1>3, <1>4, <2>1, SMT
<1>5. ASSUME NEW u \in U, ulp = u, u # 1
      PROVE Rig!ToFloat(n) \in (n - n \div 16777216)..(n + n \div 16777216) /\ Rig!ToFloat(n) \in Nat
  <2>1. CASE u = 2
    BY <1>2, <1>3, <1>5, <2>1, SMT
  <2>2. CASE u = 4
    BY <1>2, <1>3, <1>5, <2>2, SMT
  <2>3. CASE u = 8
    BY <1>2, <1>3, <1>5, <2>3, SMT
  <2>4. CASE u = 16
    BY <1>2, <1>3, <1>5, <2>4, SMT
  <2>5. CASE u = 32
    BY <1>2, <1>3, <1>5, <2>5, SMT
  <2>6. CASE u = 64
    BY <1>2, <1>3, <1>5, <2>6, SMT
  <2> QED BY <1>5, <2>1, <2>2, <2>3, <2>4, <2>5, <2>6, SMT
<1>6. n \in Nat /\ n \div 16777216 \in Nat
  BY SMT
<1> QED BY <1>2, <1>4, <1>5, <1>6, SMT DEF Radio!Near

----------------------------------------------------------------------------
(***************************************************************************)
(* The hamlib handlers.                                                    *)
(***************************************************************************)

(* All that a request leaves behind is as it should be.                    *)
RigHandled(q) ==
    /\ radio' \in Settings /\ rigMsg' \in Messages
    /\ answer'.cmd = q.cmd /\ answer'.parm = q.parm
    /\ Radio!Obeyed(Radio!Told(answer', radio), radio, radio')
    /\ Radio!Shows(answer'.says, Radio!Shown(answer', radio'))
    /\ answer'.rprt = Rig!RIG_EEND /\ answer'.says = Rig!Nothing
         => q.cmd \in {"set_func", "get_func"} /\ q.parm[1].text \in IdleFunctions

LEMMA AnswerIs ==
    ASSUME NEW q, NEW says, NEW rprt, Rig!Answer(q, says, rprt)
    PROVE  /\ answer'.cmd = q.cmd /\ answer'.parm = q.parm /\ answer'.says = says
           /\ answer'.rprt = IF q.long /\ says # Rig!Nothing /\ rprt = Rig!RIG_EEND THEN Rig!RIG_OK ELSE rprt
BY DEF Rig!Answer

(* A query changes no setting and has something to say.                    *)
LEMMA QueryHandled ==
    ASSUME radio \in Settings, NEW q, q.cmd \in Query, radio' = radio, rigMsg' \in Messages,
           NEW says, Rig!Says(q, says), "nothing" \notin DOMAIN says,
           Radio!Shows(says, Radio!Shown(answer', radio'))
    PROVE  RigHandled(q)
<1>1. says # Rig!Nothing
  <2>1. "nothing" \in DOMAIN Rig!Nothing
    BY DEF Rig!Nothing
  <2> QED BY <2>1
<1>2. /\ answer'.cmd = q.cmd /\ answer'.parm = q.parm /\ answer'.says = says
  BY <1>1, AnswerIs DEF Rig!Says
<1>3. Radio!Obeyed(Radio!Told(answer', radio), radio, radio')
  BY <1>2, ToldOf, ObeyedNone, ObeyedRig
<1> QED BY <1>1, <1>2, <1>3 DEF RigHandled

(* One that fails, or does nothing, says so.                               *)
LEMMA ReportHandled ==
    ASSUME radio \in Settings, NEW q, q.cmd \in Query, radio' = radio, rigMsg' \in Messages,
           NEW rprt \in {Rig!RIG_OK, Rig!RIG_EINVAL, Rig!RIG_ENAVAIL}, Rig!Reports(q, rprt),
           Radio!Shown(answer', radio) = Radio!Nothing
    PROVE  RigHandled(q)
<1>1. /\ answer'.cmd = q.cmd /\ answer'.parm = q.parm /\ answer'.says = Rig!Nothing
      /\ answer'.rprt = rprt
  BY AnswerIs DEF Rig!Reports
<1>2. Radio!Obeyed(Radio!Told(answer', radio), radio, radio')
  BY <1>1, ToldOf, ObeyedNone, ObeyedRig
<1>3. Radio!Shows(answer'.says, Radio!Shown(answer', radio'))
  BY DEF Radio!Shows, Radio!Nothing
<1>4. rprt # Rig!RIG_EEND
  BY Numbers
<1> QED BY <1>1, <1>2, <1>3, <1>4 DEF RigHandled

(* A setting reports and says nothing.                                     *)
LEMMA SettingHandled ==
    ASSUME radio \in Settings, NEW q, q.cmd \in Setting, radio' \in Settings, rigMsg' \in Messages,
           NEW rprt \in {Rig!RIG_OK, Rig!RIG_EINVAL, Rig!RIG_ENAVAIL}, Rig!Reports(q, rprt),
           Radio!Obeyed(Radio!ToldByRig(answer', radio), radio, radio')
    PROVE  RigHandled(q)
<1>1. /\ answer'.cmd = q.cmd /\ answer'.parm = q.parm /\ answer'.says = Rig!Nothing
      /\ answer'.rprt = rprt
  BY AnswerIs DEF Rig!Reports
<1>2. Radio!Obeyed(Radio!Told(answer', radio), radio, radio')
  BY <1>1, ToldOf, ObeyedRig
<1>3. Radio!Shown(answer', radio') = Radio!Nothing
  BY <1>1 DEF Setting, Radio!Shown
<1>4. Radio!Shows(answer'.says, Radio!Shown(answer', radio'))
  BY <1>3 DEF Radio!Shows, Radio!Nothing
<1>5. rprt # Rig!RIG_EEND
  BY Numbers
<1> QED BY <1>1, <1>2, <1>4, <1>5, Numbers DEF RigHandled

(* The words of the modes are those of the tables of both protocols.       *)
ModeConstants ==
    /\ Rig!ERMAK_MODE_AM = 48 /\ Rig!ERMAK_MODE_USB = 49 /\ Rig!ERMAK_MODE_LSB = 50 /\ Rig!ERMAK_MODE_CWU = 51
    /\ Rig!ERMAK_MODE_FM = 52 /\ Rig!ERMAK_MODE_CWL = 53 /\ Rig!ERMAK_MODE_FSK = 54 /\ Rig!ERMAK_MODE_PKTUSB = 57
    /\ Cat!ERMAK_MODE_AM = 48 /\ Cat!ERMAK_MODE_USB = 49 /\ Cat!ERMAK_MODE_LSB = 50 /\ Cat!ERMAK_MODE_CWU = 51
    /\ Cat!ERMAK_MODE_FM = 52 /\ Cat!ERMAK_MODE_CWL = 53 /\ Cat!ERMAK_MODE_FSK = 54 /\ Cat!ERMAK_MODE_PKTUSB = 57

LEMMA ModeNumbers == ModeConstants
BY DEF ModeConstants, Rig!ERMAK_MODE_AM, Rig!ERMAK_MODE_USB, Rig!ERMAK_MODE_LSB, Rig!ERMAK_MODE_CWU,
       Rig!ERMAK_MODE_FM, Rig!ERMAK_MODE_CWL, Rig!ERMAK_MODE_FSK, Rig!ERMAK_MODE_PKTUSB,
       Cat!ERMAK_MODE_AM, Cat!ERMAK_MODE_USB, Cat!ERMAK_MODE_LSB, Cat!ERMAK_MODE_CWU,
       Cat!ERMAK_MODE_FM, Cat!ERMAK_MODE_CWL, Cat!ERMAK_MODE_FSK, Cat!ERMAK_MODE_PKTUSB

Words == {"LSB", "USB", "CW", "FM", "AM", "PKTLSB", "CWR", "PKTUSB"}

LEMMA ErmakModes ==
    /\ DOMAIN Radio!ErmakMode = Words /\ DOMAIN Radio!Digit = Words
    /\ Radio!ErmakMode["LSB"] = 50 /\ Radio!ErmakMode["USB"] = 49 /\ Radio!ErmakMode["CW"] = 51
    /\ Radio!ErmakMode["FM"] = 52 /\ Radio!ErmakMode["AM"] = 48 /\ Radio!ErmakMode["PKTLSB"] = 54
    /\ Radio!ErmakMode["CWR"] = 53 /\ Radio!ErmakMode["PKTUSB"] = 57
    /\ Radio!Digit["LSB"] = 1 /\ Radio!Digit["USB"] = 2 /\ Radio!Digit["CW"] = 3
    /\ Radio!Digit["FM"] = 4 /\ Radio!Digit["AM"] = 5 /\ Radio!Digit["PKTLSB"] = 6
    /\ Radio!Digit["CWR"] = 7 /\ Radio!Digit["PKTUSB"] = 9
BY DEF Radio!ErmakMode, Radio!Digit, Words

LEMMA WordToMode ==
    /\ \A w \in Words : Rig!rigctl_cvtStr2Mode(w) = Radio!ErmakMode[w] /\ Radio!ErmakMode[w] \in ERMAK_MODE_t
    /\ \A w : w \notin Words => Rig!rigctl_cvtStr2Mode(w) = Unknown
    /\ Unknown \notin ERMAK_MODE_t
BY ErmakModes, ModeNumbers, Numbers DEF ModeConstants, Words, Rig!rigctl_cvtStr2Mode, ERMAK_MODE_t

LEMMA ModeToWord ==
    ASSUME NEW mode \in ERMAK_MODE_t
    PROVE  /\ Radio!WordOf(mode) \in Words /\ Radio!ErmakMode[Radio!WordOf(mode)] = mode
           /\ Rig!rigctl_cvtMode2Str(mode) = Radio!WordOf(mode)
           /\ Cat!cvtModeE2K(mode) = Radio!Digit[Radio!WordOf(mode)]
<1>1. \E w \in Words : Radio!ErmakMode[w] = mode
  BY ErmakModes DEF ERMAK_MODE_t, Words
<1>2. Radio!WordOf(mode) \in Words /\ Radio!ErmakMode[Radio!WordOf(mode)] = mode
  <2>1. mode # Radio!Unknown
    BY WordToMode, Numbers
  <2> QED BY <1>1, <2>1, ErmakModes DEF Radio!WordOf
<1> DEFINE w == Radio!WordOf(mode)
<1> HIDE DEF w
<1>3. w \in Words /\ Radio!ErmakMode[w] = mode
  BY <1>2 DEF w
<1>4. Rig!rigctl_cvtMode2Str(mode) = w
  BY <1>3, ErmakModes, ModeNumbers DEF ModeConstants, Words, Rig!rigctl_cvtMode2Str
<1>5. Cat!cvtModeE2K(mode) = Radio!Digit[w]
  BY <1>3, ErmakModes, ModeNumbers DEF ModeConstants, Words, Cat!cvtModeE2K
<1> QED BY <1>2, <1>4, <1>5 DEF w

(* What the tables have for each mode, and for none.                       *)
LEMMA ModeShown ==
    ASSUME NEW mode \in ERMAK_MODE_t \cup {Unknown}
    PROVE  /\ Rig!rigctl_cvtMode2Str(mode) = Radio!WordOf(mode)
           /\ Cat!cvtModeE2K(mode) = Radio!DigitOf(mode)
<1>1. CASE mode \in ERMAK_MODE_t
  <2>1. mode # Radio!Unknown
    BY <1>1, WordToMode, Numbers
  <2> QED BY <1>1, <2>1, ModeToWord DEF Radio!DigitOf
<1>2. CASE mode = Unknown
  <2>1. Rig!rigctl_cvtMode2Str(-1) = "UNK" /\ Cat!cvtModeE2K(-1) = 0
    BY ModeNumbers DEF ModeConstants, Rig!rigctl_cvtMode2Str, Cat!cvtModeE2K
  <2> QED BY <1>2, <2>1, Numbers DEF Radio!WordOf, Radio!DigitOf
<1> QED BY <1>1, <1>2

(* A reading handler leaves the radio, and has its PTT in the message.     *)
LEMMA AskIs ==
    ASSUME radio \in Settings, rigMsg \in Messages, Rig!Ask
    PROVE  radio' = radio /\ rigMsg' \in Messages /\ rigMsg'.w2 = radio.ptt
<1>1. Rig!FullInfo(radio, rigMsg) = FullInfo(radio, rigMsg)
  BY RigErmak
<1>2. FullInfo(radio, rigMsg) \in Messages /\ FullInfo(radio, rigMsg).w2 = radio.ptt
  BY Returns
<1> QED BY <1>1, <1>2 DEF Rig!Ask

LEMMA VfoNames ==
    /\ DOMAIN Radio!VfoName = ERMAK_VFO_MODE_t
    /\ \A v \in ERMAK_VFO_MODE_t : Radio!VfoName[v] = Rig!rigctl_cvtVfo2Str(v)
    /\ \A r, v : VfoFreq(r, v) = r[Radio!FreqOf(v)] /\ Rig!VfoFreq(r, v) = r[Radio!FreqOf(v)]
<1>1. \A r, v : Rig!VfoFreq(r, v) = VfoFreq(r, v)
  BY RigErmak
<1>2. \A r, v : VfoFreq(r, v) = r[Radio!FreqOf(v)]
  BY RadioErmak DEF VfoFreq
<1> QED BY <1>1, <1>2, RadioErmak, Numbers DEF Radio!VfoName, Rig!rigctl_cvtVfo2Str

(* The parameters of a request.                                            *)
LEMMA ParmFacts ==
    ASSUME NEW q, Rig!IsRequest(q)
    PROVE  /\ q.parm \in Seq(Rig!Parameters) /\ Len(q.parm) \in Nat /\ Len(q.parm) <= 3
           /\ \A i \in {1, 2, 3} : Rig!Has(q, i) <=> Len(q.parm) >= i
           /\ q.parm = <<>> <=> ~Rig!Has(q, 1)
           /\ \A i \in DOMAIN q.parm : /\ q.parm[i] \in Rig!Parameters /\ q.parm[i].num \in Int
                                       /\ q.cmd \in {"set_freq", "set_split_freq"}
                                            => q.parm[i].num \in Nat /\ q.parm[i].num < 1073741824
           /\ \A i : Rig!Number(q, i) = q.parm[i].num /\ Rig!Word(q, i) = q.parm[i].text
                     /\ Rig!Lead(q, i) = q.parm[i].lead
<1>0. q \in [cmd : STRING, parm : Seq(Rig!Parameters), long : BOOLEAN] /\ Len(q.parm) <= 3
  BY SMT DEF Rig!IsRequest
<1>1. q.parm \in Seq(Rig!Parameters) /\ Len(q.parm) \in Nat /\ Len(q.parm) <= 3
  <2>1. q.parm \in Seq(Rig!Parameters)
    BY <1>0, SMT
  <2> QED BY <1>0, <2>1
<1>2. \A i \in DOMAIN q.parm : /\ q.cmd \in {"set_freq", "set_split_freq"}
                                            => q.parm[i].num \in Nat /\ q.parm[i].num < 1073741824
  BY SMT DEF Rig!IsRequest
<1>3. \A i \in DOMAIN q.parm : q.parm[i] \in Rig!Parameters
  BY <1>1
<1>4. \A i \in DOMAIN q.parm : q.parm[i].num \in Int
  BY <1>3 DEF Rig!Parameters
<1>5. /\ \A i \in {1, 2, 3} : Rig!Has(q, i) <=> Len(q.parm) >= i
      /\ q.parm = <<>> <=> ~Rig!Has(q, 1)
  BY <1>1 DEF Rig!Has
<1>6. \A i : Rig!Number(q, i) = q.parm[i].num /\ Rig!Word(q, i) = q.parm[i].text /\ Rig!Lead(q, i) = q.parm[i].lead
  BY DEF Rig!Number, Rig!Word, Rig!Lead
<1> QED BY <1>1, <1>2, <1>3, <1>4, <1>5, <1>6, SMT

LEMMA RigQueriesHandled ==
    ASSUME radio \in Settings, rigMsg \in Messages, NEW q, Rig!IsRequest(q), Rig!rigctl_req(q), q.cmd \in Query
    PROVE  RigHandled(q)
<1> USE DEF Query
<1>0. /\ radio.vfo \in ERMAK_VFO_MODE_t /\ radio.vfoS \in ERMAK_VFO_MODE_t /\ radio.ptt \in Switch
      /\ radio.mode \in ERMAK_MODE_t \cup {Unknown}
  BY DEF Settings
<1>01. \A says : Rig!Says(q, says) => answer'.cmd = q.cmd /\ answer'.parm = q.parm
  BY AnswerIs DEF Rig!Says
<1>1. CASE Rig!cbRigCTLChkVFO(q)
  <2> DEFINE says == [vfo |-> 0]
  <2>1. Rig!Says(q, says) /\ radio' = radio /\ rigMsg' \in Messages /\ "nothing" \notin DOMAIN says
    BY <1>1 DEF Rig!cbRigCTLChkVFO
  <2>2. Radio!Shows(says, Radio!Shown(answer', radio))
    BY <1>1, <1>01, <2>1 DEF Rig!cbRigCTLChkVFO, Radio!Shows, Radio!Shown, Radio!Nothing
  <2> QED BY <2>1, <2>2, QueryHandled
<1>2. CASE Rig!cbRigCTLDumpState(q)
  <2> DEFINE says == Rig!Notes
  <2>1. Rig!Says(q, says) /\ radio' = radio /\ rigMsg' \in Messages /\ "nothing" \notin DOMAIN says
    BY <1>2 DEF Rig!cbRigCTLDumpState, Rig!Notes
  <2>2. Radio!Shows(says, Radio!Shown(answer', radio))
    BY <1>2, <1>01, <2>1 DEF Rig!cbRigCTLDumpState, Radio!Shows, Radio!Shown, Radio!Nothing
  <2> QED BY <2>1, <2>2, QueryHandled
<1>3. CASE Rig!cbRigCTLGetPowerState(q)
  <2> DEFINE says == [power |-> 1]
  <2>1. Rig!Says(q, says) /\ radio' = radio /\ rigMsg' \in Messages /\ "nothing" \notin DOMAIN says
    BY <1>3 DEF Rig!cbRigCTLGetPowerState
  <2>2. Radio!Shows(says, Radio!Shown(answer', radio))
    BY <1>3, <1>01, <2>1 DEF Rig!cbRigCTLGetPowerState, Radio!Shows, Radio!Shown, Radio!Nothing
  <2> QED BY <2>1, <2>2, QueryHandled
<1>4. CASE Rig!cbRigCTLGetFreq(q)
  <2> DEFINE says == [freq |-> Rig!VfoFreq(radio, radio.vfo)]
  <2>1. Rig!Says(q, says) /\ radio' = radio /\ rigMsg' \in Messages /\ "nothing" \notin DOMAIN says
    BY <1>4, AskIs DEF Rig!cbRigCTLGetFreq
  <2>2. Radio!Shows(says, Radio!Shown(answer', radio))
    BY <1>4, <1>01, <2>1, VfoNames DEF Rig!cbRigCTLGetFreq, Radio!Shows, Radio!Shown
  <2> QED BY <2>1, <2>2, QueryHandled
<1>5. CASE Rig!cbRigCTLGetVFO(q)
  <2> DEFINE says == [vfo |-> Rig!rigctl_cvtVfo2Str(radio.vfo)]
  <2>1. Rig!Says(q, says) /\ radio' = radio /\ rigMsg' \in Messages /\ "nothing" \notin DOMAIN says
    BY <1>5, AskIs DEF Rig!cbRigCTLGetVFO
  <2>2. Radio!Shows(says, Radio!Shown(answer', radio))
    BY <1>0, <1>5, <1>01, <2>1, VfoNames DEF Rig!cbRigCTLGetVFO, Radio!Shows, Radio!Shown
  <2> QED BY <2>1, <2>2, QueryHandled
<1>6. CASE Rig!cbRigCTLGetMode(q)
  <2> DEFINE says == Rig!SaysMode(radio, rigMsg')
  <2>1. Rig!Says(q, says) /\ radio' = radio /\ rigMsg' \in Messages /\ "nothing" \notin DOMAIN says
    BY <1>6, AskIs DEF Rig!cbRigCTLGetMode, Rig!SaysMode
  <2>2. Radio!Shows(says, Radio!Shown(answer', radio))
    BY <1>0, <1>6, <1>01, <2>1, ModeShown DEF Rig!cbRigCTLGetMode, Rig!SaysMode, Radio!Shows, Radio!Shown
  <2> QED BY <2>1, <2>2, QueryHandled
<1>7. CASE Rig!cbRigCTLGetPTT(q)
  <2> DEFINE says == [ptt |-> rigMsg'.w2]
  <2>1. Rig!Says(q, says) /\ radio' = radio /\ rigMsg' \in Messages /\ "nothing" \notin DOMAIN says
    BY <1>7, AskIs DEF Rig!cbRigCTLGetPTT
  <2>2. Radio!Shows(says, Radio!Shown(answer', radio))
    BY <1>7, <1>01, <2>1, AskIs DEF Rig!cbRigCTLGetPTT, Radio!Shows, Radio!Shown
  <2> QED BY <2>1, <2>2, QueryHandled
<1>8. CASE Rig!cbRigCTLGetSplitVFO(q)
  <2> DEFINE says == Rig!SaysSplit(radio)
  <2>1. Rig!Says(q, says) /\ radio' = radio /\ rigMsg' \in Messages /\ "nothing" \notin DOMAIN says
    BY <1>8, AskIs DEF Rig!cbRigCTLGetSplitVFO, Rig!SaysSplit
  <2>2. Radio!Shows(says, Radio!Shown(answer', radio))
    BY <1>0, <1>8, <1>01, <2>1, VfoNames DEF Rig!cbRigCTLGetSplitVFO, Rig!SaysSplit, Radio!Shows, Radio!Shown
  <2> QED BY <2>1, <2>2, QueryHandled
<1>9. CASE Rig!cbRigCTLGetSplitMode(q)
  <2> DEFINE says == [mode |-> Rig!rigctl_cvtMode2Str(radio.mode), passband |-> Rig!Width]
  <2>1. Rig!Says(q, says) /\ radio' = radio /\ rigMsg' \in Messages /\ "nothing" \notin DOMAIN says
    BY <1>9, AskIs DEF Rig!cbRigCTLGetSplitMode
  <2>2. Radio!Shows(says, Radio!Shown(answer', radio))
    BY <1>0, <1>9, <1>01, <2>1, ModeShown DEF Rig!cbRigCTLGetSplitMode, Radio!Shows, Radio!Shown
  <2> QED BY <2>1, <2>2, QueryHandled
<1>10. CASE Rig!cbRigCTLGetSplitFreq(q)
  <2> DEFINE says == Rig!SaysSplitFreq(radio)
  <2>1. Rig!Says(q, says) /\ radio' = radio /\ rigMsg' \in Messages /\ "nothing" \notin DOMAIN says
    BY <1>10, AskIs DEF Rig!cbRigCTLGetSplitFreq, Rig!SaysSplitFreq
  <2>2. Radio!Shows(says, Radio!Shown(answer', radio))
    BY <1>10, <1>01, <2>1, VfoNames DEF Rig!cbRigCTLGetSplitFreq, Rig!SaysSplitFreq, Radio!Shows, Radio!Shown
  <2> QED BY <2>1, <2>2, QueryHandled
<1>11. CASE Rig!cbRigCTLGetRit(q) \/ Rig!cbRigCTLGetXit(q) \/ Rig!cbRigCTLGetLockMode(q)
  <2>1. PICK says : /\ Rig!Says(q, says) /\ radio' = radio /\ rigMsg' \in Messages
                    /\ \/ q.cmd = "get_rit" /\ says = [offset |-> radio.ritFreq]
                       \/ q.cmd = "get_xit" /\ says = [offset |-> radio.xitFreq]
                       \/ q.cmd = "get_lock_mode" /\ says = [lock |-> radio.lock]
    BY <1>11, AskIs DEF Rig!cbRigCTLGetRit, Rig!cbRigCTLGetXit, Rig!cbRigCTLGetLockMode
  <2>2. "nothing" \notin DOMAIN says
    BY <2>1
  <2>3. Radio!Shows(says, Radio!Shown(answer', radio))
    BY <1>01, <2>1 DEF Radio!Shows, Radio!Shown
  <2> QED BY <2>1, <2>2, <2>3, QueryHandled
<1>12. CASE Rig!cbRigCTLGetVFOinfo(q)
  <2> DEFINE query == Rig!Has(q, 1) /\ Rig!Word(q, 1) = "?"
             vfo   == IF Rig!Has(q, 1) /\ Rig!Word(q, 1) = "VFOA" THEN Rig!ERMAK_VFO_MODE_A
                      ELSE IF Rig!Has(q, 1) /\ Rig!Word(q, 1) = "VFOB" THEN Rig!ERMAK_VFO_MODE_B
                      ELSE radio.vfo
             info  == [freq |-> Rig!VfoFreq(radio, vfo), mode |-> Rig!rigctl_cvtMode2Str(radio.mode),
                       width |-> Rig!Width, split |-> radio.split]
             says  == IF query THEN Rig!Notes ELSE info
  <2>1. Rig!Says(q, says) /\ Rig!Ask /\ q.cmd = "get_vfo_info"
    BY <1>12 DEF Rig!cbRigCTLGetVFOinfo
  <2>2. radio' = radio /\ rigMsg' \in Messages
    BY <2>1, AskIs
  <2>3. "nothing" \notin DOMAIN says
    BY DEF Rig!Notes
  <2>4. answer'.cmd = "get_vfo_info" /\ answer'.parm = q.parm
    BY <1>01, <2>1
  <2>5. Rig!Has(q, 1) <=> q.parm # <<>>
    BY ParmFacts
  <2>6. Radio!IsQuery(answer') <=> query
    BY <2>4, <2>5 DEF Radio!IsQuery, Rig!Word
  <2>7. vfo = Radio!AskedVfo(answer', radio)
    BY <2>4, <2>5, Numbers, RadioErmak DEF Radio!AskedVfo, Radio!NamedVfo, Rig!Word
  <2> HIDE DEF vfo, query
  <2>8. Radio!Shows(says, Radio!Shown(answer', radio))
    <3>1. CASE query
      BY <2>4, <2>6, <3>1 DEF Radio!Shows, Radio!Shown, Radio!Nothing
    <3>2. CASE ~query
      <4>1. Radio!Shown(answer', radio) = [freq |-> radio[Radio!FreqOf(vfo)], mode |-> Radio!WordOf(radio.mode),
                                           split |-> radio.split]
        BY <2>4, <2>6, <2>7, <3>2 DEF Radio!Shown
      <4>2. info.freq = radio[Radio!FreqOf(vfo)] /\ info.mode = Radio!WordOf(radio.mode)
        BY <1>0, VfoNames, ModeShown
      <4> QED BY <3>2, <4>1, <4>2 DEF Radio!Shows
    <3> QED BY <3>1, <3>2
  <2> QED BY <2>1, <2>2, <2>3, <2>8, QueryHandled
<1>13. CASE Rig!cbRigCTLGetFullInfo(q)
  <2> DEFINE says == [rx |-> rigMsg'.w0, ptt |-> rigMsg'.w2, stackMem |-> rigMsg'.w1 + 1, band |-> rigMsg'.w3,
                      mode |-> Rig!rigctl_cvtMode2Str(radio.mode), freqA |-> radio.freqA,
                      freqB |-> radio.freqB, split |-> radio.split, rit |-> radio.rit,
                      xit |-> radio.xit, lock |-> radio.lock,
                      vfoRX |-> Rig!rigctl_cvtVfo2Str(radio.vfo), vfoTX |-> Rig!rigctl_cvtVfo2Str(radio.vfoS)]
             m == Rig!FullInfo(radio, rigMsg)
  <2>1. /\ Rig!Says(q, says) /\ radio' = radio /\ q.cmd = "full_info"
        /\ rigMsg' = m \/ rigMsg' = [m EXCEPT !.w0 = Rig!ERMAK_RX_SUB]
    BY <1>13 DEF Rig!cbRigCTLGetFullInfo
  <2>2. m \in Messages /\ m.w2 = radio.ptt
    <3>1. Rig!FullInfo(radio, rigMsg) = FullInfo(radio, rigMsg)
      BY RigErmak
    <3> QED BY <3>1, Returns
  <2> HIDE DEF m
  <2>3. rigMsg' \in Messages /\ rigMsg'.w2 = radio.ptt
    <3>1. Rig!ERMAK_RX_SUB \in Int
      BY DEF Rig!ERMAK_RX_SUB
    <3> QED BY <2>1, <2>2, <3>1 DEF Messages
  <2>4. "nothing" \notin DOMAIN says
    OBVIOUS
  <2>5. Radio!Shows(says, Radio!Shown(answer', radio))
    <3>1. Radio!Shown(answer', radio) =
              [freqA |-> radio.freqA, freqB |-> radio.freqB, ptt |-> radio.ptt,
               vfoRX |-> Radio!VfoName[radio.vfo], vfoTX |-> Radio!VfoName[radio.vfoS],
               mode |-> Radio!WordOf(radio.mode), split |-> radio.split,
               rit |-> radio.rit, xit |-> radio.xit, lock |-> radio.lock]
      BY <1>01, <2>1 DEF Radio!Shown
    <3>2. Radio!VfoName[radio.vfo] = says.vfoRX /\ Radio!VfoName[radio.vfoS] = says.vfoTX /\ says.ptt = radio.ptt
          /\ Radio!WordOf(radio.mode) = says.mode
      BY <1>0, <2>3, VfoNames, ModeShown
    <3> QED BY <3>1, <3>2 DEF Radio!Shows
  <2> QED BY <2>1, <2>3, <2>4, <2>5, QueryHandled
<1>14. CASE Rig!cbRigCTLSetSplitMode(q) \/ Rig!NotFound(q)
  <2>1. PICK rprt \in {Rig!RIG_OK, Rig!RIG_EINVAL, Rig!RIG_ENAVAIL} :
             Rig!Reports(q, rprt) /\ radio' = radio /\ rigMsg' = rigMsg /\ q.cmd \in {"other", "set_split_mode"}
    BY <1>14 DEF Rig!cbRigCTLSetSplitMode, Rig!NotFound
  <2>2. answer'.cmd = q.cmd
    BY <2>1, AnswerIs DEF Rig!Reports
  <2>3. Radio!Shown(answer', radio) = Radio!Nothing
    BY <2>1, <2>2 DEF Radio!Shown
  <2> QED BY <2>1, <2>3, ReportHandled
<1>15. CASE Rig!cbRigCTLGetFunc(q)
  <2>0. q.cmd = "get_func"
    BY <1>15 DEF Rig!cbRigCTLGetFunc
  <2>1. CASE q.parm = <<>> /\ Rig!Rejects(q, rigMsg)
    <3>1. Rig!Reports(q, Rig!RIG_EINVAL) /\ radio' = radio /\ rigMsg' = rigMsg
      BY <2>1 DEF Rig!Rejects
    <3>2. answer'.cmd = q.cmd /\ answer'.parm = q.parm
      BY <3>1, AnswerIs DEF Rig!Reports
    <3>3. Radio!Shown(answer', radio) = Radio!Nothing
      BY <2>0, <2>1, <3>2 DEF Radio!Shown
    <3> QED BY <2>0, <3>1, <3>3, ReportHandled
  <2>2. CASE /\ Rig!Has(q, 1) /\ Rig!Ask
             /\ \/ Rig!Word(q, 1) = "RIT" /\ Rig!Says(q, [status |-> radio.rit])
                \/ Rig!Word(q, 1) = "XIT" /\ Rig!Says(q, [status |-> radio.xit])
    <3>1. PICK says : /\ Rig!Says(q, says)
                      /\ \/ q.parm[1].text = "RIT" /\ says = [status |-> radio.rit]
                         \/ q.parm[1].text = "XIT" /\ says = [status |-> radio.xit]
      BY <2>2 DEF Rig!Word
    <3>2. radio' = radio /\ rigMsg' \in Messages /\ q.parm # <<>>
      BY <2>2, AskIs DEF Rig!Has
    <3>3. "nothing" \notin DOMAIN says
      BY <3>1
    <3>4. Radio!Shows(says, Radio!Shown(answer', radio))
      BY <1>01, <2>0, <3>1, <3>2 DEF Radio!Shows, Radio!Shown
    <3> QED BY <2>0, <3>1, <3>2, <3>3, <3>4, QueryHandled
  <2>3. CASE /\ Rig!Has(q, 1) /\ Rig!Word(q, 1) \notin {"RIT", "XIT"}
             /\ UNCHANGED <<radio, rigMsg>>
             /\ Rig!Answer(q, IF Rig!Lead(q, 1) = "?" THEN Rig!Notes ELSE Rig!Nothing,
                              IF Rig!Lead(q, 1) = "?" \/ Rig!Word(q, 1) \in IdleFunctions THEN Rig!RIG_EEND
                              ELSE Rig!RIG_ENAVAIL)
    <3>1. answer'.cmd = q.cmd /\ answer'.parm = q.parm
      BY <2>3, AnswerIs
    <3>2. Radio!Shown(answer', radio) = Radio!Nothing
      BY <2>0, <2>3, <3>1 DEF Radio!Shown, Rig!Word
    <3>3. CASE Rig!Lead(q, 1) = "?"
      <4>1. Rig!Says(q, Rig!Notes)
        BY <2>3, <3>3 DEF Rig!Says
      <4>2. "nothing" \notin DOMAIN Rig!Notes
        BY DEF Rig!Notes
      <4>3. Radio!Shows(Rig!Notes, Radio!Shown(answer', radio))
        BY <3>2 DEF Radio!Shows, Radio!Nothing
      <4> QED BY <2>0, <2>3, <4>1, <4>2, <4>3, QueryHandled
    <3>4. CASE Rig!Lead(q, 1) # "?" /\ Rig!Word(q, 1) \notin IdleFunctions
      <4>1. Rig!Reports(q, Rig!RIG_ENAVAIL)
        BY <2>3, <3>4 DEF Rig!Reports
      <4> QED BY <2>0, <2>3, <3>2, <4>1, ReportHandled
    <3>5. CASE Rig!Lead(q, 1) # "?" /\ Rig!Word(q, 1) \in IdleFunctions
      <4>1. Rig!Answer(q, Rig!Nothing, Rig!RIG_EEND)
        BY <2>3, <3>5
      <4>2. answer'.says = Rig!Nothing /\ answer'.rprt = Rig!RIG_EEND
        BY <4>1, AnswerIs
      <4>3. Radio!Obeyed(Radio!Told(answer', radio), radio, radio')
        BY <2>0, <2>3, <3>1, ToldOf, ObeyedNone, ObeyedRig
      <4>4. Radio!Shows(answer'.says, Radio!Shown(answer', radio'))
        BY <2>3, <3>2 DEF Radio!Shows, Radio!Nothing
      <4> QED BY <2>0, <2>3, <3>1, <3>5, <4>2, <4>3, <4>4 DEF RigHandled, Rig!Word
    <3> QED BY <3>3, <3>4, <3>5
  <2> QED BY <1>15, <2>1, <2>2, <2>3 DEF Rig!cbRigCTLGetFunc
<1>16. q.cmd \notin Setting
  BY DEF Setting
<1> QED
  BY <1>1, <1>2, <1>3, <1>4, <1>5, <1>6, <1>7, <1>8, <1>9, <1>10, <1>11, <1>12, <1>13, <1>14, <1>15, <1>16
     DEF Setting, Rig!rigctl_req, Rig!cbRigCTLSetLockMode, Rig!cbRigCTLSetFreq, Rig!cbRigCTLSetVFO,
         Rig!cbRigCTLSetMode, Rig!cbRigCTLSetPTT, Rig!cbRigCTLSetSplitVFO, Rig!cbRigCTLSetSplitFreq,
         Rig!cbRigCTLSetRit, Rig!cbRigCTLSetXit, Rig!cbRigCTLSetFunc

LEMMA SendIs ==
    ASSUME radio \in Settings, NEW m \in Messages, NEW c,
           \/ Rig!Send(c, m)
           \/ Rig!SendAndNotify(c, m, Rig!ERMAK_NOTIFY_TYPE_WEB_ALL)
           \/ Rig!SendAndNotify(c, m, Rig!ERMAK_NOTIFY_TYPE_WEB_RXTX)
    PROVE  radio' = Perform(radio, c, m) /\ rigMsg' \in Messages
<1>1. Rig!Perform(radio, c, m) = Perform(radio, c, m) /\ Rig!Returned(radio, c, m) = Returned(radio, c, m)
  BY RigErmak
<1>2. /\ Returned(radio, c, m) \in Messages
      /\ [Returned(radio, c, m) EXCEPT !.w0 = Rig!ERMAK_NOTIFY_TYPE_WEB_ALL] \in Messages
      /\ [Returned(radio, c, m) EXCEPT !.w0 = Rig!ERMAK_NOTIFY_TYPE_WEB_RXTX] \in Messages
  BY Returns
<1> QED BY <1>1, <1>2 DEF Rig!Send, Rig!SendAndNotify

(* A rejected setting leaves the settings alone, whatever it has written   *)
(* to the message.                                                         *)
LEMMA RejectHandled ==
    ASSUME radio \in Settings, NEW q, q.cmd \in Setting, NEW m \in Messages, Rig!Rejects(q, m),
           Radio!ToldByRig(answer', radio) = Radio!Nothing
    PROVE  RigHandled(q)
<1>1. Rig!Reports(q, Rig!RIG_EINVAL) /\ radio' = radio /\ rigMsg' = m
  BY DEF Rig!Rejects
<1> QED BY <1>1, ObeyedNone, SettingHandled

(* set_split_freq turns the frequency of the transmitting VFO, exactly.    *)
LEMMA SplitFreqSets ==
    ASSUME radio \in Settings, rigMsg \in Messages, NEW q, Rig!IsRequest(q), Rig!cbRigCTLSetSplitFreq(q),
           q.parm # <<>>
    PROVE  /\ radio' = [radio EXCEPT ![FreqOf(radio.vfoS)] = Rig!ToFloat(q.parm[1].num)]
           /\ rigMsg' \in Messages /\ Rig!Reports(q, Rig!RIG_OK)
           /\ Rig!ToFloat(q.parm[1].num) \in Nat
           /\ Rig!ToFloat(q.parm[1].num) \in Radio!Near(q.parm[1].num)
<1> DEFINE f    == Rig!FullInfo(radio, rigMsg)
           n    == q.parm[1].num
           freq == Rig!ToFloat(n)
           m    == Rig!VfoData(f, freq, radio.vfoS)
<1>1. Rig!SendAndNotify("SET_VFO", m, Rig!ERMAK_NOTIFY_TYPE_WEB_ALL) /\ Rig!Reports(q, Rig!RIG_OK)
  BY ParmFacts DEF Rig!cbRigCTLSetSplitFreq
<1>2. n \in Nat /\ n < 1073741824
  <2>1. q.cmd = "set_split_freq"
    BY DEF Rig!cbRigCTLSetSplitFreq
  <2>2. 1 \in DOMAIN q.parm
    BY ParmFacts
  <2> QED BY <2>1, <2>2, ParmFacts, SMT
<1> HIDE DEF n
<1>3. freq \in Nat /\ freq \in Radio!Near(n)
  BY <1>2, FloatIsNear, SMT
<1> HIDE DEF freq
<1>4. f \in Messages
  <2>1. f = FullInfo(radio, rigMsg)
    BY RigErmak
  <2> QED BY <2>1, Returns
<1>5. freq \in Int /\ radio.vfoS \in ERMAK_VFO_MODE_t /\ radio.vfoS \in Int
  BY <1>3, Numbers DEF Settings
<1> HIDE DEF f
<1>6. m \in Messages /\ m.w0 = freq /\ m.w2 = radio.vfoS
  BY <1>4, <1>5, VfoDataIs
<1> HIDE DEF m
<1>7. radio' = Perform(radio, "SET_VFO", m) /\ rigMsg' \in Messages
  BY <1>1, <1>6, SendIs
<1>8. Perform(radio, "SET_VFO", m) = [radio EXCEPT ![FreqOf(ermak_chk_vfo(radio, m))] = m.w0]
  BY Performs
<1>9. ermak_chk_vfo(radio, m) = radio.vfoS
  BY <1>5, <1>6 DEF ermak_chk_vfo
<1>10. radio' = [radio EXCEPT ![FreqOf(radio.vfoS)] = freq]
  BY <1>6, <1>7, <1>8, <1>9
<1> QED BY <1>1, <1>3, <1>7, <1>10, Zenon DEF freq, n

LEMMA RigSettingsHandled ==
    ASSUME radio \in Settings, rigMsg \in Messages, NEW q, Rig!IsRequest(q), Rig!rigctl_req(q), q.cmd \in Setting
    PROVE  RigHandled(q)
<1> USE DEF Setting
<1>0. /\ radio.vfo \in ERMAK_VFO_MODE_t /\ radio.vfoS \in ERMAK_VFO_MODE_t
      /\ rigMsg.w0 \in Int
  BY DEF Settings, Messages
<1>01. \A rprt : Rig!Reports(q, rprt) => answer'.cmd = q.cmd /\ answer'.parm = q.parm
  BY AnswerIs DEF Rig!Reports
<1>02. /\ q.parm \in Seq(Rig!Parameters) /\ Len(q.parm) \in Nat /\ Len(q.parm) <= 3
       /\ \A i \in {1, 2, 3} : Rig!Has(q, i) <=> Len(q.parm) >= i
       /\ q.parm = <<>> <=> ~Rig!Has(q, 1)
       /\ \A i \in DOMAIN q.parm : q.parm[i] \in Rig!Parameters /\ q.parm[i].num \in Int
       /\ \A i : Rig!Number(q, i) = q.parm[i].num /\ Rig!Word(q, i) = q.parm[i].text
                 /\ Rig!Lead(q, i) = q.parm[i].lead
  BY ParmFacts
<1>03. /\ Len(q.parm) \in Nat /\ Len(q.parm) <= 3
       /\ Rig!Has(q, 1) <=> Len(q.parm) >= 1
       /\ Rig!Has(q, 2) <=> Len(q.parm) >= 2
       /\ Rig!Has(q, 3) <=> Len(q.parm) >= 3
  BY <1>02
<1>04. /\ Len(q.parm) = 3 <=> Len(q.parm) >= 3
       /\ Len(q.parm) = 3 => Len(q.parm) >= 2
  <2>1. \A n \in Nat : n <= 3 => (n = 3 <=> n >= 3) /\ (n = 3 => n >= 2)
    OBVIOUS
  <2> QED BY <1>03, <2>1
<1>1. CASE Rig!cbRigCTLSetLockMode(q)
  <2> DEFINE b == Rig!StartsWith1(q, 1)
             v == IF b THEN ON ELSE OFF
             m == [rigMsg EXCEPT !.lockOn = b]
  <2>1. q.cmd = "set_lock_mode" /\ Rig!Send("SET_LOCK", m) /\ Rig!Reports(q, Rig!RIG_OK)
    BY <1>1 DEF Rig!cbRigCTLSetLockMode
  <2>2. b \in BOOLEAN /\ m \in Messages /\ m.lockOn = b
    BY LockVariant DEF Rig!StartsWith1, Rig!Has
  <2> HIDE DEF m
  <2>3. radio' = [radio EXCEPT !.lock = v] /\ rigMsg' \in Messages
    <3>1. radio' = Perform(radio, "SET_LOCK", m) /\ rigMsg' \in Messages
      BY <2>1, <2>2, SendIs
    <3> QED BY <2>2, <3>1, Performs
  <2>4. v \in Switch /\ v \in Radio!Flag(b)
    BY RadioErmak, Numbers DEF Radio!Flag
  <2>5. Radio!ToldByRig(answer', radio) = Radio!Turns("lock", Radio!Flag(b))
    BY <1>01, <1>02, <2>1 DEF Radio!ToldByRig, Rig!StartsWith1
  <2> HIDE DEF b, v
  <2>6. radio' \in Settings /\ radio'.mode = radio.mode
    BY <2>3, <2>4, SettingsTurned DEF Settings
  <2>7. Radio!Obeyed(Radio!ToldByRig(answer', radio), radio, radio')
    BY <2>3, <2>4, <2>5, ObeyedOne
  <2> QED BY <2>1, <2>3, <2>6, <2>7, SettingHandled
<1>2. CASE Rig!cbRigCTLSetPTT(q)
  <2> DEFINE v == IF Rig!StartsWith1(q, 1) THEN Rig!ON ELSE Rig!OFF
             m == Rig!TransmittRx(rigMsg, v)
  <2>0. q.cmd = "set_ptt"
    BY <1>2 DEF Rig!cbRigCTLSetPTT
  <2>1. CASE q.parm = <<>>
    <3>1. Rig!Rejects(q, Rig!TransmittRx(rigMsg, rigMsg.w0)) /\ answer'.cmd = q.cmd /\ answer'.parm = q.parm
      BY <1>2, <1>01, <2>1 DEF Rig!cbRigCTLSetPTT, Rig!Rejects
    <3>2. Radio!ToldByRig(answer', radio) = Radio!Nothing
      BY <2>0, <2>1, <3>1 DEF Radio!ToldByRig
    <3>3. Rig!TransmittRx(rigMsg, rigMsg.w0) \in Messages
      BY <1>0, Variants
    <3> QED BY <2>0, <3>1, <3>2, <3>3, RejectHandled
  <2>2. CASE q.parm # <<>>
    <3>1. Rig!SendAndNotify("SET_TRANSMITT_RX", m, Rig!ERMAK_NOTIFY_TYPE_WEB_RXTX) /\ Rig!Reports(q, Rig!RIG_OK)
      BY <1>2, <2>2 DEF Rig!cbRigCTLSetPTT
    <3>2. v \in Switch /\ v \in Int /\ v \in Radio!Flag(Rig!StartsWith1(q, 1))
      BY Numbers, RadioErmak DEF Radio!Flag
    <3>3. Radio!ToldByRig(answer', radio) = Radio!Turns("ptt", Radio!Flag(Rig!StartsWith1(q, 1)))
      BY <1>01, <1>02, <2>0, <2>2, <3>1 DEF Radio!ToldByRig, Rig!StartsWith1
    <3> HIDE DEF v
    <3>4. m \in Messages /\ m.w0 = v
      BY <3>2, Variants
    <3> HIDE DEF m
    <3>5. radio' = [radio EXCEPT !.ptt = v] /\ rigMsg' \in Messages
      <4>1. radio' = Perform(radio, "SET_TRANSMITT_RX", m) /\ rigMsg' \in Messages
        BY <3>1, <3>4, SendIs
      <4> QED BY <3>4, <4>1, Performs
    <3>6. radio' \in Settings /\ radio'.mode = radio.mode
      BY <3>5, <3>2, SettingsTurned DEF Settings
    <3>7. Radio!Obeyed(Radio!ToldByRig(answer', radio), radio, radio')
      BY <3>2, <3>3, <3>5, ObeyedOne
    <3> QED BY <2>0, <3>1, <3>5, <3>6, <3>7, SettingHandled
  <2> QED BY <2>1, <2>2
<1>3. CASE Rig!cbRigCTLSetFreq(q)
  <2>0. q.cmd = "set_freq"
    BY <1>3 DEF Rig!cbRigCTLSetFreq
  <2>1. CASE q.parm = <<>>
    <3>1. Rig!Rejects(q, Rig!VfoData(rigMsg, rigMsg.w0, Rig!Unknown)) /\ answer'.cmd = q.cmd /\ answer'.parm = q.parm
      BY <1>3, <1>01, <2>1 DEF Rig!cbRigCTLSetFreq, Rig!Rejects
    <3>2. Radio!ToldByRig(answer', radio) = Radio!Nothing
      BY <2>0, <2>1, <3>1 DEF Radio!ToldByRig
    <3>3. Rig!VfoData(rigMsg, rigMsg.w0, Rig!Unknown) \in Messages
      <4>1. Rig!Unknown \in Int
        BY Numbers
      <4> QED BY <1>0, <4>1, Variants
    <3> QED BY <2>0, <3>1, <3>2, <3>3, RejectHandled
  <2>2. CASE q.parm # <<>>
    <3> DEFINE i    == IF Rig!Has(q, 2) THEN 2 ELSE 1
               n    == q.parm[i].num
               freq == Rig!ToFloat(n)
               vfo  == IF Rig!Has(q, 2) /\ Rig!Word(q, 1) = "VFOB" THEN Rig!ERMAK_VFO_MODE_B
                       ELSE IF Rig!Has(q, 2) /\ Rig!Word(q, 1) = "VFOA" THEN Rig!ERMAK_VFO_MODE_A
                       ELSE Rig!Unknown
               m    == Rig!VfoData(rigMsg, freq, vfo)
               named  == Rig!Has(q, 2) /\ q.parm[1].text \in {"VFOA", "VFOB"}
               target == IF named THEN vfo ELSE radio.vfo
    <3>1. Rig!SendAndNotify("SET_VFO", m, Rig!ERMAK_NOTIFY_TYPE_WEB_ALL) /\ Rig!Reports(q, Rig!RIG_OK)
      BY <1>3, <1>02, <2>2 DEF Rig!cbRigCTLSetFreq
    <3>2. vfo \in Int /\ (named => vfo \in ERMAK_VFO_MODE_t) /\ (~named => vfo = -1)
      BY <1>02, Numbers
    <3>3. i \in DOMAIN q.parm
      BY <1>02, <2>2
    <3>4. n \in Nat /\ n < 1073741824
      BY <2>0, <3>3, ParmFacts, SMT
    <3> HIDE DEF n
    <3>5. freq \in Nat /\ freq \in Radio!Near(n)
      BY <3>4, FloatIsNear, SMT
    <3> HIDE DEF freq
    <3>6. Radio!ToldByRig(answer', radio) = Radio!Turns(FreqOf(target), Radio!Near(n))
      <4>1. DOMAIN Radio!NamedVfo = {"VFOA", "VFOB"} /\ Radio!NamedVfo["VFOA"] = 0 /\ Radio!NamedVfo["VFOB"] = 1
        BY RadioErmak, Numbers DEF Radio!NamedVfo
      <4>2. answer'.cmd = "set_freq" /\ answer'.parm = q.parm
        BY <1>01, <2>0, <3>1
      <4>3. Len(q.parm) > 1 <=> Rig!Has(q, 2)
        BY <1>02
      <4>4. target = IF Len(q.parm) > 1 /\ q.parm[1].text \in DOMAIN Radio!NamedVfo
                     THEN Radio!NamedVfo[q.parm[1].text] ELSE radio.vfo
        BY <1>02, <4>1, <4>3, Numbers
      <4>5. n = q.parm[IF Len(q.parm) > 1 THEN 2 ELSE 1].num
        BY <4>3 DEF n
      <4> HIDE DEF vfo, target, named
      <4>6. Len(q.parm) >= 1
        BY <1>02, <2>2
      <4>7. Radio!ToldByRig(answer', radio) = Radio!Turns(Radio!FreqOf(target), Radio!Near(n))
        BY <2>2, <4>2, <4>4, <4>5, <4>6 DEF Radio!ToldByRig
      <4> QED BY <4>7, RadioErmak
    <3> HIDE DEF vfo, named
    <3>7. m \in Messages /\ m.w0 = freq /\ m.w2 = vfo
      <4>1. freq \in Int /\ vfo \in Int
        BY <3>2, <3>5
      <4>2. /\ Rig!VfoData(rigMsg, freq, vfo) \in Messages /\ Rig!VfoData(rigMsg, freq, vfo).w0 = freq
            /\ Rig!VfoData(rigMsg, freq, vfo).w2 = vfo
        BY <4>1, VfoDataIs
      <4> QED BY <4>2
    <3> HIDE DEF m
    <3>8. radio' = Perform(radio, "SET_VFO", m) /\ rigMsg' \in Messages
      BY <3>1, <3>7, SendIs
    <3>9. ermak_chk_vfo(radio, m) = target
      BY <3>2, <3>7, Numbers DEF ermak_chk_vfo
    <3> HIDE DEF target
    <3>10. radio' = [radio EXCEPT ![FreqOf(target)] = freq]
      <4>1. Perform(radio, "SET_VFO", m) = [radio EXCEPT ![FreqOf(ermak_chk_vfo(radio, m))] = m.w0]
        BY Performs
      <4> QED BY <3>7, <3>8, <3>9, <4>1
    <3>11. radio' \in Settings
      BY <3>5, <3>10, SettingsTurned
    <3>12. radio'.mode = radio.mode
      BY <3>10 DEF Settings, FreqOf
    <3>13. Radio!Obeyed(Radio!ToldByRig(answer', radio), radio, radio')
      <4> DEFINE k == FreqOf(target)
                 new == [radio EXCEPT ![k] = freq]
      <4> HIDE DEF k
      <4>1. Radio!Obeyed(Radio!Turns(k, Radio!Near(n)), radio, new)
        BY <3>5, ObeyedOne, SMT
      <4>2. radio' = new
        BY <3>10 DEF k
      <4> QED BY <3>6, <4>1, <4>2, Zenon DEF k
    <3> QED BY <2>0, <3>1, <3>8, <3>11, <3>12, <3>13, SettingHandled
  <2> QED BY <2>1, <2>2
<1>4. CASE Rig!cbRigCTLSetSplitFreq(q)
  <2>0. q.cmd = "set_split_freq"
    BY <1>4 DEF Rig!cbRigCTLSetSplitFreq
  <2> DEFINE f == Rig!FullInfo(radio, rigMsg)
  <2>1. f \in Messages /\ f.w0 \in Int /\ radio.vfoS \in Int
    <3>1. Rig!FullInfo(radio, rigMsg) = FullInfo(radio, rigMsg)
      BY RigErmak
    <3>2. f \in Messages
      BY <3>1, Returns
    <3> QED BY <1>0, <3>2, Numbers DEF Messages
  <2> HIDE DEF f
  <2>2. CASE q.parm = <<>>
    <3>1. Rig!Rejects(q, Rig!VfoData(f, f.w0, radio.vfoS)) /\ answer'.cmd = q.cmd /\ answer'.parm = q.parm
      BY <1>4, <1>01, <2>2 DEF Rig!cbRigCTLSetSplitFreq, Rig!Rejects, f
    <3>2. Radio!ToldByRig(answer', radio) = Radio!Nothing
      BY <2>0, <2>2, <3>1 DEF Radio!ToldByRig
    <3>3. Rig!VfoData(f, f.w0, radio.vfoS) \in Messages
      BY <2>1, Variants
    <3> QED BY <2>0, <3>1, <3>2, <3>3, RejectHandled
  <2>3. CASE q.parm # <<>>
    <3> DEFINE n    == q.parm[1].num
               freq == Rig!ToFloat(n)
    <3>1. /\ radio' = [radio EXCEPT ![FreqOf(radio.vfoS)] = freq]
          /\ rigMsg' \in Messages /\ Rig!Reports(q, Rig!RIG_OK)
          /\ freq \in Nat /\ freq \in Radio!Near(n)
      BY <1>4, <2>3, SplitFreqSets
    <3>2. Radio!ToldByRig(answer', radio) = Radio!Turns(FreqOf(radio.vfoS), Radio!Near(n))
      <4>1. answer'.cmd = "set_split_freq" /\ answer'.parm = q.parm
        BY <1>01, <2>0, <3>1
      <4> QED BY <2>3, <4>1, RadioErmak DEF Radio!ToldByRig, n
    <3> HIDE DEF n, freq
    <3>3. radio' \in Settings
      BY <3>1, SettingsTurned
    <3>4. radio'.mode = radio.mode
      BY <3>1 DEF Settings, FreqOf
    <3>5. Radio!Obeyed(Radio!ToldByRig(answer', radio), radio, radio')
      <4> DEFINE k == FreqOf(radio.vfoS)
                 new == [radio EXCEPT ![k] = freq]
      <4>1. radio' = new
        BY <3>1
      <4> HIDE DEF k
      <4>2. Radio!Obeyed(Radio!Turns(k, Radio!Near(n)), radio, new)
        <5>1. freq \in Radio!Near(n)
          BY <3>1, Zenon
        <5> QED BY <5>1, ObeyedOne, SMT
      <4> QED BY <3>2, <4>1, <4>2, Zenon DEF k
    <3>6. rigMsg' \in Messages /\ Rig!Reports(q, Rig!RIG_OK)
      BY <3>1, Zenon
    <3> QED BY <2>0, <3>3, <3>4, <3>5, <3>6, SettingHandled
  <2> QED BY <2>2, <2>3
<1>5. CASE Rig!cbRigCTLSetVFO(q)
  <2>0. q.cmd = "set_vfo"
    BY <1>5 DEF Rig!cbRigCTLSetVFO
  <2>1. CASE q.parm = <<>>
    <3>1. Rig!Rejects(q, rigMsg) /\ answer'.cmd = q.cmd /\ answer'.parm = q.parm
      BY <1>5, <1>01, <2>1 DEF Rig!cbRigCTLSetVFO, Rig!Rejects
    <3>2. Radio!ToldByRig(answer', radio) = Radio!Nothing
      BY <2>0, <2>1, <3>1 DEF Radio!ToldByRig
    <3> QED BY <2>0, <3>1, <3>2, RejectHandled
  <2>2. CASE q.parm # <<>> /\ q.parm[1].text = "?"
    <3>1. Rig!Answer(q, Rig!Notes, Rig!RIG_OK) /\ radio' = radio /\ rigMsg' = rigMsg
      BY <1>5, <1>02, <2>2 DEF Rig!cbRigCTLSetVFO
    <3>2. /\ answer'.cmd = "set_vfo" /\ answer'.parm = q.parm /\ answer'.says = Rig!Notes
          /\ answer'.rprt = Rig!RIG_OK
      BY <2>0, <3>1, AnswerIs, Numbers
    <3>3. Radio!ToldByRig(answer', radio) = Radio!Nothing
      BY <1>02, <2>2, <3>2 DEF Radio!ToldByRig
    <3>4. Radio!Obeyed(Radio!Told(answer', radio), radio, radio')
      BY <2>0, <3>1, <3>2, <3>3, ToldOf, ObeyedNone, ObeyedRig
    <3>5. Radio!Shown(answer', radio') = Radio!Nothing
      BY <3>2 DEF Radio!Shown
    <3>6. Radio!Shows(answer'.says, Radio!Shown(answer', radio'))
      BY <3>5 DEF Radio!Shows, Radio!Nothing
    <3> QED BY <2>0, <3>1, <3>2, <3>4, <3>6, Numbers DEF RigHandled
  <2>3. CASE q.parm # <<>> /\ q.parm[1].text # "?"
    <3> DEFINE v == IF Rig!Word(q, 1) = "VFOB" THEN Rig!ERMAK_VFO_MODE_B ELSE Rig!ERMAK_VFO_MODE_A
               m == Rig!VfoOnly(rigMsg, v)
    <3>1. Rig!SendAndNotify("SWITCH_VFO", m, Rig!ERMAK_NOTIFY_TYPE_WEB_ALL) /\ Rig!Reports(q, Rig!RIG_OK)
      BY <1>5, <1>02, <2>3 DEF Rig!cbRigCTLSetVFO
    <3>2. /\ v \in ERMAK_VFO_MODE_t /\ v \in Int
          /\ v = IF q.parm[1].text = "VFOB" THEN Radio!ERMAK_VFO_MODE_B ELSE Radio!ERMAK_VFO_MODE_A
      BY <1>02, RadioErmak, Numbers
    <3>3. Radio!ToldByRig(answer', radio) = Radio!Turns("vfo", {v})
      <4>1. answer'.cmd = "set_vfo" /\ answer'.parm = q.parm
        BY <1>01, <2>0, <3>1
      <4>2. Len(q.parm) >= 1
        BY <1>02, <2>3
      <4> HIDE DEF v
      <4> QED BY <2>3, <3>2, <4>1, <4>2 DEF Radio!ToldByRig
    <3> HIDE DEF v
    <3>4. m \in Messages /\ m.w2 = v
      BY <3>2, Variants
    <3> HIDE DEF m
    <3>5. radio' = [radio EXCEPT !.vfo = v] /\ rigMsg' \in Messages
      <4>1. radio' = Perform(radio, "SWITCH_VFO", m) /\ rigMsg' \in Messages
        BY <3>1, <3>4, SendIs
      <4> QED BY <3>4, <4>1, Performs
    <3>6. radio' \in Settings /\ radio'.mode = radio.mode
      BY <3>2, <3>5, SettingsTurned DEF Settings
    <3>7. Radio!Obeyed(Radio!ToldByRig(answer', radio), radio, radio')
      BY <3>3, <3>5, ObeyedOne
    <3> QED BY <2>0, <3>1, <3>5, <3>6, <3>7, SettingHandled
  <2> QED BY <2>1, <2>2, <2>3
<1>6. CASE Rig!cbRigCTLSetMode(q)
  <2> DEFINE w    == IF Len(q.parm) = 3 THEN q.parm[2].text ELSE IF Len(q.parm) >= 1 THEN q.parm[1].text ELSE ""
             mode == Rig!rigctl_cvtStr2Mode(w)
             m    == Rig!ModeData(rigMsg, mode)
  <2>0. q.cmd = "set_mode"
    BY <1>6 DEF Rig!cbRigCTLSetMode
  <2>1. /\ mode = Unknown => Rig!Rejects(q, rigMsg)
        /\ mode # Unknown => /\ Rig!SendAndNotify("SET_MODE", m, Rig!ERMAK_NOTIFY_TYPE_WEB_ALL)
                             /\ Rig!Reports(q, Rig!RIG_OK)
    <3> DEFINE sent == IF Rig!Has(q, 3) THEN Rig!rigctl_cvtStr2Mode(Rig!Word(q, 2))
                       ELSE IF Rig!Has(q, 1) THEN Rig!rigctl_cvtStr2Mode(Rig!Word(q, 1)) ELSE Rig!Unknown
    <3>1. Rig!Has(q, 3) <=> Len(q.parm) = 3
      BY <1>03, <1>04
    <3>2. Rig!Has(q, 1) <=> Len(q.parm) >= 1
      BY <1>02
    <3>3. Rig!rigctl_cvtStr2Mode("") = Rig!Unknown
      BY WordToMode, Numbers DEF Words
    <3>4. sent = mode
      BY <1>02, <3>1, <3>2, <3>3
    <3>5. IF sent = Rig!Unknown THEN Rig!Rejects(q, rigMsg)
          ELSE /\ Rig!SendAndNotify("SET_MODE", Rig!ModeData(rigMsg, sent), Rig!ERMAK_NOTIFY_TYPE_WEB_ALL)
               /\ Rig!Reports(q, Rig!RIG_OK)
      BY <1>6 DEF Rig!cbRigCTLSetMode
    <3> HIDE DEF sent, mode
    <3> QED BY <3>4, <3>5, Numbers
  <2>2. Radio!ToldByRig(answer', radio) = IF w \in Words THEN Radio!Turns("mode", {Radio!ErmakMode[w]})
                                          ELSE Radio!Nothing
    <3>1. answer'.cmd = "set_mode" /\ answer'.parm = q.parm
      BY <1>01, <2>0, <2>1 DEF Rig!Rejects
    <3>2. w = IF Len(q.parm) = 3 THEN IF Len(q.parm) >= 2 THEN q.parm[2].text ELSE ""
              ELSE IF Len(q.parm) >= 1 THEN q.parm[1].text ELSE ""
      BY <1>04
    <3> HIDE DEF w
    <3> QED BY <3>1, <3>2, ErmakModes DEF Radio!ToldByRig
  <2>3. CASE w \notin Words
    <3>1. mode = Unknown
      BY <2>3, WordToMode
    <3>2. Rig!Rejects(q, rigMsg)
      BY <2>1, <3>1
    <3>3. Radio!ToldByRig(answer', radio) = Radio!Nothing
      BY <2>2, <2>3
    <3> QED BY <2>0, <3>2, <3>3, RejectHandled
  <2>4. CASE w \in Words
    <3>1. mode = Radio!ErmakMode[w] /\ mode \in ERMAK_MODE_t /\ mode # Unknown
      BY <2>4, WordToMode
    <3> HIDE DEF w, mode
    <3>2. mode \in Int
      BY <3>1 DEF ERMAK_MODE_t
    <3>3. m \in Messages /\ m.w1 = mode
      BY <3>2, Variants
    <3> HIDE DEF m
    <3>4. radio' = [radio EXCEPT !.mode = mode] /\ rigMsg' \in Messages
      <4>1. radio' = Perform(radio, "SET_MODE", m) /\ rigMsg' \in Messages
        BY <2>1, <3>1, <3>3, SendIs
      <4> QED BY <3>3, <4>1, Performs
    <3>5. radio' \in Settings /\ radio'.mode # Unknown
      BY <3>1, <3>4, SettingsTurned DEF Settings
    <3>6. Radio!Obeyed(Radio!ToldByRig(answer', radio), radio, radio')
      <4>1. mode \in {Radio!ErmakMode[w]}
        BY <3>1
      <4> QED BY <2>2, <2>4, <3>4, <4>1, ObeyedOne
    <3> QED BY <2>0, <2>1, <3>1, <3>4, <3>5, <3>6, SettingHandled
  <2> QED BY <2>3, <2>4
<1>7. CASE Rig!cbRigCTLSetSplitVFO(q)
  <2> DEFINE b == IF Rig!StartsWith1(q, 1) THEN Rig!ON ELSE Rig!OFF
             v == IF Rig!Has(q, 2) /\ Rig!Word(q, 2) = "VFOA" THEN Rig!ERMAK_VFO_MODE_A ELSE Rig!ERMAK_VFO_MODE_B
             m == Rig!KenwoodFT(rigMsg, b, v)
  <2>1. /\ q.cmd = "set_split_vfo"
        /\ Rig!SendAndNotify("SET_SPLIT", m, Rig!ERMAK_NOTIFY_TYPE_WEB_RXTX) /\ Rig!Reports(q, Rig!RIG_OK)
    BY <1>7 DEF Rig!cbRigCTLSetSplitVFO
  <2>2. /\ b \in Switch /\ b \in Int /\ Radio!Flag(Rig!StartsWith1(q, 1)) = {b}
        /\ v \in ERMAK_VFO_MODE_t /\ v \in Int
    BY Numbers, RadioErmak DEF Radio!Flag
  <2>3. Radio!ToldByRig(answer', radio) = [split |-> {b}, vfoS |-> {v}]
    <3>1. answer'.cmd = "set_split_vfo" /\ answer'.parm = q.parm
      BY <1>01, <2>1
    <3>2. Rig!StartsWith1(q, 1) <=> Len(q.parm) >= 1 /\ q.parm[1].lead = "1"
      BY <1>02 DEF Rig!StartsWith1
    <3>3. v = IF (IF Len(q.parm) >= 2 THEN q.parm[2].text ELSE "") = "VFOA"
              THEN Radio!ERMAK_VFO_MODE_A ELSE Radio!ERMAK_VFO_MODE_B
      BY <1>02, <1>03, RadioErmak, Numbers
    <3>4. Radio!Flag(Len(q.parm) >= 1 /\ q.parm[1].lead = "1") = {b}
      BY <2>2, <3>2 DEF Radio!Flag
    <3> HIDE DEF b, v
    <3> QED BY <3>1, <3>3, <3>4 DEF Radio!ToldByRig
  <2> HIDE DEF b, v
  <2>4. m \in Messages /\ m.w0 = b /\ m.w1 = v
    <3>1. /\ Rig!KenwoodFT(rigMsg, b, v) \in Messages /\ Rig!KenwoodFT(rigMsg, b, v).w0 = b
          /\ Rig!KenwoodFT(rigMsg, b, v).w1 = v
      BY <2>2 DEF Messages, Rig!KenwoodFT
    <3> QED BY <3>1
  <2> HIDE DEF m
  <2>5. radio' = [radio EXCEPT !.split = b, !.vfoS = v] /\ rigMsg' \in Messages
    <3>1. radio' = Perform(radio, "SET_SPLIT", m) /\ rigMsg' \in Messages
      BY <2>1, <2>4, SendIs
    <3> QED BY <2>4, <3>1, Performs
  <2>6. radio' \in Settings /\ radio'.mode = radio.mode
    BY <2>2, <2>5, SettingsTurned DEF Settings
  <2>7. Radio!Obeyed(Radio!ToldByRig(answer', radio), radio, radio')
    <3> DEFINE bs == {b}
               vs == {v}
    <3>1. b \in bs /\ v \in vs
      OBVIOUS
    <3> HIDE DEF bs, vs
    <3>2. Radio!Obeyed([split |-> bs, vfoS |-> vs], radio, [radio EXCEPT !.split = b, !.vfoS = v])
      BY <3>1, ObeyedSplit
    <3> QED BY <2>3, <2>5, <3>2 DEF bs, vs
  <2> QED BY <2>1, <2>5, <2>6, <2>7, SettingHandled
<1>8. CASE /\ Rig!cbRigCTLSetRit(q) \/ Rig!cbRigCTLSetXit(q)
           /\ q.parm = <<>>
  <2>1. q.cmd \in {"set_rit", "set_xit"} /\ Rig!Rejects(q, rigMsg)
    BY <1>8 DEF Rig!cbRigCTLSetRit, Rig!cbRigCTLSetXit
  <2>2. answer'.cmd = q.cmd /\ answer'.parm = q.parm
    BY <1>01, <2>1 DEF Rig!Rejects
  <2>3. Radio!ToldByRig(answer', radio) = Radio!Nothing
    BY <1>8, <2>1, <2>2 DEF Radio!ToldByRig
  <2> QED BY <2>1, <2>3, RejectHandled
<1>9. CASE Rig!cbRigCTLSetRit(q) /\ q.parm # <<>>
  <2> DEFINE v == q.parm[1].num
             m == [rigMsg EXCEPT !.w0 = v]
  <2>1. q.cmd = "set_rit" /\ Rig!Send("SET_RIT_FREQ", m) /\ Rig!Reports(q, Rig!RIG_OK)
    BY <1>02, <1>9 DEF Rig!cbRigCTLSetRit
  <2>2. v \in Int
    BY <1>02, <1>9
  <2>3. Radio!ToldByRig(answer', radio) = Radio!Turns("ritFreq", {v})
    BY <1>01, <1>9, <2>1 DEF Radio!ToldByRig
  <2> HIDE DEF v
  <2>4. m \in Messages /\ m.w0 = v
    BY <2>2, Variants
  <2> HIDE DEF m
  <2>5. radio' = [radio EXCEPT !.ritFreq = v] /\ rigMsg' \in Messages
    <3>1. radio' = Perform(radio, "SET_RIT_FREQ", m) /\ rigMsg' \in Messages
      BY <2>1, <2>4, SendIs
    <3> QED BY <2>4, <3>1, Performs
  <2>6. radio' \in Settings /\ radio'.mode = radio.mode
    BY <2>2, <2>5, SettingsTurned DEF Settings
  <2>7. Radio!Obeyed(Radio!ToldByRig(answer', radio), radio, radio')
    BY <2>3, <2>5, ObeyedOne
  <2> QED BY <2>1, <2>5, <2>6, <2>7, SettingHandled
<1>10. CASE Rig!cbRigCTLSetXit(q) /\ q.parm # <<>>
  <2> DEFINE v == q.parm[1].num
             m == [rigMsg EXCEPT !.w2 = v]
  <2>1. q.cmd = "set_xit" /\ Rig!Send("SET_XIT_FREQ", m) /\ Rig!Reports(q, Rig!RIG_OK)
    BY <1>02, <1>10 DEF Rig!cbRigCTLSetXit
  <2>2. v \in Int
    BY <1>02, <1>10
  <2>3. Radio!ToldByRig(answer', radio) = Radio!Turns("xitFreq", {v})
    BY <1>01, <1>10, <2>1 DEF Radio!ToldByRig
  <2> HIDE DEF v
  <2>4. m \in Messages /\ m.w2 = v
    BY <2>2, Variants
  <2> HIDE DEF m
  <2>5. radio' = [radio EXCEPT !.xitFreq = v] /\ rigMsg' \in Messages
    <3>1. radio' = Perform(radio, "SET_XIT_FREQ", m) /\ rigMsg' \in Messages
      BY <2>1, <2>4, SendIs
    <3> QED BY <2>4, <3>1, Performs
  <2>6. radio' \in Settings /\ radio'.mode = radio.mode
    BY <2>2, <2>5, SettingsTurned DEF Settings
  <2>7. Radio!Obeyed(Radio!ToldByRig(answer', radio), radio, radio')
    BY <2>3, <2>5, ObeyedOne
  <2> QED BY <2>1, <2>5, <2>6, <2>7, SettingHandled
<1>11. CASE Rig!cbRigCTLSetFunc(q)
  <2>0. q.cmd = "set_func"
    BY <1>11 DEF Rig!cbRigCTLSetFunc
  <2>1. CASE q.parm = <<>> /\ Rig!Rejects(q, rigMsg)
    <3>1. answer'.cmd = q.cmd /\ answer'.parm = q.parm
      BY <1>01, <2>1 DEF Rig!Rejects
    <3>2. Len(answer'.parm) = 0
      BY <2>1, <3>1
    <3>3. Radio!ToldByRig(answer', radio) = Radio!Nothing
      BY <2>0, <2>1, <3>1, <3>2 DEF Radio!ToldByRig
    <3> QED BY <2>0, <2>1, <3>3, RejectHandled
  <2>2. CASE Rig!Has(q, 1) /\ Rig!Word(q, 1) \in {"RIT", "XIT"}
    <3> DEFINE on  == Rig!Parm8(q) = 1
               v   == IF on THEN Rig!ON ELSE Rig!OFF
               rit == Rig!cbRigFuncSetRit(rigMsg, Rig!Parm8(q))
               xit == Rig!cbRigFuncSetXit(rigMsg, Rig!Parm8(q))
               knob == IF Rig!Word(q, 1) = "RIT" THEN "rit" ELSE "xit"
    <3>1. /\ Rig!Reports(q, Rig!RIG_OK)
          /\ \/ Rig!Word(q, 1) = "RIT" /\ Rig!Send("SET_RIT", rit)
             \/ Rig!Word(q, 1) = "XIT" /\ Rig!Send("SET_XIT", xit)
      BY <1>02, <1>11, <2>2 DEF Rig!cbRigCTLSetFunc
    <3>2. v \in Switch /\ v \in Int /\ Radio!Flag(on) = {v}
      BY Numbers, RadioErmak DEF Radio!Flag
    <3>3. Radio!ToldByRig(answer', radio) = Radio!Turns(knob, {v})
      <4>1. answer'.cmd = "set_func" /\ answer'.parm = q.parm
        BY <1>01, <2>0, <3>1
      <4>2. Len(q.parm) >= 1 /\ Rig!Word(q, 1) = q.parm[1].text
        BY <1>02, <2>2
      <4>3. on <=> Len(q.parm) > 1 /\ q.parm[2].num % 256 = 1
        <5>1. Rig!Has(q, 2) <=> Len(q.parm) > 1
          BY <1>03
        <5>2. (0 = 1) = FALSE
          OBVIOUS
        <5> QED BY <1>02, <5>1, <5>2 DEF Rig!Parm8
      <4>4. Radio!Flag(Len(q.parm) > 1 /\ q.parm[2].num % 256 = 1) = {v}
        BY <3>2, <4>3 DEF Radio!Flag
      <4> HIDE DEF v
      <4> QED BY <2>2, <4>1, <4>2, <4>4 DEF Radio!ToldByRig
    <3>4. /\ rit \in Messages /\ rit.w1 = v
          /\ xit \in Messages /\ xit.w3 = v
      <4>1. rit = [rigMsg EXCEPT !.w1 = v] /\ xit = [rigMsg EXCEPT !.w3 = v]
        BY DEF Rig!cbRigFuncSetRit, Rig!cbRigFuncSetXit
      <4> HIDE DEF v, rit, xit
      <4> QED BY <3>2, <4>1, Variants
    <3> HIDE DEF v, rit, xit
    <3>5. radio' = [radio EXCEPT ![knob] = v] /\ rigMsg' \in Messages
      <4>1. CASE Rig!Word(q, 1) = "RIT"
        <5>1. radio' = Perform(radio, "SET_RIT", rit) /\ rigMsg' \in Messages
          BY <3>1, <3>4, <4>1, SendIs
        <5>2. radio' = [radio EXCEPT !.rit = v]
          <6>1. Perform(radio, "SET_RIT", rit) = [radio EXCEPT !.rit = rit.w1]
            BY Performs
          <6> QED BY <3>4, <5>1, <6>1
        <5>3. knob = "rit"
          BY <4>1
        <5> HIDE DEF knob
        <5> QED BY <5>1, <5>2, <5>3
      <4>2. CASE Rig!Word(q, 1) = "XIT"
        <5>1. radio' = Perform(radio, "SET_XIT", xit) /\ rigMsg' \in Messages
          BY <3>1, <3>4, <4>2, SendIs
        <5>2. radio' = [radio EXCEPT !.xit = v]
          <6>1. Perform(radio, "SET_XIT", xit) = [radio EXCEPT !.xit = xit.w3]
            BY Performs
          <6> QED BY <3>4, <5>1, <6>1
        <5>3. knob = "xit"
          BY <4>2
        <5> HIDE DEF knob
        <5> QED BY <5>1, <5>2, <5>3
      <4> QED BY <2>2, <4>1, <4>2
    <3>6. radio' \in Settings /\ radio'.mode = radio.mode
      <4>1. knob = "rit" \/ knob = "xit"
        OBVIOUS
      <4> HIDE DEF knob
      <4> QED BY <3>2, <3>5, <4>1, SettingsTurned DEF Settings
    <3>7. Radio!Obeyed(Radio!ToldByRig(answer', radio), radio, radio')
      <4> HIDE DEF knob
      <4>1. v \in {v}
        OBVIOUS
      <4>2. Radio!Obeyed(Radio!Turns(knob, {v}), radio, [radio EXCEPT ![knob] = v])
        BY <4>1, ObeyedOne
      <4> QED BY <3>3, <3>5, <4>2
    <3> HIDE DEF knob
    <3>8. Rig!Reports(q, Rig!RIG_OK) /\ rigMsg' \in Messages
      BY <3>1, <3>5
    <3> QED BY <2>0, <3>6, <3>7, <3>8, SettingHandled
  <2>3. CASE /\ Rig!Has(q, 1) /\ Rig!Word(q, 1) \notin {"RIT", "XIT"}
             /\ UNCHANGED <<radio, rigMsg>>
             /\ Rig!Answer(q, IF Rig!Lead(q, 1) = "?" THEN Rig!Notes ELSE Rig!Nothing,
                              IF Rig!Lead(q, 1) = "?" \/ Rig!Word(q, 1) \in IdleFunctions THEN Rig!RIG_EEND
                              ELSE Rig!RIG_ENAVAIL)
    <3>1. answer'.cmd = "set_func" /\ answer'.parm = q.parm
      BY <2>0, <2>3, AnswerIs
    <3>2. Radio!ToldByRig(answer', radio) = Radio!Nothing
      <4>1. Len(q.parm) >= 1 /\ Rig!Word(q, 1) = q.parm[1].text
        BY <1>02, <2>3
      <4> QED BY <2>3, <3>1, <4>1 DEF Radio!ToldByRig
    <3>3. Radio!Obeyed(Radio!Told(answer', radio), radio, radio')
      BY <2>0, <2>3, <3>1, <3>2, ToldOf, ObeyedNone, ObeyedRig
    <3>4. Radio!Shown(answer', radio') = Radio!Nothing
      BY <3>1 DEF Radio!Shown
    <3>5. Radio!Shows(answer'.says, Radio!Shown(answer', radio'))
      BY <3>4 DEF Radio!Shows, Radio!Nothing
    <3>6. answer'.says = Rig!Nothing /\ answer'.rprt = Rig!RIG_EEND => Rig!Word(q, 1) \in IdleFunctions
      <4>1. Rig!Notes # Rig!Nothing
        <5>1. "ack" \in DOMAIN Rig!Notes /\ "ack" \notin DOMAIN Rig!Nothing
          BY DEF Rig!Notes, Rig!Nothing
        <5> QED BY <5>1
      <4>2. CASE Rig!Lead(q, 1) = "?"
        BY <2>3, <4>1, <4>2, AnswerIs
      <4>3. CASE Rig!Lead(q, 1) # "?"
        <5>1. Rig!Answer(q, Rig!Nothing, IF Rig!Word(q, 1) \in IdleFunctions THEN Rig!RIG_EEND ELSE Rig!RIG_ENAVAIL)
          BY <2>3, <4>3
        <5> QED BY <5>1, AnswerIs, Numbers
      <4> QED BY <4>2, <4>3
    <3> QED BY <2>0, <2>3, <3>1, <3>3, <3>5, <3>6 DEF RigHandled, Rig!Word
  <2> QED BY <1>11, <2>1, <2>2, <2>3 DEF Rig!cbRigCTLSetFunc
<1>12. q.cmd \notin Query
  BY DEF Query
<1> QED
  BY <1>1, <1>2, <1>3, <1>4, <1>5, <1>6, <1>7, <1>8, <1>9, <1>10, <1>11, <1>12
     DEF Query, Rig!rigctl_req, Rig!cbRigCTLChkVFO, Rig!cbRigCTLDumpState, Rig!cbRigCTLGetPowerState,
         Rig!cbRigCTLGetVFOinfo, Rig!cbRigCTLGetLockMode, Rig!cbRigCTLGetFreq, Rig!cbRigCTLGetVFO,
         Rig!cbRigCTLGetMode, Rig!cbRigCTLGetPTT, Rig!cbRigCTLGetSplitVFO, Rig!cbRigCTLGetSplitMode,
         Rig!cbRigCTLGetSplitFreq, Rig!cbRigCTLGetRit, Rig!cbRigCTLGetXit, Rig!cbRigCTLGetFullInfo,
         Rig!cbRigCTLSetSplitMode, Rig!cbRigCTLGetFunc, Rig!NotFound

----------------------------------------------------------------------------
(***************************************************************************)
(* The CAT handlers.                                                       *)
(***************************************************************************)

Gains    == [ai |-> parm_ai, af |-> parm_af, pwr |-> parm_pwr]
GainsOK  == parm_ai \in Int /\ parm_af \in Nat /\ parm_pwr \in 5..100

CatHandled(q) ==
    /\ radio' \in Settings /\ catMsg' \in Messages /\ GainsOK'
    /\ answer'.cmd = q.cmd /\ answer'.parm = q.parm /\ answer'.rprt = 0
    /\ Radio!Obeyed(Radio!ToldGains(answer'), Gains, Gains')
    /\ Radio!Obeyed(Radio!Told(answer', radio), radio, radio')
    /\ Radio!Shows(answer'.says, Radio!Shown(answer', radio'))

LEMMA CatSaysIs ==
    ASSUME NEW q, NEW says, Cat!Says(q, says)
    PROVE  answer'.cmd = q.cmd /\ answer'.parm = q.parm /\ answer'.says = says /\ answer'.rprt = 0
BY DEF Cat!Says

(* Gains that no handler touches, and that no request names.               *)
LEMMA GainsKept ==
    ASSUME GainsOK, UNCHANGED <<parm_ai, parm_af, parm_pwr>>
    PROVE  GainsOK' /\ Radio!Obeyed(Radio!Nothing, Gains, Gains')
<1>1. Gains' = Gains /\ GainsOK'
  BY DEF Gains, GainsOK
<1> QED BY <1>1, ObeyedNone

(* A request that turns no knob.                                           *)
LEMMA CatQueryHandled ==
    ASSUME radio \in Settings, GainsOK, NEW q, q.cmd \in CatCommand \cup {"other"}, radio' = radio,
           catMsg' \in Messages, UNCHANGED <<parm_ai, parm_af, parm_pwr>>, NEW says, Cat!Says(q, says),
           Radio!ToldByCat(answer', radio) = Radio!Nothing, Radio!ToldGains(answer') = Radio!Nothing,
           Radio!Shows(says, Radio!Shown(answer', radio'))
    PROVE  CatHandled(q)
<1>1. answer'.cmd = q.cmd /\ answer'.parm = q.parm /\ answer'.says = says /\ answer'.rprt = 0
  BY CatSaysIs
<1>2. Radio!ToldByRig(answer', radio) = Radio!Nothing
  <2>1. answer'.cmd \in Query \cup CatCommand
    BY <1>1 DEF Query
  <2> QED BY <2>1, ToldOf
<1>3. Radio!Obeyed(Radio!Told(answer', radio), radio, radio')
  BY <1>2, ObeyedNone, ObeyedCat
<1> QED BY <1>1, <1>3, GainsKept DEF CatHandled

(* One that turns a knob of the radio, and has nothing to show.            *)
LEMMA CatSettingHandled ==
    ASSUME radio \in Settings, GainsOK, NEW q, q.cmd \in CatCommand, radio' \in Settings,
           catMsg' \in Messages, UNCHANGED <<parm_ai, parm_af, parm_pwr>>, NEW says, Cat!Says(q, says),
           Radio!ToldGains(answer') = Radio!Nothing, Radio!Shown(answer', radio') = Radio!Nothing,
           Radio!Obeyed(Radio!ToldByCat(answer', radio), radio, radio')
    PROVE  CatHandled(q)
<1>1. answer'.cmd = q.cmd /\ answer'.parm = q.parm /\ answer'.says = says /\ answer'.rprt = 0
  BY CatSaysIs
<1>2. Radio!ToldByRig(answer', radio) = Radio!Nothing
  BY <1>1, ToldOf
<1>3. Radio!Obeyed(Radio!Told(answer', radio), radio, radio')
  BY <1>2, ObeyedCat
<1>4. Radio!Shows(answer'.says, Radio!Shown(answer', radio'))
  BY DEF Radio!Shows, Radio!Nothing
<1> QED BY <1>1, <1>3, <1>4, GainsKept DEF CatHandled

LEMMA CatAskIs ==
    ASSUME radio \in Settings, catMsg \in Messages, NEW q, NEW says, Cat!Reads(q, says)
    PROVE  /\ radio' = radio /\ catMsg' \in Messages /\ UNCHANGED <<parm_ai, parm_af, parm_pwr>>
           /\ Cat!Says(q, says)
<1>1. Cat!FullInfo(radio, catMsg) = FullInfo(radio, catMsg)
  BY CatErmak
<1>2. FullInfo(radio, catMsg) \in Messages
  BY Returns
<1> QED BY <1>1, <1>2 DEF Cat!Reads, Cat!Ask, Cat!parms

LEMMA CatSetsIs ==
    ASSUME radio \in Settings, NEW m \in Messages, NEW c, NEW q, NEW says, Cat!Sets(q, c, m, says)
    PROVE  /\ radio' = Perform(radio, c, m) /\ catMsg' \in Messages
           /\ UNCHANGED <<parm_ai, parm_af, parm_pwr>> /\ Cat!Says(q, says)
<1>1. Cat!Perform(radio, c, m) = Perform(radio, c, m) /\ Cat!Returned(radio, c, m) = Returned(radio, c, m)
  BY CatErmak
<1>2. Returned(radio, c, m) \in Messages
  BY Returns
<1> QED BY <1>1, <1>2 DEF Cat!Sets, Cat!Send, Cat!parms

LEMMA CatParmFacts ==
    ASSUME NEW q, Cat!IsRequest(q), q.parm # <<>>
    PROVE  /\ Len(q.parm) = 1
           /\ q.parm[1].lead \in Int /\ q.parm[1].num \in Int /\ q.parm[1].len \in Nat
           /\ q.cmd \in {"FA", "ZZFA", "FB", "ZZFB", "AG0", "AG", "ZZAG"} => q.parm[1].num \in Nat
<1>1. /\ q.parm \in Seq([lead : Int, num : Int, len : Nat]) /\ Len(q.parm) <= 1
      /\ q.cmd \in {"FA", "ZZFA", "FB", "ZZFB", "AG0", "AG", "ZZAG"} => \A i \in DOMAIN q.parm : q.parm[i].num \in Nat
  BY DEF Cat!IsRequest
<1> DEFINE T == [lead : Int, num : Int, len : Nat]
           s == q.parm
<1>2. s \in Seq(T) /\ s # <<>> /\ Len(s) <= 1
  BY <1>1
<1> HIDE DEF s, T
<1>3. Len(s) = 1 /\ 1 \in DOMAIN s /\ s[1] \in T
  <2>1. Len(s) \in Nat /\ DOMAIN s = 1..Len(s)
    BY <1>2
  <2>2. Len(s) # 0
    BY <1>2
  <2>3. Len(s) = 1
    BY <1>2, <2>1, <2>2
  <2> QED BY <1>2, <2>1, <2>3
<1> USE DEF s, T
<1> QED BY <1>1, <1>2, <1>3

(* The digits of the modes.                                                *)
LEMMA DigitToMode ==
    ASSUME NEW d
    PROVE  /\ Cat!cvtModeK2E(d) \in ERMAK_MODE_t \cup {Unknown} /\ Cat!cvtModeK2E(d) \in Int
           /\ Cat!cvtModeK2E(d) \in Radio!ModeOfDigit(d)
           /\ d \in {1, 2, 3, 4, 5, 6, 7, 9} => /\ Cat!cvtModeK2E(d) \in ERMAK_MODE_t
                                                /\ Cat!cvtModeE2K(Cat!cvtModeK2E(d)) = d
<1>1. Cat!cvtModeK2E(d) \in ERMAK_MODE_t \cup {Unknown} /\ Cat!cvtModeK2E(d) \in Int
  BY ModeNumbers, Numbers DEF ModeConstants, Cat!cvtModeK2E, ERMAK_MODE_t
<1>2. d \in {1, 2, 3, 4, 5, 6, 7, 9} => /\ Cat!cvtModeK2E(d) \in ERMAK_MODE_t
                                        /\ Cat!cvtModeE2K(Cat!cvtModeK2E(d)) = d
  BY ModeNumbers DEF ModeConstants, Cat!cvtModeK2E, Cat!cvtModeE2K, ERMAK_MODE_t
<1>3. ASSUME d \in {1, 2, 3, 4, 5, 6, 7, 9} PROVE Cat!cvtModeK2E(d) \in Radio!ModeOfDigit(d)
  <2>1. PICK w \in Words : Radio!Digit[w] = d /\ Radio!ErmakMode[w] = Cat!cvtModeK2E(d)
    <3> DEFINE w == CASE d = 1 -> "LSB" [] d = 2 -> "USB" [] d = 3 -> "CW" [] d = 4 -> "FM" [] d = 5 -> "AM"
                      [] d = 6 -> "PKTLSB" [] d = 7 -> "CWR" [] OTHER -> "PKTUSB"
    <3>1. w \in Words /\ Radio!Digit[w] = d /\ Radio!ErmakMode[w] = Cat!cvtModeK2E(d)
      BY <1>3, ErmakModes, ModeNumbers DEF ModeConstants, Words, Cat!cvtModeK2E
    <3> QED BY <3>1
  <2> QED BY <2>1, ErmakModes DEF Radio!ModeOfDigit
<1>4. ASSUME d \notin {1, 2, 3, 4, 5, 6, 7, 9} PROVE Cat!cvtModeK2E(d) \in Radio!ModeOfDigit(d)
  <2>1. Cat!cvtModeK2E(d) = Radio!Unknown
    BY <1>4, Numbers DEF Cat!cvtModeK2E
  <2>2. \A w \in Words : Radio!Digit[w] # d
    BY <1>4, ErmakModes DEF Words
  <2>3. Radio!ModeOfDigit(d) = {Radio!Unknown}
    BY <2>2, ErmakModes DEF Radio!ModeOfDigit
  <2> QED BY <2>1, <2>3
<1> QED BY <1>1, <1>2, <1>3, <1>4

(* What the requests name, and what their answers show.                    *)
LEMMA CatTold ==
    ASSUME NEW a, NEW r
    PROVE  /\ a.cmd \in {"FA", "ZZFA", "FB", "ZZFB", "FR", "FT", "MD", "RT", "XT"} /\ a.parm = <<>>
                => Radio!ToldByCat(a, r) = Radio!Nothing
           /\ a.cmd \in {"IF", "ID", "SM", "KS", "NB", "other", "AG0", "AG", "ZZAG", "AI", "PC"}
                => Radio!ToldByCat(a, r) = Radio!Nothing
           /\ a.cmd \in (CatCommand \cup {"other"}) \ {"AG0", "AG", "ZZAG", "AI", "PC"}
                => Radio!ToldGains(a) = Radio!Nothing
           /\ a.cmd \in {"FA", "ZZFA", "FB", "ZZFB", "FR", "FT", "MD", "RT", "XT"} /\ a.parm # <<>>
                => Radio!Shown(a, r) = Radio!Nothing
           /\ a.cmd \in {"RD", "RU", "RX", "TX", "ID", "SM", "KS", "NB", "other", "AG0", "AG", "ZZAG", "AI", "PC"}
                => Radio!Shown(a, r) = Radio!Nothing
<1>1. a.cmd \in {"FA", "ZZFA", "FB", "ZZFB", "FR", "FT", "MD", "RT", "XT"} /\ a.parm = <<>>
         => Radio!ToldByCat(a, r) = Radio!Nothing
  BY DEF Radio!ToldByCat
<1>2. a.cmd \in {"IF", "ID", "SM", "KS", "NB", "other", "AG0", "AG", "ZZAG", "AI", "PC"}
         => Radio!ToldByCat(a, r) = Radio!Nothing
  BY DEF Radio!ToldByCat
<1>3. a.cmd \in (CatCommand \cup {"other"}) \ {"AG0", "AG", "ZZAG", "AI", "PC"}
         => Radio!ToldGains(a) = Radio!Nothing
  BY DEF Radio!ToldGains, CatCommand
<1>4. a.cmd \in {"FA", "ZZFA", "FB", "ZZFB", "FR", "FT", "MD", "RT", "XT"} /\ a.parm # <<>>
         => Radio!Shown(a, r) = Radio!Nothing
  BY DEF Radio!Shown
<1>5. a.cmd \in {"RD", "RU", "RX", "TX", "ID", "SM", "KS", "NB", "other", "AG0", "AG", "ZZAG", "AI", "PC"}
         => Radio!Shown(a, r) = Radio!Nothing
  BY DEF Radio!Shown
<1> QED BY <1>1, <1>2, <1>3, <1>4, <1>5

(* The requests that ask.                                                  *)
LEMMA CatQueriesHandled ==
    ASSUME radio \in Settings, catMsg \in Messages, GainsOK, NEW q, q.parm = <<>>, Cat!commcat_req(q),
           q.cmd \in {"FA", "ZZFA", "FB", "ZZFB", "FR", "FT", "MD", "RT", "XT"}
    PROVE  CatHandled(q)
<1>1. PICK says : /\ Cat!Reads(q, says)
                  /\ \/ q.cmd \in {"FA", "ZZFA"} /\ says = [freq |-> Cat!VfoFreq(radio, Cat!ERMAK_VFO_MODE_A)]
                     \/ q.cmd \in {"FB", "ZZFB"} /\ says = [freq |-> Cat!VfoFreq(radio, Cat!ERMAK_VFO_MODE_B)]
                     \/ q.cmd = "FR" /\ says = [vfo |-> radio.vfo]
                     \/ q.cmd = "FT" /\ says = [vfo |-> radio.vfoS]
                     \/ q.cmd = "MD" /\ says = [mode |-> Cat!cvtModeE2K(radio.mode)]
                     \/ q.cmd = "RT" /\ says = [rit |-> radio.rit]
                     \/ q.cmd = "XT" /\ says = [xit |-> radio.xit]
  <2> Cat!None(q)
    BY DEF Cat!None
  <2> QED
    BY DEF Cat!commcat_req, Cat!cbReqFA, Cat!cbReqFB, Cat!cbReqFR, Cat!cbReqFT, Cat!cbReqIF, Cat!cbReqMD,
           Cat!cbReqRD, Cat!cbReqRU, Cat!cbReqRT, Cat!cbReqXT, Cat!cbReqRX, Cat!cbReqTX, Cat!cbReqAG0,
           Cat!cbReqAI, Cat!cbReqPC, Cat!cbReqIDorSM, Cat!cbReqKSorNB, Cat!NotFound, Cat!TunesVfo
<1>2. /\ radio' = radio /\ catMsg' \in Messages /\ UNCHANGED <<parm_ai, parm_af, parm_pwr>>
      /\ Cat!Says(q, says)
  BY <1>1, CatAskIs
<1>3. answer'.cmd = q.cmd /\ answer'.parm = <<>>
  BY <1>2, CatSaysIs
<1>4. Radio!Shows(says, Radio!Shown(answer', radio'))
  <2>1. CASE q.cmd \in {"FA", "ZZFA"}
    <3>1. Cat!VfoFreq(radio, Cat!ERMAK_VFO_MODE_A) = radio.freqA
      <4>1. Cat!VfoFreq(radio, Cat!ERMAK_VFO_MODE_A) = VfoFreq(radio, Cat!ERMAK_VFO_MODE_A)
        BY CatErmak
      <4>2. FreqOf(Cat!ERMAK_VFO_MODE_A) = "freqA"
        BY Numbers DEF FreqOf
      <4> QED BY <4>1, <4>2 DEF VfoFreq
    <3> QED BY <1>1, <1>2, <1>3, <2>1, <3>1 DEF Radio!Shows, Radio!Shown
  <2>2. CASE q.cmd \in {"FB", "ZZFB"}
    <3>1. Cat!VfoFreq(radio, Cat!ERMAK_VFO_MODE_B) = radio.freqB
      <4>1. Cat!VfoFreq(radio, Cat!ERMAK_VFO_MODE_B) = VfoFreq(radio, Cat!ERMAK_VFO_MODE_B)
        BY CatErmak
      <4>2. FreqOf(Cat!ERMAK_VFO_MODE_B) = "freqB"
        BY Numbers DEF FreqOf
      <4> QED BY <4>1, <4>2 DEF VfoFreq
    <3> QED BY <1>1, <1>2, <1>3, <2>2, <3>1 DEF Radio!Shows, Radio!Shown
  <2>3. CASE q.cmd \in {"FR", "FT", "RT", "XT"}
    BY <1>1, <1>2, <1>3, <2>3 DEF Radio!Shows, Radio!Shown
  <2>4. CASE q.cmd = "MD"
    <3>1. radio.mode \in ERMAK_MODE_t \cup {Unknown}
      BY DEF Settings
    <3> QED BY <1>1, <1>2, <1>3, <2>4, <3>1, ModeShown DEF Radio!Shows, Radio!Shown
  <2> QED BY <2>1, <2>2, <2>3, <2>4
<1>5. q.cmd \in CatCommand
  BY DEF CatCommand
<1>6. Radio!ToldByCat(answer', radio) = Radio!Nothing /\ Radio!ToldGains(answer') = Radio!Nothing
  BY <1>3, <1>5, CatTold
<1> QED BY <1>2, <1>4, <1>5, <1>6, CatQueryHandled

(* IF, and the requests that the radio has no part in.                     *)
LEMMA CatFixedHandled ==
    ASSUME radio \in Settings, catMsg \in Messages, GainsOK, NEW q, Cat!commcat_req(q),
           q.cmd \in {"IF", "ID", "SM", "KS", "NB", "other"}
    PROVE  CatHandled(q)
<1>1. q.cmd \in CatCommand \cup {"other"}
  BY DEF CatCommand
<1>2. \A says : Cat!Says(q, says) => /\ Radio!ToldByCat(answer', radio) = Radio!Nothing
                                     /\ Radio!ToldGains(answer') = Radio!Nothing
  <2> SUFFICES ASSUME NEW says, Cat!Says(q, says)
               PROVE  /\ Radio!ToldByCat(answer', radio) = Radio!Nothing
                      /\ Radio!ToldGains(answer') = Radio!Nothing
    OBVIOUS
  <2>1. answer'.cmd = q.cmd
    BY CatSaysIs
  <2> QED BY <1>1, <2>1, CatTold
<1>3. CASE q.cmd = "IF"
  <2> DEFINE says == Cat!SaysIF(radio)
  <2>1. Cat!Reads(q, says)
    BY <1>3 DEF Cat!commcat_req, Cat!cbReqFA, Cat!cbReqFB, Cat!cbReqFR, Cat!cbReqFT, Cat!cbReqIF, Cat!cbReqMD,
           Cat!cbReqRD, Cat!cbReqRU, Cat!cbReqRT, Cat!cbReqXT, Cat!cbReqRX, Cat!cbReqTX, Cat!cbReqAG0,
           Cat!cbReqAI, Cat!cbReqPC, Cat!cbReqIDorSM, Cat!cbReqKSorNB, Cat!NotFound
  <2>2. /\ radio' = radio /\ catMsg' \in Messages /\ UNCHANGED <<parm_ai, parm_af, parm_pwr>>
        /\ Cat!Says(q, says)
    BY <2>1, CatAskIs
  <2>3. Radio!Shows(says, Radio!Shown(answer', radio'))
    <3>1. answer'.cmd = "IF"
      BY <1>3, <2>2, CatSaysIs
    <3>2. Radio!Shown(answer', radio') = [freq |-> radio[Radio!FreqOf(radio.vfo)], ptt |-> radio.ptt,
                                          rit |-> radio.rit, xit |-> radio.xit, split |-> radio.split,
                                          mode |-> Radio!DigitOf(radio.mode),
                                          offset |-> Radio!Offset(radio), vfo |-> Radio!OnAir(radio)]
      BY <2>2, <3>1 DEF Radio!Shown
    <3>3. Cat!VfoFreq(radio, radio.vfo) = radio[Radio!FreqOf(radio.vfo)]
      BY CatErmak, VfoNames
    <3>4. Cat!cvtModeE2K(radio.mode) = Radio!DigitOf(radio.mode)
      BY ModeShown DEF Settings
    <3>5. says.offset = Radio!Offset(radio) /\ says.vfo = Radio!OnAir(radio)
      BY Numbers, RadioErmak DEF Cat!SaysIF, Radio!Offset, Radio!OnAir, Settings
    <3> QED BY <3>2, <3>3, <3>4, <3>5 DEF Radio!Shows, Cat!SaysIF
  <2> QED BY <1>1, <1>2, <2>2, <2>3, CatQueryHandled
<1>4. CASE q.cmd # "IF"
  <2>1. PICK says : Cat!Idle(q, says)
    BY <1>4 DEF Cat!commcat_req, Cat!cbReqFA, Cat!cbReqFB, Cat!cbReqFR, Cat!cbReqFT, Cat!cbReqIF, Cat!cbReqMD,
           Cat!cbReqRD, Cat!cbReqRU, Cat!cbReqRT, Cat!cbReqXT, Cat!cbReqRX, Cat!cbReqTX, Cat!cbReqAG0,
           Cat!cbReqAI, Cat!cbReqPC, Cat!cbReqIDorSM, Cat!cbReqKSorNB, Cat!NotFound
  <2>2. /\ radio' = radio /\ catMsg' \in Messages /\ UNCHANGED <<parm_ai, parm_af, parm_pwr>>
        /\ Cat!Says(q, says)
    BY <2>1 DEF Cat!Idle, Cat!parms
  <2>3. Radio!Shows(says, Radio!Shown(answer', radio'))
    <3>1. Radio!Shown(answer', radio') = Radio!Nothing
      BY <1>4, <2>2, CatSaysIs, CatTold
    <3> QED BY <3>1 DEF Radio!Shows, Radio!Nothing
  <2> QED BY <1>1, <1>2, <2>2, <2>3, CatQueryHandled
<1> QED BY <1>3, <1>4

(* The requests that set a knob to a value: each names it, sends a message *)
(* with the value in the word that its command reads, and turns it.        *)
Turned(k, v) == radio' = [radio EXCEPT ![k] = v] /\ radio' \in Settings

LEMMA CatTurnHandled ==
    ASSUME radio \in Settings, GainsOK, NEW q, q.cmd \in CatCommand \ {"AG0", "AG", "ZZAG", "AI", "PC"},
           catMsg' \in Messages, UNCHANGED <<parm_ai, parm_af, parm_pwr>>, NEW says, Cat!Says(q, says),
           Radio!Shown(answer', radio') = Radio!Nothing,
           NEW k, NEW v, Turned(k, v),
           \E vs : v \in vs /\ Radio!ToldByCat(answer', radio) = Radio!Turns(k, vs)
    PROVE  CatHandled(q)
<1>1. radio' = [radio EXCEPT ![k] = v] /\ radio' \in Settings
  BY DEF Turned
<1>2. Radio!ToldGains(answer') = Radio!Nothing
  <2>1. answer'.cmd = q.cmd
    BY CatSaysIs
  <2> QED BY <2>1, CatTold
<1>3. Radio!Obeyed(Radio!ToldByCat(answer', radio), radio, radio')
  <2>1. PICK vs : v \in vs /\ Radio!ToldByCat(answer', radio) = Radio!Turns(k, vs)
    OBVIOUS
  <2>2. Radio!Obeyed(Radio!Turns(k, vs), radio, [radio EXCEPT ![k] = v])
    BY <2>1, ObeyedOne
  <2> QED BY <1>1, <2>1, <2>2
<1>4. q.cmd \in CatCommand
  OBVIOUS
<1> QED BY <1>1, <1>2, <1>3, <1>4, CatSettingHandled

(* The words that a message is filled in with.                             *)
LEMMA CatVariants ==
    ASSUME NEW v \in Int, NEW w \in Int, NEW m \in Messages
    PROVE  /\ Cat!VfoData(m, v, w) \in Messages /\ Cat!VfoData(m, v, w).w0 = v /\ Cat!VfoData(m, v, w).w2 = w
           /\ Cat!KenwoodFT(m, v, w) \in Messages /\ Cat!KenwoodFT(m, v, w).w0 = v /\ Cat!KenwoodFT(m, v, w).w1 = w
<1>1. Cat!ERMAK_RX_MAIN \in Int
  BY DEF Cat!ERMAK_RX_MAIN
<1>2. Cat!VfoData(m, v, w) \in Messages /\ Cat!VfoData(m, v, w).w0 = v /\ Cat!VfoData(m, v, w).w2 = w
  BY <1>1 DEF Messages, Cat!VfoData
<1>3. Cat!KenwoodFT(m, v, w) \in Messages /\ Cat!KenwoodFT(m, v, w).w0 = v /\ Cat!KenwoodFT(m, v, w).w1 = w
  BY DEF Messages, Cat!KenwoodFT
<1> QED BY <1>2, <1>3

LEMMA CatWords ==
    ASSUME NEW v \in Int, NEW m \in Messages
    PROVE  /\ Cat!VfoOnly(m, v) \in Messages /\ Cat!VfoOnly(m, v).w2 = v
           /\ Cat!ModeData(m, v) \in Messages /\ Cat!ModeData(m, v).w1 = v
           /\ Cat!TransmittRx(m, v) \in Messages /\ Cat!TransmittRx(m, v).w0 = v
           /\ [m EXCEPT !.w0 = v] \in Messages /\ [m EXCEPT !.w0 = v].w0 = v
           /\ [m EXCEPT !.w1 = v] \in Messages /\ [m EXCEPT !.w1 = v].w1 = v
           /\ [m EXCEPT !.w3 = v] \in Messages /\ [m EXCEPT !.w3 = v].w3 = v
<1>1. Cat!ERMAK_RX_MAIN \in Int
  BY DEF Cat!ERMAK_RX_MAIN
<1>2. Cat!TransmittRx(m, v) \in Messages /\ Cat!TransmittRx(m, v).w0 = v
  BY <1>1 DEF Messages, Cat!TransmittRx
<1>3. /\ [m EXCEPT !.w0 = v] \in Messages /\ [m EXCEPT !.w0 = v].w0 = v
      /\ [m EXCEPT !.w1 = v] \in Messages /\ [m EXCEPT !.w1 = v].w1 = v
      /\ [m EXCEPT !.w3 = v] \in Messages /\ [m EXCEPT !.w3 = v].w3 = v
  BY DEF Messages
<1>4. /\ Cat!VfoOnly(m, v) \in Messages /\ Cat!VfoOnly(m, v).w2 = v
      /\ Cat!ModeData(m, v) \in Messages /\ Cat!ModeData(m, v).w1 = v
  BY DEF Messages, Cat!VfoOnly, Cat!ModeData
<1> QED BY <1>2, <1>3, <1>4

LEMMA CatTunesHandled ==
    ASSUME radio \in Settings, catMsg \in Messages, GainsOK, NEW q, Cat!IsRequest(q), q.parm # <<>>,
           Cat!cbReqFA(q) \/ Cat!cbReqFB(q)
    PROVE  CatHandled(q)
<1> DEFINE vfo == IF q.cmd \in {"FA", "ZZFA"} THEN Cat!ERMAK_VFO_MODE_A ELSE Cat!ERMAK_VFO_MODE_B
           v   == q.parm[1].num
           m   == Cat!VfoData(catMsg, v, vfo)
           k   == IF q.cmd \in {"FA", "ZZFA"} THEN "freqA" ELSE "freqB"
<1>1. q.cmd \in {"FA", "ZZFA", "FB", "ZZFB"} /\ Cat!Sets(q, "SET_VFO", m, Cat!Silence)
  BY DEF Cat!cbReqFA, Cat!cbReqFB, Cat!TunesVfo, Cat!None, Cat!Value
<1>2. v \in Nat /\ v \in Int /\ vfo \in Int /\ vfo \in ERMAK_VFO_MODE_t
  BY <1>1, CatParmFacts, Numbers
<1>3. FreqOf(vfo) = k /\ k \in Knobs
  BY Numbers DEF FreqOf, Knobs
<1>4. answer'.cmd = q.cmd /\ answer'.parm = q.parm
  BY <1>1, CatSaysIs DEF Cat!Sets
<1>5. \E vs : v \in vs /\ Radio!ToldByCat(answer', radio) = Radio!Turns(k, vs)
  <2>1. Radio!ToldByCat(answer', radio) = Radio!Turns(k, {v})
    BY <1>1, <1>4 DEF Radio!ToldByCat
  <2> QED BY <2>1
<1> HIDE DEF v, vfo, k
<1>6. m \in Messages /\ m.w0 = v /\ m.w2 = vfo
  BY <1>2, CatVariants
<1> HIDE DEF m
<1>7. /\ radio' = Perform(radio, "SET_VFO", m) /\ catMsg' \in Messages
      /\ UNCHANGED <<parm_ai, parm_af, parm_pwr>> /\ Cat!Says(q, Cat!Silence)
  BY <1>1, <1>6, CatSetsIs
<1>8. Turned(k, v)
  <2>1. Perform(radio, "SET_VFO", m) = [radio EXCEPT ![FreqOf(ermak_chk_vfo(radio, m))] = m.w0]
    BY Performs
  <2>2. ermak_chk_vfo(radio, m) = vfo
    BY <1>2, <1>6 DEF ermak_chk_vfo
  <2>3. [radio EXCEPT ![k] = v] \in Settings
    BY <1>2, <1>3, SettingsTurned
  <2> QED BY <1>3, <1>6, <1>7, <2>1, <2>2, <2>3 DEF Turned
<1>9. Radio!Shown(answer', radio') = Radio!Nothing
  BY <1>1, <1>4, CatTold
<1>10. q.cmd \in CatCommand \ {"AG0", "AG", "ZZAG", "AI", "PC"}
  BY <1>1 DEF CatCommand
<1>11. k # "mode"
  BY DEF k
<1> QED BY <1>5, <1>7, <1>8, <1>9, <1>10, <1>11, CatTurnHandled

LEMMA CatSwitchesHandled ==
    ASSUME radio \in Settings, catMsg \in Messages, GainsOK, NEW q, Cat!IsRequest(q), q.parm # <<>>,
           Cat!cbReqFR(q) \/ Cat!cbReqMD(q) \/ Cat!cbReqRT(q) \/ Cat!cbReqXT(q)
    PROVE  CatHandled(q)
<1>0. /\ q.parm[1].lead \in Int /\ q.parm[1].num \in Int
      /\ ~Cat!None(q) /\ Cat!Lead(q) = q.parm[1].lead /\ Cat!Value(q) = q.parm[1].num
  BY CatParmFacts DEF Cat!None, Cat!Lead, Cat!Value
<1>1. q.cmd \in CatCommand \ {"AG0", "AG", "ZZAG", "AI", "PC"} /\ q.cmd \in {"FR", "MD", "RT", "XT"}
  BY DEF CatCommand, Cat!cbReqFR, Cat!cbReqMD, Cat!cbReqRT, Cat!cbReqXT
<1>2. \A says : Cat!Says(q, says) => /\ answer'.cmd = q.cmd /\ answer'.parm = q.parm
                                     /\ Radio!Shown(answer', radio') = Radio!Nothing
                                     /\ Radio!ToldGains(answer') = Radio!Nothing
  <2> SUFFICES ASSUME NEW says, Cat!Says(q, says)
               PROVE  /\ answer'.cmd = q.cmd /\ answer'.parm = q.parm
                      /\ Radio!Shown(answer', radio') = Radio!Nothing
                      /\ Radio!ToldGains(answer') = Radio!Nothing
    OBVIOUS
  <2>1. answer'.cmd = q.cmd /\ answer'.parm = q.parm
    BY CatSaysIs
  <2> QED BY <1>1, <2>1, CatTold
<1>3. CASE Cat!cbReqFR(q)
  <2> DEFINE v == q.parm[1].lead
             m == Cat!VfoOnly(catMsg, v)
  <2>1. CASE v \in ERMAK_VFO_MODE_t
    <3>1. q.cmd = "FR" /\ Cat!Sets(q, "SWITCH_VFO", m, Cat!Silence)
      BY <1>0, <1>3, <2>1, Numbers DEF Cat!cbReqFR
    <3>2. answer'.cmd = "FR" /\ answer'.parm = q.parm
      BY <1>2, <3>1 DEF Cat!Sets
    <3>3. Radio!ToldByCat(answer', radio) = Radio!Turns("vfo", {v})
      BY <2>1, <3>2, RadioErmak DEF Radio!ToldByCat
    <3>4. \E vs : v \in vs /\ Radio!ToldByCat(answer', radio) = Radio!Turns("vfo", vs)
      BY <3>3
    <3> HIDE DEF v
    <3>5. v \in Int
      BY <1>0 DEF v
    <3>6. m \in Messages /\ m.w2 = v
      BY <3>5, CatWords
    <3> HIDE DEF m
    <3>7. /\ radio' = Perform(radio, "SWITCH_VFO", m) /\ catMsg' \in Messages
          /\ UNCHANGED <<parm_ai, parm_af, parm_pwr>> /\ Cat!Says(q, Cat!Silence)
      BY <3>1, <3>6, CatSetsIs
    <3>8. Turned("vfo", v)
      <4>1. Perform(radio, "SWITCH_VFO", m) = [radio EXCEPT !.vfo = m.w2]
        BY Performs
      <4>2. [radio EXCEPT !.vfo = v] \in Settings
        BY <2>1, SettingsTurned
      <4> QED BY <3>6, <3>7, <4>1, <4>2 DEF Turned
    <3> QED BY <1>1, <1>2, <3>4, <3>7, <3>8, CatTurnHandled
  <2>2. CASE v \notin ERMAK_VFO_MODE_t
    <3>1. q.cmd = "FR" /\ Cat!Idle(q, Cat!Silence)
      BY <1>0, <1>3, <2>2, Numbers DEF Cat!cbReqFR
    <3>2. /\ radio' = radio /\ catMsg' \in Messages /\ UNCHANGED <<parm_ai, parm_af, parm_pwr>>
          /\ Cat!Says(q, Cat!Silence)
      BY <3>1 DEF Cat!Idle, Cat!parms
    <3>3. answer'.cmd = "FR" /\ answer'.parm = q.parm
      BY <1>2, <3>1, <3>2
    <3>4. Radio!ToldByCat(answer', radio) = Radio!Nothing
      BY <2>2, <3>3, RadioErmak DEF Radio!ToldByCat
    <3>5. Radio!Shows(Cat!Silence, Radio!Shown(answer', radio'))
      BY <1>2, <3>2 DEF Radio!Shows, Radio!Nothing
    <3> QED BY <1>1, <1>2, <3>2, <3>4, <3>5, CatQueryHandled
  <2> QED BY <2>1, <2>2
<1>4. CASE Cat!cbReqMD(q)
  <2> DEFINE d == q.parm[1].num
             v == Cat!cvtModeK2E(d)
             m == Cat!ModeData(catMsg, v)
  <2>1. q.cmd = "MD" /\ Cat!Sets(q, "SET_MODE", m, Cat!Silence)
    BY <1>0, <1>4 DEF Cat!cbReqMD
  <2>2. answer'.cmd = "MD" /\ answer'.parm = q.parm
    BY <1>2, <2>1 DEF Cat!Sets
  <2>3. v \in ERMAK_MODE_t \cup {Unknown} /\ v \in Int
    BY DigitToMode
  <2>4. \E vs : v \in vs /\ Radio!ToldByCat(answer', radio) = Radio!Turns("mode", vs)
    <3>1. Radio!ToldByCat(answer', radio) = Radio!Turns("mode", Radio!ModeOfDigit(d))
      BY <2>2 DEF Radio!ToldByCat
    <3>2. v \in Radio!ModeOfDigit(d)
      BY DigitToMode
    <3> QED BY <3>1, <3>2
  <2> HIDE DEF v
  <2>5. m \in Messages /\ m.w1 = v
    BY <2>3, CatWords
  <2> HIDE DEF m
  <2>6. /\ radio' = Perform(radio, "SET_MODE", m) /\ catMsg' \in Messages
        /\ UNCHANGED <<parm_ai, parm_af, parm_pwr>> /\ Cat!Says(q, Cat!Silence)
    BY <2>1, <2>5, CatSetsIs
  <2>7. Turned("mode", v)
    <3>1. Perform(radio, "SET_MODE", m) = [radio EXCEPT !.mode = m.w1]
      BY Performs
    <3>2. [radio EXCEPT !.mode = v] \in Settings
      BY <2>3, SettingsTurned
    <3> QED BY <2>5, <2>6, <3>1, <3>2 DEF Turned
  <2> QED BY <1>1, <1>2, <2>4, <2>6, <2>7, CatTurnHandled
<1>5. CASE Cat!cbReqRT(q)
  <2> DEFINE v == Cat!IsOne(q)
             m == [catMsg EXCEPT !.w1 = v]
  <2>1. q.cmd = "RT" /\ Cat!Sets(q, "SET_RIT", m, Cat!Silence)
    BY <1>0, <1>5 DEF Cat!cbReqRT
  <2>2. answer'.cmd = "RT" /\ answer'.parm = q.parm
    BY <1>2, <2>1 DEF Cat!Sets
  <2>3. v \in Switch /\ v \in Int /\ v \in Radio!Flag(q.parm[1].lead = 1)
    BY <1>0, Numbers, RadioErmak DEF Cat!IsOne, Radio!Flag
  <2>4. \E vs : v \in vs /\ Radio!ToldByCat(answer', radio) = Radio!Turns("rit", vs)
    <3>1. Radio!ToldByCat(answer', radio) = Radio!Turns("rit", Radio!Flag(q.parm[1].lead = 1))
      BY <2>2 DEF Radio!ToldByCat
    <3> QED BY <2>3, <3>1
  <2> HIDE DEF v
  <2>5. m \in Messages /\ m.w1 = v
    BY <2>3, CatWords
  <2> HIDE DEF m
  <2>6. /\ radio' = Perform(radio, "SET_RIT", m) /\ catMsg' \in Messages
        /\ UNCHANGED <<parm_ai, parm_af, parm_pwr>> /\ Cat!Says(q, Cat!Silence)
    BY <2>1, <2>5, CatSetsIs
  <2>7. Turned("rit", v)
    <3>1. Perform(radio, "SET_RIT", m) = [radio EXCEPT !.rit = m.w1]
      BY Performs
    <3>2. [radio EXCEPT !.rit = v] \in Settings
      BY <2>3, SettingsTurned
    <3> QED BY <2>5, <2>6, <3>1, <3>2 DEF Turned
  <2> QED BY <1>1, <1>2, <2>4, <2>6, <2>7, CatTurnHandled
<1>6. CASE Cat!cbReqXT(q)
  <2> DEFINE v == Cat!IsOne(q)
             m == [catMsg EXCEPT !.w3 = v]
  <2>1. q.cmd = "XT" /\ Cat!Sets(q, "SET_XIT", m, Cat!Silence)
    BY <1>0, <1>6 DEF Cat!cbReqXT
  <2>2. answer'.cmd = "XT" /\ answer'.parm = q.parm
    BY <1>2, <2>1 DEF Cat!Sets
  <2>3. v \in Switch /\ v \in Int /\ v \in Radio!Flag(q.parm[1].lead = 1)
    BY <1>0, Numbers, RadioErmak DEF Cat!IsOne, Radio!Flag
  <2>4. \E vs : v \in vs /\ Radio!ToldByCat(answer', radio) = Radio!Turns("xit", vs)
    <3>1. Radio!ToldByCat(answer', radio) = Radio!Turns("xit", Radio!Flag(q.parm[1].lead = 1))
      BY <2>2 DEF Radio!ToldByCat
    <3> QED BY <2>3, <3>1
  <2> HIDE DEF v
  <2>5. m \in Messages /\ m.w3 = v
    BY <2>3, CatWords
  <2> HIDE DEF m
  <2>6. /\ radio' = Perform(radio, "SET_XIT", m) /\ catMsg' \in Messages
        /\ UNCHANGED <<parm_ai, parm_af, parm_pwr>> /\ Cat!Says(q, Cat!Silence)
    BY <2>1, <2>5, CatSetsIs
  <2>7. Turned("xit", v)
    <3>1. Perform(radio, "SET_XIT", m) = [radio EXCEPT !.xit = m.w3]
      BY Performs
    <3>2. [radio EXCEPT !.xit = v] \in Settings
      BY <2>3, SettingsTurned
    <3> QED BY <2>5, <2>6, <3>1, <3>2 DEF Turned
  <2> QED BY <1>1, <1>2, <2>4, <2>6, <2>7, CatTurnHandled
<1> QED BY <1>3, <1>4, <1>5, <1>6

(* The keys: RX and TX always, RU and RD unless the limit is near.         *)
LEMMA CatKeysHandled ==
    ASSUME radio \in Settings, catMsg \in Messages, GainsOK, NEW q, Cat!IsRequest(q),
           Cat!cbReqRX(q) \/ Cat!cbReqTX(q) \/ Cat!cbReqRU(q) \/ Cat!cbReqRD(q)
    PROVE  CatHandled(q)
<1>1. q.cmd \in CatCommand \ {"AG0", "AG", "ZZAG", "AI", "PC"} /\ q.cmd \in {"RX", "TX", "RU", "RD"}
  BY DEF CatCommand, Cat!cbReqRX, Cat!cbReqTX, Cat!cbReqRU, Cat!cbReqRD
<1>2. \A says : Cat!Says(q, says) => /\ answer'.cmd = q.cmd /\ answer'.parm = q.parm
                                     /\ Radio!Shown(answer', radio') = Radio!Nothing
                                     /\ Radio!ToldGains(answer') = Radio!Nothing
  <2> SUFFICES ASSUME NEW says, Cat!Says(q, says)
               PROVE  /\ answer'.cmd = q.cmd /\ answer'.parm = q.parm
                      /\ Radio!Shown(answer', radio') = Radio!Nothing
                      /\ Radio!ToldGains(answer') = Radio!Nothing
    OBVIOUS
  <2>1. answer'.cmd = q.cmd /\ answer'.parm = q.parm
    BY CatSaysIs
  <2> QED BY <1>1, <2>1, CatTold
<1>3. CASE Cat!cbReqRX(q) \/ Cat!cbReqTX(q)
  <2> DEFINE v == IF q.cmd = "RX" THEN Cat!OFF ELSE Cat!ON
             m == Cat!TransmittRx(catMsg, v)
  <2>1. PICK says : Cat!Sets(q, "SET_TRANSMITT_RX", m, says) /\ q.cmd \in {"RX", "TX"}
    BY <1>3 DEF Cat!cbReqRX, Cat!cbReqTX
  <2>2. answer'.cmd = q.cmd
    BY <1>2, <2>1 DEF Cat!Sets
  <2>3. v \in Switch /\ v \in Int
    BY Numbers
  <2>4. \E vs : v \in vs /\ Radio!ToldByCat(answer', radio) = Radio!Turns("ptt", vs)
    <3>1. v = IF q.cmd = "RX" THEN OFF ELSE ON
      BY Numbers
    <3> HIDE DEF v
    <3>2. Radio!ToldByCat(answer', radio) = Radio!Turns("ptt", {v})
      BY <2>1, <2>2, <3>1, RadioErmak DEF Radio!ToldByCat
    <3> QED BY <3>2
  <2> HIDE DEF v
  <2>5. m \in Messages /\ m.w0 = v
    BY <2>3, CatWords
  <2> HIDE DEF m
  <2>6. /\ radio' = Perform(radio, "SET_TRANSMITT_RX", m) /\ catMsg' \in Messages
        /\ UNCHANGED <<parm_ai, parm_af, parm_pwr>> /\ Cat!Says(q, says)
    BY <2>1, <2>5, CatSetsIs
  <2>7. Turned("ptt", v)
    <3>1. Perform(radio, "SET_TRANSMITT_RX", m) = [radio EXCEPT !.ptt = m.w0]
      BY Performs
    <3>2. [radio EXCEPT !.ptt = v] \in Settings
      BY <2>3, SettingsTurned
    <3> QED BY <2>5, <2>6, <3>1, <3>2 DEF Turned
  <2> QED BY <1>1, <1>2, <2>4, <2>6, <2>7, CatTurnHandled
<1>4. CASE Cat!cbReqRU(q) \/ Cat!cbReqRD(q)
  <2> DEFINE step == Cat!Step(q)
             v    == IF q.cmd = "RU" THEN radio.ritFreq + step ELSE radio.ritFreq - step
             ok   == IF q.cmd = "RU" THEN radio.ritFreq + step < RitLimit ELSE radio.ritFreq - step > -RitLimit
             m    == Cat!RitFreq(v)
  <2>1. /\ q.cmd \in {"RU", "RD"}
        /\ ok => Cat!Sets(q, "SET_RIT_FREQ", m, Cat!Silence)
        /\ ~ok => Cat!Reads(q, Cat!Silence)
    BY <1>4 DEF Cat!cbReqRU, Cat!cbReqRD
  <2>2. /\ step \in Int /\ v \in Int
        /\ step = IF q.parm # <<>> /\ q.parm[1].len = 5 THEN q.parm[1].num ELSE 1
    <3>1. step = IF q.parm # <<>> /\ q.parm[1].len = 5 THEN q.parm[1].num ELSE 1
      BY DEF Cat!Step, Cat!None, Cat!Value
    <3>2. step \in Int
      BY <3>1, CatParmFacts
    <3>3. radio.ritFreq \in Int
      BY DEF Settings
    <3> HIDE DEF step
    <3> QED BY <3>1, <3>2, <3>3
  <2>3. answer'.cmd = q.cmd /\ answer'.parm = q.parm
    BY <1>2, <2>1 DEF Cat!Sets, Cat!Reads
  <2>4. Radio!ToldByCat(answer', radio) = IF ok THEN Radio!Turns("ritFreq", {v}) ELSE Radio!Nothing
    <3> HIDE DEF step
    <3>1. radio.ritFreq \in Int /\ RitLimit \in Int
      BY RequestsAssumption DEF Settings
    <3>2. CASE q.cmd = "RU"
      <4>1. Radio!ToldByCat(answer', radio) = Radio!Stepped(answer', radio, 1)
        BY <2>3, <3>2 DEF Radio!ToldByCat
      <4>2. radio.ritFreq + 1 * step = radio.ritFreq + step /\ 1 * (radio.ritFreq + step) = radio.ritFreq + step
        BY <2>2, <3>1
      <4> QED BY <2>2, <2>3, <3>2, <4>1, <4>2 DEF Radio!Stepped
    <3>3. CASE q.cmd = "RD"
      <4>1. Radio!ToldByCat(answer', radio) = Radio!Stepped(answer', radio, -1)
        BY <2>3, <3>3 DEF Radio!ToldByCat
      <4>2. /\ radio.ritFreq + (-1) * step = radio.ritFreq - step
            /\ (-1) * (radio.ritFreq - step) < RitLimit <=> radio.ritFreq - step > -RitLimit
        BY <2>2, <3>1
      <4> QED BY <2>2, <2>3, <3>3, <4>1, <4>2 DEF Radio!Stepped
    <3> QED BY <2>1, <3>2, <3>3
  <2>5. CASE ok
    <3>1. \E vs : v \in vs /\ Radio!ToldByCat(answer', radio) = Radio!Turns("ritFreq", vs)
      BY <2>4, <2>5
    <3>2. Cat!Sets(q, "SET_RIT_FREQ", m, Cat!Silence)
      BY <2>1, <2>5
    <3> HIDE DEF v
    <3>3. m \in Messages /\ m.w0 = v
      <4>1. Cat!FullInfo(radio, catMsg) = FullInfo(radio, catMsg)
        BY CatErmak
      <4>2. Cat!FullInfo(radio, catMsg) \in Messages
        BY <4>1, Returns
      <4> QED BY <2>2, <4>2, CatWords DEF Cat!RitFreq
    <3> HIDE DEF m
    <3>4. /\ radio' = Perform(radio, "SET_RIT_FREQ", m) /\ catMsg' \in Messages
          /\ UNCHANGED <<parm_ai, parm_af, parm_pwr>> /\ Cat!Says(q, Cat!Silence)
      BY <3>2, <3>3, CatSetsIs
    <3>5. Turned("ritFreq", v)
      <4>1. Perform(radio, "SET_RIT_FREQ", m) = [radio EXCEPT !.ritFreq = m.w0]
        BY Performs
      <4>2. [radio EXCEPT !.ritFreq = v] \in Settings
        BY <2>2, SettingsTurned
      <4> QED BY <3>3, <3>4, <4>1, <4>2 DEF Turned
    <3> QED BY <1>1, <1>2, <3>1, <3>4, <3>5, CatTurnHandled
  <2>6. CASE ~ok
    <3>1. /\ radio' = radio /\ catMsg' \in Messages /\ UNCHANGED <<parm_ai, parm_af, parm_pwr>>
          /\ Cat!Says(q, Cat!Silence)
      BY <2>1, <2>6, CatAskIs
    <3>2. Radio!ToldByCat(answer', radio) = Radio!Nothing
      BY <2>4, <2>6
    <3>3. Radio!Shows(Cat!Silence, Radio!Shown(answer', radio'))
      BY <1>2, <3>1 DEF Radio!Shows, Radio!Nothing
    <3> QED BY <1>1, <1>2, <3>1, <3>2, <3>3, CatQueryHandled
  <2> QED BY <2>5, <2>6
<1> QED BY <1>3, <1>4

(* The transmitting VFO, and split with it.                                *)
LEMMA CatSplitHandled ==
    ASSUME radio \in Settings, catMsg \in Messages, GainsOK, NEW q, Cat!IsRequest(q), q.parm # <<>>, Cat!cbReqFT(q)
    PROVE  CatHandled(q)
<1> DEFINE v == q.parm[1].lead
           b == IF radio.vfo # v THEN Cat!ON ELSE Cat!OFF
           f == Cat!FullInfo(radio, catMsg)
           m == Cat!KenwoodFT(f, b, v)
<1>1. /\ q.cmd = "FT" /\ q.cmd \in CatCommand \ {"AG0", "AG", "ZZAG", "AI", "PC"}
      /\ v \in ERMAK_VFO_MODE_t => Cat!Sets(q, "SET_SPLIT", m, Cat!Silence)
      /\ v \notin ERMAK_VFO_MODE_t => Cat!Reads(q, Cat!Silence)
  BY Numbers DEF CatCommand, Cat!cbReqFT, Cat!None, Cat!Lead
<1>2. answer'.cmd = "FT" /\ answer'.parm = q.parm
  BY <1>1, CatSaysIs DEF Cat!Sets, Cat!Reads
<1>3. Radio!ToldByCat(answer', radio) = IF v \in ERMAK_VFO_MODE_t
                                        THEN [split |-> Radio!Flag(radio.vfo # v), vfoS |-> {v}]
                                        ELSE Radio!Nothing
  BY <1>2, RadioErmak DEF Radio!ToldByCat
<1>4. Radio!Shown(answer', radio') = Radio!Nothing /\ Radio!ToldGains(answer') = Radio!Nothing
  BY <1>1, <1>2, CatTold
<1>5. CASE v \in ERMAK_VFO_MODE_t
  <2> DEFINE bs == Radio!Flag(radio.vfo # v)
             vs == {v}
  <2>1. b \in Switch /\ b \in Int /\ b \in bs /\ v \in vs
    BY Numbers, RadioErmak DEF Radio!Flag
  <2>2. v \in Int
    BY CatParmFacts
  <2>3. Radio!ToldByCat(answer', radio) = [split |-> bs, vfoS |-> vs]
    BY <1>3, <1>5
  <2>4. f \in Messages
    <3>1. f = FullInfo(radio, catMsg)
      BY CatErmak
    <3> QED BY <3>1, Returns
  <2> HIDE DEF v, b, f, bs, vs
  <2>5. m \in Messages /\ m.w0 = b /\ m.w1 = v
    BY <2>1, <2>2, <2>4, CatVariants
  <2> HIDE DEF m
  <2>6. Cat!Sets(q, "SET_SPLIT", m, Cat!Silence)
    BY <1>1, <1>5
  <2>7. /\ radio' = Perform(radio, "SET_SPLIT", m) /\ catMsg' \in Messages
        /\ UNCHANGED <<parm_ai, parm_af, parm_pwr>> /\ Cat!Says(q, Cat!Silence)
    BY <2>5, <2>6, CatSetsIs
  <2>8. radio' = [radio EXCEPT !.split = b, !.vfoS = v]
    <3>1. Perform(radio, "SET_SPLIT", m) = [radio EXCEPT !.split = m.w0, !.vfoS = m.w1]
      BY Performs
    <3> QED BY <2>5, <2>7, <3>1
  <2>9. radio' \in Settings /\ radio'.mode = radio.mode
    BY <1>5, <2>1, <2>8, SettingsTurned DEF Settings
  <2>10. Radio!Obeyed(Radio!ToldByCat(answer', radio), radio, radio')
    <3>1. Radio!Obeyed([split |-> bs, vfoS |-> vs], radio, [radio EXCEPT !.split = b, !.vfoS = v])
      BY <2>1, ObeyedSplit
    <3> QED BY <2>3, <2>8, <3>1
  <2>11. q.cmd \in CatCommand
    BY <1>1
  <2> QED BY <1>4, <2>7, <2>9, <2>10, <2>11, CatSettingHandled
<1>6. CASE v \notin ERMAK_VFO_MODE_t
  <2>1. /\ radio' = radio /\ catMsg' \in Messages /\ UNCHANGED <<parm_ai, parm_af, parm_pwr>>
        /\ Cat!Says(q, Cat!Silence)
    BY <1>1, <1>6, CatAskIs
  <2>2. Radio!ToldByCat(answer', radio) = Radio!Nothing
    BY <1>3, <1>6
  <2>3. Radio!Shows(Cat!Silence, Radio!Shown(answer', radio'))
    BY <1>4 DEF Radio!Shows, Radio!Nothing
  <2> QED BY <1>1, <1>4, <2>1, <2>2, <2>3, CatQueryHandled
<1> QED BY <1>5, <1>6

(* The gains.                                                              *)
LEMMA CatGainsHandled ==
    ASSUME radio \in Settings, catMsg \in Messages, GainsOK, NEW q, Cat!IsRequest(q),
           Cat!cbReqAG0(q) \/ Cat!cbReqAI(q) \/ Cat!cbReqPC(q)
    PROVE  CatHandled(q)
<1>1. q.cmd \in CatCommand /\ q.cmd \in {"AG0", "AG", "ZZAG", "AI", "PC"}
  BY DEF CatCommand, Cat!cbReqAG0, Cat!cbReqAI, Cat!cbReqPC
<1>2. /\ radio' = radio /\ catMsg' = catMsg
      /\ \E says : Cat!Says(q, says)
      /\ q.parm = <<>> => UNCHANGED <<parm_ai, parm_af, parm_pwr>>
      /\ q.parm # <<>> => CASE q.cmd \in {"AG0", "AG", "ZZAG"} -> parm_af' = q.parm[1].num /\ UNCHANGED <<parm_ai, parm_pwr>>
                            [] q.cmd = "AI" -> parm_ai' = q.parm[1].lead /\ UNCHANGED <<parm_af, parm_pwr>>
                            [] q.cmd = "PC" -> parm_pwr' = Cat!PowerFor(q.parm[1].num) /\ UNCHANGED <<parm_ai, parm_af>>
  BY DEF Cat!cbReqAG0, Cat!cbReqAI, Cat!cbReqPC, Cat!Idle, Cat!parms, Cat!None, Cat!Value, Cat!Lead
<1>3. answer'.cmd = q.cmd /\ answer'.parm = q.parm /\ answer'.rprt = 0
  BY <1>2, CatSaysIs
<1>4. Radio!Obeyed(Radio!Told(answer', radio), radio, radio')
  <2>1. Radio!ToldByCat(answer', radio) = Radio!Nothing
    BY <1>1, <1>3, CatTold
  <2>2. Radio!ToldByRig(answer', radio) = Radio!Nothing
    BY <1>1, <1>3, ToldOf
  <2> QED BY <1>2, <2>1, <2>2, ObeyedNone, ObeyedCat
<1>5. Radio!Shows(answer'.says, Radio!Shown(answer', radio'))
  <2>1. Radio!Shown(answer', radio') = Radio!Nothing
    BY <1>1, <1>3, CatTold
  <2> QED BY <2>1 DEF Radio!Shows, Radio!Nothing
<1>6. GainsOK' /\ Radio!Obeyed(Radio!ToldGains(answer'), Gains, Gains')
  <2>1. CASE q.parm = <<>>
    <3>1. Radio!ToldGains(answer') = Radio!Nothing
      BY <1>3, <2>1 DEF Radio!ToldGains
    <3> QED BY <1>2, <2>1, <3>1, GainsKept
  <2>2. CASE q.parm # <<>>
    <3> DEFINE n == q.parm[1].num
    <3>1. n \in Int /\ q.parm[1].lead \in Int
      BY <2>2, CatParmFacts
    <3>2. CASE q.cmd \in {"AG0", "AG", "ZZAG"}
      <4>1. parm_af' = n /\ parm_ai' = parm_ai /\ parm_pwr' = parm_pwr /\ n \in Nat
        BY <1>2, <2>2, <3>2, CatParmFacts
      <4>2. Radio!ToldGains(answer') = Radio!Turns("af", {n})
        BY <1>3, <2>2, <3>2 DEF Radio!ToldGains
      <4> HIDE DEF n
      <4> QED BY <4>1, <4>2 DEF GainsOK, Gains, Radio!Obeyed, Radio!Turns
    <3>3. CASE q.cmd = "AI"
      <4> DEFINE v == q.parm[1].lead
      <4>1. parm_ai' = v /\ parm_af' = parm_af /\ parm_pwr' = parm_pwr /\ v \in Int
        BY <1>2, <2>2, <3>1, <3>3
      <4>2. Radio!ToldGains(answer') = Radio!Turns("ai", {v})
        BY <1>3, <2>2, <3>3 DEF Radio!ToldGains
      <4> HIDE DEF v
      <4> QED BY <4>1, <4>2 DEF GainsOK, Gains, Radio!Obeyed, Radio!Turns
    <3>4. CASE q.cmd = "PC"
      <4> DEFINE v == Cat!PowerFor(n)
      <4>1. parm_pwr' = v /\ parm_af' = parm_af /\ parm_ai' = parm_ai
        BY <1>2, <2>2, <3>4
      <4>2. v \in 5..100 /\ v = Radio!Clamped(n, 5, 100)
        BY <3>1 DEF Cat!PowerFor, Radio!Clamped
      <4>3. Radio!ToldGains(answer') = Radio!Turns("pwr", {v})
        BY <1>3, <2>2, <3>4, <4>2 DEF Radio!ToldGains
      <4> HIDE DEF v
      <4> QED BY <4>1, <4>2, <4>3 DEF GainsOK, Gains, Radio!Obeyed, Radio!Turns
    <3> QED BY <1>1, <3>2, <3>3, <3>4
  <2> QED BY <2>1, <2>2
<1>7. radio \in Settings /\ catMsg' \in Messages /\ radio' \in Settings
  BY <1>2
<1> QED BY <1>2, <1>3, <1>4, <1>5, <1>6, <1>7 DEF CatHandled

(* All of the protocol.                                                    *)
LEMMA CatRequestsHandled ==
    ASSUME radio \in Settings, catMsg \in Messages, GainsOK, NEW q, Cat!IsRequest(q), Cat!commcat_req(q)
    PROVE  CatHandled(q)
<1>1. CASE q.parm = <<>> /\ q.cmd \in {"FA", "ZZFA", "FB", "ZZFB", "FR", "FT", "MD", "RT", "XT"}
  BY <1>1, CatQueriesHandled
<1>2. CASE q.cmd \in {"IF", "ID", "SM", "KS", "NB", "other"}
  BY <1>2, CatFixedHandled
<1>3. CASE q.parm # <<>> /\ (Cat!cbReqFA(q) \/ Cat!cbReqFB(q))
  BY <1>3, CatTunesHandled
<1>4. CASE q.parm # <<>> /\ (Cat!cbReqFR(q) \/ Cat!cbReqMD(q) \/ Cat!cbReqRT(q) \/ Cat!cbReqXT(q))
  BY <1>4, CatSwitchesHandled
<1>5. CASE q.parm # <<>> /\ Cat!cbReqFT(q)
  BY <1>5, CatSplitHandled
<1>6. CASE Cat!cbReqRX(q) \/ Cat!cbReqTX(q) \/ Cat!cbReqRU(q) \/ Cat!cbReqRD(q)
  BY <1>6, CatKeysHandled
<1>7. CASE Cat!cbReqAG0(q) \/ Cat!cbReqAI(q) \/ Cat!cbReqPC(q)
  BY <1>7, CatGainsHandled
<1>8. /\ Cat!cbReqFA(q) => q.cmd \in {"FA", "ZZFA"}
      /\ Cat!cbReqFB(q) => q.cmd \in {"FB", "ZZFB"}
      /\ Cat!cbReqFR(q) => q.cmd = "FR"
      /\ Cat!cbReqFT(q) => q.cmd = "FT"
      /\ Cat!cbReqIF(q) => q.cmd = "IF"
      /\ Cat!cbReqMD(q) => q.cmd = "MD"
      /\ Cat!cbReqRT(q) => q.cmd = "RT"
      /\ Cat!cbReqXT(q) => q.cmd = "XT"
      /\ Cat!cbReqIDorSM(q) \/ Cat!cbReqKSorNB(q) \/ Cat!NotFound(q) => q.cmd \in {"ID", "SM", "KS", "NB", "other"}
  BY DEF Cat!cbReqFA, Cat!cbReqFB, Cat!cbReqFR, Cat!cbReqFT, Cat!cbReqIF, Cat!cbReqMD, Cat!cbReqRT, Cat!cbReqXT,
         Cat!cbReqIDorSM, Cat!cbReqKSorNB, Cat!NotFound
<1> QED BY <1>1, <1>2, <1>3, <1>4, <1>5, <1>6, <1>7, <1>8 DEF Cat!commcat_req

LEMMA RigRequestsHandled ==
    ASSUME radio \in Settings, rigMsg \in Messages, NEW q, Rig!IsRequest(q), Rig!rigctl_req(q)
    PROVE  RigHandled(q)
<1>1. q.cmd \in Query \cup Setting
  BY RigCommands
<1> QED BY <1>1, RigQueriesHandled, RigSettingsHandled

----------------------------------------------------------------------------
(***************************************************************************)
(* What holds of the two protocols together.                               *)
(***************************************************************************)

(* The types are inductive, and they are all that the handlers need.       *)
LEMMA StationStarts == StationInit => StationTypeOK
<1>1. PowerOn \in Settings
  BY DEF PowerOn, Settings, ON, OFF, Switch, ERMAK_VFO_MODE_t, ERMAK_VFO_MODE_A, ERMAK_VFO_MODE_B,
         ERMAK_MODE_PKTUSB, ERMAK_MODE_t
<1>2. Zeroed \in Messages
  BY DEF Zeroed, Messages
<1> QED BY <1>1, <1>2 DEF StationInit, StationTypeOK

LEMMA Handled ==
    ASSUME StationTypeOK, StationNext
    PROVE  \/ \E q \in RigRequests : RigHandled(q) /\ RigRequest(q) /\ Gains' = Gains
           \/ \E q \in CatRequests : CatHandled(q) /\ CatRequest(q)
<1>1. radio \in Settings /\ rigMsg \in Messages /\ catMsg \in Messages /\ GainsOK
  BY DEF StationTypeOK, GainsOK
<1>2. ASSUME NEW q \in RigRequests, RigRequest(q) PROVE RigHandled(q) /\ Gains' = Gains
  <2>1. Rig!IsRequest(q) /\ Rig!rigctl_req(q)
    BY <1>2, RequestsAssumption DEF RigRequest
  <2>2. RigHandled(q)
    BY <1>1, <2>1, RigRequestsHandled
  <2> QED BY <1>2, <2>2 DEF RigRequest, Gains
<1>3. ASSUME NEW q \in CatRequests, CatRequest(q) PROVE CatHandled(q)
  <2>1. Cat!IsRequest(q) /\ Cat!commcat_req(q)
    BY <1>3, RequestsAssumption DEF CatRequest
  <2> QED BY <1>1, <2>1, CatRequestsHandled
<1> QED BY <1>2, <1>3 DEF StationNext

(* Every variable keeps its type: no handler lets a word that another      *)
(* request left in its message into a setting of the radio (ermak.c:40).   *)
THEOREM StationTypes == StationSpec => []StationTypeOK
<1>1. StationInit => StationTypeOK
  BY StationStarts
<1>2. StationTypeOK /\ [StationNext]_stationVars => StationTypeOK'
  <2> SUFFICES ASSUME StationTypeOK, [StationNext]_stationVars
               PROVE  StationTypeOK'
    OBVIOUS
  <2>1. CASE UNCHANGED stationVars
    BY <2>1 DEF StationTypeOK, stationVars
  <2>2. CASE StationNext
    <3>1. ASSUME NEW q \in RigRequests, RigHandled(q), RigRequest(q) PROVE StationTypeOK'
      BY <3>1 DEF RigHandled, RigRequest, StationTypeOK
    <3>2. ASSUME NEW q \in CatRequests, CatHandled(q), CatRequest(q) PROVE StationTypeOK'
      BY <3>2 DEF CatHandled, CatRequest, StationTypeOK, GainsOK
    <3> QED BY <2>2, <3>1, <3>2, Handled
  <2> QED BY <2>1, <2>2
<1> QED BY <1>1, <1>2, PTL DEF StationSpec

(* A client waits in vain only for a function without callbacks            *)
(* (rigctl.c:953, 994).                                                    *)
THEOREM AnswersEverythingElse == StationSpec => OnlyIdleFunctionsAreMute
<1> DEFINE A == answer'.rprt = Rig!RIG_EEND /\ answer'.says = Rig!Nothing
                    => answer'.cmd \in {"set_func", "get_func"} /\ answer'.parm[1].text \in IdleFunctions
<1>1. StationTypeOK /\ [StationNext]_stationVars => [A]_stationVars
  <2> SUFFICES ASSUME StationTypeOK, StationNext PROVE A
    OBVIOUS
  <2>1. ASSUME NEW q \in RigRequests, RigHandled(q) PROVE A
    BY <2>1 DEF RigHandled
  <2>2. ASSUME NEW q \in CatRequests, CatHandled(q) PROVE A
    BY <2>2, Numbers DEF CatHandled
  <2> HIDE DEF A
  <2> QED BY <2>1, <2>2, Handled
<1> QED BY <1>1, StationTypes, PTL DEF StationSpec, OnlyIdleFunctionsAreMute

(* An answer about a gain shows the gain, and no other is about one.       *)
LEMMA GainsShown ==
    ASSUME NEW q, Cat!commcat_req(q)
    PROVE  Radio!Shows(answer'.says, Radio!ShownGains(answer', Gains'))
<1>1. q.cmd \in CatCommand \cup {"other"}
  BY CatCommands
<1>2. CASE q.cmd \in {"AG0", "AG", "ZZAG"} /\ Cat!cbReqAG0(q)
  <2>1. CASE q.parm = <<>>
    <3>1. /\ answer'.cmd = q.cmd /\ answer'.parm = <<>> /\ answer'.says = [gain |-> parm_af]
          /\ parm_af' = parm_af
      BY <1>2, <2>1, CatSaysIs DEF Cat!cbReqAG0, Cat!None, Cat!Idle, Cat!parms
    <3>2. Radio!ShownGains(answer', Gains') = [gain |-> parm_af']
      BY <1>2, <3>1 DEF Radio!ShownGains, Gains
    <3> QED BY <3>1, <3>2 DEF Radio!Shows
  <2>2. CASE q.parm # <<>>
    <3>1. answer'.cmd = q.cmd /\ answer'.parm = q.parm
      BY <1>2, <2>2, CatSaysIs DEF Cat!cbReqAG0, Cat!None
    <3> QED BY <1>2, <2>2, <3>1 DEF Radio!ShownGains, Radio!Shows, Radio!Nothing
  <2> QED BY <2>1, <2>2
<1>3. CASE q.cmd = "PC" /\ Cat!cbReqPC(q)
  <2>1. CASE q.parm = <<>>
    <3>1. /\ answer'.cmd = q.cmd /\ answer'.parm = <<>> /\ answer'.says = [power |-> parm_pwr]
          /\ parm_pwr' = parm_pwr
      BY <1>3, <2>1, CatSaysIs DEF Cat!cbReqPC, Cat!None, Cat!Idle, Cat!parms
    <3>2. Radio!ShownGains(answer', Gains') = [power |-> parm_pwr']
      BY <1>3, <3>1 DEF Radio!ShownGains, Gains
    <3> QED BY <3>1, <3>2 DEF Radio!Shows
  <2>2. CASE q.parm # <<>>
    <3>1. answer'.cmd = q.cmd /\ answer'.parm = q.parm
      BY <1>3, <2>2, CatSaysIs DEF Cat!cbReqPC, Cat!None
    <3> QED BY <1>3, <2>2, <3>1 DEF Radio!ShownGains, Radio!Shows, Radio!Nothing
  <2> QED BY <2>1, <2>2
<1>4. CASE q.cmd = "AI" /\ Cat!cbReqAI(q)
  <2>1. answer'.cmd = q.cmd /\ answer'.says = [ai |-> parm_ai']
    BY <1>4, CatSaysIs DEF Cat!cbReqAI
  <2>2. Radio!ShownGains(answer', Gains') = [ai |-> parm_ai']
    BY <1>4, <2>1 DEF Radio!ShownGains, Gains
  <2> QED BY <2>1, <2>2 DEF Radio!Shows
<1>5. CASE q.cmd \notin {"AG0", "AG", "ZZAG", "PC", "AI"}
  <2>1. answer'.cmd = q.cmd
    BY CatSaysIs
       DEF Cat!commcat_req, Cat!cbReqFA, Cat!cbReqFB, Cat!cbReqFR, Cat!cbReqFT, Cat!cbReqIF, Cat!cbReqMD,
           Cat!cbReqRD, Cat!cbReqRU, Cat!cbReqRT, Cat!cbReqXT, Cat!cbReqRX, Cat!cbReqTX, Cat!cbReqAG0,
           Cat!cbReqAI, Cat!cbReqPC, Cat!cbReqIDorSM, Cat!cbReqKSorNB, Cat!NotFound, Cat!TunesVfo,
           Cat!Reads, Cat!Idle, Cat!Sets
  <2> QED BY <1>5, <2>1 DEF Radio!ShownGains, Radio!Shows, Radio!Nothing
<1>6. /\ q.cmd \in {"AG0", "AG", "ZZAG"} => Cat!cbReqAG0(q)
      /\ q.cmd = "PC" => Cat!cbReqPC(q)
      /\ q.cmd = "AI" => Cat!cbReqAI(q)
  BY DEF Cat!commcat_req, Cat!cbReqFA, Cat!cbReqFB, Cat!cbReqFR, Cat!cbReqFT, Cat!cbReqIF, Cat!cbReqMD,
         Cat!cbReqRD, Cat!cbReqRU, Cat!cbReqRT, Cat!cbReqXT, Cat!cbReqRX, Cat!cbReqTX, Cat!cbReqAG0,
         Cat!cbReqAI, Cat!cbReqPC, Cat!cbReqIDorSM, Cat!cbReqKSorNB, Cat!NotFound
<1> QED BY <1>2, <1>3, <1>4, <1>5, <1>6

(* The two protocols, with their messages, implement the transceiver that  *)
(* has none: what a request changes and what an answer shows depend on the *)
(* settings alone.                                                         *)
THEOREM StationDrivesTransceiver == StationSpec => DrivesTransceiver
<1>1. StationInit => Radio!Init
  BY RadioErmak DEF StationInit, Radio!Init
<1>2. StationTypeOK /\ [StationNext]_stationVars => [Radio!Serve(answer')]_(Radio!vars)
  <2> SUFFICES ASSUME StationTypeOK, [StationNext]_stationVars
               PROVE  Radio!Serve(answer') \/ UNCHANGED Radio!vars
    OBVIOUS
  <2>1. CASE UNCHANGED stationVars
    BY <2>1 DEF stationVars, Radio!vars
  <2>2. CASE StationNext
    <3>1. ASSUME NEW q \in RigRequests, RigHandled(q), RigRequest(q), Gains' = Gains PROVE Radio!Serve(answer')
      <4>1. Radio!ToldGains(answer') = Radio!Nothing
        <5>1. answer'.cmd \in Query \cup Setting
          BY <3>1, RigCommands DEF RigHandled, RigRequest
        <5> QED BY <5>1, ToldOf
      <4>2. Radio!Obeyed(Radio!ToldGains(answer'), Gains, Gains')
        BY <3>1, <4>1, ObeyedNone
      <4>3. Radio!ShownGains(answer', Gains') = Radio!Nothing
        <5>1. answer'.cmd \in Query \cup Setting
          BY <3>1, RigCommands DEF RigHandled, RigRequest
        <5> QED BY <5>1 DEF Query, Setting, Radio!ShownGains
      <4>4. Radio!Shows(answer'.says, Radio!ShownGains(answer', Gains'))
        BY <4>3 DEF Radio!Shows, Radio!Nothing
      <4> QED BY <3>1, <4>2, <4>4 DEF RigHandled, Radio!Serve, Gains
    <3>2. ASSUME NEW q \in CatRequests, CatHandled(q), CatRequest(q) PROVE Radio!Serve(answer')
      <4>1. Radio!Shows(answer'.says, Radio!ShownGains(answer', Gains'))
        BY <3>2, GainsShown DEF CatRequest
      <4> QED BY <3>2, <4>1 DEF CatHandled, Radio!Serve, Gains
    <3> QED BY <2>2, <3>1, <3>2, Handled
  <2> QED BY <2>1, <2>2
<1> QED BY <1>1, <1>2, StationTypes, PTL DEF StationSpec, DrivesTransceiver, Radio!Spec

(* What set_mode makes of the word, when it reports RIG_OK.                *)
LEMMA ModeSets ==
    ASSUME radio \in Settings, rigMsg \in Messages, NEW q, Rig!IsRequest(q), Rig!cbRigCTLSetMode(q),
           RigHandled(q), answer'.rprt = Rig!RIG_OK,
           NEW w, w = q.parm[IF Len(q.parm) = 3 THEN 2 ELSE 1].text
    PROVE  w \in Words /\ radio'.mode = Radio!ErmakMode[w]
<1>0. q.cmd = "set_mode"
  BY DEF Rig!cbRigCTLSetMode
<1>1. w \in Words /\ q.parm # <<>>
  <2> SUFFICES ASSUME ~(w \in Words /\ q.parm # <<>>) PROVE FALSE
    OBVIOUS
  <2> DEFINE mode == IF Rig!Has(q, 3) THEN Rig!rigctl_cvtStr2Mode(Rig!Word(q, 2))
                     ELSE IF Rig!Has(q, 1) THEN Rig!rigctl_cvtStr2Mode(Rig!Word(q, 1)) ELSE Rig!Unknown
  <2>1. mode = Rig!Unknown
    <3>1. CASE q.parm = <<>>
      <4>1. ~Rig!Has(q, 1) /\ ~Rig!Has(q, 3)
        BY <3>1, ParmFacts
      <4> QED BY <4>1
    <3>2. CASE q.parm # <<>>
      <4>1. Rig!Has(q, 1) /\ Rig!Word(q, 1) = q.parm[1].text /\ Rig!Word(q, 2) = q.parm[2].text
        BY <3>2, ParmFacts
      <4>2. Rig!Has(q, 3) <=> Len(q.parm) = 3
        <5>1. /\ Len(q.parm) \in Nat /\ Len(q.parm) <= 3
              /\ Rig!Has(q, 3) <=> Len(q.parm) >= 3
          BY ParmFacts
        <5>2. \A n \in Nat : n <= 3 => (n = 3 <=> n >= 3)
          OBVIOUS
        <5> QED BY <5>1, <5>2
      <4>3. Rig!rigctl_cvtStr2Mode(w) = Rig!Unknown
        BY <3>2, WordToMode, Numbers
      <4> QED BY <4>1, <4>2, <4>3
    <3> QED BY <3>1, <3>2
  <2> HIDE DEF mode
  <2>2. Rig!Rejects(q, rigMsg)
    <3>1. IF mode = Rig!Unknown THEN Rig!Rejects(q, rigMsg)
          ELSE /\ Rig!SendAndNotify("SET_MODE", Rig!ModeData(rigMsg, mode), Rig!ERMAK_NOTIFY_TYPE_WEB_ALL)
               /\ Rig!Reports(q, Rig!RIG_OK)
      BY DEF Rig!cbRigCTLSetMode, mode
    <3> QED BY <2>1, <3>1
  <2> QED BY <2>2, AnswerIs, Numbers DEF Rig!Rejects, Rig!Reports
<1>2. Radio!ToldByRig(answer', radio) = Radio!Turns("mode", {Radio!ErmakMode[w]})
  <2>1. answer'.cmd = "set_mode" /\ answer'.parm = q.parm
    BY <1>0 DEF RigHandled
  <2>2. w = IF Len(q.parm) = 3 THEN IF Len(q.parm) >= 2 THEN q.parm[2].text ELSE ""
            ELSE IF Len(q.parm) >= 1 THEN q.parm[1].text ELSE ""
    <3>1. Rig!Has(q, 1) /\ Len(q.parm) >= 1
      BY <1>1, ParmFacts
    <3>2. Len(q.parm) = 3 => Len(q.parm) >= 2
      OBVIOUS
    <3> QED BY <3>1, <3>2
  <2> QED BY <1>1, <2>1, <2>2, ErmakModes DEF Radio!ToldByRig
<1>3. /\ DOMAIN Radio!Told(answer', radio) = {"mode"}
      /\ Radio!Told(answer', radio)["mode"] = {Radio!ErmakMode[w]}
  <2>1. Radio!ToldByCat(answer', radio) = Radio!Nothing
    BY <1>0, ToldOf DEF RigHandled, Setting
  <2>2. DOMAIN Radio!Nothing = {}
    BY DEF Radio!Nothing
  <2> QED BY <1>2, <2>1, <2>2 DEF Radio!Told, Radio!Turns
<1>4. "mode" \in DOMAIN radio
  BY DEF Settings
<1> QED BY <1>1, <1>3, <1>4 DEF RigHandled, Radio!Obeyed

(* A mode set by either protocol is what both report afterwards: the four  *)
(* conversion tables agree (rigctl.c:91, 139; commcat.c:55, 77).           *)
THEOREM ModesAgree == StationSpec => ModesReadBack
<1> DEFINE set  == answer'.cmd = "set_mode" /\ answer'.rprt = Rig!RIG_OK
           word == Rig!SaysMode(radio', rigMsg').mode
           sent == answer'.parm[IF Len(answer'.parm) = 3 THEN 2 ELSE 1]
           A == /\ set => word = sent.text /\ Cat!SaysIF(radio').mode = Radio!Digit[word]
                /\ answer'.cmd = "MD" /\ answer'.parm # <<>> /\ answer'.parm[1].num \in KenwoodDigits
                     => /\ Cat!SaysIF(radio').mode = answer'.parm[1].num
                        /\ word \in DOMAIN Radio!Digit /\ Radio!Digit[word] = answer'.parm[1].num
<1>1. StationTypeOK /\ [StationNext]_stationVars => [A]_stationVars
  <2> SUFFICES ASSUME StationTypeOK, StationNext PROVE A
    OBVIOUS
  <2>0. /\ word = Rig!rigctl_cvtMode2Str(radio'.mode)
        /\ Cat!SaysIF(radio').mode = Cat!cvtModeE2K(radio'.mode)
    BY DEF Rig!SaysMode, Cat!SaysIF
  <2> HIDE DEF word
  <2>1. ASSUME NEW q \in RigRequests, RigHandled(q), RigRequest(q) PROVE A
    <3>1. q.cmd # "MD" /\ answer'.cmd = q.cmd
      BY <2>1, RigCommands DEF RigHandled, RigRequest, Query, Setting
    <3>2. ASSUME set PROVE word = sent.text /\ Cat!SaysIF(radio').mode = Radio!Digit[word]
      <4>1. Rig!cbRigCTLSetMode(q) /\ Rig!IsRequest(q) /\ answer'.parm = q.parm
        BY <2>1, <3>1, <3>2, RequestsAssumption, RigCommands DEF RigHandled, RigRequest
      <4>2. sent.text \in Words /\ radio'.mode = Radio!ErmakMode[sent.text]
        BY <2>1, <3>2, <4>1, ModeSets DEF StationTypeOK
      <4> HIDE DEF sent
      <4>3. radio'.mode \in ERMAK_MODE_t
        BY <4>2, WordToMode
      <4>4. Radio!WordOf(radio'.mode) = sent.text
        <5>1. Radio!WordOf(radio'.mode) \in Words /\ Radio!ErmakMode[Radio!WordOf(radio'.mode)] = radio'.mode
          BY <4>3, ModeToWord
        <5>2. \A u, v \in Words : Radio!ErmakMode[u] = Radio!ErmakMode[v] => u = v
          BY ErmakModes DEF Words
        <5> QED BY <4>2, <5>1, <5>2
      <4> QED BY <2>0, <4>3, <4>4, ModeToWord
    <3> QED BY <3>1, <3>2
  <2>2. ASSUME NEW q \in CatRequests, CatHandled(q), CatRequest(q) PROVE A
    <3>1. q.cmd # "set_mode" /\ answer'.cmd = q.cmd /\ answer'.parm = q.parm
      BY <2>2, CatCommands DEF CatHandled, CatRequest, Setting
    <3>2. ASSUME q.cmd = "MD", q.parm # <<>>, q.parm[1].num \in KenwoodDigits
          PROVE  /\ Cat!SaysIF(radio').mode = q.parm[1].num
                 /\ word \in DOMAIN Radio!Digit /\ Radio!Digit[word] = q.parm[1].num
      <4> DEFINE d == q.parm[1].num
                 v == Cat!cvtModeK2E(d)
                 m == Cat!ModeData(catMsg, v)
      <4>1. Cat!Sets(q, "SET_MODE", m, Cat!Silence)
        BY <2>2, <3>2, CatCommands DEF CatRequest, Cat!cbReqMD, Cat!None, Cat!Value
      <4>2. d \in {1, 2, 3, 4, 5, 6, 7, 9}
        BY <3>2, ErmakModes DEF KenwoodDigits, Words
      <4> HIDE DEF d
      <4>3. v \in Int /\ v \in ERMAK_MODE_t /\ Cat!cvtModeE2K(v) = d
        BY <4>2, DigitToMode
      <4> HIDE DEF v
      <4>4. m \in Messages /\ m.w1 = v
        BY <4>3, CatWords DEF StationTypeOK
      <4> HIDE DEF m
      <4>5. radio' = Perform(radio, "SET_MODE", m)
        BY <4>1, <4>4, CatSetsIs DEF StationTypeOK
      <4>6. radio'.mode = v
        <5>1. Perform(radio, "SET_MODE", m) = [radio EXCEPT !.mode = m.w1]
          BY Performs
        <5> QED BY <4>4, <4>5, <5>1 DEF StationTypeOK, Settings
      <4>7. word \in Words /\ Radio!Digit[word] = d
        BY <2>0, <4>3, <4>6, ModeToWord
      <4>8. Cat!SaysIF(radio').mode = d
        BY <2>0, <4>3, <4>6
      <4> QED BY <4>7, <4>8, ErmakModes DEF d
    <3> QED BY <3>1, <3>2
  <2> HIDE DEF A
  <2> QED BY <2>1, <2>2, Handled
<1> QED BY <1>1, StationTypes, PTL DEF StationSpec, ModesReadBack

(* The requests that name an offset, and where they put it.                *)
LEMMA OffsetsNamed ==
    ASSUME NEW a, NEW r
    PROVE  /\ "ritFreq" \in DOMAIN Radio!ToldByRig(a, r) =>
                 /\ a.cmd = "set_rit" /\ a.parm # <<>>
                 /\ Radio!ToldByRig(a, r)["ritFreq"] = {a.parm[1].num}
           /\ "xitFreq" \in DOMAIN Radio!ToldByRig(a, r) =>
                 /\ a.cmd = "set_xit" /\ a.parm # <<>>
                 /\ Radio!ToldByRig(a, r)["xitFreq"] = {a.parm[1].num}
           /\ "ritFreq" \in DOMAIN Radio!ToldByCat(a, r) =>
                 \/ a.cmd = "RU" /\ Radio!ToldByCat(a, r) = Radio!Stepped(a, r, 1)
                 \/ a.cmd = "RD" /\ Radio!ToldByCat(a, r) = Radio!Stepped(a, r, -1)
           /\ "xitFreq" \notin DOMAIN Radio!ToldByCat(a, r)
<1>0. \A v : Radio!FreqOf(v) \in {"freqA", "freqB"}
  BY DEF Radio!FreqOf
<1>1. ASSUME a.cmd \notin {"set_rit", "set_xit"}
      PROVE  "ritFreq" \notin DOMAIN Radio!ToldByRig(a, r) /\ "xitFreq" \notin DOMAIN Radio!ToldByRig(a, r)
  <2>1. CASE a.cmd = "set_split_vfo"
    BY <1>1, <2>1 DEF Radio!ToldByRig
  <2>2. CASE a.cmd # "set_split_vfo"
    <3>1. \/ Radio!ToldByRig(a, r) = Radio!Nothing
          \/ \E k \in {"freqA", "freqB", "vfo", "mode", "ptt", "lock", "rit", "xit"} : \E vs :
                Radio!ToldByRig(a, r) = Radio!Turns(k, vs)
      <4> DEFINE T(k) == \E vs : Radio!ToldByRig(a, r) = Radio!Turns(k, vs)
      <4>1. a.cmd \in {"set_freq", "set_split_freq"} =>
               Radio!ToldByRig(a, r) = Radio!Nothing \/ T("freqA") \/ T("freqB")
        <5>1. a.cmd \in {"set_freq", "set_split_freq"} =>
                 Radio!ToldByRig(a, r) = Radio!Nothing \/ \E v : T(Radio!FreqOf(v))
          BY DEF Radio!ToldByRig
        <5> QED BY <1>0, <5>1
      <4>2. a.cmd = "set_vfo" => Radio!ToldByRig(a, r) = Radio!Nothing \/ T("vfo")
        BY DEF Radio!ToldByRig
      <4>3. a.cmd = "set_mode" => Radio!ToldByRig(a, r) = Radio!Nothing \/ T("mode")
        BY DEF Radio!ToldByRig
      <4>4. a.cmd = "set_ptt" => Radio!ToldByRig(a, r) = Radio!Nothing \/ T("ptt")
        BY DEF Radio!ToldByRig
      <4>5. a.cmd = "set_lock_mode" => Radio!ToldByRig(a, r) = Radio!Nothing \/ T("lock")
        BY DEF Radio!ToldByRig
      <4>6. a.cmd = "set_func" => Radio!ToldByRig(a, r) = Radio!Nothing \/ T("rit") \/ T("xit")
        BY DEF Radio!ToldByRig
      <4>7. a.cmd \notin Setting => Radio!ToldByRig(a, r) = Radio!Nothing
        BY DEF Radio!ToldByRig, Setting
      <4> QED BY <1>1, <2>2, <4>1, <4>2, <4>3, <4>4, <4>5, <4>6, <4>7 DEF Setting
    <3> QED BY <3>1 DEF Radio!Turns, Radio!Nothing
  <2> QED BY <2>1, <2>2
<1>2. ASSUME a.cmd \in {"set_rit", "set_xit"}
      PROVE  /\ "ritFreq" \in DOMAIN Radio!ToldByRig(a, r) =>
                   /\ a.cmd = "set_rit" /\ a.parm # <<>>
                   /\ Radio!ToldByRig(a, r)["ritFreq"] = {a.parm[1].num}
             /\ "xitFreq" \in DOMAIN Radio!ToldByRig(a, r) =>
                   /\ a.cmd = "set_xit" /\ a.parm # <<>>
                   /\ Radio!ToldByRig(a, r)["xitFreq"] = {a.parm[1].num}
  <2> DEFINE k == IF a.cmd = "set_rit" THEN "ritFreq" ELSE "xitFreq"
  <2>1. CASE a.parm = <<>>
    <3>1. Radio!ToldByRig(a, r) = Radio!Nothing
      BY <1>2, <2>1 DEF Radio!ToldByRig
    <3> QED BY <3>1 DEF Radio!Nothing
  <2>2. CASE a.parm # <<>>
    <3>1. Radio!ToldByRig(a, r) = Radio!Turns(k, {a.parm[1].num})
      BY <1>2, <2>2 DEF Radio!ToldByRig
    <3> QED BY <1>2, <2>2, <3>1 DEF Radio!Turns
  <2> QED BY <2>1, <2>2
<1>3. /\ "ritFreq" \in DOMAIN Radio!ToldByCat(a, r) =>
            \/ a.cmd = "RU" /\ Radio!ToldByCat(a, r) = Radio!Stepped(a, r, 1)
            \/ a.cmd = "RD" /\ Radio!ToldByCat(a, r) = Radio!Stepped(a, r, -1)
      /\ "xitFreq" \notin DOMAIN Radio!ToldByCat(a, r)
  <2>1. CASE a.cmd = "FT"
    BY <2>1 DEF Radio!ToldByCat, Radio!Nothing
  <2>2. CASE a.cmd \in {"RU", "RD"}
    <3>1. \/ a.cmd = "RU" /\ Radio!ToldByCat(a, r) = Radio!Stepped(a, r, 1)
          \/ a.cmd = "RD" /\ Radio!ToldByCat(a, r) = Radio!Stepped(a, r, -1)
      BY <2>2 DEF Radio!ToldByCat
    <3>2. \A sign : "xitFreq" \notin DOMAIN Radio!Stepped(a, r, sign)
      BY DEF Radio!Stepped, Radio!Turns, Radio!Nothing
    <3> QED BY <3>1, <3>2
  <2>3. CASE a.cmd \notin {"FT", "RU", "RD"}
    <3>1. \/ Radio!ToldByCat(a, r) = Radio!Nothing
          \/ \E k \in {"freqA", "freqB", "vfo", "mode", "ptt", "rit", "xit"} : \E vs :
                Radio!ToldByCat(a, r) = Radio!Turns(k, vs)
      <4> DEFINE T(k) == \E vs : Radio!ToldByCat(a, r) = Radio!Turns(k, vs)
      <4>1. Radio!ToldByCat(a, r) = Radio!Nothing \/ T("freqA") \/ T("freqB") \/ T("vfo") \/ T("mode")
            \/ T("ptt") \/ T("rit") \/ T("xit")
        BY <2>3 DEF Radio!ToldByCat
      <4> QED BY <4>1
    <3> QED BY <3>1 DEF Radio!Turns, Radio!Nothing
  <2> QED BY <2>1, <2>2, <2>3
<1> QED BY <1>1, <1>2, <1>3

(* Both offsets stay within the limit: RU and RD stop before it.           *)
Offsets == radio.ritFreq \in (-RitLimit)..RitLimit /\ radio.xitFreq \in (-RitLimit)..RitLimit

(* What one protocol tells, the other does not.                            *)
LEMMA OffsetsTold ==
    ASSUME radio \in Settings, NEW told, Radio!Obeyed(told, radio, radio')
    PROVE  /\ IF "ritFreq" \in DOMAIN told THEN radio'.ritFreq \in told["ritFreq"] ELSE radio'.ritFreq = radio.ritFreq
           /\ IF "xitFreq" \in DOMAIN told THEN radio'.xitFreq \in told["xitFreq"] ELSE radio'.xitFreq = radio.xitFreq
<1>1. "ritFreq" \in DOMAIN radio /\ "xitFreq" \in DOMAIN radio
  BY DEF Settings
<1> QED BY <1>1 DEF Radio!Obeyed

LEMMA RigOffsets ==
    ASSUME StationTypeOK, Offsets, NEW q, RigHandled(q), Rig!rigctl_req(q), LegalOffset(q)
    PROVE  Offsets'
<1> DEFINE rig == Radio!ToldByRig(answer', radio)
<1>1. answer'.cmd = q.cmd /\ answer'.parm = q.parm /\ q.cmd \in Query \cup Setting
  BY RigCommands DEF RigHandled
<1>2. /\ DOMAIN Radio!Told(answer', radio) = DOMAIN rig
      /\ \A k \in DOMAIN rig : Radio!Told(answer', radio)[k] = rig[k]
  <2>1. Radio!ToldByCat(answer', radio) = Radio!Nothing /\ DOMAIN Radio!Nothing = {}
    BY <1>1, ToldOf DEF Radio!Nothing
  <2> QED BY <2>1 DEF Radio!Told
<1>3. /\ "ritFreq" \in DOMAIN rig => rig["ritFreq"] = {q.parm[1].num} /\ q.parm[1].num \in (-RitLimit)..RitLimit
      /\ "xitFreq" \in DOMAIN rig => rig["xitFreq"] = {q.parm[1].num} /\ q.parm[1].num \in (-RitLimit)..RitLimit
  BY <1>1, OffsetsNamed DEF LegalOffset
<1> HIDE DEF rig
<1> DEFINE told == Radio!Told(answer', radio)
<1>4. Radio!Obeyed(told, radio, radio') /\ radio \in Settings
  BY DEF RigHandled, StationTypeOK
<1> HIDE DEF told
<1>5. /\ IF "ritFreq" \in DOMAIN told THEN radio'.ritFreq \in told["ritFreq"] ELSE radio'.ritFreq = radio.ritFreq
      /\ IF "xitFreq" \in DOMAIN told THEN radio'.xitFreq \in told["xitFreq"] ELSE radio'.xitFreq = radio.xitFreq
  BY <1>4, OffsetsTold
<1> QED BY <1>2, <1>3, <1>5 DEF Offsets, told

LEMMA CatOffsets ==
    ASSUME StationTypeOK, Offsets, NEW q, CatHandled(q), Cat!commcat_req(q), Cat!IsRequest(q), LegalOffset(q)
    PROVE  Offsets'
<1>0. radio \in Settings /\ catMsg \in Messages /\ RitLimit \in Nat /\ radio.ritFreq \in Int
  BY RequestsAssumption DEF StationTypeOK, Settings
<1> DEFINE cat  == Radio!ToldByCat(answer', radio)
           told == Radio!Told(answer', radio)
<1>1. answer'.cmd = q.cmd /\ answer'.parm = q.parm /\ q.cmd \in CatCommand \cup {"other"}
  BY CatCommands DEF CatHandled
<1>2. /\ DOMAIN told = DOMAIN cat
      /\ \A k \in DOMAIN cat : told[k] = cat[k]
  <2>1. answer'.cmd \in Query \cup CatCommand
    BY <1>1 DEF Query
  <2>2. Radio!ToldByRig(answer', radio) = Radio!Nothing /\ DOMAIN Radio!Nothing = {}
    BY <2>1, ToldOf DEF Radio!Nothing
  <2> QED BY <2>2 DEF Radio!Told
<1>3. Radio!Obeyed(told, radio, radio')
  BY DEF CatHandled
<1>4. /\ "ritFreq" \in DOMAIN cat =>
            \/ q.cmd = "RU" /\ cat = Radio!Stepped(answer', radio, 1)
            \/ q.cmd = "RD" /\ cat = Radio!Stepped(answer', radio, -1)
      /\ "xitFreq" \notin DOMAIN cat
  BY <1>1, OffsetsNamed
<1> DEFINE step == IF answer'.parm # <<>> /\ answer'.parm[1].len = 5 THEN answer'.parm[1].num ELSE 1
<1>5. q.cmd \in {"RU", "RD"} => step \in Nat
  BY <1>1 DEF LegalOffset
<1>6. \A sign \in {1, -1} : "ritFreq" \in DOMAIN Radio!Stepped(answer', radio, sign) =>
          /\ Radio!Stepped(answer', radio, sign)["ritFreq"] = {radio.ritFreq + sign * step}
          /\ sign * (radio.ritFreq + sign * step) < RitLimit
  BY DEF Radio!Stepped, Radio!Turns, Radio!Nothing
<1> HIDE DEF told, cat, step
<1>7. /\ IF "ritFreq" \in DOMAIN told THEN radio'.ritFreq \in told["ritFreq"] ELSE radio'.ritFreq = radio.ritFreq
      /\ IF "xitFreq" \in DOMAIN told THEN radio'.xitFreq \in told["xitFreq"] ELSE radio'.xitFreq = radio.xitFreq
  BY <1>0, <1>3, OffsetsTold
<1>8. radio'.xitFreq = radio.xitFreq
  BY <1>2, <1>4, <1>7
<1>9. CASE "ritFreq" \notin DOMAIN cat
  BY <1>2, <1>7, <1>8, <1>9 DEF Offsets
<1>10. CASE "ritFreq" \in DOMAIN cat
  <2>1. radio'.ritFreq \in cat["ritFreq"] /\ step \in Nat
    BY <1>2, <1>4, <1>5, <1>7, <1>10
  <2>2. CASE cat = Radio!Stepped(answer', radio, 1)
    <3>1. radio'.ritFreq = radio.ritFreq + 1 * step /\ 1 * (radio.ritFreq + 1 * step) < RitLimit
      BY <1>6, <1>10, <2>1, <2>2
    <3> QED BY <1>0, <1>8, <2>1, <3>1 DEF Offsets
  <2>3. CASE cat = Radio!Stepped(answer', radio, -1)
    <3>1. radio'.ritFreq = radio.ritFreq + (-1) * step /\ (-1) * (radio.ritFreq + (-1) * step) < RitLimit
      BY <1>6, <1>10, <2>1, <2>3
    <3> QED BY <1>0, <1>8, <2>1, <3>1 DEF Offsets
  <2> QED BY <1>4, <1>10, <2>2, <2>3
<1> QED BY <1>9, <1>10

(* The offset of an IF answer fits its field, as long as hamlib clients    *)
(* keep to the limit that RU and RD know (commcat.c:390).                  *)
THEOREM OffsetAlwaysFits ==
    ASSUME \A q \in RigRequests \cup CatRequests : LegalOffset(q)
    PROVE  StationSpec => []OffsetFits
<1>1. StationInit => Offsets
  BY RequestsAssumption DEF StationInit, PowerOn, Offsets
<1>2. StationTypeOK /\ Offsets /\ [StationNext]_stationVars => Offsets'
  <2> SUFFICES ASSUME StationTypeOK, Offsets, [StationNext]_stationVars PROVE Offsets'
    OBVIOUS
  <2>1. CASE UNCHANGED stationVars
    BY <2>1 DEF Offsets, stationVars
  <2>2. CASE StationNext
    <3>1. ASSUME NEW q \in RigRequests, RigHandled(q), RigRequest(q) PROVE Offsets'
      BY <3>1, RigOffsets DEF RigRequest
    <3>2. ASSUME NEW q \in CatRequests, CatHandled(q), CatRequest(q) PROVE Offsets'
      BY <3>2, CatOffsets, RequestsAssumption DEF CatRequest
    <3> QED BY <2>2, <3>1, <3>2, Handled
  <2> QED BY <2>1, <2>2
<1>3. Offsets => OffsetFits
  BY DEF Offsets, OffsetFits, Cat!SaysIF
<1> QED BY <1>1, <1>2, <1>3, StationTypes, PTL DEF StationSpec
=============================================================================
