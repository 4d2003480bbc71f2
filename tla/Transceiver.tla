---------------------------- MODULE Transceiver ----------------------------
(***************************************************************************)
(* What clients of either protocol may expect: one transceiver with        *)
(* settings, and nothing else.  A request turns the knobs it names to the  *)
(* values it gives, and an answer shows the settings as they are.  There   *)
(* are no messages, no protocol keeps anything, and no request depends on  *)
(* the one before.                                                         *)
(***************************************************************************)
EXTENDS Ermak, Sequences

CONSTANT RitLimit   \* where RU and RD stop

VARIABLES
    radio,    \* the settings
    gains,    \* what CAT clients set and the radio does not have
    answer    \* the request just made and what was said to it

vars == <<radio, gains, answer>>

(* The modes, by their hamlib word: what the radio calls them, and the     *)
(* digit Kenwood has for them.                                             *)
ErmakMode == [LSB |-> 50, USB |-> 49, CW |-> 51, FM |-> 52, AM |-> 48,
              PKTLSB |-> 54, CWR |-> 53, PKTUSB |-> 57]
Digit     == [LSB |-> 1, USB |-> 2, CW |-> 3, FM |-> 4, AM |-> 5,
              PKTLSB |-> 6, CWR |-> 7, PKTUSB |-> 9]

(* A digit that Kenwood has no mode for leaves the radio in none, which is *)
(* told as UNK and 0.                                                      *)
WordOf(mode)   == IF mode = Unknown THEN "UNK" ELSE CHOOSE w \in DOMAIN ErmakMode : ErmakMode[w] = mode
DigitOf(mode)  == IF mode = Unknown THEN 0 ELSE Digit[WordOf(mode)]
ModeOfDigit(d) == LET modes == {ErmakMode[w] : w \in {v \in DOMAIN Digit : Digit[v] = d}}
                  IN  IF modes = {} THEN {Unknown} ELSE modes

Turns(knob, values) == [k \in {knob} |-> values]
Nothing             == << >>

Flag(b)  == {IF b THEN ON ELSE OFF}
NamedVfo == [VFOA |-> ERMAK_VFO_MODE_A, VFOB |-> ERMAK_VFO_MODE_B]
VfoName  == [vfo \in ERMAK_VFO_MODE_t |-> IF vfo = ERMAK_VFO_MODE_A THEN "VFOA" ELSE "VFOB"]

(* A frequency is exact to 24 bits. *)
Near(n) == (n - n \div 16777216)..(n + n \div 16777216)

Clamped(n, low, high) == IF n < low THEN low ELSE IF n > high THEN high ELSE n

(* RU and RD: by one, or by a parameter of five characters, and not at all *)
(* when that would reach the limit.                                        *)
Stepped(a, r, sign) ==
    LET step == IF a.parm # <<>> /\ a.parm[1].len = 5 THEN a.parm[1].num ELSE 1
        new  == r.ritFreq + sign * step
    IN  IF sign * new < RitLimit THEN Turns("ritFreq", {new}) ELSE Nothing

(* The knobs a hamlib request names, and the values it may leave there.    *)
ToldByRig(a, r) ==
    LET given   == a.parm # <<>>
        word(i) == IF Len(a.parm) >= i THEN a.parm[i].text ELSE ""
        one(i)  == Len(a.parm) >= i /\ a.parm[i].lead = "1"
        mode    == IF Len(a.parm) = 3 THEN word(2) ELSE word(1)
        target  == IF Len(a.parm) > 1 /\ word(1) \in DOMAIN NamedVfo THEN NamedVfo[word(1)] ELSE r.vfo
    IN  CASE a.cmd = "set_freq" /\ given ->
                 Turns(FreqOf(target), Near(a.parm[IF Len(a.parm) > 1 THEN 2 ELSE 1].num))
          [] a.cmd = "set_split_freq" /\ given -> Turns(FreqOf(r.vfoS), Near(a.parm[1].num))
          [] a.cmd = "set_vfo" /\ given /\ word(1) # "?" ->
                 Turns("vfo", {IF word(1) = "VFOB" THEN ERMAK_VFO_MODE_B ELSE ERMAK_VFO_MODE_A})
          [] a.cmd = "set_split_vfo" ->
                 [split |-> Flag(one(1)),
                  vfoS |-> {IF word(2) = "VFOA" THEN ERMAK_VFO_MODE_A ELSE ERMAK_VFO_MODE_B}]
          [] a.cmd = "set_mode" /\ mode \in DOMAIN ErmakMode -> Turns("mode", {ErmakMode[mode]})
          [] a.cmd = "set_ptt" /\ given              -> Turns("ptt", Flag(one(1)))
          [] a.cmd = "set_lock_mode"                 -> Turns("lock", Flag(one(1)))
          [] a.cmd = "set_rit" /\ given              -> Turns("ritFreq", {a.parm[1].num})
          [] a.cmd = "set_xit" /\ given              -> Turns("xitFreq", {a.parm[1].num})
          [] a.cmd = "set_func" /\ word(1) \in {"RIT", "XIT"} ->
                 Turns(IF word(1) = "RIT" THEN "rit" ELSE "xit",
                       Flag(Len(a.parm) > 1 /\ a.parm[2].num % 256 = 1))
          [] OTHER -> Nothing

(* The same for a CAT request; one without a parameter asks, but for the   *)
(* keys.                                                                   *)
ToldByCat(a, r) ==
    LET given == a.parm # <<>>
        one   == given /\ a.parm[1].lead = 1
        vfo   == given /\ a.parm[1].lead \in ERMAK_VFO_MODE_t
    IN  CASE a.cmd \in {"FA", "ZZFA"} /\ given -> Turns("freqA", {a.parm[1].num})
          [] a.cmd \in {"FB", "ZZFB"} /\ given -> Turns("freqB", {a.parm[1].num})
          [] a.cmd = "FR" /\ vfo               -> Turns("vfo", {a.parm[1].lead})
          [] a.cmd = "FT" /\ vfo               -> [split |-> Flag(r.vfo # a.parm[1].lead),
                                                   vfoS |-> {a.parm[1].lead}]
          [] a.cmd = "MD" /\ given             -> Turns("mode", ModeOfDigit(a.parm[1].num))
          [] a.cmd = "RX"                      -> Turns("ptt", {OFF})
          [] a.cmd = "TX"                      -> Turns("ptt", {ON})
          [] a.cmd = "RU"                      -> Stepped(a, r, 1)
          [] a.cmd = "RD"                      -> Stepped(a, r, -1)
          [] a.cmd = "RT" /\ given             -> Turns("rit", Flag(one))
          [] a.cmd = "XT" /\ given             -> Turns("xit", Flag(one))
          [] OTHER                             -> Nothing

(* The knobs a request names: no command belongs to both protocols.        *)
Told(a, r) ==
    LET rig == ToldByRig(a, r)
        cat == ToldByCat(a, r)
    IN  [k \in DOMAIN rig \cup DOMAIN cat |-> IF k \in DOMAIN rig THEN rig[k] ELSE cat[k]]

(* The gains: the gain of the receiver is taken as it comes, the power is  *)
(* kept within its limits.                                                 *)
ToldGains(a) ==
    CASE a.cmd \in {"AG0", "AG", "ZZAG"} /\ a.parm # <<>> -> Turns("af", {a.parm[1].num})
      [] a.cmd = "PC" /\ a.parm # <<>> -> Turns("pwr", {Clamped(a.parm[1].num, 5, 100)})
      [] a.cmd = "AI" /\ a.parm # <<>> -> Turns("ai", {a.parm[1].lead})
      [] OTHER -> Nothing

(* From old to new, the knobs that are told are turned and no others.      *)
Obeyed(told, old, new) ==
    \A k \in DOMAIN old : new[k] \in IF k \in DOMAIN told THEN told[k] ELSE {old[k]}

(* What IF shows as the offset, and the VFO that is in use at the moment.  *)
Offset(r) == IF r.xit = ON /\ r.rit = OFF THEN r.xitFreq ELSE r.ritFreq
OnAir(r)  == IF r.split = ON /\ r.ptt = ON THEN r.vfoS ELSE r.vfo

(* get_vfo_info is about the VFO it names, or else the current one.        *)
IsQuery(a)     == a.parm # <<>> /\ a.parm[1].text = "?"
AskedVfo(a, r) == IF a.parm # <<>> /\ a.parm[1].text \in DOMAIN NamedVfo
                  THEN NamedVfo[a.parm[1].text] ELSE r.vfo

(* What an answer must show of the settings, field by field.               *)
Shown(a, r) ==
    CASE a.cmd = "get_freq"             -> [freq |-> r[FreqOf(r.vfo)]]
      [] a.cmd = "get_split_freq"       -> [freq |-> r[FreqOf(r.vfoS)]]
      [] a.cmd = "get_vfo"              -> [vfo |-> VfoName[r.vfo]]
      [] a.cmd = "get_split_vfo"        -> [vfo |-> VfoName[r.vfoS], split |-> r.split]
      [] a.cmd \in {"FR", "FT"} /\ a.parm = <<>> -> [vfo |-> IF a.cmd = "FR" THEN r.vfo ELSE r.vfoS]
      [] a.cmd \in {"FA", "ZZFA"} /\ a.parm = <<>> -> [freq |-> r.freqA]
      [] a.cmd \in {"FB", "ZZFB"} /\ a.parm = <<>> -> [freq |-> r.freqB]
      [] a.cmd = "get_vfo_info" /\ ~IsQuery(a) ->
                                           [freq |-> r[FreqOf(AskedVfo(a, r))],
                                            mode |-> WordOf(r.mode), split |-> r.split]
      [] a.cmd \in {"get_mode", "get_split_mode"} -> [mode |-> WordOf(r.mode)]
      [] a.cmd = "MD" /\ a.parm = <<>>  -> [mode |-> DigitOf(r.mode)]
      [] a.cmd = "get_ptt"              -> [ptt |-> r.ptt]
      [] a.cmd = "get_lock_mode"        -> [lock |-> r.lock]
      [] a.cmd = "get_rit"              -> [offset |-> r.ritFreq]
      [] a.cmd = "get_xit"              -> [offset |-> r.xitFreq]
      [] a.cmd = "RT" /\ a.parm = <<>>  -> [rit |-> r.rit]
      [] a.cmd = "XT" /\ a.parm = <<>>  -> [xit |-> r.xit]
      [] a.cmd = "get_func" /\ a.parm # <<>> /\ a.parm[1].text = "RIT" -> [status |-> r.rit]
      [] a.cmd = "get_func" /\ a.parm # <<>> /\ a.parm[1].text = "XIT" -> [status |-> r.xit]
      [] a.cmd = "IF"                   -> [freq |-> r[FreqOf(r.vfo)], ptt |-> r.ptt,
                                            rit |-> r.rit, xit |-> r.xit, split |-> r.split,
                                            mode |-> DigitOf(r.mode), offset |-> Offset(r),
                                            vfo |-> OnAir(r)]
      [] a.cmd = "full_info"            -> [freqA |-> r.freqA, freqB |-> r.freqB, ptt |-> r.ptt,
                                            vfoRX |-> VfoName[r.vfo], vfoTX |-> VfoName[r.vfoS],
                                            mode |-> WordOf(r.mode), split |-> r.split,
                                            rit |-> r.rit, xit |-> r.xit, lock |-> r.lock]
      [] OTHER                          -> Nothing

ShownGains(a, g) ==
    CASE a.cmd \in {"AG0", "AG", "ZZAG"} /\ a.parm = <<>> -> [gain |-> g.af]
      [] a.cmd = "PC" /\ a.parm = <<>> -> [power |-> g.pwr]
      [] a.cmd = "AI"                  -> [ai |-> g.ai]
      [] OTHER                         -> Nothing

Shows(says, fields) == \A f \in DOMAIN fields : f \in DOMAIN says /\ says[f] = fields[f]

Init ==
    /\ radio = PowerOn
    /\ gains = [ai |-> 0, af |-> 128, pwr |-> 100]

(* A request and its answer. *)
Serve(a) ==
    /\ Obeyed(Told(a, radio), radio, radio')
    /\ Obeyed(ToldGains(a), gains, gains')
    /\ Shows(a.says, Shown(a, radio')) /\ Shows(a.says, ShownGains(a, gains'))

Spec == Init /\ [][Serve(answer')]_vars
=============================================================================
