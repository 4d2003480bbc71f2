----------------------------- MODULE MCStation -----------------------------
(* Small sets of requests for Station. *)
EXTENDS Station

Par(text, lead, num) == [text |-> text, lead |-> lead, num |-> num]
W(text) == Par(text, "other", 0)
N(num)  == Par("", "other", num)
One     == Par("", "1", 1)
Zero    == Par("", "other", 0)
Query   == Par("?", "?", 0)

R(cmd, parm) == [cmd |-> cmd, parm |-> parm, long |-> FALSE]
L(cmd, parm) == [cmd |-> cmd, parm |-> parm, long |-> TRUE]
C(cmd, parm) == [cmd |-> cmd, parm |-> parm]
D(digit)     == <<[lead |-> digit, num |-> digit, len |-> 1]>>
F(n)         == <<[lead |-> 0, num |-> n, len |-> 11]>>
S(step)      == <<[lead |-> 0, num |-> step, len |-> 5]>>
Letters      == <<[lead |-> 17, num |-> 0, len |-> 1]>>

Reading(cmds) == {R(c, <<>>) : c \in cmds}

(* Tuning by both protocols: every way to name a VFO, or none, and a       *)
(* frequency that no float holds.                                          *)
TuningRig ==
    { R("set_freq", <<>>), R("set_freq", <<N(28074001)>>), R("set_freq", <<W("VFOA"), N(7074000)>>),
      R("set_freq", <<W("VFOB"), N(7074000)>>), R("set_freq", <<W("MEM"), N(7074000)>>),
      R("set_vfo", <<W("VFOA")>>), R("set_vfo", <<W("VFOB")>>), R("set_vfo", <<Query>>),
      R("set_vfo", <<>>), R("set_split_vfo", <<One, W("VFOB")>>), R("set_split_vfo", <<One, W("VFOA")>>),
      R("set_split_vfo", <<Zero>>), R("set_split_freq", <<N(28074001)>>), R("set_split_freq", <<>>),
      L("get_split_vfo", <<>>), L("get_vfo_info", <<W("VFOB")>>), R("get_vfo_info", <<Query>>) }
    \cup Reading({"get_freq", "get_vfo", "get_split_freq", "chk_vfo", "dump_state", "other"})

TuningCat ==
    { C("FA", <<>>), C("FB", <<>>), C("FA", F(3573000)), C("ZZFB", F(7074000)), C("FR", <<>>),
      C("FR", D(0)), C("FR", D(1)), C("FR", Letters), C("FT", <<>>), C("FT", D(0)), C("FT", D(1)),
      C("FT", Letters), C("IF", <<>>), C("other", <<>>) }

(* Modes, keying and lock. *)
ModesRig ==
    { R("set_mode", <<W(w)>>) : w \in {"USB", "LSB", "CW", "CWR", "AM", "FM", "PKTUSB", "PKTLSB", "WFM"} }
    \cup { R("set_mode", <<>>), R("set_mode", <<W("VFOB"), W("USB"), N(2700)>>),
           R("set_ptt", <<One>>), R("set_ptt", <<Zero>>), R("set_ptt", <<>>),
           R("set_lock_mode", <<One>>), R("set_lock_mode", <<>>), R("set_split_mode", <<>>),
           L("get_mode", <<>>), R("full_info", <<One>>), L("set_func", <<W("NB"), One>>) }
    \cup Reading({"get_mode", "get_split_mode", "get_ptt", "get_lock_mode", "get_powerstat", "full_info"})

ModesCat ==
    { C("MD", D(d)) : d \in 1..9 }
    \cup { C("MD", <<>>), C("TX", <<>>), C("TX", Letters), C("RX", <<>>),
           C("AI", <<>>), C("AI", D(2)) }

(* Offsets, as clients that keep to four digits send them. *)
OffsetRig ==
    { R("set_rit", <<N(n)>>) : n \in {-RitLimit, 6, RitLimit} }
    \cup { R("set_xit", <<N(-RitLimit)>>), R("set_rit", <<>>), R("set_xit", <<>>),
           R("set_func", <<W("RIT"), N(257)>>), R("set_func", <<W("RIT"), Zero>>),
           R("set_func", <<W("XIT"), One>>), R("set_func", <<W("XIT"), Zero>>),
           R("set_func", <<Query>>), R("set_func", <<W("FOO")>>), R("set_func", <<>>),
           R("get_func", <<W("RIT")>>), R("get_func", <<W("XIT")>>), R("get_func", <<Query>>),
           R("get_func", <<W("FOO")>>), R("get_func", <<>>) }
    \cup Reading({"get_rit", "get_xit"})

OffsetCat ==
    { C(c, p) : c \in {"RU", "RD"}, p \in {<<>>, S(5), D(5)} }
    \cup { C("RT", <<>>), C("RT", D(0)), C("RT", D(1)), C("XT", <<>>), C("XT", D(0)), C("XT", D(1)),
           C("IF", <<>>) }

(* The gains, with parameters that are out of range or no digits. *)
GainCat ==
    { C("PC", <<>>), C("PC", D(0)), C("PC", F(300)), C("AG", <<>>), C("AG0", F(64)), C("ZZAG", F(64)),
      C("ID", <<>>), C("SM", <<>>), C("KS", <<>>), C("KS", F(25)), C("NB", <<>>), C("NB", D(1)) }

(* One request of every kind: what each leaves in a message meets all the others. *)
MixedRig ==
    { R("set_freq", <<W("MEM"), N(7074000)>>), R("set_freq", <<>>), R("set_split_freq", <<>>),
      R("set_vfo", <<W("VFOB")>>), R("set_mode", <<W("USB")>>),
      R("set_ptt", <<One>>), R("set_rit", <<N(6)>>), R("set_split_vfo", <<Zero, W("VFOA")>>),
      R("set_func", <<W("XIT"), One>>), R("full_info", <<One>>) }

MixedCat ==
    { C("FT", D(1)), C("MD", D(6)), C("RX", <<>>), C("RT", D(1)), C("IF", <<>>) }

(* The documentation gives a split by FT and FR two VFOs. *)
SplitCat   == { C("FT", D(1)), C("FR", D(1)), C("IF", <<>>) }
NoRequests == {}

(* A mode is set, and full_info follows. *)
FullInfoRig == { R("set_mode", <<W("USB")>>), R("full_info", <<>>) }

Idle == {"NB"}

----------------------------------------------------------------------------
(* The clients of a behaviour keep to one family of requests: the settings *)
(* of different families would only multiply the states.                   *)
AllFamilies ==
    { [rig |-> TuningRig, cat |-> TuningCat], [rig |-> ModesRig, cat |-> ModesCat],
      [rig |-> OffsetRig, cat |-> OffsetCat], [rig |-> {}, cat |-> GainCat],
      [rig |-> MixedRig, cat |-> MixedCat] }

OnlySplit    == { [rig |-> {}, cat |-> SplitCat] }
OnlyFullInfo == { [rig |-> FullInfoRig, cat |-> {}] }

CONSTANT Families    \* the families of a run

ASSUME FamiliesAssumption ==
    \A f \in Families : /\ \A q \in f.rig : Rig!IsRequest(q)
                        /\ \A q \in f.cat : Cat!IsRequest(q)
                        /\ \A q \in f.rig \cup f.cat : LegalOffset(q)

VARIABLE clients

MCInit == StationInit /\ clients \in Families

MCNext ==
    /\ \/ \E q \in clients.rig : RigRequest(q)
       \/ \E q \in clients.cat : CatRequest(q)
    /\ UNCHANGED clients

MCSpec == MCInit /\ [][MCNext]_<<stationVars, clients>>

(* No handler reads the last answer. *)
WithoutAnswer == <<radio, rigMsg, catMsg, parm_ai, parm_af, parm_pwr, clients>>
=============================================================================
