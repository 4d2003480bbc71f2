---------------------------- MODULE FramingProofs ----------------------------
(***************************************************************************)
(* What the recursive definitions of Framing compute when a sequence grows *)
(* by one element, for sequences of every length.                          *)
(*                                                                         *)
(* The provers do not instantiate the induction theorems of the library,   *)
(* which take an operator.  WFMin takes sets only, and is enough: a set of *)
(* naturals without a least element is empty.                              *)
(***************************************************************************)
EXTENDS Framing, Integers, SequenceTheorems, FiniteSetTheorems, WellFoundedInduction, TLAPS

LEMMA LeastNat ==
    ASSUME NEW T, T \subseteq Nat, T # {}
    PROVE  \E x \in T : \A y \in T : x <= y
<1> DEFINE R == OpToRel(<, Nat)
<1>1. \A x, y \in Nat : <<y, x>> \in R <=> y < x
  BY DEF OpToRel
<1>2. IsWellFoundedOn(R, Nat)
  BY NatLessThanWellFounded
<1> HIDE DEF R
<1>3. \E x \in T : \A y \in T : ~ (<<y, x>> \in R)
  BY <1>2, WFMin
<1>4. \A x, y \in T : ~ (<<y, x>> \in R) => x <= y
  BY <1>1
<1> QED BY <1>3, <1>4

LEMMA SetInduction ==
    ASSUME NEW S, 0 \in S, \A n \in Nat : n \in S => n + 1 \in S
    PROVE  Nat \subseteq S
<1> SUFFICES ASSUME ~(Nat \subseteq S) PROVE FALSE
  OBVIOUS
<1> DEFINE T == Nat \ S
<1>1. PICK x \in T : \A y \in T : x <= y
  <2>1. T \subseteq Nat /\ T # {}
    OBVIOUS
  <2> HIDE DEF T
  <2> QED BY <2>1, LeastNat
<1>2. x # 0 /\ x \in Nat
  OBVIOUS
<1>3. x - 1 \in Nat /\ x - 1 \in S
  BY <1>1, <1>2
<1> QED BY <1>2, <1>3

----------------------------------------------------------------------------
(* Recursion over 0..n: from the value a, step i by the function h[i].     *)
LEMMA RecursionExists ==
    ASSUME NEW X, NEW a \in X, NEW n \in Nat, NEW h \in [1..n -> [X -> X]]
    PROVE  \E f \in [0..n -> X] : f[0] = a /\ \A i \in 1..n : f[i] = h[i][f[i-1]]
<1> DEFINE Solves(f, k) == f \in [0..k -> X] /\ f[0] = a /\ \A i \in 1..k : f[i] = h[i][f[i-1]]
           S == {k \in Nat : k <= n => \E f : Solves(f, k)}
<1>1. 0 \in S
  <2>1. Solves([i \in 0..0 |-> a], 0)
    OBVIOUS
  <2> HIDE DEF Solves
  <2> QED BY <2>1
<1>2. ASSUME NEW k \in Nat, k \in S PROVE k + 1 \in S
  <2> SUFFICES ASSUME k + 1 <= n PROVE \E f : Solves(f, k + 1)
    OBVIOUS
  <2>1. PICK f : Solves(f, k)
    BY <1>2
  <2> DEFINE g == [i \in 0..(k+1) |-> IF i = k + 1 THEN h[k+1][f[k]] ELSE f[i]]
  <2>2. h[k+1][f[k]] \in X
    BY <2>1
  <2>3. g \in [0..(k+1) -> X] /\ g[0] = a
    BY <2>1, <2>2
  <2>4. ASSUME NEW i \in 1..(k+1) PROVE g[i] = h[i][g[i-1]]
    <3>1. i - 1 \in 0..(k+1) /\ i - 1 # k + 1
      OBVIOUS
    <3>2. CASE i = k + 1
      BY <3>1, <3>2
    <3>3. CASE i # k + 1
      BY <2>1, <3>1, <3>3
    <3> QED BY <3>2, <3>3
  <2>5. Solves(g, k + 1)
    BY <2>3, <2>4
  <2> HIDE DEF Solves, g
  <2> QED BY <2>5
<1>3. n \in S
  <2> HIDE DEF S
  <2> QED BY <1>1, <1>2, SetInduction
<1> QED BY <1>3

(* Two functions that agree at 0 and step alike agree.                     *)
LEMMA RecursionUnique ==
    ASSUME NEW n \in Nat, NEW f, NEW g, f[0] = g[0],
           \A i \in 1..n : f[i-1] = g[i-1] => f[i] = g[i]
    PROVE  \A i \in 0..n : f[i] = g[i]
<1> DEFINE S == {k \in Nat : k <= n => f[k] = g[k]}
<1>1. 0 \in S
  OBVIOUS
<1>2. ASSUME NEW k \in Nat, k \in S PROVE k + 1 \in S
  BY <1>2
<1>3. Nat \subseteq S
  <2> HIDE DEF S
  <2> QED BY <1>1, <1>2, SetInduction
<1> QED BY <1>3

----------------------------------------------------------------------------
(* The recursive function of Answerable, and the equations it satisfies.   *)
AnswerableUpTo(chn, requests) ==
    CHOOSE upTo : upTo = [n \in 0..Len(requests) |->
        IF n = 0 THEN <<>>
        ELSE IF Outcome(chn, requests[n]) = "answer"
        THEN Append(upTo[n-1], requests[n])
        ELSE upTo[n-1]]

LEMMA AnswerableEquations ==
    ASSUME NEW chn, NEW S, NEW s \in Seq(S)
    PROVE  LET upTo == AnswerableUpTo(chn, s)
           IN  /\ upTo \in [0..Len(s) -> Seq(S)]
               /\ upTo[0] = <<>>
               /\ \A n \in 1..Len(s) :
                     upTo[n] = IF Outcome(chn, s[n]) = "answer" THEN Append(upTo[n-1], s[n]) ELSE upTo[n-1]
               /\ Answerable(chn, s) = upTo[Len(s)]
<1> DEFINE h == [i \in 1..Len(s) |-> [v \in Seq(S) |->
                    IF Outcome(chn, s[i]) = "answer" THEN Append(v, s[i]) ELSE v]]
           body(f, n) == IF n = 0 THEN <<>>
                         ELSE IF Outcome(chn, s[n]) = "answer" THEN Append(f[n-1], s[n]) ELSE f[n-1]
<1>1. Len(s) \in Nat /\ \A i \in 1..Len(s) : s[i] \in S
  OBVIOUS
<1>2. h \in [1..Len(s) -> [Seq(S) -> Seq(S)]]
  BY <1>1
<1>3. <<>> \in Seq(S)
  OBVIOUS
<1>4. PICK f : /\ f \in [0..Len(s) -> Seq(S)]
               /\ f[0] = <<>> /\ \A i \in 1..Len(s) : f[i] = h[i][f[i-1]]
  <2> DEFINE X == Seq(S)
             n == Len(s)
             a == <<>>
  <2>1. n \in Nat /\ a \in X /\ h \in [1..n -> [X -> X]]
    BY <1>1, <1>2, <1>3
  <2> HIDE DEF h, X, n, a
  <2>2. \E f \in [0..n -> X] : f[0] = a /\ \A i \in 1..n : f[i] = h[i][f[i-1]]
    BY <2>1, RecursionExists
  <2> QED BY <2>2 DEF X, n, a
<1>5. \A i \in 1..Len(s) : f[i] = IF Outcome(chn, s[i]) = "answer" THEN Append(f[i-1], s[i]) ELSE f[i-1]
  <2> SUFFICES ASSUME NEW i \in 1..Len(s)
               PROVE  f[i] = IF Outcome(chn, s[i]) = "answer" THEN Append(f[i-1], s[i]) ELSE f[i-1]
    OBVIOUS
  <2>1. f[i-1] \in Seq(S)
    BY <1>4
  <2> QED BY <1>4, <2>1
<1>6. f = [n \in 0..Len(s) |-> body(f, n)]
  <2>1. f[0] = <<>>
    BY <1>4
  <2>2. \A n \in 0..Len(s) : f[n] = body(f, n)
    BY <1>1, <1>5, <2>1
  <2> HIDE DEF body
  <2> QED BY <1>4, <2>2
<1> DEFINE upTo == AnswerableUpTo(chn, s)
<1>7. upTo = [n \in 0..Len(s) |-> body(upTo, n)]
  BY <1>6 DEF AnswerableUpTo
<1>12. \A n \in 0..Len(s) : upTo[n] = body(upTo, n)
  <2> HIDE DEF upTo, body
  <2> QED BY <1>7
<1>8. /\ upTo[0] = <<>>
      /\ \A n \in 1..Len(s) :
            upTo[n] = IF Outcome(chn, s[n]) = "answer" THEN Append(upTo[n-1], s[n]) ELSE upTo[n-1]
  <2> HIDE DEF upTo
  <2> QED BY <1>1, <1>12
<1>9. \A n \in 0..Len(s) : upTo[n] = f[n]
  <2> HIDE DEF upTo
  <2>1. \A i \in 1..Len(s) : upTo[i-1] = f[i-1] => upTo[i] = f[i]
    BY <1>5, <1>8
  <2>2. upTo[0] = f[0]
    BY <1>4, <1>8
  <2>3. Len(s) \in Nat
    BY <1>1
  <2> QED BY <2>1, <2>2, <2>3, RecursionUnique
<1>10. upTo \in [0..Len(s) -> Seq(S)]
  <2> HIDE DEF upTo
  <2> QED BY <1>4, <1>7, <1>9
<1>11. Answerable(chn, s) = upTo[Len(s)]
  BY DEF Answerable, AnswerableUpTo
<1> QED BY <1>8, <1>10, <1>11

(* An answer is due for every request that has one, in their order.        *)
LEMMA AnswerableGrows ==
    ASSUME NEW chn, NEW S, NEW s \in Seq(S), NEW r \in S
    PROVE  /\ Answerable(chn, <<>>) = <<>>
           /\ Answerable(chn, s) \in Seq(S)
           /\ Answerable(chn, Append(s, r)) =
                 IF Outcome(chn, r) = "answer" THEN Append(Answerable(chn, s), r) ELSE Answerable(chn, s)
<1> DEFINE t == Append(s, r)
           f == AnswerableUpTo(chn, s)
           g == AnswerableUpTo(chn, t)
<1>1. /\ t \in Seq(S) /\ Len(t) = Len(s) + 1 /\ t[Len(s) + 1] = r
      /\ Len(s) \in Nat /\ \A i \in 1..Len(s) : t[i] = s[i]
  OBVIOUS
<1>2. /\ f \in [0..Len(s) -> Seq(S)] /\ f[0] = <<>>
      /\ \A n \in 1..Len(s) :
            f[n] = IF Outcome(chn, s[n]) = "answer" THEN Append(f[n-1], s[n]) ELSE f[n-1]
      /\ Answerable(chn, s) = f[Len(s)]
  BY AnswerableEquations
<1>3. /\ g[0] = <<>>
      /\ \A n \in 1..Len(t) :
            g[n] = IF Outcome(chn, t[n]) = "answer" THEN Append(g[n-1], t[n]) ELSE g[n-1]
      /\ Answerable(chn, t) = g[Len(t)]
  <2> HIDE DEF t
  <2> QED BY <1>1, AnswerableEquations
<1>4. \A n \in 0..Len(s) : f[n] = g[n]
  <2> HIDE DEF t, f, g
  <2>1. \A i \in 1..Len(s) : f[i-1] = g[i-1] => f[i] = g[i]
    <3> SUFFICES ASSUME NEW i \in 1..Len(s), f[i-1] = g[i-1] PROVE f[i] = g[i]
      OBVIOUS
    <3>1. i \in 1..Len(t) /\ t[i] = s[i]
      BY <1>1
    <3> QED BY <1>2, <1>3, <3>1
  <2>2. f[0] = g[0] /\ Len(s) \in Nat
    BY <1>1, <1>2, <1>3
  <2> QED BY <2>1, <2>2, RecursionUnique
<1>5. Answerable(chn, t) = IF Outcome(chn, r) = "answer" THEN Append(f[Len(s)], r) ELSE f[Len(s)]
  <2> HIDE DEF t, f, g
  <2>1. Len(t) \in 1..Len(t) /\ Len(t) - 1 = Len(s) /\ Len(s) \in 0..Len(s)
    BY <1>1
  <2> QED BY <1>1, <1>3, <1>4, <2>1
<1>6. Answerable(chn, <<>>) = <<>>
  <2> DEFINE e == <<>>
  <2>1. e \in Seq(S) /\ Len(e) = 0
    OBVIOUS
  <2> HIDE DEF e
  <2>2. /\ AnswerableUpTo(chn, e)[0] = <<>>
        /\ Answerable(chn, e) = AnswerableUpTo(chn, e)[Len(e)]
    BY <2>1, AnswerableEquations
  <2>3. Answerable(chn, e) = <<>>
    BY <2>1, <2>2
  <2> QED BY <2>3 DEF e
<1>7. Answerable(chn, s) \in Seq(S)
  BY <1>1, <1>2
<1> QED BY <1>2, <1>5, <1>6, <1>7

----------------------------------------------------------------------------
(* Position q starts the run of accepted bytes that ends at p.             *)
Starts(chn, s, q, p) ==
    /\ q \in 1..p
    /\ \A k \in q..p : Accepts(chn, s[k])
    /\ q = 1 \/ ~Accepts(chn, s[q-1])

(* An accepted byte ends a run, and a run has one start.                   *)
LEMMA RunStartIs ==
    ASSUME NEW chn, NEW s, NEW p \in Nat \ {0}, Accepts(chn, s[p])
    PROVE  /\ Starts(chn, s, RunStart(chn, s, p), p)
           /\ \A q : Starts(chn, s, q, p) => q = RunStart(chn, s, p)
<1> DEFINE T == {q \in 1..p : \A k \in q..p : Accepts(chn, s[k])}
<1>1. p \in T
  OBVIOUS
<1>2. PICK q \in T : \A r \in T : q <= r
  <2>1. T \subseteq Nat
    OBVIOUS
  <2> HIDE DEF T
  <2> QED BY <1>1, <2>1, LeastNat
<1>3. q = 1 \/ ~Accepts(chn, s[q-1])
  <2> SUFFICES ASSUME q # 1, Accepts(chn, s[q-1]) PROVE FALSE
    OBVIOUS
  <2>1. q - 1 \in 1..p /\ q \in 1..p
    OBVIOUS
  <2>2. ASSUME NEW k \in (q-1)..p PROVE Accepts(chn, s[k])
    <3>1. k = q - 1 \/ k \in q..p
      BY <2>1
    <3> QED BY <3>1
  <2>3. q - 1 \in T
    BY <2>1, <2>2
  <2> HIDE DEF T
  <2> QED BY <1>2, <2>1, <2>3
<1>4. Starts(chn, s, q, p)
  BY <1>3 DEF Starts
<1>5. ASSUME NEW m, NEW n, Starts(chn, s, m, p), Starts(chn, s, n, p), m < n PROVE FALSE
  <2>1. n # 1 /\ n - 1 \in m..p
    BY <1>5 DEF Starts
  <2> QED BY <1>5, <2>1 DEF Starts
<1>6. ASSUME NEW m, NEW n, Starts(chn, s, m, p), Starts(chn, s, n, p) PROVE m = n
  <2>1. m \in Nat /\ n \in Nat
    BY <1>6 DEF Starts
  <2>2. ~(m < n) /\ ~(n < m)
    BY <1>5, <1>6
  <2> QED BY <2>1, <2>2
<1>7. Starts(chn, s, RunStart(chn, s, p), p)
  BY <1>4 DEF Starts, RunStart
<1> QED BY <1>6, <1>7

(* What follows a run does not move its start.                             *)
LEMMA RunStartKept ==
    ASSUME NEW chn, NEW s \in Seq(Byte), NEW b \in Byte, NEW p \in 1..Len(s), Accepts(chn, s[p])
    PROVE  RunStart(chn, Append(s, b), p) = RunStart(chn, s, p)
<1> DEFINE t == Append(s, b)
<1>1. \A k \in 1..p : t[k] = s[k]
  OBVIOUS
<1> HIDE DEF t
<1>2. Accepts(chn, t[p]) /\ p \in Nat \ {0}
  BY <1>1
<1>3. Starts(chn, s, RunStart(chn, s, p), p)
  BY <1>2, RunStartIs
<1>4. Starts(chn, t, RunStart(chn, s, p), p)
  <2> DEFINE q == RunStart(chn, s, p)
  <2> HIDE DEF q
  <2>1. Starts(chn, s, q, p)
    BY <1>3 DEF q
  <2>2. q \in 1..p
    BY <2>1 DEF Starts
  <2>3. \A k \in q..p : t[k] = s[k]
    BY <1>1, <2>2
  <2>4. q # 1 => t[q-1] = s[q-1]
    BY <1>1, <2>2
  <2>5. Starts(chn, t, q, p)
    BY <2>1, <2>2, <2>3, <2>4 DEF Starts
  <2> QED BY <2>5 DEF q
<1>5. RunStart(chn, s, p) = RunStart(chn, t, p)
  BY <1>2, <1>4, RunStartIs
<1> QED BY <1>5 DEF t

(* The run of accepted bytes at the end of a stream.                       *)
OpenRun(chn, s) ==
    IF s = <<>> \/ ~Accepts(chn, s[Len(s)]) THEN <<>>
    ELSE SubSeq(s, RunStart(chn, s, Len(s)), Len(s))

LEMMA OpenRunType ==
    ASSUME NEW chn, NEW s \in Seq(Byte)
    PROVE  /\ OpenRun(chn, s) \in Seq(Byte)
           /\ s # <<>> /\ Accepts(chn, s[Len(s)]) =>
                 /\ RunStart(chn, s, Len(s)) \in 1..Len(s)
                 /\ Len(OpenRun(chn, s)) = Len(s) - RunStart(chn, s, Len(s)) + 1
<1>1. CASE s = <<>> \/ ~Accepts(chn, s[Len(s)])
  BY <1>1 DEF OpenRun
<1>2. CASE s # <<>> /\ Accepts(chn, s[Len(s)])
  <2>1. Len(s) \in Nat \ {0}
    BY <1>2
  <2> DEFINE q == RunStart(chn, s, Len(s))
  <2>2. q \in 1..Len(s)
    BY <1>2, <2>1, RunStartIs DEF Starts
  <2>3. OpenRun(chn, s) = SubSeq(s, q, Len(s))
    BY <1>2 DEF OpenRun
  <2> HIDE DEF q
  <2>4. SubSeq(s, q, Len(s)) \in Seq(Byte) /\ Len(SubSeq(s, q, Len(s))) = Len(s) - q + 1
    BY <2>1, <2>2, SubSeqProperties
  <2> QED BY <2>2, <2>3, <2>4 DEF q
<1> QED BY <1>1, <1>2

(* It grows by every accepted byte, and ends at any other.                 *)
LEMMA OpenRunGrows ==
    ASSUME NEW chn, NEW s \in Seq(Byte), NEW b \in Byte
    PROVE  OpenRun(chn, Append(s, b)) =
              IF Accepts(chn, b) THEN Append(OpenRun(chn, s), b) ELSE <<>>
<1> DEFINE t == Append(s, b)
           n == Len(s)
<1>1. /\ t \in Seq(Byte) /\ Len(t) = n + 1 /\ t[n+1] = b /\ t # <<>>
      /\ n \in Nat /\ \A k \in 1..n : t[k] = s[k]
  OBVIOUS
<1>2. CASE ~Accepts(chn, b)
  <2> HIDE DEF t, n
  <2> QED BY <1>1, <1>2 DEF OpenRun, t
<1>3. CASE Accepts(chn, b) /\ (s = <<>> \/ ~Accepts(chn, s[n]))
  <2>1. OpenRun(chn, s) = <<>>
    BY <1>3 DEF OpenRun
  <2>2. Starts(chn, t, n+1, n+1)
    <3>1. n + 1 = 1 \/ ~Accepts(chn, t[n])
      <4>1. CASE s = <<>>
        BY <4>1
      <4>2. CASE s # <<>>
        <5>1. n \in 1..n
          BY <4>2
        <5> HIDE DEF t, n
        <5> QED BY <1>1, <1>3, <4>2, <5>1 DEF n
      <4> QED BY <4>1, <4>2
    <3> HIDE DEF t, n
    <3> QED BY <1>1, <1>3, <3>1 DEF Starts
  <2>3. RunStart(chn, t, n+1) = n + 1
    <3> HIDE DEF t, n
    <3> QED BY <1>1, <1>3, <2>2, RunStartIs
  <2>4. OpenRun(chn, t) = SubSeq(t, n+1, n+1)
    <3> HIDE DEF t, n
    <3> QED BY <1>1, <1>3, <2>3 DEF OpenRun
  <2>5. SubSeq(t, n+1, n+1) = <<b>>
    <3> DEFINE u == SubSeq(t, n+1, n+1)
               w == <<b>>
    <3>1. w \in Seq(Byte) /\ Len(w) = 1 /\ w[1] = b
      OBVIOUS
    <3>2. u \in Seq(Byte) /\ Len(u) = 1 /\ u[1] = b
      <4> HIDE DEF t, n
      <4>1. \A i \in (n+1)..(n+1) : t[i] \in Byte
        BY <1>1
      <4>2. u \in Seq(Byte) /\ Len(u) = 1 /\ u[1] = t[(n+1) + 1 - 1]
        BY <1>1, <4>1, SubSeqProperties
      <4> QED BY <1>1, <4>2
    <3> HIDE DEF u, w
    <3>3. u = w
      BY <3>1, <3>2, SeqEqual
    <3> QED BY <3>3 DEF u, w
  <2>6. Append(<<>>, b) = <<b>>
    OBVIOUS
  <2> HIDE DEF t, n
  <2> QED BY <1>3, <2>1, <2>4, <2>5, <2>6 DEF t
<1>4. CASE Accepts(chn, b) /\ s # <<>> /\ Accepts(chn, s[n])
  <2> DEFINE q == RunStart(chn, s, n)
  <2>0. n \in Nat \ {0}
    BY <1>4
  <2>1. Starts(chn, s, q, n)
    BY <1>4, <2>0, RunStartIs
  <2> HIDE DEF q
  <2>2. Starts(chn, t, q, n+1)
    <3> HIDE DEF t, n
    <3>1. q \in 1..n /\ q \in 1..(n+1)
      BY <2>0, <2>1 DEF Starts
    <3>2. ASSUME NEW k \in q..(n+1) PROVE Accepts(chn, t[k])
      <4>1. k = n + 1 \/ (k \in q..n /\ k \in 1..n)
        BY <2>0, <3>1
      <4> QED BY <1>1, <1>4, <2>1, <4>1 DEF Starts
    <3>3. q # 1 => t[q-1] = s[q-1]
      BY <1>1, <3>1
    <3> QED BY <2>1, <3>1, <3>2, <3>3 DEF Starts
  <2>3. RunStart(chn, t, n+1) = q /\ q \in 1..n
    <3> HIDE DEF t, n
    <3> QED BY <1>1, <1>4, <2>0, <2>1, <2>2, RunStartIs DEF Starts
  <2>4. OpenRun(chn, t) = SubSeq(t, q, n+1)
    <3> HIDE DEF t, n
    <3> QED BY <1>1, <1>4, <2>3 DEF OpenRun
  <2>5. OpenRun(chn, s) = SubSeq(s, q, n)
    BY <1>4 DEF OpenRun, q
  <2>6. SubSeq(t, q, n+1) = Append(SubSeq(s, q, n), b)
    BY <2>3
  <2> HIDE DEF t, n
  <2> QED BY <1>4, <2>4, <2>5, <2>6 DEF t
<1> QED BY <1>2, <1>3, <1>4

----------------------------------------------------------------------------
(* The recursive function of RequestsOf, and the equations it satisfies.   *)
RequestsUpTo(chn, s) ==
    CHOOSE upTo : upTo = [p \in 0..Len(s) |->
        IF p = 0 THEN <<>>
        ELSE IF p \in RequestEnds(chn, s)
        THEN Append(upTo[p-1], SubSeq(s, RunStart(chn, s, p), p))
        ELSE upTo[p-1]]

RequestAt(chn, s, p) == SubSeq(s, RunStart(chn, s, p), p)

LEMMA RequestAtType ==
    ASSUME NEW chn \in Channel, NEW s \in Seq(Byte), NEW p \in RequestEnds(chn, s)
    PROVE  p \in 1..Len(s) /\ Accepts(chn, s[p]) /\ RequestAt(chn, s, p) \in Seq(Byte)
<1>1. p \in 1..Len(s) /\ p \in Nat \ {0}
  BY DEF RequestEnds
<1>2. Accepts(chn, s[p])
  BY <1>1 DEF RequestEnds, Channel
<1>3. RunStart(chn, s, p) \in 1..p
  BY <1>1, <1>2, RunStartIs DEF Starts
<1> DEFINE q == RunStart(chn, s, p)
<1> HIDE DEF q
<1>4. q \in 1..p
  BY <1>3 DEF q
<1>5. SubSeq(s, q, p) \in Seq(Byte)
  BY <1>1, <1>4
<1> QED BY <1>1, <1>2, <1>5 DEF q, RequestAt

LEMMA RequestsEquations ==
    ASSUME NEW chn \in Channel, NEW s \in Seq(Byte)
    PROVE  LET upTo == RequestsUpTo(chn, s)
           IN  /\ upTo[0] = <<>>
               /\ \A p \in 1..Len(s) :
                     upTo[p] = IF p \in RequestEnds(chn, s)
                               THEN Append(upTo[p-1], RequestAt(chn, s, p)) ELSE upTo[p-1]
               /\ upTo \in [0..Len(s) -> Seq(Seq(Byte))]
               /\ RequestsOf(chn, s) = upTo[Len(s)]
<1> DEFINE X == Seq(Seq(Byte))
           n == Len(s)
           a == <<>>
           h == [i \in 1..n |-> [v \in X |->
                    IF i \in RequestEnds(chn, s) THEN Append(v, RequestAt(chn, s, i)) ELSE v]]
           body(f, p) == IF p = 0 THEN <<>>
                         ELSE IF p \in RequestEnds(chn, s)
                         THEN Append(f[p-1], RequestAt(chn, s, p))
                         ELSE f[p-1]
<1>1. n \in Nat /\ a \in X
  OBVIOUS
<1>2. h \in [1..n -> [X -> X]]
  <2> SUFFICES ASSUME NEW i \in 1..n, NEW v \in X
               PROVE  (IF i \in RequestEnds(chn, s) THEN Append(v, RequestAt(chn, s, i)) ELSE v) \in X
    OBVIOUS
  <2>1. i \in RequestEnds(chn, s) => RequestAt(chn, s, i) \in Seq(Byte)
    BY RequestAtType
  <2> QED BY <2>1
<1>3. PICK f : f \in [0..n -> X] /\ f[0] = a /\ \A i \in 1..n : f[i] = h[i][f[i-1]]
  <2>1. n \in Nat /\ a \in X /\ h \in [1..n -> [X -> X]]
    BY <1>1, <1>2
  <2> HIDE DEF X, n, a, h
  <2>2. \E f \in [0..n -> X] : f[0] = a /\ \A i \in 1..n : f[i] = h[i][f[i-1]]
    BY <2>1, RecursionExists, SMTT(30)
  <2> QED BY <2>2
<1>4. \A i \in 1..n : f[i] = IF i \in RequestEnds(chn, s) THEN Append(f[i-1], RequestAt(chn, s, i)) ELSE f[i-1]
  <2> SUFFICES ASSUME NEW i \in 1..n
               PROVE  f[i] = IF i \in RequestEnds(chn, s) THEN Append(f[i-1], RequestAt(chn, s, i)) ELSE f[i-1]
    OBVIOUS
  <2>1. f[i-1] \in X
    BY <1>1, <1>3
  <2> HIDE DEF X, n
  <2> QED BY <1>3, <2>1
<1>5. f = [p \in 0..n |-> body(f, p)]
  <2>1. f[0] = <<>>
    BY <1>3
  <2>2. \A p \in 0..n : f[p] = body(f, p)
    BY <1>1, <1>4, <2>1
  <2> HIDE DEF body
  <2> QED BY <1>3, <2>2
<1> DEFINE upTo == RequestsUpTo(chn, s)
<1>6. upTo = [p \in 0..n |-> body(upTo, p)]
  BY <1>5 DEF RequestsUpTo, RequestAt
<1>7. \A p \in 0..n : upTo[p] = body(upTo, p)
  <2> HIDE DEF upTo, body
  <2> QED BY <1>6
<1>8. /\ upTo[0] = <<>>
      /\ \A p \in 1..n :
            upTo[p] = IF p \in RequestEnds(chn, s) THEN Append(upTo[p-1], RequestAt(chn, s, p)) ELSE upTo[p-1]
  <2> HIDE DEF upTo
  <2> QED BY <1>1, <1>7
<1>9. \A p \in 0..n : upTo[p] = f[p]
  <2> HIDE DEF upTo, n
  <2>1. \A i \in 1..n : upTo[i-1] = f[i-1] => upTo[i] = f[i]
    BY <1>4, <1>8
  <2>2. upTo[0] = f[0]
    BY <1>3, <1>8
  <2> QED BY <1>1, <2>1, <2>2, RecursionUnique
<1>10. upTo \in [0..n -> X]
  <2> HIDE DEF upTo, X, n
  <2> QED BY <1>3, <1>6, <1>9
<1>11. RequestsOf(chn, s) = upTo[n]
  BY DEF RequestsOf, RequestsUpTo
<1> QED BY <1>8, <1>10, <1>11

(* The byte that closes a request never belongs to one.                    *)
LEMMA TerminatorApart ==
    ASSUME NEW chn \in Channel
    PROVE  ~Accepts(chn, Terminator(chn))
<1>1. Semi \notin Alnum /\ Eol \notin Alnum
  BY FramingAssumption DEF FramingAssumption
<1>2. ASSUME NEW a, NEW b, NEW c, NEW d PROVE Cardinality({a, b, c, d}) # 5
  <2>1. IsFiniteSet({}) /\ Cardinality({}) = 0
    BY FS_EmptySet
  <2>2. IsFiniteSet({} \cup {a}) /\ Cardinality({} \cup {a}) \in 0..1
    BY <2>1, FS_AddElement
  <2>3. IsFiniteSet(({} \cup {a}) \cup {b}) /\ Cardinality(({} \cup {a}) \cup {b}) \in 0..2
    BY <2>2, FS_AddElement
  <2>4. /\ IsFiniteSet((({} \cup {a}) \cup {b}) \cup {c})
        /\ Cardinality((({} \cup {a}) \cup {b}) \cup {c}) \in 0..3
    BY <2>3, FS_AddElement
  <2>5. Cardinality(((({} \cup {a}) \cup {b}) \cup {c}) \cup {d}) \in 0..4
    BY <2>4, FS_AddElement
  <2>6. ((({} \cup {a}) \cup {b}) \cup {c}) \cup {d} = {a, b, c, d}
    OBVIOUS
  <2> QED BY <2>5, <2>6
<1>3. Cardinality({Hash, Plus, Semi, Eol, Bad}) = 5
  BY FramingAssumption DEF FramingAssumption
<1>4. Eol # Hash
  <2> SUFFICES ASSUME Eol = Hash PROVE FALSE
    OBVIOUS
  <2>1. {Hash, Plus, Semi, Eol, Bad} = {Hash, Plus, Semi, Bad}
    OBVIOUS
  <2> QED BY <1>2, <1>3, <2>1
<1>5. Eol # Plus
  <2> SUFFICES ASSUME Eol = Plus PROVE FALSE
    OBVIOUS
  <2>1. {Hash, Plus, Semi, Eol, Bad} = {Hash, Plus, Semi, Bad}
    OBVIOUS
  <2> QED BY <1>2, <1>3, <2>1
<1>6. Eol # Semi
  <2> SUFFICES ASSUME Eol = Semi PROVE FALSE
    OBVIOUS
  <2>1. {Hash, Plus, Semi, Eol, Bad} = {Hash, Plus, Semi, Bad}
    OBVIOUS
  <2> QED BY <1>2, <1>3, <2>1
<1> QED BY <1>1, <1>4, <1>5, <1>6 DEF Accepts, Terminator, Channel

(* The run at the end of a stream is long enough to be a request.          *)
LEMMA OpenRunLength ==
    ASSUME NEW chn, NEW s \in Seq(Byte)
    PROVE  /\ Len(OpenRun(chn, s)) > 0 <=> s # <<>> /\ Accepts(chn, s[Len(s)])
           /\ Len(OpenRun(chn, s)) > 1 <=>
                 Len(s) > 1 /\ Accepts(chn, s[Len(s)]) /\ Accepts(chn, s[Len(s)-1])
<1> DEFINE n == Len(s)
           q == RunStart(chn, s, n)
<1>1. n \in Nat /\ (s = <<>> <=> n = 0)
  OBVIOUS
<1>2. CASE s = <<>> \/ ~Accepts(chn, s[n])
  <2>1. OpenRun(chn, s) = <<>>
    BY <1>2 DEF OpenRun
  <2>2. Len(OpenRun(chn, s)) = 0
    BY <2>1
  <2> HIDE DEF n
  <2> QED BY <1>1, <1>2, <2>2 DEF n
<1>3. CASE s # <<>> /\ Accepts(chn, s[n])
  <2>1. q \in 1..n /\ Len(OpenRun(chn, s)) = n - q + 1
    BY <1>3, OpenRunType
  <2>2. Starts(chn, s, q, n)
    <3>1. n \in Nat \ {0}
      BY <1>3
    <3> QED BY <1>3, <3>1, RunStartIs
  <2> HIDE DEF n, q
  <2>3. q = n => n = 1 \/ ~Accepts(chn, s[n-1])
    BY <2>2 DEF Starts
  <2>4. q # n => n > 1 /\ Accepts(chn, s[n-1])
    <3> SUFFICES ASSUME q # n PROVE n > 1 /\ Accepts(chn, s[n-1])
      OBVIOUS
    <3>1. n - 1 \in q..n
      BY <1>1, <2>1
    <3> QED BY <1>1, <2>1, <2>2, <3>1 DEF Starts
  <2> QED BY <1>1, <1>3, <2>1, <2>3, <2>4 DEF n
<1> QED BY <1>2, <1>3

(* A byte adds a request end where it completes the run before it.         *)
LEMMA EndsGrow ==
    ASSUME NEW chn \in Channel, NEW s \in Seq(Byte), NEW b \in Byte
    PROVE  /\ \A p \in 1..(Len(s)-1) : p \in RequestEnds(chn, Append(s, b)) <=> p \in RequestEnds(chn, s)
           /\ Len(s) \notin RequestEnds(chn, s)
           /\ Len(s) \in RequestEnds(chn, Append(s, b)) <=> Completes(chn, b, OpenRun(chn, s))
           /\ Len(s) + 1 \notin RequestEnds(chn, Append(s, b))
<1> DEFINE t == Append(s, b)
           n == Len(s)
<1>1. /\ t \in Seq(Byte) /\ Len(t) = n + 1 /\ t[n+1] = b
      /\ n \in Nat /\ \A k \in 1..n : t[k] = s[k]
  OBVIOUS
<1>2. ASSUME NEW p \in 1..(n-1)
      PROVE  p \in RequestEnds(chn, t) <=> p \in RequestEnds(chn, s)
  <2> HIDE DEF t, n
  <2>1. p + 1 \in 1..n /\ p \in 1..n /\ p \in 1..(Len(t) - 1) /\ p \in Nat
    BY <1>1
  <2>2. t[p+1] = s[p+1]
    BY <1>1, <2>1
  <2>3. \A k \in (IF chn = 1 THEN p ELSE p-1)..p : k > 0 => t[k] = s[k]
    BY <1>1, <2>1
  <2> QED BY <2>1, <2>2, <2>3 DEF RequestEnds, n
<1>3. n \notin RequestEnds(chn, s) /\ n + 1 \notin RequestEnds(chn, t)
  <2> HIDE DEF t, n
  <2> QED BY <1>1 DEF RequestEnds, n
<1>4. n \in RequestEnds(chn, t) <=> Completes(chn, b, OpenRun(chn, s))
  <2>0. /\ Len(OpenRun(chn, s)) > 0 <=> n > 0 /\ Accepts(chn, s[n])
        /\ Len(OpenRun(chn, s)) > 1 <=> n > 1 /\ Accepts(chn, s[n]) /\ Accepts(chn, s[n-1])
    BY OpenRunLength
  <2> HIDE DEF t, n
  <2>1. n \in 1..(Len(t) - 1) <=> n > 0
    BY <1>1
  <2>2. CASE chn = 1
    <3>1. n \in RequestEnds(chn, t) <=> n > 0 /\ b = Eol /\ Accepts(chn, t[n])
      BY <1>1, <2>1, <2>2 DEF RequestEnds, Terminator
    <3>2. n > 0 => t[n] = s[n]
      BY <1>1
    <3> QED BY <2>0, <2>2, <3>1, <3>2 DEF Completes
  <2>3. CASE chn = 2
    <3>1. n \in RequestEnds(chn, t) <=>
             n > 0 /\ b = Semi /\ \A k \in (n-1)..n : k > 0 /\ Accepts(chn, t[k])
      BY <1>1, <2>1, <2>3 DEF RequestEnds, Terminator
    <3>2. (\A k \in (n-1)..n : k > 0 /\ Accepts(chn, t[k]))
             <=> n - 1 > 0 /\ Accepts(chn, t[n-1]) /\ Accepts(chn, t[n])
      BY <1>1
    <3>3. n > 1 => t[n] = s[n] /\ t[n-1] = s[n-1]
      BY <1>1
    <3> QED BY <1>1, <2>0, <2>3, <3>1, <3>2, <3>3 DEF Completes
  <2> QED BY <2>2, <2>3 DEF Channel
<1> QED BY <1>2, <1>3, <1>4

(* The requests of a stream grow by the run a byte completes.              *)
LEMMA RequestsGrow ==
    ASSUME NEW chn \in Channel, NEW s \in Seq(Byte), NEW b \in Byte
    PROVE  /\ RequestsOf(chn, <<>>) = <<>>
           /\ RequestsOf(chn, s) \in Seq(Seq(Byte))
           /\ RequestsOf(chn, Append(s, b)) =
                 IF Completes(chn, b, OpenRun(chn, s))
                 THEN Append(RequestsOf(chn, s), OpenRun(chn, s))
                 ELSE RequestsOf(chn, s)
<1> DEFINE t == Append(s, b)
           n == Len(s)
           f == RequestsUpTo(chn, s)
           g == RequestsUpTo(chn, t)
<1>1. /\ t \in Seq(Byte) /\ Len(t) = n + 1
      /\ n \in Nat /\ \A k \in 1..n : t[k] = s[k]
  OBVIOUS
<1>2. /\ f[0] = <<>>
      /\ \A p \in 1..n : f[p] = IF p \in RequestEnds(chn, s)
                                THEN Append(f[p-1], RequestAt(chn, s, p)) ELSE f[p-1]
      /\ RequestsOf(chn, s) = f[n]
  BY RequestsEquations
<1>3. /\ g[0] = <<>>
      /\ \A p \in 1..Len(t) : g[p] = IF p \in RequestEnds(chn, t)
                                     THEN Append(g[p-1], RequestAt(chn, t, p)) ELSE g[p-1]
      /\ RequestsOf(chn, t) = g[Len(t)]
  <2> HIDE DEF t
  <2> QED BY <1>1, RequestsEquations
<1>4. /\ \A p \in 1..(n-1) : p \in RequestEnds(chn, t) <=> p \in RequestEnds(chn, s)
      /\ n \notin RequestEnds(chn, s)
      /\ n \in RequestEnds(chn, t) <=> Completes(chn, b, OpenRun(chn, s))
      /\ n + 1 \notin RequestEnds(chn, t)
  BY EndsGrow
<1>5. ASSUME NEW p \in 1..n, Accepts(chn, s[p])
      PROVE  RequestAt(chn, t, p) = RequestAt(chn, s, p)
  <2>1. RunStart(chn, t, p) = RunStart(chn, s, p)
    BY <1>5, RunStartKept
  <2>2. RunStart(chn, s, p) \in 1..p
    <3>1. p \in Nat \ {0}
      OBVIOUS
    <3> QED BY <1>5, <3>1, RunStartIs DEF Starts
  <2> DEFINE q == RunStart(chn, s, p)
  <2> HIDE DEF q
  <2>3. q \in 1..p
    BY <2>2 DEF q
  <2>4. SubSeq(t, q, p) = SubSeq(s, q, p)
    BY <2>3
  <2> QED BY <2>1, <2>4 DEF q, RequestAt
<1>6. \A i \in 0..n : i < n \/ n = 0 => f[i] = g[i]
  <2> HIDE DEF t, n, f, g
  <2> DEFINE m == IF n = 0 THEN 0 ELSE n - 1
  <2>1. m \in Nat /\ m <= n /\ \A i \in 0..n : i < n \/ n = 0 => i \in 0..m
    BY <1>1
  <2>2. \A i \in 1..m : f[i-1] = g[i-1] => f[i] = g[i]
    <3> SUFFICES ASSUME NEW i \in 1..m, f[i-1] = g[i-1] PROVE f[i] = g[i]
      OBVIOUS
    <3>1. i \in 1..n /\ i \in 1..(n-1) /\ i \in 1..Len(t)
      BY <1>1
    <3>2. CASE i \in RequestEnds(chn, s)
      <4>1. RequestAt(chn, t, i) = RequestAt(chn, s, i)
        BY <1>5, <3>1, <3>2, RequestAtType
      <4> QED BY <1>2, <1>3, <1>4, <3>1, <3>2, <4>1
    <3>3. CASE i \notin RequestEnds(chn, s)
      BY <1>2, <1>3, <1>4, <3>1, <3>3
    <3> QED BY <3>2, <3>3
  <2>3. f[0] = g[0]
    BY <1>2, <1>3
  <2> HIDE DEF m
  <2>4. \A i \in 0..m : f[i] = g[i]
    BY <2>1, <2>2, <2>3, RecursionUnique
  <2> QED BY <2>1, <2>4
<1>7. g[n+1] = g[n]
  <2> HIDE DEF t, n, f, g
  <2>1. n + 1 \in 1..Len(t) /\ (n + 1) - 1 = n
    BY <1>1
  <2> QED BY <1>3, <1>4, <2>1
<1>8. ASSUME n = 0
      PROVE  RequestsOf(chn, t) = IF Completes(chn, b, OpenRun(chn, s))
                                  THEN Append(RequestsOf(chn, s), OpenRun(chn, s))
                                  ELSE RequestsOf(chn, s)
  <2>1. f[n] = g[n]
    BY <1>1, <1>6, <1>8
  <2>2. ~Completes(chn, b, OpenRun(chn, s))
    <3>1. n \notin RequestEnds(chn, t)
      <4> HIDE DEF t, n
      <4> QED BY <1>8 DEF RequestEnds
    <3> QED BY <1>4, <3>1
  <2> HIDE DEF n, f, g
  <2>3. RequestsOf(chn, t) = RequestsOf(chn, s)
    BY <1>1, <1>2, <1>3, <1>7, <2>1
  <2> QED BY <2>2, <2>3
<1>9. ASSUME n # 0
      PROVE  RequestsOf(chn, t) = IF Completes(chn, b, OpenRun(chn, s))
                                  THEN Append(RequestsOf(chn, s), OpenRun(chn, s))
                                  ELSE RequestsOf(chn, s)
  <2>1. f[n] = f[n-1] /\ f[n-1] = g[n-1]
    <3> HIDE DEF t, n, f, g
    <3>1. n \in 1..n /\ n - 1 \in 0..n /\ n - 1 < n
      BY <1>1, <1>9
    <3> QED BY <1>2, <1>4, <1>6, <3>1
  <2>2. g[n] = IF n \in RequestEnds(chn, t) THEN Append(g[n-1], RequestAt(chn, t, n)) ELSE g[n-1]
    <3> HIDE DEF t, n, f, g
    <3>1. n \in 1..Len(t)
      BY <1>1, <1>9
    <3> QED BY <1>3, <3>1
  <2>3. Completes(chn, b, OpenRun(chn, s)) => RequestAt(chn, t, n) = OpenRun(chn, s)
    <3> SUFFICES ASSUME Completes(chn, b, OpenRun(chn, s)) PROVE RequestAt(chn, t, n) = OpenRun(chn, s)
      OBVIOUS
    <3>1. n \in RequestEnds(chn, t)
      BY <1>4
    <3>2. Accepts(chn, t[n]) /\ t[n] = s[n]
      <4> HIDE DEF t, n
      <4>1. n \in 1..n
        BY <1>1, <1>9
      <4> QED BY <1>1, <3>1, <4>1, RequestAtType
    <3>3. n \in 1..n /\ s # <<>>
      BY <1>9
    <3>4. RequestAt(chn, t, n) = RequestAt(chn, s, n)
      BY <1>5, <3>2, <3>3
    <3> QED BY <3>2, <3>3, <3>4 DEF OpenRun, RequestAt
  <2> HIDE DEF t, n, f, g
  <2> QED BY <1>1, <1>2, <1>3, <1>4, <1>7, <2>1, <2>2, <2>3
<1>10. RequestsOf(chn, <<>>) = <<>>
  <2> DEFINE e == <<>>
  <2>1. e \in Seq(Byte) /\ Len(e) = 0
    OBVIOUS
  <2> HIDE DEF e
  <2>2. /\ RequestsUpTo(chn, e)[0] = <<>>
        /\ RequestsOf(chn, e) = RequestsUpTo(chn, e)[Len(e)]
    BY <2>1, RequestsEquations
  <2>3. RequestsOf(chn, e) = <<>>
    BY <2>1, <2>2
  <2> QED BY <2>3 DEF e
<1>11. RequestsOf(chn, s) \in Seq(Seq(Byte))
  <2>1. f \in [0..n -> Seq(Seq(Byte))] /\ RequestsOf(chn, s) = f[n]
    BY RequestsEquations
  <2> QED BY <1>1, <2>1
<1> QED BY <1>8, <1>9, <1>10, <1>11

(* A stream that fits the buffer fitted it all along, and its open run     *)
(* leaves room for the byte that ends it.                                  *)
LEMMA FitsGrow ==
    ASSUME NEW chn, NEW s \in Seq(Byte), NEW b \in Byte
    PROVE  /\ FitsBuffer(chn, Append(s, b)) => FitsBuffer(chn, s)
           /\ FitsBuffer(chn, s) => Len(OpenRun(chn, s)) < RxSize
<1> DEFINE t == Append(s, b)
           n == Len(s)
<1>1. /\ t \in Seq(Byte) /\ Len(t) = n + 1 /\ n \in Nat /\ \A k \in 1..n : t[k] = s[k]
  OBVIOUS
<1>2. ASSUME FitsBuffer(chn, t) PROVE FitsBuffer(chn, s)
  <2> SUFFICES ASSUME NEW p \in 1..n, Accepts(chn, s[p])
               PROVE  p - RunStart(chn, s, p) < RxSize - 1
    BY DEF FitsBuffer
  <2>1. RunStart(chn, t, p) = RunStart(chn, s, p)
    BY RunStartKept
  <2> HIDE DEF t, n
  <2>2. p \in 1..Len(t) /\ Accepts(chn, t[p])
    BY <1>1
  <2> QED BY <1>2, <2>1, <2>2 DEF FitsBuffer
<1>3. ASSUME FitsBuffer(chn, s) PROVE Len(OpenRun(chn, s)) < RxSize
  <2>0. RxSize \in Nat \ {0}
    BY FramingAssumption DEF FramingAssumption
  <2>1. CASE s = <<>> \/ ~Accepts(chn, s[n])
    <3>1. OpenRun(chn, s) = <<>>
      BY <2>1 DEF OpenRun
    <3> QED BY <2>0, <3>1
  <2>2. CASE s # <<>> /\ Accepts(chn, s[n])
    <3>1. RunStart(chn, s, n) \in 1..n /\ Len(OpenRun(chn, s)) = n - RunStart(chn, s, n) + 1
      BY <2>2, OpenRunType
    <3>2. n \in 1..n
      BY <2>2
    <3>3. n - RunStart(chn, s, n) < RxSize - 1
      <4> HIDE DEF n
      <4> QED BY <1>3, <2>2, <3>2 DEF FitsBuffer, n
    <3> HIDE DEF n
    <3> QED BY <1>1, <2>0, <3>1, <3>3
  <2> QED BY <2>1, <2>2
<1> QED BY <1>2, <1>3
=============================================================================
