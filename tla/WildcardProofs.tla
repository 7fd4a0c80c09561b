---------------------------- MODULE WildcardProofs ----------------------------
(***************************************************************************)
(* The LIKE pattern of a search term, for terms and texts of every length. *)
(* A pattern is the pieces of the characters of its term, one behind the   *)
(* other; the matcher of LIKE, at the end of every piece, has come exactly *)
(* as far into a text as the term up to that character.                    *)
(***************************************************************************)
EXTENDS Wildcards, WellFoundedInduction, TLAPS

\* Induction on the length of a term or of a pattern: of the numbers outside of S there
\* would be a least one.
LEMMA NatInd ==
  ASSUME NEW S, 0 \in S, \A n \in Nat : n \in S => n + 1 \in S
  PROVE  Nat \subseteq S
<1> SUFFICES ASSUME Nat \ S # {} PROVE FALSE
  BY Zenon
<1> DEFINE R == OpToRel(<, Nat)
           T == Nat \ S
<1>1. \E x \in T : \A y \in T : ~ (<<y, x>> \in R)
  <2>1. IsWellFoundedOn(R, Nat)
    BY NatLessThanWellFounded, Zenon
  <2>2. T \subseteq Nat /\ T # {}
    BY Zenon
  <2> HIDE DEF R, T
  <2> QED
    BY <2>1, <2>2, WFMin, Zenon
<1>2. PICK x \in T : \A y \in T : ~ (<<y, x>> \in R)
  BY <1>1, Zenon
<1>3. x # 0 /\ x - 1 \in Nat /\ x \in Nat
  OBVIOUS
<1>4. x - 1 \in T
  BY <1>3
<1>5. <<x - 1, x>> \in R
  BY <1>3 DEF OpToRel
<1> QED
  BY <1>2, <1>4, <1>5, Zenon

-----------------------------------------------------------------------------
(* The pattern of a search term                                            *)

\* What escapeLikeLiterals has written after n characters, f[n - 1] being what it has before.
EscapeStep(s, f, n) == IF n = 0 THEN <<>> ELSE f[n - 1] \o Escaped(s[n])

\* There is a function that EscapeStep computes, for terms of every length.
LEMMA EscapeExists ==
  ASSUME NEW s, NEW N \in Nat
  PROVE  \E f : f = [n \in 0..N |-> EscapeStep(s, f, n)]
<1> DEFINE G == {m \in Nat : \E f : f = [n \in 0..m |-> EscapeStep(s, f, n)]}
<1>1. 0 \in G
  <2> DEFINE f == [n \in 0..0 |-> <<>>]
  <2>1. f = [n \in 0..0 |-> EscapeStep(s, f, n)]
    BY DEF EscapeStep
  <2> HIDE DEF f
  <2> QED
    BY <2>1, Zenon
<1>2. ASSUME NEW m \in Nat, m \in G PROVE m + 1 \in G
  <2>1. PICK f : f = [n \in 0..m |-> EscapeStep(s, f, n)]
    BY <1>2, Zenon
  <2> DEFINE g == [n \in 0..m + 1 |-> IF n = m + 1 THEN EscapeStep(s, f, n) ELSE f[n]]
  <2>2. ASSUME NEW n \in 0..m + 1 PROVE g[n] = EscapeStep(s, g, n)
    <3>1. n # 0 => g[n - 1] = f[n - 1]
      OBVIOUS
    <3>2. EscapeStep(s, g, n) = EscapeStep(s, f, n)
      <4> HIDE DEF g
      <4> QED
        BY <3>1, Zenon DEF EscapeStep
    <3>3. CASE n = m + 1
      BY <3>2, <3>3, Zenon
    <3>4. CASE n \in 0..m
      <4>1. g[n] = f[n]
        BY <3>4
      <4>2. f[n] = EscapeStep(s, f, n)
        BY <3>4, <2>1, Zenon
      <4> QED
        BY <3>2, <4>1, <4>2, Zenon
    <3> QED
      BY <3>3, <3>4
  <2>3. g = [n \in 0..m + 1 |-> EscapeStep(s, g, n)]
    BY <2>2, Zenon
  <2> HIDE DEF g
  <2> QED
    BY <2>3
<1> HIDE DEF G
<1>3. Nat \subseteq G
  BY <1>1, <1>2, NatInd, Zenon
<1> QED
  BY <1>3, Zenon DEF G


\* escapeLikeLiterals is the last value of such a function.
LEMMA EscapeUnfolds ==
  ASSUME NEW s, Len(s) \in Nat
  PROVE  \E f : /\ f[0] = <<>>
                /\ \A n \in 1..Len(s) : f[n] = f[n - 1] \o Escaped(s[n])
                /\ escapeLikeLiterals(s) = f[Len(s)]
<1> DEFINE N == Len(s)
           F == CHOOSE f : f = [n \in 0..N |-> EscapeStep(s, f, n)]
<1>1. F = [n \in 0..N |-> EscapeStep(s, F, n)]
  BY EscapeExists, Zenon
<1>2. escapeLikeLiterals(s) = F[N]
  BY Zenon DEF escapeLikeLiterals, EscapeStep
<1> HIDE DEF F
<1>3. F[0] = <<>> /\ \A n \in 1..N : F[n] = F[n - 1] \o Escaped(s[n])
  <2>1. \A n \in 0..N : F[n] = EscapeStep(s, F, n)
    BY <1>1, Zenon
  <2>2. 0 \in 0..N /\ \A n \in 1..N : n \in 0..N /\ n # 0
    OBVIOUS
  <2> HIDE DEF N
  <2> QED
    BY <2>1, <2>2, Zenon DEF EscapeStep
<1> QED
  BY <1>2, <1>3, Zenon

\* What the n-th character of a pattern is, f[n - 1] being what the one before is.
ModeStep(p, f, n) ==
    IF n = 0 THEN "plain"
    ELSE IF f[n - 1] = "escape" THEN "literal"
    ELSE IF p[n] = "\\" THEN "escape" ELSE "plain"

\* There is a function that ModeStep computes, for patterns of every length.
LEMMA ModesExist ==
  ASSUME NEW p, NEW N \in Nat
  PROVE  \E f : f = [n \in 0..N |-> ModeStep(p, f, n)]
<1> DEFINE G == {m \in Nat : \E f : f = [n \in 0..m |-> ModeStep(p, f, n)]}
<1>1. 0 \in G
  <2> DEFINE f == [n \in 0..0 |-> "plain"]
  <2>1. f = [n \in 0..0 |-> ModeStep(p, f, n)]
    BY DEF ModeStep
  <2> HIDE DEF f
  <2> QED
    BY <2>1, Zenon
<1>2. ASSUME NEW m \in Nat, m \in G PROVE m + 1 \in G
  <2>1. PICK f : f = [n \in 0..m |-> ModeStep(p, f, n)]
    BY <1>2, Zenon
  <2> DEFINE g == [n \in 0..m + 1 |-> IF n = m + 1 THEN ModeStep(p, f, n) ELSE f[n]]
  <2>2. ASSUME NEW n \in 0..m + 1 PROVE g[n] = ModeStep(p, g, n)
    <3>1. n # 0 => g[n - 1] = f[n - 1]
      OBVIOUS
    <3>2. ModeStep(p, g, n) = ModeStep(p, f, n)
      <4> HIDE DEF g
      <4> QED
        BY <3>1, Zenon DEF ModeStep
    <3>3. CASE n = m + 1
      BY <3>2, <3>3, Zenon
    <3>4. CASE n \in 0..m
      <4>1. g[n] = f[n]
        BY <3>4
      <4>2. f[n] = ModeStep(p, f, n)
        BY <3>4, <2>1, Zenon
      <4> QED
        BY <3>2, <4>1, <4>2, Zenon
    <3> QED
      BY <3>3, <3>4
  <2>3. g = [n \in 0..m + 1 |-> ModeStep(p, g, n)]
    BY <2>2, Zenon
  <2> HIDE DEF g
  <2> QED
    BY <2>3
<1> HIDE DEF G
<1>3. Nat \subseteq G
  BY <1>1, <1>2, NatInd, Zenon
<1> QED
  BY <1>3, Zenon DEF G


\* Modes is such a function: what a character is depends on the one before.
LEMMA ModesUnfold ==
  ASSUME NEW p, Len(p) \in Nat
  PROVE  /\ Modes(p)[0] = "plain"
         /\ \A n \in 1..Len(p) : Modes(p)[n] = IF Modes(p)[n - 1] = "escape" THEN "literal"
                                               ELSE IF p[n] = "\\" THEN "escape" ELSE "plain"
<1> DEFINE N == Len(p)
           F == CHOOSE f : f = [n \in 0..N |-> ModeStep(p, f, n)]
<1>1. F = [n \in 0..N |-> ModeStep(p, F, n)]
  BY ModesExist, Zenon
<1>2. Modes(p) = F
  BY Zenon DEF Modes, ModeStep
<1> HIDE DEF F
<1>3. \A n \in 0..N : F[n] = ModeStep(p, F, n)
  BY <1>1, Zenon
<1>4. 0 \in 0..N /\ \A n \in 1..N : n \in 0..N /\ n # 0
  OBVIOUS
<1> HIDE DEF N
<1>5. F[0] = "plain" /\ \A n \in 1..N : F[n] = IF F[n - 1] = "escape" THEN "literal"
                                               ELSE IF p[n] = "\\" THEN "escape" ELSE "plain"
  BY <1>3, <1>4, Zenon DEF ModeStep
<1> QED
  BY <1>2, <1>5, Zenon DEF N

\* How far the matcher of LIKE may have come after n characters of a pattern.
ReachStep(p, s, f, n) == IF n = 0 THEN {0} ELSE Reach(s, Modes(p)[n], p[n], f[n - 1])

\* There is a function that ReachStep computes, for patterns of every length.
LEMMA ReachExists ==
  ASSUME NEW p, NEW s, NEW N \in Nat
  PROVE  \E f : f = [n \in 0..N |-> ReachStep(p, s, f, n)]
<1> DEFINE G == {m \in Nat : \E f : f = [n \in 0..m |-> ReachStep(p, s, f, n)]}
<1>1. 0 \in G
  <2> DEFINE f == [n \in 0..0 |-> {0}]
  <2>1. f = [n \in 0..0 |-> ReachStep(p, s, f, n)]
    BY DEF ReachStep
  <2> HIDE DEF f
  <2> QED
    BY <2>1, Zenon
<1>2. ASSUME NEW m \in Nat, m \in G PROVE m + 1 \in G
  <2>1. PICK f : f = [n \in 0..m |-> ReachStep(p, s, f, n)]
    BY <1>2, Zenon
  <2> DEFINE g == [n \in 0..m + 1 |-> IF n = m + 1 THEN ReachStep(p, s, f, n) ELSE f[n]]
  <2>2. ASSUME NEW n \in 0..m + 1 PROVE g[n] = ReachStep(p, s, g, n)
    <3>1. n # 0 => g[n - 1] = f[n - 1]
      OBVIOUS
    <3>2. ReachStep(p, s, g, n) = ReachStep(p, s, f, n)
      <4> HIDE DEF g
      <4> QED
        BY <3>1, Zenon DEF ReachStep
    <3>3. CASE n = m + 1
      BY <3>2, <3>3, Zenon
    <3>4. CASE n \in 0..m
      <4>1. g[n] = f[n]
        BY <3>4
      <4>2. f[n] = ReachStep(p, s, f, n)
        BY <3>4, <2>1, Zenon
      <4> QED
        BY <3>2, <4>1, <4>2, Zenon
    <3> QED
      BY <3>3, <3>4
  <2>3. g = [n \in 0..m + 1 |-> ReachStep(p, s, g, n)]
    BY <2>2, Zenon
  <2> HIDE DEF g
  <2> QED
    BY <2>3
<1> HIDE DEF G
<1>3. Nat \subseteq G
  BY <1>1, <1>2, NatInd, Zenon
<1> QED
  BY <1>3, Zenon DEF G


\* LIKE matches when the last value of such a function reaches the end of the text.
LEMMA LikeUnfolds ==
  ASSUME NEW p, NEW s, Len(p) \in Nat
  PROVE  \E f : /\ f[0] = {0}
                /\ \A n \in 1..Len(p) : f[n] = Reach(s, Modes(p)[n], p[n], f[n - 1])
                /\ Like(p, s) <=> Len(s) \in f[Len(p)] /\ Modes(p)[Len(p)] # "escape"
<1> DEFINE N == Len(p)
           F == CHOOSE f : f = [n \in 0..N |-> ReachStep(p, s, f, n)]
<1>1. F = [n \in 0..N |-> ReachStep(p, s, F, n)]
  BY ReachExists, Zenon
<1>2. Like(p, s) <=> Len(s) \in F[N] /\ Modes(p)[N] # "escape"
  BY Zenon DEF Like, ReachStep
<1> HIDE DEF F
<1>3. F[0] = {0} /\ \A n \in 1..N : F[n] = Reach(s, Modes(p)[n], p[n], F[n - 1])
  <2>1. \A n \in 0..N : F[n] = ReachStep(p, s, F, n)
    BY <1>1, Zenon
  <2>2. 0 \in 0..N /\ \A n \in 1..N : n \in 0..N /\ n # 0
    OBVIOUS
  <2> HIDE DEF N
  <2> QED
    BY <2>1, <2>2, Zenon DEF ReachStep
<1> QED
  BY <1>2, <1>3, Zenon

\* What terms and texts are made of.
Chars == Letters \cup Special \cup {"*", "?"}

\* How many characters of a pattern a character of a term takes.
Width(c) == IF c \in Special THEN 2 ELSE 1

\* p has behind k what the replacer makes of c.
EscapedAt(p, c, k) == IF c \in Special THEN p[k + 1] = "\\" /\ p[k + 2] = c ELSE p[k + 1] = c

\* Escaping one character more adds its piece and changes nothing before it.
LEMMA EscapeOne ==
  ASSUME NEW a \in Seq(Chars), NEW c \in Chars, NEW u, u = a \o Escaped(c)
  PROVE  /\ u \in Seq(Chars) /\ Len(u) = Len(a) + Width(c)
         /\ \A k \in 1..Len(a) : u[k] = a[k]
         /\ EscapedAt(u, c, Len(a))
<1>1. CASE c \in Special
  <2> DEFINE b == <<"\\", c>>
  <2>0. "\\" \in Chars
    BY Zenon DEF Chars, Special
  <2>1. b \in Seq(Chars) /\ Len(b) = 2 /\ b[1] = "\\" /\ b[2] = c
    BY <2>0
  <2>2. u = a \o b
    BY <1>1, Zenon DEF Escaped
  <2>5. b \in Seq(Chars)
    BY <2>1, Zenon
  <2> HIDE DEF b
  <2>3. Width(c) = 2
    BY <1>1, Zenon DEF Width
  <2>4. /\ u \in Seq(Chars) /\ Len(u) = Len(a) + 2 /\ \A k \in 1..Len(a) : u[k] = a[k]
        /\ u[Len(a) + 1] = b[1] /\ u[Len(a) + 2] = b[2]
    <3> DEFINE v == a \o b
    <3>0. /\ v \in Seq(Chars) /\ Len(v) = Len(a) + Len(b)
          /\ \A k \in 1..Len(a) : v[k] = a[k]
          /\ \A k \in 1..Len(b) : v[Len(a) + k] = b[k]
      BY ONLY a \in Seq(Chars), <2>5
    <3>2. u = v
      BY <2>2, Zenon
    <3> HIDE DEF v
    <3>1. 1 \in 1..2 /\ 2 \in 1..2
      OBVIOUS
    <3> QED
      BY <2>1, <3>0, <3>1, <3>2, Zenon
  <2> QED
    BY <1>1, <2>1, <2>3, <2>4, Zenon DEF EscapedAt
<1>2. CASE c \notin Special
  <2> DEFINE b == <<c>>
  <2>1. b \in Seq(Chars) /\ Len(b) = 1 /\ b[1] = c
    OBVIOUS
  <2>2. u = a \o b
    BY <1>2, Zenon DEF Escaped
  <2>5. b \in Seq(Chars)
    BY <2>1, Zenon
  <2> HIDE DEF b
  <2>3. Width(c) = 1
    BY <1>2, Zenon DEF Width
  <2>4. /\ u \in Seq(Chars) /\ Len(u) = Len(a) + 1 /\ \A k \in 1..Len(a) : u[k] = a[k]
        /\ u[Len(a) + 1] = b[1]
    <3> DEFINE v == a \o b
    <3>0. /\ v \in Seq(Chars) /\ Len(v) = Len(a) + Len(b)
          /\ \A k \in 1..Len(a) : v[k] = a[k]
          /\ \A k \in 1..Len(b) : v[Len(a) + k] = b[k]
      BY ONLY a \in Seq(Chars), <2>5
    <3>2. u = v
      BY <2>2, Zenon
    <3> HIDE DEF v
    <3>1. 1 \in 1..1
      OBVIOUS
    <3> QED
      BY <2>1, <3>0, <3>1, <3>2, Zenon
  <2> QED
    BY <1>2, <2>1, <2>3, <2>4, Zenon DEF EscapedAt
<1> QED
  BY <1>1, <1>2, Zenon

\* off[i] is where the characters for t[1..i] end.
Offsets(t, off) ==
    /\ off[0] = 0
    /\ \A i \in 1..Len(t) : off[i - 1] \in Nat /\ off[i] = off[i - 1] + Width(t[i])
    /\ \A i \in 0..Len(t) : off[i] \in Nat /\ off[i] <= off[Len(t)]

\* Every character of a term has its piece in what escapeLikeLiterals returns, in order.
LEMMA EscapePieces ==
  ASSUME NEW t \in Seq(Chars), NEW p, p = escapeLikeLiterals(t)
  PROVE  \E off : /\ Offsets(t, off) /\ p \in Seq(Chars) /\ Len(p) = off[Len(t)]
                  /\ \A i \in 1..Len(t) : EscapedAt(p, t[i], off[i - 1])
<1> DEFINE N == Len(t)
<1>0. N \in Nat /\ \A i \in 1..N : t[i] \in Chars
  OBVIOUS
<1>1. PICK f : /\ f[0] = <<>>
               /\ \A n \in 1..N : f[n] = f[n - 1] \o Escaped(t[n])
               /\ p = f[N]
  BY <1>0, EscapeUnfolds, Zenon
<1> DEFINE off == [n \in 0..N |-> Len(f[n])]
           Right(n) == /\ f[n] \in Seq(Chars)
                       /\ \A i \in 0..n : off[i] \in Nat /\ off[i] <= off[n]
                       /\ \A i \in 1..n : off[i] = off[i - 1] + Width(t[i]) /\ EscapedAt(f[n], t[i], off[i - 1])
           G == {n \in Nat : n <= N => Right(n)}
<1> HIDE DEF N
<1>2. 0 \in G
  <2>1. f[0] \in Seq(Chars) /\ off[0] = 0
    BY <1>0, <1>1
  <2>2. 0..0 = {0} /\ 1..0 = {} /\ 0 <= 0
    OBVIOUS
  <2> HIDE DEF off
  <2>3. \A i \in 0..0 : off[i] \in Nat /\ off[i] <= off[0]
    BY <2>1
  <2> QED
    BY <2>1, <2>2, <2>3, Zenon
<1>3. ASSUME NEW n \in Nat, n \in G PROVE n + 1 \in G
  <2>0. n + 1 \in Nat
    OBVIOUS
  <2> HIDE DEF Right
  <2> SUFFICES ASSUME n + 1 <= N PROVE Right(n + 1)
    BY <2>0, Zenon
  <2> DEFINE a == f[n]  u == f[n + 1]  c == t[n + 1]
  <2>1. n <= N /\ n \in 0..N /\ n + 1 \in 0..N /\ n + 1 \in 1..N /\ (n + 1) - 1 = n
    BY <1>0
  <2>2. Right(n)
    BY <1>3, <2>1, Zenon
  <2>3. a \in Seq(Chars) /\ c \in Chars /\ u = a \o Escaped(c)
    BY <1>0, <1>1, <2>1, <2>2, Zenon DEF Right
  <2>4. off[n] = Len(a) /\ off[n + 1] = Len(u)
    BY <2>1, Zenon
  <2>a. \A i \in 1..n : EscapedAt(a, t[i], off[i - 1])
    BY <2>2, Zenon DEF Right
  <2>b. /\ \A i \in 0..n : off[i] \in Nat /\ off[i] <= off[n]
        /\ \A i \in 1..n : off[i] = off[i - 1] + Width(t[i])
    BY <2>2, Zenon DEF Right
  <2> HIDE DEF a, u, c, off
  <2>5. /\ u \in Seq(Chars) /\ Len(u) = Len(a) + Width(c)
        /\ \A k \in 1..Len(a) : u[k] = a[k]
        /\ EscapedAt(u, c, Len(a))
    BY <2>3, EscapeOne, Zenon
  <2>6. \A x : Width(x) \in {1, 2}
    BY Zenon DEF Width
  <2>7. off[n + 1] = off[n] + Width(c) /\ off[n] \in Nat /\ off[n + 1] \in Nat /\ off[n] <= off[n + 1]
    <3> DEFINE x == off[n]  y == off[n + 1]  w == Width(c)
    <3>1. n \in 0..n
      OBVIOUS
    <3>2. x \in Nat /\ y = x + w /\ w \in {1, 2}
      BY <2>b, <2>4, <2>5, <2>6, <3>1, Zenon
    <3> HIDE DEF x, y, w
    <3>3. y = x + w /\ x \in Nat /\ y \in Nat /\ x <= y
      BY ONLY <3>2
    <3> QED
      BY <3>3, Zenon DEF x, y, w
  <2>8. ASSUME NEW i \in 0..(n + 1) PROVE off[i] \in Nat /\ off[i] <= off[n + 1]
    <3>1. CASE i = n + 1
      BY <2>7, <3>1
    <3>2. CASE i # n + 1
      <4>1. i \in 0..n
        BY <3>2
      <4>2. off[i] \in Nat /\ off[i] <= off[n]
        BY <2>b, <4>1, Zenon
      <4> QED
        BY <2>7, <4>2
    <3> QED
      BY <3>1, <3>2, Zenon
  <2>9. ASSUME NEW i \in 1..(n + 1)
        PROVE  off[i] = off[i - 1] + Width(t[i]) /\ EscapedAt(u, t[i], off[i - 1])
    <3>1. CASE i = n + 1
      BY <2>1, <2>4, <2>5, <2>7, <3>1, Zenon DEF c
    <3>2. CASE i \in 1..n
      <4> DEFINE k == off[i - 1]
      <4>1. i - 1 \in 0..n /\ i \in 0..n
        BY <3>2
      <4>2. k \in Nat /\ off[i] = k + Width(t[i]) /\ off[i] <= Len(a) /\ EscapedAt(a, t[i], k)
        BY <2>a, <2>b, <2>4, <3>2, <4>1, Zenon
      <4> HIDE DEF k
      <4>3. CASE t[i] \in Special
        <5>1. k + 1 \in 1..Len(a) /\ k + 2 \in 1..Len(a)
          BY <2>3, <4>2, <4>3 DEF Width
        <5> QED
          BY <2>5, <4>2, <4>3, <5>1, Zenon DEF EscapedAt, k
      <4>4. CASE t[i] \notin Special
        <5>1. k + 1 \in 1..Len(a)
          BY <2>3, <4>2, <4>4 DEF Width
        <5> QED
          BY <2>5, <4>2, <4>4, <5>1, Zenon DEF EscapedAt, k
      <4> QED
        BY <4>3, <4>4, Zenon
    <3> QED
      BY <3>1, <3>2
  <2> QED
    BY <2>5, <2>8, <2>9, Zenon DEF u, Right
<1> HIDE DEF G, off
<1>4. Nat \subseteq G
  BY <1>2, <1>3, NatInd, Zenon
<1>5. Right(N)
  <2>1. N <= N
    BY <1>0
  <2> QED
    BY <1>0, <1>4, <2>1, Zenon DEF G
<1>6. off[0] = 0 /\ off[N] = Len(p)
  BY <1>0, <1>1 DEF off
<1>7. \A i \in 1..N : i - 1 \in 0..N
  BY <1>0
<1>8. Offsets(t, off)
  BY <1>5, <1>6, <1>7, Zenon DEF Offsets, N
<1> QED
  BY <1>1, <1>5, <1>6, <1>8, Zenon DEF N

\* What a character of a term becomes in the pattern.
Image(c) == IF c = "*" THEN "%" ELSE IF c = "?" THEN "_" ELSE c

\* p has behind k what TranslateWildcard makes of c.
PieceAt(p, c, k) == IF c \in Special THEN p[k + 1] = "\\" /\ p[k + 2] = c ELSE p[k + 1] = Image(c)

\* p is the pieces of the characters of t, one behind the other, and nothing else.
Spells(p, t, off) ==
    /\ Offsets(t, off) /\ DOMAIN p = 1..Len(p) /\ Len(p) = off[Len(t)]
    /\ \A i \in 1..Len(t) : PieceAt(p, t[i], off[i - 1])

\* A special character takes two characters of a pattern, any other takes one.
LEMMA Widths ==
  \A c : /\ Width(c) \in {1, 2}
         /\ c \in Special => Width(c) = 2
         /\ c \notin Special => Width(c) = 1
  BY Zenon DEF Width

\* The characters of a piece are characters of the pattern.
LEMMA PieceInside ==
  ASSUME NEW t, Len(t) \in Nat, NEW off, Offsets(t, off), NEW i \in 1..Len(t)
  PROVE  /\ off[i - 1] \in Nat /\ off[i] = off[i - 1] + Width(t[i])
         /\ off[i - 1] + 1 \in 1..off[Len(t)]
         /\ t[i] \in Special => off[i - 1] + 2 \in 1..off[Len(t)]
<1> DEFINE k == off[i - 1]  n == off[i]  L == off[Len(t)]  w == Width(t[i])
<1>1. i \in 0..Len(t) /\ Len(t) \in 0..Len(t)
  OBVIOUS
<1>2. k \in Nat /\ n = k + w /\ n <= L /\ L \in Nat
  BY <1>1, Zenon DEF Offsets
<1>3. w \in {1, 2} /\ (t[i] \in Special => w = 2)
  BY Widths, Zenon
<1> HIDE DEF k, n, L, w
<1>4. k + 1 \in 1..L /\ (t[i] \in Special => k + 2 \in 1..L)
  BY <1>2, <1>3
<1> QED
  BY <1>2, <1>4, Zenon DEF k, n, L, w

\* The pattern of TranslateWildcard spells its term.
LEMMA PatternPieces ==
  ASSUME NEW t \in Seq(Chars)
  PROVE  \E off : Spells(TranslateWildcard(t).pattern, t, off)
<1> DEFINE p == escapeLikeLiterals(t)
           q == [i \in DOMAIN p |-> IF p[i] = "*" THEN "%" ELSE IF p[i] = "?" THEN "_" ELSE p[i]]
<1>1. PICK off : /\ Offsets(t, off) /\ p \in Seq(Chars) /\ Len(p) = off[Len(t)]
                 /\ \A i \in 1..Len(t) : EscapedAt(p, t[i], off[i - 1])
  <2> HIDE DEF p
  <2>1. p = escapeLikeLiterals(t)
    BY Zenon DEF p
  <2> QED
    BY <2>1, EscapePieces, Zenon
<1>2. TranslateWildcard(t).pattern = IF containsWildcard(t) THEN q ELSE p
  BY Zenon DEF TranslateWildcard
<1> HIDE DEF p
<1>3. DOMAIN p = 1..Len(p) /\ Len(p) \in Nat /\ DOMAIN t = 1..Len(t) /\ Len(t) \in Nat
  BY <1>1
<1>4. CASE containsWildcard(t)
  <2>1. DOMAIN q = 1..Len(p) /\ Len(q) = Len(p)
    BY <1>3
  <2>2. \A i \in 1..Len(p) : q[i] = Image(p[i])
    BY <1>3, Zenon DEF Image
  <2> HIDE DEF q
  <2>3. ASSUME NEW i \in 1..Len(t) PROVE PieceAt(q, t[i], off[i - 1])
    <3>1. EscapedAt(p, t[i], off[i - 1])
      BY <1>1, Zenon
    <3>2. /\ off[i - 1] + 1 \in 1..Len(p)
          /\ t[i] \in Special => off[i - 1] + 2 \in 1..Len(p)
      BY <1>1, <1>3, PieceInside, Zenon
    <3>3. \A c \in Special : Image(c) = c
      BY Zenon DEF Special, Image
    <3>4. "\\" \in Special
      BY Zenon DEF Special
    <3>5. CASE t[i] \in Special
      BY <2>2, <3>1, <3>2, <3>3, <3>4, <3>5, Zenon DEF EscapedAt, PieceAt
    <3>6. CASE t[i] \notin Special
      BY <2>2, <3>1, <3>2, <3>6, Zenon DEF EscapedAt, PieceAt
    <3> QED
      BY <3>5, <3>6, Zenon
  <2>4. Spells(q, t, off)
    BY <1>1, <2>1, <2>3, Zenon DEF Spells
  <2> QED
    BY <1>2, <1>4, <2>4, Zenon
<1>5. CASE ~containsWildcard(t)
  <2>1. ASSUME NEW i \in 1..Len(t) PROVE PieceAt(p, t[i], off[i - 1])
    <3>1. t[i] # "*" /\ t[i] # "?"
      BY <1>3, <1>5, Zenon DEF containsWildcard
    <3> QED
      BY <1>1, <3>1, Zenon DEF EscapedAt, PieceAt, Image
  <2>2. Spells(p, t, off)
    BY <1>1, <1>3, <2>1, Zenon DEF Spells
  <2> QED
    BY <1>2, <1>5, <2>2, Zenon
<1> QED
  BY <1>4, <1>5, Zenon

-----------------------------------------------------------------------------
(* How far a term and its pattern reach into a text                        *)

\* c may lie over s from after k to m.
Covers(c, s, k, m) ==
    /\ k <= m
    /\ c # "*" => m = k + 1
    /\ c \notin {"*", "?"} => s[k + 1] = c

\* No characters of a term reach nothing of a text.
LEMMA LaidNothing ==
  ASSUME NEW t, NEW s, Len(s) \in Nat, NEW m \in 0..Len(s)
  PROVE  LaidOver(t, 0, s, m) <=> m = 0
<1>1. ASSUME LaidOver(t, 0, s, m) PROVE m = 0
  <2>1. PICK at \in [1..(0 + 1) -> 1..(Len(s) + 1)] : at[1] = 1 /\ at[0 + 1] = m + 1
    BY <1>1, Zenon DEF LaidOver
  <2> QED
    BY <2>1
<1>2. ASSUME m = 0 PROVE LaidOver(t, 0, s, m)
  <2> DEFINE at == [i \in 1..(0 + 1) |-> 1]
  <2>1. at \in [1..(0 + 1) -> 1..(Len(s) + 1)] /\ at[1] = 1 /\ at[0 + 1] = m + 1
    BY <1>2
  <2>2. 1..0 = {}
    OBVIOUS
  <2> HIDE DEF at
  <2> QED
    BY <2>1, <2>2, Zenon DEF LaidOver
<1> QED
  BY <1>1, <1>2, Zenon

\* One character more lies behind the ones before it.
LEMMA LaidOneMore ==
  ASSUME NEW t, NEW s, Len(s) \in Nat, NEW n \in Nat, NEW m \in 0..Len(s)
  PROVE  LaidOver(t, n + 1, s, m) <=>
           \E k \in 0..Len(s) : LaidOver(t, n, s, k) /\ Covers(t[n + 1], s, k, m)
<1> DEFINE Put(at, i) == /\ at[i] <= at[i + 1]
                         /\ t[i] # "*" => at[i + 1] = at[i] + 1
                         /\ t[i] \notin {"*", "?"} => s[at[i]] = t[i]
           E == Len(s) + 1
<1>0. n + 1 \in 1..(n + 1) /\ 1 \in 1..(n + 1) /\ 1..n \subseteq 1..(n + 1) /\ n + 1 + 1 \in 1..(n + 1 + 1)
  OBVIOUS
<1>1. ASSUME LaidOver(t, n + 1, s, m)
      PROVE  \E k \in 0..Len(s) : LaidOver(t, n, s, k) /\ Covers(t[n + 1], s, k, m)
  <2>1. PICK at \in [1..(n + 1 + 1) -> 1..E] :
             /\ at[1] = 1 /\ at[n + 1 + 1] = m + 1
             /\ \A i \in 1..(n + 1) : Put(at, i)
    BY <1>1, Zenon DEF LaidOver
  <2> DEFINE k == at[n + 1] - 1
             bt == [i \in 1..(n + 1) |-> at[i]]
  <2>2. at[n + 1] \in 1..E
    BY <2>1
  <2>3. k \in 0..Len(s) /\ at[n + 1] = k + 1
    BY <2>2
  <2>a. 1..(n + 1) \subseteq 1..(n + 1 + 1)
    OBVIOUS
  <2>4. bt \in [1..(n + 1) -> 1..E] /\ bt[1] = 1 /\ bt[n + 1] = k + 1
    BY <1>0, <2>1, <2>3, <2>a, Zenon
  <2>5. ASSUME NEW i \in 1..n PROVE Put(bt, i)
    <3>1. i \in 1..(n + 1) /\ i + 1 \in 1..(n + 1)
      OBVIOUS
    <3>2. bt[i] = at[i] /\ bt[i + 1] = at[i + 1]
      BY <3>1, Zenon
    <3> QED
      BY <2>1, <3>1, <3>2, Zenon
  <2> HIDE DEF bt
  <2>6. LaidOver(t, n, s, k)
    BY <2>4, <2>5, Zenon DEF LaidOver
  <2>7. Covers(t[n + 1], s, k, m)
    <3>1. Put(at, n + 1)
      BY <1>0, <2>1, Zenon
    <3> HIDE DEF k
    <3>2. /\ k + 1 <= m + 1
          /\ t[n + 1] # "*" => m + 1 = (k + 1) + 1
          /\ t[n + 1] \notin {"*", "?"} => s[k + 1] = t[n + 1]
      BY <2>1, <2>3, <3>1, Zenon
    <3>3. k <= m /\ (m + 1 = (k + 1) + 1 => m = k + 1)
      BY <2>3, <3>2
    <3> QED
      BY <3>2, <3>3, Zenon DEF Covers
  <2> QED
    BY <2>3, <2>6, <2>7, Zenon
<1>2. ASSUME NEW k \in 0..Len(s), LaidOver(t, n, s, k), Covers(t[n + 1], s, k, m)
      PROVE  LaidOver(t, n + 1, s, m)
  <2>1. PICK at \in [1..(n + 1) -> 1..E] :
             /\ at[1] = 1 /\ at[n + 1] = k + 1
             /\ \A i \in 1..n : Put(at, i)
    BY <1>2, Zenon DEF LaidOver
  <2> DEFINE bt == [i \in 1..(n + 1 + 1) |-> IF i = n + 1 + 1 THEN m + 1 ELSE at[i]]
  <2>2. \A i \in 1..(n + 1) : bt[i] = at[i]
    OBVIOUS
  <2>3. bt[n + 1 + 1] = m + 1
    OBVIOUS
  <2>4. bt \in [1..(n + 1 + 1) -> 1..E]
    BY <2>1
  <2> HIDE DEF bt
  <2>5. bt[1] = 1 /\ bt[n + 1] = k + 1
    BY <1>0, <2>1, <2>2, Zenon
  <2>6. ASSUME NEW i \in 1..(n + 1) PROVE Put(bt, i)
    <3>1. CASE i = n + 1
      <4>1. k + 1 <= m + 1 /\ (m = k + 1 => m + 1 = (k + 1) + 1)
        BY <1>2 DEF Covers
      <4> QED
        BY <1>2, <2>3, <2>5, <3>1, <4>1, Zenon DEF Covers
    <3>2. CASE i # n + 1
      <4>1. i \in 1..n /\ i + 1 \in 1..(n + 1)
        BY <3>2
      <4>2. bt[i] = at[i] /\ bt[i + 1] = at[i + 1]
        BY <2>2, <4>1, Zenon
      <4> QED
        BY <2>1, <4>1, <4>2, Zenon
    <3> QED
      BY <3>1, <3>2, Zenon
  <2> QED
    BY <2>3, <2>4, <2>5, <2>6, Zenon DEF LaidOver
<1> QED
  BY <1>1, <1>2, Zenon

\* How far into s the first n characters of t may reach.
Laid(t, n, s) == {m \in 0..Len(s) : LaidOver(t, n, s, m)}

\* How far the next character c of a term reaches, from the places in From.
TermReach(s, c, From) ==
    IF c = "*" THEN {m \in 0..Len(s) : \E n \in From : n <= m}
    ELSE {m \in 1..Len(s) : m - 1 \in From /\ (c = "?" \/ s[m] = c)}

\* The places that no characters of a term reach: the beginning.
LEMMA LaidFirst ==
  ASSUME NEW t, NEW s, Len(s) \in Nat
  PROVE  Laid(t, 0, s) = {0}
<1>1. 0 \in 0..Len(s)
  OBVIOUS
<1> QED
  BY <1>1, LaidNothing, Zenon DEF Laid

\* The places that one character more reaches.
LEMMA LaidNext ==
  ASSUME NEW t, NEW s, Len(s) \in Nat, NEW n \in Nat
  PROVE  Laid(t, n + 1, s) = TermReach(s, t[n + 1], Laid(t, n, s))
<1> DEFINE c == t[n + 1]  F == Laid(t, n, s)
<1>1. F \subseteq 0..Len(s)
  BY Zenon DEF Laid
<1>2. ASSUME NEW m \in 0..Len(s)
      PROVE  m \in Laid(t, n + 1, s) <=> \E k \in F : Covers(c, s, k, m)
  BY LaidOneMore, Zenon DEF Laid
<1>3. Laid(t, n + 1, s) \subseteq 0..Len(s) /\ TermReach(s, c, F) \subseteq 0..Len(s)
  BY DEF Laid, TermReach
<1> HIDE DEF F, c
<1>4. ASSUME NEW m \in 0..Len(s)
      PROVE  (\E k \in F : Covers(c, s, k, m)) <=> m \in TermReach(s, c, F)
  <2>1. CASE c = "*"
    BY <2>1, Zenon DEF Covers, TermReach
  <2>2. CASE c # "*"
    <3>1. ASSUME NEW k \in F, Covers(c, s, k, m) PROVE m \in TermReach(s, c, F)
      <4>1. k \in Nat /\ m = k + 1
        BY <1>1, <2>2, <3>1 DEF Covers
      <4>2. m \in 1..Len(s) /\ m - 1 = k
        BY <4>1
      <4>3. c = "?" \/ s[m] = c
        BY <2>2, <3>1, <4>1, Zenon DEF Covers
      <4> QED
        BY <2>2, <4>2, <4>3, Zenon DEF TermReach
    <3>2. ASSUME m \in TermReach(s, c, F) PROVE \E k \in F : Covers(c, s, k, m)
      <4>1. m \in 1..Len(s) /\ m - 1 \in F /\ (c = "?" \/ s[m] = c)
        BY <2>2, <3>2, Zenon DEF TermReach
      <4>2. m - 1 <= m /\ m = (m - 1) + 1
        OBVIOUS
      <4>3. Covers(c, s, m - 1, m)
        BY <4>1, <4>2, Zenon DEF Covers
      <4> QED
        BY <4>1, <4>3, Zenon
    <3> QED
      BY <3>1, <3>2, Zenon
  <2> QED
    BY <2>1, <2>2, Zenon
<1> QED
  BY <1>2, <1>3, <1>4, Zenon DEF c, F

\* What the characters of a piece are, when no escape is open before it: none is open behind it.
LEMMA PieceModes ==
  ASSUME NEW p, Len(p) \in Nat, NEW c, NEW k \in Nat, k + 1 \in 1..Len(p), PieceAt(p, c, k),
         c \in Special => k + 2 \in 1..Len(p),
         Modes(p)[k] # "escape"
  PROVE  /\ c \in Special => Modes(p)[k + 1] = "escape" /\ Modes(p)[k + 2] = "literal"
         /\ c \notin Special => Modes(p)[k + 1] = "plain"
         /\ Modes(p)[k + Width(c)] # "escape"
<1> DEFINE M == Modes(p)
<1>1. \A n \in 1..Len(p) : M[n] = IF M[n - 1] = "escape" THEN "literal"
                                  ELSE IF p[n] = "\\" THEN "escape" ELSE "plain"
  BY ModesUnfold, Zenon
<1> HIDE DEF M
<1>2. (k + 1) - 1 = k /\ (k + 2) - 1 = k + 1
  OBVIOUS
<1>3. M[k] # "escape"
  BY Zenon DEF M
<1>4. M[k + 1] = IF p[k + 1] = "\\" THEN "escape" ELSE "plain"
  BY <1>1, <1>2, <1>3, Zenon
<1>5. CASE c \in Special
  <2>1. M[k + 1] = "escape"
    BY <1>4, <1>5, Zenon DEF PieceAt
  <2>2. M[k + 2] = "literal"
    BY <1>1, <1>2, <1>5, <2>1, Zenon
  <2>3. Width(c) = 2 /\ "literal" # "escape"
    BY <1>5, Widths, Zenon
  <2> QED
    BY <1>5, <2>1, <2>2, <2>3, Zenon DEF M
<1>6. CASE c \notin Special
  <2>1. Image(c) # "\\"
    BY <1>6, Zenon DEF Image, Special
  <2>2. M[k + 1] = "plain"
    BY <1>4, <1>6, <2>1, Zenon DEF PieceAt
  <2>3. Width(c) = 1 /\ "plain" # "escape"
    BY <1>6, Widths, Zenon
  <2> QED
    BY <1>6, <2>2, <2>3, Zenon DEF M
<1> QED
  BY <1>5, <1>6, Zenon

\* R says how far into s the matcher of p may have come after each character.
Reaching(R, p, s) ==
    R[0] = {0} /\ \A n \in 1..Len(p) : R[n] = Reach(s, Modes(p)[n], p[n], R[n - 1])

\* On the piece of a character the matcher reaches what the character reaches.
LEMMA PieceReaches ==
  ASSUME NEW p, Len(p) \in Nat, NEW c, NEW k \in Nat, k + 1 \in 1..Len(p), PieceAt(p, c, k),
         c \in Special => k + 2 \in 1..Len(p),
         Modes(p)[k] # "escape", NEW s, Len(s) \in Nat, NEW R, Reaching(R, p, s)
  PROVE  R[k + Width(c)] = TermReach(s, c, R[k])
<1> DEFINE M == Modes(p)  F == R[k]
<1>1. /\ c \in Special => M[k + 1] = "escape" /\ M[k + 2] = "literal"
      /\ c \notin Special => M[k + 1] = "plain"
  BY PieceModes, Zenon
<1>2. (k + 1) - 1 = k /\ (k + 2) - 1 = k + 1
  OBVIOUS
<1>3. R[k + 1] = Reach(s, M[k + 1], p[k + 1], F)
  BY <1>2, Zenon DEF Reaching
<1>4. CASE c \in Special
  <2>1. R[k + 1] = F
    BY <1>1, <1>3, <1>4, Zenon DEF Reach
  <2>2. R[k + 2] = Reach(s, M[k + 2], p[k + 2], R[k + 1])
    BY <1>2, <1>4, Zenon DEF Reaching
  <2>3. R[k + 2] = Reach(s, "literal", c, F)
    BY <1>1, <1>4, <2>1, <2>2, Zenon DEF PieceAt
  <2>4. c # "*" /\ c # "?" /\ "literal" # "plain" /\ "literal" # "escape"
    BY <1>4, Zenon DEF Special
  <2> HIDE DEF F
  <2>5. Reach(s, "literal", c, F) = TermReach(s, c, F)
    BY <2>4, Zenon DEF Reach, TermReach
  <2>6. Width(c) = 2
    BY <1>4, Widths, Zenon
  <2> QED
    BY <2>3, <2>5, <2>6, Zenon DEF F
<1>5. CASE c \notin Special
  <2>1. R[k + 1] = Reach(s, "plain", Image(c), F)
    BY <1>1, <1>3, <1>5, Zenon DEF PieceAt
  <2>2. "plain" # "escape" /\ "%" # "_" /\ "*" # "?" /\ c # "%" /\ c # "_"
    BY <1>5, Zenon DEF Special
  <2> HIDE DEF F
  <2>3. Reach(s, "plain", Image(c), F) = TermReach(s, c, F)
    <3>1. CASE c = "*"
      <4>1. Image(c) = "%"
        BY <3>1, Zenon DEF Image
      <4> QED
        BY <2>2, <3>1, <4>1, Zenon DEF Reach, TermReach
    <3>2. CASE c = "?"
      <4>1. Image(c) = "_"
        BY <2>2, <3>2, Zenon DEF Image
      <4>2. Reach(s, "plain", "_", F) = {m \in 1..Len(s) : m - 1 \in F}
        BY <2>2, Zenon DEF Reach
      <4>3. TermReach(s, "?", F) = {m \in 1..Len(s) : m - 1 \in F}
        BY <2>2, Zenon DEF TermReach
      <4> QED
        BY <3>2, <4>1, <4>2, <4>3, Zenon
    <3>3. CASE c # "*" /\ c # "?"
      <4>1. Image(c) = c
        BY <3>3, Zenon DEF Image
      <4> QED
        BY <2>2, <3>3, <4>1, Zenon DEF Reach, TermReach
    <3> QED
      BY <3>1, <3>2, <3>3, Zenon
  <2>4. Width(c) = 1
    BY <1>5, Widths, Zenon
  <2> QED
    BY <2>1, <2>3, <2>4, Zenon DEF F
<1> QED
  BY <1>4, <1>5, Zenon

\* At the end of every piece the matcher is not in an escape, and is as far as the term.
LEMMA MatcherFollows ==
  ASSUME NEW t, Len(t) \in Nat, NEW s, Len(s) \in Nat, NEW p, NEW off, Spells(p, t, off),
         NEW R, Reaching(R, p, s)
  PROVE  \A n \in 0..Len(t) : R[off[n]] = Laid(t, n, s) /\ Modes(p)[off[n]] # "escape"
<1> DEFINE G == {n \in Nat : n <= Len(t) => R[off[n]] = Laid(t, n, s) /\ Modes(p)[off[n]] # "escape"}
<1>a. off[0] = 0 /\ Len(p) = off[Len(t)] /\ Offsets(t, off)
  BY Zenon DEF Spells, Offsets
<1>0. Len(p) \in Nat
  <2>1. Len(t) \in 0..Len(t)
    OBVIOUS
  <2> QED
    BY <1>a, <2>1, Zenon DEF Offsets
<1>1. 0 \in G
  <2>1. Modes(p)[0] = "plain" /\ "plain" # "escape"
    BY <1>0, ModesUnfold, Zenon
  <2> QED
    BY <1>a, <2>1, LaidFirst, Zenon DEF Reaching
<1>2. ASSUME NEW n \in Nat, n \in G PROVE n + 1 \in G
  <2> SUFFICES ASSUME n + 1 <= Len(t)
               PROVE  R[off[n + 1]] = Laid(t, n + 1, s) /\ Modes(p)[off[n + 1]] # "escape"
    OBVIOUS
  <2> DEFINE k == off[n]  c == t[n + 1]
  <2>1. n + 1 \in 1..Len(t) /\ (n + 1) - 1 = n /\ n <= Len(t)
    OBVIOUS
  <2>2. R[k] = Laid(t, n, s) /\ Modes(p)[k] # "escape"
    BY <1>2, <2>1, Zenon
  <2>3. /\ k \in Nat /\ off[n + 1] = k + Width(c)
        /\ k + 1 \in 1..Len(p) /\ (c \in Special => k + 2 \in 1..Len(p))
    <3>1. /\ off[(n + 1) - 1] \in Nat /\ off[n + 1] = off[(n + 1) - 1] + Width(t[n + 1])
          /\ off[(n + 1) - 1] + 1 \in 1..off[Len(t)]
          /\ t[n + 1] \in Special => off[(n + 1) - 1] + 2 \in 1..off[Len(t)]
      <4>1. Offsets(t, off) /\ n + 1 \in 1..Len(t)
        BY <1>a, <2>1, Zenon
      <4> QED
        BY <4>1, PieceInside, Zenon
    <3> QED
      BY <1>a, <2>1, <3>1, Zenon
  <2>4. PieceAt(p, c, k)
    BY <2>1, Zenon DEF Spells
  <2> HIDE DEF k, c
  <2>b. /\ k \in Nat /\ k + 1 \in 1..Len(p) /\ (c \in Special => k + 2 \in 1..Len(p))
        /\ Modes(p)[k] # "escape"
    BY <2>2, <2>3, Zenon
  <2>5. Modes(p)[k + Width(c)] # "escape"
    BY ONLY <1>0, <2>b, <2>4, PieceModes, Zenon
  <2>6. R[k + Width(c)] = TermReach(s, c, R[k])
    BY ONLY <1>0, <2>b, <2>4, Len(s) \in Nat, Reaching(R, p, s), PieceReaches
  <2>7. Laid(t, n + 1, s) = TermReach(s, c, Laid(t, n, s))
    BY LaidNext, Zenon DEF c
  <2> QED
    BY <2>2, <2>3, <2>5, <2>6, <2>7, Zenon
<1> HIDE DEF G
<1>3. Nat \subseteq G
  BY <1>1, <1>2, NatInd, Zenon
<1> SUFFICES ASSUME NEW n \in 0..Len(t)
             PROVE  R[off[n]] = Laid(t, n, s) /\ Modes(p)[off[n]] # "escape"
  BY Zenon
<1>4. n \in Nat /\ n <= Len(t)
  OBVIOUS
<1> QED
  BY <1>3, <1>4, Zenon DEF G

\* A pattern that spells a term matches what the term matches.
LEMMA LikeIsTermMatches ==
  ASSUME NEW t, Len(t) \in Nat, NEW s, Len(s) \in Nat, NEW p, NEW off, Spells(p, t, off)
  PROVE  Like(p, s) <=> TermMatches(t, s)
<1>0. Len(t) \in 0..Len(t) /\ Len(s) \in 0..Len(s)
  OBVIOUS
<1>1. Len(p) \in Nat /\ Len(p) = off[Len(t)]
  BY <1>0, Zenon DEF Spells, Offsets
<1>2. PICK R : /\ R[0] = {0}
               /\ \A n \in 1..Len(p) : R[n] = Reach(s, Modes(p)[n], p[n], R[n - 1])
               /\ Like(p, s) <=> Len(s) \in R[Len(p)] /\ Modes(p)[Len(p)] # "escape"
  BY <1>1, LikeUnfolds, Zenon
<1>4. Reaching(R, p, s)
  BY <1>2, Zenon DEF Reaching
<1>3. R[Len(p)] = Laid(t, Len(t), s) /\ Modes(p)[Len(p)] # "escape"
  <2>1. \A n \in 0..Len(t) : R[off[n]] = Laid(t, n, s) /\ Modes(p)[off[n]] # "escape"
    BY ONLY <1>4, Len(t) \in Nat, Len(s) \in Nat, Spells(p, t, off), MatcherFollows
  <2> QED
    BY <1>0, <1>1, <2>1, Zenon
<1> QED
  BY <1>0, <1>2, <1>3, Zenon DEF Laid, TermMatches

-----------------------------------------------------------------------------
(* Terms without wildcards, with one star behind, of wildcards only        *)

\* To begin with one character more.
LEMMA BeginsOneMore ==
  ASSUME NEW s, Len(s) \in Nat, NEW t, NEW n \in Nat
  PROVE  Begins(s, t, n + 1) <=> Begins(s, t, n) /\ n + 1 \in 1..Len(s) /\ s[n + 1] = t[n + 1]
<1>1. /\ n + 1 <= Len(s) <=> n + 1 \in 1..Len(s)
      /\ n + 1 <= Len(s) => n <= Len(s)
      /\ \A i : i \in 1..(n + 1) <=> i \in 1..n \/ i = n + 1
  OBVIOUS
<1> QED
  BY <1>1, Zenon DEF Begins

\* Letters reach as far as there are letters, if the text begins with them.
LEMMA LaidLiterals ==
  ASSUME NEW t, NEW s, Len(s) \in Nat, NEW N \in Nat, \A i \in 1..N : t[i] \notin {"*", "?"}
  PROVE  Laid(t, N, s) = IF Begins(s, t, N) THEN {N} ELSE {}
<1> DEFINE G == {n \in Nat : n <= N => Laid(t, n, s) = IF Begins(s, t, n) THEN {n} ELSE {}}
<1>1. 0 \in G
  <2>1. 0 <= Len(s) /\ 1..0 = {}
    OBVIOUS
  <2>2. Begins(s, t, 0)
    BY <2>1, Zenon DEF Begins
  <2> QED
    BY <2>2, LaidFirst, Zenon
<1>2. ASSUME NEW n \in Nat, n \in G PROVE n + 1 \in G
  <2> SUFFICES ASSUME n + 1 <= N
               PROVE  Laid(t, n + 1, s) = IF Begins(s, t, n + 1) THEN {n + 1} ELSE {}
    OBVIOUS
  <2> DEFINE F == Laid(t, n, s)  c == t[n + 1]
  <2>1. n <= N /\ n + 1 \in 1..N
    OBVIOUS
  <2>2. F = IF Begins(s, t, n) THEN {n} ELSE {}
    BY <1>2, <2>1, Zenon
  <2>3. c # "*" /\ c # "?"
    BY <2>1, Zenon
  <2>4. Laid(t, n + 1, s) = TermReach(s, c, F)
    BY LaidNext, Zenon
  <2> HIDE DEF F, c
  <2>5. TermReach(s, c, F) = {m \in 1..Len(s) : m - 1 \in F /\ s[m] = c}
    BY <2>3, Zenon DEF TermReach
  <2>6. \A m \in 1..Len(s) : m - 1 = n <=> m = n + 1
    OBVIOUS
  <2>7. Begins(s, t, n + 1) <=> Begins(s, t, n) /\ n + 1 \in 1..Len(s) /\ s[n + 1] = c
    <3>1. Begins(s, t, n + 1) <=> Begins(s, t, n) /\ n + 1 \in 1..Len(s) /\ s[n + 1] = t[n + 1]
      BY BeginsOneMore
    <3> QED
      BY <3>1, Zenon DEF c
  <2>8. TermReach(s, c, F) = IF Begins(s, t, n + 1) THEN {n + 1} ELSE {}
    <3>1. CASE ~Begins(s, t, n)
      BY <2>2, <2>5, <2>7, <3>1, Zenon
    <3>2. CASE Begins(s, t, n)
      <4>1. TermReach(s, c, F) = {m \in 1..Len(s) : m = n + 1 /\ s[m] = c}
        BY <2>2, <2>5, <2>6, <3>2, Zenon
      <4> QED
        BY <2>7, <3>2, <4>1, Zenon
    <3> QED
      BY <3>1, <3>2, Zenon
  <2> QED
    BY <2>4, <2>8, Zenon
<1> HIDE DEF G
<1>3. Nat \subseteq G
  BY <1>1, <1>2, NatInd, Zenon
<1>4. N <= N
  OBVIOUS
<1> QED
  BY <1>3, <1>4, Zenon DEF G

\* A term without wildcards matches itself.
LEMMA LiteralTerm ==
  ASSUME NEW S, NEW t \in Seq(S), NEW s \in Seq(S), \A i \in 1..Len(t) : t[i] \notin {"*", "?"}
  PROVE  TermMatches(t, s) <=> s = t
<1> DEFINE N == Len(t)  L == Len(s)
<1>0. /\ N \in Nat /\ L \in Nat /\ L \in 0..L
      /\ s = [i \in 1..L |-> s[i]] /\ t = [i \in 1..N |-> t[i]]
  OBVIOUS
<1>1. Laid(t, N, s) = IF Begins(s, t, N) THEN {N} ELSE {}
  BY <1>0, LaidLiterals, Zenon
<1>2. TermMatches(t, s) <=> L \in Laid(t, N, s)
  BY <1>0, Zenon DEF TermMatches, Laid
<1>3. TermMatches(t, s) <=> Begins(s, t, N) /\ L = N
  BY <1>1, <1>2, Zenon
<1>4. ASSUME Begins(s, t, N), L = N PROVE s = t
  BY <1>0, <1>4, Zenon DEF Begins
<1>5. N <= N
  BY <1>0
<1>6. s = t => Begins(s, t, N) /\ L = N
  BY <1>5, Zenon DEF Begins
<1> QED
  BY <1>3, <1>4, <1>6, Zenon

\* A term of letters and a star behind them matches what begins with the letters.
LEMMA PrefixTerm ==
  ASSUME NEW t, NEW s, Len(s) \in Nat, NEW n \in Nat, Len(t) = n + 1, t[n + 1] = "*",
         \A i \in 1..n : t[i] \notin {"*", "?"}
  PROVE  TermMatches(t, s) <=> Begins(s, t, n)
<1> DEFINE F == Laid(t, n, s)
<1>1. F = IF Begins(s, t, n) THEN {n} ELSE {}
  BY LaidLiterals, Zenon
<1>2. Laid(t, n + 1, s) = TermReach(s, "*", F)
  BY LaidNext, Zenon
<1> HIDE DEF F
<1>3. Len(s) \in 0..Len(s)
  OBVIOUS
<1>4. TermMatches(t, s) <=> Len(s) \in TermReach(s, "*", F)
  BY <1>2, <1>3, Zenon DEF TermMatches, Laid
<1>5. Len(s) \in TermReach(s, "*", F) <=> \E k \in F : k <= Len(s)
  BY <1>3, Zenon DEF TermReach
<1> QED
  BY <1>1, <1>4, <1>5, Zenon DEF Begins

\* Wildcards tell texts apart by their length only.
LEMMA WildcardTerm ==
  ASSUME NEW t, NEW s, NEW u, Len(u) = Len(s), \A i \in 1..Len(t) : t[i] \in {"*", "?"}
  PROVE  TermMatches(t, s) <=> TermMatches(t, u)
  BY Zenon DEF TermMatches, LaidOver

-----------------------------------------------------------------------------
(* The class of a pattern                                                  *)

\* Every character of the pattern is one of a piece.
LEMMA PiecesCover ==
  ASSUME NEW t, Len(t) \in Nat, NEW off, Offsets(t, off), NEW j \in 1..off[Len(t)]
  PROVE  \E i \in 1..Len(t) : \/ j = off[i - 1] + 1
                              \/ t[i] \in Special /\ j = off[i - 1] + 2
<1> DEFINE In(i) == j = off[i - 1] + 1 \/ (t[i] \in Special /\ j = off[i - 1] + 2)
           G == {n \in Nat : n <= Len(t) /\ j <= off[n] => \E i \in 1..n : In(i)}
<1>0. off[0] = 0 /\ j \in Nat /\ j >= 1 /\ j <= off[Len(t)]
  <2>1. off[0] = 0 /\ off[Len(t)] \in Nat
    <3>1. Len(t) \in 0..Len(t)
      OBVIOUS
    <3> QED
      BY <3>1, Zenon DEF Offsets
  <2> QED
    BY <2>1
<1>1. 0 \in G
  BY <1>0
<1>2. ASSUME NEW n \in Nat, n \in G PROVE n + 1 \in G
  <2> SUFFICES ASSUME n + 1 <= Len(t), j <= off[n + 1] PROVE \E i \in 1..(n + 1) : In(i)
    OBVIOUS
  <2> HIDE DEF In
  <2>1. n <= Len(t) /\ n + 1 \in 1..Len(t) /\ (n + 1) - 1 = n /\ 1..n \subseteq 1..(n + 1) /\ n + 1 \in 1..(n + 1)
    OBVIOUS
  <2>2. CASE j <= off[n]
    BY <1>2, <2>1, <2>2, Zenon
  <2>3. CASE ~(j <= off[n])
    <3> DEFINE k == off[n]  w == Width(t[n + 1])
    <3>1. off[n] \in Nat /\ off[n + 1] = off[n] + Width(t[n + 1])
      BY <2>1, Zenon DEF Offsets
    <3>2. k \in Nat /\ j <= k + w /\ ~(j <= k)
      BY <2>3, <3>1, Zenon
    <3>3. w \in {1, 2} /\ (t[n + 1] \notin Special => w = 1)
      BY Widths, Zenon
    <3> HIDE DEF k, w
    <3>4. j = k + 1 \/ (t[n + 1] \in Special /\ j = k + 2)
      BY <1>0, <3>2, <3>3
    <3>5. In(n + 1)
      BY <2>1, <3>4, Zenon DEF In, k
    <3> QED
      BY <2>1, <3>5, Zenon
  <2> QED
    BY <2>2, <2>3, Zenon
<1> HIDE DEF G, In
<1>3. Nat \subseteq G
  BY <1>1, <1>2, NatInd, Zenon
<1>4. Len(t) <= Len(t)
  OBVIOUS
<1>5. \E i \in 1..Len(t) : In(i)
  BY <1>0, <1>3, <1>4, Zenon DEF G
<1> QED
  BY <1>5, Zenon DEF In

\* Pieces before the last end before it.
LEMMA OffsetsDiffer ==
  ASSUME NEW t, Len(t) \in Nat, NEW off, Offsets(t, off), NEW i \in 1..Len(t), off[i] = off[Len(t)]
  PROVE  i = Len(t)
<1> SUFFICES ASSUME i # Len(t) PROVE FALSE
  BY Zenon
<1>1. i + 1 \in 1..Len(t) /\ (i + 1) - 1 = i /\ i + 1 \in 0..Len(t) /\ Len(t) \in 0..Len(t)
  OBVIOUS
<1> DEFINE a == off[i]  b == off[i + 1]  w == Width(t[i + 1])
<1>2. a \in Nat /\ b = a + w /\ b <= a
  BY <1>1, Zenon DEF Offsets
<1>3. w \in {1, 2}
  BY Widths, Zenon
<1> HIDE DEF a, b, w
<1> QED
  BY <1>2, <1>3

\* The unescaped characters c of a pattern.
WildAt(p, c) == {i \in DOMAIN p : Modes(p)[i] = "plain" /\ p[i] = c}

\* A wildcard of a term and what it becomes.
Becomes(x, d) == (x = "*" /\ d = "%") \/ (x = "?" /\ d = "_")

\* They are what the wildcards of the term have become.
LEMMA WildPieces ==
  ASSUME NEW t, Len(t) \in Nat, NEW p, NEW off, Spells(p, t, off),
         NEW x, NEW d, Becomes(x, d)
  PROVE  WildAt(p, d) = {off[i] : i \in {i \in 1..Len(t) : t[i] = x}}
<1>0. Offsets(t, off) /\ DOMAIN p = 1..Len(p) /\ Len(p) = off[Len(t)]
  BY Zenon DEF Spells
<1>a. Offsets(t, off)
  BY <1>0, Zenon
<1>1. /\ x \notin Special /\ Image(x) = d /\ d \in Special
      /\ \A c : c \notin Special => (Image(c) = d <=> c = x)
  BY Zenon DEF Special, Image, Becomes
<1>2. \A n \in 0..Len(t) : Modes(p)[off[n]] # "escape"
  <2>1. PICK R : Reaching(R, p, <<>>)
    <3>1. Len(p) \in Nat
      <4>1. Len(t) \in 0..Len(t)
        OBVIOUS
      <4> QED
        BY <1>0, <4>1, Zenon DEF Offsets
    <3> DEFINE e == <<>>
    <3> HIDE DEF e
    <3>3. PICK g : /\ g[0] = {0}
                   /\ \A n \in 1..Len(p) : g[n] = Reach(e, Modes(p)[n], p[n], g[n - 1])
                   /\ Like(p, e) <=> Len(e) \in g[Len(p)] /\ Modes(p)[Len(p)] # "escape"
      BY <3>1, LikeUnfolds, Zenon
    <3>2. \E f : f[0] = {0} /\ \A n \in 1..Len(p) : f[n] = Reach(<<>>, Modes(p)[n], p[n], f[n - 1])
      BY <3>3, Zenon DEF e
    <3> QED
      BY <3>2, Zenon DEF Reaching
  <2>2. Len(<<>>) \in Nat
    BY Zenon
  <2>3. \A n \in 0..Len(t) : R[off[n]] = Laid(t, n, <<>>) /\ Modes(p)[off[n]] # "escape"
    BY ONLY <2>1, <2>2, Len(t) \in Nat, Spells(p, t, off), MatcherFollows
  <2> QED
    BY <2>3, Zenon
<1>3. ASSUME NEW i \in 1..Len(t)
      PROVE  /\ off[i - 1] \in Nat /\ off[i] = off[i - 1] + Width(t[i])
             /\ off[i - 1] + 1 \in 1..Len(p)
             /\ t[i] \in Special => /\ Modes(p)[off[i - 1] + 1] = "escape"
                                    /\ Modes(p)[off[i - 1] + 2] = "literal"
             /\ t[i] \notin Special => /\ Modes(p)[off[i - 1] + 1] = "plain"
                                       /\ p[off[i - 1] + 1] = Image(t[i])
                                       /\ off[i] = off[i - 1] + 1
  <2> DEFINE k == off[i - 1]  c == t[i]
  <2>1. /\ k \in Nat /\ off[i] = k + Width(c)
        /\ k + 1 \in 1..Len(p) /\ (c \in Special => k + 2 \in 1..Len(p))
    BY <1>0, PieceInside, Zenon
  <2>2. PieceAt(p, c, k)
    BY Zenon DEF Spells
  <2>3. Modes(p)[k] # "escape"
    <3>1. i - 1 \in 0..Len(t)
      OBVIOUS
    <3> QED
      BY <1>2, <3>1, Zenon
  <2>4. Len(p) \in Nat
    <3>1. Len(t) \in 0..Len(t)
      OBVIOUS
    <3> QED
      BY <1>0, <3>1, Zenon DEF Offsets
  <2> HIDE DEF k, c
  <2>5. /\ c \in Special => Modes(p)[k + 1] = "escape" /\ Modes(p)[k + 2] = "literal"
        /\ c \notin Special => Modes(p)[k + 1] = "plain"
    BY ONLY <2>1, <2>2, <2>3, <2>4, PieceModes, Zenon
  <2>6. c \notin Special => Width(c) = 1
    BY Widths, Zenon
  <2>7. c \notin Special => p[k + 1] = Image(c)
    BY <2>2, Zenon DEF PieceAt
  <2> QED
    BY <2>1, <2>5, <2>6, <2>7, Zenon DEF k, c
<1>4. ASSUME NEW j \in WildAt(p, d) PROVE \E i \in 1..Len(t) : t[i] = x /\ j = off[i]
  <2>1. j \in 1..off[Len(t)] /\ Modes(p)[j] = "plain" /\ p[j] = d
    BY <1>0, Zenon DEF WildAt
  <2>2. PICK i \in 1..Len(t) : \/ j = off[i - 1] + 1
                               \/ t[i] \in Special /\ j = off[i - 1] + 2
    BY ONLY <2>1, <1>a, Len(t) \in Nat, PiecesCover
  <2>3. "plain" # "escape" /\ "plain" # "literal"
    BY Zenon
  <2>4. t[i] \notin Special /\ j = off[i - 1] + 1
    BY <1>3, <2>1, <2>2, <2>3, Zenon
  <2>5. off[i] = j /\ p[j] = Image(t[i])
    BY <1>3, <2>4, Zenon
  <2> QED
    BY <1>1, <2>1, <2>4, <2>5, Zenon
<1>5. ASSUME NEW i \in 1..Len(t), t[i] = x PROVE off[i] \in WildAt(p, d)
  <2>1. t[i] \notin Special
    BY <1>1, <1>5, Zenon
  <2> QED
    BY <1>0, <1>1, <1>3, <1>5, <2>1, Zenon DEF WildAt
<1> QED
  BY <1>4, <1>5, Zenon

\* A pattern is a prefix pattern if its term is letters and a star behind them.
LEMMA Classified ==
  ASSUME NEW t, NEW n \in Nat, Len(t) = n + 1, NEW p, NEW off, Spells(p, t, off)
  PROVE  classifyPattern(p) = IF t[n + 1] = "*" /\ \A i \in 1..n : t[i] \notin {"*", "?"}
                              THEN "prefix" ELSE "contains"
<1> DEFINE Stars == {i \in 1..Len(t) : t[i] = "*"}
           Marks == {i \in 1..Len(t) : t[i] = "?"}
<1>0. Len(t) \in Nat /\ n + 1 \in 1..Len(t) /\ Offsets(t, off) /\ Len(p) = off[n + 1]
  BY DEF Spells
<1>1. WildAt(p, "%") = {off[i] : i \in Stars} /\ WildAt(p, "_") = {off[i] : i \in Marks}
  <2>1. Becomes("*", "%") /\ Becomes("?", "_")
    BY Zenon DEF Becomes
  <2>2. Len(t) \in Nat
    BY <1>0, Zenon
  <2>3. \A x, d : Becomes(x, d) => WildAt(p, d) = {off[i] : i \in {i \in 1..Len(t) : t[i] = x}}
    BY ONLY <2>2, Spells(p, t, off), WildPieces
  <2> QED
    BY <2>1, <2>3, Zenon
<1>2. classifyPattern(p) = IF WildAt(p, "%") = {off[n + 1]} /\ WildAt(p, "_") = {} THEN "prefix" ELSE "contains"
  BY <1>0, Zenon DEF classifyPattern, WildAt
<1>3. \A i \in 1..Len(t) : off[i] = off[n + 1] => i = n + 1
  BY <1>0, OffsetsDiffer, Zenon
<1>4. \A i : i \in 1..Len(t) <=> i \in 1..n \/ i = n + 1
  BY <1>0
<1>5. n + 1 \notin 1..n
  OBVIOUS
<1>6. "*" # "?"
  BY Zenon
<1>7. WildAt(p, "_") = {} <=> \A i \in 1..Len(t) : t[i] # "?"
  <2>1. ASSUME NEW i \in 1..Len(t), t[i] = "?" PROVE WildAt(p, "_") # {}
    <3>1. i \in Marks
      BY <2>1, Zenon
    <3> HIDE DEF Marks
    <3>2. off[i] \in WildAt(p, "_")
      BY <1>1, <3>1, Zenon
    <3> QED
      BY <3>2, Zenon
  <2>2. WildAt(p, "_") # {} => \E i \in 1..Len(t) : t[i] = "?"
    BY <1>1, Zenon
  <2> QED
    BY <2>1, <2>2, Zenon
<1>8. WildAt(p, "%") = {off[n + 1]} <=> t[n + 1] = "*" /\ \A i \in 1..n : t[i] # "*"
  <2>1. ASSUME WildAt(p, "%") = {off[n + 1]}, NEW i \in Stars PROVE i = n + 1
    BY <1>1, <1>3, <2>1, Zenon
  <2>2. ASSUME WildAt(p, "%") = {off[n + 1]} PROVE Stars # {}
    BY <1>1, <2>2, Zenon
  <2>3. ASSUME WildAt(p, "%") = {off[n + 1]}
        PROVE  t[n + 1] = "*" /\ \A i \in 1..n : t[i] # "*"
    BY <1>4, <1>5, <2>1, <2>2, <2>3, Zenon
  <2>4. ASSUME t[n + 1] = "*", \A i \in 1..n : t[i] # "*"
        PROVE  WildAt(p, "%") = {off[n + 1]}
    <3>1. Stars = {n + 1}
      BY <1>4, <2>4, Zenon
    <3> HIDE DEF Stars
    <3> QED
      BY <1>1, <3>1, Zenon
  <2> QED
    BY <2>3, <2>4, Zenon
<1> QED
  BY <1>2, <1>4, <1>6, <1>7, <1>8, Zenon

-----------------------------------------------------------------------------
(* The translation                                                         *)

\* What the translation promises of any term and text.
LEMMA Translated ==
  ASSUME NEW t \in Seq(Chars), NEW s \in Seq(Chars), NEW r, r = TranslateWildcard(t)
  PROVE  /\ Like(r.pattern, s) <=> TermMatches(t, s)
         /\ r.type = "exact" => (Like(r.pattern, s) <=> s = t)
         /\ r.type = "prefix" => (Like(r.pattern, s) <=> Begins(s, t, Len(t) - 1))
         /\ r.type = "contains" =>
              ~(t[Len(t) - 1 + 1] = "*" /\ \A i \in 1..(Len(t) - 1) : t[i] \notin {"*", "?"})
<1> DEFINE p == r.pattern  k == r.type  N == Len(t)
<1>0. N \in Nat /\ Len(s) \in Nat /\ DOMAIN t = 1..N
  OBVIOUS
<1>1. PICK off : Spells(p, t, off)
  BY PatternPieces, Zenon
<1>2. Like(p, s) <=> TermMatches(t, s)
  BY <1>0, <1>1, LikeIsTermMatches, Zenon
<1>3. k = IF containsWildcard(t) THEN classifyPattern(p) ELSE "exact"
  BY Zenon DEF TranslateWildcard
<1> HIDE DEF p, k, N
<1>4. CASE ~containsWildcard(t)
  <2>1. \A i \in 1..Len(t) : t[i] \notin {"*", "?"}
    BY <1>0, <1>4, Zenon DEF containsWildcard, N
  <2>2. TermMatches(t, s) <=> s = t
    BY ONLY t \in Seq(Chars), s \in Seq(Chars), <2>1, LiteralTerm, Zenon
  <2>3. k = "exact" /\ "exact" # "prefix" /\ "exact" # "contains"
    BY <1>3, <1>4, Zenon
  <2> QED
    BY <1>2, <2>2, <2>3, Zenon DEF p, k
<1>5. CASE containsWildcard(t)
  <2> DEFINE n == N - 1
             literal == \A i \in 1..n : t[i] \notin {"*", "?"}
  <2>1. n \in Nat /\ N = n + 1
    BY <1>0, <1>5 DEF containsWildcard
  <2> HIDE DEF n
  <2>2. k = IF t[n + 1] = "*" /\ literal THEN "prefix" ELSE "contains"
    <3>1. Len(t) = n + 1
      BY <2>1, Zenon DEF N
    <3>2. classifyPattern(p) = IF t[n + 1] = "*" /\ literal THEN "prefix" ELSE "contains"
      BY ONLY <1>1, <2>1, <3>1, Classified, Zenon
    <3> QED
      BY <1>3, <1>5, <3>2, Zenon
  <2>3. "prefix" # "contains" /\ "exact" # "prefix" /\ "exact" # "contains"
    BY Zenon
  <2>4. t[n + 1] = "*" /\ literal => (TermMatches(t, s) <=> Begins(s, t, n))
    <3>1. Len(t) = n + 1
      BY <2>1, Zenon DEF N
    <3> QED
      BY <1>0, <2>1, <3>1, PrefixTerm, Zenon
  <2> HIDE DEF literal
  <2>5. /\ k # "exact"
        /\ k = "prefix" => (Like(p, s) <=> Begins(s, t, n))
        /\ k = "contains" => ~(t[n + 1] = "*" /\ literal)
    BY <1>2, <2>2, <2>3, <2>4, Zenon
  <2> QED
    BY <1>2, <2>5, Zenon DEF p, k, n, N, literal
<1> QED
  BY <1>4, <1>5, Zenon

\* The types of a term and of a text.
PatternTypeOK == term \in Seq(Chars) /\ text \in Seq(Letters \cup Special)

\* They keep their types.
LEMMA PatternTypes == PatternSpec => []PatternTypeOK
<1>1. PatternInit => PatternTypeOK
  BY DEF PatternInit, PatternTypeOK
<1>2. PatternTypeOK /\ [PatternNext]_patternVars => PatternTypeOK'
  <2> SUFFICES ASSUME PatternTypeOK, [PatternNext]_patternVars PROVE PatternTypeOK'
    BY Zenon
  <2>1. ASSUME NEW c \in Chars, TypeTerm(c) PROVE PatternTypeOK'
    BY <2>1 DEF PatternTypeOK, TypeTerm
  <2>2. ASSUME NEW c \in Letters \cup Special, StoreText(c) PROVE PatternTypeOK'
    BY <2>2 DEF PatternTypeOK, StoreText
  <2>3. CASE UNCHANGED patternVars
    BY <2>3, Zenon DEF PatternTypeOK, patternVars
  <2> QED
    BY <2>1, <2>2, <2>3, Zenon DEF PatternNext, Chars
<1> QED
  BY <1>1, <1>2, PTL DEF PatternSpec

\* TranslateWildcard, for terms and texts of every length: LIKE with the pattern of a term
\* matches exactly what the term matches, and the class of the pattern, on which the search
\* chooses its condition, says what those texts are.
THEOREM TranslatesWhatWasTyped == PatternSpec => []TranslationMatches
<1>1. PatternTypeOK => TranslationMatches
  <2> SUFFICES ASSUME PatternTypeOK PROVE TranslationMatches
    BY Zenon
  <2> DEFINE r == TranslateWildcard(term)  p == r.pattern
  <2>1. term \in Seq(Chars) /\ text \in Seq(Chars)
    BY DEF PatternTypeOK, Chars
  <2>2. /\ Like(p, text) <=> TermMatches(term, text)
        /\ r.type = "exact" => (Like(p, text) <=> text = term)
        /\ r.type = "prefix" => (Like(p, text) <=> Begins(text, term, Len(term) - 1))
        /\ r.type = "contains" =>
             ~(term[Len(term) - 1 + 1] = "*" /\ \A i \in 1..(Len(term) - 1) : term[i] \notin {"*", "?"})
    BY <2>1, Translated, Zenon
  <2>3. ASSUME IsAllWildcard(term), NEW c \in Letters
        PROVE  Like(p, text) <=> Like(p, [i \in DOMAIN text |-> c])
    <3> DEFINE u == [i \in DOMAIN text |-> c]
    <3>1. u \in Seq(Chars) /\ Len(u) = Len(text)
      BY <2>1 DEF Chars
    <3>2. \A i \in 1..Len(term) : term[i] \in {"*", "?"}
      BY <2>1, <2>3 DEF IsAllWildcard
    <3> HIDE DEF u
    <3>3. Like(p, u) <=> TermMatches(term, u)
      BY <2>1, <3>1, Translated, Zenon
    <3>4. TermMatches(term, text) <=> TermMatches(term, u)
      BY <3>1, <3>2, WildcardTerm, Zenon
    <3> QED
      BY <2>2, <3>3, <3>4, Zenon DEF u
  <2> QED
    BY <2>2, <2>3, Zenon DEF TranslationMatches
<1> QED
  BY <1>1, PatternTypes, PTL

=============================================================================
