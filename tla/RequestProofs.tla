---------------------------- MODULE RequestProofs ----------------------------
(***************************************************************************)
(* What a service makes of a request of any size: the roles that the       *)
(* claims of its token stand for, and the SQL query that its filters,      *)
(* terms and sorts are compiled to.  The loops of the code are recursive   *)
(* functions, and what they compute is proved by induction on the lists.   *)
(***************************************************************************)
EXTENDS SearchCompile, IssuedClaims, WellFoundedInduction, TLAPS

-----------------------------------------------------------------------------
(* Lists                                                                   *)

\* Induction on the length of a list: of the numbers outside of S there would be a least one.
LEMMA NatInd ==
  ASSUME NEW S, 0 \in S, \A n \in Nat : n \in S => n + 1 \in S
  PROVE  Nat \subseteq S
<1> SUFFICES ASSUME Nat \ S # {} PROVE FALSE
  BY Zenon
<1> DEFINE R == OpToRel(<, Nat)
           T == Nat \ S
<1>1. \E x \in T : \A y \in T : ~ (<<y, x>> \in R)
  <2>1. IsWellFoundedOn(R, Nat)
    BY NatLessThanWellFounded, Zenon
  <2>2. T \subseteq Nat /\ T # {}
    BY Zenon
  <2> HIDE DEF R, T
  <2> QED
    BY <2>1, <2>2, WFMin, Zenon
<1>2. PICK x \in T : \A y \in T : ~ (<<y, x>> \in R)
  BY <1>1, Zenon
<1>3. x # 0 /\ x - 1 \in Nat /\ x \in Nat
  OBVIOUS
<1>4. x - 1 \in T
  BY <1>3
<1>5. <<x - 1, x>> \in R
  BY <1>3 DEF OpToRel
<1> QED
  BY <1>2, <1>4, <1>5, Zenon

\* What Without has kept of the first n elements, f[n - 1] being what it has kept before.
KeptStep(s, S, f, n) ==
    IF n = 0 THEN <<>> ELSE IF s[n] \in S THEN f[n - 1] ELSE Append(f[n - 1], s[n])

\* There is a function that KeptStep computes, for lists of every length.
LEMMA KeptExists ==
  ASSUME NEW s, NEW S, NEW N \in Nat
  PROVE  \E f : f = [n \in 0..N |-> KeptStep(s, S, f, n)]
<1> DEFINE G == {m \in Nat : \E f : f = [n \in 0..m |-> KeptStep(s, S, f, n)]}
<1>1. 0 \in G
  <2> DEFINE f == [n \in 0..0 |-> <<>>]
  <2>1. f = [n \in 0..0 |-> KeptStep(s, S, f, n)]
    BY DEF KeptStep
  <2> HIDE DEF f
  <2> QED
    BY <2>1, Zenon
<1>2. ASSUME NEW m \in Nat, m \in G PROVE m + 1 \in G
  <2>1. PICK f : f = [n \in 0..m |-> KeptStep(s, S, f, n)]
    BY <1>2, Zenon
  <2> DEFINE g == [n \in 0..m + 1 |-> IF n = m + 1 THEN KeptStep(s, S, f, n) ELSE f[n]]
  <2>2. ASSUME NEW n \in 0..m + 1 PROVE g[n] = KeptStep(s, S, g, n)
    <3>1. CASE n = m + 1
      BY <3>1 DEF KeptStep
    <3>2. CASE n \in 0..m
      <4>1. g[n] = f[n]
        BY <3>2
      <4>2. f[n] = KeptStep(s, S, f, n)
        BY <3>2, <2>1, Zenon
      <4>3. n # 0 => g[n - 1] = f[n - 1]
        BY <3>2
      <4> QED
        BY <4>1, <4>2, <4>3, Zenon DEF KeptStep
    <3> QED
      BY <3>1, <3>2
  <2>3. g = [n \in 0..m + 1 |-> KeptStep(s, S, g, n)]
    BY <2>2, Zenon
  <2> HIDE DEF g
  <2> QED
    BY <2>3
<1> HIDE DEF G
<1>3. Nat \subseteq G
  BY <1>1, <1>2, NatInd, Zenon
<1> QED
  BY <1>3, Zenon DEF G

\* Without is the last value of the function that its recursion describes.
LEMMA WithoutUnfolds ==
  ASSUME NEW s, NEW S, Len(s) \in Nat
  PROVE  \E f : /\ f[0] = <<>>
                /\ \A n \in 1..Len(s) : f[n] = IF s[n] \in S THEN f[n - 1] ELSE Append(f[n - 1], s[n])
                /\ Without(s, S) = f[Len(s)]
<1> DEFINE N == Len(s)
           F == CHOOSE f : f = [n \in 0..N |-> KeptStep(s, S, f, n)]
<1>1. \E f : f = [n \in 0..N |-> KeptStep(s, S, f, n)]
  BY KeptExists, Zenon
<1>2. F = [n \in 0..N |-> KeptStep(s, S, F, n)]
  BY <1>1, Zenon
<1>3. Without(s, S) = F[N]
  BY Zenon DEF Without, KeptStep
<1> HIDE DEF F
<1>4. F[0] = <<>> /\ \A n \in 1..N : F[n] = IF s[n] \in S THEN F[n - 1] ELSE Append(F[n - 1], s[n])
  <2>1. \A n \in 0..N : F[n] = KeptStep(s, S, F, n)
    BY <1>2, Zenon
  <2>2. 0 \in 0..N /\ \A n \in 1..N : n \in 0..N /\ n # 0
    OBVIOUS
  <2> HIDE DEF N
  <2> QED
    BY <2>1, <2>2, Zenon DEF KeptStep
<1> QED
  BY <1>3, <1>4, Zenon

\* Without returns elements of the list that are not in S; it returns the list if none of its
\* elements is in S, and nothing if all are.
LEMMA WithoutFacts ==
  ASSUME NEW X, NEW s \in Seq(X), NEW S
  PROVE  /\ Without(s, S) \in Seq(X \ S)
         /\ (\A i \in 1..Len(s) : s[i] \notin S) => Without(s, S) = s
         /\ Without(s, S) = <<>> <=> \A i \in 1..Len(s) : s[i] \in S
<1>1. PICK f : /\ f[0] = <<>>
               /\ \A n \in 1..Len(s) : f[n] = IF s[n] \in S THEN f[n - 1] ELSE Append(f[n - 1], s[n])
               /\ Without(s, S) = f[Len(s)]
  <2>1. Len(s) \in Nat
    OBVIOUS
  <2> QED
    BY <2>1, WithoutUnfolds, Zenon
<1> DEFINE Right(n) == /\ f[n] \in Seq(X \ S)
                       /\ (\A i \in 1..n : s[i] \notin S) => Len(f[n]) = n /\ \A i \in 1..n : f[n][i] = s[i]
                       /\ f[n] = <<>> <=> \A i \in 1..n : s[i] \in S
           G == {n \in Nat : n <= Len(s) => Right(n)}
<1>2. 0 \in G
  <2>1. f[0] = <<>>
    BY <1>1, Zenon
  <2>2. f[0] \in Seq(X \ S) /\ Len(f[0]) = 0 /\ 1..0 = {}
    BY <2>1
  <2> QED
    BY <2>1, <2>2, Zenon
<1>3. ASSUME NEW n \in Nat, n \in G PROVE n + 1 \in G
  <2> SUFFICES ASSUME n + 1 <= Len(s) PROVE Right(n + 1)
    OBVIOUS
  <2>1. Right(n) /\ n \in 0..Len(s) /\ n + 1 \in 1..Len(s)
    BY <1>3
  <2>2. f[n + 1] = IF s[n + 1] \in S THEN f[n] ELSE Append(f[n], s[n + 1])
    BY <1>1, <2>1
  <2>3. s[n + 1] \in X
    BY <2>1
  <2>4. CASE s[n + 1] \in S
    BY <2>1, <2>2, <2>4
  <2>5. CASE s[n + 1] \notin S
    <3> DEFINE g == f[n] x == s[n + 1] h == Append(g, x)
    <3>1. f[n + 1] = h /\ x \in X \ S /\ g \in Seq(X \ S)
      BY <2>1, <2>2, <2>3, <2>5, Zenon
    <3>2. /\ h \in Seq(X \ S) /\ Len(h) = Len(g) + 1 /\ h # <<>>
          /\ h[Len(g) + 1] = x /\ \A i \in 1..Len(g) : h[i] = g[i]
      <4> HIDE DEF g, x
      <4> QED
        BY <3>1
    <3>3. ASSUME \A i \in 1..(n + 1) : s[i] \notin S
          PROVE  Len(h) = n + 1 /\ \A i \in 1..(n + 1) : h[i] = s[i]
      <4>1. Len(g) = n /\ \A i \in 1..n : g[i] = s[i]
        BY <2>1, <3>3
      <4> HIDE DEF h, g
      <4> QED
        BY <3>2, <4>1
    <3>4. ~ \A i \in 1..(n + 1) : s[i] \in S
      BY <2>5
    <3> HIDE DEF h
    <3> QED
      BY <3>1, <3>2, <3>3, <3>4, Zenon
  <2> QED
    BY <2>4, <2>5, Zenon
<1> HIDE DEF G
<1>4. Nat \subseteq G
  BY <1>2, <1>3, NatInd, Zenon
<1>5. Right(Len(s))
  BY <1>4 DEF G
<1>6. (\A i \in 1..Len(s) : s[i] \notin S) => Without(s, S) = s
  <2> DEFINE w == Without(s, S)
  <2>1. w \in Seq(X \ S) /\ s \in Seq(X)
    BY <1>1, <1>5, Zenon
  <2>2. w = [i \in 1..Len(w) |-> w[i]] /\ s = [i \in 1..Len(s) |-> s[i]]
    BY <2>1
  <2>3. (\A i \in 1..Len(s) : s[i] \notin S) => Len(w) = Len(s) /\ \A i \in 1..Len(s) : w[i] = s[i]
    BY <1>1, <1>5, Zenon
  <2> HIDE DEF w
  <2> QED
    BY <2>2, <2>3, Zenon DEF w
<1> QED
  BY <1>1, <1>5, <1>6, Zenon

\* A list is numbered from 1 to its length.
LEMMA ListFacts ==
  ASSUME NEW s, IsList(s)
  PROVE  /\ Len(s) \in Nat /\ DOMAIN s = 1..Len(s)
         /\ s = [i \in 1..Len(s) |-> s[i]]
BY DEF IsList

\* What is numbered from 1 to N is a list of length N.
LEMMA ListIs ==
  ASSUME NEW s, NEW N \in Nat, s = [i \in 1..N |-> s[i]]
  PROVE  IsList(s) /\ Len(s) = N
<1> DEFINE E == {s[i] : i \in DOMAIN s}
<1>1. DOMAIN s = 1..N
  BY Zenon
<1>2. \A i \in 1..N : s[i] \in E
  BY <1>1, Zenon
<1> HIDE DEF E
<1>3. s \in [1..N -> E]
  BY <1>2, Zenon
<1>4. s \in Seq(E)
  BY <1>3
<1>5. Len(s) = N
  BY <1>1, <1>4
<1> QED
  BY <1>4, <1>5, Zenon DEF IsList, E

\* u is t after s.
Joins(u, s, t) == u = s \o t

\* The elements of two lists that are joined.
LEMMA ListsJoin ==
  ASSUME NEW s, IsList(s), NEW t, IsList(t), NEW u, Joins(u, s, t)
  PROVE  /\ IsList(u) /\ Len(u) = Len(s) + Len(t)
         /\ \A i \in 1..Len(s) : u[i] = s[i]
         /\ \A i \in 1..Len(t) : u[Len(s) + i] = t[i]
<1> DEFINE E == {s[i] : i \in DOMAIN s} \cup {t[i] : i \in DOMAIN t}
           v == s \o t
<1>1. s \in Seq({s[i] : i \in DOMAIN s}) /\ t \in Seq({t[i] : i \in DOMAIN t})
  BY Zenon DEF IsList
<1>2. s \in Seq(E) /\ t \in Seq(E)
  BY <1>1
<1> HIDE DEF E
<1>3. /\ v \in Seq(E) /\ Len(v) = Len(s) + Len(t) /\ Len(s) \in Nat /\ Len(t) \in Nat
      /\ \A i \in 1..Len(s) : v[i] = s[i]
      /\ \A i \in 1..Len(t) : v[Len(s) + i] = t[i]
  BY <1>2
<1> HIDE DEF v
<1>6. u = v
  BY Zenon DEF Joins, v
<1>7. /\ u \in Seq(E) /\ Len(u) = Len(s) + Len(t) /\ Len(s) \in Nat /\ Len(t) \in Nat
      /\ \A i \in 1..Len(s) : u[i] = s[i]
      /\ \A i \in 1..Len(t) : u[Len(s) + i] = t[i]
  BY <1>3, <1>6
<1>4. u = [i \in 1..Len(u) |-> u[i]]
  BY <1>7
<1>5. IsList(u)
  <2>1. Len(u) \in Nat
    BY <1>7
  <2> QED
    BY <1>4, <2>1, ListIs, Zenon
<1> QED
  BY <1>7, <1>5, Zenon

\* The elements of a list and one more.
LEMMA ListAppends ==
  ASSUME NEW s, IsList(s), NEW x
  PROVE  /\ IsList(Append(s, x)) /\ Len(Append(s, x)) = Len(s) + 1
         /\ \A i \in 1..Len(s) : Append(s, x)[i] = s[i]
         /\ Append(s, x)[Len(s) + 1] = x
<1> DEFINE E == {s[i] : i \in DOMAIN s} \cup {x}
           u == Append(s, x)
<1>1. s \in Seq({s[i] : i \in DOMAIN s})
  BY Zenon DEF IsList
<1>2. s \in Seq(E) /\ x \in E
  BY <1>1
<1> HIDE DEF E
<1>3. /\ u \in Seq(E) /\ Len(u) = Len(s) + 1 /\ Len(s) \in Nat
      /\ \A i \in 1..Len(s) : u[i] = s[i]
      /\ u[Len(s) + 1] = x
  BY <1>2
<1> HIDE DEF u
<1>4. u = [i \in 1..Len(u) |-> u[i]]
  BY <1>3
<1>5. IsList(u)
  <2>1. Len(u) \in Nat
    BY <1>3
  <2> QED
    BY <1>4, <2>1, ListIs, Zenon
<1> QED
  BY <1>3, <1>5, Zenon DEF u

\* A list of one element.
LEMMA OneElement == ASSUME NEW x PROVE IsList(<<x>>) /\ Len(<<x>>) = 1 /\ <<x>>[1] = x
  BY DEF IsList

\* The list without elements.
LEMMA EmptyList == IsList(<<>>) /\ Len(<<>>) = 0
  BY DEF IsList

\* Without returns a list.
LEMMA WithoutIsList ==
  ASSUME NEW s, IsList(s), NEW S
  PROVE  IsList(Without(s, S))
<1> DEFINE X == {s[i] : i \in DOMAIN s}
           w == Without(s, S)
<1>1. w \in Seq(X \ S)
  BY WithoutFacts, Zenon DEF IsList
<1> HIDE DEF X, w
<1>2. Len(w) \in Nat /\ w = [i \in 1..Len(w) |-> w[i]]
  BY <1>1
<1> QED
  BY <1>2, ListIs, Zenon DEF w

-----------------------------------------------------------------------------
(* The roles of a token                                                    *)

\* The roles rs, with a group that may be new.
GroupAdded(rs, g) == IF \E i \in DOMAIN rs : Lower[rs[i]] = Lower[g] THEN rs ELSE Append(rs, g)

\* The roles after the first n groups, f[n - 1] being those after the groups before.
GroupStep(roles, groups, f, n) == IF n = 0 THEN roles ELSE GroupAdded(f[n - 1], groups[n])

\* There is a function that GroupStep computes, for every number of groups.
LEMMA AddingExists ==
  ASSUME NEW roles, NEW groups, NEW N \in Nat
  PROVE  \E f : f = [n \in 0..N |-> GroupStep(roles, groups, f, n)]
<1> DEFINE G == {m \in Nat : \E f : f = [n \in 0..m |-> GroupStep(roles, groups, f, n)]}
<1>1. 0 \in G
  <2> DEFINE f == [n \in 0..0 |-> roles]
  <2>1. f = [n \in 0..0 |-> GroupStep(roles, groups, f, n)]
    BY DEF GroupStep
  <2> HIDE DEF f
  <2> QED
    BY <2>1, Zenon
<1>2. ASSUME NEW m \in Nat, m \in G PROVE m + 1 \in G
  <2>1. PICK f : f = [n \in 0..m |-> GroupStep(roles, groups, f, n)]
    BY <1>2, Zenon
  <2> DEFINE g == [n \in 0..m + 1 |-> IF n = m + 1 THEN GroupStep(roles, groups, f, n) ELSE f[n]]
  <2>2. ASSUME NEW n \in 0..m + 1 PROVE g[n] = GroupStep(roles, groups, g, n)
    <3>1. n # 0 => g[n - 1] = f[n - 1]
      OBVIOUS
    <3>2. GroupStep(roles, groups, g, n) = GroupStep(roles, groups, f, n)
      <4> HIDE DEF g
      <4> QED
        BY <3>1 DEF GroupStep
    <3>3. CASE n = m + 1
      BY <3>2, <3>3, Zenon
    <3>4. CASE n \in 0..m
      <4>1. g[n] = f[n]
        BY <3>4
      <4>2. f[n] = GroupStep(roles, groups, f, n)
        BY <3>4, <2>1, Zenon
      <4> QED
        BY <3>2, <4>1, <4>2, Zenon
    <3> QED
      BY <3>3, <3>4
  <2>3. g = [n \in 0..m + 1 |-> GroupStep(roles, groups, g, n)]
    BY <2>2, Zenon
  <2> HIDE DEF g
  <2> QED
    BY <2>3
<1> HIDE DEF G
<1>3. Nat \subseteq G
  BY <1>1, <1>2, NatInd, Zenon
<1> QED
  BY <1>3, Zenon DEF G

\* AddGroups is the last value of the function that its recursion describes.
LEMMA AddGroupsUnfolds ==
  ASSUME NEW roles, NEW groups, Len(groups) \in Nat
  PROVE  \E f : /\ f[0] = roles
                /\ \A n \in 1..Len(groups) : f[n] = GroupStep(roles, groups, f, n)
                /\ AddGroups(roles, groups) = f[Len(groups)]
<1> DEFINE N == Len(groups)
           F == CHOOSE f : f = [n \in 0..N |-> GroupStep(roles, groups, f, n)]
<1>1. \E f : f = [n \in 0..N |-> GroupStep(roles, groups, f, n)]
  BY AddingExists, Zenon
<1>2. F = [n \in 0..N |-> GroupStep(roles, groups, F, n)]
  BY <1>1, Zenon
<1>3. AddGroups(roles, groups) = F[N]
  BY Zenon DEF AddGroups, GroupStep, GroupAdded
<1> HIDE DEF F
<1>4. F[0] = roles /\ \A n \in 1..N : F[n] = GroupStep(roles, groups, F, n)
  <2>1. \A n \in 0..N : F[n] = GroupStep(roles, groups, F, n)
    BY <1>2, Zenon
  <2>2. 0 \in 0..N /\ \A n \in 1..N : n \in 0..N
    OBVIOUS
  <2>3. GroupStep(roles, groups, F, 0) = roles
    BY Zenon DEF GroupStep
  <2> HIDE DEF N
  <2> QED
    BY <2>1, <2>2, <2>3, Zenon
<1> QED
  BY <1>3, <1>4, Zenon

\* A role more, in lower case.
LEMMA LowerSetAppends ==
  ASSUME NEW s, IsList(s), NEW x
  PROVE  LowerSet(Append(s, x)) = LowerSet(s) \cup {Lower[x]}
<1> DEFINE u == Append(s, x)  L == Len(s)
<1>1. /\ IsList(u) /\ Len(u) = L + 1
      /\ \A i \in 1..L : u[i] = s[i]
      /\ u[L + 1] = x
  BY ListAppends
<1>2. L \in Nat /\ DOMAIN s = 1..L /\ DOMAIN u = 1..(L + 1)
  BY <1>1, ListFacts, Zenon
<1> HIDE DEF u, L
<1>3. 1..(L + 1) = 1..L \cup {L + 1}
  BY <1>2
<1>4. {Lower[u[i]] : i \in 1..(L + 1)} = {Lower[s[i]] : i \in 1..L} \cup {Lower[x]}
  BY <1>1, <1>3
<1> QED
  BY <1>2, <1>4, Zenon DEF LowerSet, u

\* rs is roles, and after it groups that are new, up to case, where they come.
Extended(roles, rs) ==
    /\ Len(rs) >= Len(roles)
    /\ \A i \in 1..Len(rs) :
         IF i <= Len(roles) THEN rs[i] = roles[i]
         ELSE \A j \in 1..(i - 1) : Lower[rs[j]] # Lower[rs[i]]

\* A group that is new may follow.
LEMMA ExtendedAppends ==
  ASSUME NEW roles, IsList(roles), NEW rs, IsList(rs), Extended(roles, rs),
         NEW g, Lower[g] \notin LowerSet(rs)
  PROVE  Extended(roles, Append(rs, g))
<1> DEFINE u == Append(rs, g)  L == Len(rs)  K == Len(roles)
<1>1. /\ IsList(u) /\ Len(u) = L + 1
      /\ \A i \in 1..L : u[i] = rs[i]
      /\ u[L + 1] = g
  BY ListAppends
<1>2. L \in Nat /\ DOMAIN rs = 1..L /\ K \in Nat
  BY ListFacts, Zenon
<1>3. \A i \in 1..L : Lower[rs[i]] # Lower[g]
  BY <1>2, Zenon DEF LowerSet
<1>4. /\ L >= K
      /\ \A i \in 1..L : IF i <= K THEN rs[i] = roles[i] ELSE \A j \in 1..(i - 1) : Lower[rs[j]] # Lower[rs[i]]
  BY Zenon DEF Extended
<1> HIDE DEF u, L, K
<1>5. ASSUME NEW i \in 1..(L + 1)
      PROVE  IF i <= K THEN u[i] = roles[i] ELSE \A j \in 1..(i - 1) : Lower[u[j]] # Lower[u[i]]
  <2>1. CASE i \in 1..L
    <3>1. u[i] = rs[i] /\ \A j \in 1..(i - 1) : u[j] = rs[j]
      BY <1>1, <1>2, <2>1
    <3>2. IF i <= K THEN rs[i] = roles[i] ELSE \A j \in 1..(i - 1) : Lower[rs[j]] # Lower[rs[i]]
      BY <1>4, <2>1, Zenon
    <3>3. CASE i <= K
      BY <3>1, <3>2, <3>3, Zenon
    <3>4. CASE ~(i <= K)
      BY <3>1, <3>2, <3>4, Zenon
    <3> QED
      BY <3>3, <3>4, Zenon
  <2>2. CASE i = L + 1
    <3>1. ~(i <= K) /\ i - 1 = L
      BY <1>2, <1>4, <2>2
    <3>2. u[i] = g
      BY <1>1, <2>2, Zenon
    <3>3. \A j \in 1..(i - 1) : u[j] = rs[j] /\ Lower[rs[j]] # Lower[g]
      BY <1>1, <1>3, <3>1, Zenon
    <3> QED
      BY <3>1, <3>2, <3>3, Zenon
  <2> QED
    BY <1>2, <2>1, <2>2
<1>6. L + 1 >= K
  BY <1>2, <1>4
<1> QED
  BY <1>1, <1>5, <1>6, Zenon DEF Extended, u, K

\* AddGroups adds every group that is new when its turn comes, by induction on the groups.
LEMMA AddGroupsRoles ==
  ASSUME NEW roles, IsList(roles), NEW groups, IsList(groups)
  PROVE  /\ LowerSet(AddGroups(roles, groups)) = LowerSet(roles) \cup LowerSet(groups)
         /\ Extended(roles, AddGroups(roles, groups))
<1> DEFINE N == Len(groups)
           Of(n) == {Lower[groups[i]] : i \in 1..n}
<1>1. N \in Nat /\ DOMAIN groups = 1..N
  BY ListFacts, Zenon
<1>2. PICK f : /\ f[0] = roles
               /\ \A n \in 1..N : f[n] = GroupStep(roles, groups, f, n)
               /\ AddGroups(roles, groups) = f[N]
  BY <1>1, AddGroupsUnfolds, Zenon
<1> DEFINE Right(n) == IsList(f[n]) /\ LowerSet(f[n]) = LowerSet(roles) \cup Of(n) /\ Extended(roles, f[n])
           G == {n \in Nat : n <= N => Right(n)}
<1> HIDE DEF N
<1>3. 0 \in G
  <2>1. Of(0) = {}
    OBVIOUS
  <2>2. Extended(roles, roles)
    BY ListFacts DEF Extended
  <2>3. Right(0)
    BY <1>2, <2>1, <2>2, Zenon
  <2> QED
    BY <2>3
<1>4. ASSUME NEW n \in Nat, n \in G PROVE n + 1 \in G
  <2> SUFFICES ASSUME n + 1 <= N PROVE Right(n + 1)
    OBVIOUS
  <2> DEFINE w == Lower[groups[n + 1]]
  <2>1. n <= N /\ n + 1 \in 1..N /\ (n + 1) - 1 = n /\ n + 1 # 0 /\ 1..(n + 1) = 1..n \cup {n + 1}
    BY <1>1
  <2>2. Right(n)
    BY <1>4, <2>1, Zenon
  <2>3. f[n + 1] = GroupStep(roles, groups, f, n + 1)
    BY <1>2, <2>1, Zenon
  <2>4. f[n + 1] = IF w \in LowerSet(f[n]) THEN f[n] ELSE Append(f[n], groups[n + 1])
    BY <2>1, <2>3, Zenon DEF GroupStep, GroupAdded, LowerSet
  <2>5. Of(n + 1) = Of(n) \cup {w}
    BY <2>1, Zenon
  <2> HIDE DEF Of
  <2>6. CASE w \in LowerSet(f[n])
    <3>1. LowerSet(roles) \cup Of(n + 1) = LowerSet(roles) \cup Of(n)
      BY <2>2, <2>5, <2>6, Zenon
    <3>2. f[n + 1] = f[n]
      BY <2>4, <2>6, Zenon
    <3> QED
      BY <2>2, <3>1, <3>2, Zenon
  <2>7. CASE w \notin LowerSet(f[n])
    <3> DEFINE g == f[n]  x == groups[n + 1]
    <3>1. f[n + 1] = Append(g, x)
      BY <2>4, <2>7, Zenon
    <3>2. IsList(g) /\ Extended(roles, g) /\ Lower[x] \notin LowerSet(g)
      BY <2>2, <2>7, Zenon
    <3>3. LowerSet(g) \cup {Lower[x]} = LowerSet(roles) \cup Of(n + 1)
      BY <2>2, <2>5, Zenon
    <3> HIDE DEF g, x
    <3>4. IsList(Append(g, x))
      BY <3>2, ListAppends
    <3>5. LowerSet(Append(g, x)) = LowerSet(g) \cup {Lower[x]}
      BY <3>2, LowerSetAppends, Zenon
    <3>6. Extended(roles, Append(g, x))
      BY <3>2, ExtendedAppends, Zenon
    <3> QED
      BY <3>1, <3>3, <3>4, <3>5, <3>6, Zenon
  <2> QED
    BY <2>6, <2>7, Zenon
<1> HIDE DEF G
<1>5. Nat \subseteq G
  BY <1>3, <1>4, NatInd, Zenon
<1>6. Right(N)
  <2>1. N <= N
    BY <1>1
  <2> QED
    BY <1>1, <1>5, <2>1, Zenon DEF G
<1>7. Of(N) = LowerSet(groups)
  BY <1>1, Zenon DEF LowerSet
<1> QED
  BY <1>2, <1>6, <1>7, Zenon

\* The claims that the normalizers read as lists are lists.
ClaimsTyped == \A k \in ListClaims \cap DOMAIN claims : IsList(claims[k].words)

\* The issuer keeps to the menu.
LEMMA ClaimsAreTyped == ClaimsSpec => []ClaimsTyped
<1>1. ClaimsInit => ClaimsTyped
  BY DEF ClaimsInit, ClaimsTyped
<1>2. ClaimsTyped /\ [ClaimsNext]_claims => ClaimsTyped'
  <2> SUFFICES ASSUME ClaimsTyped, [ClaimsNext]_claims PROVE ClaimsTyped'
    OBVIOUS
  <2>1. ASSUME NEW k \in DOMAIN Menu, AddClaim(k) PROVE ClaimsTyped'
    <3>1. PICK v \in Menu[k] : claims' = [x \in DOMAIN claims \cup {k} |-> IF x = k THEN v ELSE claims[x]]
      BY <2>1, Zenon DEF AddClaim
    <3>2. ASSUME NEW x \in ListClaims \cap DOMAIN claims' PROVE IsList(claims'[x].words)
      <4>1. x \in DOMAIN claims \cup {k} /\ claims'[x] = IF x = k THEN v ELSE claims[x]
        BY <3>1, <3>2
      <4>2. CASE x = k
        <5>1. k \in ListClaims \cap DOMAIN Menu /\ claims'[x] = v
          BY <3>2, <4>1, <4>2, Zenon
        <5> QED
          BY <5>1, MenuAssumption, Zenon
      <4>3. CASE x # k
        BY <3>2, <4>1, <4>3, Zenon DEF ClaimsTyped
      <4> QED
        BY <4>2, <4>3, Zenon
    <3> QED
      BY <3>2, Zenon DEF ClaimsTyped
  <2>2. CASE UNCHANGED claims
    BY <2>2, Zenon DEF ClaimsTyped
  <2> QED
    BY <2>1, <2>2, Zenon DEF ClaimsNext
<1> QED
  BY <1>1, <1>2, PTL DEF ClaimsSpec

\* Words returns a list, for a claim that is missing or of another kind too.
LEMMA WordsAreLists ==
  ASSUME ClaimsTyped, NEW k \in ListClaims, NEW kinds
  PROVE  IsList(Words(claims, k, kinds))
<1>1. CASE k \in DOMAIN claims /\ claims[k].kind \in kinds
  BY <1>1, WithoutIsList, Zenon DEF Words, ClaimsTyped
<1>2. CASE ~ (k \in DOMAIN claims /\ claims[k].kind \in kinds)
  BY <1>2, EmptyList, Zenon DEF Words
<1> QED
  BY <1>1, <1>2, Zenon

\* extractRoles returns the first of its three sources that is not empty, or nothing.
LEMMA RolesAreList == ClaimsTyped => IsList(extractRoles(claims))
<1> SUFFICES ASSUME ClaimsTyped PROVE IsList(extractRoles(claims))
  OBVIOUS
<1> DEFINE a == Words(claims, "roles", {"array"})
           b == Words(claims, "permissions", {"array"})
           c == Words(claims, "realm_access", {"array"})
           s == <<a, b, c>>
<1>1. IsList(a) /\ IsList(b) /\ IsList(c) /\ IsList(<<>>)
  BY WordsAreLists, EmptyList, Zenon DEF ListClaims
<1>2. extractRoles(claims) = FirstOf(s, <<>>)
  BY Zenon DEF extractRoles
<1> HIDE DEF a, b, c
<1>3. DOMAIN s = {1, 2, 3} /\ s[1] = a /\ s[2] = b /\ s[3] = c
  OBVIOUS
<1> HIDE DEF s
<1>4. \A i \in DOMAIN s : IsList(s[i])
  BY <1>1, <1>3, Zenon
<1> DEFINE Some == {i \in DOMAIN s : s[i] # <<>>}
           m == CHOOSE i \in Some : \A j \in Some : i <= j
<1>5. FirstOf(s, <<>>) = IF Some = {} THEN <<>> ELSE s[m]
  BY Zenon DEF FirstOf
<1>6. Some # {} => \E i \in Some : \A j \in Some : i <= j
  <2> SUFFICES ASSUME NEW k \in Some PROVE \E i \in Some : \A j \in Some : i <= j
    BY Zenon
  <2>1. Some \subseteq {1, 2, 3}
    BY <1>3, Zenon
  <2> HIDE DEF Some
  <2>2. CASE 1 \in Some
    BY <2>1, <2>2
  <2>3. CASE 1 \notin Some /\ 2 \in Some
    BY <2>1, <2>3
  <2>4. CASE 1 \notin Some /\ 2 \notin Some
    BY <2>1, <2>4
  <2> QED
    BY <2>2, <2>3, <2>4, Zenon
<1>7. Some # {} => m \in Some
  BY <1>6, Zenon
<1> QED
  BY <1>1, <1>2, <1>4, <1>5, <1>7, Zenon

\* The Cognito normalizer merges groups into the roles of a token, for all claims and
\* however words are put into lower case: the roles stay in front and as they were, every group
\* is there up to case, and none is added that was there in another case.
THEOREM RolesMatch == ClaimsSpec => []RolesMatchReference
<1>1. ClaimsTyped => RolesMatchReference
  <2> DEFINE p == CognitoNormalize(claims)
             q == Normalize(claims)
             own == extractRoles(claims)
             groups == Words(claims, "cognito:groups", {"array"})
  <2> SUFFICES ASSUME ClaimsTyped, p # NoPrincipal
               PROVE  LowerSet(p.roles) = LowerSet(own) \cup LowerSet(groups) /\ Extended(own, p.roles)
    BY Zenon DEF RolesMatchReference, Extended
  <2>1. IsList(own) /\ IsList(groups)
    BY RolesAreList, WordsAreLists, Zenon DEF ListClaims
  <2>2. q # NoPrincipal /\ p = [q EXCEPT !.roles = AddGroups(@, groups),
                                         !.clientID = CognitoClientID(claims, @),
                                         !.metadata = @ \cup CognitoMetadata(claims)]
    BY Zenon DEF CognitoNormalize
  <2>3. PICK a, b, c, d, e : q = [subject |-> a, clientID |-> b, method |-> c, scopes |-> d, roles |-> own, metadata |-> e]
    BY <2>2, Zenon DEF Normalize
  <2> HIDE DEF p, q, own, groups
  <2>4. p.roles = AddGroups(own, groups)
    BY <2>2, <2>3
  <2> QED
    BY <2>1, <2>4, AddGroupsRoles, Zenon
<1> QED
  BY <1>1, ClaimsAreTyped, PTL

-----------------------------------------------------------------------------
(* Values                                                                  *)

\* A list of values is coerced element by element.
LEMMA CoercedList ==
  ASSUME NEW type, NEW vs, IsList(vs), NEW v \in CoerceAll(type, vs)
  PROVE  IsList(v) /\ Len(v) = Len(vs) /\ \A i \in 1..Len(vs) : v[i] \in coerceScalar(type, vs[i])
<1>1. /\ \A i \in DOMAIN vs : coerceScalar(type, vs[i]) # {}
      /\ v = [i \in DOMAIN vs |-> CHOOSE x \in coerceScalar(type, vs[i]) : TRUE]
  BY Zenon DEF CoerceAll
<1>2. Len(vs) \in Nat /\ DOMAIN vs = 1..Len(vs)
  BY ListFacts, Zenon
<1>3. v = [i \in 1..Len(vs) |-> v[i]] /\ \A i \in 1..Len(vs) : v[i] \in coerceScalar(type, vs[i])
  BY <1>1, <1>2
<1> QED
  BY <1>2, <1>3, ListIs, Zenon

\* The values of a list operator are a list; a scalar counts as the list of itself.
LEMMA ListValues ==
  ASSUME NEW f \in Filters, NEW type, NEW v \in coerceList(type, f.value)
  PROVE  /\ IsList(v)
         /\ f.value.t = "list" =>
              Len(v) = Len(f.value.elems) /\ \A k \in 1..Len(v) : v[k] \in coerceScalar(type, f.value.elems[k])
         /\ f.value.t \notin {"list", "string"} => Len(v) = 1 /\ v[1] \in coerceScalar(type, f.value)
<1>1. CASE f.value.t = "list"
  <2>1. v \in CoerceAll(type, f.value.elems) /\ IsList(f.value.elems)
    BY <1>1, AskAssumption, Zenon DEF coerceList
  <2>2. f.value.t \notin {"list", "string"} => FALSE
    BY <1>1, Zenon
  <2> QED
    BY <2>1, <2>2, CoercedList, Zenon
<1>2. CASE f.value.t = "string"
  <2> DEFINE parts == Without(f.value.parts, Blank)
             vs == [i \in DOMAIN parts |-> [t |-> "string", parts |-> <<parts[i]>>]]
  <2>1. IsList(parts)
    BY <1>2, AskAssumption, WithoutIsList, Zenon
  <2>2. Len(parts) \in Nat /\ DOMAIN parts = 1..Len(parts)
    BY <2>1, ListFacts, Zenon
  <2>3. v \in CoerceAll(type, vs)
    BY <1>2, Zenon DEF coerceList
  <2> HIDE DEF parts
  <2>4. vs = [i \in 1..Len(parts) |-> vs[i]]
    BY <2>2, Zenon
  <2> HIDE DEF vs
  <2>5. IsList(vs)
    BY <2>2, <2>4, ListIs, Zenon
  <2>6. f.value.t # "list"
    BY <1>2
  <2> QED
    BY <1>2, <2>3, <2>5, <2>6, CoercedList, Zenon
<1>3. CASE f.value.t \notin {"list", "string"}
  <2> DEFINE vs == <<f.value>>
  <2>1. v \in CoerceAll(type, vs)
    BY <1>3, Zenon DEF coerceList
  <2>2. IsList(vs) /\ Len(vs) = 1 /\ vs[1] = f.value
    BY OneElement, Zenon
  <2> HIDE DEF vs
  <2>3. IsList(v) /\ Len(v) = 1 /\ v[1] \in coerceScalar(type, vs[1])
    BY <2>1, <2>2, CoercedList
  <2>4. f.value.t # "list"
    BY <1>3, Zenon
  <2> QED
    BY <2>2, <2>3, <2>4, Zenon
<1> QED
  BY <1>1, <1>2, <1>3, Zenon

\* A JSON number that is coerced keeps its value.
LEMMA CoercedIsKept ==
  ASSUME NEW v, v.t = "float" => v.n \in Int, NEW type \in Types, NEW x \in coerceScalar(type, v)
  PROVE  Keeps(v, x)
<1> SUFFICES ASSUME v.t = "float" PROVE ~v.frac /\ x = v.n /\ -Half <= x /\ x <= Half - 1
  BY Zenon DEF Keeps
<1>1. x \in FloatToInt(v)
  BY DEF coerceScalar, Types
<1>2. Half \in Nat /\ v.n \in Int
  BY PaginationAssumption
<1>3. FloatToInt(v) = IF v.frac \/ v.n < -Half \/ v.n >= Half THEN {} ELSE {v.n}
  BY Zenon DEF FloatToInt, Half
<1> QED
  BY <1>1, <1>2, <1>3

\* The part of f's value that its k-th argument is made of.
PartOf(f, k) == IF f.value.t = "list" THEN f.value.elems[k] ELSE f.value

\* The arguments that a resolver returns are a list, and a JSON number among them is unchanged.
LEMMA ResolvedValues ==
  ASSUME NEW c \in Configs, NEW f \in Filters, f.field \in DOMAIN c.fields,
         NEW op, NEW v \in Resolve(c.fields[f.field], op, f.value).vals
  PROVE  IsList(v) /\ \A k \in DOMAIN v : Keeps(PartOf(f, k), v[k])
<1> DEFINE fc == c.fields[f.field]
<1>1. fc.type \in Types /\ fc.resolver \in {"direct", "subquery", "template"}
  BY AskAssumption, Zenon
<1> HIDE DEF fc
<1>2. v \in Resolve(fc, op, f.value).vals
  BY Zenon DEF fc
<1>3. CASE v \in {<<x>> : x \in coerceScalar(fc.type, f.value)}
  <2>1. PICK x \in coerceScalar(fc.type, f.value) : v = <<x>>
    BY <1>3, Zenon
  <2>2. IsList(v) /\ Len(v) = 1 /\ v[1] = x
    BY <2>1, OneElement, Zenon
  <2>3. DOMAIN v = 1..1
    BY <2>2, ListFacts, Zenon
  <2>4. f.value.t # "list"
    BY <1>1, <2>1 DEF coerceScalar, Types
  <2>5. Keeps(f.value, x)
    BY <1>1, <2>1, AskAssumption, CoercedIsKept, Zenon
  <2>6. ASSUME NEW k \in DOMAIN v PROVE Keeps(PartOf(f, k), v[k])
    <3>1. k = 1
      BY <2>3, <2>6
    <3> QED
      BY <2>2, <2>4, <2>5, <3>1, Zenon DEF PartOf
  <2> QED
    BY <2>2, <2>6, Zenon
<1>4. CASE v \in coerceList(fc.type, f.value)
  <2>1. IsList(v)
    BY <1>4, ListValues, Zenon
  <2>2. DOMAIN v = 1..Len(v)
    BY <2>1, ListFacts, Zenon
  <2>3. ASSUME f.value.t = "list", NEW k \in DOMAIN v PROVE Keeps(PartOf(f, k), v[k])
    <3>1. Len(v) = Len(f.value.elems) /\ v[k] \in coerceScalar(fc.type, f.value.elems[k])
      BY <1>4, <2>2, <2>3, ListValues, Zenon
    <3>2. DOMAIN f.value.elems = 1..Len(f.value.elems)
      BY <2>3, AskAssumption, ListFacts, Zenon
    <3>3. f.value.elems[k].t = "float" => f.value.elems[k].n \in Int
      BY <2>2, <2>3, <3>1, <3>2, AskAssumption, Zenon
    <3>4. Keeps(f.value.elems[k], v[k])
      BY <1>1, <3>1, <3>3, CoercedIsKept, Zenon
    <3> QED
      BY <2>3, <3>4, Zenon DEF PartOf
  <2>4. ASSUME f.value.t = "string", NEW k \in DOMAIN v PROVE Keeps(PartOf(f, k), v[k])
    <3>1. f.value.t # "list" /\ f.value.t # "float"
      BY <2>4
    <3> QED
      BY <3>1, Zenon DEF PartOf, Keeps
  <2>5. ASSUME f.value.t \notin {"list", "string"}, NEW k \in DOMAIN v PROVE Keeps(PartOf(f, k), v[k])
    <3>1. Len(v) = 1 /\ v[1] \in coerceScalar(fc.type, f.value)
      BY <1>4, <2>5, ListValues, Zenon
    <3>2. k = 1
      BY <2>2, <2>5, <3>1
    <3>3. Keeps(f.value, v[k])
      BY <1>1, <3>1, <3>2, AskAssumption, CoercedIsKept, Zenon
    <3> QED
      BY <2>5, <3>3, Zenon DEF PartOf
  <2> QED
    BY <2>1, <2>3, <2>4, <2>5, Zenon
<1>5. CASE v = <<>>
  BY <1>5, EmptyList
<1>6. v \in {<<x>> : x \in coerceScalar(fc.type, f.value)} \/ v \in coerceList(fc.type, f.value) \/ v = <<>>
  <2>1. \/ v \in SubqueryResolve(fc, f.value)
        \/ /\ v \in DirectColumnResolve(fc, op, f.value)
           /\ op \in comparisonSQL \cup {"in", "not_in", "between", "is_null", "is_not_null"}
    BY <1>1, <1>2, Zenon DEF Resolve
  <2>2. v \in SubqueryResolve(fc, f.value) => v \in {<<x>> : x \in coerceScalar(fc.type, f.value)}
    BY Zenon DEF SubqueryResolve
  <2>3. ASSUME v \in DirectColumnResolve(fc, op, f.value), op \in comparisonSQL
        PROVE  v \in {<<x>> : x \in coerceScalar(fc.type, f.value)}
    BY <2>3, Zenon DEF DirectColumnResolve, comparisonSQL
  <2>4. ASSUME v \in DirectColumnResolve(fc, op, f.value), op \in {"in", "not_in", "between"}
        PROVE  v \in coerceList(fc.type, f.value)
    BY <2>4, Zenon DEF DirectColumnResolve, comparisonSQL
  <2>5. ASSUME v \in DirectColumnResolve(fc, op, f.value), op \in {"is_null", "is_not_null"}
        PROVE  v = <<>>
    BY <2>5, Zenon DEF DirectColumnResolve, comparisonSQL
  <2> QED
    BY <2>1, <2>2, <2>3, <2>4, <2>5, Zenon
<1> QED
  BY <1>3, <1>4, <1>5, <1>6, Zenon

-----------------------------------------------------------------------------
(* Conditions and arguments                                                *)

\* What the compiler has so far: an error, the arguments and the conditions.
IsState(st) ==
    /\ st = [err |-> st.err, args |-> st.args, conds |-> st.conds]
    /\ IsList(st.args) /\ IsList(st.conds)

\* Placeholders ascend within a condition and from one condition to the next.
Ascending(conds) ==
    \A k, l \in DOMAIN conds : \A i \in DOMAIN conds[k].ph, j \in DOMAIN conds[l].ph :
        k < l \/ (k = l /\ i < j) => conds[k].ph[i] < conds[l].ph[j]

\* The placeholders of the conditions are exactly the numbers of the arguments, in order.
Numbered(st) ==
    /\ IsState(st)
    /\ \A k \in DOMAIN st.conds : \A i \in DOMAIN st.conds[k].ph : st.conds[k].ph[i] \in DOMAIN st.args
    /\ Ascending(st.conds)
    /\ \A n \in DOMAIN st.args : \E k \in DOMAIN st.conds : \E i \in DOMAIN st.conds[k].ph : st.conds[k].ph[i] = n

\* The condition that Bind appends.
Bound(st, of, col, op, vals) ==
    [of |-> of, col |-> col, op |-> op, ph |-> [i \in DOMAIN vals |-> Len(st.args) + i]]

\* Bind appends the values to the arguments and one condition to the conditions.
LEMMA BindFacts ==
  ASSUME NEW st, IsState(st), NEW of, NEW col, NEW op, NEW vals, IsList(vals),
         NEW b, b = Bind(st, of, col, op, vals), NEW x, x = Bound(st, of, col, op, vals)
  PROVE  /\ IsState(b) /\ b.err = st.err
         /\ Len(b.args) = Len(st.args) + Len(vals)
         /\ \A i \in 1..Len(st.args) : b.args[i] = st.args[i]
         /\ \A i \in 1..Len(vals) : b.args[Len(st.args) + i] = vals[i]
         /\ Len(b.conds) = Len(st.conds) + 1
         /\ \A k \in 1..Len(st.conds) : b.conds[k] = st.conds[k]
         /\ b.conds[Len(st.conds) + 1] = x
<1>1. b = [err |-> st.err, args |-> st.args \o vals, conds |-> Append(st.conds, x)]
  BY Zenon DEF Bind, Bound, IsState
<1>2. b = [err |-> b.err, args |-> b.args, conds |-> b.conds]
      /\ b.err = st.err /\ b.args = st.args \o vals /\ b.conds = Append(st.conds, x)
  BY <1>1
<1>3. IsList(st.args) /\ IsList(st.conds)
  BY Zenon DEF IsState
<1>4. /\ IsList(b.args) /\ Len(b.args) = Len(st.args) + Len(vals)
      /\ \A i \in 1..Len(st.args) : b.args[i] = st.args[i]
      /\ \A i \in 1..Len(vals) : b.args[Len(st.args) + i] = vals[i]
  <2>1. Joins(b.args, st.args, vals)
    BY <1>2, Zenon DEF Joins
  <2>2. IsList(st.args) /\ IsList(vals)
    BY <1>3, Zenon
  <2> DEFINE u == b.args  s == st.args
  <2>3. Joins(u, s, vals) /\ IsList(s)
    BY <2>1, <2>2, Zenon
  <2> HIDE DEF u, s
  <2>4. /\ IsList(u) /\ Len(u) = Len(s) + Len(vals)
        /\ \A i \in 1..Len(s) : u[i] = s[i]
        /\ \A i \in 1..Len(vals) : u[Len(s) + i] = vals[i]
    BY ONLY <2>2, <2>3, ListsJoin
  <2> QED
    BY <2>4, Zenon DEF u, s
<1>5. /\ IsList(b.conds) /\ Len(b.conds) = Len(st.conds) + 1
      /\ \A k \in 1..Len(st.conds) : b.conds[k] = st.conds[k]
      /\ b.conds[Len(st.conds) + 1] = x
  BY <1>2, <1>3, ListAppends
<1> QED
  BY <1>2, <1>4, <1>5, Zenon DEF IsState

\* Bind numbers its placeholders on from the arguments that are there.
LEMMA BindNumbers ==
  ASSUME NEW st, Numbered(st), NEW of, NEW col, NEW op, NEW vals, IsList(vals)
  PROVE  Numbered(Bind(st, of, col, op, vals))
<1> DEFINE b == Bind(st, of, col, op, vals)
           x == Bound(st, of, col, op, vals)
           K == Len(st.conds)  A == Len(st.args)  V == Len(vals)
<1>1. IsState(st)
  BY Zenon DEF Numbered
<1>2. /\ IsState(b)
      /\ Len(b.args) = A + V
      /\ Len(b.conds) = K + 1
      /\ \A k \in 1..K : b.conds[k] = st.conds[k]
      /\ b.conds[K + 1] = x
  BY <1>1, BindFacts
<1>3. /\ A \in Nat /\ K \in Nat /\ V \in Nat
      /\ DOMAIN st.args = 1..A /\ DOMAIN st.conds = 1..K /\ DOMAIN vals = 1..V
      /\ DOMAIN b.args = 1..(A + V) /\ DOMAIN b.conds = 1..(K + 1)
  BY <1>1, <1>2, ListFacts, Zenon DEF IsState
<1>4. DOMAIN x.ph = 1..V /\ \A i \in 1..V : x.ph[i] = A + i
  BY <1>3, Zenon DEF Bound
<1>5. /\ \A k \in 1..K : \A i \in DOMAIN st.conds[k].ph : st.conds[k].ph[i] \in 1..A
      /\ Ascending(st.conds)
      /\ \A n \in 1..A : \E k \in 1..K : \E i \in DOMAIN st.conds[k].ph : st.conds[k].ph[i] = n
  BY <1>3, Zenon DEF Numbered
<1> HIDE DEF b, x, K, A, V
<1>6. ASSUME NEW k \in 1..(K + 1), NEW i \in DOMAIN b.conds[k].ph PROVE b.conds[k].ph[i] \in 1..(A + V)
  <2>1. CASE k = K + 1
    <3>1. i \in 1..V /\ b.conds[k].ph[i] = A + i
      BY <1>2, <1>4, <1>6, <2>1, Zenon
    <3> QED
      BY <1>3, <3>1
  <2>2. CASE k \in 1..K
    <3>1. b.conds[k].ph[i] \in 1..A
      BY <1>2, <1>5, <2>2, Zenon
    <3> QED
      BY <1>3, <3>1
  <2> QED
    BY <1>3, <2>1, <2>2
<1>7. ASSUME NEW k \in 1..(K + 1), NEW l \in 1..(K + 1),
             NEW i \in DOMAIN b.conds[k].ph, NEW j \in DOMAIN b.conds[l].ph,
             k < l \/ (k = l /\ i < j)
      PROVE  b.conds[k].ph[i] < b.conds[l].ph[j]
  <2>1. CASE l \in 1..K
    <3>1. k \in 1..K
      BY <1>3, <1>7, <2>1
    <3> QED
      BY <1>2, <1>3, <1>5, <1>7, <2>1, <3>1, Zenon DEF Ascending
  <2>2. CASE l = K + 1 /\ k = K + 1
    <3>1. b.conds[k] = x /\ b.conds[l] = x /\ i \in 1..V /\ j \in 1..V /\ i < j
      <4>1. ~(k < l) /\ b.conds[k] = x /\ b.conds[l] = x
        BY <1>2, <1>3, <2>2
      <4> QED
        BY <1>4, <1>7, <4>1, Zenon
    <3>2. x.ph[i] = A + i /\ x.ph[j] = A + j
      BY <1>4, <3>1, Zenon
    <3> QED
      BY <1>3, <3>1, <3>2
  <2>3. CASE l = K + 1 /\ k \in 1..K
    <3>1. b.conds[k].ph[i] \in 1..A
      BY <1>2, <1>5, <2>3, Zenon
    <3>2. b.conds[l].ph[j] = A + j /\ j \in 1..V
      BY <1>2, <1>4, <2>3, Zenon
    <3> QED
      BY <1>3, <3>1, <3>2
  <2> QED
    BY <1>3, <2>1, <2>2, <2>3
<1>8. ASSUME NEW n \in 1..(A + V)
      PROVE  \E k \in 1..(K + 1) : \E i \in DOMAIN b.conds[k].ph : b.conds[k].ph[i] = n
  <2>1. CASE n \in 1..A
    <3>1. PICK k \in 1..K : \E i \in DOMAIN st.conds[k].ph : st.conds[k].ph[i] = n
      BY <1>5, <2>1, Zenon
    <3>2. k \in 1..(K + 1)
      BY <1>3
    <3>3. b.conds[k] = st.conds[k]
      BY <1>2, Zenon
    <3> QED
      BY <3>1, <3>2, <3>3, Zenon
  <2>2. CASE n \notin 1..A
    <3>1. n - A \in 1..V /\ A + (n - A) = n /\ K + 1 \in 1..(K + 1)
      BY <1>3, <2>2
    <3>2. n - A \in DOMAIN b.conds[K + 1].ph /\ b.conds[K + 1].ph[n - A] = n
      BY <1>2, <1>4, <3>1, Zenon
    <3> QED
      BY <3>1, <3>2, Zenon
  <2> QED
    BY <2>1, <2>2, Zenon
<1> QED
  BY <1>2, <1>3, <1>6, <1>7, <1>8, Zenon DEF Numbered, Ascending, b

\* The arguments that the placeholders of a condition stand for.
ArgsOf(st, cond) == [i \in DOMAIN cond.ph |-> st.args[cond.ph[i]]]

\* The placeholders of the new condition stand for its values, those of the others for what
\* they stood for before.
LEMMA BindArgs ==
  ASSUME NEW st, Numbered(st), NEW of, NEW col, NEW op, NEW vals, IsList(vals),
         NEW b, b = Bind(st, of, col, op, vals)
  PROVE  /\ ArgsOf(b, Bound(st, of, col, op, vals)) = vals
         /\ \A k \in 1..Len(st.conds) : ArgsOf(b, st.conds[k]) = ArgsOf(st, st.conds[k])
<1> DEFINE x == Bound(st, of, col, op, vals)
<1>1. IsState(st)
  BY Zenon DEF Numbered
<1>2. /\ \A i \in 1..Len(st.args) : b.args[i] = st.args[i]
      /\ \A i \in 1..Len(vals) : b.args[Len(st.args) + i] = vals[i]
  BY <1>1, BindFacts
<1>3. /\ DOMAIN vals = 1..Len(vals) /\ vals = [i \in 1..Len(vals) |-> vals[i]]
      /\ DOMAIN st.args = 1..Len(st.args) /\ DOMAIN st.conds = 1..Len(st.conds)
  BY <1>1, ListFacts, Zenon DEF IsState
<1>4. ArgsOf(b, x) = vals
  <2>1. x.ph = [i \in 1..Len(vals) |-> Len(st.args) + i]
    BY <1>3, Zenon DEF Bound
  <2> HIDE DEF x
  <2>2. ArgsOf(b, x) = [i \in 1..Len(vals) |-> b.args[Len(st.args) + i]]
    BY <2>1, Zenon DEF ArgsOf
  <2>3. ArgsOf(b, x) = [i \in 1..Len(vals) |-> vals[i]]
    BY <1>2, <2>2, Zenon
  <2> QED
    BY <1>3, <2>3, Zenon
<1>5. ASSUME NEW k \in 1..Len(st.conds) PROVE ArgsOf(b, st.conds[k]) = ArgsOf(st, st.conds[k])
  <2> DEFINE y == st.conds[k]
  <2>1. \A i \in DOMAIN y.ph : y.ph[i] \in 1..Len(st.args)
    BY <1>3, Zenon DEF Numbered
  <2> HIDE DEF y
  <2>2. \A i \in DOMAIN y.ph : b.args[y.ph[i]] = st.args[y.ph[i]]
    BY <1>2, <2>1, Zenon
  <2>3. ArgsOf(b, y) = ArgsOf(st, y)
    BY <2>2, Zenon DEF ArgsOf
  <2> QED
    BY <2>3, Zenon DEF y
<1> QED
  BY <1>4, <1>5, Zenon

\* What a client sends.
IsRequest(r) ==
    /\ r.filters \in Seq(Filters) /\ r.terms \in Seq(Terms) /\ r.sorts \in Seq(Sorts)
    /\ r.tenant \in {<<>>} \cup {<<t>> : t \in Tenants}

\* The compiler in front of the first filter.
Start(c, r) == buildSearchTerms(c, TenantCondition(c, r), r.terms)

\* The tenant's condition comes first if the resource has a tenant column and the request a
\* tenant.
LEMMA TenantScoped ==
  ASSUME NEW c, NEW r, IsRequest(r), NEW st, st = TenantCondition(c, r)
  PROVE  /\ Numbered(st) /\ st.err = None
         /\ \A k \in 1..Len(st.conds) : st.conds[k].of # "filter"
         /\ c.tenantColumn # None /\ r.tenant # <<>> =>
              Len(st.conds) > 0 /\ st.conds[1].col = {c.tenantColumn} /\ ArgsOf(st, st.conds[1]) = r.tenant
<1> DEFINE s0 == [err |-> None, args |-> <<>>, conds |-> <<>>]
<1>1. IsState(s0) /\ Len(s0.conds) = 0 /\ Len(s0.args) = 0 /\ s0.err = None
  BY EmptyList, Zenon DEF IsState
<1>2. Numbered(s0)
  BY <1>1, ListFacts DEF Numbered, IsState, Ascending
<1>3. CASE c.tenantColumn # None /\ r.tenant # <<>>
  <2> DEFINE col == {c.tenantColumn}  vals == r.tenant
             b == Bind(s0, "tenant", col, "eq", vals)
             x == Bound(s0, "tenant", col, "eq", vals)
  <2>1. st = b
    BY <1>3, Zenon DEF TenantCondition
  <2>2. IsList(vals)
    BY <1>3, OneElement, Zenon DEF IsRequest
  <2> HIDE DEF s0, col, vals
  <2>3. b.err = None /\ Len(b.conds) = 1 /\ b.conds[1] = x
    <3>1. b.err = s0.err /\ Len(b.conds) = Len(s0.conds) + 1 /\ b.conds[Len(s0.conds) + 1] = x
      <4>1. IsState(s0)
        BY <1>1, Zenon
      <4> QED
        BY <2>2, <4>1, BindFacts
    <3> QED
      BY <1>1, <3>1
  <2>4. ArgsOf(b, x) = vals
    BY <1>2, <2>2, BindArgs
  <2>5. Numbered(b)
    BY <1>2, <2>2, BindNumbers, Zenon
  <2>6. x.of = "tenant" /\ x.col = col
    BY Zenon DEF Bound
  <2> HIDE DEF b, x
  <2> QED
    BY <2>1, <2>3, <2>4, <2>5, <2>6 DEF col, vals
<1>4. CASE ~(c.tenantColumn # None /\ r.tenant # <<>>)
  <2>1. st = s0
    BY <1>4, Zenon DEF TenantCondition
  <2> HIDE DEF s0
  <2> QED
    BY <1>1, <1>2, <1>4, <2>1
<1> QED
  BY <1>3, <1>4, Zenon

\* Terms add at most a condition behind it.
LEMMA Started ==
  ASSUME NEW c, NEW r, IsRequest(r), NEW st, st = Start(c, r)
  PROVE  /\ Numbered(st) /\ st.err = None
         /\ \A k \in 1..Len(st.conds) : st.conds[k].of # "filter"
         /\ c.tenantColumn # None /\ r.tenant # <<>> =>
              Len(st.conds) > 0 /\ st.conds[1].col = {c.tenantColumn} /\ ArgsOf(st, st.conds[1]) = r.tenant
<1> DEFINE s0 == TenantCondition(c, r)
           cols == searchColumns(c)  eff == Effective(r.terms)
           b == Bind(s0, "terms", cols, "ilike", eff)
           x == Bound(s0, "terms", cols, "ilike", eff)
<1>1. /\ Numbered(s0) /\ s0.err = None
      /\ \A k \in 1..Len(s0.conds) : s0.conds[k].of # "filter"
      /\ c.tenantColumn # None /\ r.tenant # <<>> =>
           Len(s0.conds) > 0 /\ s0.conds[1].col = {c.tenantColumn} /\ ArgsOf(s0, s0.conds[1]) = r.tenant
  BY TenantScoped
<1>2. st = s0 \/ st = b
  BY Zenon DEF Start, buildSearchTerms
<1>3. IsList(eff)
  <2>1. IsList(r.terms)
    <3> DEFINE s == r.terms
    <3>1. s \in Seq(Terms)
      BY Zenon DEF IsRequest
    <3> HIDE DEF s
    <3>2. Len(s) \in Nat /\ s = [i \in 1..Len(s) |-> s[i]]
      BY <3>1
    <3>3. IsList(s)
      BY <3>2, ListIs, Zenon
    <3> QED
      BY <3>3, Zenon DEF s
  <2> QED
    BY <2>1, WithoutIsList, Zenon DEF Effective
<1> HIDE DEF s0, eff, cols
<1>4. IsState(s0) /\ Len(s0.conds) \in Nat
  BY <1>1, ListFacts, Zenon DEF Numbered, IsState
<1>5. /\ b.err = None /\ Len(b.conds) = Len(s0.conds) + 1
      /\ \A k \in 1..Len(s0.conds) : b.conds[k] = s0.conds[k]
      /\ b.conds[Len(s0.conds) + 1] = x
  BY <1>1, <1>3, <1>4, BindFacts
<1>6. Numbered(b) /\ \A k \in 1..Len(s0.conds) : ArgsOf(b, s0.conds[k]) = ArgsOf(s0, s0.conds[k])
  BY <1>1, <1>3, BindNumbers, BindArgs
<1>7. x.of = "terms"
  BY Zenon DEF Bound
<1> HIDE DEF b, x
<1>8. ASSUME NEW k \in 1..Len(b.conds) PROVE b.conds[k].of # "filter"
  <2>1. k \in 1..Len(s0.conds) \/ k = Len(s0.conds) + 1
    BY <1>4, <1>5
  <2> QED
    BY <1>1, <1>5, <1>7, <2>1, Zenon
<1>9. Len(s0.conds) > 0 => Len(b.conds) > 0 /\ b.conds[1] = s0.conds[1] /\ ArgsOf(b, b.conds[1]) = ArgsOf(s0, s0.conds[1])
  BY <1>4, <1>5, <1>6
<1> QED
  BY <1>1, <1>2, <1>5, <1>6, <1>8, <1>9, Zenon

\* The compiler behind n filters, f[n - 1] being what it was behind the filters before.
CompileStep(c, r, f, n) == IF n = 0 THEN Start(c, r) ELSE CompileFilter(c, f[n - 1], r.filters[n])

\* There is a function that CompileStep computes, for every number of filters.
LEMMA CompilingExists ==
  ASSUME NEW c, NEW r, NEW N \in Nat
  PROVE  \E f : f = [n \in 0..N |-> CompileStep(c, r, f, n)]
<1> DEFINE G == {m \in Nat : \E f : f = [n \in 0..m |-> CompileStep(c, r, f, n)]}
<1>1. 0 \in G
  <2> DEFINE f == [n \in 0..0 |-> Start(c, r)]
  <2>1. f = [n \in 0..0 |-> CompileStep(c, r, f, n)]
    BY DEF CompileStep
  <2> HIDE DEF f
  <2> QED
    BY <2>1, Zenon
<1>2. ASSUME NEW m \in Nat, m \in G PROVE m + 1 \in G
  <2>1. PICK f : f = [n \in 0..m |-> CompileStep(c, r, f, n)]
    BY <1>2, Zenon
  <2> DEFINE g == [n \in 0..m + 1 |-> IF n = m + 1 THEN CompileStep(c, r, f, n) ELSE f[n]]
  <2>2. ASSUME NEW n \in 0..m + 1 PROVE g[n] = CompileStep(c, r, g, n)
    <3>1. CASE n = m + 1
      BY <3>1 DEF CompileStep
    <3>2. CASE n \in 0..m
      <4>1. g[n] = f[n]
        BY <3>2
      <4>2. f[n] = CompileStep(c, r, f, n)
        BY <3>2, <2>1, Zenon
      <4>3. n # 0 => g[n - 1] = f[n - 1]
        BY <3>2
      <4> QED
        BY <4>1, <4>2, <4>3, Zenon DEF CompileStep
    <3> QED
      BY <3>1, <3>2
  <2>3. g = [n \in 0..m + 1 |-> CompileStep(c, r, g, n)]
    BY <2>2, Zenon
  <2> HIDE DEF g
  <2> QED
    BY <2>3
<1> HIDE DEF G
<1>3. Nat \subseteq G
  BY <1>1, <1>2, NatInd, Zenon
<1> QED
  BY <1>3, Zenon DEF G

\* CompileFilters is the function that its recursion describes.
LEMMA CompileUnfolds ==
  ASSUME NEW c, NEW r, Len(r.filters) \in Nat, NEW F, F = CompileFilters(c, r)
  PROVE  /\ F[0] = Start(c, r)
         /\ \A n \in 1..Len(r.filters) : F[n] = CompileFilter(c, F[n - 1], r.filters[n])
<1> DEFINE N == Len(r.filters)
           H == CHOOSE f : f = [n \in 0..N |-> CompileStep(c, r, f, n)]
<1>1. \E f : f = [n \in 0..N |-> CompileStep(c, r, f, n)]
  BY CompilingExists, Zenon
<1>2. H = [n \in 0..N |-> CompileStep(c, r, H, n)]
  BY <1>1, Zenon
<1>3. F = H
  BY Zenon DEF CompileFilters, CompileStep, Start
<1> HIDE DEF H
<1>4. \A n \in 0..N : F[n] = CompileStep(c, r, F, n)
  BY <1>2, <1>3, Zenon
<1>5. 0 \in 0..N /\ \A n \in 1..N : n \in 0..N /\ n # 0
  OBVIOUS
<1> HIDE DEF N
<1>6. F[0] = Start(c, r) /\ \A n \in 1..N : F[n] = CompileFilter(c, F[n - 1], r.filters[n])
  BY <1>4, <1>5, Zenon DEF CompileStep
<1> QED
  BY <1>6, Zenon DEF N

\* No error is no error.
LEMMA NoneDiffers == None \notin {"value", "operator", "template", "field", "terms", "sort"}
  BY Zenon DEF None

\* A resolver fails on a value, an operator or a template, and returns values otherwise.
LEMMA ResolveErrors ==
  ASSUME NEW fc, NEW op, NEW value
  PROVE  LET res == Resolve(fc, op, value)
         IN  /\ res.err \in {None, "value", "operator", "template"}
             /\ res.err = None => res.vals # {}
BY NoneDiffers DEF Resolve

\* cond is the condition for filter f: on its column, with an operator the field allows, and
\* with arguments that its value resolves to.
FilterDone(c, f, st, cond) ==
    /\ f.field \in DOMAIN c.fields /\ cond.of = "filter" /\ cond.col = {c.fields[f.field].col}
    /\ c.fields[f.field].ops # {} => cond.op \in c.fields[f.field].ops
    /\ ArgsOf(st, cond) \in Resolve(c.fields[f.field], cond.op, f.value).vals

\* The compiler has gone on only behind filters that Validate accepts, and behind such filters
\* stops only for what Validate leaves to the resolvers.
Checked(c, r, n, st) ==
    /\ st.err = None => \A i \in 1..n : validateFilter(c, r.filters[i]) = None
    /\ (\A i \in 1..n : validateFilter(c, r.filters[i]) = None) => st.err \in {None, "value", "operator", "template"}

\* The invariant of the loop over the filters.
Compiling(c, r, n, st) ==
    LET s0 == Start(c, r)
    IN  /\ Numbered(st)
        /\ Checked(c, r, n, st)
        /\ st.err = None =>
             /\ Len(st.conds) = Len(s0.conds) + n
             /\ \A k \in 1..Len(s0.conds) :
                  st.conds[k] = s0.conds[k] /\ ArgsOf(st, st.conds[k]) = ArgsOf(s0, s0.conds[k])
             /\ \A i \in 1..n : FilterDone(c, r.filters[i], st, st.conds[Len(s0.conds) + i])

\* Another error leaves the conditions and the arguments as they are.
LEMMA FailureNumbered ==
  ASSUME NEW st, Numbered(st), NEW e
  PROVE  LET b == [st EXCEPT !.err = e] IN Numbered(b) /\ b.err = e
<1> DEFINE b == [st EXCEPT !.err = e]
<1>1. b = [err |-> e, args |-> st.args, conds |-> st.conds]
  BY DEF Numbered, IsState
<1>2. b.err = e /\ b.args = st.args /\ b.conds = st.conds /\ b = [err |-> b.err, args |-> b.args, conds |-> b.conds]
  BY <1>1, Zenon
<1> HIDE DEF b
<1>3. Numbered(b)
  BY <1>2 DEF Numbered, IsState
<1> QED
  BY <1>2, <1>3, Zenon DEF b

\* What validateFilter has checked.
LEMMA FilterAllowed ==
  ASSUME NEW c, NEW f, validateFilter(c, f) = None
  PROVE  /\ f.field \in DOMAIN c.fields
         /\ c.fields[f.field].ops # {} => LowerOp[f.op] \in c.fields[f.field].ops
BY NoneDiffers DEF validateFilter

\* A filter keeps the invariant of the loop, whether it stops it or adds a condition.
LEMMA FilterKeeps ==
  ASSUME NEW c \in Configs, NEW r, IsRequest(r), NEW n \in Nat, n + 1 \in 1..Len(r.filters),
         NEW st, Compiling(c, r, n, st),
         NEW b, b = CompileFilter(c, st, r.filters[n + 1])
  PROVE  Compiling(c, r, n + 1, b)
<1> DEFINE f == r.filters[n + 1]
           s0 == Start(c, r)
<1>1. Numbered(st) /\ Checked(c, r, n, st)
  BY Zenon DEF Compiling
<1>2. f \in Filters
  BY DEF IsRequest
<1>3. \A i \in 1..(n + 1) : i \in 1..n \/ i = n + 1
  OBVIOUS
<1>4. CASE st.err # None
  <2>1. b = st
    BY <1>4, Zenon DEF CompileFilter
  <2>2. Checked(c, r, n + 1, b)
    BY <1>1, <1>4, <2>1 DEF Checked
  <2> QED
    BY <1>1, <1>4, <2>1, <2>2, Zenon DEF Compiling
<1>5. CASE st.err = None /\ validateFilter(c, f) # None
  <2> DEFINE e == validateFilter(c, f)
  <2>1. b = [st EXCEPT !.err = e]
    BY <1>5, Zenon DEF CompileFilter
  <2>2. Numbered(b) /\ b.err = e
    BY <1>1, <2>1, FailureNumbered, Zenon
  <2>3. Checked(c, r, n + 1, b)
    BY <1>5, <2>2 DEF Checked
  <2> QED
    BY <1>5, <2>2, <2>3, Zenon DEF Compiling
<1>6. CASE st.err = None /\ validateFilter(c, f) = None
  <2> DEFINE fc == c.fields[f.field]
             op == LowerOp[f.op]
             res == Resolve(fc, op, f.value)
             vals == CHOOSE v \in res.vals : TRUE
             col == {fc.col}
             x == Bound(st, "filter", col, op, vals)
  <2>1. /\ res.err \in {None, "value", "operator", "template"}
        /\ res.err = None => res.vals # {}
    BY ResolveErrors, Zenon
  <2>2. \A i \in 1..(n + 1) : validateFilter(c, r.filters[i]) = None
    BY <1>1, <1>3, <1>6, Zenon DEF Checked
  <2>3. CASE res.err # None
    <3>1. b = [st EXCEPT !.err = res.err]
      BY <1>6, <2>3, Zenon DEF CompileFilter
    <3> HIDE DEF res
    <3>2. Numbered(b) /\ b.err = res.err
      BY <1>1, <3>1, FailureNumbered, Zenon
    <3>3. Checked(c, r, n + 1, b)
      BY <2>1, <2>2, <2>3, <3>2, Zenon DEF Checked
    <3> QED
      BY <2>3, <3>2, <3>3, Zenon DEF Compiling
  <2>4. CASE res.err = None
    <3>1. b = Bind(st, "filter", col, op, vals)
      BY <1>6, <2>4, Zenon DEF CompileFilter
    <3>2. vals \in res.vals
      BY <2>1, <2>4, Zenon
    <3>3. f.field \in DOMAIN c.fields /\ (fc.ops # {} => op \in fc.ops)
      BY <1>6, FilterAllowed, Zenon
    <3> HIDE DEF vals
    <3>4. IsList(vals)
      BY <1>2, <3>2, <3>3, ResolvedValues, Zenon
    <3> HIDE DEF res
    <3>5. Numbered(b)
      BY <1>1, <3>1, <3>4, BindNumbers, Zenon
    <3> HIDE DEF col, op
    <3>6. /\ b.err = st.err /\ Len(b.conds) = Len(st.conds) + 1
          /\ \A k \in 1..Len(st.conds) : b.conds[k] = st.conds[k]
          /\ b.conds[Len(st.conds) + 1] = x
      <4>1. IsState(st)
        BY <1>1, Zenon DEF Numbered
      <4> QED
        BY <3>1, <3>4, <4>1, BindFacts
    <3>7. ArgsOf(b, x) = vals /\ \A k \in 1..Len(st.conds) : ArgsOf(b, st.conds[k]) = ArgsOf(st, st.conds[k])
      BY <1>1, <3>1, <3>4, BindArgs
    <3>8. Checked(c, r, n + 1, b)
      BY <1>6, <2>2, <3>6, Zenon DEF Checked
    <3>9. x.of = "filter" /\ x.col = {fc.col} /\ x.op = op
      BY Zenon DEF Bound, col
    <3>10. /\ Len(st.conds) = Len(s0.conds) + n
           /\ \A k \in 1..Len(s0.conds) :
                st.conds[k] = s0.conds[k] /\ ArgsOf(st, st.conds[k]) = ArgsOf(s0, s0.conds[k])
           /\ \A i \in 1..n : FilterDone(c, r.filters[i], st, st.conds[Len(s0.conds) + i])
      BY <1>6, Zenon DEF Compiling
    <3>11. Len(s0.conds) \in Nat
      BY Started, ListFacts, Zenon DEF Numbered, IsState
    <3>12. FilterDone(c, f, b, x)
      BY <3>2, <3>3, <3>7, <3>9, Zenon DEF FilterDone, res
    <3> DEFINE K == Len(s0.conds)  L == Len(st.conds)
    <3>13. L = K + n /\ K \in Nat /\ Len(b.conds) = L + 1
      BY <3>6, <3>10, <3>11, Zenon
    <3>14. /\ \A k \in 1..L : b.conds[k] = st.conds[k] /\ ArgsOf(b, st.conds[k]) = ArgsOf(st, st.conds[k])
           /\ b.conds[L + 1] = x
           /\ \A k \in 1..K : st.conds[k] = s0.conds[k] /\ ArgsOf(st, st.conds[k]) = ArgsOf(s0, s0.conds[k])
           /\ \A i \in 1..n : FilterDone(c, r.filters[i], st, st.conds[K + i])
      BY <3>6, <3>7, <3>10, Zenon
    <3> HIDE DEF K, L, x, s0, f, fc
    <3>15. \A k \in 1..K : b.conds[k] = s0.conds[k] /\ ArgsOf(b, b.conds[k]) = ArgsOf(s0, s0.conds[k])
      <4>1. \A k \in 1..K : k \in 1..L
        BY <3>13
      <4> QED
        BY <3>14, <4>1, Zenon
    <3>16. ASSUME NEW i \in 1..(n + 1) PROVE FilterDone(c, r.filters[i], b, b.conds[K + i])
      <4>1. CASE i = n + 1
        <5>1. K + i = L + 1
          BY <3>13, <4>1
        <5> QED
          BY <3>14, <3>12, <4>1, <5>1, Zenon DEF f
      <4>2. CASE i \in 1..n
        <5>1. K + i \in 1..L
          BY <3>13, <4>2
        <5> DEFINE y == st.conds[K + i]
        <5>2. b.conds[K + i] = y /\ ArgsOf(b, y) = ArgsOf(st, y)
          BY <3>14, <5>1, Zenon
        <5>3. FilterDone(c, r.filters[i], st, y)
          BY <3>14, <4>2, Zenon
        <5> HIDE DEF y
        <5>4. FilterDone(c, r.filters[i], b, y)
          BY <5>2, <5>3, Zenon DEF FilterDone
        <5> QED
          BY <5>2, <5>4, Zenon
      <4> QED
        BY <1>3, <4>1, <4>2, Zenon
    <3>17. Len(b.conds) = K + (n + 1)
      BY <3>13
    <3> QED
      BY <3>5, <3>8, <3>15, <3>16, <3>17, Zenon DEF Compiling, s0, K
  <2> QED
    BY <2>3, <2>4, Zenon
<1> QED
  BY <1>4, <1>5, <1>6, Zenon

\* The query that Compile returns, for every number of filters.
LEMMA Compiled ==
  ASSUME NEW c \in Configs, NEW r, IsRequest(r), NEW q, q = Compile(c, r)
  PROVE  \E st : /\ Compiling(c, r, Len(r.filters), st)
                 /\ q.err = st.err /\ q.args = st.args /\ q.conds = st.conds
                 /\ q.orderBy = buildOrderBy(c, r.sorts)
<1> DEFINE F == CompileFilters(c, r)
           N == Len(r.filters)
           G == {n \in Nat : n <= N => Compiling(c, r, n, F[n])}
<1>1. N \in Nat
  BY DEF IsRequest
<1>2. F[0] = Start(c, r) /\ \A n \in 1..N : F[n] = CompileFilter(c, F[n - 1], r.filters[n])
  BY <1>1, CompileUnfolds
<1> HIDE DEF F
<1>3. 0 \in G
  <2> DEFINE s0 == Start(c, r)
  <2>1. Numbered(s0) /\ s0.err = None
    BY Started, Zenon
  <2> HIDE DEF s0
  <2>2. Len(s0.conds) \in Nat
    BY <2>1, ListFacts, Zenon DEF Numbered, IsState
  <2>3. Checked(c, r, 0, s0)
    BY <2>1 DEF Checked
  <2>4. Len(s0.conds) = Len(s0.conds) + 0
    BY <2>2
  <2>5. Compiling(c, r, 0, s0)
    BY <2>1, <2>3, <2>4 DEF Compiling, s0
  <2> QED
    BY <1>2, <2>5, Zenon DEF s0
<1>4. ASSUME NEW n \in Nat, n \in G PROVE n + 1 \in G
  <2> SUFFICES ASSUME n + 1 <= N PROVE Compiling(c, r, n + 1, F[n + 1])
    OBVIOUS
  <2>1. n + 1 \in 1..N /\ (n + 1) - 1 = n
    BY <1>1
  <2>2. Compiling(c, r, n, F[n])
    BY <1>1, <1>4
  <2>3. F[n + 1] = CompileFilter(c, F[n], r.filters[n + 1])
    BY <1>2, <2>1, Zenon
  <2> QED
    BY <2>1, <2>2, <2>3, FilterKeeps, Zenon
<1> HIDE DEF G
<1>5. Nat \subseteq G
  BY <1>3, <1>4, NatInd, Zenon
<1>6. Compiling(c, r, N, F[N])
  BY <1>1, <1>5 DEF G
<1>7. q.err = F[N].err /\ q.args = F[N].args /\ q.conds = F[N].conds /\ q.orderBy = buildOrderBy(c, r.sorts)
  BY Zenon DEF Compile, F
<1> QED
  BY <1>6, <1>7, Zenon

\* No first error means no error.
LEMMA NoFirstError ==
  ASSUME NEW errs, IsList(errs)
  PROVE  FirstError(errs) = None => \A i \in 1..Len(errs) : errs[i] = None
<1> DEFINE X == {errs[i] : i \in DOMAIN errs}
           w == Without(errs, {None})
<1>1. /\ w \in Seq(X \ {None})
      /\ w = <<>> => \A i \in 1..Len(errs) : errs[i] \in {None}
  BY WithoutFacts, Zenon DEF IsList
<1>2. FirstError(errs) = IF w = <<>> THEN None ELSE w[1]
  BY Zenon DEF FirstError
<1> HIDE DEF w, X
<1>3. w # <<>> => w[1] \in X \ {None}
  BY <1>1
<1> QED
  BY <1>1, <1>2, <1>3, Zenon

\* What Validate accepts, it has accepted filter by filter and sort by sort.
LEMMA ValidateChecks ==
  ASSUME NEW c, NEW r, IsRequest(r), Validate(c, r) = None
  PROVE  /\ \A i \in 1..Len(r.filters) : validateFilter(c, r.filters[i]) = None
         /\ \A i \in 1..Len(r.sorts) : SortError(c, r.sorts[i]) = None
<1> DEFINE fs == [i \in DOMAIN r.filters |-> validateFilter(c, r.filters[i])]
           ss == [i \in DOMAIN r.sorts |-> SortError(c, r.sorts[i])]
           errs == fs \o ss
           N == Len(r.filters)  M == Len(r.sorts)
<1>1. FirstError(errs) = None
  BY NoneDiffers, Zenon DEF Validate
<1>2. N \in Nat /\ DOMAIN r.filters = 1..N /\ M \in Nat /\ DOMAIN r.sorts = 1..M
  BY DEF IsRequest
<1>3. fs = [i \in 1..N |-> fs[i]] /\ ss = [i \in 1..M |-> ss[i]]
  BY <1>2, Zenon
<1>4. /\ \A i \in 1..N : fs[i] = validateFilter(c, r.filters[i])
      /\ \A i \in 1..M : ss[i] = SortError(c, r.sorts[i])
  BY <1>2, Zenon
<1> HIDE DEF fs, ss, N, M
<1>5. IsList(fs) /\ Len(fs) = N /\ IsList(ss) /\ Len(ss) = M
  BY <1>2, <1>3, ListIs, Zenon
<1>6. /\ IsList(errs) /\ Len(errs) = N + M
      /\ \A i \in 1..N : errs[i] = fs[i]
      /\ \A i \in 1..M : errs[N + i] = ss[i]
  <2>1. Joins(errs, fs, ss)
    BY Zenon DEF Joins
  <2>2. IsList(fs) /\ IsList(ss)
    BY <1>5, Zenon
  <2> HIDE DEF errs
  <2>3. /\ IsList(errs) /\ Len(errs) = Len(fs) + Len(ss)
        /\ \A i \in 1..Len(fs) : errs[i] = fs[i]
        /\ \A i \in 1..Len(ss) : errs[Len(fs) + i] = ss[i]
    BY ONLY <2>1, <2>2, ListsJoin
  <2> QED
    BY <1>5, <2>3, Zenon
<1> HIDE DEF errs
<1>7. \A i \in 1..(N + M) : errs[i] = None
  BY <1>1, <1>6, NoFirstError, Zenon
<1>8. (\A i \in 1..N : i \in 1..(N + M)) /\ \A i \in 1..M : N + i \in 1..(N + M)
  BY <1>2
<1>9. (\A i \in 1..N : fs[i] = None) /\ \A i \in 1..M : ss[i] = None
  BY <1>6, <1>7, <1>8, Zenon
<1> QED
  BY <1>4, <1>9, Zenon DEF N, M

\* buildOrderBy leaves no sort out that Validate accepts.
LEMMA SortsKept ==
  ASSUME NEW c, NEW r, IsRequest(r), r.sorts # <<>>, \A i \in 1..Len(r.sorts) : SortError(c, r.sorts[i]) = None
  PROVE  Len(buildOrderBy(c, r.sorts)) = Len(r.sorts)
<1> DEFINE s == r.sorts
           S == {x \in Sorts : SortError(c, x) # None}
           o == [i \in DOMAIN s |-> <<c.fields[s[i].field].col, s[i].desc>>]
<1>1. s \in Seq(Sorts)
  BY Zenon DEF IsRequest
<1>2. \A i \in 1..Len(s) : s[i] \notin S
  BY Zenon
<1> HIDE DEF S
<1>3. Without(s, S) = s
  BY <1>1, <1>2, WithoutFacts, Zenon
<1>4. buildOrderBy(c, s) = o
  BY <1>3, Zenon DEF buildOrderBy, S
<1>5. Len(s) \in Nat /\ DOMAIN s = 1..Len(s)
  BY <1>1
<1>6. o = [i \in 1..Len(s) |-> o[i]]
  BY <1>5, Zenon
<1> HIDE DEF o
<1>7. Len(o) = Len(s)
  BY <1>5, <1>6, ListIs, Zenon
<1> QED
  BY <1>4, <1>7, Zenon

-----------------------------------------------------------------------------
(* Requests                                                                *)

\* Configurations do not change, and requests are lists of what clients may ask for.
AskTypeOK ==
    /\ cfg \in Configs
    /\ req \in [filters : Seq(Filters), terms : Seq(Terms), sorts : Seq(Sorts),
                tenant : {<<>>} \cup {<<t>> : t \in Tenants}, page : PageRequests]

\* Requests are lists, of every length.
LEMMA AskTypes == AskSpec => []AskTypeOK
<1> DEFINE T == {<<>>} \cup {<<t>> : t \in Tenants}
           R == [filters : Seq(Filters), terms : Seq(Terms), sorts : Seq(Sorts), tenant : T, page : PageRequests]
<1>1. AskInit => AskTypeOK
  <2> SUFFICES ASSUME AskInit PROVE req \in R
    BY Zenon DEF AskInit, AskTypeOK
  <2>1. PICK t \in T, p \in PageRequests :
          req = [filters |-> <<>>, terms |-> <<>>, sorts |-> <<>>, tenant |-> t, page |-> p]
    <3> HIDE DEF T
    <3>1. req \in [filters : {<<>>}, terms : {<<>>}, sorts : {<<>>}, tenant : T, page : PageRequests]
      BY Zenon DEF AskInit, T
    <3> QED
      BY <3>1, Zenon
  <2> HIDE DEF T
  <2> QED
    BY <2>1
<1>2. AskTypeOK /\ [AskNext]_askVars => AskTypeOK'
  <2> SUFFICES ASSUME cfg \in Configs, req \in R, [AskNext]_askVars PROVE cfg' \in Configs /\ req' \in R
    BY Zenon DEF AskTypeOK
  <2> HIDE DEF T
  <2>1. ASSUME NEW f \in Filters, AddFilter(f) PROVE req' \in R
    <3>1. req' = [req EXCEPT !.filters = Append(req.filters, f)]
      BY <2>1, Zenon DEF AddFilter
    <3>2. req.filters \in Seq(Filters)
      BY Zenon
    <3>3. Append(req.filters, f) \in Seq(Filters)
      BY <2>1, <3>2
    <3> QED
      BY <3>1, <3>3, Zenon
  <2>2. ASSUME NEW t \in Terms, AddTerm(t) PROVE req' \in R
    <3>1. req' = [req EXCEPT !.terms = Append(req.terms, t)]
      BY <2>2, Zenon DEF AddTerm
    <3>2. req.terms \in Seq(Terms)
      BY Zenon
    <3>3. Append(req.terms, t) \in Seq(Terms)
      BY <2>2, <3>2
    <3> QED
      BY <3>1, <3>3, Zenon
  <2>3. ASSUME NEW s \in Sorts, AddSort(s) PROVE req' \in R
    <3>1. req' = [req EXCEPT !.sorts = Append(req.sorts, s)]
      BY <2>3, Zenon DEF AddSort
    <3>2. req.sorts \in Seq(Sorts)
      BY Zenon
    <3>3. Append(req.sorts, s) \in Seq(Sorts)
      BY <2>3, <3>2
    <3> QED
      BY <3>1, <3>3, Zenon
  <2> HIDE DEF R
  <2>4. CASE UNCHANGED askVars
    BY <2>4, Zenon DEF askVars
  <2> QED
    BY <2>1, <2>2, <2>3, <2>4, Zenon DEF AskNext
<1> QED
  BY <1>1, <1>2, PTL DEF AskSpec

\* What the lemmas on the compiler assume of a request.
LEMMA AskRequest == AskTypeOK => cfg \in Configs /\ IsRequest(req)
  BY Zenon DEF AskTypeOK, IsRequest

\* The n-th placeholder of the SQL text is for the n-th argument, none is missing and
\* none is left over, for every configuration and requests of every length.
THEOREM PlaceholdersAreArguments == AskSpec => []PlaceholdersNumberArgs
<1>1. AskTypeOK => PlaceholdersNumberArgs
  <2> SUFFICES ASSUME AskTypeOK PROVE PlaceholdersNumberArgs
    BY Zenon
  <2> DEFINE q == Compile(cfg, req)
  <2>1. PICK st : Compiling(cfg, req, Len(req.filters), st) /\ q.args = st.args /\ q.conds = st.conds
    BY AskRequest, Compiled
  <2>2. Numbered(st)
    BY <2>1, Zenon DEF Compiling
  <2> HIDE DEF q
  <2>3. Ascending(q.conds)
    BY <2>1, <2>2, Zenon DEF Numbered
  <2>4. UNION {{q.conds[k].ph[i] : i \in DOMAIN q.conds[k].ph} : k \in DOMAIN q.conds} = DOMAIN q.args
    BY <2>1, <2>2 DEF Numbered
  <2> QED
    BY <2>3, <2>4, Zenon DEF PlaceholdersNumberArgs, Ascending, q
<1> QED
  BY <1>1, AskTypes, PTL

\* Every query that Compile returns is the one that was asked for: the tenant's condition is in
\* front, and every filter has its condition, on its column, with its value.
THEOREM CompilesWhatWasAsked == AskSpec => []QueryAsRequested
<1>1. AskTypeOK => QueryAsRequested
  <2> SUFFICES ASSUME AskTypeOK, Compile(cfg, req).err = None PROVE QueryAsRequested
    BY Zenon DEF QueryAsRequested
  <2> DEFINE q == Compile(cfg, req)
             s0 == Start(cfg, req)
             others == Len(q.conds) - Len(req.filters)
  <2>1. cfg \in Configs /\ IsRequest(req)
    BY AskRequest, Zenon
  <2>2. PICK st : Compiling(cfg, req, Len(req.filters), st) /\ q.err = st.err /\ q.args = st.args /\ q.conds = st.conds
    BY <2>1, Compiled
  <2>3. /\ Numbered(s0)
        /\ \A k \in 1..Len(s0.conds) : s0.conds[k].of # "filter"
        /\ cfg.tenantColumn # None /\ req.tenant # <<>> =>
             Len(s0.conds) > 0 /\ s0.conds[1].col = {cfg.tenantColumn} /\ ArgsOf(s0, s0.conds[1]) = req.tenant
    BY <2>1, Started
  <2>4. Len(s0.conds) \in Nat /\ Len(req.filters) \in Nat /\ DOMAIN req.filters = 1..Len(req.filters)
    BY <2>1, <2>3, ListFacts DEF Numbered, IsState, IsRequest
  <2>5. /\ Len(q.conds) = Len(s0.conds) + Len(req.filters)
        /\ \A k \in 1..Len(s0.conds) :
             q.conds[k] = s0.conds[k] /\ ArgsOf(q, q.conds[k]) = ArgsOf(s0, s0.conds[k])
        /\ \A i \in 1..Len(req.filters) : FilterDone(cfg, req.filters[i], q, q.conds[Len(s0.conds) + i])
    BY <2>2, Zenon DEF Compiling, ArgsOf, FilterDone
  <2> HIDE DEF q, s0
  <2>6. others = Len(s0.conds)
    BY <2>4, <2>5
  <2> HIDE DEF others
  <2>7. cfg.tenantColumn # None /\ req.tenant # <<>> =>
          others > 0 /\ q.conds[1].col = {cfg.tenantColumn} /\ ArgsOf(q, q.conds[1]) = req.tenant
    BY <2>3, <2>4, <2>5, <2>6
  <2>8. others >= 0 /\ \A k \in 1..others : q.conds[k].of # "filter"
    BY <2>3, <2>4, <2>5, <2>6
  <2>9. ASSUME NEW i \in DOMAIN req.filters
        PROVE  LET f == req.filters[i] fc == cfg.fields[f.field] cond == q.conds[others + i]
               IN  /\ f.field \in DOMAIN cfg.fields /\ cond.of = "filter" /\ cond.col = {fc.col}
                   /\ fc.ops # {} => cond.op \in fc.ops
                   /\ ArgsOf(q, cond) \in Resolve(fc, cond.op, f.value).vals
                   /\ \A k \in DOMAIN ArgsOf(q, cond) : Keeps(PartOf(f, k), ArgsOf(q, cond)[k])
    <3> DEFINE f == req.filters[i]  cond == q.conds[others + i]
    <3>1. FilterDone(cfg, f, q, cond)
      BY <2>4, <2>5, <2>6, Zenon
    <3>2. f \in Filters
      BY <2>1, <2>4 DEF IsRequest
    <3> HIDE DEF f, cond
    <3>3. \A k \in DOMAIN ArgsOf(q, cond) : Keeps(PartOf(f, k), ArgsOf(q, cond)[k])
      BY <2>1, <3>1, <3>2, ResolvedValues, Zenon DEF FilterDone
    <3> QED
      BY <3>1, <3>3, Zenon DEF FilterDone, f, cond
  <2>10. Answers(cfg, req, q)
    BY <2>7, <2>8, <2>9, Zenon DEF Answers, ArgsOf, PartOf, others
  <2> QED
    BY <2>10, Zenon DEF QueryAsRequested, q
<1> QED
  BY <1>1, AskTypes, PTL

\* Compile stops at every filter that Validate refuses; a request that Validate accepts keeps its
\* sorts, and fails only for a value, an operator or a template.
THEOREM ValidateAndCompileAgree == AskSpec => []ValidateAgrees
<1>1. AskTypeOK => ValidateAgrees
  <2> SUFFICES ASSUME AskTypeOK PROVE ValidateAgrees
    BY Zenon
  <2> DEFINE q == Compile(cfg, req)
  <2>1. cfg \in Configs /\ IsRequest(req)
    BY AskRequest, Zenon
  <2>2. PICK st : /\ Compiling(cfg, req, Len(req.filters), st) /\ q.err = st.err
                  /\ q.orderBy = buildOrderBy(cfg, req.sorts)
    BY <2>1, Compiled
  <2>3. Checked(cfg, req, Len(req.filters), st) /\ DOMAIN req.filters = 1..Len(req.filters)
    BY <2>1, <2>2 DEF Compiling, IsRequest
  <2> HIDE DEF q
  <2>4. ASSUME Validate(cfg, req) = None
        PROVE  /\ q.err \in {None, "value", "operator", "template"}
               /\ req.sorts # <<>> => Len(q.orderBy) = Len(req.sorts)
    <3>1. /\ \A i \in 1..Len(req.filters) : validateFilter(cfg, req.filters[i]) = None
          /\ \A i \in 1..Len(req.sorts) : SortError(cfg, req.sorts[i]) = None
      BY <2>1, <2>4, ValidateChecks, Zenon
    <3>2. q.err \in {None, "value", "operator", "template"}
      BY <2>2, <2>3, <3>1, Zenon DEF Checked
    <3>3. req.sorts # <<>> => Len(buildOrderBy(cfg, req.sorts)) = Len(req.sorts)
      BY <2>1, <3>1, SortsKept, Zenon
    <3> QED
      BY <2>2, <3>2, <3>3, Zenon
  <2>5. (\E i \in DOMAIN req.filters : validateFilter(cfg, req.filters[i]) # None) => q.err # None
    BY <2>2, <2>3, Zenon DEF Checked
  <2> QED
    BY <2>4, <2>5, Zenon DEF ValidateAgrees, q
<1> QED
  BY <1>1, AskTypes, PTL

=============================================================================
