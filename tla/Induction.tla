------------------------------ MODULE Induction ------------------------------
(***************************************************************************)
(* Induction over the lines of a file, the rules of a group, the terms of  *)
(* a query: the recursive functions of the models are functions on 0..N,   *)
(* and what they compute is proved by induction on how far they have come. *)
(* Those on the nodes of a page go down a tree, and the induction is on    *)
(* its height.                                                             *)
(*                                                                         *)
(* The induction is over a set of numbers rather than an operator, and     *)
(* rests on the order of the naturals being well founded.                  *)
(***************************************************************************)
EXTENDS Integers, Sequences, WellFoundedInduction, TLAPS

\* A set with 0, and with n + 1 whenever it has n, has every natural number.
LEMMA NatSetInduction ==
  ASSUME NEW Z, 0 \in Z, \A n \in Nat : n \in Z => n + 1 \in Z
  PROVE  Nat \subseteq Z
  <1> DEFINE T == {n \in Nat : n \notin Z}
  <1>1. ASSUME T # {} PROVE FALSE
    <2>1. T \subseteq Nat /\ IsWellFoundedOn(OpToRel(<, Nat), Nat)
      BY NatLessThanWellFounded
    <2> HIDE DEF T
    <2>2. PICK x \in T : \A y \in T : <<y, x>> \notin OpToRel(<, Nat)
      BY <1>1, <2>1, WFMin
    <2> USE DEF T
    <2>3. x \in Nat /\ x # 0
      BY <2>2
    <2>4. x - 1 \in Nat /\ x - 1 + 1 = x
      BY <2>3
    <2>5. <<x - 1, x>> \in OpToRel(<, Nat)
      BY <2>3, <2>4 DEF OpToRel
    <2> QED
      BY <2>2, <2>4, <2>5
  <1> QED
    BY <1>1

\* The same up to a bound, for a step that needs the bound.
LEMMA UpToInduction ==
  ASSUME NEW N \in Nat, NEW Z, 0 \in Z, \A n \in 1..N : n - 1 \in Z => n \in Z
  PROVE  0..N \subseteq Z
  <1> DEFINE Y == {n \in Nat : n <= N => n \in Z}
  <1>1. 0 \in Y
    OBVIOUS
  <1>2. ASSUME NEW n \in Nat, n \in Y PROVE n + 1 \in Y
    <2>1. CASE n + 1 > N
      BY <2>1
    <2>2. CASE n + 1 <= N
      <3>1. n + 1 \in 1..N /\ n + 1 - 1 = n /\ n \in Z
        BY <1>2, <2>2
      <3>2. n + 1 \in Z
        BY <3>1
      <3> QED
        BY <3>2
    <2> QED
      BY <2>1, <2>2
  <1> HIDE DEF Y
  <1>3. Nat \subseteq Y
    BY <1>1, <1>2, NatSetInduction
  <1> QED
    BY <1>3 DEF Y

\* A step from a value and a number to a value.
IsStep(step, N, D) == step \in [D \X (1..N) -> D]

\* A function that starts with the base and goes on by the step.
Recurs(g, N, D, base, step) ==
  g \in [0..N -> D] /\ g[0] = base /\ \A i \in 1..N : g[i] = step[<<g[i - 1], i>>]

\* A function on 0..N with a given first value and a given step exists.
LEMMA RecursionExists ==
  ASSUME NEW N \in Nat, NEW D, NEW base \in D, NEW step, IsStep(step, N, D)
  PROVE  \E g : Recurs(g, N, D, base, step)
  <1> USE DEF IsStep
  <1> DEFINE Upto(g, n) == \A i \in 0..n : g[i] = IF i = 0 THEN base ELSE step[<<g[i - 1], i>>]
             Z == {n \in Nat : \E g \in [0..n -> D] : Upto(g, n)}
  <1>1. 0 \in Z
    <2> DEFINE g == [i \in 0..0 |-> base]
    <2>1. g \in [0..0 -> D] /\ Upto(g, 0)
      OBVIOUS
    <2> QED
      BY <2>1
  <1>2. ASSUME NEW n \in 1..N, n - 1 \in Z PROVE n \in Z
    <2>1. PICK f \in [0..(n - 1) -> D] : Upto(f, n - 1)
      BY <1>2
    <2> DEFINE g == [i \in 0..n |-> IF i < n THEN f[i] ELSE step[<<f[n - 1], n>>]]
    <2>2. f[n - 1] \in D /\ n - 1 \in 0..(n - 1)
      OBVIOUS
    <2>3. g \in [0..n -> D]
      <3>1. step[<<f[n - 1], n>>] \in D
        BY <2>2
      <3>2. \A i \in 0..n : i < n => i \in 0..(n - 1)
        OBVIOUS
      <3> QED
        BY <3>1, <3>2
    <2>4. ASSUME NEW i \in 0..n PROVE g[i] = IF i = 0 THEN base ELSE step[<<g[i - 1], i>>]
      <3>1. CASE i < n
        <4>1. i \in 0..(n - 1) /\ (i # 0 => i - 1 \in 0..n /\ i - 1 < n)
          BY <3>1
        <4>2. g[i] = f[i] /\ (i # 0 => g[i - 1] = f[i - 1])
          BY <3>1, <4>1
        <4> QED
          BY <2>1, <4>1, <4>2
      <3>2. CASE i = n
        <4>1. g[n] = step[<<f[n - 1], n>>] /\ g[n - 1] = f[n - 1]
          BY <3>2
        <4> QED
          BY <3>2, <4>1
      <3> QED
        BY <3>1, <3>2
    <2> HIDE DEF g
    <2> QED
      BY <2>3, <2>4
  <1> HIDE DEF Z
  <1>3. 0..N \subseteq Z
    BY <1>1, <1>2, UpToInduction
  <1>4. PICK g \in [0..N -> D] : Upto(g, N)
    BY <1>3 DEF Z
  <1>5. 0 \in 0..N /\ \A i \in 1..N : i \in 0..N /\ i # 0
    OBVIOUS
  <1>6. g[0] = base
    BY <1>4, <1>5
  <1>7. ASSUME NEW i \in 1..N PROVE g[i] = step[<<g[i - 1], i>>]
    BY <1>4, <1>5
  <1> QED
    BY <1>4, <1>6, <1>7 DEF Recurs

-----------------------------------------------------------------------------
(* Trees.                                                                  *)

\* A set with every member of a tree whose lower members it has has them all.
LEMMA HeightInduction ==
  ASSUME NEW Members, NEW Height \in [Members -> Nat], NEW Z,
         \A n \in Members : (\A m \in Members : Height[m] < Height[n] => m \in Z) => n \in Z
  PROVE  Members \subseteq Z
  <1> DEFINE Y == {k \in Nat : \A n \in Members : Height[n] < k => n \in Z}
  <1>1. 0 \in Y
    OBVIOUS
  <1>2. ASSUME NEW k \in Nat, k \in Y PROVE k + 1 \in Y
    <2>1. ASSUME NEW n \in Members, Height[n] < k + 1 PROVE n \in Z
      <3>1. \A m \in Members : Height[m] < Height[n] => Height[m] < k
        BY <2>1
      <3>2. \A m \in Members : Height[m] < Height[n] => m \in Z
        BY <1>2, <3>1
      <3> QED
        BY <3>2
    <2> QED
      BY <2>1
  <1> HIDE DEF Y
  <1>3. Nat \subseteq Y
    BY <1>1, <1>2, NatSetInduction
  <1>4. ASSUME NEW n \in Members PROVE n \in Z
    <2>1. Height[n] + 1 \in Y /\ Height[n] < Height[n] + 1
      BY <1>3
    <2> QED
      BY <2>1 DEF Y
  <1> QED
    BY <1>4

\* A tree: the members below each, which are lower, in a sequence.
IsTree(Members, Below, Height) ==
  /\ Below \in [Members -> Seq(Members)] /\ Height \in [Members -> Nat]
  /\ \A n \in Members : \A i \in 1..Len(Below[n]) : Height[Below[n][i]] < Height[n]

\* The values of a function for the members below one.
ValuesBelow(g, Below, n) == [i \in 1..Len(Below[n]) |-> g[Below[n][i]]]

\* A function that goes on from the values below a member by a rule.
Gathers(g, N, D, Below, rule) ==
  g \in [N -> D] /\ \A n \in N : g[n] = rule[<<n, ValuesBelow(g, Below, n)>>]

\* A function on a tree with a given rule exists.
LEMMA TreeRecursion ==
  ASSUME NEW Members, NEW Below, NEW Height, IsTree(Members, Below, Height),
         NEW D, NEW rule \in [Members \X Seq(D) -> D]
  PROVE  \E g : Gathers(g, Members, D, Below, rule)
  <1> DEFINE Low(k) == {n \in Members : Height[n] < k}
             Solves(g, k) == Gathers(g, Low(k), D, Below, rule)
             Z == {k \in Nat : \E g : Solves(g, k)}
  <1>1. /\ \A n \in Members : Below[n] \in Seq(Members) /\ Height[n] \in Nat
        /\ \A n \in Members : \A i \in 1..Len(Below[n]) : /\ Below[n][i] \in Members
                                                          /\ Height[Below[n][i]] < Height[n]
    <2>1. \A n \in Members : Below[n] \in Seq(Members) /\ Height[n] \in Nat
      BY DEF IsTree
    <2>2. \A n \in Members : \A i \in 1..Len(Below[n]) : Below[n][i] \in Members
      BY <2>1
    <2> QED
      BY <2>1, <2>2 DEF IsTree
  <1>2. ASSUME NEW j \in Nat, NEW k \in Nat, NEW f, NEW g, Solves(f, j), Solves(g, k),
               NEW n \in Members, Height[n] < j, Height[n] < k
        PROVE  f[n] = g[n]
    <2> DEFINE Y == {m \in Members : Height[m] < j /\ Height[m] < k => f[m] = g[m]}
    <2>1. ASSUME NEW m \in Members, \A l \in Members : Height[l] < Height[m] => l \in Y,
                 Height[m] < j, Height[m] < k
          PROVE  f[m] = g[m]
      <3>1. ASSUME NEW i \in 1..Len(Below[m]) PROVE f[Below[m][i]] = g[Below[m][i]]
        <4>1. Below[m][i] \in Members /\ Height[Below[m][i]] < Height[m] /\ Height[Below[m][i]] \in Nat /\ Height[m] \in Nat
          BY <1>1
        <4>2. Below[m][i] \in Y /\ Height[Below[m][i]] < j /\ Height[Below[m][i]] < k
          BY <2>1, <4>1
        <4> QED
          BY <4>2
      <3>2. ValuesBelow(f, Below, m) = ValuesBelow(g, Below, m)
        BY <3>1 DEF ValuesBelow
      <3>3. m \in Low(j) /\ m \in Low(k)
        BY <2>1
      <3> QED
        BY <1>2, <3>2, <3>3 DEF Gathers
    <2>2. \A m \in Members : (\A l \in Members : Height[l] < Height[m] => l \in Y) => m \in Y
      BY <2>1
    <2> HIDE DEF Y
    <2>3. Height \in [Members -> Nat]
      BY DEF IsTree
    <2>4. Members \subseteq Y
      BY <2>2, <2>3, HeightInduction, Zenon
    <2> QED
      BY <1>2, <2>4 DEF Y
  <1>3. 0 \in Z
    <2> DEFINE g == [n \in Low(0) |-> CHOOSE d \in D : TRUE]
    <2>1. Low(0) = {}
      BY <1>1
    <2>2. Solves(g, 0)
      BY <2>1 DEF Gathers
    <2> QED
      BY <2>2
  <1>4. ASSUME NEW k \in Nat, k \in Z PROVE k + 1 \in Z
    <2>1. PICK f : Solves(f, k)
      BY <1>4
    <2> DEFINE g == [n \in Low(k + 1) |-> rule[<<n, ValuesBelow(f, Below, n)>>]]
    <2>2. ASSUME NEW n \in Low(k + 1) PROVE /\ ValuesBelow(f, Below, n) \in Seq(D)
                                            /\ \A i \in 1..Len(Below[n]) : Below[n][i] \in Low(k)
      <3>1. ASSUME NEW i \in 1..Len(Below[n]) PROVE Below[n][i] \in Low(k) /\ f[Below[n][i]] \in D
        <4>1. Below[n][i] \in Members /\ Height[Below[n][i]] < Height[n] /\ Height[Below[n][i]] \in Nat /\ Height[n] \in Nat
          BY <1>1
        <4>2. Below[n][i] \in Low(k)
          BY <4>1
        <4> QED
          BY <2>1, <4>2 DEF Gathers
      <3>2. Len(Below[n]) \in Nat
        BY <1>1
      <3> QED
        BY <3>1, <3>2 DEF ValuesBelow
    <2>3. g \in [Low(k + 1) -> D]
      BY <2>2
    <2>4. ASSUME NEW n \in Low(k) PROVE n \in Low(k + 1) /\ g[n] = f[n]
      <3>1. n \in Low(k + 1)
        BY <1>1
      <3> QED
        BY <2>1, <3>1 DEF Gathers
    <2>5. ASSUME NEW n \in Low(k + 1) PROVE g[n] = rule[<<n, ValuesBelow(g, Below, n)>>]
      <3> HIDE DEF Low
      <3>1. \A i \in 1..Len(Below[n]) : g[Below[n][i]] = f[Below[n][i]]
        BY <2>2, <2>4
      <3>2. ValuesBelow(g, Below, n) = ValuesBelow(f, Below, n)
        <4> HIDE DEF g
        <4> QED
          BY <3>1 DEF ValuesBelow
      <3> QED
        BY <3>2
    <2> HIDE DEF g, Low
    <2>6. Solves(g, k + 1)
      BY <2>3, <2>5 DEF Gathers
    <2> QED
      BY <2>6
  <1> HIDE DEF Z
  <1>5. Nat \subseteq Z
    BY <1>3, <1>4, NatSetInduction
  <1> DEFINE F(k) == CHOOSE g : Solves(g, k)
             h == [n \in Members |-> F(Height[n] + 1)[n]]
  <1>6. \A k \in Nat : Solves(F(k), k)
    <2> HIDE DEF Solves
    <2> QED
      BY <1>5 DEF Z
  <1> HIDE DEF F
  <1>7. ASSUME NEW n \in Members PROVE h[n] \in D /\ h[n] = rule[<<n, ValuesBelow(h, Below, n)>>]
    <2> DEFINE k == Height[n] + 1
               f == F(k)
    <2>1. k \in Nat /\ n \in Low(k) /\ Solves(f, k)
      BY <1>1, <1>6
    <2>2. ASSUME NEW i \in 1..Len(Below[n]) PROVE h[Below[n][i]] = f[Below[n][i]]
      <3> DEFINE m == Below[n][i]
      <3>1. m \in Members /\ Height[m] < Height[n] /\ Height[m] \in Nat /\ Height[n] \in Nat
        BY <1>1
      <3>2. Height[m] + 1 \in Nat /\ Height[m] < Height[m] + 1 /\ Height[m] < k
        BY <3>1
      <3>3. Solves(F(Height[m] + 1), Height[m] + 1)
        BY <1>6, <3>2
      <3> HIDE DEF m, k, Solves
      <3>4. F(Height[m] + 1)[m] = f[m]
        BY <1>2, <2>1, <3>1, <3>2, <3>3
      <3> QED
        BY <3>1, <3>4 DEF m
    <2>3. ValuesBelow(h, Below, n) = ValuesBelow(f, Below, n)
      <3> HIDE DEF h, f
      <3> QED
        BY <2>2 DEF ValuesBelow
    <2>4. f[n] \in D /\ f[n] = rule[<<n, ValuesBelow(f, Below, n)>>]
      <3> HIDE DEF f, k, Low
      <3> QED
        BY <2>1 DEF Gathers
    <2>5. h[n] = f[n]
      OBVIOUS
    <2> QED
      BY <2>3, <2>4, <2>5
  <1>8. h \in [Members -> D]
    BY <1>7
  <1> HIDE DEF h
  <1> QED
    BY <1>7, <1>8 DEF Gathers
=============================================================================
