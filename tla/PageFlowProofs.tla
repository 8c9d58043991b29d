--------------------------- MODULE PageFlowProofs ---------------------------
(***************************************************************************)
(* Proofs about PageFlow: what is queued has one normal form, which a      *)
(* saved frontier keeps, and is the page that a seed or a link means; the  *)
(* filter judges it alike; and what is recorded reaches the index.         *)
(***************************************************************************)
EXTENDS PageFlow, Induction, SequenceTheorems, FiniteSetTheorems

-----------------------------------------------------------------------------
(* Sequences of tokens, and where the code looks in them.                  *)

\* What a part of a URL is.
LEMMA PartSays ==
  ASSUME NEW s \in Seq(Word), NEW m \in Nat \ {0}, NEW n \in Nat, n <= Len(s)
  PROVE  /\ SubSeq(s, m, n) \in Seq(Word)
         /\ Len(SubSeq(s, m, n)) = IF m <= n THEN n - m + 1 ELSE 0
         /\ \A i \in 1..Len(SubSeq(s, m, n)) : SubSeq(s, m, n)[i] = s[m + i - 1]
  <1>1. \A i \in m..n : s[i] \in Word
    OBVIOUS
  <1> QED
    BY <1>1, SubSeqProperties

\* What Min() chooses.
LEMMA MinSays ==
  ASSUME NEW S, S \subseteq Nat, S # {}
  PROVE  Min(S) \in S /\ \A x \in S : Min(S) <= x
  <1>1. \E x \in S : \A y \in S : x <= y
    <2>1. IsWellFoundedOn(OpToRel(<, Nat), Nat)
      BY NatLessThanWellFounded
    <2>2. PICK x \in S : \A y \in S : <<y, x>> \notin OpToRel(<, Nat)
      BY <2>1, WFMin
    <2>3. \A y \in S : ~(y < x)
      BY <2>2 DEF OpToRel
    <2> QED
      BY <2>3
  <1> QED
    BY <1>1 DEF Min

\* First() finds the first, or the place after the end.
LEMMA FirstSays ==
  ASSUME NEW s \in Seq(Word), NEW T, NEW from \in 1..Len(s) + 1
  PROVE  /\ First(s, T, from) \in from..Len(s) + 1
         /\ First(s, T, from) \in Nat
         /\ \A i \in from..First(s, T, from) - 1 : s[i] \notin T
         /\ First(s, T, from) <= Len(s) => s[First(s, T, from)] \in T
  <1> DEFINE I == {i \in from..Len(s) : s[i] \in T}
  <1>1. SelectInSubSeq(s, from, Len(s), LAMBDA c : c \in T) = IF I # {} THEN Min(I) ELSE 0
    BY DEF SelectInSubSeq
  <1>2. First(s, T, from) = IF (IF I # {} THEN Min(I) ELSE 0) = 0
                            THEN Len(s) + 1 ELSE (IF I # {} THEN Min(I) ELSE 0)
    BY <1>1, Zenon DEF First
  <1>3. I \subseteq Nat /\ \A i \in from..Len(s) : i \in I <=> s[i] \in T
    OBVIOUS
  <1>4. \A i \in I : i \in from..Len(s)
    OBVIOUS
  <1> HIDE DEF I
  <1>5. I # {} => Min(I) \in I /\ \A i \in I : Min(I) <= i
    BY <1>3, MinSays, Zenon
  <1>6. I = {} => First(s, T, from) = Len(s) + 1
    BY <1>2
  <1>7. I # {} => First(s, T, from) = Min(I)
    BY <1>2, <1>4, <1>5
  <1>8. CASE I = {}
    <2>1. \A i \in from..Len(s) : s[i] \notin T
      BY <1>3, <1>8
    <2> QED
      BY <1>6, <1>8, <2>1
  <1>9. CASE I # {}
    <2>1. First(s, T, from) \in from..Len(s) /\ s[First(s, T, from)] \in T
      BY <1>3, <1>4, <1>5, <1>7, <1>9
    <2>2. ASSUME NEW i \in from..First(s, T, from) - 1 PROVE s[i] \notin T
      <3>1. i \in from..Len(s) /\ i < First(s, T, from)
        BY <2>1
      <3> QED
        BY <1>3, <1>5, <1>7, <1>9, <2>1, <3>1
    <2> QED
      BY <2>1, <2>2
  <1> QED
    BY <1>8, <1>9

\* The first is known by what is before it.
LEMMA FirstIs ==
  ASSUME NEW s \in Seq(Word), NEW T, NEW from \in 1..Len(s) + 1,
         NEW k \in from..Len(s) + 1,
         \A i \in from..k - 1 : s[i] \notin T,
         k <= Len(s) => s[k] \in T
  PROVE  First(s, T, from) = k
  BY FirstSays

\* A prefix is what the URL begins with.
LEMMA PrefixSays ==
  ASSUME NEW t \in Seq(Word), NEW s \in Seq(Word)
  PROVE  IsPrefix(t, s) <=> Len(t) <= Len(s) /\ \A i \in 1..Len(t) : t[i] = s[i]
  <1>1. CASE Len(t) <= Len(s)
    <2>1. /\ SubSeq(t, 1, Len(t)) \in Seq(Word) /\ SubSeq(s, 1, Len(t)) \in Seq(Word)
          /\ Len(SubSeq(t, 1, Len(t))) = Len(t) /\ Len(SubSeq(s, 1, Len(t))) = Len(t)
          /\ \A i \in 1..Len(t) : SubSeq(t, 1, Len(t))[i] = t[i] /\ SubSeq(s, 1, Len(t))[i] = s[i]
      BY <1>1, PartSays
    <2>2. SubSeq(t, 1, Len(t)) = SubSeq(s, 1, Len(t)) <=> \A i \in 1..Len(t) : t[i] = s[i]
      BY <2>1, SeqEqual
    <2> QED
      BY <1>1, <2>2 DEF IsPrefix
  <1>2. CASE ~(Len(t) <= Len(s))
    BY <1>2 DEF IsPrefix
  <1> QED
    BY <1>1, <1>2

\* The delimiters and the schemes are words.
LEMMA WordsSay == {":", "/", "?", "#", "http", "https", "80", "443"} \subseteq Word
  <1>1. Delimiter \cup {"http", "https", "80", "443"} \subseteq Word
    BY UrlsAssumption, Zenon
  <1> QED
    BY <1>1 DEF Delimiter

\* "://" at a place.
SeparatorAt(s, e) == e + 2 <= Len(s) /\ s[e] = ":" /\ s[e + 1] = "/" /\ s[e + 2] = "/"

LEMMA SeparatorSays ==
  ASSUME NEW s \in Seq(Word), NEW e \in 1..Len(s)
  PROVE  IsPrefix(Separator, From(s, e)) <=> SeparatorAt(s, e)
  <1>1. Separator \in Seq(Word) /\ Len(Separator) = 3
    BY WordsSay DEF Separator
  <1>2. Separator[1] = ":" /\ Separator[2] = "/" /\ Separator[3] = "/"
    BY DEF Separator
  <1>3. From(s, e) \in Seq(Word) /\ Len(From(s, e)) = Len(s) - e + 1
    BY PartSays DEF From
  <1>4. \A i \in 1..Len(s) - e + 1 : From(s, e)[i] = s[e + i - 1]
    BY <1>3, PartSays DEF From
  <1>5. IsPrefix(Separator, From(s, e)) <=> 3 <= Len(s) - e + 1 /\ \A i \in 1..3 : Separator[i] = From(s, e)[i]
    BY <1>1, <1>3, PrefixSays
  <1>6. 3 <= Len(s) - e + 1 => From(s, e)[1] = s[e] /\ From(s, e)[2] = s[e + 1] /\ From(s, e)[3] = s[e + 2]
    BY <1>4
  <1> QED
    BY <1>2, <1>5, <1>6 DEF SeparatorAt

\* The first "://".
LEMMA SchemeEndSays ==
  ASSUME NEW s \in Seq(Word)
  PROVE  /\ SchemeEnd(s) \in 0..Len(s)
         /\ SchemeEnd(s) # 0 => SeparatorAt(s, SchemeEnd(s))
         /\ \A e \in 1..Len(s) : SeparatorAt(s, e) => SchemeEnd(s) # 0 /\ SchemeEnd(s) <= e
  <1> DEFINE P == {e \in DOMAIN s : IsPrefix(Separator, From(s, e))}
  <1>1. \A e \in 1..Len(s) : e \in P <=> SeparatorAt(s, e)
    BY SeparatorSays
  <1>2. P \subseteq Nat /\ P \subseteq 1..Len(s)
    OBVIOUS
  <1>3. SchemeEnd(s) = IF P = {} THEN 0 ELSE Min(P)
    BY DEF SchemeEnd
  <1> HIDE DEF P
  <1>4. P # {} => Min(P) \in P /\ \A x \in P : Min(P) <= x
    BY <1>2, MinSays, Zenon
  <1>5. CASE P = {}
    BY <1>1, <1>3, <1>5
  <1>6. CASE P # {}
    <2>1. SchemeEnd(s) \in P /\ SchemeEnd(s) \in 1..Len(s)
      BY <1>2, <1>3, <1>4, <1>6
    <2> QED
      BY <1>1, <1>3, <1>4, <1>6, <2>1
  <1> QED
    BY <1>5, <1>6

\* Two URLs one after the other.
LEMMA CatSays ==
  ASSUME NEW s \in Seq(Word), NEW t \in Seq(Word)
  PROVE  /\ s \o t \in Seq(Word)
         /\ Len(s \o t) = Len(s) + Len(t)
         /\ \A i \in 1..Len(s) : (s \o t)[i] = s[i]
         /\ \A i \in 1..Len(t) : (s \o t)[Len(s) + i] = t[i]
  BY ConcatProperties

\* Lower() leaves no capitals, and the delimiters where they are.
LEMMA LowerSays ==
  ASSUME NEW s \in Seq(Word)
  PROVE  /\ Lower(s) \in Seq(Word) /\ Len(Lower(s)) = Len(s)
         /\ \A i \in 1..Len(s) : Lower(s)[i] \notin DOMAIN LowerOf
         /\ \A i \in 1..Len(s), d \in Delimiter : Lower(s)[i] = d <=> s[i] = d
         /\ (\A i \in 1..Len(s) : s[i] \notin DOMAIN LowerOf) => Lower(s) = s
  <1>1. Lower(s) = [i \in 1..Len(s) |-> IF s[i] \in DOMAIN LowerOf THEN LowerOf[s[i]] ELSE s[i]]
    BY DEF Lower
  <1>2. \A i \in 1..Len(s) : s[i] \in Word
    OBVIOUS
  <1>3. \A w \in DOMAIN LowerOf : /\ w \in Word \ Delimiter
                                  /\ LowerOf[w] \in Word \ (Delimiter \cup DOMAIN LowerOf)
    BY UrlsAssumption
  <1>4. \A i \in 1..Len(s) : Lower(s)[i] \in Word
    BY <1>1, <1>2, <1>3
  <1>5. Lower(s) \in Seq(Word) /\ Len(Lower(s)) = Len(s)
    BY <1>1, <1>4
  <1>6. (\A i \in 1..Len(s) : s[i] \notin DOMAIN LowerOf) => Lower(s) = s
    <2> SUFFICES ASSUME \A i \in 1..Len(s) : s[i] \notin DOMAIN LowerOf PROVE Lower(s) = s
      OBVIOUS
    <2>1. \A i \in 1..Len(s) : Lower(s)[i] = s[i]
      BY <1>1
    <2> QED
      BY <1>5, <2>1, SeqEqual
  <1> QED
    BY <1>1, <1>3, <1>5, <1>6

-----------------------------------------------------------------------------
(* Normal forms.                                                           *)

\* A URL of a scheme, a host with its port, and a path with its query.
Whole(scheme, host, rest) == scheme \o Separator \o host \o rest

\* The parts of a normal form: no capitals up to the path, no fragment, and all
\* before the first slash counts as the host.
IsForm(scheme, host, rest) ==
  /\ scheme \in Schemes /\ host \in Seq(Word) /\ rest \in Seq(Word)
  /\ scheme[1] \notin DOMAIN LowerOf
  /\ \A i \in 1..Len(host) : host[i] \notin {"/", "#"} \cup DOMAIN LowerOf
  /\ rest # <<>> /\ rest[1] = "/"
  /\ \A i \in 1..Len(rest) : rest[i] # "#"

IsNormal(u) == \E scheme, host, rest : IsForm(scheme, host, rest) /\ u = Whole(scheme, host, rest)

\* Schemes are words.
LEMMA SchemesSay ==
  /\ Separator \in Seq(Word) /\ Len(Separator) = 3
  /\ Separator[1] = ":" /\ Separator[2] = "/" /\ Separator[3] = "/"
  /\ \A scheme \in Schemes :
       /\ scheme \in Seq(Word) /\ Len(scheme) = 1 /\ scheme = <<scheme[1]>>
       /\ scheme[1] \in {"http", "https"}
       /\ DefaultPort[scheme[1]] \in {"80", "443"}
  <1>1. {":", "/", "http", "https"} \subseteq Word
    BY UrlsAssumption DEF Delimiter
  <1>2. Separator \in Seq(Word) /\ Len(Separator) = 3
    BY <1>1 DEF Separator
  <1>3. Separator[1] = ":" /\ Separator[2] = "/" /\ Separator[3] = "/"
    BY DEF Separator
  <1>4. \A scheme \in Schemes : scheme \in Seq(Word) /\ Len(scheme) = 1 /\ scheme[1] \in {"http", "https"} /\ scheme = <<scheme[1]>>
    BY <1>1 DEF Schemes
  <1>5. DefaultPort["http"] = "80" /\ DefaultPort["https"] = "443"
    BY DEF DefaultPort
  <1> QED
    BY <1>2, <1>3, <1>4, <1>5

\* Where the parts of a URL are.
HasParts(u, scheme, host, rest) ==
  /\ u \in Seq(Word) /\ Len(u) = 4 + Len(host) + Len(rest)
  /\ u[1] = scheme[1] /\ u[2] = ":" /\ u[3] = "/" /\ u[4] = "/"
  /\ \A i \in 1..Len(host) : u[4 + i] = host[i]
  /\ \A i \in 1..Len(rest) : u[4 + Len(host) + i] = rest[i]

\* A URL has its parts there.
LEMMA WholeSays ==
  ASSUME NEW scheme \in Schemes, NEW host \in Seq(Word), NEW rest \in Seq(Word)
  PROVE  HasParts(Whole(scheme, host, rest), scheme, host, rest)
  <1> DEFINE a == scheme \o Separator
             b == a \o host
             u == Whole(scheme, host, rest)
  <1>1. scheme \in Seq(Word) /\ Len(scheme) = 1 /\ Separator \in Seq(Word) /\ Len(Separator) = 3
    BY SchemesSay
  <1>2. /\ a \in Seq(Word) /\ Len(a) = Len(scheme) + Len(Separator)
        /\ \A i \in 1..Len(scheme) : a[i] = scheme[i]
        /\ \A i \in 1..Len(Separator) : a[Len(scheme) + i] = Separator[i]
    BY <1>1, CatSays, Zenon
  <1> HIDE DEF a
  <1>3. Len(a) = 4 /\ a[1] = scheme[1] /\ a[2] = ":" /\ a[3] = "/" /\ a[4] = "/"
    <2>1. \A i \in 1..3 : a[1 + i] = Separator[i]
      BY <1>1, <1>2
    <2>2. 1 + 1 = 2 /\ 1 + 2 = 3 /\ 1 + 3 = 4 /\ 1 \in 1..3 /\ 2 \in 1..3 /\ 3 \in 1..3
      OBVIOUS
    <2>3. a[1 + 1] = ":" /\ a[1 + 2] = "/" /\ a[1 + 3] = "/"
      BY <2>1, <2>2, SchemesSay
    <2> QED
      BY <1>1, <1>2, <2>3
  <1>4. \A i \in 1..4 : i = 1 \/ i = 2 \/ i = 3 \/ i = 4
    OBVIOUS
  <1>5. /\ b \in Seq(Word) /\ Len(b) = Len(a) + Len(host)
        /\ \A i \in 1..Len(a) : b[i] = a[i]
        /\ \A i \in 1..Len(host) : b[Len(a) + i] = host[i]
    BY <1>2, CatSays, Zenon
  <1> HIDE DEF b
  <1>6. (\A i \in 1..4 : b[i] = a[i]) /\ (\A i \in 1..Len(host) : b[4 + i] = host[i])
    BY <1>3, <1>5
  <1>7. u = b \o rest
    BY DEF Whole, b, a
  <1> HIDE DEF u
  <1>8. /\ u \in Seq(Word) /\ Len(u) = Len(b) + Len(rest)
        /\ \A i \in 1..Len(b) : u[i] = b[i]
        /\ \A i \in 1..Len(rest) : u[Len(b) + i] = rest[i]
    <2> DEFINE c == b \o rest
    <2>1. /\ c \in Seq(Word) /\ Len(c) = Len(b) + Len(rest)
          /\ \A i \in 1..Len(b) : c[i] = b[i]
          /\ \A i \in 1..Len(rest) : c[Len(b) + i] = rest[i]
      BY <1>5, CatSays, Zenon
    <2>2. u = c
      BY <1>7
    <2> HIDE DEF c
    <2> QED
      BY <2>1, <2>2
  <1>9. /\ Len(u) = 4 + Len(host) + Len(rest)
        /\ \A i \in 1..4 + Len(host) : u[i] = b[i]
        /\ \A i \in 1..Len(rest) : u[4 + Len(host) + i] = rest[i]
    <2>1. Len(b) = 4 + Len(host)
      BY <1>3, <1>5
    <2> QED
      BY <1>8, <2>1
  <1>10. \A i \in 1..4 : u[i] = a[i]
    BY <1>6, <1>9
  <1>11. u[1] = scheme[1] /\ u[2] = ":" /\ u[3] = "/" /\ u[4] = "/"
    BY <1>3, <1>10
  <1>12. \A i \in 1..Len(host) : u[4 + i] = host[i]
    BY <1>6, <1>9
  <1> QED
    BY <1>8, <1>9, <1>11, <1>12 DEF HasParts, u

\* What the code reads from a normal form.
ReadsAs(u, scheme, host, rest) ==
  /\ SchemeEnd(u) = 2
  /\ Before(u, 2) = scheme /\ Lower(scheme) = scheme /\ Lower(host) = host
  /\ First(u, {"#"}, 1) = Len(u) + 1 /\ Before(u, Len(u) + 1) = u
  /\ First(u, {"/"}, 5) = 5 + Len(host) /\ 5 + Len(host) <= Len(u)
  /\ SubSeq(u, 5, 4 + Len(host)) = host
  /\ From(u, 5 + Len(host)) = rest
  /\ From(u, 5) = host \o rest

\* The code reads its parts from a normal form.
LEMMA FormSays ==
  ASSUME NEW scheme, NEW host, NEW rest, IsForm(scheme, host, rest)
  PROVE  ReadsAs(Whole(scheme, host, rest), scheme, host, rest)
  <1> DEFINE u == Whole(scheme, host, rest)
  <1>1. scheme \in Schemes /\ host \in Seq(Word) /\ rest \in Seq(Word)
    BY DEF IsForm
  <1>2. /\ u \in Seq(Word) /\ Len(u) = 4 + Len(host) + Len(rest)
        /\ u[1] = scheme[1] /\ u[2] = ":" /\ u[3] = "/" /\ u[4] = "/"
        /\ \A i \in 1..Len(host) : u[4 + i] = host[i]
        /\ \A i \in 1..Len(rest) : u[4 + Len(host) + i] = rest[i]
    <2>1. HasParts(u, scheme, host, rest)
      BY <1>1, WholeSays
    <2> HIDE DEF u
    <2> QED
      BY <2>1 DEF HasParts
  <1>3. Len(rest) >= 1 /\ rest[1] = "/"
    BY <1>1 DEF IsForm
  <1>4. scheme[1] \in {"http", "https"} /\ scheme \in Seq(Word) /\ Len(scheme) = 1
    BY <1>1, SchemesSay
  <1> HIDE DEF u
  <1>5. SchemeEnd(u) = 2
    <2>1. SeparatorAt(u, 2)
      BY <1>2 DEF SeparatorAt
    <2>2. ~SeparatorAt(u, 1)
      BY <1>2, <1>4 DEF SeparatorAt
    <2> QED
      BY <1>2, <2>1, <2>2, SchemeEndSays
  <1>6. Before(u, 2) = scheme
    <2>1. Before(u, 2) \in Seq(Word) /\ Len(Before(u, 2)) = 1 /\ Before(u, 2)[1] = u[1]
      BY <1>2, PartSays DEF Before
    <2> QED
      BY <1>2, <1>4, <2>1, SeqEqual
  <1>7. Lower(scheme) = scheme /\ Lower(host) = host
    <2>1. \A i \in 1..Len(scheme) : scheme[i] \notin DOMAIN LowerOf
      BY <1>4 DEF IsForm
    <2>2. \A i \in 1..Len(host) : host[i] \notin DOMAIN LowerOf
      BY DEF IsForm
    <2> QED
      BY <1>1, <1>4, <2>1, <2>2, LowerSays
  <1>8. First(u, {"#"}, 1) = Len(u) + 1
    <2>1. ASSUME NEW i \in 1..Len(u) PROVE u[i] # "#"
      <3>1. CASE i \in 1..4
        BY <1>2, <1>4, <3>1
      <3>2. CASE i \in 5..4 + Len(host)
        <4>1. i - 4 \in 1..Len(host) /\ i = 4 + (i - 4)
          BY <1>1, <3>2
        <4>2. u[i] = host[i - 4]
          BY <1>2, <4>1
        <4> QED
          BY <4>1, <4>2 DEF IsForm
      <3>3. CASE i > 4 + Len(host)
        <4>1. i - 4 - Len(host) \in 1..Len(rest) /\ i = 4 + Len(host) + (i - 4 - Len(host))
          BY <1>1, <1>2, <3>3
        <4>2. u[i] = rest[i - 4 - Len(host)]
          BY <1>2, <4>1
        <4> QED
          BY <4>1, <4>2 DEF IsForm
      <3> QED
        BY <1>1, <1>2, <3>1, <3>2, <3>3
    <2> QED
      BY <1>2, <2>1, FirstIs
  <1>9. Before(u, Len(u) + 1) = u
    BY <1>2, SubSeqFull DEF Before
  <1>10. First(u, {"/"}, 5) = 5 + Len(host) /\ 5 + Len(host) <= Len(u)
    <2>1. ASSUME NEW i \in 5..5 + Len(host) - 1 PROVE u[i] # "/"
      <3>1. i - 4 \in 1..Len(host) /\ i = 4 + (i - 4)
        BY <1>1
      <3>2. u[i] = host[i - 4]
        BY <1>2, <3>1
      <3> QED
        BY <3>1, <3>2 DEF IsForm
    <2>2. u[5 + Len(host)] = "/"
      <3>1. 1 \in 1..Len(rest) /\ 4 + Len(host) + 1 = 5 + Len(host)
        BY <1>1, <1>3
      <3> QED
        BY <1>2, <1>3, <3>1
    <2>3. 5 + Len(host) \in 5..Len(u) + 1 /\ 5 \in 1..Len(u) + 1 /\ 5 + Len(host) <= Len(u)
      BY <1>1, <1>2, <1>3
    <2>4. First(u, {"/"}, 5) = 5 + Len(host)
      <3>1. \A i \in 5..(5 + Len(host)) - 1 : u[i] \notin {"/"}
        BY <2>1
      <3>2. 5 + Len(host) <= Len(u) => u[5 + Len(host)] \in {"/"}
        BY <2>2
      <3> QED
        BY <1>2, <2>3, <3>1, <3>2, FirstIs, Zenon
    <2> QED
      BY <2>3, <2>4
  <1>11. SubSeq(u, 5, 4 + Len(host)) = host
    <2> DEFINE h == SubSeq(u, 5, 4 + Len(host))
    <2>1. h \in Seq(Word) /\ Len(h) = Len(host) /\ \A i \in 1..Len(host) : h[i] = u[5 + i - 1]
      BY <1>1, <1>2, PartSays
    <2>2. \A i \in 1..Len(host) : 5 + i - 1 = 4 + i
      OBVIOUS
    <2> HIDE DEF h
    <2>3. \A i \in 1..Len(host) : h[i] = host[i]
      BY <1>2, <2>1, <2>2
    <2>4. h = host
      BY <1>1, <2>1, <2>3, SeqEqual
    <2> QED
      BY <2>4 DEF h
  <1>12. From(u, 5 + Len(host)) = rest
    <2> DEFINE h == From(u, 5 + Len(host))
    <2>1. h \in Seq(Word) /\ Len(h) = Len(rest) /\ \A i \in 1..Len(rest) : h[i] = u[5 + Len(host) + i - 1]
      BY <1>1, <1>2, <1>3, PartSays DEF From
    <2>2. \A i \in 1..Len(rest) : 5 + Len(host) + i - 1 = 4 + Len(host) + i
      BY <1>1
    <2> HIDE DEF h
    <2>3. \A i \in 1..Len(rest) : h[i] = rest[i]
      BY <1>2, <2>1, <2>2
    <2>4. h = rest
      BY <1>1, <2>1, <2>3, SeqEqual
    <2> QED
      BY <2>4 DEF h
  <1>13. From(u, 5) = host \o rest
    <2>1. SubSeq(u, 5, 4 + Len(host)) \o SubSeq(u, 4 + Len(host) + 1, Len(u)) = SubSeq(u, 5, Len(u))
      <3>1. /\ 5 \in 1..Len(u) + 1 /\ 4 + Len(host) \in (5 - 1)..Len(u)
            /\ Len(u) \in 4 + Len(host)..Len(u)
        BY <1>1, <1>2, <1>3
      <3> QED
        BY <1>2, <3>1, ConcatAdjacentSubSeq, Zenon
    <2>2. 4 + Len(host) + 1 = 5 + Len(host)
      BY <1>1
    <2> QED
      BY <1>11, <1>12, <2>1, <2>2 DEF From
  <1> QED
    BY <1>5, <1>6, <1>7, <1>8, <1>9, <1>10, <1>11, <1>12, <1>13 DEF ReadsAs, u

-----------------------------------------------------------------------------
(* URLFrontierMT: normalize_url leaves alone what it gives.                *)

\* The beginning of a URL.
LEMMA CutSays ==
  ASSUME NEW s \in Seq(Word), NEW n \in 0..Len(s)
  PROVE  /\ SubSeq(s, 1, n) \in Seq(Word) /\ Len(SubSeq(s, 1, n)) = n
         /\ \A i \in 1..n : SubSeq(s, 1, n)[i] = s[i]
  BY PartSays

\* A part of a URL from a place to a place.
LEMMA PartAt ==
  ASSUME NEW s \in Seq(Word), NEW m \in 1..Len(s) + 1, NEW n \in (m - 1)..Len(s)
  PROVE  /\ SubSeq(s, m, n) \in Seq(Word) /\ Len(SubSeq(s, m, n)) = n - m + 1
         /\ \A i \in 1..n - m + 1 : SubSeq(s, m, n)[i] = s[m + i - 1]
  <1>1. m \in Nat \ {0} /\ n \in Nat /\ n <= Len(s)
    OBVIOUS
  <1>2. /\ SubSeq(s, m, n) \in Seq(Word)
        /\ Len(SubSeq(s, m, n)) = (IF m <= n THEN n - m + 1 ELSE 0)
        /\ \A i \in 1..Len(SubSeq(s, m, n)) : SubSeq(s, m, n)[i] = s[m + i - 1]
    BY <1>1, PartSays
  <1>3. Len(SubSeq(s, m, n)) = n - m + 1
    BY <1>2
  <1> QED
    BY <1>2, <1>3

\* What WithoutDefaultPort() and WithoutSlash() leave is how the URL began.
LEMMA WithoutSays ==
  /\ \A scheme : \A host \in Seq(Word) : \E n \in 0..Len(host) :
       WithoutDefaultPort(scheme, host) = SubSeq(host, 1, n)
  /\ \A rest \in Seq(Word) : rest # <<>> =>
       \E n \in 1..Len(rest) : WithoutSlash(rest) = SubSeq(rest, 1, n)
  <1>1. ASSUME NEW scheme, NEW host \in Seq(Word)
        PROVE  \E n \in 0..Len(host) : WithoutDefaultPort(scheme, host) = SubSeq(host, 1, n)
    <2>1. CASE Len(host) > 2 /\ IsSuffix(<<":", DefaultPort[scheme[1]]>>, host)
      <3>1. WithoutDefaultPort(scheme, host) = SubSeq(host, 1, Len(host) - 1 - 1)
        BY <2>1, Zenon DEF WithoutDefaultPort, Before
      <3>2. Len(host) - 1 - 1 \in 0..Len(host)
        BY <2>1
      <3> QED
        BY <3>1, <3>2, Zenon
    <2>2. CASE ~(Len(host) > 2 /\ IsSuffix(<<":", DefaultPort[scheme[1]]>>, host))
      <3>1. WithoutDefaultPort(scheme, host) = host
        BY <2>2, Zenon DEF WithoutDefaultPort
      <3>2. host = SubSeq(host, 1, Len(host)) /\ Len(host) \in 0..Len(host)
        BY SubSeqFull
      <3> QED
        BY <3>1, <3>2, Zenon
    <2> QED
      BY <2>1, <2>2
  <1>2. ASSUME NEW rest \in Seq(Word), rest # <<>>
        PROVE  \E n \in 1..Len(rest) : WithoutSlash(rest) = SubSeq(rest, 1, n)
    <2>1. CASE Len(rest) > 1 /\ Last(rest) = "/" /\ ~Contains(rest, "?")
      <3>1. WithoutSlash(rest) = SubSeq(rest, 1, Len(rest) - 1)
        BY <2>1, Zenon DEF WithoutSlash, Front
      <3>2. Len(rest) - 1 \in 1..Len(rest)
        BY <2>1
      <3> QED
        BY <3>1, <3>2, Zenon
    <2>2. CASE ~(Len(rest) > 1 /\ Last(rest) = "/" /\ ~Contains(rest, "?"))
      <3>1. WithoutSlash(rest) = rest
        BY <2>2, Zenon DEF WithoutSlash
      <3>2. rest = SubSeq(rest, 1, Len(rest)) /\ Len(rest) \in 1..Len(rest)
        BY <1>2, SubSeqFull
      <3> QED
        BY <3>1, <3>2, Zenon
    <2> QED
      BY <2>1, <2>2
  <1> QED
    BY <1>1, <1>2

\* A normal form stays as it is when it is normalised again, unless it still ends in
\* a slash or with a default port.
LEMMA NormalStays ==
  ASSUME NEW scheme, NEW host, NEW rest, IsForm(scheme, host, rest),
         Last(Whole(scheme, host, rest)) # "/", WithoutDefaultPort(scheme, host) = host
  PROVE  NormalizeMT(Whole(scheme, host, rest)) = Whole(scheme, host, rest)
  <1> DEFINE u == Whole(scheme, host, rest)
  <1>1. /\ SchemeEnd(u) = 2
        /\ Before(u, 2) = scheme /\ Lower(scheme) = scheme /\ Lower(host) = host
        /\ First(u, {"#"}, 1) = Len(u) + 1 /\ Before(u, Len(u) + 1) = u
        /\ First(u, {"/"}, 5) = 5 + Len(host) /\ 5 + Len(host) <= Len(u)
        /\ SubSeq(u, 5, 4 + Len(host)) = host
        /\ From(u, 5 + Len(host)) = rest
    BY FormSays DEF ReadsAs
  <1>2. scheme \in Schemes /\ host \in Seq(Word) /\ rest \in Seq(Word)
    BY DEF IsForm
  <1>3. /\ Len(u) = 4 + Len(host) + Len(rest)
        /\ \A i \in 1..Len(rest) : u[4 + Len(host) + i] = rest[i]
    BY <1>2, WholeSays DEF HasParts
  <1> HIDE DEF u
  <1>4. Last(rest) # "/"
    <2>1. rest # <<>> /\ Last(u) # "/"
      BY DEF IsForm, u
    <2>2. Len(rest) \in 1..Len(rest)
      BY <1>2, <2>1
    <2>3. u[Len(u)] = rest[Len(rest)]
      BY <1>3, <2>2
    <2> QED
      BY <2>1, <2>3 DEF Last
  <1>5. WithoutSlash(rest) = rest
    BY <1>4, Zenon DEF WithoutSlash
  <1>6. /\ First(u, {"/"}, 2 + 3) = 5 + Len(host)
        /\ SubSeq(u, 2 + 3, 5 + Len(host) - 1) = host
        /\ ~(5 + Len(host) > Len(u)) /\ 2 # 0
    <2>1. 2 + 3 = 5 /\ 5 + Len(host) - 1 = 4 + Len(host)
      BY <1>2
    <2>2. ~(5 + Len(host) > Len(u)) /\ 2 # 0
      BY <1>1, <1>2, <1>3
    <2> QED
      BY <1>1, <2>1, <2>2
  <1>7. NormalizeMT(u) = scheme \o Separator \o host \o rest
    <2> DEFINE t == Before(u, First(u, {"#"}, 1))
               e == SchemeEnd(t)
               path == First(t, {"/"}, e + 3)
               tail == IF path > Len(t) THEN <<"/">> ELSE From(t, path)
    <2>1. t = u
      BY <1>1
    <2>2. e = 2
      BY <1>1, <2>1
    <2>3. path = 5 + Len(host)
      BY <1>6, <2>1, <2>2
    <2>4. tail = rest
      BY <1>1, <1>6, <2>1, <2>3
    <2>5. e # 0
      BY <2>2
    <2>6. NormalizeMT(u) = IF e = 0 \/ Lower(Before(t, e)) \notin Schemes THEN NoUrl
            ELSE Lower(Before(t, e)) \o Separator
                 \o WithoutDefaultPort(Lower(Before(t, e)), Lower(SubSeq(t, e + 3, path - 1)))
                 \o WithoutSlash(tail)
      BY Zenon DEF NormalizeMT
    <2> HIDE DEF t, e, path, tail
    <2>7. Lower(Before(t, e)) = scheme
      BY <1>1, <2>1, <2>2
    <2>8. e + 3 = 2 + 3 /\ path - 1 = 5 + Len(host) - 1
      BY <2>2, <2>3
    <2>9. Lower(SubSeq(t, e + 3, path - 1)) = host
      BY <1>1, <1>6, <2>1, <2>8, Zenon
    <2> QED
      BY <1>2, <1>5, <2>4, <2>5, <2>6, <2>7, <2>9, Zenon
  <1> QED
    BY <1>7, Zenon DEF Whole, u

-----------------------------------------------------------------------------
(* Resources tell normal forms apart.                                      *)

\* The resource of a normal form whose path comes before the query.
LEMMA ResourceSays ==
  ASSUME NEW scheme, NEW host, NEW rest, IsForm(scheme, host, rest),
         \A i \in 1..Len(host) : host[i] # "?"
  PROVE  Resource(Whole(scheme, host, rest)) = Located(scheme, host, rest)
  <1> DEFINE u == Whole(scheme, host, rest)
             v == host \o rest
             e == SchemeEnd(u)
  <1>1. e = 2 /\ Before(u, 2) = scheme /\ Lower(scheme) = scheme
        /\ First(u, {"#"}, 1) = Len(u) + 1 /\ Before(u, Len(u) + 1) = u /\ From(u, 5) = v
    BY FormSays DEF ReadsAs
  <1>2. Resource(u) = Split(Lower(Before(u, e)), From(Before(u, First(u, {"#"}, 1)), e + 3))
    BY Zenon DEF Resource
  <1> HIDE DEF u, e
  <1>3. e + 3 = 5
    BY <1>1
  <1>4. Resource(u) = Split(scheme, v)
    BY <1>1, <1>2, <1>3
  <1>5. host \in Seq(Word) /\ rest \in Seq(Word) /\ rest # <<>> /\ rest[1] = "/"
    BY DEF IsForm
  <1>6. /\ v \in Seq(Word) /\ Len(v) = Len(host) + Len(rest)
        /\ \A i \in 1..Len(host) : v[i] = host[i]
        /\ \A i \in 1..Len(rest) : v[Len(host) + i] = rest[i]
    BY <1>5, CatSays, Zenon
  <1> HIDE DEF v
  <1> DEFINE end == First(v, {"/", "?"}, 1)
             n == Len(host) + 1
  <1>7. n \in 1..Len(v) + 1 /\ 1 \in 1..Len(v) + 1 /\ n <= Len(v) /\ v[n] \in {"/", "?"}
    <2>1. 1 \in 1..Len(rest)
      BY <1>5
    <2> QED
      BY <1>5, <1>6, <2>1
  <1>8. \A i \in 1..n - 1 : v[i] \notin {"/", "?"}
    BY <1>5, <1>6 DEF IsForm
  <1>9. end = n
    <2> HIDE DEF n
    <2> QED
      BY <1>6, <1>7, <1>8, FirstIs, Zenon
  <1>10. Split(scheme, v) = Located(scheme, Before(v, end), From(v, end))
    BY Zenon DEF Split
  <1> HIDE DEF end
  <1>11. Before(v, end) = host
    <2> DEFINE b == Before(v, end)
    <2>1. end - 1 = Len(host) /\ Len(host) \in 0..Len(v)
      BY <1>5, <1>6, <1>9
    <2>2. b \in Seq(Word) /\ Len(b) = Len(host) /\ \A i \in 1..Len(host) : b[i] = v[i]
      BY <1>6, <2>1, CutSays, Zenon DEF Before
    <2> HIDE DEF b
    <2>3. b = host
      BY <1>5, <1>6, <2>2, SeqEqual
    <2> QED
      BY <2>3 DEF b
  <1>12. From(v, end) = rest
    <2> DEFINE b == From(v, end)
    <2>1. end \in Nat \ {0} /\ Len(v) \in Nat /\ Len(v) <= Len(v)
      BY <1>6, <1>7, <1>9
    <2>2. /\ b \in Seq(Word) /\ Len(b) = IF end <= Len(v) THEN Len(v) - end + 1 ELSE 0
          /\ \A i \in 1..Len(b) : b[i] = v[end + i - 1]
      BY <1>6, <2>1, PartSays, Zenon DEF From
    <2> HIDE DEF b
    <2>3. end = Len(host) + 1 /\ end <= Len(v) /\ Len(host) \in Nat /\ Len(rest) \in Nat
      BY <1>5, <1>7, <1>9
    <2>4. Len(b) = Len(rest)
      BY <1>6, <2>2, <2>3
    <2>5. \A i \in 1..Len(rest) : b[i] = rest[i]
      <3>1. \A i \in 1..Len(rest) : end + i - 1 = Len(host) + i
        BY <2>3
      <3> QED
        BY <1>6, <2>2, <2>4, <3>1
    <2>6. b = rest
      BY <1>5, <2>2, <2>4, <2>5, SeqEqual
    <2> QED
      BY <2>6 DEF b
  <1> QED
    BY <1>4, <1>10, <1>11, <1>12 DEF u

\* A port that is neither empty, nor the default one, nor followed by something else.
PlainPort(scheme, host) ==
  LET colon == First(host, {":"}, 1)
  IN colon <= Len(host) => colon + 1 = Len(host) /\ host[Len(host)] # DefaultPort[scheme[1]]

\* Resources tell normal forms with plain ports apart.
LEMMA LocatedTells ==
  ASSUME NEW s, NEW h, NEW r, IsForm(s, h, r), PlainPort(s, h),
         NEW t, NEW g, NEW q, IsForm(t, g, q), PlainPort(t, g),
         Located(s, h, r) = Located(t, g, q)
  PROVE  s = t /\ h = g /\ r = q
  <1> DEFINE Colon(x) == First(x, {":"}, 1)
             Question(x) == First(x, {"?"}, 1)
             Name(x) == Before(x, Colon(x))
             Port(x, y) == IF Colon(y) < Len(y) THEN y[Colon(y) + 1] ELSE DefaultPort[x[1]]
             Path(x) == Before(x, Question(x))
             Query(x) == From(x, Question(x))
  <1>1. ASSUME NEW x, NEW y, NEW z, IsForm(x, y, z)
        PROVE  /\ Located(x, y, z) = [scheme |-> x, host |-> Name(y), port |-> Port(x, y),
                                      path |-> Path(z), query |-> Query(z)]
               /\ z = Path(z) \o Query(z)
               /\ Colon(y) \in 1..Len(y) + 1
               /\ Name(y) \in Seq(Word) /\ Len(Name(y)) = Colon(y) - 1
               /\ \A i \in 1..Colon(y) - 1 : Name(y)[i] = y[i]
               /\ y \in Seq(Word) /\ (Colon(y) <= Len(y) => y[Colon(y)] = ":")
    <2>1. y \in Seq(Word) /\ z \in Seq(Word) /\ z # <<>> /\ z[1] = "/"
      BY <1>1 DEF IsForm
    <2>2. Colon(y) \in 1..Len(y) + 1 /\ (Colon(y) <= Len(y) => y[Colon(y)] = ":")
      <3>1. 1 \in 1..Len(y) + 1
        BY <2>1
      <3>2. Colon(y) \in 1..Len(y) + 1 /\ (Colon(y) <= Len(y) => y[Colon(y)] \in {":"})
        BY <2>1, <3>1, FirstSays, Zenon
      <3> HIDE DEF Colon
      <3> QED
        BY <3>2
    <2>3. Question(z) \in 1..Len(z) + 1 /\ (Question(z) <= Len(z) => z[Question(z)] \in {"?"})
      <3>1. 1 \in 1..Len(z) + 1
        BY <2>1
      <3> QED
        BY <2>1, <3>1, FirstSays, Zenon
    <2> HIDE DEF Colon, Question
    <2>4. Name(y) \in Seq(Word) /\ Len(Name(y)) = Colon(y) - 1 /\ \A i \in 1..Colon(y) - 1 : Name(y)[i] = y[i]
      <3>1. Colon(y) - 1 \in 0..Len(y)
        BY <2>1, <2>2
      <3> QED
        BY <2>1, <3>1, CutSays, Zenon DEF Before
    <2>5. Lower(Name(y)) = Name(y)
      <3>1. \A i \in 1..Len(y) : y[i] \notin DOMAIN LowerOf
        BY <1>1 DEF IsForm
      <3> HIDE DEF Name
      <3>2. \A i \in 1..Len(Name(y)) : Name(y)[i] \notin DOMAIN LowerOf
        BY <2>1, <2>2, <2>4, <3>1
      <3> QED
        BY <2>4, <3>2, LowerSays
    <2>6. z = Path(z) \o Query(z)
      <3> DEFINE m == Question(z) - 1
      <3>1. 1 \in 1..Len(z) + 1 /\ m \in (1 - 1)..Len(z) /\ Len(z) \in m..Len(z)
        BY <2>1, <2>3
      <3>2. SubSeq(z, 1, m) \o SubSeq(z, m + 1, Len(z)) = SubSeq(z, 1, Len(z))
        <4> HIDE DEF m
        <4> QED
          BY <2>1, <3>1, ConcatAdjacentSubSeq, Zenon
      <3>3. m + 1 = Question(z) /\ SubSeq(z, 1, Len(z)) = z
        BY <2>1, <2>3, SubSeqFull
      <3> QED
        BY <3>2, <3>3, Zenon DEF Before, From
    <2>7. Path(z) # <<>>
      <3>1. Question(z) # 1
        BY <2>1, <2>3
      <3>2. Question(z) - 1 \in 0..Len(z) /\ Question(z) - 1 # 0
        BY <2>1, <2>3, <3>1
      <3>3. Len(Path(z)) = Question(z) - 1
        BY <2>1, <3>2, CutSays, Zenon DEF Before
      <3> HIDE DEF Path
      <3> QED
        BY <3>2, <3>3
    <2>8. Located(x, y, z) =
            [scheme |-> x, host |-> Lower(Name(y)), port |-> Port(x, y),
             path |-> IF Path(z) = <<>> THEN <<"/">> ELSE Path(z), query |-> Query(z)]
      BY Zenon DEF Located, Colon, Question
    <2> HIDE DEF Name, Port, Path, Query
    <2> QED
      BY <2>1, <2>2, <2>4, <2>5, <2>6, <2>7, <2>8
  <1>2. ASSUME NEW x, NEW y, PlainPort(x, y), Colon(y) <= Len(y)
        PROVE  Colon(y) + 1 = Len(y) /\ y[Len(y)] # DefaultPort[x[1]]
    BY <1>2, Zenon DEF PlainPort
  <1> HIDE DEF Colon, Question, Name, Path, Query
  <1> HIDE DEF Port
  <1>3. s = t /\ Name(h) = Name(g) /\ Port(s, h) = Port(t, g) /\ Path(r) = Path(q) /\ Query(r) = Query(q)
    <2>1. Located(s, h, r) = [scheme |-> s, host |-> Name(h), port |-> Port(s, h),
                              path |-> Path(r), query |-> Query(r)]
      BY <1>1, Zenon
    <2>2. Located(t, g, q) = [scheme |-> t, host |-> Name(g), port |-> Port(t, g),
                              path |-> Path(q), query |-> Query(q)]
      BY <1>1, Zenon
    <2>3. [scheme |-> s, host |-> Name(h), port |-> Port(s, h), path |-> Path(r), query |-> Query(r)]
            = [scheme |-> t, host |-> Name(g), port |-> Port(t, g), path |-> Path(q), query |-> Query(q)]
      BY <2>1, <2>2, Zenon
    <2> QED
      BY <2>3
  <1>4. r = q
    <2>1. r = Path(r) \o Query(r) /\ q = Path(q) \o Query(q)
      BY <1>1, Zenon
    <2> QED
      BY <1>3, <2>1, Zenon
  <1>5. /\ h \in Seq(Word) /\ Colon(h) \in 1..Len(h) + 1 /\ (Colon(h) <= Len(h) => h[Colon(h)] = ":")
        /\ g \in Seq(Word) /\ Colon(g) \in 1..Len(g) + 1 /\ (Colon(g) <= Len(g) => g[Colon(g)] = ":")
    BY <1>1, Zenon
  <1>6. Colon(h) = Colon(g) /\ \A i \in 1..Colon(h) - 1 : h[i] = g[i]
    <2>1. Len(Name(h)) = Colon(h) - 1 /\ \A i \in 1..Colon(h) - 1 : Name(h)[i] = h[i]
      BY <1>1, Zenon
    <2>2. Len(Name(g)) = Colon(g) - 1 /\ \A i \in 1..Colon(g) - 1 : Name(g)[i] = g[i]
      BY <1>1, Zenon
    <2>3. Colon(h) = Colon(g)
      BY <1>3, <1>5, <2>1, <2>2
    <2> QED
      BY <1>3, <2>1, <2>2, <2>3
  <1> USE DEF Port
  <1>7. CASE Colon(h) <= Len(h)
    <2>1. Colon(h) + 1 = Len(h) /\ h[Len(h)] # DefaultPort[s[1]]
      BY <1>2, <1>7
    <2>2. Port(s, h) = h[Len(h)]
      BY <1>5, <2>1
    <2>3. Colon(g) <= Len(g)
      <3> SUFFICES ASSUME ~(Colon(g) <= Len(g)) PROVE FALSE
        OBVIOUS
      <3>1. ~(Colon(g) < Len(g))
        BY <1>5
      <3>2. Port(t, g) = DefaultPort[t[1]]
        BY <3>1
      <3> QED
        BY <1>3, <2>1, <2>2, <3>2
    <2>4. Colon(g) + 1 = Len(g)
      BY <1>2, <2>3
    <2>5. Port(t, g) = g[Len(g)] /\ Len(h) = Len(g)
      BY <1>5, <1>6, <2>1, <2>4
    <2>6. h[Colon(h)] = g[Colon(h)]
      BY <1>5, <1>6, <1>7, <2>3
    <2>7. \A i \in 1..Len(h) : i \in 1..Colon(h) - 1 \/ i = Colon(h) \/ i = Len(h)
      BY <1>5, <2>1
    <2>8. \A i \in 1..Len(h) : h[i] = g[i]
      BY <1>3, <1>6, <2>2, <2>5, <2>6, <2>7
    <2> QED
      BY <1>3, <1>4, <1>5, <2>5, <2>8, SeqEqual
  <1>8. CASE ~(Colon(h) <= Len(h))
    <2>1. Colon(h) = Len(h) + 1
      BY <1>5, <1>8
    <2>2. Port(s, h) = DefaultPort[s[1]]
      BY <1>5, <2>1
    <2>3. ~(Colon(g) <= Len(g))
      <3> SUFFICES ASSUME Colon(g) <= Len(g) PROVE FALSE
        OBVIOUS
      <3>1. Colon(g) + 1 = Len(g) /\ g[Len(g)] # DefaultPort[t[1]]
        BY <1>2
      <3>2. Port(t, g) = g[Len(g)]
        BY <1>5, <3>1
      <3> QED
        BY <1>3, <2>2, <3>1, <3>2
    <2>4. Len(h) = Len(g)
      BY <1>5, <1>6, <2>1, <2>3
    <2>5. \A i \in 1..Len(h) : h[i] = g[i]
      BY <1>5, <1>6, <2>1
    <2> QED
      BY <1>3, <1>4, <1>5, <2>4, <2>5, SeqEqual
  <1> QED
    BY <1>7, <1>8

\* A normal form that is a resource of its own: the path comes before the query, and
\* the port is plain.
IsPlain(u) ==
  \E scheme, host, rest :
    /\ IsForm(scheme, host, rest) /\ u = Whole(scheme, host, rest)
    /\ \A i \in 1..Len(host) : host[i] # "?"
    /\ PlainPort(scheme, host)

\* Resources tell them apart.
LEMMA PlainTells ==
  ASSUME NEW u, NEW v, IsPlain(u), IsPlain(v), Resource(u) = Resource(v)
  PROVE  u = v
  <1>1. PICK s, h, r : /\ IsForm(s, h, r) /\ u = Whole(s, h, r)
                       /\ \A i \in 1..Len(h) : h[i] # "?"
                       /\ PlainPort(s, h)
    BY DEF IsPlain
  <1>2. PICK t, g, q : /\ IsForm(t, g, q) /\ v = Whole(t, g, q)
                       /\ \A i \in 1..Len(g) : g[i] # "?"
                       /\ PlainPort(t, g)
    BY DEF IsPlain
  <1>3. Resource(u) = Located(s, h, r) /\ Resource(v) = Located(t, g, q)
    BY <1>1, <1>2, ResourceSays
  <1>4. s = t /\ h = g /\ r = q
    <2>1. Located(s, h, r) = Located(t, g, q)
      BY <1>3
    <2>2. IsForm(s, h, r) /\ PlainPort(s, h) /\ IsForm(t, g, q) /\ PlainPort(t, g)
      BY <1>1, <1>2
    <2> QED
      BY <2>1, <2>2, LocatedTells
  <1> QED
    BY <1>1, <1>2, <1>4

\* A normal form is plain but for what NoPageTwice leaves out.
LEMMA NormalIsPlain ==
  ASSUME NEW u, IsNormal(u), ~NoPath(u), ~OddPort(u)
  PROVE  IsPlain(u)
  <1>1. PICK scheme, host, rest : IsForm(scheme, host, rest) /\ u = Whole(scheme, host, rest)
    BY DEF IsNormal
  <1>2. /\ SchemeEnd(u) = 2 /\ First(u, {"/"}, 5) = 5 + Len(host)
        /\ SubSeq(u, 5, 4 + Len(host)) = host
    BY <1>1, FormSays DEF ReadsAs
  <1>3. host \in Seq(Word) /\ scheme \in Schemes /\ rest \in Seq(Word)
    BY <1>1 DEF IsForm
  <1>4. /\ u \in Seq(Word) /\ Len(u) = 4 + Len(host) + Len(rest) /\ u[1] = scheme[1]
        /\ \A i \in 1..Len(host) : u[4 + i] = host[i]
    <2>1. HasParts(u, scheme, host, rest)
      BY <1>1, <1>3, WholeSays
    <2> QED
      BY <2>1 DEF HasParts
  <1>5. ASSUME NEW i \in 1..Len(host), host[i] = "?" PROVE FALSE
    <2>1. 1 \in 1..Len(u) + 1
      BY <1>4
    <2>2. First(u, {"?"}, 1) \in 1..Len(u) + 1 /\ \A j \in 1..First(u, {"?"}, 1) - 1 : u[j] \notin {"?"}
      BY <1>4, <2>1, FirstSays, Zenon
    <2>3. 4 + i \in 1..Len(u) /\ u[4 + i] = "?"
      BY <1>3, <1>4, <1>5
    <2>4. First(u, {"?"}, 1) <= 4 + i
      BY <2>2, <2>3
    <2>5. First(u, {"?"}, 1) < 5 + Len(host)
      BY <1>3, <2>2, <2>4
    <2>6. First(u, {"/"}, SchemeEnd(u) + 3) = 5 + Len(host)
      <3>1. SchemeEnd(u) + 3 = 5
        BY <1>2
      <3> QED
        BY <1>2, <3>1
    <2> QED
      BY <2>5, <2>6 DEF NoPath
  <1>6. PlainPort(scheme, host)
    <2>1. Authority(u) = host
      <3> DEFINE e == SchemeEnd(u)
      <3>1. e + 3 = 5 /\ First(u, {"/"}, 5) - 1 = 4 + Len(host)
        BY <1>2, <1>3
      <3>2. Authority(u) = SubSeq(u, e + 3, First(u, {"/"}, e + 3) - 1)
        BY Zenon DEF Authority
      <3> HIDE DEF e
      <3> QED
        BY <1>2, <3>1, <3>2, Zenon
    <2> DEFINE colon == First(host, {":"}, 1)
    <2>2. ~(colon <= Len(host) /\ (colon + 1 # Len(host) \/ host[Len(host)] = DefaultPort[scheme[1]]))
      BY <1>4, <2>1, Zenon DEF OddPort
    <2> QED
      BY <2>2, Zenon DEF PlainPort
  <1> QED
    BY <1>1, <1>5, <1>6 DEF IsPlain

-----------------------------------------------------------------------------
(* URLNormalizer: what parse() and build() give.                           *)

\* DecodeUnreserved() leaves nothing to decode, and the delimiters where they are.
LEMMA DecodeSays ==
  ASSUME NEW s \in Seq(Word)
  PROVE  /\ DecodeUnreserved(s) \in Seq(Word) /\ Len(DecodeUnreserved(s)) = Len(s)
         /\ \A i \in 1..Len(s) : DecodeUnreserved(s)[i] \notin DOMAIN Decoded
         /\ \A i \in 1..Len(s), d \in Delimiter : DecodeUnreserved(s)[i] = d <=> s[i] = d
         /\ (\A i \in 1..Len(s) : s[i] \notin DOMAIN Decoded) => DecodeUnreserved(s) = s
  <1>1. DecodeUnreserved(s) =
          [i \in 1..Len(s) |-> IF s[i] \in DOMAIN Decoded THEN Decoded[s[i]] ELSE s[i]]
    BY DEF DecodeUnreserved
  <1>2. \A i \in 1..Len(s) : s[i] \in Word
    OBVIOUS
  <1>3. \A w \in DOMAIN Decoded : /\ w \in Word \ Delimiter
                                  /\ Decoded[w] \in Word \ (Delimiter \cup DOMAIN Decoded)
    BY UrlsAssumption
  <1>4. \A i \in 1..Len(s) : DecodeUnreserved(s)[i] \in Word
    BY <1>1, <1>2, <1>3
  <1>5. DecodeUnreserved(s) \in Seq(Word) /\ Len(DecodeUnreserved(s)) = Len(s)
    BY <1>1, <1>4
  <1>6. (\A i \in 1..Len(s) : s[i] \notin DOMAIN Decoded) => DecodeUnreserved(s) = s
    <2> SUFFICES ASSUME \A i \in 1..Len(s) : s[i] \notin DOMAIN Decoded PROVE DecodeUnreserved(s) = s
      OBVIOUS
    <2>1. \A i \in 1..Len(s) : DecodeUnreserved(s)[i] = s[i]
      BY <1>1
    <2> QED
      BY <1>5, <2>1, SeqEqual
  <1> QED
    BY <1>1, <1>3, <1>5, <1>6

\* What parse() gives, and what is built from.
IsParsed(c) ==
  /\ c.scheme \in Schemes /\ c.scheme[1] \notin DOMAIN LowerOf
  /\ c.host \in Seq(Word)
  /\ \A i \in 1..Len(c.host) : c.host[i] \notin {"/", "?", "#", ":"} \cup DOMAIN LowerOf
  /\ c.port \in {NoPort} \cup DOMAIN NumberOf
  /\ c.path \in Seq(Word) /\ c.path # <<>> /\ c.path[1] = "/"
  /\ \A i \in 1..Len(c.path) : c.path[i] \notin {"?", "#"}
  /\ c.query \in Seq(Word) /\ \A i \in 1..Len(c.query) : c.query[i] # "#"

\* A part of a URL has only tokens that are there, from a place to a place.
LEMMA PartFrom ==
  ASSUME NEW s \in Seq(Word), NEW m \in 1..Len(s) + 1, NEW n \in 0..Len(s)
  PROVE  /\ SubSeq(s, m, n) \in Seq(Word)
         /\ \A i \in 1..Len(SubSeq(s, m, n)) : /\ m + i - 1 \in m..n /\ m + i - 1 \in 1..Len(s)
                                               /\ SubSeq(s, m, n)[i] = s[m + i - 1]
         /\ m <= n => SubSeq(s, m, n) # <<>> /\ SubSeq(s, m, n)[1] = s[m]
  <1> DEFINE b == SubSeq(s, m, n)
  <1>1. m \in Nat \ {0} /\ n \in Nat /\ n <= Len(s)
    OBVIOUS
  <1>2. /\ b \in Seq(Word) /\ Len(b) = IF m <= n THEN n - m + 1 ELSE 0
        /\ \A i \in 1..Len(b) : b[i] = s[m + i - 1]
    BY <1>1, PartSays, Zenon
  <1> HIDE DEF b
  <1>3. \A i \in 1..Len(b) : m + i - 1 \in m..n /\ m + i - 1 \in 1..Len(s)
    BY <1>2
  <1>4. m <= n => b # <<>> /\ b[1] = s[m]
    <2> SUFFICES ASSUME m <= n PROVE b # <<>> /\ b[1] = s[m]
      OBVIOUS
    <2>1. 1 \in 1..Len(b) /\ m + 1 - 1 = m
      BY <1>2
    <2> QED
      BY <1>2, <2>1
  <1> QED
    BY <1>2, <1>3, <1>4 DEF b

\* parse() gives parts without the delimiters that end them.
LEMMA ParseGives ==
  ASSUME NEW t \in Seq(Word), IsUrl(t)
  PROVE  /\ IsParsed(Parse(t))
         /\ \E s, h, p, a, q : Parse(t) = [scheme |-> s, host |-> h, port |-> p, path |-> a, query |-> q]
  <1> DEFINE e == SchemeEnd(t)
             scheme == Lower(Before(t, e))
             end == First(t, {"/", "?", "#"}, e + 3)
             authority == SubSeq(t, e + 3, end - 1)
             colon == First(authority, {":"}, 1)
             name == Lower(Before(authority, colon))
             port == IF colon < Len(authority) /\ authority[colon + 1] \in DOMAIN NumberOf
                       THEN authority[colon + 1] ELSE NoPort
             rest == From(t, end)
             pathEnd == IF StartsWith(rest, {"/"}) THEN First(rest, {"?", "#"}, 1) ELSE 1
             after == From(rest, pathEnd)
             path == IF StartsWith(rest, {"/"}) THEN Before(rest, pathEnd) ELSE <<"/">>
             query == IF StartsWith(after, {"?"}) THEN SubSeq(after, 2, First(after, {"#"}, 1) - 1)
                                                  ELSE <<>>
  <1>1. Parse(t) = [scheme |-> scheme, host |-> name, port |-> port, path |-> path, query |-> query]
    BY Zenon DEF Parse
  <1>2. e # 0 /\ scheme \in Schemes
    BY Zenon DEF IsUrl
  <1>3. e \in 1..Len(t) /\ e + 2 <= Len(t)
    BY <1>2, SchemeEndSays DEF SeparatorAt
  <1> HIDE DEF e
  <1>4. scheme[1] \notin DOMAIN LowerOf
    <2> DEFINE b == Before(t, e)
    <2>1. e - 1 \in 0..Len(t)
      BY <1>3
    <2>2. b \in Seq(Word)
      BY <2>1, CutSays, Zenon DEF Before
    <2> HIDE DEF b
    <2>3. Len(Lower(b)) = Len(b) /\ \A i \in 1..Len(b) : Lower(b)[i] \notin DOMAIN LowerOf
      BY <2>2, LowerSays
    <2>4. Len(Lower(b)) = 1
      BY <1>2, SchemesSay DEF b
    <2>5. 1 \in 1..Len(b)
      BY <2>3, <2>4
    <2> QED
      BY <2>3, <2>5 DEF b
  <1> HIDE DEF scheme
  <1>5. end \in e + 3..Len(t) + 1 /\ (\A i \in e + 3..end - 1 : t[i] \notin {"/", "?", "#"})
        /\ (end <= Len(t) => t[end] \in {"/", "?", "#"})
    <2>1. e + 3 \in 1..Len(t) + 1
      BY <1>3
    <2> QED
      BY <2>1, FirstSays, Zenon
  <1> HIDE DEF end
  <1>6. authority \in Seq(Word) /\ \A i \in 1..Len(authority) : authority[i] \notin {"/", "?", "#"}
    <2>1. e + 3 \in 1..Len(t) + 1 /\ end - 1 \in 0..Len(t)
      BY <1>3, <1>5
    <2>2. /\ authority \in Seq(Word)
          /\ \A i \in 1..Len(authority) : /\ e + 3 + i - 1 \in e + 3..end - 1
                                          /\ authority[i] = t[e + 3 + i - 1]
      BY <2>1, PartFrom, Zenon
    <2> HIDE DEF authority
    <2> QED
      BY <1>5, <2>2, Zenon
  <1> HIDE DEF authority
  <1>7. colon \in 1..Len(authority) + 1 /\ \A i \in 1..colon - 1 : authority[i] \notin {":"}
    <2>1. 1 \in 1..Len(authority) + 1
      BY <1>6
    <2> QED
      BY <1>6, <2>1, FirstSays, Zenon
  <1> HIDE DEF colon
  <1>8. /\ name \in Seq(Word)
        /\ \A i \in 1..Len(name) : name[i] \notin {"/", "?", "#", ":"} \cup DOMAIN LowerOf
    <2> DEFINE b == Before(authority, colon)
    <2>1. colon - 1 \in 0..Len(authority)
      BY <1>6, <1>7
    <2>2. b \in Seq(Word) /\ Len(b) = colon - 1 /\ \A i \in 1..colon - 1 : b[i] = authority[i]
      BY <1>6, <2>1, CutSays, Zenon DEF Before
    <2> HIDE DEF b
    <2>3. \A i \in 1..Len(b) : b[i] # "/" /\ b[i] # "?" /\ b[i] # "#" /\ b[i] # ":"
      BY <1>6, <1>7, <2>2
    <2>4. {"/", "?", "#", ":"} \subseteq Delimiter
      BY DEF Delimiter
    <2>5. /\ Lower(b) \in Seq(Word) /\ Len(Lower(b)) = Len(b)
          /\ \A i \in 1..Len(b) : Lower(b)[i] \notin DOMAIN LowerOf
          /\ \A i \in 1..Len(b), d \in Delimiter : Lower(b)[i] = d <=> b[i] = d
      BY <2>2, LowerSays
    <2>6. name = Lower(b)
      BY DEF b
    <2> HIDE DEF name
    <2> QED
      BY <2>3, <2>4, <2>5, <2>6
  <1>9. port \in {NoPort} \cup DOMAIN NumberOf
    OBVIOUS
  <1> HIDE DEF name, port
  <1>10. rest \in Seq(Word)
    <2>1. end \in 1..Len(t) + 1 /\ Len(t) \in 0..Len(t)
      BY <1>3, <1>5
    <2> QED
      BY <2>1, PartFrom, Zenon DEF From
  <1> HIDE DEF rest
  <1>11. pathEnd \in 1..Len(rest) + 1 /\ 
         (StartsWith(rest, {"/"}) => \A i \in 1..pathEnd - 1 : rest[i] \notin {"?", "#"})
    <2>1. 1 \in 1..Len(rest) + 1
      BY <1>10
    <2>2. /\ First(rest, {"?", "#"}, 1) \in 1..Len(rest) + 1
          /\ \A i \in 1..First(rest, {"?", "#"}, 1) - 1 : rest[i] \notin {"?", "#"}
      BY <1>10, <2>1, FirstSays, Zenon
    <2> QED
      BY <2>1, <2>2
  <1>12. StartsWith(rest, {"/"}) => pathEnd # 1 /\ rest[1] = "/"
    <2>1. 1 \in 1..Len(rest) + 1
      BY <1>10
    <2>2. First(rest, {"?", "#"}, 1) <= Len(rest) => rest[First(rest, {"?", "#"}, 1)] \in {"?", "#"}
      BY <1>10, <2>1, FirstSays, Zenon
    <2>3. StartsWith(rest, {"/"}) => 1 <= Len(rest) /\ rest[1] = "/"
      BY <1>10 DEF StartsWith
    <2> QED
      BY <2>2, <2>3
  <1> HIDE DEF pathEnd
  <1>13. /\ path \in Seq(Word) /\ path # <<>> /\ path[1] = "/"
         /\ \A i \in 1..Len(path) : path[i] \notin {"?", "#"}
    <2>1. CASE StartsWith(rest, {"/"})
      <3> DEFINE b == Before(rest, pathEnd)
      <3>1. pathEnd - 1 \in 0..Len(rest) /\ pathEnd - 1 # 0
        BY <1>10, <1>11, <1>12, <2>1
      <3>2. b \in Seq(Word) /\ Len(b) = pathEnd - 1 /\ \A i \in 1..pathEnd - 1 : b[i] = rest[i]
        BY <1>10, <3>1, CutSays, Zenon DEF Before
      <3>3. path = b
        BY <2>1
      <3> HIDE DEF b, path
      <3> QED
        BY <1>11, <1>12, <2>1, <3>1, <3>2, <3>3
    <2>2. CASE ~StartsWith(rest, {"/"})
      <3>1. "/" \in Word
        BY UrlsAssumption DEF Delimiter
      <3>2. path = <<"/">>
        BY <2>2
      <3> HIDE DEF path
      <3> QED
        BY <3>1, <3>2
    <2> QED
      BY <2>1, <2>2
  <1> HIDE DEF path
  <1>14. after \in Seq(Word)
    <2>1. Len(rest) \in 0..Len(rest)
      BY <1>10
    <2> QED
      BY <1>10, <1>11, <2>1, PartFrom, Zenon DEF From
  <1> HIDE DEF after
  <1>15. query \in Seq(Word) /\ \A i \in 1..Len(query) : query[i] # "#"
    <2>1. CASE StartsWith(after, {"?"})
      <3> DEFINE n == First(after, {"#"}, 1)
                 b == SubSeq(after, 2, n - 1)
      <3>1. 1 \in 1..Len(after) + 1 /\ 2 \in 1..Len(after) + 1
        BY <1>14, <2>1 DEF StartsWith
      <3>2. n \in 1..Len(after) + 1 /\ \A i \in 1..n - 1 : after[i] \notin {"#"}
        BY <1>14, <3>1, FirstSays, Zenon
      <3> HIDE DEF n
      <3>3. n - 1 \in 0..Len(after)
        BY <1>14, <3>2
      <3>4. /\ b \in Seq(Word)
            /\ \A i \in 1..Len(b) : 2 + i - 1 \in 2..n - 1 /\ b[i] = after[2 + i - 1]
        BY <1>14, <3>1, <3>3, PartFrom, Zenon
      <3>5. query = b
        BY <2>1 DEF n
      <3> HIDE DEF b, query
      <3>6. ASSUME NEW i \in 1..Len(b) PROVE b[i] # "#"
        <4>1. 2 + i - 1 \in 1..n - 1
          BY <3>4
        <4> QED
          BY <3>2, <3>4, <4>1, Zenon
      <3> QED
        BY <3>4, <3>5, <3>6
    <2>2. CASE ~StartsWith(after, {"?"})
      <3>1. query = <<>>
        BY <2>2
      <3> HIDE DEF query
      <3> QED
        BY <3>1
    <2> QED
      BY <2>1, <2>2
  <1> HIDE DEF query
  <1>16. IsParsed(Parse(t))
    BY <1>1, <1>2, <1>4, <1>8, <1>9, <1>13, <1>15 DEF IsParsed
  <1> QED
    BY <1>1, <1>16

\* The resource that is built from parts.
Built(c) ==
  LET default == DefaultPort[c.scheme[1]]
  IN [scheme |-> c.scheme, host |-> c.host,
      port |-> IF c.port \in {NoPort, default} THEN default ELSE c.port, path |-> c.path,
      query |-> IF c.query = <<>> THEN <<>> ELSE <<"?">> \o c.query]

\* What the single-threaded frontier builds is plain, has the parts that it was built
\* from, and a decoded path.
LEMMA BuildGives ==
  ASSUME NEW c, IsParsed(c), \A i \in 1..Len(c.path) : c.path[i] \notin DOMAIN Decoded
  PROVE  /\ IsPlain(Build(c))
         /\ Resource(Build(c)) = Built(c)
         /\ [Resource(Build(c)) EXCEPT !.path = DecodeUnreserved(@)] = Resource(Build(c))
  <1> DEFINE s == c.scheme
             d == DefaultPort[s[1]]
             p == IF c.port \in {NoPort, d} THEN <<>> ELSE <<":", c.port>>
             q == IF c.query = <<>> THEN <<>> ELSE <<"?">> \o c.query
             host == c.host \o p
             rest == c.path \o q
  <1>1. /\ s \in Schemes /\ s[1] \notin DOMAIN LowerOf /\ c.host \in Seq(Word)
        /\ c.path \in Seq(Word) /\ c.path # <<>> /\ c.path[1] = "/" /\ c.query \in Seq(Word)
    BY DEF IsParsed
  <1>2. /\ p \in Seq(Word)
        /\ \/ p = <<>> /\ c.port \in {NoPort, d}
           \/ /\ Len(p) = 2 /\ p[1] = ":" /\ p[2] \in DOMAIN NumberOf /\ p[2] # d
              /\ p[2] = c.port /\ c.port \notin {NoPort, d}
    <2>1. c.port \in {NoPort, d} \/ c.port \in DOMAIN NumberOf
      BY DEF IsParsed
    <2>2. ":" \in Word /\ DOMAIN NumberOf \subseteq Word
      BY UrlsAssumption DEF Delimiter
    <2>3. CASE c.port \in {NoPort, d}
      <3>1. p = <<>>
        BY <2>3
      <3> HIDE DEF p
      <3> QED
        BY <2>3, <3>1
    <2>4. CASE ~(c.port \in {NoPort, d})
      <3>1. p = <<":", c.port>> /\ c.port \in DOMAIN NumberOf /\ c.port # d
        BY <2>1, <2>4
      <3> HIDE DEF p
      <3> QED
        BY <2>2, <2>4, <3>1
    <2> HIDE DEF p, d
    <2> QED
      BY <2>3, <2>4
  <1>3. /\ q \in Seq(Word) /\ (q # <<>> => q[1] = "?") /\ \A i \in 1..Len(q) : q[i] # "#"
    <2>1. <<"?">> \in Seq(Word) /\ Len(<<"?">>) = 1
      BY WordsSay
    <2>2. CASE c.query = <<>>
      <3>1. q = <<>>
        BY <2>2
      <3> HIDE DEF q
      <3> QED
        BY <3>1
    <2>3. CASE c.query # <<>>
      <3> DEFINE k == <<"?">>
                 b == k \o c.query
      <3>1. q = b
        BY <2>3
      <3>2. k[1] = "?" /\ k \in Seq(Word) /\ Len(k) = 1
        BY <2>1
      <3> HIDE DEF k
      <3>3. /\ b \in Seq(Word) /\ Len(b) = Len(k) + Len(c.query)
            /\ \A i \in 1..Len(k) : b[i] = k[i]
            /\ \A i \in 1..Len(c.query) : b[Len(k) + i] = c.query[i]
        BY <1>1, <3>2, CatSays, Zenon
      <3> HIDE DEF b, q
      <3>4. b[1] = "?"
        BY <3>2, <3>3
      <3>5. ASSUME NEW i \in 1..Len(b) PROVE b[i] # "#"
        <4>1. CASE i = 1
          BY <3>4, <4>1
        <4>2. CASE i # 1
          <5>1. i - 1 \in 1..Len(c.query) /\ i = 1 + (i - 1)
            BY <1>1, <3>2, <3>3, <4>2
          <5>2. b[i] = c.query[i - 1]
            BY <3>2, <3>3, <5>1
          <5> QED
            BY <5>1, <5>2 DEF IsParsed
        <4> QED
          BY <4>1, <4>2
      <3> QED
        BY <3>1, <3>3, <3>4, <3>5
    <2> QED
      BY <2>2, <2>3
  <1>4. Build(c) = Whole(s, host, rest)
    <2>1. Build(c) = s \o Separator \o c.host \o p \o c.path \o q
      BY Zenon DEF Build
    <2>2. s \o Separator \in Seq(Word)
      BY <1>1, SchemesSay, CatSays, Zenon
    <2> DEFINE x == s \o Separator
    <2> HIDE DEF x
    <2>3. x \o c.host \o p \o c.path \o q = x \o (c.host \o p) \o (c.path \o q)
      <3> HIDE DEF p, q
      <3> QED
        <4> DEFINE h == c.host
                   a == c.path
        <4>1. h \in Seq(Word) /\ p \in Seq(Word) /\ a \in Seq(Word) /\ q \in Seq(Word) /\ x \in Seq(Word)
          BY <1>1, <1>2, <1>3, <2>2 DEF x
        <4> HIDE DEF h, a
        <4>2. x \o h \o p \o a \o q = x \o (h \o p) \o (a \o q)
          BY <4>1, SMTT(60)
        <4> QED
          BY <4>2 DEF h, a
    <2> QED
      BY <2>1, <2>3, Zenon DEF x, Whole
  <1> HIDE DEF p, q
  <1>5. /\ host \in Seq(Word) /\ Len(host) = Len(c.host) + Len(p)
        /\ \A i \in 1..Len(c.host) : host[i] = c.host[i]
        /\ \A i \in 1..Len(p) : host[Len(c.host) + i] = p[i]
    BY <1>1, <1>2, CatSays, Zenon
  <1>6. /\ rest \in Seq(Word) /\ Len(rest) = Len(c.path) + Len(q)
        /\ \A i \in 1..Len(c.path) : rest[i] = c.path[i]
        /\ \A i \in 1..Len(q) : rest[Len(c.path) + i] = q[i]
    BY <1>1, <1>3, CatSays, Zenon
  <1> HIDE DEF host, rest
  <1> DEFINE m == Len(c.host)
             n == Len(c.path)
  <1>a. m \in Nat /\ n \in Nat /\ Len(host) = m + Len(p) /\ Len(rest) = n + Len(q)
        /\ (\A i \in 1..m : host[i] = c.host[i]) /\ (\A i \in 1..Len(p) : host[m + i] = p[i])
        /\ (\A i \in 1..n : rest[i] = c.path[i]) /\ (\A i \in 1..Len(q) : rest[n + i] = q[i])
    BY <1>1, <1>5, <1>6
  <1>b. Len(p) \in {0, 2} /\ (p = <<>> <=> Len(p) = 0) /\ Len(q) \in Nat /\ (q = <<>> <=> Len(q) = 0)
    BY <1>2, <1>3
  <1>c. n # 0
    BY <1>1
  <1>d. \A i \in 1..m : c.host[i] \notin {"/", "?", "#", ":"} \cup DOMAIN LowerOf
    BY DEF IsParsed
  <1>e. \A i \in 1..n : c.path[i] \notin {"?", "#"}
    BY DEF IsParsed
  <1>f. m \in Nat /\ n \in Nat /\ Len(host) = m + Len(p) /\ Len(rest) = n + Len(q)
    BY <1>a
  <1> HIDE DEF m, n
  <1>7. ASSUME NEW i \in 1..Len(host) PROVE host[i] \notin {"/", "#", "?"} \cup DOMAIN LowerOf
    <2>1. CASE i \in 1..m
      BY <1>a, <1>d, <2>1
    <2>2. CASE i \notin 1..m
      <3>1. i - m \in 1..Len(p) /\ i = m + (i - m) /\ Len(p) = 2
        BY <1>a, <1>b, <2>2
      <3>2. host[i] = p[i - m] /\ (i - m = 1 \/ i - m = 2)
        BY <1>a, <3>1
      <3>3. host[i] = ":" \/ host[i] \in DOMAIN NumberOf
        BY <1>2, <1>b, <3>1, <3>2
      <3>4. /\ \A w \in DOMAIN NumberOf : w \notin Delimiter /\ w \notin DOMAIN LowerOf
            /\ ":" \notin DOMAIN LowerOf /\ {"/", "#", "?", ":"} \subseteq Delimiter
        BY UrlsAssumption DEF Delimiter
      <3>5. ":" \notin {"/", "#", "?"}
        OBVIOUS
      <3> QED
        BY <3>3, <3>4, <3>5
    <2> QED
      BY <2>1, <2>2
  <1>8. ASSUME NEW i \in 1..Len(rest) PROVE rest[i] # "#"
    <2>1. CASE i \in 1..n
      BY <1>a, <1>e, <2>1
    <2>2. CASE i \notin 1..n
      <3>1. i - n \in 1..Len(q) /\ i = n + (i - n)
        BY <1>a, <1>b, <2>2
      <3>2. rest[i] = q[i - n]
        BY <1>a, <3>1
      <3>3. q[i - n] # "#"
        BY <1>3, <3>1
      <3> QED
        BY <3>2, <3>3
    <2> QED
      BY <2>1, <2>2
  <1>9. rest # <<>> /\ rest[1] = "/"
    <2>1. 1 \in 1..n /\ Len(rest) # 0
      BY <1>a, <1>b, <1>c
    <2> QED
      BY <1>1, <1>a, <2>1
  <1>10. IsForm(s, host, rest)
    BY <1>1, <1>5, <1>6, <1>7, <1>8, <1>9 DEF IsForm
  <1>g. First(host, {":"}, 1) = m + 1
    <2> DEFINE k == m + 1
    <2>1. 1 \in 1..Len(host) + 1 /\ host \in Seq(Word)
      BY <1>5
    <2>2. k \in 1..Len(host) + 1
      BY <1>a, <1>b
    <2>3. \A i \in 1..k - 1 : host[i] \notin {":"}
      <3>1. \A i \in 1..m : c.host[i] # ":"
        BY <1>d
      <3>2. k - 1 = m
        BY <1>f
      <3> QED
        BY <1>a, <3>1, <3>2
    <2>4. k <= Len(host) => host[k] \in {":"}
      <3> SUFFICES ASSUME k <= Len(host) PROVE host[k] = ":"
        OBVIOUS
      <3>1. Len(p) # 0
        BY <1>f, <1>b
      <3>2. p[1] = ":" /\ 1 \in 1..Len(p)
        BY <1>2, <1>b, <3>1
      <3> QED
        BY <1>a, <3>2
    <2> HIDE DEF k
    <2>5. First(host, {":"}, 1) = k
      BY <2>1, <2>2, <2>3, <2>4, FirstIs, Zenon
    <2> QED
      BY <2>5 DEF k
  <1>11. PlainPort(s, host)
    <2> DEFINE colon == First(host, {":"}, 1)
    <2>3. colon = m + 1
      BY <1>g
    <2> HIDE DEF colon
    <2>4. colon <= Len(host) => colon + 1 = Len(host) /\ host[Len(host)] # d
      <3> SUFFICES ASSUME colon <= Len(host) PROVE colon + 1 = Len(host) /\ host[Len(host)] # d
        OBVIOUS
      <3>1. m + 1 <= m + Len(p) /\ m \in Nat /\ Len(p) \in {0, 2}
        BY <1>f, <1>b, <2>3
      <3>a. Len(p) = 2 /\ Len(host) = m + 2 /\ 2 \in 1..2
        <4> DEFINE l == Len(p)
        <4>1. m + 1 <= m + l /\ m \in Nat /\ l \in {0, 2} /\ Len(host) = m + l
          BY <3>1, <1>f
        <4> HIDE DEF l
        <4>2. l = 2 /\ Len(host) = m + 2
          BY <4>1
        <4> QED
          BY <4>2 DEF l
      <3>2. host[m + 2] = p[2]
        BY <1>a, <3>a
      <3> QED
        BY <1>2, <1>b, <2>3, <1>f, <3>a, <3>2
    <2> QED
      BY <2>4, Zenon DEF PlainPort, colon
  <1>12. IsPlain(Build(c))
    BY <1>4, <1>7, <1>10, <1>11 DEF IsPlain
  <1>13. Resource(Build(c)) = Located(s, host, rest)
    BY <1>4, <1>7, <1>10, ResourceSays
  <1>h. First(rest, {"?"}, 1) = n + 1
    <2> DEFINE k == n + 1
    <2>1. 1 \in 1..Len(rest) + 1 /\ k \in 1..Len(rest) + 1
      BY <1>a, <1>b
    <2>2. \A i \in 1..k - 1 : rest[i] \notin {"?"}
      BY <1>a, <1>e
    <2>3. k <= Len(rest) => rest[k] \in {"?"}
      <3> SUFFICES ASSUME k <= Len(rest) PROVE rest[k] = "?"
        OBVIOUS
      <3>1. q # <<>> /\ 1 \in 1..Len(q)
        BY <1>a, <1>b
      <3> QED
        BY <1>3, <1>a, <3>1
    <2> HIDE DEF k
    <2>4. First(rest, {"?"}, 1) = k
      BY <1>6, <2>1, <2>2, <2>3, FirstIs, Zenon
    <2> QED
      BY <2>4 DEF k
  <1> DEFINE colon == First(host, {":"}, 1)
             question == First(rest, {"?"}, 1)
  <1>14. Before(rest, question) = c.path
    <2> DEFINE b == Before(rest, question)
    <2>1. question = n + 1
      BY <1>h
    <2> HIDE DEF question
    <2>2. question - 1 = Len(c.path) /\ Len(c.path) \in 0..Len(rest)
      BY <1>1, <1>3, <1>6, <2>1 DEF n
    <2>3. b \in Seq(Word) /\ Len(b) = Len(c.path) /\ \A i \in 1..Len(c.path) : b[i] = rest[i]
      BY <1>6, <2>2, CutSays, Zenon DEF Before
    <2> HIDE DEF b
    <2>4. b = c.path
      BY <1>1, <1>6, <2>3, SeqEqual
    <2> QED
      BY <2>4, Zenon DEF b
  <1>15. DecodeUnreserved(c.path) = c.path
    BY <1>1, DecodeSays
  <1>16. From(rest, question) = q
    <2> DEFINE b == From(rest, question)
    <2>1. question = n + 1
      BY <1>h
    <2> HIDE DEF question
    <2>2. question \in 1..Len(rest) + 1 /\ Len(rest) \in (question - 1)..Len(rest)
          /\ Len(rest) - question + 1 = Len(q)
      BY <1>6, <1>a, <1>b, <2>1
    <2>3. b \in Seq(Word) /\ Len(b) = Len(rest) - question + 1
          /\ \A i \in 1..Len(rest) - question + 1 : b[i] = rest[question + i - 1]
      BY <1>6, <2>2, PartAt, Zenon DEF From
    <2> HIDE DEF b
    <2>4. Len(b) = Len(q) /\ \A i \in 1..Len(q) : b[i] = rest[question + i - 1]
      BY <2>2, <2>3
    <2>5. \A i \in 1..Len(q) : question + i - 1 = n + i
      BY <1>a, <2>1
    <2>6. \A i \in 1..Len(q) : b[i] = q[i]
      BY <1>a, <2>4, <2>5
    <2>7. b = q
      BY <1>3, <2>3, <2>4, <2>6, SeqEqual
    <2> QED
      BY <2>7, Zenon DEF b
  <1>17. Lower(Before(host, colon)) = c.host
    <2> DEFINE b == Before(host, colon)
    <2>1. colon = m + 1
      BY <1>g
    <2> HIDE DEF colon
    <2>2. colon - 1 = Len(c.host) /\ Len(c.host) \in 0..Len(host)
      BY <1>1, <1>a, <1>b, <1>5, <2>1 DEF m
    <2>3. b \in Seq(Word) /\ Len(b) = Len(c.host) /\ \A i \in 1..Len(c.host) : b[i] = host[i]
      BY <1>5, <2>2, CutSays, Zenon DEF Before
    <2> HIDE DEF b
    <2>4. b = c.host
      <3>1. \A i \in 1..Len(c.host) : b[i] = c.host[i]
        BY <1>5, <2>3
      <3> QED
        BY <1>1, <2>3, <3>1, SeqEqual
    <2>5. \A i \in 1..Len(c.host) : c.host[i] \notin DOMAIN LowerOf
      <3>1. m = Len(c.host)
        BY DEF m
      <3> QED
        BY <1>d, <3>1
    <2>6. Lower(c.host) = c.host
      BY <1>1, <2>5, LowerSays
    <2> QED
      BY <2>4, <2>6, Zenon DEF b
  <1> DEFINE port == IF c.port \in {NoPort, d} THEN d ELSE c.port
  <1>18. (IF colon < Len(host) THEN host[colon + 1] ELSE d) = port
    <2>1. colon = m + 1
      BY <1>g
    <2> HIDE DEF colon
    <2>2. CASE p = <<>> /\ c.port \in {NoPort, d}
      <3>1. ~(colon < Len(host))
        BY <1>a, <1>b, <2>1, <2>2
      <3> QED
        BY <2>2, <3>1
    <2>3. CASE Len(p) = 2 /\ p[2] = c.port /\ c.port \notin {NoPort, d}
      <3>1. colon < Len(host) /\ colon + 1 = m + 2 /\ 2 \in 1..Len(p)
        BY <1>a, <2>1, <2>3
      <3>2. host[m + 2] = p[2]
        BY <1>a, <3>1
      <3> QED
        BY <2>3, <3>1, <3>2
    <2> QED
      BY <1>2, <2>2, <2>3
  <1>19. Located(s, host, rest) =
           [scheme |-> s, host |-> c.host, port |-> port, path |-> c.path, query |-> q]
    <2> DEFINE path == Before(rest, question)
    <2>1. Located(s, host, rest) =
            [scheme |-> s, host |-> Lower(Before(host, colon)),
             port |-> IF colon < Len(host) THEN host[colon + 1] ELSE d,
             path |-> IF path = <<>> THEN <<"/">> ELSE path, query |-> From(rest, question)]
      BY Zenon DEF Located
    <2>2. (IF path = <<>> THEN <<"/">> ELSE path) = c.path
      BY <1>1, <1>14
    <2> HIDE DEF colon, question, path, port
    <2> QED
      BY <1>16, <1>17, <1>18, <2>1, <2>2
  <1>20. Resource(Build(c)) = Built(c)
    <2>1. Built(c) = [scheme |-> s, host |-> c.host, port |-> port, path |-> c.path, query |-> q]
      BY Zenon DEF Built, q
    <2> QED
      BY <1>13, <1>19, <2>1, Zenon
  <1>21. [Located(s, host, rest) EXCEPT !.path = DecodeUnreserved(@)] = Located(s, host, rest)
    <2> HIDE DEF port, colon, question
    <2> QED
      BY <1>15, <1>19
  <1> QED
    BY <1>12, <1>13, <1>20, <1>21

\* What the single-threaded frontier makes of a URL, if it is one, is plain, and its
\* path is decoded.
LEMMA NormalST ==
  ASSUME NEW t \in Seq(Word), NormalizeST(t) # NoUrl
  PROVE  LET u == NormalizeST(t)
         IN IsPlain(u) /\ [Resource(u) EXCEPT !.path = DecodeUnreserved(@)] = Resource(u)
  <1> DEFINE c == [Parse(t) EXCEPT !.path = DecodeUnreserved(@)]
  <1>1. IsUrl(t) /\ NormalizeST(t) = Build(c)
    BY Zenon DEF NormalizeST
  <1>2. PICK s, h, p, a, q : Parse(t) = [scheme |-> s, host |-> h, port |-> p, path |-> a, query |-> q]
    BY <1>1, ParseGives, Zenon
  <1>3. IsParsed(Parse(t))
    BY <1>1, ParseGives, Zenon
  <1>4. c = [scheme |-> s, host |-> h, port |-> p, path |-> DecodeUnreserved(a), query |-> q]
    BY <1>2
  <1>5. a \in Seq(Word) /\ a # <<>> /\ a[1] = "/" /\ \A i \in 1..Len(a) : a[i] # "?" /\ a[i] # "#"
    BY <1>2, <1>3 DEF IsParsed
  <1>6. /\ DecodeUnreserved(a) \in Seq(Word) /\ Len(DecodeUnreserved(a)) = Len(a)
        /\ \A i \in 1..Len(a) : DecodeUnreserved(a)[i] \notin DOMAIN Decoded
        /\ \A i \in 1..Len(a), d \in Delimiter : DecodeUnreserved(a)[i] = d <=> a[i] = d
    BY <1>5, DecodeSays
  <1>7. {"/", "?", "#"} \subseteq Delimiter
    BY DEF Delimiter
  <1>8. /\ DecodeUnreserved(a) # <<>> /\ DecodeUnreserved(a)[1] = "/"
        /\ \A i \in 1..Len(a) : DecodeUnreserved(a)[i] \notin {"?", "#"}
    <2>1. 1 \in 1..Len(a)
      BY <1>5
    <2> QED
      BY <1>5, <1>6, <1>7, <2>1
  <1> HIDE DEF c
  <1>9. IsParsed(c)
    BY <1>2, <1>3, <1>4, <1>6, <1>8 DEF IsParsed
  <1>10. \A i \in 1..Len(c.path) : c.path[i] \notin DOMAIN Decoded
    BY <1>4, <1>6
  <1>11. IsPlain(Build(c)) /\ [Resource(Build(c)) EXCEPT !.path = DecodeUnreserved(@)] = Resource(Build(c))
    BY <1>9, <1>10, BuildGives, Zenon
  <1> QED
    BY <1>1, <1>11, Zenon

-----------------------------------------------------------------------------
(* The links of a page.                                                    *)

\* A function that puts more and more of the sequences together.
Joins(f, s, A) ==
  \A i \in 1..Len(s) : f[i] = (IF i = 1 THEN s[i] ELSE f[i - 1] \o s[i]) /\ f[i] \in Seq(A)

\* Sequences are put together one after the other.
LEMMA FlattenSteps ==
  ASSUME NEW A, NEW s \in Seq(Seq(A)), s # <<>>
  PROVE  \E f : FlattenSeq(s) = f[Len(s)] /\ Joins(f, s, A)
  <1>0. Len(s) # 0
    OBVIOUS
  <1> DEFINE N == Len(s)
             Is(f) == f = [i \in 1..N |-> IF i = 1 THEN s[i] ELSE f[i - 1] \o s[i]]
             flatten == CHOOSE f : Is(f)
  <1>1. FlattenSeq(s) = flatten[N]
    BY <1>0, Zenon DEF FlattenSeq
  <1>2. N \in Nat \ {0} /\ \A i \in 1..N : s[i] \in Seq(A)
    OBVIOUS
  <1>3. \E f : Is(f)
    <2> DEFINE D == Seq(A)
               step == [p \in D \X (1..N) |-> IF p[2] = 1 THEN s[p[2]] ELSE p[1] \o s[p[2]]]
    <2>1. <<>> \in D /\ IsStep(step, N, D)
      <3>1. \A p \in D \X (1..N) : (IF p[2] = 1 THEN s[p[2]] ELSE p[1] \o s[p[2]]) \in D
        BY <1>2
      <3> QED
        BY <3>1 DEF IsStep
    <2>2. PICK g : Recurs(g, N, D, <<>>, step)
      <3> HIDE DEF step, D
      <3>1. N \in Nat
        BY <1>2
      <3> HIDE DEF N
      <3> QED
        BY <2>1, <3>1, RecursionExists
    <2> DEFINE f == [i \in 1..N |-> g[i]]
    <2>3. ASSUME NEW i \in 1..N PROVE f[i] = IF i = 1 THEN s[i] ELSE f[i - 1] \o s[i]
      <3>1. g[i] = step[<<g[i - 1], i>>] /\ g[i - 1] \in D
        <4>1. i - 1 \in 0..N
          BY <1>2
        <4> QED
          BY <2>2, <4>1 DEF Recurs
      <3>2. g[i] = IF i = 1 THEN s[i] ELSE g[i - 1] \o s[i]
        BY <3>1
      <3>3. i # 1 => i - 1 \in 1..N
        BY <1>2
      <3> HIDE DEF step, D
      <3> QED
        BY <3>2, <3>3
    <2>4. Is(f)
      <3> HIDE DEF N
      <3>1. f = [i \in 1..N |-> f[i]]
        OBVIOUS
      <3> HIDE DEF f
      <3> QED
        BY <2>3, <3>1, Zenon
    <2> QED
      BY <2>4
  <1>4. Is(flatten)
    <2> HIDE DEF Is
    <2> QED
      BY <1>3
  <1>5. \A i \in 1..N : flatten[i] = IF i = 1 THEN s[i] ELSE flatten[i - 1] \o s[i]
    <2> HIDE DEF flatten, N
    <2> QED
      BY <1>4
  <1> HIDE DEF flatten, Is
  <1> DEFINE Z == {i \in Nat : i \in 1..N => flatten[i] \in Seq(A)}
  <1>6. 0 \in Z
    OBVIOUS
  <1>7. ASSUME NEW i \in Nat, i \in Z PROVE i + 1 \in Z
    <2> SUFFICES ASSUME i + 1 \in 1..N PROVE flatten[i + 1] \in Seq(A)
      OBVIOUS
    <2>1. CASE i = 0
      BY <1>2, <1>5, <2>1
    <2>2. CASE i # 0
      <3>1. i \in 1..N /\ i + 1 # 1 /\ i + 1 - 1 = i
        BY <1>2, <2>2
      <3>2. flatten[i] \in Seq(A) /\ s[i + 1] \in Seq(A)
        BY <1>2, <1>7, <3>1
      <3> DEFINE j == i + 1
      <3>5. flatten[j] = IF j = 1 THEN s[j] ELSE flatten[j - 1] \o s[j]
        <4>1. j \in 1..N
          BY <1>7
        <4> HIDE DEF j, N
        <4> QED
          BY <1>5, <4>1, Zenon
      <3>6. flatten[j] = flatten[j - 1] \o s[j]
        <4>1. j # 1
          BY <3>1
        <4> HIDE DEF j
        <4> QED
          BY <4>1, <3>5, Zenon
      <3>7. j - 1 = i
        BY <3>1
      <3>3. flatten[i + 1] = flatten[i] \o s[i + 1]
        <4>1. flatten[j - 1] = flatten[i]
          BY <3>7
        <4> QED
          BY <3>6, <4>1, Zenon
      <3>4. \A x, y \in Seq(A) : x \o y \in Seq(A)
        OBVIOUS
      <3> QED
        BY <3>2, <3>3, <3>4, Zenon
    <2> QED
      BY <2>1, <2>2
  <1> HIDE DEF Z
  <1>8. Nat \subseteq Z
    BY <1>6, <1>7, NatSetInduction
  <1>9. \A i \in 1..N : i \in Z
    BY <1>2, <1>8
  <1>10. \A i \in 1..N : flatten[i] \in Seq(A)
    BY <1>9 DEF Z
  <1> QED
    BY <1>1, <1>5, <1>10, Zenon DEF Joins

\* Sequences put together are one.
LEMMA FlattenTyped ==
  ASSUME NEW A, NEW s \in Seq(Seq(A))
  PROVE  FlattenSeq(s) \in Seq(A)
  <1>1. CASE s = <<>>
    BY <1>1 DEF FlattenSeq
  <1>2. CASE s # <<>>
    <2>1. PICK f : FlattenSeq(s) = f[Len(s)] /\ Joins(f, s, A)
      BY <1>2, FlattenSteps, Zenon
    <2>2. Len(s) \in 1..Len(s)
      BY <1>2
    <2> QED
      BY <2>1, <2>2, Zenon DEF Joins
  <1> QED
    BY <1>1, <1>2

\* Of sequences that are put together nothing is lost.
LEMMA CatHas ==
  ASSUME NEW A, NEW x \in Seq(A), NEW y \in Seq(A)
  PROVE  ToSet(x) \subseteq ToSet(x \o y) /\ ToSet(y) \subseteq ToSet(x \o y)
  <1> DEFINE z == x \o y
  <1>1. z \in Seq(A) /\ Len(x) \in Nat /\ Len(y) \in Nat /\ Len(z) = Len(x) + Len(y)
    OBVIOUS
  <1>2. \A k \in 1..Len(x) : z[k] = x[k]
    OBVIOUS
  <1>3. \A k \in 1..Len(y) : z[Len(x) + k] = y[k]
    OBVIOUS
  <1>4. \A t \in Seq(A) : DOMAIN t = 1..Len(t)
    OBVIOUS
  <1> HIDE DEF z
  <1>5. ASSUME NEW k \in 1..Len(x) PROVE x[k] \in ToSet(z)
    <2>1. k \in 1..Len(z)
      BY <1>1
    <2> QED
      BY <1>1, <1>2, <1>4, <2>1 DEF ToSet
  <1>6. ASSUME NEW k \in 1..Len(y) PROVE y[k] \in ToSet(z)
    <2> DEFINE l == Len(x) + k
    <2>1. l \in 1..Len(z) /\ z[l] = y[k]
      BY <1>1, <1>3
    <2> HIDE DEF l
    <2> QED
      BY <1>1, <1>4, <2>1 DEF ToSet
  <1> QED
    BY <1>4, <1>5, <1>6 DEF ToSet, z

\* Nothing is lost when sequences are put together.
LEMMA FlattenHas ==
  ASSUME NEW A, NEW s \in Seq(Seq(A)), NEW i \in 1..Len(s)
  PROVE  ToSet(s[i]) \subseteq ToSet(FlattenSeq(s))
  <1> DEFINE N == Len(s)
  <1>1. PICK f : FlattenSeq(s) = f[N] /\ Joins(f, s, A)
    <2>1. s # <<>>
      OBVIOUS
    <2> QED
      BY <2>1, FlattenSteps, Zenon
  <1>2. N \in Nat /\ i \in 1..N /\ \A j \in 1..N : s[j] \in Seq(A)
    OBVIOUS
  <1> HIDE DEF N
  <1> DEFINE Z == {j \in 0..N : i <= j => ToSet(s[i]) \subseteq ToSet(f[j])}
  <1>3. 0 \in Z
    BY <1>2
  <1>4. ASSUME NEW j \in 1..N, j - 1 \in Z PROVE j \in Z
    <2> SUFFICES ASSUME i <= j PROVE ToSet(s[i]) \subseteq ToSet(f[j])
      BY <1>2
    <2>1. f[j] = (IF j = 1 THEN s[j] ELSE f[j - 1] \o s[j]) /\ s[j] \in Seq(A)
      BY <1>1, <1>2 DEF Joins, N
    <2>2. CASE j = 1
      <3>1. i = j
        BY <1>2, <2>2
      <3> QED
        BY <2>1, <2>2, <3>1
    <2>3. CASE j # 1
      <3>1. f[j] = f[j - 1] \o s[j]
        BY <2>1, <2>3
      <3>2. f[j - 1] \in Seq(A)
        <4>1. j - 1 \in 1..N
          BY <1>2, <2>3
        <4> QED
          BY <1>1, <4>1 DEF Joins, N
      <3>3. ToSet(f[j - 1]) \subseteq ToSet(f[j]) /\ ToSet(s[j]) \subseteq ToSet(f[j])
        BY <2>1, <3>1, <3>2, CatHas
      <3>4. i = j \/ i <= j - 1
        BY <1>2
      <3>5. i <= j - 1 => ToSet(s[i]) \subseteq ToSet(f[j - 1])
        BY <1>4
      <3> QED
        BY <3>3, <3>4, <3>5
    <2> QED
      BY <2>2, <2>3
  <1> HIDE DEF Z
  <1>5. 0..N \subseteq Z
    BY <1>2, <1>3, <1>4, UpToInduction
  <1>6. N \in Z
    BY <1>2, <1>5
  <1> QED
    BY <1>1, <1>2, <1>6 DEF Z

\* A function that puts a node's own links before those of its children.
Collects(g, own) ==
  g = [node \in Node |-> own[node] \o FlattenSeq([i \in DOMAIN node.children |-> g[node.children[i]]])]

Links == Seq(Seq(Word))

\* There is one, and it gives links.
LEMMA CollectsLinks ==
  ASSUME NEW own \in [Node -> Links]
  PROVE  /\ \E g : Collects(g, own)
         /\ \A g : Collects(g, own) => \A n \in Node : g[n] \in Links
  <1> DEFINE Below == [n \in Node |-> n.children]
             rule == [p \in Node \X Seq(Links) |-> own[p[1]] \o FlattenSeq(p[2])]
  <1>1. \A n \in Node : n.children \in Seq(Node)
    BY HtmlAssumption
  <1>2. Height \in [Node -> Nat] /\ \A n \in Node : \A i \in DOMAIN n.children : Height[n.children[i]] < Height[n]
    BY HtmlAssumption
  <1>3. \A n \in Node : Len(Below[n]) \in Nat /\ DOMAIN n.children = 1..Len(Below[n]) /\ Below[n] = n.children
    BY <1>1
  <1>4. IsTree(Node, Below, Height)
    <2>1. Below \in [Node -> Seq(Node)]
      BY <1>1
    <2> HIDE DEF Below
    <2> QED
      BY <1>2, <1>3, <2>1 DEF IsTree
  <1>5. \A q \in Seq(Links) : FlattenSeq(q) \in Links
    BY FlattenTyped DEF Links
  <1>6. \A x, y \in Links : x \o y \in Links
    BY DEF Links
  <1>7. rule \in [Node \X Seq(Links) -> Links]
    <2> HIDE DEF Below, Links
    <2>1. \A p \in Node \X Seq(Links) : own[p[1]] \o FlattenSeq(p[2]) \in Links
      <3> SUFFICES ASSUME NEW p \in Node \X Seq(Links) PROVE own[p[1]] \o FlattenSeq(p[2]) \in Links
        OBVIOUS
      <3>1. own[p[1]] \in Links /\ FlattenSeq(p[2]) \in Links
        BY <1>5
      <3> QED
        BY <1>6, <3>1, Zenon
    <2> QED
      BY <2>1
  <1>8. \E g : Collects(g, own)
    <2>1. PICK g : Gathers(g, Node, Links, Below, rule)
      <3> HIDE DEF Below, rule, Links
      <3> QED
        BY <1>4, <1>7, TreeRecursion
    <2>2. ASSUME NEW n \in Node
          PROVE  g[n] = own[n] \o FlattenSeq([i \in DOMAIN n.children |-> g[n.children[i]]])
      <3>1. g[n] = rule[<<n, ValuesBelow(g, Below, n)>>] /\ g \in [Node -> Links]
        <4> HIDE DEF Below, rule, Links
        <4> QED
          BY <2>1 DEF Gathers
      <3>2. ValuesBelow(g, Below, n) = [i \in DOMAIN n.children |-> g[n.children[i]]]
        <4> HIDE DEF Below
        <4> QED
          BY <1>3 DEF ValuesBelow
      <3>3. ValuesBelow(g, Below, n) \in Seq(Links)
        <4>1. \A i \in 1..Len(Below[n]) : Below[n][i] \in Node
          BY <1>1, <1>3
        <4> HIDE DEF Below, Links
        <4>2. \A i \in 1..Len(Below[n]) : g[Below[n][i]] \in Links
          BY <3>1, <4>1
        <4> QED
          BY <1>3, <4>2 DEF ValuesBelow
      <3> HIDE DEF Below, Links
      <3>4. g[n] = own[n] \o FlattenSeq(ValuesBelow(g, Below, n))
        BY <3>1, <3>3
      <3> QED
        BY <3>2, <3>4
    <2>3. g = [n \in Node |-> g[n]]
      <3> HIDE DEF Below, rule, Links
      <3> QED
        BY <2>1 DEF Gathers
    <2>4. Collects(g, own)
      BY <2>2, <2>3, Zenon DEF Collects
    <2> QED
      BY <2>4
  <1>9. ASSUME NEW g, Collects(g, own), NEW n \in Node PROVE g[n] \in Links
    <2> HIDE DEF Below, rule, Links
    <2> DEFINE Z == {m \in Node : g[m] \in Links}
    <2>1. ASSUME NEW m \in Node, \A l \in Node : Height[l] < Height[m] => l \in Z PROVE m \in Z
      <3> DEFINE values == [i \in DOMAIN m.children |-> g[m.children[i]]]
      <3>1. m.children \in Seq(Node)
        BY <1>1
      <3>2. \A i \in DOMAIN m.children : m.children[i] \in Node /\ g[m.children[i]] \in Links
        <4>1. \A i \in DOMAIN m.children : m.children[i] \in Node
          BY <3>1
        <4> QED
          BY <1>2, <2>1, <4>1
      <3>3. values \in Seq(Links)
        BY <3>1, <3>2
      <3>4. g[m] = own[m] \o FlattenSeq(values)
        BY <1>9 DEF Collects
      <3> HIDE DEF values
      <3>5. FlattenSeq(values) \in Links /\ own[m] \in Links
        BY <1>5, <3>3
      <3> QED
        BY <1>6, <3>4, <3>5
    <2> HIDE DEF Z
    <2>2. Node \subseteq Z
      BY <1>2, <2>1, HeightInduction
    <2> QED
      BY <2>2 DEF Z
  <1> QED
    BY <1>8, <1>9

\* The link of a node itself, for either crawler.
OwnHref(node) ==
  IF "href" \in DOMAIN node.attr /\ ~IsNoLink(node.attr.href) THEN <<node.attr.href>> ELSE <<>>

OwnLink(node) ==
  IF node.tag = "a" /\ "href" \in DOMAIN node.attr /\ ~IsNoLink(node.attr.href)
    THEN <<node.attr.href>> ELSE <<>>

OwnHrefs == [node \in Node |-> OwnHref(node)]
OwnLinks == [node \in Node |-> OwnLink(node)]

\* A node has one link at most.
LEMMA OwnTyped == OwnLinks \in [Node -> Links] /\ OwnHrefs \in [Node -> Links]
  <1>1. ASSUME NEW n \in Node, "href" \in DOMAIN n.attr PROVE <<n.attr.href>> \in Links
    <2>1. n.attr.href \in Seq(Word)
      BY <1>1, HtmlAssumption
    <2> QED
      BY <2>1 DEF Links
  <1>2. <<>> \in Links
    BY DEF Links
  <1> QED
    BY <1>1, <1>2 DEF OwnLinks, OwnHrefs, OwnLink, OwnHref

\* The links of a page are those of its nodes.
LEMMA LinksCollect == Collects(LinksOf, OwnLinks) /\ Collects(HrefsOf, OwnHrefs)
  <1>1. Collects(LinksOf, OwnLinks)
    <2> DEFINE Is(g) == g = [node \in Node |->
                  OwnLink(node) \o FlattenSeq([i \in DOMAIN node.children |-> g[node.children[i]]])]
    <2>1. \A g : Is(g) <=> Collects(g, OwnLinks)
      <3> SUFFICES ASSUME NEW g PROVE Is(g) <=> Collects(g, OwnLinks)
        OBVIOUS
      <3>1. \A node \in Node : OwnLinks[node] = OwnLink(node)
        BY DEF OwnLinks
      <3>2. [node \in Node |-> OwnLinks[node] \o FlattenSeq([i \in DOMAIN node.children |-> g[node.children[i]]])]
            = [node \in Node |-> OwnLink(node) \o FlattenSeq([i \in DOMAIN node.children |-> g[node.children[i]]])]
        BY <3>1
      <3> QED
        BY <3>2, Zenon DEF Collects
    <2>2. LinksOf = CHOOSE g : Is(g)
      BY Zenon DEF LinksOf, OwnLink
    <2> HIDE DEF Is
    <2>3. \E g : Is(g)
      BY <2>1, OwnTyped, CollectsLinks, Zenon
    <2> QED
      BY <2>1, <2>2, <2>3, Zenon
  <1>2. Collects(HrefsOf, OwnHrefs)
    <2> DEFINE Is(g) == g = [node \in Node |->
                  OwnHref(node) \o FlattenSeq([i \in DOMAIN node.children |-> g[node.children[i]]])]
    <2>1. \A g : Is(g) <=> Collects(g, OwnHrefs)
      <3> SUFFICES ASSUME NEW g PROVE Is(g) <=> Collects(g, OwnHrefs)
        OBVIOUS
      <3>1. \A node \in Node : OwnHrefs[node] = OwnHref(node)
        BY DEF OwnHrefs
      <3>2. [node \in Node |-> OwnHrefs[node] \o FlattenSeq([i \in DOMAIN node.children |-> g[node.children[i]]])]
            = [node \in Node |-> OwnHref(node) \o FlattenSeq([i \in DOMAIN node.children |-> g[node.children[i]]])]
        BY <3>1
      <3> QED
        BY <3>2, Zenon DEF Collects
    <2>2. HrefsOf = CHOOSE g : Is(g)
      BY Zenon DEF HrefsOf, OwnHref
    <2> HIDE DEF Is
    <2>3. \E g : Is(g)
      BY <2>1, OwnTyped, CollectsLinks, Zenon
    <2> QED
      BY <2>1, <2>2, <2>3, Zenon
  <1> QED
    BY <1>1, <1>2

\* The links that either crawler finds on a page are URLs.
LEMMA LinksTyped == \A n \in Node : LinksOf[n] \in Seq(Seq(Word)) /\ HrefsOf[n] \in Seq(Seq(Word))
  <1>1. \A n \in Node : LinksOf[n] \in Links
    BY OwnTyped, LinksCollect, CollectsLinks, Zenon
  <1>2. \A n \in Node : HrefsOf[n] \in Links
    BY OwnTyped, LinksCollect, CollectsLinks, Zenon
  <1> QED
    BY <1>1, <1>2 DEF Links

\* Every link of a page is an href of it.
LEMMA LinksWithin == \A n \in Node : ToSet(LinksOf[n]) \subseteq ToSet(HrefsOf[n])
  <1> DEFINE Z == {n \in Node : ToSet(LinksOf[n]) \subseteq ToSet(HrefsOf[n])}
  <1>1. \A n \in Node : n.children \in Seq(Node)
    BY HtmlAssumption
  <1>2. Height \in [Node -> Nat] /\ \A n \in Node : \A i \in DOMAIN n.children : Height[n.children[i]] < Height[n]
    BY HtmlAssumption
  <1>3. ASSUME NEW n \in Node, \A m \in Node : Height[m] < Height[n] => m \in Z PROVE n \in Z
    <2> DEFINE ls == [i \in DOMAIN n.children |-> LinksOf[n.children[i]]]
               hs == [i \in DOMAIN n.children |-> HrefsOf[n.children[i]]]
               N == Len(n.children)
               H == ToSet(HrefsOf[n])
    <2>1. /\ LinksOf[n] = OwnLink(n) \o FlattenSeq(ls)
          /\ HrefsOf[n] = OwnHref(n) \o FlattenSeq(hs)
      BY LinksCollect, Zenon DEF Collects, OwnLinks, OwnHrefs
    <2>2. /\ N \in Nat /\ DOMAIN n.children = 1..N
          /\ \A i \in 1..N : n.children[i] \in Node
      BY <1>1
    <2>3. /\ LinksOf[n] \in Seq(Seq(Word)) /\ HrefsOf[n] \in Seq(Seq(Word))
          /\ \A i \in 1..N : /\ ls[i] \in Seq(Seq(Word)) /\ hs[i] \in Seq(Seq(Word))
                             /\ ToSet(ls[i]) \subseteq ToSet(hs[i])
      <3>1. ASSUME NEW i \in 1..N
            PROVE  /\ ls[i] \in Seq(Seq(Word)) /\ hs[i] \in Seq(Seq(Word))
                   /\ ToSet(ls[i]) \subseteq ToSet(hs[i])
        <4>1. n.children[i] \in Node /\ Height[n.children[i]] < Height[n]
          BY <1>2, <2>2
        <4>2. n.children[i] \in Z
          BY <1>3, <4>1
        <4>3. ls[i] = LinksOf[n.children[i]] /\ hs[i] = HrefsOf[n.children[i]]
          BY <2>2
        <4> HIDE DEF ls, hs
        <4> QED
          BY <4>1, <4>2, <4>3, LinksTyped
      <3> HIDE DEF ls, hs, N
      <3> QED
        BY <3>1, LinksTyped
    <2>4. hs \in Seq(Seq(Seq(Word))) /\ Len(hs) = N /\ Len(ls) = N /\ DOMAIN ls = 1..N
      <3>1. hs = [i \in 1..N |-> hs[i]] /\ ls = [i \in 1..N |-> ls[i]]
        BY <2>2
      <3> HIDE DEF hs, ls, N
      <3> QED
        BY <2>2, <2>3, <3>1
    <2>5. ls = [i \in 1..N |-> ls[i]]
      BY <2>2
    <2>6. OwnLink(n) \in {<<>>, OwnHref(n)}
      BY DEF OwnLink, OwnHref
    <2>7. OwnHref(n) \in Seq(Seq(Word))
      BY OwnTyped DEF OwnHrefs, Links
    <2> HIDE DEF ls, hs, N
    <2>8. FlattenSeq(hs) \in Seq(Seq(Word))
      BY <2>4, FlattenTyped
    <2>9. ToSet(OwnHref(n)) \subseteq H /\ ToSet(FlattenSeq(hs)) \subseteq H
      BY <2>1, <2>7, <2>8, CatHas, Zenon
    <2>10. \A i \in 1..N : ToSet(hs[i]) \subseteq ToSet(FlattenSeq(hs))
      BY <2>4, FlattenHas, Zenon
    <2>11. \A i \in 1..N : ls[i] \in Seq(H)
      <3> SUFFICES ASSUME NEW i \in 1..N PROVE ls[i] \in Seq(H)
        OBVIOUS
      <3>1. ToSet(ls[i]) \subseteq H /\ ls[i] \in Seq(Seq(Word))
        BY <2>3, <2>9, <2>10
      <3> DEFINE l == ls[i]
      <3>2. l \in Seq(Seq(Word)) /\ ToSet(l) \subseteq H
        BY <3>1
      <3> HIDE DEF H, l
      <3>3. l \in Seq(H)
        BY <3>2 DEF ToSet
      <3> QED
        BY <3>3 DEF l
    <2>12. ls \in Seq(Seq(H))
      <3> DEFINE D == Seq(H)
      <3>1. \A i \in 1..N : ls[i] \in D
        BY <2>11
      <3> HIDE DEF D
      <3>2. [i \in 1..N |-> ls[i]] \in Seq(D)
        BY <2>2, <3>1
      <3>3. ls \in Seq(D)
        BY <2>5, <3>2, Zenon
      <3> QED
        BY <3>3 DEF D
    <2>13. FlattenSeq(ls) \in Seq(H) /\ OwnLink(n) \in Seq(H)
      <3>1. OwnHref(n) \in Seq(H)
        <4> HIDE DEF H
        <4> QED
          BY <2>7, <2>9 DEF ToSet
      <3>2. FlattenSeq(ls) \in Seq(H) /\ <<>> \in Seq(H)
        <4> HIDE DEF H
        <4> QED
          BY <2>12, FlattenTyped
      <3> HIDE DEF H
      <3> QED
        BY <2>6, <2>12, <3>1, <3>2, Zenon
    <2>14. LinksOf[n] \in Seq(H)
      <3>1. \A x, y \in Seq(H) : x \o y \in Seq(H)
        OBVIOUS
      <3> HIDE DEF H
      <3> QED
        BY <2>1, <2>13, <3>1, Zenon
    <2>15. ToSet(LinksOf[n]) \subseteq H
      <3> HIDE DEF H
      <3> QED
        BY <2>14 DEF ToSet
    <2> QED
      BY <2>15
  <1> HIDE DEF Z
  <1>4. Node \subseteq Z
    BY <1>2, <1>3, HeightInduction
  <1> QED
    BY <1>4 DEF Z

\* The last place of a token is in the sequence.
LEMMA LastSays ==
  ASSUME NEW s \in Seq(Word)
  PROVE  SelectLastInSeq(s, LAMBDA c : c = "/") \in 0..Len(s)
  <1> DEFINE I == {i \in 1..Len(s) : s[i] = "/"}
             N == Len(s)
  <1>1. SelectLastInSeq(s, LAMBDA c : c = "/") = IF I # {} THEN Max(I) ELSE 0
    BY Zenon DEF SelectLastInSeq
  <1>2. ASSUME I # {} PROVE Max(I) \in I
    <2> DEFINE J == {N - i : i \in I}
    <2>1. J \subseteq Nat /\ J # {}
      BY <1>2
    <2> HIDE DEF J
    <2>2. Min(J) \in J /\ \A x \in J : Min(J) <= x
      BY <2>1, MinSays
    <2> USE DEF J
    <2>3. PICK i \in I : Min(J) = N - i
      BY <2>2
    <2>4. \A j \in I : i >= j
      <3> SUFFICES ASSUME NEW j \in I PROVE i >= j
        OBVIOUS
      <3>1. N - j \in J
        OBVIOUS
      <3>2. N - i <= N - j
        BY <2>2, <2>3, <3>1
      <3>3. N \in Nat /\ i \in Nat /\ j \in Nat
        OBVIOUS
      <3> QED
        BY <3>2, <3>3
    <2> HIDE DEF J, I
    <2> QED
      BY <2>3, <2>4 DEF Max
  <1>3. I \subseteq 0..N /\ 0 \in 0..N
    OBVIOUS
  <1> HIDE DEF I, N
  <1>4. CASE I # {}
    <2>1. Max(I) \in 0..N
      BY <1>2, <1>3, <1>4
    <2>2. SelectLastInSeq(s, LAMBDA c : c = "/") = Max(I)
      BY <1>1, <1>4, Zenon
    <2> QED
      BY <2>1, <2>2, Zenon DEF N
  <1>5. CASE I = {}
    <2>2. SelectLastInSeq(s, LAMBDA c : c = "/") = 0
      BY <1>1, <1>5, Zenon
    <2> QED
      BY <1>3, <2>2, Zenon DEF N
  <1> QED
    BY <1>4, <1>5

\* The directory of a page is a sequence of tokens.
LEMMA DirTyped ==
  ASSUME NEW rest \in Seq(Word)
  PROVE  BaseDir(rest) \in Seq(Word)
  <1> DEFINE path == First(rest, {"/"}, 1)
             last == SelectLastInSeq(rest, LAMBDA c : c = "/")
  <1>1. CASE path > Len(rest)
    <2>1. <<"/">> \in Seq(Word)
      BY WordsSay
    <2> QED
      BY <1>1, <2>1 DEF BaseDir
  <1>2. CASE ~(path > Len(rest))
    <2>1. 1 \in 1..Len(rest) + 1
      OBVIOUS
    <2>2. path \in 1..Len(rest) + 1
      BY <2>1, FirstSays, Zenon
    <2>3. last \in 0..Len(rest)
      BY LastSays, Zenon
    <2>4. BaseDir(rest) = SubSeq(rest, path, last)
      BY <1>2, Zenon DEF BaseDir
    <2> HIDE DEF path, last
    <2>5. SubSeq(rest, path, last) \in Seq(Word)
      BY <2>2, <2>3, PartFrom, Zenon
    <2> QED
      BY <2>4, <2>5
  <1> QED
    BY <1>1, <1>2

\* A link is resolved to a sequence of tokens.
LEMMA ResolveTyped ==
  ASSUME NEW link \in Seq(Word), NEW base \in Seq(Word)
  PROVE  Resolve(link, base) \in Seq(Word)
  <1> DEFINE e == SchemeEnd(base)
             rest == From(base, e + 3)
             path == First(rest, {"/"}, 1)
             site == Before(base, e) \o Separator \o Before(rest, path)
  <1>1. CASE HasHttp(link)
    BY <1>1 DEF Resolve
  <1>2. CASE ~HasHttp(link) /\ e = 0
    BY <1>2 DEF Resolve, NoUrl
  <1>3. CASE ~HasHttp(link) /\ e # 0
    <2>1. e \in 1..Len(base) /\ e + 2 <= Len(base)
      BY <1>3, SchemeEndSays DEF SeparatorAt
    <2>2. e + 3 \in 1..Len(base) + 1 /\ Len(base) \in 0..Len(base) /\ 1 \in 1..Len(base) + 1
          /\ e - 1 \in 0..Len(base)
      BY <2>1
    <2>3. Before(base, e) \in Seq(Word)
      BY <2>2, PartFrom, Zenon DEF Before
    <2>4. rest \in Seq(Word)
      BY <2>2, PartFrom, Zenon DEF From
    <2> HIDE DEF rest, e
    <2>5. 1 \in 1..Len(rest) + 1
      BY <2>4
    <2>6. path \in 1..Len(rest) + 1
      BY <2>4, <2>5, FirstSays, Zenon
    <2> HIDE DEF path
    <2>7. path - 1 \in 0..Len(rest)
      BY <2>4, <2>6
    <2>8. Before(rest, path) \in Seq(Word)
      BY <2>4, <2>5, <2>7, PartFrom, Zenon DEF Before
    <2>9. BaseDir(rest) \in Seq(Word)
      BY <2>4, DirTyped
    <2>10. \A x, y \in Seq(Word) : x \o y \in Seq(Word)
      OBVIOUS
    <2>11. Separator \in Seq(Word) /\ <<":">> \in Seq(Word)
      BY WordsSay DEF Separator
    <2>12. site \in Seq(Word)
      BY <2>3, <2>8, <2>10, <2>11, Zenon
    <2> HIDE DEF site
    <2>13. /\ Before(base, e) \o <<":">> \o link \in Seq(Word)
           /\ site \o link \in Seq(Word)
           /\ site \o BaseDir(rest) \o link \in Seq(Word)
      BY <2>3, <2>9, <2>10, <2>11, <2>12, Zenon
    <2>14. Resolve(link, base) \in {Before(base, e) \o <<":">> \o link, site \o link,
                                    site \o BaseDir(rest) \o link}
      <3> USE DEF rest, e, path, site
      <3> QED
        BY <1>3, Zenon DEF Resolve
    <2> QED
      BY <2>13, <2>14, Zenon
  <1> QED
    BY <1>1, <1>2, <1>3

-----------------------------------------------------------------------------
(* Parts of parts, and paths without the slashes at their end.             *)

\* A part of a part is a part.
LEMMA PartOfPart ==
  ASSUME NEW s \in Seq(Word), NEW a \in 1..Len(s) + 1, NEW k \in (a - 1)..Len(s),
         NEW m \in Nat \ {0}, NEW n \in 0..k - a + 1
  PROVE  SubSeq(SubSeq(s, a, k), m, n) = SubSeq(s, a + m - 1, a + n - 1)
  <1> DEFINE b == SubSeq(s, a, k)
             c == SubSeq(b, m, n)
             d == SubSeq(s, a + m - 1, a + n - 1)
  <1>0. a \in Nat /\ a >= 1 /\ k \in Nat /\ n \in Nat /\ m \in Nat /\ m >= 1 /\ k <= Len(s) /\ k >= a - 1
        /\ n <= k - a + 1 /\ Len(s) \in Nat
    OBVIOUS
  <1>a. a \in Nat \ {0} /\ a + m - 1 \in Nat \ {0} /\ a + n - 1 \in Nat /\ a + n - 1 <= Len(s)
    BY <1>0
  <1>1. a \in Nat \ {0} /\ k \in Nat /\ n \in Nat /\ k <= Len(s) /\ a + n - 1 <= Len(s) /\ n <= k - a + 1
        /\ a + m - 1 \in Nat \ {0} /\ a + n - 1 \in Nat
    BY <1>0, <1>a
  <1>2. b \in Seq(Word) /\ Len(b) = (IF a <= k THEN k - a + 1 ELSE 0) /\ \A i \in 1..Len(b) : b[i] = s[a + i - 1]
    BY <1>1, PartSays
  <1>3. /\ d \in Seq(Word) /\ Len(d) = (IF a + m - 1 <= a + n - 1 THEN a + n - 1 - (a + m - 1) + 1 ELSE 0)
        /\ \A i \in 1..Len(d) : d[i] = s[a + m - 1 + i - 1]
    BY <1>1, PartSays
  <1> HIDE DEF b, d
  <1>4. n <= Len(b) /\ b \in Seq(Word) /\ n \in Nat
    BY <1>0, <1>2
  <1>5. /\ c \in Seq(Word) /\ Len(c) = (IF m <= n THEN n - m + 1 ELSE 0)
        /\ \A i \in 1..Len(c) : c[i] = b[m + i - 1]
    BY <1>4, PartSays, Zenon
  <1> HIDE DEF c
  <1>6. Len(c) = Len(d)
    BY <1>1, <1>3, <1>5
  <1>7. \A i \in 1..Len(c) : m + i - 1 \in 1..Len(b) /\ a + (m + i - 1) - 1 = a + m - 1 + i - 1
    BY <1>1, <1>2, <1>5
  <1>8. \A i \in 1..Len(c) : c[i] = d[i]
    BY <1>2, <1>3, <1>5, <1>6, <1>7
  <1>9. c = d
    BY <1>3, <1>5, <1>6, <1>8, SeqEqual
  <1> QED
    BY <1>9 DEF b, c, d

\* A part of the beginning is a part.
LEMMA PartOfCut ==
  ASSUME NEW s \in Seq(Word), NEW k \in 0..Len(s), NEW m \in Nat \ {0}, NEW n \in 0..k
  PROVE  SubSeq(SubSeq(s, 1, k), m, n) = SubSeq(s, m, n)
  <1>1. 1 \in 1..Len(s) + 1 /\ k \in (1 - 1)..Len(s) /\ n \in 0..k - 1 + 1
    OBVIOUS
  <1>2. SubSeq(SubSeq(s, 1, k), m, n) = SubSeq(s, 1 + m - 1, 1 + n - 1)
    BY <1>1, PartOfPart, Zenon
  <1>3. 1 + m - 1 = m /\ 1 + n - 1 = n
    OBVIOUS
  <1> QED
    BY <1>2, <1>3

\* Two neighbouring parts are one.
LEMMA PartsMeet ==
  ASSUME NEW s \in Seq(Word), NEW m \in 1..Len(s) + 1, NEW k \in (m - 1)..Len(s), NEW n \in k..Len(s)
  PROVE  SubSeq(s, m, k) \o SubSeq(s, k + 1, n) = SubSeq(s, m, n)
  BY ConcatAdjacentSubSeq, Zenon

\* What a SelectLastInSeq() finds that looks for anything but a slash: the end of
\* what is not slashes only.
LEMMA UnslashedIs ==
  ASSUME NEW s \in Seq(Word), NEW n \in 0..Len(s), \A i \in n + 1..Len(s) : s[i] = "/",
         n # 0 => s[n] # "/"
  PROVE  Unslashed(s) = SubSeq(s, 1, IF n = 0 THEN 1 ELSE n)
  <1> DEFINE I == {i \in 1..Len(s) : s[i] # "/"}
             last == SelectLastInSeq(s, LAMBDA c : c # "/")
  <1>1. last = IF I # {} THEN Max(I) ELSE 0
    BY Zenon DEF SelectLastInSeq
  <1>2. \A i \in I : i <= n
    OBVIOUS
  <1>3. n # 0 => n \in I
    OBVIOUS
  <1>4. n = 0 => I = {}
    OBVIOUS
  <1>5. \A i \in I : i \in Nat
    OBVIOUS
  <1> HIDE DEF I
  <1>6. n # 0 => Max(I) = n
    <2> SUFFICES ASSUME n # 0 PROVE Max(I) = n
      OBVIOUS
    <2>1. \A x \in I : (\A y \in I : x >= y) => x = n
      BY <1>2, <1>3, <1>5
    <2>2. \A y \in I : n >= y
      BY <1>2, <1>5
    <2> QED
      BY <1>3, <2>1, <2>2 DEF Max
  <1>7. last = n
    BY <1>1, <1>3, <1>4, <1>6
  <1>8. Unslashed(s) = SubSeq(s, 1, IF last = 0 THEN 1 ELSE last)
    BY Zenon DEF Unslashed
  <1> QED
    BY <1>7, <1>8, Zenon

\* There is such an end.
LEMMA SlashesEnd ==
  ASSUME NEW s \in Seq(Word)
  PROVE  \E n \in 0..Len(s) : (\A i \in n + 1..Len(s) : s[i] = "/") /\ (n # 0 => s[n] # "/")
  <1> DEFINE J == {j \in 0..Len(s) : j = Len(s) \/ s[Len(s) - j] # "/"}
  <1>1. J \subseteq Nat /\ J # {} /\ \A j \in 0..Len(s) : j \in J <=> j = Len(s) \/ s[Len(s) - j] # "/"
    OBVIOUS
  <1> HIDE DEF J
  <1>2. Min(J) \in J /\ \A x \in J : Min(J) <= x
    BY <1>1, MinSays
  <1> DEFINE j == Min(J)
             n == Len(s) - j
  <1>3. j \in 0..Len(s)
    BY <1>2 DEF J
  <1>4. n # 0 => s[n] # "/"
    BY <1>1, <1>2, <1>3
  <1>5. ASSUME NEW i \in n + 1..Len(s) PROVE s[i] = "/"
    <2>1. Len(s) - i \in 0..Len(s) /\ Len(s) - i < j /\ Len(s) - (Len(s) - i) = i
      BY <1>3
    <2>2. Len(s) - i \notin J
      BY <1>2, <1>3, <2>1
    <2> QED
      BY <1>1, <2>1, <2>2
  <1>6. n \in 0..Len(s)
    BY <1>3
  <1> HIDE DEF n, j
  <1> QED
    BY <1>4, <1>5, <1>6

\* A slash at the end makes no difference.
LEMMA UnslashedShorter ==
  ASSUME NEW s \in Seq(Word), Len(s) > 1, s[Len(s)] = "/"
  PROVE  Unslashed(SubSeq(s, 1, Len(s) - 1)) = Unslashed(s)
  <1> DEFINE b == SubSeq(s, 1, Len(s) - 1)
  <1>1. Len(s) - 1 \in 0..Len(s) /\ 1 \in 0..Len(s) - 1
    OBVIOUS
  <1>2. b \in Seq(Word) /\ Len(b) = Len(s) - 1 /\ \A i \in 1..Len(s) - 1 : b[i] = s[i]
    BY <1>1, CutSays, Zenon
  <1>3. PICK n \in 0..Len(s) : (\A i \in n + 1..Len(s) : s[i] = "/") /\ (n # 0 => s[n] # "/")
    BY SlashesEnd
  <1>4. n \in 0..Len(s) - 1
    BY <1>3
  <1> DEFINE k == IF n = 0 THEN 1 ELSE n
  <1>5. k \in 0..Len(s) - 1
    BY <1>1, <1>4
  <1>6. SubSeq(b, 1, k) = SubSeq(s, 1, k)
    BY <1>1, <1>5, PartOfCut
  <1> HIDE DEF b
  <1>7. n \in 0..Len(b) /\ (\A i \in n + 1..Len(b) : b[i] = "/") /\ (n # 0 => b[n] # "/")
    BY <1>2, <1>3, <1>4
  <1>8. Unslashed(b) = SubSeq(b, 1, k)
    BY <1>2, <1>7, UnslashedIs, Zenon
  <1>9. Unslashed(s) = SubSeq(s, 1, k)
    BY <1>3, UnslashedIs, Zenon
  <1>10. Unslashed(b) = Unslashed(s)
    BY <1>6, <1>8, <1>9
  <1> QED
    BY <1>10 DEF b

\* Decoding first makes no difference.
LEMMA UnslashedDecoded ==
  ASSUME NEW s \in Seq(Word), s # <<>>
  PROVE  DecodeUnreserved(Unslashed(DecodeUnreserved(s))) = DecodeUnreserved(Unslashed(s))
  <1> DEFINE b == DecodeUnreserved(s)
  <1>1. /\ b \in Seq(Word) /\ Len(b) = Len(s)
        /\ \A i \in 1..Len(s) : b[i] \notin DOMAIN Decoded
        /\ \A i \in 1..Len(s), d \in Delimiter : b[i] = d <=> s[i] = d
    BY DecodeSays
  <1>2. \A i \in 1..Len(s) : b[i] = IF s[i] \in DOMAIN Decoded THEN Decoded[s[i]] ELSE s[i]
    BY DEF DecodeUnreserved
  <1>3. PICK n \in 0..Len(s) : (\A i \in n + 1..Len(s) : s[i] = "/") /\ (n # 0 => s[n] # "/")
    BY SlashesEnd
  <1> HIDE DEF b
  <1>4. "/" \in Delimiter
    BY DEF Delimiter
  <1>5. n \in 0..Len(b) /\ (\A i \in n + 1..Len(b) : b[i] = "/") /\ (n # 0 => b[n] # "/")
    BY <1>1, <1>3, <1>4
  <1> DEFINE k == IF n = 0 THEN 1 ELSE n
             x == SubSeq(s, 1, k)
             y == SubSeq(b, 1, k)
  <1>6. Unslashed(b) = y
    BY <1>1, <1>5, UnslashedIs, Zenon
  <1>7. Unslashed(s) = x
    BY <1>3, UnslashedIs, Zenon
  <1>8. k \in 0..Len(s) /\ k \in 0..Len(b)
    BY <1>1, <1>3
  <1> HIDE DEF k
  <1>9. x \in Seq(Word) /\ Len(x) = k /\ \A i \in 1..k : x[i] = s[i]
    BY <1>8, CutSays, Zenon
  <1>10. y \in Seq(Word) /\ Len(y) = k /\ \A i \in 1..k : y[i] = b[i]
    BY <1>1, <1>8, CutSays, Zenon
  <1> HIDE DEF x, y
  <1>11. \A i \in 1..k : y[i] \notin DOMAIN Decoded
    BY <1>1, <1>8, <1>10
  <1>12. DecodeUnreserved(y) = y
    BY <1>10, <1>11, DecodeSays
  <1>13. /\ DecodeUnreserved(x) \in Seq(Word) /\ Len(DecodeUnreserved(x)) = k
         /\ \A i \in 1..k : DecodeUnreserved(x)[i] = IF x[i] \in DOMAIN Decoded THEN Decoded[x[i]] ELSE x[i]
    BY <1>9, DecodeSays DEF DecodeUnreserved
  <1>14. \A i \in 1..k : DecodeUnreserved(x)[i] = y[i]
    BY <1>2, <1>8, <1>9, <1>10, <1>13
  <1>15. DecodeUnreserved(x) = y
    BY <1>10, <1>13, <1>14, SeqEqual
  <1> QED
    BY <1>6, <1>7, <1>12, <1>15, Zenon DEF b

-----------------------------------------------------------------------------
(* The resource of a URL, by the places of its delimiters.                 *)

\* A URL that the frontiers take.
IsHttp(t) == SchemeEnd(t) = 2 /\ Lower(Before(t, 2)) \in Schemes

Fragment(t) == First(t, {"#"}, 1)

\* A scheme is one word.
LEMMA SchemeShort ==
  ASSUME NEW t \in Seq(Word), SchemeEnd(t) # 0, Lower(Before(t, SchemeEnd(t))) \in Schemes
  PROVE  IsHttp(t) /\ Len(t) >= 4 /\ SeparatorAt(t, 2)
  <1> DEFINE e == SchemeEnd(t)
             b == Before(t, e)
  <1>1. e \in 1..Len(t) /\ SeparatorAt(t, e)
    BY SchemeEndSays
  <1>2. Lower(b) \in Schemes
    OBVIOUS
  <1> HIDE DEF e
  <1>3. e - 1 \in 0..Len(t)
    BY <1>1
  <1>4. b \in Seq(Word) /\ Len(b) = e - 1
    BY <1>3, CutSays, Zenon DEF Before
  <1> HIDE DEF b
  <1>5. Len(Lower(b)) = Len(b) /\ Len(Lower(b)) = 1
    BY <1>2, <1>4, LowerSays, SchemesSay
  <1>a. e \in Nat
    BY <1>1
  <1>b. Len(b) = 1
    BY <1>5
  <1>c. e - 1 = 1
    BY <1>4, <1>b
  <1>6. e = 2
    BY <1>a, <1>c
  <1> QED
    BY <1>1, <1>2, <1>6 DEF e, b, IsHttp, SeparatorAt

\* Its fragment begins after the scheme.
LEMMA FragmentSays ==
  ASSUME NEW t \in Seq(Word), IsHttp(t)
  PROVE  /\ Fragment(t) \in 5..Len(t) + 1
         /\ \A i \in 1..Fragment(t) - 1 : t[i] # "#"
         /\ Fragment(t) <= Len(t) => t[Fragment(t)] = "#"
         /\ Len(t) >= 4 /\ SeparatorAt(t, 2)
  <1>1. Len(t) >= 4 /\ SeparatorAt(t, 2)
    BY SchemeShort DEF IsHttp
  <1>2. 1 \in 1..Len(t) + 1
    OBVIOUS
  <1>3. /\ Fragment(t) \in 1..Len(t) + 1
        /\ \A i \in 1..Fragment(t) - 1 : t[i] \notin {"#"}
        /\ Fragment(t) <= Len(t) => t[Fragment(t)] \in {"#"}
    BY <1>2, FirstSays, Zenon DEF Fragment
  <1> DEFINE b == Before(t, 2)
  <1>4. 2 - 1 \in 0..Len(t) /\ 2 - 1 = 1
    BY <1>1
  <1>5. b \in Seq(Word) /\ Len(b) = 2 - 1 /\ \A i \in 1..2 - 1 : b[i] = t[i]
    BY <1>4, CutSays, Zenon DEF Before
  <1>6. Lower(b) \in Schemes
    BY DEF IsHttp
  <1> HIDE DEF b
  <1>7. Lower(b)[1] \in {"http", "https"} /\ 1 \in 1..Len(b) /\ "#" \in Delimiter /\ b[1] = t[1]
    BY <1>5, <1>6, SchemesSay DEF Delimiter
  <1>8. t[1] # "#"
    <2>1. Lower(b)[1] = "#" <=> b[1] = "#"
      BY <1>5, <1>7, LowerSays
    <2> QED
      BY <1>7, <2>1
  <1>9. t[2] # "#" /\ t[3] # "#" /\ t[4] # "#"
    BY <1>1 DEF SeparatorAt
  <1>10. Fragment(t) \in 5..Len(t) + 1
    BY <1>1, <1>3, <1>8, <1>9
  <1> QED
    BY <1>1, <1>3, <1>10

\* The resource of a URL whose host ends at a place.
LEMMA ResourceIs ==
  ASSUME NEW t \in Seq(Word), IsHttp(t), NEW n \in 5..Fragment(t),
         \A i \in 5..n - 1 : t[i] \notin {"/", "?"}, n < Fragment(t) => t[n] \in {"/", "?"}
  PROVE  Resource(t) = Located(Lower(Before(t, 2)), SubSeq(t, 5, n - 1), SubSeq(t, n, Fragment(t) - 1))
  <1> DEFINE f == Fragment(t)
             e == SchemeEnd(t)
             s == Before(t, f)
             h == From(s, 5)
  <1>1. f \in 5..Len(t) + 1 /\ Len(t) >= 4
    BY FragmentSays
  <1>2. e = 2
    BY DEF IsHttp
  <1>3. Resource(t) = Split(Lower(Before(t, e)), From(s, e + 3))
    BY Zenon DEF Resource, Fragment
  <1> HIDE DEF e
  <1>4. Resource(t) = Split(Lower(Before(t, 2)), h)
    <2>1. e + 3 = 5
      BY <1>2
    <2> QED
      BY <1>2, <1>3, <2>1
  <1>5. n \in 5..f /\ (\A i \in 5..n - 1 : t[i] \notin {"/", "?"}) /\ (n < f => t[n] \in {"/", "?"})
    OBVIOUS
  <1> HIDE DEF f
  <1>6. f - 1 \in 0..Len(t) /\ 5 \in 1..Len(t) + 1 /\ f - 1 \in (5 - 1)..Len(t)
    BY <1>1
  <1>7. s \in Seq(Word) /\ Len(s) = f - 1
    BY <1>6, CutSays, Zenon DEF Before
  <1>8. h = SubSeq(t, 5, f - 1)
    <2>1. f - 1 \in 0..f - 1 /\ 5 \in Nat \ {0}
      BY <1>1
    <2>2. SubSeq(SubSeq(t, 1, f - 1), 5, f - 1) = SubSeq(t, 5, f - 1)
      BY <1>6, <2>1, PartOfCut, Zenon
    <2> QED
      BY <1>7, <2>2 DEF From, Before
  <1> HIDE DEF h, s
  <1>9. h \in Seq(Word) /\ Len(h) = f - 5 /\ \A i \in 1..f - 5 : h[i] = t[4 + i]
    <2> DEFINE b == SubSeq(t, 5, f - 1)
    <2>2. b \in Seq(Word) /\ Len(b) = f - 1 - 5 + 1 /\ \A i \in 1..f - 1 - 5 + 1 : b[i] = t[5 + i - 1]
      BY <1>6, PartAt, Zenon
    <2> HIDE DEF b
    <2>3. Len(b) = f - 5 /\ f - 1 - 5 + 1 = f - 5
      BY <1>1, <2>2
    <2>4. \A i \in 1..f - 5 : 5 + i - 1 = 4 + i
      BY <1>1
    <2>5. \A i \in 1..f - 5 : b[i] = t[4 + i]
      BY <2>2, <2>3, <2>4
    <2>6. h = b
      BY <1>8 DEF b
    <2> QED
      BY <2>2, <2>3, <2>5, <2>6
  <1> DEFINE m == n - 4
  <1>10. First(h, {"/", "?"}, 1) = m
    <2>1. 1 \in 1..Len(h) + 1 /\ m \in 1..Len(h) + 1 /\ m - 1 = n - 5 /\ 4 + m = n
      BY <1>1, <1>5, <1>9
    <2>2. ASSUME NEW i \in 1..m - 1 PROVE h[i] \notin {"/", "?"}
      <3>1. i \in 1..f - 5 /\ 4 + i \in 5..n - 1
        BY <1>1, <1>5, <2>1
      <3>2. h[i] = t[4 + i]
        BY <1>9, <3>1
      <3> QED
        BY <1>5, <3>1, <3>2
    <2>3. m <= Len(h) => h[m] \in {"/", "?"}
      <3> SUFFICES ASSUME m <= Len(h) PROVE h[m] \in {"/", "?"}
        OBVIOUS
      <3>1. m \in 1..f - 5 /\ n < f
        BY <1>1, <1>5, <1>9, <2>1
      <3>2. h[m] = t[n]
        BY <1>9, <2>1, <3>1
      <3> QED
        BY <1>5, <3>1, <3>2
    <2> HIDE DEF m
    <2> QED
      BY <1>9, <2>1, <2>2, <2>3, FirstIs, Zenon
  <1>11. Resource(t) = Located(Lower(Before(t, 2)), Before(h, m), From(h, m))
    BY <1>4, <1>10, Zenon DEF Split
  <1> DEFINE k == f - 1
             o == 5
  <1>12. o \in 1..Len(t) + 1 /\ k \in (o - 1)..Len(t)
    BY <1>6
  <1>13. Before(h, m) = SubSeq(t, 5, n - 1)
    <2> DEFINE l == m - 1
    <2>1. 1 \in Nat \ {0} /\ l \in 0..k - o + 1 /\ o + 1 - 1 = 5 /\ o + l - 1 = n - 1
      BY <1>1, <1>5
    <2>2. Before(h, m) = SubSeq(SubSeq(t, o, k), 1, l)
      BY <1>8 DEF Before
    <2> HIDE DEF l, k, o
    <2>3. SubSeq(SubSeq(t, o, k), 1, l) = SubSeq(t, o + 1 - 1, o + l - 1)
      BY <1>12, <2>1, PartOfPart
    <2> QED
      BY <2>1, <2>2, <2>3
  <1>14. From(h, m) = SubSeq(t, n, f - 1)
    <2> DEFINE l == f - 5
    <2>1. m \in Nat \ {0} /\ l \in 0..k - o + 1 /\ o + m - 1 = n /\ o + l - 1 = f - 1
      BY <1>1, <1>5
    <2>2. From(h, m) = SubSeq(SubSeq(t, o, k), m, l)
      BY <1>8, <1>9 DEF From
    <2> HIDE DEF l, k, o, m
    <2>3. SubSeq(SubSeq(t, o, k), m, l) = SubSeq(t, o + m - 1, o + l - 1)
      BY <1>12, <2>1, PartOfPart
    <2> QED
      BY <2>1, <2>2, <2>3
  <1> QED
    BY <1>11, <1>13, <1>14 DEF f

-----------------------------------------------------------------------------
(* URLFrontierMT: what normalize_url gives.                                *)

\* The place of the first slash after the scheme, or where the fragment begins or the
\* URL ends.
EndsAt(t, n) ==
  /\ n \in 5..Fragment(t)
  /\ \A i \in 5..n - 1 : t[i] # "/"
  /\ n < Fragment(t) => t[n] = "/"

SchemeOf(t) == Lower(Before(t, 2))
HostAt(t, n) == WithoutDefaultPort(SchemeOf(t), Lower(SubSeq(t, 5, n - 1)))
PathAt(t, n) == IF n = Fragment(t) THEN <<"/">> ELSE SubSeq(t, n, Fragment(t) - 1)
RestAt(t, n) == WithoutSlash(PathAt(t, n))

\* The parts of what normalize_url gives.
LEMMA PartsMT ==
  ASSUME NEW t \in Seq(Word), NormalizeMT(t) # NoUrl
  PROVE  /\ IsHttp(t)
         /\ \E n : EndsAt(t, n) /\ NormalizeMT(t) = Whole(SchemeOf(t), HostAt(t, n), RestAt(t, n))
  <1> DEFINE f == Fragment(t)
             s == Before(t, f)
             e == SchemeEnd(s)
             scheme == Lower(Before(s, e))
             n == First(s, {"/"}, e + 3)
             host == Lower(SubSeq(s, e + 3, n - 1))
             rest == IF n > Len(s) THEN <<"/">> ELSE From(s, n)
  <1>1. NormalizeMT(t) = Whole(scheme, WithoutDefaultPort(scheme, host), WithoutSlash(rest))
        /\ e # 0 /\ scheme \in Schemes
    BY Zenon DEF NormalizeMT, Whole, Fragment
  <1>2. f \in 1..Len(t) + 1
    <2>1. 1 \in 1..Len(t) + 1
      OBVIOUS
    <2> QED
      BY <2>1, FirstSays, Zenon DEF Fragment
  <1> HIDE DEF f
  <1>3. f - 1 \in 0..Len(t)
    BY <1>2
  <1>4. s \in Seq(Word) /\ Len(s) = f - 1 /\ \A i \in 1..f - 1 : s[i] = t[i]
    BY <1>3, CutSays, Zenon DEF Before
  <1>5. s = SubSeq(t, 1, f - 1)
    BY DEF Before
  <1> HIDE DEF s
  <1>6. IsHttp(s) /\ Len(s) >= 4 /\ SeparatorAt(s, 2)
    BY <1>1, <1>4, SchemeShort
  <1>7. e = 2
    BY <1>6 DEF IsHttp
  <1>8. Before(s, 2) = Before(t, 2)
    <2>1. 2 - 1 \in 0..f - 1 /\ 1 \in Nat \ {0}
      BY <1>4, <1>6
    <2> QED
      BY <1>3, <1>5, <2>1, PartOfCut, Zenon DEF Before
  <1>9. IsHttp(t)
    <2>1. Len(t) >= 4 /\ t[2] = ":" /\ t[3] = "/" /\ t[4] = "/"
      BY <1>3, <1>4, <1>6 DEF SeparatorAt
    <2>2. SeparatorAt(t, 2) /\ ~SeparatorAt(t, 1)
      BY <2>1 DEF SeparatorAt
    <2>3. SchemeEnd(t) = 2
      BY <2>1, <2>2, SchemeEndSays
    <2> QED
      BY <1>6, <1>8, <2>3 DEF IsHttp
  <1> HIDE DEF e
  <1>10. scheme = SchemeOf(t)
    BY <1>7, <1>8 DEF SchemeOf
  <1> HIDE DEF scheme
  <1>11. f \in 5..Len(t) + 1
    BY <1>9, FragmentSays DEF f
  <1>12. n \in 5..f /\ (\A i \in 5..n - 1 : s[i] \notin {"/"}) /\ (n <= Len(s) => s[n] \in {"/"})
    <2>1. e + 3 = 5 /\ 5 \in 1..Len(s) + 1 /\ Len(s) + 1 = f
      BY <1>4, <1>7, <1>11
    <2>2. /\ First(s, {"/"}, 5) \in 5..Len(s) + 1
          /\ \A i \in 5..First(s, {"/"}, 5) - 1 : s[i] \notin {"/"}
          /\ First(s, {"/"}, 5) <= Len(s) => s[First(s, {"/"}, 5)] \in {"/"}
      BY <1>4, <2>1, FirstSays, Zenon
    <2>3. n = First(s, {"/"}, 5)
      BY <2>1
    <2> HIDE DEF n
    <2> QED
      BY <2>1, <2>2, <2>3
  <1> HIDE DEF n
  <1>13. EndsAt(t, n)
    <2>1. \A i \in 5..n - 1 : i \in 1..f - 1
      BY <1>11, <1>12
    <2>2. \A i \in 5..n - 1 : t[i] # "/"
      BY <1>4, <1>12, <2>1
    <2>3. n < f => t[n] = "/"
      BY <1>4, <1>11, <1>12
    <2> QED
      BY <1>12, <2>2, <2>3 DEF EndsAt, f
  <1>14. host = Lower(SubSeq(t, 5, n - 1))
    <2>1. n - 1 \in 0..f - 1 /\ 5 \in Nat \ {0} /\ e + 3 = 5
      BY <1>7, <1>11, <1>12
    <2>2. SubSeq(SubSeq(t, 1, f - 1), 5, n - 1) = SubSeq(t, 5, n - 1)
      BY <1>3, <2>1, PartOfCut, Zenon
    <2> QED
      BY <1>5, <2>1, <2>2
  <1>15. rest = PathAt(t, n)
    <2>1. n > Len(s) <=> n = f
      BY <1>4, <1>11, <1>12
    <2>2. From(s, n) = SubSeq(t, n, f - 1)
      <3>1. f - 1 \in 0..f - 1 /\ n \in Nat \ {0}
        BY <1>11, <1>12
      <3>2. SubSeq(SubSeq(t, 1, f - 1), n, f - 1) = SubSeq(t, n, f - 1)
        BY <1>3, <3>1, PartOfCut, Zenon
      <3> QED
        BY <1>4, <1>5, <3>2 DEF From
    <2> QED
      BY <2>1, <2>2 DEF PathAt, f
  <1> HIDE DEF host, rest
  <1>16. NormalizeMT(t) = Whole(SchemeOf(t), HostAt(t, n), RestAt(t, n))
    BY <1>1, <1>10, <1>14, <1>15 DEF HostAt, RestAt
  <1> QED
    BY <1>9, <1>13, <1>16

\* What is before and after the place.
LEMMA AtSays ==
  ASSUME NEW t \in Seq(Word), IsHttp(t), NEW n, EndsAt(t, n)
  PROVE  /\ SchemeOf(t) \in Schemes /\ SchemeOf(t)[1] \notin DOMAIN LowerOf
         /\ SubSeq(t, 5, n - 1) \in Seq(Word) /\ Len(SubSeq(t, 5, n - 1)) = n - 5
         /\ \A i \in 1..n - 5 : SubSeq(t, 5, n - 1)[i] = t[4 + i] /\ t[4 + i] # "/" /\ t[4 + i] # "#"
         /\ PathAt(t, n) \in Seq(Word) /\ PathAt(t, n) # <<>> /\ PathAt(t, n)[1] = "/"
         /\ \A i \in 1..Len(PathAt(t, n)) : PathAt(t, n)[i] # "#"
  <1> DEFINE f == Fragment(t)
  <1>1. n \in 5..f /\ (\A i \in 5..n - 1 : t[i] # "/") /\ (n < f => t[n] = "/")
    BY DEF EndsAt
  <1>2. f \in 5..Len(t) + 1 /\ (\A i \in 1..f - 1 : t[i] # "#") /\ Len(t) >= 4
    BY FragmentSays
  <1> HIDE DEF f
  <1>3. SchemeOf(t) \in Schemes
    BY DEF IsHttp, SchemeOf
  <1>4. SchemeOf(t)[1] \notin DOMAIN LowerOf
    <2> DEFINE b == Before(t, 2)
    <2>1. 2 - 1 \in 0..Len(t) /\ 2 - 1 = 1
      BY <1>2
    <2>2. b \in Seq(Word) /\ Len(b) = 2 - 1
      BY <2>1, CutSays, Zenon DEF Before
    <2> HIDE DEF b
    <2>3. 1 \in 1..Len(b)
      BY <2>2
    <2>4. Lower(b)[1] \notin DOMAIN LowerOf
      BY <2>2, <2>3, LowerSays
    <2> QED
      BY <2>4 DEF SchemeOf, b
  <1>5. /\ SubSeq(t, 5, n - 1) \in Seq(Word) /\ Len(SubSeq(t, 5, n - 1)) = n - 5
        /\ \A i \in 1..n - 5 : SubSeq(t, 5, n - 1)[i] = t[4 + i] /\ t[4 + i] # "/" /\ t[4 + i] # "#"
    <2> DEFINE b == SubSeq(t, 5, n - 1)
    <2>1. 5 \in 1..Len(t) + 1 /\ n - 1 \in (5 - 1)..Len(t)
      BY <1>1, <1>2
    <2>2. b \in Seq(Word) /\ Len(b) = n - 1 - 5 + 1 /\ \A i \in 1..n - 1 - 5 + 1 : b[i] = t[5 + i - 1]
      BY <2>1, PartAt, Zenon
    <2> HIDE DEF b
    <2>3. n - 1 - 5 + 1 = n - 5 /\ \A i \in 1..n - 5 : 5 + i - 1 = 4 + i /\ 4 + i \in 5..n - 1 /\ 4 + i \in 1..f - 1
      BY <1>1, <1>2
    <2>4. \A i \in 1..n - 5 : b[i] = t[4 + i] /\ t[4 + i] # "/" /\ t[4 + i] # "#"
      BY <1>1, <1>2, <2>2, <2>3
    <2> QED
      BY <2>2, <2>3, <2>4 DEF b
  <1>6. /\ PathAt(t, n) \in Seq(Word) /\ PathAt(t, n) # <<>> /\ PathAt(t, n)[1] = "/"
        /\ \A i \in 1..Len(PathAt(t, n)) : PathAt(t, n)[i] # "#"
    <2> DEFINE p == PathAt(t, n)
    <2>1. CASE n = f
      <3>1. p = <<"/">> /\ "/" \in Word
        BY <2>1, UrlsAssumption DEF PathAt, f, Delimiter
      <3> HIDE DEF p
      <3>2. p \in Seq(Word) /\ p # <<>> /\ p[1] = "/" /\ \A i \in 1..Len(p) : p[i] # "#"
        BY <3>1
      <3> QED
        BY <3>2 DEF p
    <2>2. CASE n # f
      <3> DEFINE b == SubSeq(t, n, f - 1)
      <3>1. n \in 1..Len(t) + 1 /\ f - 1 \in (n - 1)..Len(t) /\ n < f
        BY <1>1, <1>2, <2>2
      <3>2. b \in Seq(Word) /\ Len(b) = f - 1 - n + 1 /\ \A i \in 1..f - 1 - n + 1 : b[i] = t[n + i - 1]
        BY <3>1, PartAt, Zenon
      <3>3. p = b
        BY <2>2 DEF PathAt, f
      <3> HIDE DEF b, p
      <3>4. 1 \in 1..f - 1 - n + 1 /\ n + 1 - 1 = n
        BY <1>1, <1>2, <3>1
      <3>5. b # <<>> /\ b[1] = "/"
        BY <1>1, <3>1, <3>2, <3>4
      <3>6. \A i \in 1..f - 1 - n + 1 : n + i - 1 \in 1..f - 1
        BY <1>1, <1>2
      <3>7. \A i \in 1..Len(b) : b[i] # "#"
        BY <1>2, <3>2, <3>6
      <3> QED
        BY <3>2, <3>3, <3>5, <3>7 DEF p
    <2> QED
      BY <2>1, <2>2
  <1> QED
    BY <1>3, <1>4, <1>5, <1>6

\* They make a normal form.
LEMMA FormAt ==
  ASSUME NEW t \in Seq(Word), IsHttp(t), NEW n, EndsAt(t, n)
  PROVE  IsForm(SchemeOf(t), HostAt(t, n), RestAt(t, n))
  <1> DEFINE scheme == SchemeOf(t)
             b == SubSeq(t, 5, n - 1)
             host == Lower(b)
             rest == PathAt(t, n)
             h == HostAt(t, n)
             r == RestAt(t, n)
  <1>1. scheme \in Schemes /\ scheme[1] \notin DOMAIN LowerOf
    BY AtSays
  <1>2. b \in Seq(Word) /\ \A i \in 1..Len(b) : b[i] # "/" /\ b[i] # "#"
    BY AtSays
  <1>3. rest \in Seq(Word) /\ rest # <<>> /\ rest[1] = "/" /\ \A i \in 1..Len(rest) : rest[i] # "#"
    BY AtSays
  <1> HIDE DEF b, rest
  <1>4. host \in Seq(Word) /\ \A i \in 1..Len(host) : host[i] \notin {"/", "#"} \cup DOMAIN LowerOf
    <2>1. "/" \in Delimiter /\ "#" \in Delimiter
      BY DEF Delimiter
    <2> QED
      BY <1>2, <2>1, LowerSays
  <1>5. h = WithoutDefaultPort(scheme, host) /\ r = WithoutSlash(rest)
    BY DEF HostAt, RestAt, b, rest
  <1> HIDE DEF host, h, r
  <1>6. h \in Seq(Word) /\ \A i \in 1..Len(h) : h[i] \notin {"/", "#"} \cup DOMAIN LowerOf
    <2>1. PICK m \in 0..Len(host) : h = SubSeq(host, 1, m)
      BY <1>4, <1>5, WithoutSays, Zenon
    <2>2. h \in Seq(Word) /\ Len(h) = m /\ \A i \in 1..m : h[i] = host[i]
      BY <1>4, <2>1, CutSays
    <2> QED
      BY <1>4, <2>2
  <1>7. r \in Seq(Word) /\ r # <<>> /\ r[1] = "/" /\ \A i \in 1..Len(r) : r[i] # "#"
    <2>1. PICK m \in 1..Len(rest) : r = SubSeq(rest, 1, m)
      BY <1>3, <1>5, WithoutSays, Zenon
    <2>2. r \in Seq(Word) /\ Len(r) = m /\ \A i \in 1..m : r[i] = rest[i]
      BY <1>3, <2>1, CutSays
    <2> QED
      BY <1>3, <2>2
  <1> QED
    BY <1>1, <1>6, <1>7 DEF IsForm, h, r

\* What the multi-threaded frontier makes of a URL is in the normal form.
LEMMA NormalMT ==
  ASSUME NEW t \in Seq(Word), NormalizeMT(t) # NoUrl
  PROVE  IsNormal(NormalizeMT(t))
  <1>1. PICK n : EndsAt(t, n) /\ NormalizeMT(t) = Whole(SchemeOf(t), HostAt(t, n), RestAt(t, n))
    BY PartsMT, Zenon
  <1>2. IsForm(SchemeOf(t), HostAt(t, n), RestAt(t, n))
    BY <1>1, PartsMT, FormAt, Zenon
  <1> QED
    BY <1>1, <1>2, Zenon DEF IsNormal

-----------------------------------------------------------------------------
(* URLFrontierMT: what normalize_url gives is the page that it was given.  *)

\* What "ends with a colon and the port" means.
LEMMA PortSuffix ==
  ASSUME NEW host \in Seq(Word), Len(host) > 2, NEW d \in Word, IsSuffix(<<":", d>>, host)
  PROVE  host[Len(host) - 1] = ":" /\ host[Len(host)] = d
  <1> DEFINE p == <<":", d>>
             x == Reverse(p)
             y == Reverse(host)
             N == Len(host)
  <1>1. ":" \in Word
    BY UrlsAssumption DEF Delimiter
  <1>2. p \in Seq(Word) /\ Len(p) = 2 /\ p[1] = ":" /\ p[2] = d
    BY <1>1
  <1> HIDE DEF p
  <1>3. x = [i \in 1..2 |-> p[2 - i + 1]]
    BY <1>2 DEF Reverse
  <1>4. x \in Seq(Word) /\ Len(x) = 2 /\ x[1] = d /\ x[2] = ":"
    <2>1. x[1] = d /\ x[2] = ":"
      BY <1>2, <1>3
    <2>2. x \in Seq(Word) /\ Len(x) = 2
      BY <1>2, <1>3
    <2> QED
      BY <2>1, <2>2
  <1>5. N \in Nat /\ N > 2
    OBVIOUS
  <1>6. y = [i \in 1..N |-> host[N - i + 1]]
    BY DEF Reverse
  <1>7. y \in Seq(Word) /\ Len(y) = N /\ y[1] = host[N] /\ y[2] = host[N - 1]
    <2>1. \A i \in 1..N : N - i + 1 \in 1..N
      BY <1>5
    <2>2. \A i \in 1..N : host[N - i + 1] \in Word
      BY <2>1
    <2>3. y \in Seq(Word) /\ Len(y) = N
      BY <1>5, <1>6, <2>2
    <2>4. 1 \in 1..N /\ 2 \in 1..N /\ N - 1 + 1 = N /\ N - 2 + 1 = N - 1
      BY <1>5
    <2>5. y[1] = host[N - 1 + 1] /\ y[2] = host[N - 2 + 1]
      BY <1>6, <2>4
    <2> QED
      BY <2>3, <2>4, <2>5
  <1>8. IsPrefix(x, y)
    BY DEF IsSuffix, p
  <1> HIDE DEF x, y, N
  <1>9. x[1] = y[1] /\ x[2] = y[2]
    <2>1. x \in Seq(Word) /\ y \in Seq(Word)
      BY <1>4, <1>7
    <2>2. \A i \in 1..Len(x) : x[i] = y[i]
      BY <1>8, <2>1, PrefixSays, Zenon
    <2>3. 1 \in 1..Len(x) /\ 2 \in 1..Len(x)
      BY <1>4
    <2> QED
      BY <2>2, <2>3
  <1> QED
    BY <1>4, <1>7, <1>9 DEF N

\* Lower() of the beginning is the beginning of Lower(), and doing it twice is once.
LEMMA LowerCut ==
  ASSUME NEW s \in Seq(Word), NEW n \in 0..Len(s)
  PROVE  /\ SubSeq(Lower(s), 1, n) = Lower(SubSeq(s, 1, n))
         /\ Lower(Lower(s)) = Lower(s)
  <1> DEFINE l == Lower(s)
             b == SubSeq(s, 1, n)
             c == SubSeq(l, 1, n)
  <1>1. /\ l \in Seq(Word) /\ Len(l) = Len(s)
        /\ \A i \in 1..Len(s) : l[i] \notin DOMAIN LowerOf
    BY LowerSays
  <1>2. \A i \in 1..Len(s) : l[i] = IF s[i] \in DOMAIN LowerOf THEN LowerOf[s[i]] ELSE s[i]
    BY DEF Lower
  <1> HIDE DEF l
  <1>3. Lower(l) = l
    BY <1>1, LowerSays
  <1>4. b \in Seq(Word) /\ Len(b) = n /\ \A i \in 1..n : b[i] = s[i]
    BY CutSays, Zenon
  <1>5. c \in Seq(Word) /\ Len(c) = n /\ \A i \in 1..n : c[i] = l[i]
    BY <1>1, CutSays
  <1> HIDE DEF b, c
  <1>6. /\ Lower(b) \in Seq(Word) /\ Len(Lower(b)) = n
        /\ \A i \in 1..n : Lower(b)[i] = IF b[i] \in DOMAIN LowerOf THEN LowerOf[b[i]] ELSE b[i]
    BY <1>4, LowerSays DEF Lower
  <1>7. \A i \in 1..n : i \in 1..Len(s)
    OBVIOUS
  <1>8. \A i \in 1..n : c[i] = Lower(b)[i]
    BY <1>2, <1>4, <1>5, <1>6, <1>7
  <1>9. c = Lower(b)
    BY <1>5, <1>6, <1>8, SeqEqual
  <1> QED
    BY <1>3, <1>9 DEF b, c, l

\* The name and the port of a host, as resources have them.
NameIn(host) == Lower(Before(host, First(host, {":"}, 1)))
PortIn(scheme, host) ==
  LET colon == First(host, {":"}, 1)
  IN IF colon < Len(host) THEN host[colon + 1] ELSE DefaultPort[scheme[1]]

\* In lower case and without the default port a host has the name and the port that
\* it had, if that was a number.
LEMMA HostKept ==
  ASSUME NEW scheme \in Schemes, NEW raw \in Seq(Word), PortIn(scheme, raw) \in DOMAIN NumberOf
  PROVE  LET h == WithoutDefaultPort(scheme, Lower(raw))
         IN NameIn(h) = NameIn(raw) /\ PortIn(scheme, h) = PortIn(scheme, raw)
  <1> DEFINE host == Lower(raw)
             h == WithoutDefaultPort(scheme, host)
             c == First(raw, {":"}, 1)
             d == DefaultPort[scheme[1]]
             N == Len(raw)
  <1>1. /\ host \in Seq(Word) /\ Len(host) = N
        /\ \A i \in 1..N : host[i] = ":" <=> raw[i] = ":"
        /\ \A i \in 1..N : host[i] = IF raw[i] \in DOMAIN LowerOf THEN LowerOf[raw[i]] ELSE raw[i]
    <2>1. /\ host \in Seq(Word) /\ Len(host) = N
          /\ \A i \in 1..N, x \in Delimiter : host[i] = x <=> raw[i] = x
      BY LowerSays
    <2>2. \A i \in 1..N : host[i] = IF raw[i] \in DOMAIN LowerOf THEN LowerOf[raw[i]] ELSE raw[i]
      BY DEF Lower
    <2>3. ":" \in Delimiter
      BY DEF Delimiter
    <2> HIDE DEF host
    <2> QED
      BY <2>1, <2>2, <2>3
  <1>2. c \in 1..N + 1 /\ (\A i \in 1..c - 1 : raw[i] # ":") /\ (c <= N => raw[c] = ":")
    <2>1. 1 \in 1..N + 1
      OBVIOUS
    <2>2. /\ c \in 1..N + 1 /\ (\A i \in 1..c - 1 : raw[i] \notin {":"}) /\ (c <= N => raw[c] \in {":"})
      BY <2>1, FirstSays, Zenon
    <2> HIDE DEF c
    <2> QED
      BY <2>2
  <1>3. N \in Nat /\ d \in {"80", "443"} /\ d \in Word
    BY SchemesSay, WordsSay
  <1>4. /\ \A w \in DOMAIN NumberOf : w \notin Delimiter /\ w \notin DOMAIN LowerOf
        /\ ":" \in Delimiter
    BY UrlsAssumption DEF Delimiter
  <1>5. PortIn(scheme, raw) = IF c < N THEN raw[c + 1] ELSE d
    BY Zenon DEF PortIn
  <1>6. NameIn(raw) = SubSeq(host, 1, c - 1)
    <2>1. NameIn(raw) = Lower(SubSeq(raw, 1, c - 1))
      BY Zenon DEF NameIn, Before
    <2>2. c - 1 \in 0..N
      BY <1>2, <1>3
    <2> HIDE DEF c
    <2>3. SubSeq(Lower(raw), 1, c - 1) = Lower(SubSeq(raw, 1, c - 1))
      BY <2>2, LowerCut, Zenon
    <2> QED
      BY <2>1, <2>3
  <1>7. Lower(host) = host
    <2>1. 0 \in 0..Len(raw)
      OBVIOUS
    <2> QED
      BY <2>1, LowerCut, Zenon
  <1> HIDE DEF host, c, d
  <1>8. c < N => host[c + 1] = raw[c + 1] /\ raw[c + 1] \in DOMAIN NumberOf
    <2> SUFFICES ASSUME c < N PROVE host[c + 1] = raw[c + 1] /\ raw[c + 1] \in DOMAIN NumberOf
      OBVIOUS
    <2>1. c + 1 \in 1..N
      BY <1>2, <1>3
    <2>2. raw[c + 1] \in DOMAIN NumberOf
      BY <1>5
    <2> QED
      BY <1>1, <1>4, <2>1, <2>2
  <1>9. ASSUME NEW m \in 0..N, m >= c - 1, h = SubSeq(host, 1, m)
        PROVE  First(h, {":"}, 1) = (IF c <= m THEN c ELSE m + 1) /\ NameIn(h) = SubSeq(host, 1, c - 1)
               /\ h \in Seq(Word) /\ Len(h) = m
    <2>1. h \in Seq(Word) /\ Len(h) = m /\ \A i \in 1..m : h[i] = host[i]
      BY <1>1, <1>9, CutSays
    <2>2. h = SubSeq(host, 1, m)
      BY <1>9
    <2> HIDE DEF h
    <2> DEFINE k == IF c <= m THEN c ELSE m + 1
    <2>3. k \in 1..Len(h) + 1 /\ 1 \in 1..Len(h) + 1
      BY <1>2, <1>3, <2>1
    <2>4. ASSUME NEW i \in 1..k - 1 PROVE h[i] \notin {":"}
      <3>1. i \in 1..m /\ i \in 1..c - 1 /\ i \in 1..N
        BY <1>2, <1>3, <2>3
      <3> QED
        BY <1>1, <1>2, <2>1, <3>1
    <2>5. k <= Len(h) => h[k] \in {":"}
      <3> SUFFICES ASSUME k <= Len(h) PROVE h[k] \in {":"}
        OBVIOUS
      <3>1. k = c /\ c \in 1..m /\ c \in 1..N
        BY <1>2, <1>3, <2>1, <2>3
      <3> QED
        BY <1>1, <1>2, <2>1, <3>1
    <2>6. k - 1 = c - 1
      BY <1>2, <1>9
    <2> HIDE DEF k
    <2>7. First(h, {":"}, 1) = k
      BY <2>1, <2>3, <2>4, <2>5, FirstIs, Zenon
    <2>8. NameIn(h) = Lower(SubSeq(h, 1, k - 1))
      BY <2>7, Zenon DEF NameIn, Before
    <2>9. SubSeq(h, 1, c - 1) = SubSeq(host, 1, c - 1)
      <3>1. m \in 0..Len(host) /\ 1 \in Nat \ {0} /\ c - 1 \in 0..m
        BY <1>1, <1>2, <1>9
      <3> QED
        BY <1>1, <2>2, <3>1, PartOfCut
    <2>10. Lower(SubSeq(host, 1, c - 1)) = SubSeq(host, 1, c - 1)
      <3>1. c - 1 \in 0..Len(host)
        BY <1>1, <1>2, <1>3
      <3>2. SubSeq(Lower(host), 1, c - 1) = Lower(SubSeq(host, 1, c - 1))
        BY <1>1, <3>1, LowerCut, Zenon
      <3> QED
        BY <1>7, <3>2
    <2> QED
      BY <2>1, <2>6, <2>7, <2>8, <2>9, <2>10 DEF k
  <1> SUFFICES NameIn(h) = NameIn(raw) /\ PortIn(scheme, h) = PortIn(scheme, raw)
    BY DEF host
  <1> HIDE DEF h
  <1>10. CASE h = host
    <2>1. h = SubSeq(host, 1, N) /\ N \in 0..N /\ N >= c - 1
      BY <1>1, <1>2, <1>3, <1>10, SubSeqFull
    <2>2. First(h, {":"}, 1) = (IF c <= N THEN c ELSE N + 1) /\ NameIn(h) = SubSeq(host, 1, c - 1) /\ Len(h) = N
      BY <1>9, <2>1
    <2>3. First(h, {":"}, 1) = c
      BY <1>2, <2>2
    <2>4. PortIn(scheme, h) = IF c < N THEN h[c + 1] ELSE d
      BY <2>2, <2>3 DEF PortIn, d
    <2> QED
      BY <1>5, <1>6, <1>8, <1>10, <2>2, <2>4
  <1>11. CASE h # host
    <2>1. N > 2 /\ IsSuffix(<<":", d>>, host) /\ h = SubSeq(host, 1, N - 2)
      <3>1. Len(host) > 2 /\ IsSuffix(<<":", d>>, host) /\ h = SubSeq(host, 1, Len(host) - 1 - 1)
        BY <1>11, Zenon DEF WithoutDefaultPort, d, Before, h
      <3>2. N - 1 - 1 = N - 2
        BY <1>3
      <3> QED
        BY <1>1, <3>1, <3>2
    <2>2. host[N - 1] = ":" /\ host[N] = d
      BY <1>1, <1>3, <2>1, PortSuffix
    <2>a. N - 1 \in 1..N
      BY <1>3, <2>1
    <2>3. N - 1 \in 1..N /\ raw[N - 1] = ":"
      BY <1>1, <2>a, <2>2
    <2>4. c <= N - 1
      BY <1>2, <1>3, <2>3
    <2>5. c # N - 2
      <3> SUFFICES ASSUME c = N - 2 PROVE FALSE
        OBVIOUS
      <3>1. c < N /\ c + 1 = N - 1
        BY <1>3
      <3>2. raw[N - 1] \in DOMAIN NumberOf
        BY <1>8, <3>1
      <3> QED
        BY <1>4, <2>3, <3>2
    <2> DEFINE m == N - 2
    <2>6. m \in 0..N /\ m >= c - 1
      BY <1>2, <1>3, <2>1, <2>4
    <2>7. /\ First(h, {":"}, 1) = (IF c <= m THEN c ELSE m + 1) /\ NameIn(h) = SubSeq(host, 1, c - 1)
          /\ h \in Seq(Word) /\ Len(h) = m
      <3> HIDE DEF m, h
      <3>1. h = SubSeq(host, 1, m)
        BY <2>1 DEF m
      <3> QED
        BY <1>9, <2>6, <3>1
    <2>8. PortIn(scheme, h) = PortIn(scheme, raw)
      <3> DEFINE k == First(h, {":"}, 1)
      <3>1. PortIn(scheme, h) = IF k < Len(h) THEN h[k + 1] ELSE d
        BY Zenon DEF PortIn, d
      <3> HIDE DEF k
      <3>2. CASE c = N - 1
        <4>1. k = m + 1 /\ ~(k < Len(h))
          BY <1>3, <2>7, <3>2 DEF k
        <4>2. PortIn(scheme, h) = d
          BY <3>1, <4>1
        <4>3. c < N /\ c + 1 = N
          BY <1>3, <3>2
        <4>4. PortIn(scheme, raw) = d
          BY <1>5, <1>8, <2>2, <4>3
        <4> QED
          BY <4>2, <4>4
      <3>3. CASE c < m
        <4>1. k = c /\ k < Len(h) /\ c < N
          BY <1>2, <1>3, <2>7, <3>3 DEF k
        <4>2. c + 1 \in 1..m
          BY <1>2, <1>3, <3>3
        <4>3. h[c + 1] = host[c + 1]
          <5>1. m \in 0..Len(host)
            BY <1>1, <2>6
          <5>2. \A i \in 1..m : SubSeq(host, 1, m)[i] = host[i]
            <6> HIDE DEF m
            <6> QED
              BY <1>1, <5>1, CutSays, Zenon
          <5> HIDE DEF h
          <5> QED
            BY <2>1, <4>2, <5>2
        <4> HIDE DEF h, m
        <4> QED
          BY <1>5, <1>8, <3>1, <4>1, <4>3
      <3>4. c = N - 1 \/ c < m
        BY <1>2, <1>3, <2>4, <2>5
      <3> QED
        BY <3>2, <3>3, <3>4
    <2> QED
      BY <1>6, <2>7, <2>8
  <1> QED
    BY <1>10, <1>11

\* The path and the query of what is asked of a server, as resources have them.
PathOf(target) ==
  LET path == Before(target, First(target, {"?"}, 1)) IN IF path = <<>> THEN <<"/">> ELSE path
QueryOf(target) == From(target, First(target, {"?"}, 1))

\* Without a question mark all is the path.
LEMMA AllPath ==
  ASSUME NEW s \in Seq(Word), \A i \in 1..Len(s) : s[i] # "?"
  PROVE  PathOf(s) = (IF s = <<>> THEN <<"/">> ELSE s) /\ QueryOf(s) = <<>>
  <1> DEFINE f == First(s, {"?"}, 1)
  <1>1. 1 \in 1..Len(s) + 1 /\ Len(s) + 1 \in 1..Len(s) + 1
    OBVIOUS
  <1>2. /\ f \in 1..Len(s) + 1
        /\ f <= Len(s) => s[f] \in {"?"}
    BY <1>1, FirstSays, Zenon
  <1> HIDE DEF f
  <1>3. f = Len(s) + 1
    <2>1. f <= Len(s) => f \in 1..Len(s)
      BY <1>2
    <2> QED
      BY <1>2, <2>1
  <1>4. Before(s, f) = s
    <2>1. f - 1 = Len(s)
      BY <1>3
    <2> QED
      BY <2>1, SubSeqFull DEF Before
  <1>5. From(s, f) = <<>>
    BY <1>3, SubSeqEmpty DEF From
  <1>6. PathOf(s) = IF s = <<>> THEN <<"/">> ELSE s
    BY <1>4, Zenon DEF PathOf, f
  <1>7. QueryOf(s) = <<>>
    BY <1>5, Zenon DEF QueryOf, f
  <1> QED
    BY <1>6, <1>7

\* The slash that the frontier takes off makes no other page.
LEMMA TargetKept ==
  ASSUME NEW p \in Seq(Word), p # <<>>
  PROVE  /\ Unslashed(PathOf(WithoutSlash(p))) = Unslashed(PathOf(p))
         /\ QueryOf(WithoutSlash(p)) = QueryOf(p)
  <1>1. CASE Len(p) > 1 /\ Last(p) = "/" /\ ~Contains(p, "?")
    <2> DEFINE b == SubSeq(p, 1, Len(p) - 1)
    <2>1. WithoutSlash(p) = b
      BY <1>1, Zenon DEF WithoutSlash, Front
    <2>2. \A i \in 1..Len(p) : p[i] # "?"
      BY <1>1, Zenon DEF Contains
    <2>3. Len(p) > 1 /\ p[Len(p)] = "/"
      BY <1>1, Zenon DEF Last
    <2>4. Unslashed(b) = Unslashed(p)
      BY <2>3, UnslashedShorter
    <2>5. Len(p) - 1 \in 0..Len(p)
      BY <2>3
    <2>6. b \in Seq(Word) /\ Len(b) = Len(p) - 1 /\ \A i \in 1..Len(p) - 1 : b[i] = p[i]
      BY <2>5, CutSays, Zenon
    <2> HIDE DEF b
    <2>7. b # <<>> /\ \A i \in 1..Len(b) : b[i] # "?"
      BY <2>2, <2>3, <2>6
    <2>8. PathOf(b) = b /\ QueryOf(b) = <<>> /\ PathOf(p) = p /\ QueryOf(p) = <<>>
      BY <2>2, <2>6, <2>7, AllPath
    <2> QED
      BY <2>1, <2>4, <2>8
  <1>2. CASE ~(Len(p) > 1 /\ Last(p) = "/" /\ ~Contains(p, "?"))
    BY <1>2, Zenon DEF WithoutSlash
  <1> QED
    BY <1>1, <1>2

\* Where there is no path, the path is a slash.
LEMMA RootSays == PathOf(<<"/">>) = PathOf(<<>>) /\ QueryOf(<<"/">>) = QueryOf(<<>>)
  <1>1. "/" \in Word
    BY UrlsAssumption DEF Delimiter
  <1> DEFINE s == <<"/">>
             o == <<>>
  <1>2. s \in Seq(Word) /\ s # <<>> /\ \A i \in 1..Len(s) : s[i] # "?"
    BY <1>1
  <1>3. o \in Seq(Word) /\ o = <<>> /\ \A i \in 1..Len(o) : o[i] # "?"
    OBVIOUS
  <1> HIDE DEF s, o
  <1>4. PathOf(s) = s /\ QueryOf(s) = <<>>
    BY <1>2, AllPath
  <1>5. PathOf(o) = <<"/">> /\ QueryOf(o) = <<>>
    BY <1>3, AllPath
  <1> QED
    BY <1>4, <1>5 DEF s, o

\* The fields of a page.
LEMMA PageIs ==
  ASSUME NEW s, NEW h, NEW o, NEW p, NEW q
  PROVE  Page([scheme |-> s, host |-> h, port |-> o, path |-> p, query |-> q]) =
           [scheme |-> s, host |-> h, port |-> o, path |-> DecodeUnreserved(Unslashed(p)),
            query |-> IF q = <<"?">> THEN <<>> ELSE q]
  <1> DEFINE r == [scheme |-> s, host |-> h, port |-> o, path |-> p, query |-> q]
             d == DecodeUnreserved(Unslashed(r.path))
             e == IF r.query = <<"?">> THEN <<>> ELSE r.query
  <1>1. Page(r) = [[r EXCEPT !.path = d] EXCEPT !.query = e]
    BY Zenon DEF Page
  <1>2. d = DecodeUnreserved(Unslashed(p)) /\ e = IF q = <<"?">> THEN <<>> ELSE q
    <2>1. r.path = p /\ r.query = q
      OBVIOUS
    <2> HIDE DEF r
    <2> QED
      BY <2>1
  <1> HIDE DEF d, e
  <1>3. Page(r) = [scheme |-> s, host |-> h, port |-> o, path |-> d, query |-> e]
    BY <1>1
  <1> QED
    BY <1>2, <1>3

\* The fields of what is located, and those of its page.
LEMMA LocatedIs ==
  ASSUME NEW scheme, NEW host, NEW target
  PROVE  /\ Located(scheme, host, target) =
              [scheme |-> scheme, host |-> NameIn(host), port |-> PortIn(scheme, host),
               path |-> PathOf(target), query |-> QueryOf(target)]
         /\ Page(Located(scheme, host, target)) =
              [scheme |-> scheme, host |-> NameIn(host), port |-> PortIn(scheme, host),
               path |-> DecodeUnreserved(Unslashed(PathOf(target))),
               query |-> IF QueryOf(target) = <<"?">> THEN <<>> ELSE QueryOf(target)]
  <1>1. Located(scheme, host, target) =
              [scheme |-> scheme, host |-> NameIn(host), port |-> PortIn(scheme, host),
               path |-> PathOf(target), query |-> QueryOf(target)]
    BY DEF Located, NameIn, PortIn, PathOf, QueryOf
  <1> DEFINE a == NameIn(host)
             b == PortIn(scheme, host)
             c == PathOf(target)
             d == QueryOf(target)
  <1>2. Page([scheme |-> scheme, host |-> a, port |-> b, path |-> c, query |-> d]) =
           [scheme |-> scheme, host |-> a, port |-> b, path |-> DecodeUnreserved(Unslashed(c)),
            query |-> IF d = <<"?">> THEN <<>> ELSE d]
    <2> HIDE DEF a, b, c, d
    <2> QED
      BY PageIs
  <1> QED
    BY <1>1, <1>2, Zenon

\* The same page is another name for the same.
LEMMA SamePage ==
  ASSUME NEW scheme, NEW h, NEW g, NEW r, NEW p,
         NameIn(h) = NameIn(g), PortIn(scheme, h) = PortIn(scheme, g),
         Unslashed(PathOf(r)) = Unslashed(PathOf(p)), QueryOf(r) = QueryOf(p)
  PROVE  Page(Located(scheme, h, r)) = Page(Located(scheme, g, p))
  BY LocatedIs

\* A query without a path, of a normal form, is in its host.
LEMMA NoPathSays ==
  ASSUME NEW scheme, NEW host, NEW rest, IsForm(scheme, host, rest)
  PROVE  NoPath(Whole(scheme, host, rest)) <=> \E i \in 1..Len(host) : host[i] = "?"
  <1> DEFINE u == Whole(scheme, host, rest)
             q == First(u, {"?"}, 1)
             e == SchemeEnd(u)
  <1>1. e = 2 /\ First(u, {"/"}, 5) = 5 + Len(host) /\ 5 + Len(host) <= Len(u)
    BY FormSays DEF ReadsAs
  <1>2. NoPath(u) <=> q < First(u, {"/"}, e + 3)
    BY Zenon DEF NoPath
  <1>3. scheme \in Schemes /\ host \in Seq(Word) /\ rest \in Seq(Word)
    BY DEF IsForm
  <1>4. /\ u \in Seq(Word) /\ u[1] = scheme[1] /\ u[2] = ":" /\ u[3] = "/" /\ u[4] = "/"
        /\ \A i \in 1..Len(host) : u[4 + i] = host[i]
    BY <1>3, WholeSays DEF HasParts
  <1>5. scheme[1] \in {"http", "https"}
    BY <1>3, SchemesSay
  <1>6. q \in 1..Len(u) + 1 /\ (\A i \in 1..q - 1 : u[i] # "?") /\ (q <= Len(u) => u[q] = "?")
    <2> HIDE DEF u
    <2>1. 1 \in 1..Len(u) + 1
      BY <1>4
    <2>2. q \in 1..Len(u) + 1 /\ (\A i \in 1..q - 1 : u[i] \notin {"?"}) /\ (q <= Len(u) => u[q] \in {"?"})
      BY <1>4, <2>1, FirstSays, Zenon
    <2> HIDE DEF q
    <2> QED
      BY <2>2
  <1> HIDE DEF u, q, e
  <1>7. NoPath(u) <=> q < 5 + Len(host)
    <2>1. e + 3 = 5
      BY <1>1
    <2> QED
      BY <1>1, <1>2, <2>1
  <1>8. ASSUME q < 5 + Len(host) PROVE \E i \in 1..Len(host) : host[i] = "?"
    <2>1. q <= Len(u) /\ u[q] = "?"
      BY <1>1, <1>3, <1>4, <1>6, <1>8
    <2>2. q # 1 /\ q # 2 /\ q # 3 /\ q # 4
      BY <1>4, <1>5, <2>1
    <2>3. q - 4 \in 1..Len(host) /\ 4 + (q - 4) = q
      BY <1>3, <1>6, <1>8, <2>2
    <2>4. host[q - 4] = "?"
      BY <1>4, <2>1, <2>3
    <2> QED
      BY <2>3, <2>4
  <1>9. ASSUME NEW i \in 1..Len(host), host[i] = "?" PROVE q < 5 + Len(host)
    <2>1. u[4 + i] = "?"
      BY <1>4, <1>9
    <2>2. ~(4 + i \in 1..q - 1)
      BY <1>6, <2>1
    <2> QED
      BY <1>3, <1>6, <2>2
  <1> QED
    BY <1>7, <1>8, <1>9 DEF u

\* A default port hides no question mark.
LEMMA HostBegins ==
  ASSUME NEW scheme \in Schemes, NEW raw \in Seq(Word)
  PROVE  (\E i \in 1..Len(raw) : raw[i] = "?")
         <=> LET h == WithoutDefaultPort(scheme, Lower(raw)) IN \E i \in 1..Len(h) : h[i] = "?"
  <1> DEFINE host == Lower(raw)
             h == WithoutDefaultPort(scheme, host)
             d == DefaultPort[scheme[1]]
             N == Len(raw)
  <1>1. host \in Seq(Word) /\ Len(host) = N /\ \A i \in 1..N : host[i] = "?" <=> raw[i] = "?"
    <2>1. "?" \in Delimiter
      BY DEF Delimiter
    <2> QED
      BY <2>1, LowerSays
  <1>2. d \in {"80", "443"} /\ d \in Word
    BY SchemesSay, UrlsAssumption
  <1> SUFFICES (\E i \in 1..N : raw[i] = "?") <=> \E i \in 1..Len(h) : h[i] = "?"
    BY Zenon
  <1> HIDE DEF host, d
  <1>3. CASE Len(host) > 2 /\ IsSuffix(<<":", d>>, host)
    <2> DEFINE m == N - 2
    <2>1. h = SubSeq(host, 1, Len(host) - 1 - 1)
      BY <1>3, Zenon DEF WithoutDefaultPort, Before, d
    <2>2. Len(host) - 1 - 1 = m /\ m \in 0..Len(host)
      BY <1>1, <1>3
    <2> HIDE DEF m, h
    <2>3. h \in Seq(Word) /\ Len(h) = m /\ \A i \in 1..m : h[i] = host[i]
      BY <1>1, <2>1, <2>2, CutSays
    <2>4. host[Len(host) - 1] = ":" /\ host[Len(host)] = d
      BY <1>1, <1>2, <1>3, PortSuffix
    <2>5. ASSUME NEW i \in 1..N, raw[i] = "?" PROVE \E j \in 1..Len(h) : h[j] = "?"
      <3>1. host[i] = "?"
        BY <1>1, <2>5
      <3>2. i # N /\ i # N - 1
        BY <1>1, <1>2, <2>4, <3>1
      <3>3. i \in 1..m
        BY <3>2 DEF m
      <3>4. i \in 1..Len(h) /\ h[i] = "?"
        BY <2>3, <3>1, <3>3
      <3> QED
        BY <3>4
    <2>6. ASSUME NEW i \in 1..Len(h), h[i] = "?" PROVE \E j \in 1..N : raw[j] = "?"
      <3>1. i \in 1..m /\ i \in 1..N
        BY <1>1, <2>2, <2>3
      <3>2. raw[i] = "?"
        BY <1>1, <2>3, <2>6, <3>1
      <3> QED
        BY <3>1, <3>2
    <2> QED
      BY <2>5, <2>6
  <1>4. CASE ~(Len(host) > 2 /\ IsSuffix(<<":", d>>, host))
    <2>1. h = host
      BY <1>4, Zenon DEF WithoutDefaultPort, d
    <2> HIDE DEF h
    <2> QED
      BY <1>1, <2>1
  <1> QED
    BY <1>3, <1>4

\* The host that the frontier reads has a question mark where its normal form has one.
LEMMA NoPathMT ==
  ASSUME NEW t \in Seq(Word), IsHttp(t), NEW n, EndsAt(t, n)
  PROVE  NoPath(Whole(SchemeOf(t), HostAt(t, n), RestAt(t, n))) <=> \E i \in 5..n - 1 : t[i] = "?"
  <1> DEFINE raw == SubSeq(t, 5, n - 1)
             h == HostAt(t, n)
  <1>1. IsForm(SchemeOf(t), h, RestAt(t, n))
    BY FormAt
  <1>2. NoPath(Whole(SchemeOf(t), h, RestAt(t, n))) <=> \E i \in 1..Len(h) : h[i] = "?"
    BY <1>1, NoPathSays
  <1>3. /\ SchemeOf(t) \in Schemes
        /\ raw \in Seq(Word) /\ Len(raw) = n - 5 /\ \A i \in 1..n - 5 : raw[i] = t[4 + i]
    BY AtSays
  <1>4. h = WithoutDefaultPort(SchemeOf(t), Lower(raw))
    BY DEF HostAt
  <1> HIDE DEF raw, h
  <1>5. (\E i \in 1..Len(raw) : raw[i] = "?") <=> \E i \in 1..Len(h) : h[i] = "?"
    BY <1>3, <1>4, HostBegins, Zenon
  <1>6. n \in Nat /\ n >= 5
    <2>1. n \in 5..Fragment(t) /\ Fragment(t) \in 5..Len(t) + 1
      BY FragmentSays DEF EndsAt
    <2> QED
      BY <2>1
  <1>7. (\E i \in 1..Len(raw) : raw[i] = "?") <=> \E i \in 5..n - 1 : t[i] = "?"
    <2>1. ASSUME NEW i \in 1..Len(raw), raw[i] = "?" PROVE \E j \in 5..n - 1 : t[j] = "?"
      <3>1. 4 + i \in 5..n - 1 /\ t[4 + i] = "?"
        BY <1>3, <1>6, <2>1
      <3> QED
        BY <3>1
    <2>2. ASSUME NEW j \in 5..n - 1, t[j] = "?" PROVE \E i \in 1..Len(raw) : raw[i] = "?"
      <3>1. j - 4 \in 1..n - 5 /\ 4 + (j - 4) = j
        BY <1>6
      <3>2. raw[j - 4] = "?" /\ j - 4 \in 1..Len(raw)
        BY <1>3, <2>2, <3>1
      <3> QED
        BY <3>2
    <2> QED
      BY <2>1, <2>2
  <1> QED
    BY <1>2, <1>5, <1>7 DEF h

\* What the multi-threaded frontier makes of a URL is the same page.
LEMMA PageMT ==
  ASSUME NEW t \in Seq(Word), NormalizeMT(t) # NoUrl, ~NoPath(NormalizeMT(t)),
         Resource(t).port \in DOMAIN NumberOf
  PROVE  PageOf(NormalizeMT(t)) = PageOf(t)
  <1>1. IsHttp(t)
    BY PartsMT
  <1>2. PICK n : EndsAt(t, n) /\ NormalizeMT(t) = Whole(SchemeOf(t), HostAt(t, n), RestAt(t, n))
    BY PartsMT, Zenon
  <1> DEFINE f == Fragment(t)
             s == SchemeOf(t)
             raw == SubSeq(t, 5, n - 1)
             h == HostAt(t, n)
             p == PathAt(t, n)
             g == SubSeq(t, n, f - 1)
             r == RestAt(t, n)
  <1>3. n \in 5..f /\ (\A i \in 5..n - 1 : t[i] # "/") /\ (n < f => t[n] = "/")
    BY <1>2 DEF EndsAt
  <1>4. \A i \in 5..n - 1 : t[i] # "?"
    BY <1>1, <1>2, NoPathMT
  <1>5. Resource(t) = Located(s, raw, g)
    <2>1. n \in 5..Fragment(t) /\ (\A i \in 5..n - 1 : t[i] \notin {"/", "?"})
          /\ (n < Fragment(t) => t[n] \in {"/", "?"})
      BY <1>3, <1>4
    <2> QED
      BY <1>1, <2>1, ResourceIs, Zenon DEF SchemeOf
  <1>6. IsForm(s, h, r)
    BY <1>1, <1>2, FormAt
  <1>7. /\ s \in Schemes /\ raw \in Seq(Word) /\ p \in Seq(Word) /\ p # <<>>
    BY <1>1, <1>2, AtSays
  <1>8. f \in Nat
    BY <1>1, FragmentSays
  <1>9. h = WithoutDefaultPort(s, Lower(raw)) /\ r = WithoutSlash(p)
    BY DEF HostAt, RestAt
  <1>10. PathOf(p) = PathOf(g) /\ QueryOf(p) = QueryOf(g)
    <2>1. CASE n = f
      <3>1. p = <<"/">>
        BY <2>1, Zenon DEF PathAt
      <3>2. g = <<>>
        BY <1>8, <2>1, SubSeqEmpty
      <3> QED
        BY <3>1, <3>2, RootSays, Zenon
    <2>2. CASE n # f
      <3>1. p = g
        BY <2>2, Zenon DEF PathAt
      <3> QED
        BY <3>1, Zenon
    <2> QED
      BY <2>1, <2>2
  <1>11. \A i \in 1..Len(h) : h[i] # "?"
    BY <1>2, <1>6, NoPathSays
  <1>12. Resource(NormalizeMT(t)) = Located(s, h, r)
    BY <1>2, <1>6, <1>11, ResourceSays, Zenon
  <1> HIDE DEF s, raw, h, p, g, r, f
  <1>13. PortIn(s, raw) \in DOMAIN NumberOf
    <2>1. Located(s, raw, g).port = PortIn(s, raw)
      BY LocatedIs
    <2> QED
      BY <1>5, <2>1
  <1>14. NameIn(h) = NameIn(raw) /\ PortIn(s, h) = PortIn(s, raw)
    BY <1>7, <1>9, <1>13, HostKept, Zenon
  <1>15. Unslashed(PathOf(r)) = Unslashed(PathOf(g)) /\ QueryOf(r) = QueryOf(g)
    BY <1>7, <1>9, <1>10, TargetKept
  <1>16. Page(Located(s, h, r)) = Page(Located(s, raw, g))
    BY <1>14, <1>15, SamePage
  <1>17. PageOf(t) = Page(Located(s, raw, g))
    BY <1>5 DEF PageOf
  <1>18. PageOf(NormalizeMT(t)) = Page(Located(s, h, r))
    BY <1>12 DEF PageOf
  <1> QED
    BY <1>16, <1>17, <1>18

\* Normalised again, a normal form gets no query into its host.
LEMMA PathStays ==
  ASSUME NEW u, IsNormal(u), ~NoPath(u), NormalizeMT(u) # NoUrl
  PROVE  ~NoPath(NormalizeMT(u))
  <1>1. PICK s, h, r : IsForm(s, h, r) /\ u = Whole(s, h, r)
    BY Zenon DEF IsNormal
  <1>2. s \in Schemes /\ h \in Seq(Word) /\ r \in Seq(Word)
    BY <1>1 DEF IsForm
  <1>3. /\ u \in Seq(Word) /\ Len(u) = 4 + Len(h) + Len(r)
        /\ \A i \in 1..Len(h) : u[4 + i] = h[i]
        /\ \A i \in 1..Len(r) : u[4 + Len(h) + i] = r[i]
    <2>1. HasParts(u, s, h, r)
      BY <1>1, <1>2, WholeSays
    <2> QED
      BY <2>1 DEF HasParts
  <1>4. IsHttp(u)
    BY <1>3, PartsMT
  <1>5. PICK n : EndsAt(u, n) /\ NormalizeMT(u) = Whole(SchemeOf(u), HostAt(u, n), RestAt(u, n))
    BY <1>3, PartsMT, Zenon
  <1>6. n \in 5..Fragment(u) /\ (\A i \in 5..n - 1 : u[i] # "/") /\ Fragment(u) \in 5..Len(u) + 1
    BY <1>3, <1>4, <1>5, FragmentSays DEF EndsAt
  <1>7. u[5 + Len(h)] = "/"
    <2>1. 1 \in 1..Len(r) /\ r[1] = "/" /\ 4 + Len(h) + 1 = 5 + Len(h)
      BY <1>1, <1>2 DEF IsForm
    <2>2. u[4 + Len(h) + 1] = r[1]
      BY <1>3, <2>1
    <2> QED
      BY <2>1, <2>2
  <1>8. n <= 5 + Len(h)
    <2>1. Len(h) \in Nat
      BY <1>2
    <2>2. ~(5 + Len(h) \in 5..n - 1)
      BY <1>6, <1>7
    <2> QED
      BY <1>6, <2>1, <2>2
  <1>9. \A i \in 1..Len(h) : h[i] # "?"
    BY <1>1, NoPathSays
  <1>10. ASSUME NEW i \in 5..n - 1 PROVE u[i] # "?"
    <2>1. i - 4 \in 1..Len(h) /\ 4 + (i - 4) = i
      BY <1>2, <1>6, <1>8
    <2> QED
      BY <1>3, <1>9, <2>1
  <1> QED
    BY <1>3, <1>4, <1>5, <1>10, NoPathMT

-----------------------------------------------------------------------------
(* URLNormalizer: what it gives is the page that it was given.             *)

\* Where the path of a URL begins and where it ends: a query or the fragment begins
\* there, or the URL ends.
PathLies(t, n, k) ==
  /\ n \in 5..Fragment(t) /\ \A i \in 5..n - 1 : t[i] \notin {"/", "?"}
  /\ n < Fragment(t) => t[n] \in {"/", "?"}
  /\ k \in n..Fragment(t) /\ \A i \in n..k - 1 : t[i] # "?"
  /\ k < Fragment(t) => t[k] = "?"

\* The port of a host that parse() takes.
PortGiven(host) ==
  LET colon == First(host, {":"}, 1)
  IN IF colon < Len(host) /\ host[colon + 1] \in DOMAIN NumberOf THEN host[colon + 1] ELSE NoPort

PathLying(t, n, k) == IF k = n THEN <<"/">> ELSE SubSeq(t, n, k - 1)

\* What parse() takes for the query of what follows the path.
QueryGiven(after) ==
  IF StartsWith(after, {"?"}) THEN SubSeq(after, 2, First(after, {"#"}, 1) - 1) ELSE <<>>

\* It is all after the question mark and before the fragment.
LEMMA QueryAt ==
  ASSUME NEW t \in Seq(Word), IsHttp(t), NEW k \in 5..Fragment(t), k < Fragment(t) => t[k] = "?"
  PROVE  QueryGiven(From(t, k)) = SubSeq(t, k + 1, Fragment(t) - 1)
  <1> DEFINE f == Fragment(t)
             L == Len(t)
             a == From(t, k)
  <1>1. f \in 5..L + 1 /\ (\A i \in 1..f - 1 : t[i] # "#") /\ (f <= L => t[f] = "#")
    BY FragmentSays
  <1>2. k \in 5..f /\ (k < f => t[k] = "?")
    OBVIOUS
  <1>3. L \in Nat /\ a = SubSeq(t, k, L)
    BY DEF From
  <1> HIDE DEF f, L, a
  <1>4. a \in Seq(Word) /\ Len(a) = L - k + 1 /\ \A i \in 1..L - k + 1 : a[i] = t[k + i - 1]
    <2>1. k \in 1..L + 1 /\ L \in (k - 1)..L
      BY <1>1, <1>2, <1>3
    <2> QED
      BY <1>3, <2>1, PartAt DEF L
  <1>5. CASE k < f
    <2>1. a # <<>> /\ a[1] = "?"
      <3>1. 1 \in 1..L - k + 1 /\ k + 1 - 1 = k
        BY <1>1, <1>2, <1>3, <1>5
      <3> QED
        BY <1>2, <1>4, <1>5, <3>1
    <2> DEFINE m == f - k + 1
    <2>2. First(a, {"#"}, 1) = m
      <3>1. 1 \in 1..Len(a) + 1 /\ m \in 1..Len(a) + 1
        BY <1>1, <1>2, <1>3, <1>4
      <3>2. ASSUME NEW i \in 1..m - 1 PROVE a[i] \notin {"#"}
        <4>1. i \in 1..L - k + 1 /\ k + i - 1 \in 1..f - 1
          BY <1>1, <1>2, <1>3
        <4> QED
          BY <1>1, <1>4, <4>1
      <3>3. m <= Len(a) => a[m] \in {"#"}
        <4> SUFFICES ASSUME m <= Len(a) PROVE a[m] \in {"#"}
          OBVIOUS
        <4>1. m \in 1..L - k + 1 /\ k + m - 1 = f /\ f <= L
          BY <1>1, <1>2, <1>3, <1>4
        <4> QED
          BY <1>1, <1>4, <4>1
      <3> HIDE DEF m
      <3> QED
        BY <1>4, <3>1, <3>2, <3>3, FirstIs, Zenon
    <2>3. QueryGiven(a) = SubSeq(a, 2, m - 1)
      <3> HIDE DEF m
      <3> QED
        BY <2>1, <2>2 DEF QueryGiven, StartsWith
    <2> DEFINE l == m - 1
               o == 2
    <2>4. /\ k \in 1..Len(t) + 1 /\ L \in (k - 1)..Len(t)
          /\ o \in Nat \ {0} /\ l \in 0..L - k + 1 /\ k + o - 1 = k + 1 /\ k + l - 1 = f - 1
      BY <1>1, <1>2, <1>3, <1>5 DEF L
    <2> HIDE DEF l, o
    <2>5. SubSeq(SubSeq(t, k, L), o, l) = SubSeq(t, k + o - 1, k + l - 1)
      BY <2>4, PartOfPart
    <2>6. QueryGiven(a) = SubSeq(SubSeq(t, k, L), o, l)
      BY <1>3, <2>3 DEF o, l
    <2> QED
      BY <2>4, <2>5, <2>6 DEF a, f
  <1>6. CASE ~(k < f)
    <2>1. k = f
      BY <1>1, <1>2, <1>3, <1>6
    <2>2. ~StartsWith(a, {"?"})
      <3> SUFFICES ASSUME a # <<>>, a[1] = "?" PROVE FALSE
        BY DEF StartsWith
      <3>1. 1 \in 1..L - k + 1 /\ k + 1 - 1 = k /\ k <= L
        BY <1>1, <1>2, <1>3, <1>4
      <3> QED
        BY <1>1, <1>4, <2>1, <3>1
    <2>3. QueryGiven(a) = <<>>
      BY <2>2, Zenon DEF QueryGiven
    <2>4. SubSeq(t, k + 1, f - 1) = <<>>
      <3>1. k + 1 > f - 1 /\ f - 1 \in Int /\ k + 1 \in Int
        BY <1>1, <1>2, <2>1
      <3> QED
        BY <3>1, SubSeqEmpty
    <2> QED
      BY <2>3, <2>4 DEF a, f
  <1> QED
    BY <1>5, <1>6

\* What parse() gives, by the places of the delimiters.
LEMMA ParseIs ==
  ASSUME NEW t \in Seq(Word), IsUrl(t)
  PROVE  /\ IsHttp(t)
         /\ \E n, k :
              /\ PathLies(t, n, k)
              /\ Parse(t) = [scheme |-> SchemeOf(t), host |-> NameIn(SubSeq(t, 5, n - 1)),
                             port |-> PortGiven(SubSeq(t, 5, n - 1)), path |-> PathLying(t, n, k),
                             query |-> SubSeq(t, k + 1, Fragment(t) - 1)]
  <1> DEFINE e == SchemeEnd(t)
             end == First(t, {"/", "?", "#"}, e + 3)
             authority == SubSeq(t, e + 3, end - 1)
             rest == From(t, end)
             pathEnd == IF StartsWith(rest, {"/"}) THEN First(rest, {"?", "#"}, 1) ELSE 1
             after == From(rest, pathEnd)
             path == IF StartsWith(rest, {"/"}) THEN Before(rest, pathEnd) ELSE <<"/">>
  <1>1. Parse(t) = [scheme |-> Lower(Before(t, e)), host |-> NameIn(authority),
                    port |-> PortGiven(authority), path |-> path, query |-> QueryGiven(after)]
    BY Zenon DEF Parse, NameIn, PortGiven, QueryGiven
  <1>2. IsHttp(t)
    BY SchemeShort DEF IsUrl
  <1>3. e = 2
    BY <1>2 DEF IsHttp
  <1> DEFINE f == Fragment(t)
             L == Len(t)
  <1>4. f \in 5..L + 1 /\ (\A i \in 1..f - 1 : t[i] # "#") /\ (f <= L => t[f] = "#") /\ L \in Nat
    BY <1>2, FragmentSays
  <1> HIDE DEF f, L, e
  <1>5. end \in 5..L + 1 /\ (\A i \in 5..end - 1 : t[i] \notin {"/", "?", "#"})
        /\ (end <= L => t[end] \in {"/", "?", "#"})
    <2>1. e + 3 = 5 /\ 5 \in 1..Len(t) + 1
      BY <1>3, <1>4 DEF L
    <2>2. /\ First(t, {"/", "?", "#"}, 5) \in 5..Len(t) + 1
          /\ (\A i \in 5..First(t, {"/", "?", "#"}, 5) - 1 : t[i] \notin {"/", "?", "#"})
          /\ (First(t, {"/", "?", "#"}, 5) <= Len(t) => t[First(t, {"/", "?", "#"}, 5)] \in {"/", "?", "#"})
      BY <2>1, FirstSays, Zenon
    <2>3. end = First(t, {"/", "?", "#"}, 5)
      BY <2>1
    <2> HIDE DEF end
    <2> QED
      BY <2>2, <2>3 DEF L
  <1>6. authority = SubSeq(t, 5, end - 1)
    BY <1>3
  <1> HIDE DEF end, authority
  <1>7. end \in 5..f /\ (\A i \in 5..end - 1 : t[i] \notin {"/", "?"}) /\ (end < f => t[end] \in {"/", "?"})
    <2>1. end <= f
      <3> SUFFICES ASSUME end > f PROVE FALSE
        BY <1>4, <1>5
      <3>1. f \in 5..end - 1 /\ f <= L
        BY <1>4, <1>5
      <3> QED
        BY <1>4, <1>5, <3>1
    <2>2. end < f => end <= L /\ end \in 1..f - 1
      BY <1>4, <1>5
    <2> QED
      BY <1>4, <1>5, <2>1, <2>2
  <1>8. rest = SubSeq(t, end, L)
    BY DEF From, L
  <1> HIDE DEF rest
  <1>9. rest \in Seq(Word) /\ Len(rest) = L - end + 1 /\ \A i \in 1..L - end + 1 : rest[i] = t[end + i - 1]
    <2>1. end \in 1..Len(t) + 1 /\ L \in (end - 1)..Len(t)
      BY <1>4, <1>5 DEF L
    <2> QED
      BY <1>8, <2>1, PartAt
  <1> DEFINE k == end + pathEnd - 1
  <1>10. /\ pathEnd \in 1..Len(rest) + 1 /\ k \in end..f
         /\ \A i \in end..k - 1 : t[i] # "?"
         /\ k < f => t[k] = "?"
         /\ path = PathLying(t, end, k)
    <2>1. CASE StartsWith(rest, {"/"})
      <3>1. 1 \in 1..Len(rest) + 1 /\ 1 <= Len(rest) /\ rest[1] = "/"
        BY <1>9, <2>1 DEF StartsWith
      <3>2. pathEnd = First(rest, {"?", "#"}, 1) /\ path = Before(rest, pathEnd)
        BY <2>1, Zenon
      <3>3. /\ First(rest, {"?", "#"}, 1) \in 1..Len(rest) + 1
            /\ \A i \in 1..First(rest, {"?", "#"}, 1) - 1 : rest[i] \notin {"?", "#"}
            /\ First(rest, {"?", "#"}, 1) <= Len(rest) => rest[First(rest, {"?", "#"}, 1)] \in {"?", "#"}
        BY <1>9, <3>1, FirstSays, Zenon
      <3> HIDE DEF pathEnd, path
      <3>4. /\ pathEnd \in 1..Len(rest) + 1
            /\ \A i \in 1..pathEnd - 1 : rest[i] # "?" /\ rest[i] # "#"
            /\ pathEnd <= Len(rest) => rest[pathEnd] \in {"?", "#"}
        BY <3>2, <3>3
      <3>5. pathEnd # 1
        BY <3>1, <3>4
      <3>6. k \in end + 1..L + 1
        BY <1>4, <1>5, <1>9, <3>4, <3>5
      <3>7. ASSUME NEW i \in end..k - 1 PROVE t[i] # "?" /\ t[i] # "#"
        <4>1. i - end + 1 \in 1..pathEnd - 1 /\ i - end + 1 \in 1..L - end + 1 /\ end + (i - end + 1) - 1 = i
          BY <1>4, <1>5, <1>9, <3>4, <3>6
        <4> QED
          BY <1>9, <3>4, <4>1
      <3>8. k <= L => t[k] \in {"?", "#"}
        <4> SUFFICES ASSUME k <= L PROVE t[k] \in {"?", "#"}
          OBVIOUS
        <4>1. pathEnd \in 1..L - end + 1 /\ pathEnd <= Len(rest)
          BY <1>4, <1>5, <1>9, <3>4
        <4> QED
          BY <1>9, <3>4, <4>1
      <3>9. path = SubSeq(t, end, k - 1)
        <4> DEFINE l == pathEnd - 1
                   o == 1
        <4>1. /\ end \in 1..Len(t) + 1 /\ L \in (end - 1)..Len(t) /\ o \in Nat \ {0}
              /\ l \in 0..L - end + 1 /\ end + o - 1 = end /\ end + l - 1 = k - 1
          BY <1>4, <1>5, <1>9, <3>4 DEF L
        <4>2. path = SubSeq(SubSeq(t, end, L), o, l)
          BY <1>8, <3>2 DEF Before
        <4> HIDE DEF l, o, k
        <4>3. SubSeq(SubSeq(t, end, L), o, l) = SubSeq(t, end + o - 1, end + l - 1)
          BY <4>1, PartOfPart
        <4> QED
          BY <4>1, <4>2, <4>3
      <3> HIDE DEF k
      <3>10. k <= f
        <4> SUFFICES ASSUME k > f PROVE FALSE
          BY <1>4, <3>6
        <4>1. f \in end..k - 1 /\ f <= L
          BY <1>4, <1>7, <3>6
        <4> QED
          BY <1>4, <3>7, <4>1
      <3>11. k < f => t[k] = "?"
        <4> SUFFICES ASSUME k < f PROVE t[k] = "?"
          OBVIOUS
        <4>1. k <= L /\ k \in 1..f - 1
          BY <1>4, <1>5, <3>6
        <4> QED
          BY <1>4, <3>8, <4>1
      <3>12. k \in end..f /\ k # end
        BY <1>4, <1>5, <3>6, <3>10
      <3>13. path = PathLying(t, end, k)
        BY <3>9, <3>12 DEF PathLying
      <3> QED
        BY <3>4, <3>7, <3>11, <3>12, <3>13
    <2>2. CASE ~StartsWith(rest, {"/"})
      <3>1. pathEnd = 1 /\ path = <<"/">>
        BY <2>2, Zenon
      <3> HIDE DEF pathEnd, path
      <3>2. k = end /\ pathEnd \in 1..Len(rest) + 1
        BY <1>5, <1>9, <3>1
      <3> HIDE DEF k
      <3>3. k \in end..f /\ \A i \in end..k - 1 : FALSE
        BY <1>4, <1>7, <3>2
      <3>4. k < f => t[k] = "?"
        <4> SUFFICES ASSUME k < f PROVE t[k] = "?"
          OBVIOUS
        <4>1. t[end] \in {"/", "?"} /\ 1 \in 1..L - end + 1 /\ end + 1 - 1 = end
          BY <1>4, <1>5, <1>7, <3>2
        <4>2. rest # <<>> /\ rest[1] = t[end]
          BY <1>9, <4>1
        <4>3. rest[1] # "/"
          BY <2>2, <4>2 DEF StartsWith
        <4> QED
          BY <3>2, <4>1, <4>2, <4>3
      <3> QED
        BY <3>1, <3>2, <3>3, <3>4 DEF PathLying
    <2> QED
      BY <2>1, <2>2
  <1> HIDE DEF path
  <1>11. after = From(t, k)
    <2> DEFINE l == Len(rest)
               p == pathEnd
    <2>1. after = SubSeq(SubSeq(t, end, L), p, l)
      BY <1>8 DEF From
    <2> HIDE DEF pathEnd
    <2>2. /\ end \in 1..Len(t) + 1 /\ L \in (end - 1)..Len(t) /\ p \in Nat \ {0}
          /\ l \in 0..L - end + 1 /\ end + p - 1 = k /\ end + l - 1 = L
      BY <1>4, <1>5, <1>9, <1>10 DEF L
    <2> HIDE DEF l, k, p, after
    <2>3. SubSeq(SubSeq(t, end, L), p, l) = SubSeq(t, end + p - 1, end + l - 1)
      BY <2>2, PartOfPart
    <2> QED
      BY <2>1, <2>2, <2>3 DEF From, L
  <1> HIDE DEF pathEnd, after, k
  <1>12. QueryGiven(after) = SubSeq(t, k + 1, f - 1)
    <2>1. k \in 5..Fragment(t) /\ (k < Fragment(t) => t[k] = "?")
      BY <1>4, <1>5, <1>10 DEF f
    <2> QED
      BY <1>2, <1>11, <2>1, QueryAt DEF f
  <1>13. PathLies(t, end, k)
    BY <1>7, <1>10 DEF PathLies, f
  <1>14. Lower(Before(t, e)) = SchemeOf(t)
    BY <1>3 DEF SchemeOf
  <1>15. Parse(t) = [scheme |-> SchemeOf(t), host |-> NameIn(SubSeq(t, 5, end - 1)),
                     port |-> PortGiven(SubSeq(t, 5, end - 1)), path |-> PathLying(t, end, k),
                     query |-> SubSeq(t, k + 1, f - 1)]
    BY <1>1, <1>6, <1>10, <1>12, <1>14
  <1> QED
    BY <1>2, <1>13, <1>15 DEF f

\* The path and the query, as resources have them, by the places of the delimiters.
LEMMA TargetParts ==
  ASSUME NEW t \in Seq(Word), IsHttp(t), NEW n, NEW k, PathLies(t, n, k)
  PROVE  LET g == SubSeq(t, n, Fragment(t) - 1)
         IN PathOf(g) = PathLying(t, n, k) /\ QueryOf(g) = SubSeq(t, k, Fragment(t) - 1)
  <1> DEFINE f == Fragment(t)
             h == f - 1
             g == SubSeq(t, n, h)
             q == First(g, {"?"}, 1)
             m == k - n + 1
  <1>1. f \in 5..Len(t) + 1 /\ Len(t) \in Nat
    BY FragmentSays
  <1>2. n \in 5..f /\ k \in n..f /\ (\A i \in n..k - 1 : t[i] # "?") /\ (k < f => t[k] = "?")
    BY DEF PathLies
  <1> SUFFICES PathOf(g) = PathLying(t, n, k) /\ QueryOf(g) = SubSeq(t, k, h)
    BY DEF f
  <1> HIDE DEF f
  <1>3. n \in 1..Len(t) + 1 /\ h \in (n - 1)..Len(t) /\ h - n + 1 = f - n
    BY <1>1, <1>2
  <1> HIDE DEF h
  <1>4. g \in Seq(Word) /\ Len(g) = f - n /\ \A i \in 1..f - n : g[i] = t[n + i - 1]
    <2>1. g \in Seq(Word) /\ Len(g) = h - n + 1 /\ \A i \in 1..h - n + 1 : g[i] = t[n + i - 1]
      BY <1>3, PartAt, Zenon
    <2> HIDE DEF g
    <2> QED
      BY <1>3, <2>1
  <1>5. g = SubSeq(t, n, h)
    OBVIOUS
  <1> HIDE DEF g
  <1>6. q = m
    <2>1. 1 \in 1..Len(g) + 1 /\ m \in 1..Len(g) + 1
      BY <1>1, <1>2, <1>4
    <2>2. ASSUME NEW i \in 1..m - 1 PROVE g[i] \notin {"?"}
      <3>1. i \in 1..f - n /\ n + i - 1 \in n..k - 1
        BY <1>1, <1>2
      <3> QED
        BY <1>2, <1>4, <3>1
    <2>3. m <= Len(g) => g[m] \in {"?"}
      <3> SUFFICES ASSUME m <= Len(g) PROVE g[m] \in {"?"}
        OBVIOUS
      <3>1. m \in 1..f - n /\ n + m - 1 = k /\ k < f
        BY <1>1, <1>2, <1>4
      <3> QED
        BY <1>2, <1>4, <3>1
    <2> HIDE DEF m
    <2> QED
      BY <1>4, <2>1, <2>2, <2>3, FirstIs, Zenon
  <1> HIDE DEF q
  <1>7. Before(g, q) = SubSeq(t, n, k - 1)
    <2> DEFINE l == m - 1
               o == 1
    <2>1. o \in Nat \ {0} /\ l \in 0..h - n + 1 /\ n + o - 1 = n /\ n + l - 1 = k - 1
      BY <1>1, <1>2, <1>3
    <2>2. Before(g, q) = SubSeq(SubSeq(t, n, h), o, l)
      BY <1>5, <1>6 DEF Before
    <2> HIDE DEF o, l
    <2>3. SubSeq(SubSeq(t, n, h), o, l) = SubSeq(t, n + o - 1, n + l - 1)
      BY <1>3, <2>1, PartOfPart
    <2> QED
      BY <2>1, <2>2, <2>3
  <1>8. From(g, q) = SubSeq(t, k, h)
    <2> DEFINE l == f - n
    <2>1. m \in Nat \ {0} /\ l \in 0..h - n + 1 /\ n + m - 1 = k /\ n + l - 1 = h
      BY <1>1, <1>2, <1>3 DEF h
    <2>2. From(g, q) = SubSeq(SubSeq(t, n, h), m, l)
      BY <1>4, <1>5, <1>6 DEF From
    <2> HIDE DEF m, l
    <2>3. SubSeq(SubSeq(t, n, h), m, l) = SubSeq(t, n + m - 1, n + l - 1)
      BY <1>3, <2>1, PartOfPart
    <2> QED
      BY <2>1, <2>2, <2>3
  <1>9. SubSeq(t, n, k - 1) = <<>> <=> k = n
    <2> DEFINE b == SubSeq(t, n, k - 1)
    <2>1. k - 1 \in (n - 1)..Len(t)
      BY <1>1, <1>2
    <2>2. b \in Seq(Word) /\ Len(b) = k - 1 - n + 1
      BY <1>3, <2>1, PartAt, Zenon
    <2> HIDE DEF b
    <2>3. b = <<>> <=> k - 1 - n + 1 = 0
      BY <2>2
    <2> QED
      BY <1>1, <1>2, <2>3 DEF b
  <1>10. PathOf(g) = IF Before(g, q) = <<>> THEN <<"/">> ELSE Before(g, q)
    BY Zenon DEF PathOf, q
  <1>11. QueryOf(g) = From(g, q)
    BY Zenon DEF QueryOf, q
  <1> QED
    BY <1>7, <1>8, <1>9, <1>10, <1>11 DEF PathLying

\* What the single-threaded frontier makes of a URL is the same page.
LEMMA PageST ==
  ASSUME NEW t \in Seq(Word), NormalizeST(t) # NoUrl, Resource(t).port \in DOMAIN NumberOf
  PROVE  PageOf(NormalizeST(t)) = PageOf(t)
  <1> DEFINE c == [Parse(t) EXCEPT !.path = DecodeUnreserved(@)]
  <1>1. IsUrl(t) /\ NormalizeST(t) = Build(c)
    BY Zenon DEF NormalizeST
  <1>2. IsHttp(t)
    BY <1>1, ParseIs, Zenon
  <1>3. PICK n, k :
          /\ PathLies(t, n, k)
          /\ Parse(t) = [scheme |-> SchemeOf(t), host |-> NameIn(SubSeq(t, 5, n - 1)),
                         port |-> PortGiven(SubSeq(t, 5, n - 1)), path |-> PathLying(t, n, k),
                         query |-> SubSeq(t, k + 1, Fragment(t) - 1)]
    BY <1>1, ParseIs, Zenon
  <1> DEFINE f == Fragment(t)
             s == SchemeOf(t)
             raw == SubSeq(t, 5, n - 1)
             name == NameIn(raw)
             given == PortGiven(raw)
             port == PortIn(s, raw)
             path == PathLying(t, n, k)
             query == SubSeq(t, k + 1, f - 1)
             asked == SubSeq(t, k, f - 1)
             g == SubSeq(t, n, f - 1)
             d == DefaultPort[s[1]]
  <1>4. IsParsed(Parse(t))
    BY <1>1, ParseGives, Zenon
  <1>a. Parse(t) = [scheme |-> s, host |-> name, port |-> given, path |-> path, query |-> query]
    BY <1>3
  <1>5. c = [scheme |-> s, host |-> name, port |-> given, path |-> DecodeUnreserved(path), query |-> query]
    <2> HIDE DEF s, name, given, path, query
    <2> QED
      BY <1>a
  <1>6. path \in Seq(Word) /\ path # <<>> /\ path[1] = "/" /\ \A i \in 1..Len(path) : path[i] # "?" /\ path[i] # "#"
    <2>1. Parse(t).path = path
      BY <1>3
    <2> HIDE DEF path
    <2> QED
      BY <1>4, <2>1 DEF IsParsed
  <1>7. Resource(t) = Located(s, raw, g)
    <2>1. n \in 5..Fragment(t) /\ (\A i \in 5..n - 1 : t[i] \notin {"/", "?"})
          /\ (n < Fragment(t) => t[n] \in {"/", "?"})
      BY <1>3 DEF PathLies
    <2> QED
      BY <1>2, <2>1, ResourceIs, Zenon DEF SchemeOf
  <1>8. PathOf(g) = path /\ QueryOf(g) = asked
    BY <1>2, <1>3, TargetParts, Zenon
  <1>9. /\ f \in 5..Len(t) + 1 /\ Len(t) \in Nat
        /\ n \in 5..f /\ k \in n..f /\ (k < f => t[k] = "?")
    BY <1>2, <1>3, FragmentSays DEF PathLies
  <1> HIDE DEF c
  <1>10. IsParsed(c) /\ \A i \in 1..Len(c.path) : c.path[i] \notin DOMAIN Decoded
    <2> DEFINE a == DecodeUnreserved(path)
    <2> HIDE DEF path
    <2>1. /\ a \in Seq(Word) /\ Len(a) = Len(path)
          /\ \A i \in 1..Len(path) : a[i] \notin DOMAIN Decoded
          /\ \A i \in 1..Len(path), x \in Delimiter : a[i] = x <=> path[i] = x
      BY <1>6, DecodeSays
    <2>2. {"/", "?", "#"} \subseteq Delimiter
      BY DEF Delimiter
    <2> HIDE DEF a
    <2>3. a # <<>> /\ a[1] = "/" /\ \A i \in 1..Len(a) : a[i] \notin {"?", "#"}
      <3>1. 1 \in 1..Len(path)
        BY <1>6
      <3> QED
        BY <1>6, <2>1, <2>2, <3>1
    <2>4. c = [scheme |-> s, host |-> name, port |-> given, path |-> a, query |-> query]
      BY <1>5 DEF a
    <2>5. Parse(t) = [scheme |-> s, host |-> name, port |-> given, path |-> path, query |-> query]
      BY <1>3 DEF path
    <2> HIDE DEF s, name, given, query
    <2>6. IsParsed(c)
      BY <1>4, <2>1, <2>3, <2>4, <2>5 DEF IsParsed
    <2> QED
      BY <2>1, <2>4, <2>6
  <1>11. Resource(Build(c)) = Built(c)
    BY <1>10, BuildGives, Zenon
  <1> HIDE DEF s, name, given, port, path, query, asked, g, raw, d, f
  <1>12. (IF given \in {NoPort, d} THEN d ELSE given) = port
    <2> DEFINE colon == First(raw, {":"}, 1)
    <2>1. port = IF colon < Len(raw) THEN raw[colon + 1] ELSE d
      BY Zenon DEF port, PortIn, d
    <2>2. given = IF colon < Len(raw) /\ raw[colon + 1] \in DOMAIN NumberOf THEN raw[colon + 1] ELSE NoPort
      BY Zenon DEF given, PortGiven
    <2>3. port \in DOMAIN NumberOf
      <3>1. Located(s, raw, g).port = port
        BY LocatedIs DEF port
      <3> QED
        BY <1>7, <3>1
    <2>4. NoPort \notin DOMAIN NumberOf
      BY UrlsAssumption DEF NoPort
    <2> HIDE DEF colon
    <2> QED
      BY <2>1, <2>2, <2>3, <2>4
  <1>13. (IF (IF query = <<>> THEN <<>> ELSE <<"?">> \o query) = <<"?">> THEN <<>>
          ELSE IF query = <<>> THEN <<>> ELSE <<"?">> \o query)
         = IF asked = <<"?">> THEN <<>> ELSE asked
    <2>1. query \in Seq(Word)
      <3>1. query = Parse(t).query
        BY <1>a
      <3> QED
        BY <1>4, <3>1 DEF IsParsed
    <2>2. CASE k = f
      <3>1. k > f - 1 /\ k + 1 > f - 1 /\ k \in Int /\ k + 1 \in Int /\ f - 1 \in Int
        BY <1>9, <2>2
      <3>2. query = <<>> /\ asked = <<>>
        BY <3>1, SubSeqEmpty DEF query, asked
      <3> QED
        BY <3>2
    <2>3. CASE k # f
      <3> DEFINE h == f - 1
                 b == SubSeq(t, k, k)
      <3>1. k < f /\ k \in 1..Len(t) + 1 /\ k \in (k - 1)..Len(t) /\ h \in k..Len(t) /\ k - k + 1 = 1
        BY <1>9, <2>3
      <3>2. b \o SubSeq(t, k + 1, h) = SubSeq(t, k, h)
        <4> HIDE DEF h
        <4> QED
          BY <3>1, PartsMeet, Zenon
      <3>3. b \in Seq(Word) /\ Len(b) = k - k + 1 /\ \A i \in 1..k - k + 1 : b[i] = t[k + i - 1]
        BY <3>1, PartAt, Zenon
      <3>4. b = <<"?">>
        <4> HIDE DEF b
        <4>1. k + 1 - 1 = k /\ 1 \in 1..k - k + 1
          BY <1>9
        <4>2. Len(b) = 1 /\ b[1] = "?"
          BY <1>9, <3>1, <3>3, <4>1
        <4> DEFINE o == <<"?">>
        <4>3. o \in Seq(Word) /\ Len(o) = 1 /\ o[1] = "?"
          BY WordsSay
        <4> HIDE DEF o
        <4>4. \A i \in 1..Len(b) : b[i] = o[i]
          BY <4>2, <4>3
        <4>5. b = o
          BY <3>3, <4>2, <4>3, <4>4, SeqEqual
        <4> QED
          BY <4>5 DEF o
      <3>5. asked = <<"?">> \o query
        BY <3>2, <3>4 DEF asked, query
      <3> DEFINE o == <<"?">>
      <3>a. o \in Seq(Word) /\ Len(o) = 1
        BY WordsSay
      <3>6. query = <<>> => asked = <<"?">>
        <4> HIDE DEF o
        <4>1. o \o <<>> = o
          BY <3>a, ConcatEmptySeq
        <4> QED
          BY <3>5, <4>1 DEF o
      <3>7. query # <<>> => asked # <<"?">>
        <4>1. Len(o \o query) = Len(o) + Len(query)
          <5> HIDE DEF o
          <5> QED
            BY <2>1, <3>a, CatSays, Zenon
        <4>2. asked = o \o query
          BY <3>5
        <4> HIDE DEF o
        <4>3. query # <<>> => asked # o
          BY <2>1, <3>a, <4>1, <4>2
        <4> QED
          BY <4>3 DEF o
      <3> HIDE DEF b, h
      <3> QED
        BY <3>5, <3>6, <3>7, Zenon
    <2> QED
      BY <2>2, <2>3
  <1>14. DecodeUnreserved(Unslashed(DecodeUnreserved(path))) = DecodeUnreserved(Unslashed(path))
    BY <1>6, UnslashedDecoded
  <1> DEFINE r == [scheme |-> s, host |-> name, port |-> port,
                   path |-> DecodeUnreserved(Unslashed(path)),
                   query |-> IF asked = <<"?">> THEN <<>> ELSE asked]
  <1>15. PageOf(t) = r
    BY <1>7, <1>8, LocatedIs DEF PageOf, name, port
  <1>16. PageOf(Build(c)) = r
    <2> DEFINE x == IF given \in {NoPort, d} THEN d ELSE given
               y == DecodeUnreserved(path)
               z == IF query = <<>> THEN <<>> ELSE <<"?">> \o query
    <2>1. c.scheme = s /\ c.host = name /\ c.port = given /\ c.path = y /\ c.query = query
      BY <1>5
    <2>2. Built(c) = [scheme |-> s, host |-> name, port |-> x, path |-> y, query |-> z]
      BY <2>1 DEF Built, d
    <2> HIDE DEF x, y, z
    <2>3. Page(Built(c)) = [scheme |-> s, host |-> name, port |-> x, path |-> DecodeUnreserved(Unslashed(y)),
                            query |-> IF z = <<"?">> THEN <<>> ELSE z]
      BY <2>2, PageIs
    <2>4. x = port /\ DecodeUnreserved(Unslashed(y)) = DecodeUnreserved(Unslashed(path))
          /\ (IF z = <<"?">> THEN <<>> ELSE z) = IF asked = <<"?">> THEN <<>> ELSE asked
      BY <1>12, <1>13, <1>14 DEF x, y, z
    <2> QED
      BY <1>11, <2>3, <2>4 DEF PageOf
  <1> QED
    BY <1>1, <1>15, <1>16

-----------------------------------------------------------------------------
(* Links: what the programs resolve them to is what they mean.             *)

\* rfind('/') finds the last slash.
LEMMA LastIs ==
  ASSUME NEW s \in Seq(Word), NEW n \in 1..Len(s), s[n] = "/", \A i \in n + 1..Len(s) : s[i] # "/"
  PROVE  SelectLastInSeq(s, LAMBDA c : c = "/") = n
  <1> DEFINE I == {i \in 1..Len(s) : s[i] = "/"}
  <1>1. SelectLastInSeq(s, LAMBDA c : c = "/") = IF I # {} THEN Max(I) ELSE 0
    BY Zenon DEF SelectLastInSeq
  <1>2. n \in I /\ (\A i \in I : i <= n) /\ \A i \in I : i \in Nat
    OBVIOUS
  <1> HIDE DEF I
  <1>3. Max(I) = n
    <2>1. \A x \in I : (\A y \in I : x >= y) => x = n
      BY <1>2
    <2>2. \A y \in I : n >= y
      BY <1>2
    <2> QED
      BY <1>2, <2>1, <2>2 DEF Max
  <1> QED
    BY <1>1, <1>2, <1>3, Zenon

\* There is a last one, where there is one.
LEMMA LastThere ==
  ASSUME NEW s \in Seq(Word), NEW m \in 1..Len(s), s[m] = "/"
  PROVE  \E n \in m..Len(s) : s[n] = "/" /\ \A i \in n + 1..Len(s) : s[i] # "/"
  <1> DEFINE J == {j \in 0..Len(s) - m : s[Len(s) - j] = "/"}
  <1>1. J \subseteq Nat /\ \A j \in 0..Len(s) - m : j \in J <=> s[Len(s) - j] = "/"
    OBVIOUS
  <1>2. J # {}
    <2>1. Len(s) - m \in 0..Len(s) - m /\ Len(s) - (Len(s) - m) = m
      OBVIOUS
    <2> HIDE DEF J
    <2> QED
      BY <1>1, <2>1
  <1>3. \A j \in J : j \in 0..Len(s) - m
    OBVIOUS
  <1> HIDE DEF J
  <1>4. Min(J) \in J /\ \A x \in J : Min(J) <= x
    BY <1>1, <1>2, MinSays
  <1> DEFINE j == Min(J)
             n == Len(s) - j
  <1>5. j \in 0..Len(s) - m
    BY <1>3, <1>4
  <1>6. s[n] = "/" /\ n \in m..Len(s)
    BY <1>1, <1>4, <1>5
  <1>7. ASSUME NEW i \in n + 1..Len(s) PROVE s[i] # "/"
    <2>1. Len(s) - i \in 0..Len(s) - m /\ Len(s) - i < j /\ Len(s) - (Len(s) - i) = i
      BY <1>5
    <2>2. Len(s) - i \notin J
      BY <1>4, <1>5, <2>1
    <2> QED
      BY <1>1, <2>1, <2>2
  <1> HIDE DEF n, j
  <1> QED
    BY <1>6, <1>7

\* What a link with a scheme in lower case begins with.
LEMMA HttpBegins ==
  ASSUME NEW u \in Seq(Word)
  PROVE  HasHttp(u) <=> /\ Len(u) >= 4 /\ u[1] \in {"http", "https"}
                        /\ u[2] = ":" /\ u[3] = "/" /\ u[4] = "/"
  <1>1. ASSUME NEW s \in Schemes
        PROVE  IsPrefix(s \o Separator, u) <=> /\ Len(u) >= 4 /\ u[1] = s[1]
                                               /\ u[2] = ":" /\ u[3] = "/" /\ u[4] = "/"
    <2> DEFINE a == s \o Separator
    <2>1. s \in Seq(Word) /\ Len(s) = 1 /\ Separator \in Seq(Word) /\ Len(Separator) = 3
      BY SchemesSay
    <2>2. /\ a \in Seq(Word) /\ Len(a) = Len(s) + Len(Separator)
          /\ \A i \in 1..Len(s) : a[i] = s[i]
          /\ \A i \in 1..Len(Separator) : a[Len(s) + i] = Separator[i]
      BY <2>1, CatSays, Zenon
    <2> HIDE DEF a
    <2>3. IsPrefix(a, u) <=> Len(a) <= Len(u) /\ \A i \in 1..Len(a) : a[i] = u[i]
      BY <2>2, PrefixSays, Zenon
    <2>4. Len(a) = 4 /\ \A i \in 1..3 : a[1 + i] = Separator[i]
      BY <2>1, <2>2
    <2>5. a[1] = s[1] /\ a[2] = ":" /\ a[3] = "/" /\ a[4] = "/"
      <3>1. 1 + 1 = 2 /\ 1 + 2 = 3 /\ 1 + 3 = 4 /\ 1 \in 1..3 /\ 2 \in 1..3 /\ 3 \in 1..3 /\ 1 \in 1..Len(s)
        BY <2>1
      <3>2. a[1 + 1] = ":" /\ a[1 + 2] = "/" /\ a[1 + 3] = "/" /\ a[1] = s[1]
        BY <2>2, <2>4, <3>1, SchemesSay
      <3> QED
        BY <3>1, <3>2
    <2>6. \A i \in 1..4 : i = 1 \/ i = 2 \/ i = 3 \/ i = 4
      OBVIOUS
    <2>7. Len(u) >= 4 <=> Len(a) <= Len(u)
      BY <2>4
    <2>8. (\A i \in 1..Len(a) : a[i] = u[i]) <=> u[1] = s[1] /\ u[2] = ":" /\ u[3] = "/" /\ u[4] = "/"
      <3>1. 1 \in 1..4 /\ 2 \in 1..4 /\ 3 \in 1..4 /\ 4 \in 1..4
        OBVIOUS
      <3> QED
        BY <2>4, <2>5, <2>6, <3>1
    <2> QED
      BY <2>3, <2>7, <2>8 DEF a
  <1>2. HasHttp(u) <=> \E s \in Schemes : IsPrefix(s \o Separator, u)
    BY DEF HasHttp
  <1>3. \A s \in Schemes : s[1] \in {"http", "https"}
    BY SchemesSay
  <1>4. \A w \in {"http", "https"} : \E s \in Schemes : s[1] = w
    BY DEF Schemes
  <1> QED
    BY <1>1, <1>2, <1>3, <1>4

\* A link with a scheme in lower case is a URL.
LEMMA HttpLink ==
  ASSUME NEW link \in Seq(Word), HasHttp(link)
  PROVE  SchemeEnd(link) = 2
  <1>1. Len(link) >= 4 /\ link[1] \in {"http", "https"} /\ link[2] = ":" /\ link[3] = "/" /\ link[4] = "/"
    BY HttpBegins
  <1>2. SeparatorAt(link, 2) /\ ~SeparatorAt(link, 1)
    BY <1>1 DEF SeparatorAt
  <1> QED
    BY <1>1, <1>2, SchemeEndSays

\* A page whose path may be used to resolve links: it comes before the query, which has
\* no slash where the path is used.
LEMMA PathBegins ==
  ASSUME NEW s, NEW h, NEW r, IsForm(s, h, r), NEW u, u = Whole(s, h, r),
         NEW q, q = First(u, {"?"}, 1),
         ~NoPath(u) \/ ~Contains(From(u, q), "/")
  PROVE  /\ q \in 6 + Len(h)..Len(u) + 1
         /\ First(u, {"?", "#"}, 1) = q
         /\ Before(u, q) \in Seq(Word) /\ Len(Before(u, q)) = q - 1
         /\ \A i \in 1..q - 1 : Before(u, q)[i] = u[i]
         /\ First(Before(u, q), {"/"}, 5) = 5 + Len(h)
  <1> DEFINE P == 5 + Len(h)
  <1>1. /\ SchemeEnd(u) = 2 /\ First(u, {"#"}, 1) = Len(u) + 1
        /\ First(u, {"/"}, 5) = P /\ P <= Len(u)
    <2>1. ReadsAs(u, s, h, r)
      BY FormSays
    <2> QED
      BY <2>1 DEF ReadsAs
  <1>2. s \in Schemes /\ h \in Seq(Word) /\ r \in Seq(Word)
    BY DEF IsForm
  <1>3. u \in Seq(Word)
    <2>1. HasParts(u, s, h, r)
      BY <1>2, WholeSays
    <2> QED
      BY <2>1 DEF HasParts
  <1>4. NoPath(u) <=> q < First(u, {"/"}, SchemeEnd(u) + 3)
    BY Zenon DEF NoPath
  <1>5. ~NoPath(u) \/ ~Contains(From(u, q), "/")
    OBVIOUS
  <1>6. q = First(u, {"?"}, 1)
    OBVIOUS
  <1>a. 1 \in 1..Len(u) + 1 /\ 5 \in 1..Len(u) + 1 /\ P \in Nat /\ P >= 5
    BY <1>1, <1>2, <1>3
  <1> HIDE DEF P
  <1>7. q \in 1..Len(u) + 1 /\ (\A i \in 1..q - 1 : u[i] # "?") /\ (q <= Len(u) => u[q] = "?")
    <2>1. /\ First(u, {"?"}, 1) \in 1..Len(u) + 1
          /\ (\A i \in 1..First(u, {"?"}, 1) - 1 : u[i] \notin {"?"})
          /\ (First(u, {"?"}, 1) <= Len(u) => u[First(u, {"?"}, 1)] \in {"?"})
      BY <1>3, <1>a, FirstSays, Zenon
    <2> QED
      BY <1>6, <2>1
  <1>8. \A i \in 1..Len(u) : u[i] # "#"
    <2>1. \A i \in 1..First(u, {"#"}, 1) - 1 : u[i] \notin {"#"}
      BY <1>3, <1>a, FirstSays, Zenon
    <2> QED
      BY <1>1, <1>3, <2>1
  <1>9. u[P] = "/" /\ \A i \in 5..P - 1 : u[i] # "/"
    <2>1. /\ \A i \in 5..First(u, {"/"}, 5) - 1 : u[i] \notin {"/"}
          /\ First(u, {"/"}, 5) <= Len(u) => u[First(u, {"/"}, 5)] \in {"/"}
      BY <1>3, <1>a, FirstSays, Zenon
    <2> QED
      BY <1>1, <2>1
  <1>10. q > P
    <2>1. q # P
      BY <1>1, <1>7, <1>9
    <2>2. CASE ~NoPath(u)
      <3>1. SchemeEnd(u) + 3 = 5
        BY <1>1
      <3>2. ~(q < P)
        BY <1>1, <1>4, <2>2, <3>1
      <3> QED
        BY <1>7, <1>a, <2>1, <3>2
    <2>3. CASE ~Contains(From(u, q), "/")
      <3> SUFFICES ASSUME q < P PROVE FALSE
        BY <1>7, <1>a, <2>1
      <3> DEFINE b == From(u, q)
      <3>a. q \in Nat /\ q >= 1 /\ P \in Nat /\ P <= Len(u) /\ Len(u) \in Nat
        BY <1>1, <1>7, <1>a, <1>3
      <3>1. Len(u) \in (q - 1)..Len(u) /\ P - q + 1 \in 1..Len(u) - q + 1 /\ q + (P - q + 1) - 1 = P
        BY <3>a
      <3>2. b \in Seq(Word) /\ Len(b) = Len(u) - q + 1 /\ \A i \in 1..Len(u) - q + 1 : b[i] = u[q + i - 1]
        BY <1>3, <1>7, <3>1, PartAt, Zenon DEF From
      <3>3. ~Contains(b, "/")
        BY <2>3
      <3> HIDE DEF b
      <3> DEFINE j == P - q + 1
      <3>4. j \in 1..Len(u) - q + 1 /\ q + j - 1 = P
        BY <3>1
      <3> HIDE DEF j
      <3>5. b[j] = "/" /\ j \in 1..Len(b)
        BY <1>9, <3>2, <3>4
      <3> QED
        BY <3>3, <3>5, Zenon DEF Contains
    <2> QED
      BY <1>5, <2>2, <2>3
  <1>11. First(u, {"?", "#"}, 1) = q
    <2>1. \A i \in 1..q - 1 : u[i] \notin {"?", "#"}
      BY <1>7, <1>8
    <2>2. q <= Len(u) => u[q] \in {"?", "#"}
      BY <1>7
    <2> QED
      BY <1>3, <1>7, <1>a, <2>1, <2>2, FirstIs
  <1> DEFINE b == Before(u, q)
  <1>12. b \in Seq(Word) /\ Len(b) = q - 1 /\ \A i \in 1..q - 1 : b[i] = u[i]
    <2>1. q - 1 \in 0..Len(u)
      BY <1>7
    <2> QED
      BY <1>3, <2>1, CutSays, Zenon DEF Before
  <1> HIDE DEF b
  <1>13. First(b, {"/"}, 5) = P
    <2>1. 5 \in 1..Len(b) + 1 /\ P \in 5..Len(b) + 1 /\ P \in 1..q - 1
      BY <1>7, <1>a, <1>10, <1>12
    <2>2. \A i \in 5..P - 1 : i \in 1..q - 1
      BY <1>a, <1>7, <1>10
    <2>3. \A i \in 5..P - 1 : b[i] \notin {"/"}
      BY <1>9, <1>12, <2>2
    <2>4. P <= Len(b) => b[P] \in {"/"}
      BY <1>9, <1>12, <2>1
    <2> QED
      BY <1>12, <2>1, <2>3, <2>4, FirstIs, Zenon
  <1>14. q \in 6 + Len(h)..Len(u) + 1
    BY <1>2, <1>7, <1>10 DEF P
  <1> QED
    BY <1>11, <1>12, <1>13, <1>14 DEF P, b

\* A link that is not misread is resolved to the URL that it means.
LEMMA ResolveMeant ==
  ASSUME NEW link \in Seq(Word), NEW s, NEW h, NEW r, IsForm(s, h, r), ~Misread(link, Whole(s, h, r))
  PROVE  Resolve(link, Whole(s, h, r)) = Target(link, Whole(s, h, r))
  <1> DEFINE u == Whole(s, h, r)
             e == SchemeEnd(u)
             rest == From(u, e + 3)
             site == Before(u, e) \o Separator \o Before(rest, First(rest, {"/"}, 1))
             q == First(u, {"?"}, 1)
             path == Before(u, First(u, {"?", "#"}, 1))
             hostEnd == First(path, {"/"}, Len(Before(u, e)) + 4) - 1
             slash == SelectLastInSeq(path, LAMBDA c : c = "/")
             P == 5 + Len(h)
  <1>1. /\ e = 2 /\ Before(u, 2) = s /\ P <= Len(u)
        /\ SubSeq(u, 5, 4 + Len(h)) = h /\ From(u, 5 + Len(h)) = r /\ From(u, 5) = h \o r
    BY FormSays DEF ReadsAs
  <1>2. s \in Schemes /\ h \in Seq(Word) /\ r \in Seq(Word) /\ r # <<>> /\ r[1] = "/"
        /\ \A i \in 1..Len(h) : h[i] # "/"
    BY DEF IsForm
  <1>3. /\ u \in Seq(Word) /\ Len(u) = 4 + Len(h) + Len(r)
        /\ \A i \in 1..Len(h) : u[4 + i] = h[i]
        /\ \A i \in 1..Len(r) : u[4 + Len(h) + i] = r[i]
    <2>1. HasParts(u, s, h, r)
      BY <1>2, WholeSays
    <2> HIDE DEF u
    <2> QED
      BY <2>1 DEF HasParts
  <1>4. s \in Seq(Word) /\ Len(s) = 1 /\ Separator \in Seq(Word) /\ Len(Separator) = 3
    BY <1>2, SchemesSay
  <1>5. /\ Resolve(link, u) =
             IF HasHttp(link) THEN link ELSE IF e = 0 THEN NoUrl
             ELSE IF IsPrefix(<<"/", "/">>, link) THEN Before(u, e) \o <<":">> \o link
             ELSE IF StartsWith(link, {"/"}) THEN site \o link
             ELSE site \o BaseDir(rest) \o link
        /\ Target(link, u) =
             IF SchemeEnd(link) = 2 THEN link
             ELSE IF IsPrefix(<<"/", "/">>, link) THEN Before(u, e) \o <<":">> \o link
             ELSE IF StartsWith(link, {"/"}) THEN SubSeq(path, 1, hostEnd) \o link
             ELSE IF StartsWith(link, {"?"}) THEN path \o link
             ELSE (IF slash <= hostEnd THEN path \o <<"/">> ELSE SubSeq(path, 1, slash)) \o link
    <2>1. Resolve(link, u) =
             IF HasHttp(link) THEN link ELSE IF e = 0 THEN NoUrl
             ELSE IF IsPrefix(<<"/", "/">>, link) THEN Before(u, e) \o <<":">> \o link
             ELSE IF StartsWith(link, {"/"}) THEN site \o link
             ELSE site \o BaseDir(rest) \o link
      BY Zenon DEF Resolve
    <2>2. Target(link, u) =
             IF SchemeEnd(link) = 2 THEN link
             ELSE IF IsPrefix(<<"/", "/">>, link) THEN Before(u, e) \o <<":">> \o link
             ELSE IF StartsWith(link, {"/"}) THEN SubSeq(path, 1, hostEnd) \o link
             ELSE IF StartsWith(link, {"?"}) THEN path \o link
             ELSE (IF slash <= hostEnd THEN path \o <<"/">> ELSE SubSeq(path, 1, slash)) \o link
      BY Zenon DEF Target, Joined
    <2> QED
      BY <2>1, <2>2
  <1>6. /\ SchemeEnd(link) = 2 => HasHttp(link)
        /\ ~StartsWith(link, {"?"})
        /\ SchemeEnd(link) # 2 /\ Contains(From(u, q), "/") => StartsWith(link, {"/"}) /\ ~NoPath(u)
    BY Zenon DEF Misread
  <1>7. SchemeEnd(link) # 2 => ~NoPath(u) \/ ~Contains(From(u, q), "/")
    BY <1>6
  <1> SUFFICES Resolve(link, u) = Target(link, u)
    OBVIOUS
  <1>8. CASE HasHttp(link) \/ SchemeEnd(link) = 2
    <2>1. HasHttp(link) /\ SchemeEnd(link) = 2
      BY <1>6, <1>8, HttpLink
    <2> HIDE DEF u, e, site, path, rest, hostEnd, slash
    <2> QED
      BY <1>5, <2>1
  <1>9. CASE ~HasHttp(link) /\ SchemeEnd(link) # 2 /\ IsPrefix(<<"/", "/">>, link)
    <2> HIDE DEF u, e, site, path, rest, hostEnd, slash
    <2> QED
      BY <1>1, <1>5, <1>9
  <1>10. ASSUME ~HasHttp(link), SchemeEnd(link) # 2 PROVE
         /\ q \in P + 1..Len(u) + 1 /\ path = SubSeq(u, 1, q - 1)
         /\ path \in Seq(Word) /\ Len(path) = q - 1
         /\ \A i \in 1..q - 1 : path[i] = u[i]
         /\ hostEnd = P - 1 /\ site = SubSeq(u, 1, P - 1)
    <2>1. ~NoPath(u) \/ ~Contains(From(u, q), "/")
      BY <1>7, <1>10
    <2>2. /\ q \in 6 + Len(h)..Len(u) + 1
          /\ First(u, {"?", "#"}, 1) = q
          /\ Before(u, q) \in Seq(Word) /\ Len(Before(u, q)) = q - 1
          /\ \A i \in 1..q - 1 : Before(u, q)[i] = u[i]
          /\ First(Before(u, q), {"/"}, 5) = 5 + Len(h)
      <3>1. u = Whole(s, h, r) /\ q = First(u, {"?"}, 1)
        OBVIOUS
      <3> HIDE DEF u, q
      <3> QED
        BY <2>1, <3>1, PathBegins
    <2>3. path = Before(u, q)
      BY <2>2, Zenon
    <2>4. Len(Before(u, e)) + 4 = 5 /\ e + 3 = 5
      <3> HIDE DEF u, e
      <3>1. Before(u, e) = s
        BY <1>1
      <3>2. Len(Before(u, e)) = 1
        BY <1>4, <3>1
      <3>3. e = 2
        BY <1>1
      <3> QED
        BY <3>2, <3>3
    <2>5. hostEnd = P - 1
      <3> HIDE DEF path
      <3>1. First(path, {"/"}, Len(Before(u, e)) + 4) = P
        BY <2>2, <2>3, <2>4
      <3> HIDE DEF P
      <3> QED
        BY <3>1
    <2>6. site = SubSeq(u, 1, P - 1)
      <3>1. rest = h \o r
        BY <1>1, <2>4
      <3> HIDE DEF rest
      <3>2. /\ rest \in Seq(Word) /\ Len(rest) = Len(h) + Len(r)
            /\ \A i \in 1..Len(h) : rest[i] = h[i]
            /\ \A i \in 1..Len(r) : rest[Len(h) + i] = r[i]
        BY <1>2, <3>1, CatSays
      <3> DEFINE k == Len(h) + 1
      <3>3. First(rest, {"/"}, 1) = k
        <4>1. 1 \in 1..Len(rest) + 1 /\ k \in 1..Len(rest) + 1 /\ 1 \in 1..Len(r)
          BY <1>2, <3>2
        <4>2. \A i \in 1..k - 1 : rest[i] \notin {"/"}
          BY <1>2, <3>2
        <4>3. k <= Len(rest) => rest[k] \in {"/"}
          BY <1>2, <3>2, <4>1
        <4> HIDE DEF k
        <4> QED
          BY <3>2, <4>1, <4>2, <4>3, FirstIs, Zenon
      <3>4. Before(rest, k) = h
        <4> DEFINE b == Before(rest, k)
        <4>1. k - 1 = Len(h) /\ Len(h) \in 0..Len(rest)
          BY <1>2, <3>2
        <4>2. b \in Seq(Word) /\ Len(b) = Len(h) /\ \A i \in 1..Len(h) : b[i] = rest[i]
          BY <3>2, <4>1, CutSays, Zenon DEF Before
        <4> HIDE DEF b
        <4>3. \A i \in 1..Len(h) : b[i] = h[i]
          BY <3>2, <4>2
        <4>4. b = h
          BY <1>2, <4>2, <4>3, SeqEqual
        <4> QED
          BY <4>4 DEF b
      <3>5. site = s \o Separator \o h
        BY <1>1, <3>3, <3>4
      <3> DEFINE x == s \o Separator
                 y == x \o h
                 z == SubSeq(u, 1, P - 1)
                 w == y \o r
      <3>6. u = w
        BY Zenon DEF Whole
      <3>7. x \in Seq(Word) /\ Len(x) = Len(s) + Len(Separator)
        BY <1>4, CatSays, Zenon
      <3> HIDE DEF x
      <3>8. y \in Seq(Word) /\ Len(y) = Len(x) + Len(h)
        BY <1>2, <3>7, CatSays, Zenon
      <3> HIDE DEF y
      <3>9. \A i \in 1..Len(y) : w[i] = y[i]
        BY <1>2, <3>8, CatSays, Zenon
      <3> HIDE DEF w
      <3>10. P - 1 = 4 + Len(h) /\ P - 1 \in 0..Len(u) /\ Len(y) = P - 1
        BY <1>1, <1>2, <1>4, <3>7, <3>8
      <3>11. z \in Seq(Word) /\ Len(z) = P - 1 /\ \A i \in 1..P - 1 : z[i] = u[i]
        BY <1>3, <3>10, CutSays, Zenon
      <3> HIDE DEF z, P, u
      <3>12. z = y
        <4>1. \A i \in 1..Len(y) : z[i] = y[i]
          BY <3>6, <3>9, <3>10, <3>11
        <4> QED
          BY <3>8, <3>10, <3>11, <4>1, SeqEqual
      <3> QED
        BY <3>5, <3>12 DEF x, y, z
    <2>7. q \in P + 1..Len(u) + 1
      <3>1. P + 1 = 6 + Len(h)
        BY <1>2
      <3> QED
        BY <2>2, <3>1
    <2> HIDE DEF site, hostEnd, path
    <2> QED
      BY <2>2, <2>3, <2>5, <2>6, <2>7 DEF Before
  <1>11. CASE ~HasHttp(link) /\ SchemeEnd(link) # 2 /\ ~IsPrefix(<<"/", "/">>, link) /\ StartsWith(link, {"/"})
    <2>1. SubSeq(path, 1, hostEnd) = site
      <3>1. /\ q \in P + 1..Len(u) + 1 /\ path = SubSeq(u, 1, q - 1)
            /\ hostEnd = P - 1 /\ site = SubSeq(u, 1, P - 1)
        BY <1>10, <1>11
      <3> HIDE DEF u, path, hostEnd, site, q
      <3>2. q - 1 \in 0..Len(u) /\ P - 1 \in 0..q - 1 /\ 1 \in Nat \ {0}
        BY <1>2, <3>1
      <3> HIDE DEF P
      <3>3. SubSeq(SubSeq(u, 1, q - 1), 1, P - 1) = SubSeq(u, 1, P - 1)
        BY <1>3, <3>2, PartOfCut
      <3> QED
        BY <3>1, <3>3
    <2> HIDE DEF u, e, site, path, rest, hostEnd, slash
    <2>2. e # 0
      BY <1>1
    <2>3. Resolve(link, u) = site \o link
      BY <1>5, <1>11, <2>2
    <2>4. Target(link, u) = SubSeq(path, 1, hostEnd) \o link
      BY <1>5, <1>11
    <2> QED
      BY <2>1, <2>3, <2>4
  <1>12. CASE ~HasHttp(link) /\ SchemeEnd(link) # 2 /\ ~IsPrefix(<<"/", "/">>, link) /\ ~StartsWith(link, {"/"})
    <2>1. /\ q \in P + 1..Len(u) + 1 /\ path = SubSeq(u, 1, q - 1)
          /\ path \in Seq(Word) /\ Len(path) = q - 1
          /\ \A i \in 1..q - 1 : path[i] = u[i]
          /\ hostEnd = P - 1 /\ site = SubSeq(u, 1, P - 1)
      BY <1>10, <1>12
    <2>2. ~Contains(From(u, q), "/")
      BY <1>6, <1>12
    <2>3. u[P] = "/" /\ rest = SubSeq(u, 5, Len(u)) /\ P \in Nat /\ P >= 5 /\ Len(u) \in Nat
      <3>1. 1 \in 1..Len(r) /\ 4 + Len(h) + 1 = P
        BY <1>2
      <3>2. u[P] = "/"
        <4>1. u[4 + Len(h) + 1] = r[1]
          BY <1>3, <3>1
        <4> HIDE DEF P, u
        <4> QED
          BY <1>2, <3>1, <4>1
      <3>3. e + 3 = 5
        BY <1>1
      <3>4. rest = SubSeq(u, 5, Len(u))
        BY <3>3, Zenon DEF From
      <3>5. P \in Nat /\ P >= 5
        BY <1>2
      <3> HIDE DEF u, P, rest
      <3>6. Len(u) \in Nat
        BY <1>3
      <3> QED
        BY <3>2, <3>4, <3>5, <3>6
    <2>4. \A i \in 5..P - 1 : u[i] # "/"
      <3> SUFFICES ASSUME NEW i \in 5..P - 1 PROVE u[i] # "/"
        OBVIOUS
      <3>1. i - 4 \in 1..Len(h) /\ 4 + (i - 4) = i
        BY <1>2
      <3>2. u[4 + (i - 4)] = h[i - 4]
        BY <1>3, <3>1
      <3> HIDE DEF u
      <3> QED
        BY <1>2, <3>1, <3>2
    <2>5. \A i \in q..Len(u) : u[i] # "/"
      <3> SUFFICES ASSUME NEW i \in q..Len(u), u[i] = "/" PROVE FALSE
        OBVIOUS
      <3> DEFINE b == From(u, q)
                 j == i - q + 1
      <3> HIDE DEF u, q
      <3>1. q \in 1..Len(u) + 1 /\ Len(u) \in (q - 1)..Len(u) /\ j \in 1..Len(u) - q + 1 /\ q + j - 1 = i
        BY <2>1, <2>3
      <3>2. b \in Seq(Word) /\ Len(b) = Len(u) - q + 1 /\ \A l \in 1..Len(u) - q + 1 : b[l] = u[q + l - 1]
        BY <1>3, <3>1, PartAt, Zenon DEF From
      <3>3. ~Contains(b, "/")
        BY <2>2
      <3> HIDE DEF b, j
      <3>4. b[j] = "/" /\ j \in 1..Len(b)
        BY <3>1, <3>2
      <3> QED
        BY <3>3, <3>4, Zenon DEF Contains
    <2> HIDE DEF u, e, q, site, path, hostEnd, P, slash, rest
    <2>6. PICK n \in P..Len(path) : path[n] = "/" /\ \A i \in n + 1..Len(path) : path[i] # "/"
      <3>1. P \in 1..Len(path) /\ path[P] = "/"
        BY <2>1, <2>3
      <3> QED
        BY <2>1, <3>1, LastThere
    <2>7. slash = n
      <3>1. n \in 1..Len(path)
        BY <2>1, <2>3
      <3> QED
        BY <2>1, <2>6, <3>1, LastIs, Zenon DEF slash
    <2>8. n \in P..q - 1 /\ u[n] = "/" /\ (\A i \in n + 1..Len(u) : u[i] # "/") /\ q \in Nat /\ q - 1 <= Len(u)
      <3>1. n \in P..q - 1 /\ n \in 1..q - 1 /\ q \in Nat /\ q - 1 <= Len(u)
        BY <2>1, <2>3, <2>6
      <3>2. ASSUME NEW i \in n + 1..Len(u) PROVE u[i] # "/"
        <4>1. CASE i \in q..Len(u)
          BY <2>5, <4>1
        <4>2. CASE i \notin q..Len(u)
          <5>1. i \in n + 1..Len(path) /\ i \in 1..q - 1
            BY <2>1, <2>3, <3>1, <4>2
          <5> QED
            BY <2>1, <2>6, <5>1
        <4> QED
          BY <4>1, <4>2
      <3> QED
        BY <2>1, <2>6, <3>1, <3>2
    <2> DEFINE L == Len(u)
               m == n - 4
               k == P - 4
               o == 5
    <2>9. o \in 1..Len(u) + 1 /\ L \in (o - 1)..Len(u) /\ L - o + 1 = L - 4 /\ k \in Nat \ {0} /\ m \in 0..L - o + 1
          /\ o + k - 1 = P /\ o + m - 1 = n /\ m \in 1..L - 4 /\ k \in 1..L - 4 /\ k <= m /\ L - 4 \in Nat
      BY <2>1, <2>3, <2>8
    <2>10. rest \in Seq(Word) /\ Len(rest) = L - 4 /\ \A i \in 1..L - 4 : rest[i] = u[4 + i]
      <3>1. 5 \in 1..Len(u) + 1 /\ L \in (5 - 1)..Len(u) /\ L - 5 + 1 = L - 4
        BY <2>9
      <3>2. rest = SubSeq(u, 5, L)
        BY <2>3
      <3> HIDE DEF L
      <3>3. rest \in Seq(Word) /\ Len(rest) = L - 5 + 1 /\ \A i \in 1..L - 5 + 1 : rest[i] = u[5 + i - 1]
        BY <1>3, <3>1, <3>2, PartAt
      <3>4. \A i \in 1..L - 4 : 5 + i - 1 = 4 + i
        BY <3>1
      <3> QED
        BY <3>1, <3>3, <3>4
    <2>11. First(rest, {"/"}, 1) = k
      <3>1. 1 \in 1..Len(rest) + 1 /\ k \in 1..Len(rest) + 1
        BY <2>9, <2>10
      <3>2. ASSUME NEW i \in 1..k - 1 PROVE rest[i] \notin {"/"}
        <4>1. i \in 1..L - 4 /\ 4 + i \in 5..P - 1
          BY <2>3, <2>9
        <4> HIDE DEF L, k
        <4> QED
          BY <2>4, <2>10, <4>1
      <3>3. k <= Len(rest) => rest[k] \in {"/"}
        <4>1. 4 + k = P
          BY <2>3
        <4> HIDE DEF L, k
        <4> QED
          BY <2>3, <2>9, <2>10, <4>1
      <3> HIDE DEF k
      <3> QED
        BY <2>10, <3>1, <3>2, <3>3, FirstIs, Zenon
    <2>12. SelectLastInSeq(rest, LAMBDA c : c = "/") = m
      <3>1. m \in 1..Len(rest) /\ 4 + m = n
        BY <2>8, <2>9, <2>10, <2>3
      <3>2. ASSUME NEW i \in m + 1..Len(rest) PROVE rest[i] # "/"
        <4>1. i \in 1..L - 4 /\ 4 + i \in n + 1..Len(u)
          BY <2>3, <2>8, <2>9, <2>10
        <4> HIDE DEF L, m
        <4> QED
          BY <2>8, <2>10, <4>1
      <3> HIDE DEF m, L
      <3>3. rest[m] = "/"
        BY <2>8, <2>9, <2>10, <3>1
      <3> QED
        BY <2>10, <3>1, <3>2, <3>3, LastIs, Zenon
    <2>13. BaseDir(rest) = SubSeq(u, P, n)
      <3> HIDE DEF m, k, L
      <3>1. ~(k > Len(rest))
        BY <2>9, <2>10
      <3>2. BaseDir(rest) = SubSeq(rest, k, m)
        BY <2>11, <2>12, <3>1, Zenon DEF BaseDir
      <3>3. rest = SubSeq(u, o, L)
        BY <2>3 DEF L
      <3> HIDE DEF o
      <3>4. SubSeq(SubSeq(u, o, L), k, m) = SubSeq(u, o + k - 1, o + m - 1)
        BY <1>3, <2>9, PartOfPart
      <3> QED
        BY <2>9, <3>2, <3>3, <3>4
    <2>14. site \o BaseDir(rest) = SubSeq(u, 1, n)
      <3> DEFINE a == P - 1
      <3>1. 1 \in 1..Len(u) + 1 /\ a \in (1 - 1)..Len(u) /\ n \in a..Len(u) /\ a + 1 = P
        BY <2>3, <2>8
      <3>2. site = SubSeq(u, 1, a)
        BY <2>1
      <3> HIDE DEF a
      <3>3. SubSeq(u, 1, a) \o SubSeq(u, a + 1, n) = SubSeq(u, 1, n)
        BY <1>3, <3>1, PartsMeet, Zenon
      <3> QED
        BY <2>13, <3>1, <3>2, <3>3
    <2>15. SubSeq(path, 1, slash) = SubSeq(u, 1, n)
      <3> DEFINE a == q - 1
      <3>1. a \in 0..Len(u) /\ n \in 0..a /\ 1 \in Nat \ {0}
        BY <2>3, <2>8
      <3>2. path = SubSeq(u, 1, a)
        BY <2>1
      <3> HIDE DEF a
      <3>3. SubSeq(SubSeq(u, 1, a), 1, n) = SubSeq(u, 1, n)
        BY <1>3, <3>1, PartOfCut
      <3> QED
        BY <2>7, <3>2, <3>3
    <2>16. ~(slash <= hostEnd)
      BY <2>1, <2>3, <2>7, <2>8
    <2>17. Resolve(link, u) = site \o BaseDir(rest) \o link
      <3>1. e # 0
        BY <1>1
      <3> QED
        BY <1>5, <1>12, <3>1
    <2>18. Target(link, u) = SubSeq(path, 1, slash) \o link
      BY <1>5, <1>6, <1>12, <2>16
    <2> QED
      BY <2>14, <2>15, <2>17, <2>18
  <1> QED
    BY <1>8, <1>9, <1>11, <1>12

\* Whatever a link is, on a page with a normal form it is resolved to a URL.
LEMMA ResolvedHttp ==
  ASSUME NEW s, NEW h, NEW r, IsForm(s, h, r), NEW link \in Seq(Word)
  PROVE  HasHttp(Resolve(link, Whole(s, h, r)))
  <1> DEFINE base == Whole(s, h, r)
             rest == From(base, 5)
             front == Before(rest, First(rest, {"/"}, 1))
             site == s \o Separator \o front
  <1>1. s \in Schemes /\ h \in Seq(Word) /\ r \in Seq(Word)
    BY DEF IsForm
  <1>2. base \in Seq(Word)
    <2>1. HasParts(base, s, h, r)
      BY <1>1, WholeSays
    <2> HIDE DEF base
    <2> QED
      BY <2>1 DEF HasParts
  <1>3. SchemeEnd(base) = 2 /\ Before(base, 2) = s /\ rest = h \o r
    <2>1. ReadsAs(base, s, h, r)
      BY FormSays, Zenon
    <2> QED
      BY <2>1, Zenon DEF ReadsAs
  <1>4. rest \in Seq(Word)
    <2>1. h \o r \in Seq(Word)
      BY <1>1, CatSays
    <2> QED
      BY <1>3, <2>1, Zenon
  <1>5. /\ s \in Seq(Word) /\ Len(s) = 1 /\ s[1] \in {"http", "https"}
        /\ Separator \in Seq(Word) /\ Len(Separator) = 3
        /\ Separator[1] = ":" /\ Separator[2] = "/" /\ Separator[3] = "/"
    BY <1>1, SchemesSay
  <1>6. Resolve(link, base) = IF HasHttp(link) THEN link
                              ELSE IF IsPrefix(<<"/", "/">>, link) THEN s \o <<":">> \o link
                              ELSE IF StartsWith(link, {"/"}) THEN site \o link
                              ELSE site \o BaseDir(rest) \o link
    <2>1. 2 # 0 /\ 2 + 3 = 5
      OBVIOUS
    <2> HIDE DEF base
    <2> QED
      BY <1>3, <2>1 DEF Resolve
  <1> HIDE DEF base, rest
  <1>7. front \in Seq(Word)
    <2>1. 1 \in 1..Len(rest) + 1
      BY <1>4
    <2>2. First(rest, {"/"}, 1) \in 1..Len(rest) + 1
      BY <1>4, <2>1, FirstSays, Zenon
    <2>3. First(rest, {"/"}, 1) - 1 \in 0..Len(rest)
      BY <1>4, <2>2
    <2> QED
      BY <1>4, <2>3, CutSays, Zenon DEF Before
  <1> HIDE DEF front
  <1>8. BaseDir(rest) \in Seq(Word)
    BY <1>4, DirTyped
  <1>9. ASSUME NEW x \in Seq(Word), NEW y \in Seq(Word) PROVE x \o y \in Seq(Word)
    BY CatSays
  <1>10. ASSUME NEW x \in Seq(Word), NEW y \in Seq(Word), HasHttp(x) PROVE HasHttp(x \o y)
    <2>1. /\ x \o y \in Seq(Word) /\ Len(x \o y) = Len(x) + Len(y)
          /\ \A i \in 1..Len(x) : (x \o y)[i] = x[i]
      BY CatSays
    <2>2. Len(x) >= 4 /\ x[1] \in {"http", "https"} /\ x[2] = ":" /\ x[3] = "/" /\ x[4] = "/"
      BY <1>10, HttpBegins
    <2> DEFINE z == x \o y
    <2> HIDE DEF z
    <2>3. z \in Seq(Word) /\ Len(z) = Len(x) + Len(y) /\ \A i \in 1..Len(x) : z[i] = x[i]
      BY <2>1 DEF z
    <2>4. Len(z) >= 4 /\ 1 \in 1..Len(x) /\ 2 \in 1..Len(x) /\ 3 \in 1..Len(x) /\ 4 \in 1..Len(x)
      BY <2>2, <2>3
    <2>5. HasHttp(z)
      BY <2>2, <2>3, <2>4, HttpBegins
    <2> QED
      BY <2>5 DEF z
  <1>11. s \o Separator \in Seq(Word) /\ HasHttp(s \o Separator)
    <2> DEFINE a == s \o Separator
    <2>1. /\ a \in Seq(Word) /\ Len(a) = Len(s) + Len(Separator)
          /\ \A i \in 1..Len(s) : a[i] = s[i]
          /\ \A i \in 1..Len(Separator) : a[Len(s) + i] = Separator[i]
      BY <1>5, CatSays, Zenon
    <2> HIDE DEF a
    <2>2. Len(a) = 4 /\ 1 \in 1..Len(s) /\ \A i \in 1..3 : a[1 + i] = Separator[i]
      BY <1>5, <2>1
    <2>3. 1 + 1 = 2 /\ 1 + 2 = 3 /\ 1 + 3 = 4 /\ 1 \in 1..3 /\ 2 \in 1..3 /\ 3 \in 1..3
      OBVIOUS
    <2>4. a[1 + 1] = ":" /\ a[1 + 2] = "/" /\ a[1 + 3] = "/" /\ a[1] = s[1]
      BY <1>5, <2>1, <2>2, <2>3
    <2>5. HasHttp(a)
      <3>1. Len(a) >= 4
        BY <2>2
      <3>2. a[2] = ":" /\ a[3] = "/" /\ a[4] = "/"
        BY <2>3, <2>4
      <3>3. a[1] \in {"http", "https"} /\ a \in Seq(Word)
        BY <1>5, <2>1, <2>4
      <3> QED
        BY <3>1, <3>2, <3>3, HttpBegins
    <2> QED
      BY <2>1, <2>5 DEF a
  <1>12. site \in Seq(Word) /\ HasHttp(site)
    BY <1>7, <1>9, <1>10, <1>11
  <1> HIDE DEF site
  <1>13. CASE IsPrefix(<<"/", "/">>, link)
    <2> DEFINE c == <<":">>
               x == s \o c
               z == x \o link
    <2>1. c \in Seq(Word) /\ Len(c) = 1 /\ c[1] = ":"
      BY WordsSay
    <2>2. <<"/", "/">> \in Seq(Word) /\ Len(<<"/", "/">>) = 2
      BY WordsSay
    <2>3. Len(link) >= 2 /\ link[1] = "/" /\ link[2] = "/"
      <3>1. 2 <= Len(link) /\ \A i \in 1..2 : <<"/", "/">>[i] = link[i]
        BY <1>13, <2>2, PrefixSays
      <3>2. 1 \in 1..2 /\ 2 \in 1..2 /\ <<"/", "/">>[1] = "/" /\ <<"/", "/">>[2] = "/"
        OBVIOUS
      <3> QED
        BY <3>1, <3>2
    <2> HIDE DEF c
    <2>4. /\ x \in Seq(Word) /\ Len(x) = Len(s) + Len(c)
          /\ \A i \in 1..Len(s) : x[i] = s[i]
          /\ \A i \in 1..Len(c) : x[Len(s) + i] = c[i]
      BY <1>5, <2>1, CatSays, Zenon
    <2> HIDE DEF x
    <2>5. Len(x) = 2 /\ x[1] = s[1] /\ x[2] = ":"
      <3>1. 1 \in 1..Len(s) /\ 1 \in 1..Len(c) /\ Len(s) + 1 = 2
        BY <1>5, <2>1
      <3>2. x[Len(s) + 1] = c[1] /\ x[1] = s[1]
        BY <2>4, <3>1
      <3> QED
        BY <1>5, <2>1, <2>4, <3>1, <3>2
    <2>6. /\ z \in Seq(Word) /\ Len(z) = Len(x) + Len(link)
          /\ \A i \in 1..Len(x) : z[i] = x[i]
          /\ \A i \in 1..Len(link) : z[Len(x) + i] = link[i]
      BY <2>4, CatSays, Zenon
    <2> HIDE DEF z
    <2>7. Len(z) >= 4 /\ z[1] = x[1] /\ z[2] = x[2] /\ z[3] = link[1] /\ z[4] = link[2]
      <3>1. 1 \in 1..Len(x) /\ 2 \in 1..Len(x) /\ 1 \in 1..Len(link) /\ 2 \in 1..Len(link)
            /\ Len(x) + 1 = 3 /\ Len(x) + 2 = 4
        BY <2>3, <2>5
      <3>2. z[Len(x) + 1] = link[1] /\ z[Len(x) + 2] = link[2] /\ z[1] = x[1] /\ z[2] = x[2]
        BY <2>6, <3>1
      <3>3. Len(z) >= 4
        BY <2>3, <2>5, <2>6
      <3> QED
        BY <3>1, <3>2, <3>3
    <2>8. HasHttp(z)
      BY <1>5, <2>3, <2>5, <2>6, <2>7, HttpBegins
    <2>9. Resolve(link, base) \in {link, z} /\ (Resolve(link, base) = link => HasHttp(link) \/ link = z)
      BY <1>6, <1>13 DEF z, x, c
    <2> QED
      BY <2>8, <2>9 DEF base
  <1>14. CASE ~IsPrefix(<<"/", "/">>, link)
    <2>1. HasHttp(site \o link)
      BY <1>10, <1>12
    <2>2. site \o BaseDir(rest) \in Seq(Word) /\ HasHttp(site \o BaseDir(rest))
      BY <1>8, <1>9, <1>10, <1>12
    <2>3. HasHttp(site \o BaseDir(rest) \o link)
      BY <1>10, <2>2
    <2> QED
      BY <1>6, <1>14, <2>1, <2>3 DEF base
  <1> QED
    BY <1>13, <1>14

-----------------------------------------------------------------------------
(* URLFilter: a link, and the URL that the frontier makes of it.           *)

\* A link u and what is made of it, v: up to the end of the host they are the same but
\* for capitals and the d tokens of a default port; behind it they are the same, but
\* for the slash that is put where there is no path.
Nearly(u, v, n, d) ==
  /\ u \in Seq(Word) /\ v \in Seq(Word) /\ n \in 5..Len(u) + 1 /\ d \in 0..n - 5
  /\ Len(v) = IF n > Len(u) THEN n - d ELSE Len(u) - d
  /\ \A i \in 1..n - d - 1 : Lower(v)[i] = Lower(u)[i]
  /\ \A i \in n - d..n - 1 : u[i] \notin {"?", "&"}
  /\ \A i \in n..Len(u) : v[i - d] = u[i]
  /\ v[n - d] = "/"
  /\ \A i \in 5..n - 1 : u[i] # "/"
  /\ u[4] = "/"

\* The link has what is made of it before the path.
LEMMA NearlyBefore ==
  ASSUME NEW u, NEW v, NEW n, NEW d, Nearly(u, v, n, d), NEW c \in Delimiter,
         NEW i \in 1..n - d - 1
  PROVE  v[i] = c <=> u[i] = c
  <1>1. /\ u \in Seq(Word) /\ v \in Seq(Word) /\ n \in 5..Len(u) + 1 /\ d \in 0..n - 5
        /\ Len(v) = IF n > Len(u) THEN n - d ELSE Len(u) - d
        /\ \A k \in 1..n - d - 1 : Lower(v)[k] = Lower(u)[k]
    BY DEF Nearly
  <1>2. i \in 1..Len(u) /\ i \in 1..Len(v)
    BY <1>1
  <1>3. Lower(u)[i] = c <=> u[i] = c
    BY <1>1, <1>2, LowerSays
  <1>4. Lower(v)[i] = c <=> v[i] = c
    BY <1>1, <1>2, LowerSays
  <1> QED
    BY <1>1, <1>3, <1>4

\* The places.
LEMMA NearlyPlaces ==
  ASSUME NEW u, NEW v, NEW n, NEW d, Nearly(u, v, n, d)
  PROVE  /\ Len(u) \in Nat /\ Len(v) \in Nat /\ n \in Nat /\ d \in Nat /\ n - d \in Nat
         /\ 5 <= n - d /\ n <= Len(u) + 1
         /\ n <= Len(u) => Len(v) = Len(u) - d
         /\ n = Len(u) + 1 => Len(v) = n - d
  <1>1. /\ u \in Seq(Word) /\ v \in Seq(Word) /\ n \in 5..Len(u) + 1 /\ d \in 0..n - 5
        /\ Len(v) = IF n > Len(u) THEN n - d ELSE Len(u) - d
    BY DEF Nearly
  <1> QED
    BY <1>1

\* The question mark is found in the same place, or in the same place behind the host.
LEMMA QuestionAlike ==
  ASSUME NEW u, NEW v, NEW n, NEW d, Nearly(u, v, n, d)
  PROVE  LET q == First(u, {"?"}, 1)
             r == First(v, {"?"}, 1)
         IN /\ q \in 1..Len(u) + 1 /\ r \in 1..Len(v) + 1
            /\ \/ q < n - d /\ r = q
               \/ q > n /\ q <= Len(u) /\ r = q - d
               \/ q = Len(u) + 1 /\ r = Len(v) + 1 /\ r > n - d
  <1> DEFINE q == First(u, {"?"}, 1)
             r == First(v, {"?"}, 1)
  <1>1. /\ u \in Seq(Word) /\ v \in Seq(Word) /\ n \in 5..Len(u) + 1 /\ d \in 0..n - 5
        /\ Len(v) = IF n > Len(u) THEN n - d ELSE Len(u) - d
        /\ \A i \in n - d..n - 1 : u[i] # "?"
        /\ \A i \in n..Len(u) : v[i - d] = u[i]
        /\ v[n - d] = "/"
    BY DEF Nearly
  <1>2. 1 \in 1..Len(u) + 1 /\ 1 \in 1..Len(v) + 1
    BY <1>1
  <1>3. q \in 1..Len(u) + 1 /\ (\A i \in 1..q - 1 : u[i] \notin {"?"}) /\ (q <= Len(u) => u[q] \in {"?"})
    BY <1>1, <1>2, FirstSays, Zenon
  <1>4. r \in 1..Len(v) + 1 /\ (\A i \in 1..r - 1 : v[i] \notin {"?"}) /\ (r <= Len(v) => v[r] \in {"?"})
    BY <1>1, <1>2, FirstSays, Zenon
  <1>5. \A i \in 1..n - d - 1 : v[i] = "?" <=> u[i] = "?"
    BY NearlyBefore DEF Delimiter
  <1> HIDE DEF q, r
  <1>6. CASE q < n - d
    <2>1. q \in 1..n - d - 1 /\ q <= Len(u) /\ q <= Len(v)
      BY <1>1, <1>3, <1>6
    <2>2. v[q] = "?"
      BY <1>3, <1>5, <2>1
    <2>3. r <= q
      BY <1>3, <1>4, <2>2
    <2>4. r \in 1..n - d - 1 /\ r <= Len(v)
      <3>1. r <= n - d - 1 /\ r <= Len(v) /\ 1 <= r /\ r \in Nat
        BY <1>3, <1>4, <2>1, <2>3, NearlyPlaces
      <3> QED
        BY <3>1, NearlyPlaces
    <2>5. u[r] = "?"
      BY <1>4, <1>5, <2>4
    <2>6. ~(r < q)
      BY <1>3, <1>4, <2>5
    <2> QED
      BY <1>3, <1>4, <1>6, <2>3, <2>6 DEF q, r
  <1>7. CASE ~(q < n - d)
    <2>1. \A i \in 1..n - d - 1 : v[i] # "?"
      <3>1. \A i \in 1..n - d - 1 : i \in 1..q - 1
        BY <1>1, <1>3, <1>7
      <3> QED
        BY <1>3, <1>5, <3>1
    <2>2. r >= n - d /\ r # n - d
      <3>1. n - d \in 1..Len(v)
        BY <1>1
      <3>2. r < n - d => r \in 1..n - d - 1 /\ r <= Len(v)
        BY <1>1, <1>4
      <3>3. ~(r < n - d)
        BY <1>4, <2>1, <3>2
      <3>4. r # n - d
        BY <1>1, <1>4, <3>1
      <3> QED
        BY <1>1, <1>4, <3>3, <3>4
    <2>3. q >= n
      <3>1. q < n => q \in n - d..n - 1 /\ q <= Len(u)
        BY <1>1, <1>3, <1>7
      <3> QED
        BY <1>1, <1>3, <3>1
    <2>4. \A i \in n..Len(u) : i - d \in 1..Len(v) /\ v[i - d] = u[i]
      BY <1>1
    <2>5. CASE q <= Len(u)
      <3>1. v[q - d] = "?" /\ q - d \in 1..Len(v)
        BY <1>3, <2>3, <2>4, <2>5
      <3>2. r <= q - d
        BY <1>1, <1>3, <1>4, <3>1
      <3>3. ~(r < q - d)
        <4> SUFFICES ASSUME r < q - d PROVE FALSE
          OBVIOUS
        <4> DEFINE k == r + d
        <4>1. k \in n..Len(u) /\ k \in 1..q - 1 /\ k - d = r /\ r <= Len(v)
          BY <1>1, <1>3, <1>4, <2>2, <2>3, <2>5, <3>1
        <4> HIDE DEF k
        <4>2. v[r] = u[k]
          BY <2>4, <4>1
        <4> QED
          BY <1>3, <1>4, <4>1, <4>2
      <3>4. q # n
        BY <1>1, <2>5, <3>1, <1>3
      <3> QED
        <4>1. r = q - d /\ q > n
          BY <1>1, <1>3, <1>4, <2>3, <3>1, <3>2, <3>3, <3>4, NearlyPlaces
        <4> QED
          BY <1>3, <1>4, <2>5, <4>1 DEF q, r
    <2>6. CASE ~(q <= Len(u))
      <3>1. q = Len(u) + 1
        BY <1>3, <2>6, NearlyPlaces
      <3>2. ~(r <= Len(v))
        <4> SUFFICES ASSUME r <= Len(v) PROVE FALSE
          OBVIOUS
        <4>1. n <= Len(u)
          BY <1>1, <1>4, <2>2
        <4> DEFINE k == r + d
        <4>2. k \in n..Len(u) /\ k \in 1..q - 1 /\ k - d = r
          BY <1>1, <1>4, <2>2, <3>1, <4>1
        <4> HIDE DEF k
        <4>3. v[r] = u[k]
          BY <2>4, <4>2
        <4> QED
          BY <1>3, <1>4, <4>2, <4>3
      <3> QED
        <4>1. Len(v) \in Nat /\ n - d \in Nat
          BY NearlyPlaces
        <4>2. r = Len(v) + 1 /\ r > n - d
          <5>1. r \in 1..Len(v) + 1
            BY <1>4
          <5> QED
            BY <2>2, <3>2, <4>1, <5>1
        <4> QED
          BY <1>3, <1>4, <3>1, <4>2 DEF q, r
    <2> QED
      BY <2>5, <2>6
  <1> QED
    BY <1>6, <1>7

\* The filter finds the same extension, but for a host alone that has one.
LEMMA ExtensionAlike ==
  ASSUME NEW u, NEW v, NEW n, NEW d, Nearly(u, v, n, d), n > Len(u) => ~HasBadExtension(u)
  PROVE  HasBadExtension(u) <=> HasBadExtension(v)
  <1> DEFINE q == First(u, {"?"}, 1)
             r == First(v, {"?"}, 1)
             a == Before(u, q)
             b == Before(v, r)
  <1>1. /\ u \in Seq(Word) /\ v \in Seq(Word) /\ n \in 5..Len(u) + 1 /\ d \in 0..n - 5
        /\ Len(v) = IF n > Len(u) THEN n - d ELSE Len(u) - d
        /\ \A k \in 1..n - d - 1 : Lower(v)[k] = Lower(u)[k]
        /\ \A i \in n..Len(u) : v[i - d] = u[i]
        /\ v[n - d] = "/"
    BY DEF Nearly
  <1>2. /\ q \in 1..Len(u) + 1 /\ r \in 1..Len(v) + 1
        /\ \/ q < n - d /\ r = q
           \/ q > n /\ q <= Len(u) /\ r = q - d
           \/ q = Len(u) + 1 /\ r = Len(v) + 1 /\ r > n - d
    BY QuestionAlike
  <1>3. HasBadExtension(u) <=> Lower(a) # <<>> /\ Last(Lower(a)) \in BadExtension
    BY DEF HasBadExtension
  <1>4. HasBadExtension(v) <=> Lower(b) # <<>> /\ Last(Lower(b)) \in BadExtension
    BY DEF HasBadExtension
  <1> HIDE DEF q, r
  <1>5. a \in Seq(Word) /\ Len(a) = q - 1 /\ \A i \in 1..q - 1 : a[i] = u[i]
    <2>1. q - 1 \in 0..Len(u)
      BY <1>1, <1>2
    <2> QED
      BY <1>1, <2>1, CutSays DEF Before
  <1>6. b \in Seq(Word) /\ Len(b) = r - 1 /\ \A i \in 1..r - 1 : b[i] = v[i]
    <2>1. r - 1 \in 0..Len(v)
      BY <1>1, <1>2
    <2> QED
      BY <1>1, <2>1, CutSays DEF Before
  <1> HIDE DEF a, b
  <1>7. Lower(a) \in Seq(Word) /\ Len(Lower(a)) = q - 1
    BY <1>5, LowerSays
  <1>8. Lower(b) \in Seq(Word) /\ Len(Lower(b)) = r - 1
    BY <1>6, LowerSays
  <1>9. \A i \in 1..q - 1 : Lower(a)[i] = Lower(u)[i]
    <2>1. \A i \in 1..q - 1 : i \in 1..Len(u)
      BY <1>1, <1>2
    <2> QED
      BY <1>1, <1>5, <2>1 DEF Lower
  <1>10. \A i \in 1..r - 1 : Lower(b)[i] = Lower(v)[i]
    <2>1. \A i \in 1..r - 1 : i \in 1..Len(v)
      BY <1>1, <1>2
    <2> QED
      BY <1>1, <1>6, <2>1 DEF Lower
  <1>11. q - 1 \in Nat /\ r - 1 \in Nat
    BY <1>1, <1>2
  <1>12. CASE q < n - d /\ r = q
    <2>1. \A i \in 1..q - 1 : Lower(a)[i] = Lower(b)[i]
      <3>1. \A i \in 1..q - 1 : i \in 1..n - d - 1
        BY <1>1, <1>2, <1>12
      <3> QED
        BY <1>1, <1>9, <1>10, <1>12, <3>1
    <2>2. Lower(a) = Lower(b)
      BY <1>7, <1>8, <1>12, <2>1, SeqEqual
    <2> QED
      BY <1>3, <1>4, <2>2
  <1>13. CASE ~(q < n - d /\ r = q) /\ n <= Len(u)
    <2>1. q > n /\ r = q - d
      BY <1>1, <1>2, <1>13
    <2>2. q - 1 \in 1..q - 1 /\ r - 1 \in 1..r - 1 /\ r - 1 = (q - 1) - d /\ q - 1 \in n..Len(u)
      BY <1>1, <1>2, <2>1
    <2>3. v[r - 1] = u[q - 1] /\ q - 1 \in 1..Len(u) /\ r - 1 \in 1..Len(v)
      <3> DEFINE k == q - 1
      <3>1. k \in n..Len(u) /\ k - d = r - 1
        BY <2>2
      <3>2. v[k - d] = u[k]
        BY <1>1, <3>1
      <3>3. k \in 1..Len(u) /\ r - 1 \in 1..Len(v)
        BY <1>2, <2>2, <3>1, NearlyPlaces
      <3> QED
        BY <3>1, <3>2, <3>3
    <2>4. Lower(v)[r - 1] = Lower(u)[q - 1]
      BY <1>1, <2>3 DEF Lower
    <2>5. Last(Lower(a)) = Last(Lower(b))
      BY <1>7, <1>8, <1>9, <1>10, <2>2, <2>4 DEF Last
    <2>6. Lower(a) # <<>> /\ Lower(b) # <<>>
      BY <1>7, <1>8, <2>2
    <2> QED
      BY <1>3, <1>4, <2>5, <2>6
  <1>14. CASE ~(q < n - d /\ r = q) /\ n > Len(u)
    <2>1. r - 1 = n - d /\ r - 1 \in 1..r - 1 /\ r - 1 \in 1..Len(v)
      BY <1>1, <1>2, <1>14
    <2>2. Lower(v)[r - 1] = "/"
      <3>1. "/" \in Delimiter /\ v[r - 1] = "/" /\ v \in Seq(Word)
        BY <1>1, <2>1 DEF Delimiter
      <3>2. \A i \in 1..Len(v) : Lower(v)[i] = "/" <=> v[i] = "/"
        BY <3>1, LowerSays
      <3> QED
        BY <2>1, <3>1, <3>2
    <2>3. Last(Lower(b)) = "/"
      BY <1>8, <1>10, <2>1, <2>2 DEF Last
    <2>4. "/" \notin BadExtension
      BY UrlsAssumption DEF Delimiter
    <2> QED
      BY <1>4, <1>14, <2>3, <2>4
  <1>15. n <= Len(u) \/ n > Len(u)
    BY NearlyPlaces
  <1> QED
    BY <1>12, <1>13, <1>14, <1>15

\* A pattern of the filter that does not begin in the host is found in both.
LEMMA OccursAlike ==
  ASSUME NEW u, NEW v, NEW n, NEW d, Nearly(u, v, n, d), NEW p, p \in Seq(Word) \/ Len(p) > 1,
         \A i \in 1..n - 1 : ~IsPrefix(p, From(Lower(u), i)),
         \A i \in 1..n - d - 1 : ~IsPrefix(p, From(Lower(v), i))
  PROVE  Occurs(p, Lower(u)) <=> Occurs(p, Lower(v))
  <1> DEFINE a == Lower(u)
             b == Lower(v)
  <1>1. /\ u \in Seq(Word) /\ v \in Seq(Word)
        /\ \A i \in n..Len(u) : v[i - d] = u[i]
        /\ \A k \in 1..n - d - 1 : b[k] = a[k]
        /\ v[n - d] = "/" /\ u[4] = "/"
    BY DEF Nearly
  <1>2. /\ Len(u) \in Nat /\ Len(v) \in Nat /\ n \in Nat /\ d \in Nat /\ n - d \in Nat
        /\ 5 <= n - d /\ n <= Len(u) + 1
        /\ n <= Len(u) => Len(v) = Len(u) - d
        /\ n = Len(u) + 1 => Len(v) = n - d
    BY NearlyPlaces
  <1>3. a \in Seq(Word) /\ Len(a) = Len(u) /\ DOMAIN a = 1..Len(u)
    BY <1>1, LowerSays
  <1>4. b \in Seq(Word) /\ Len(b) = Len(v) /\ DOMAIN b = 1..Len(v)
    BY <1>1, LowerSays
  <1>5. \A i \in n..Len(u) : b[i - d] = a[i]
    <2>1. \A i \in n..Len(u) : i \in 1..Len(u) /\ i - d \in 1..Len(v)
      BY <1>2
    <2> QED
      BY <1>1, <2>1 DEF Lower
  <1>6. n - d \in 1..Len(v) /\ b[n - d] = "/"
    <2>1. n - d \in 1..Len(v)
      BY <1>2
    <2> QED
      BY <1>1, <2>1, LowerSays DEF Delimiter
  <1>7. 4 \in 1..n - d - 1 /\ b[4] = "/"
    <2>1. 4 \in 1..n - d - 1 /\ 4 \in 1..Len(u)
      BY <1>2
    <2>2. a[4] = "/"
      BY <1>1, <2>1, LowerSays DEF Delimiter
    <2> QED
      BY <1>1, <2>1, <2>2
  <1>8. /\ Occurs(p, a) <=> \E i \in 1..Len(u) : IsPrefix(p, From(a, i))
        /\ Occurs(p, b) <=> \E i \in 1..Len(v) : IsPrefix(p, From(b, i))
    BY <1>3, <1>4 DEF Occurs
  <1>9. /\ \A i \in 1..n - 1 : ~IsPrefix(p, From(a, i))
        /\ \A i \in 1..n - d - 1 : ~IsPrefix(p, From(b, i))
    OBVIOUS
  <1> HIDE DEF a, b
  <1>10. ASSUME NEW i \in n..Len(u) PROVE From(a, i) = From(b, i - d)
    <2> DEFINE j == i - d
    <2>1. j \in 1..Len(v) + 1 /\ i \in 1..Len(u) + 1 /\ Len(v) - j + 1 = Len(u) - i + 1
      BY <1>2
    <2>2. /\ From(a, i) \in Seq(Word) /\ Len(From(a, i)) = Len(u) - i + 1
          /\ \A k \in 1..Len(u) - i + 1 : From(a, i)[k] = a[i + k - 1]
      <3>1. Len(u) \in (i - 1)..Len(u)
        BY <1>2
      <3> QED
        BY <1>3, <2>1, <3>1, PartAt DEF From
    <2>3. /\ From(b, j) \in Seq(Word) /\ Len(From(b, j)) = Len(u) - i + 1
          /\ \A k \in 1..Len(u) - i + 1 : From(b, j)[k] = b[j + k - 1]
      <3>1. Len(v) \in (j - 1)..Len(v)
        BY <1>2, <2>1
      <3>2. /\ SubSeq(b, j, Len(v)) \in Seq(Word) /\ Len(SubSeq(b, j, Len(v))) = Len(v) - j + 1
            /\ \A k \in 1..Len(v) - j + 1 : SubSeq(b, j, Len(v))[k] = b[j + k - 1]
        <4>1. j \in 1..Len(b) + 1 /\ Len(v) \in (j - 1)..Len(b)
          BY <1>4, <2>1, <3>1
        <4> HIDE DEF j
        <4> QED
          BY <1>4, <4>1, PartAt
      <3> HIDE DEF j
      <3> QED
        BY <1>4, <2>1, <3>2 DEF From
    <2>4. ASSUME NEW k \in 1..Len(u) - i + 1 PROVE a[i + k - 1] = b[j + k - 1]
      <3> DEFINE m == i + k - 1
      <3>1. m \in n..Len(u) /\ m - d = j + k - 1
        BY <1>2
      <3> HIDE DEF m
      <3>2. b[m - d] = a[m]
        BY <1>5, <3>1
      <3> QED
        BY <3>1, <3>2 DEF m
    <2> HIDE DEF j
    <2>5. From(a, i) = From(b, j)
      BY <2>2, <2>3, <2>4, SeqEqual
    <2> QED
      BY <2>5 DEF j
  <1>11. Occurs(p, a) <=> \E i \in n..Len(u) : IsPrefix(p, From(a, i))
    <2>1. \A i \in 1..Len(u) : i \in 1..n - 1 \/ i \in n..Len(u)
      BY <1>2
    <2>2. \A i \in n..Len(u) : i \in 1..Len(u)
      BY <1>2
    <2> QED
      BY <1>8, <1>9, <2>1, <2>2
  <1>12. Occurs(p, b) <=> \E i \in n - d..Len(v) : IsPrefix(p, From(b, i))
    <2>1. \A i \in 1..Len(v) : i \in 1..n - d - 1 \/ i \in n - d..Len(v)
      BY <1>2
    <2>2. \A i \in n - d..Len(v) : i \in 1..Len(v)
      BY <1>2
    <2> QED
      BY <1>8, <1>9, <2>1, <2>2
  <1>13. CASE n <= Len(u)
    <2>1. \A i \in n..Len(u) : i - d \in n - d..Len(v)
      BY <1>2, <1>13
    <2>2. \A i \in n..Len(u) : IsPrefix(p, From(a, i)) <=> IsPrefix(p, From(b, i - d))
      BY <1>10
    <2>3. ASSUME NEW j \in n - d..Len(v), IsPrefix(p, From(b, j)) PROVE Occurs(p, a)
      <3> DEFINE i == j + d
      <3>1. i \in n..Len(u) /\ i - d = j
        BY <1>2, <1>13
      <3> HIDE DEF i
      <3>2. IsPrefix(p, From(a, i))
        BY <2>2, <2>3, <3>1
      <3> QED
        BY <1>11, <3>1, <3>2
    <2> QED
      BY <1>11, <1>12, <2>1, <2>2, <2>3 DEF a, b
  <1>14. CASE n = Len(u) + 1
    <2>1. ~Occurs(p, a)
      BY <1>2, <1>11, <1>14
    <2>2. ~Occurs(p, b)
      <3> SUFFICES ASSUME Occurs(p, b) PROVE FALSE
        OBVIOUS
      <3>1. Len(v) = n - d /\ (\A i \in n - d..Len(v) : i = n - d)
        BY <1>2, <1>14
      <3>2. IsPrefix(p, From(b, n - d))
        BY <1>12, <3>1
      <3> DEFINE x == From(b, n - d)
                 y == From(b, 4)
      <3>3. x \in Seq(Word) /\ Len(x) = 1 /\ x[1] = "/"
        <4>1. n - d \in 1..Len(b) + 1 /\ Len(b) \in (n - d - 1)..Len(b) /\ Len(b) - (n - d) + 1 = 1
          BY <1>2, <1>4, <3>1
        <4>2. /\ x \in Seq(Word) /\ Len(x) = Len(b) - (n - d) + 1
              /\ \A k \in 1..Len(b) - (n - d) + 1 : x[k] = b[n - d + k - 1]
          BY <1>4, <4>1, PartAt DEF From
        <4>3. 1 \in 1..Len(b) - (n - d) + 1 /\ n - d + 1 - 1 = n - d
          BY <1>2, <4>1
        <4> QED
          BY <1>6, <4>1, <4>2, <4>3
      <3>4. y \in Seq(Word) /\ Len(y) >= 1 /\ y[1] = "/"
        <4>1. 4 \in 1..Len(b) + 1 /\ Len(b) \in (4 - 1)..Len(b) /\ Len(b) - 4 + 1 >= 1
          BY <1>2, <1>4, <3>1
        <4>2. /\ y \in Seq(Word) /\ Len(y) = Len(b) - 4 + 1
              /\ \A k \in 1..Len(b) - 4 + 1 : y[k] = b[4 + k - 1]
          BY <1>4, <4>1, PartAt DEF From
        <4>3. 1 \in 1..Len(b) - 4 + 1 /\ 4 + 1 - 1 = 4
          BY <1>2, <4>1
        <4> QED
          BY <1>7, <4>1, <4>2, <4>3
      <3>5. IsPrefix(p, x)
        BY <3>2
      <3> HIDE DEF x, y
      <3>6. p \in Seq(Word)
        <4>1. Len(p) <= Len(x)
          BY <3>5 DEF IsPrefix
        <4> QED
          BY <3>3, <4>1
      <3>7. Len(p) <= 1 /\ \A k \in 1..Len(p) : p[k] = x[k]
        BY <3>3, <3>5, <3>6, PrefixSays
      <3>8. Len(p) <= Len(y) /\ \A k \in 1..Len(p) : p[k] = y[k]
        <4>1. \A k \in 1..Len(p) : k = 1
          BY <3>6, <3>7
        <4> QED
          BY <3>3, <3>4, <3>6, <3>7, <4>1
      <3>9. IsPrefix(p, y)
        BY <3>4, <3>6, <3>8, PrefixSays
      <3> QED
        BY <1>7, <1>9, <3>9 DEF y
    <2> QED
      BY <2>1, <2>2 DEF a, b
  <1>15. n <= Len(u) \/ n = Len(u) + 1
    BY <1>2
  <1> QED
    BY <1>13, <1>14, <1>15

\* The filter counts the same parameters, but for one that is only the slash behind a host.
LEMMA CountAlike ==
  ASSUME NEW u, NEW v, NEW n, NEW d, Nearly(u, v, n, d)
  PROVE  CountQueryParams(u) <= MaxQueryParams <=> CountQueryParams(v) <= MaxQueryParams
  <1> DEFINE q == First(u, {"?"}, 1)
             r == First(v, {"?"}, 1)
             A == {i \in q + 1..Len(u) : u[i] = "&"}
             B == {i \in r + 1..Len(v) : v[i] = "&"}
             g == [i \in A |-> IF i < n THEN i ELSE i - d]
  <1>1. /\ \A i \in n - d..n - 1 : u[i] # "&"
        /\ \A i \in n..Len(u) : v[i - d] = u[i]
        /\ v[n - d] = "/"
    BY DEF Nearly
  <1>2. /\ Len(u) \in Nat /\ Len(v) \in Nat /\ n \in Nat /\ d \in Nat /\ n - d \in Nat
        /\ 5 <= n - d /\ n <= Len(u) + 1
        /\ n <= Len(u) => Len(v) = Len(u) - d
        /\ n = Len(u) + 1 => Len(v) = n - d
    BY NearlyPlaces
  <1>3. /\ q \in 1..Len(u) + 1 /\ r \in 1..Len(v) + 1
        /\ \/ q < n - d /\ r = q
           \/ q > n /\ q <= Len(u) /\ r = q - d
           \/ q = Len(u) + 1 /\ r = Len(v) + 1 /\ r > n - d
    BY QuestionAlike
  <1>4. \A i \in 1..n - d - 1 : v[i] = "&" <=> u[i] = "&"
    BY NearlyBefore DEF Delimiter
  <1>5. /\ CountQueryParams(u) = IF q >= Len(u) THEN 0 ELSE 1 + Cardinality(A)
        /\ CountQueryParams(v) = IF r >= Len(v) THEN 0 ELSE 1 + Cardinality(B)
    BY DEF CountQueryParams
  <1> HIDE DEF q, r
  <1>6. IsFiniteSet(A)
    <2>1. IsFiniteSet(q + 1..Len(u))
      BY <1>2, <1>3, FS_Interval
    <2> QED
      BY <2>1, FS_Subset
  <1>7. MaxQueryParams \in Nat \ {0}
    BY UrlsAssumption
  <1>8. CASE q = Len(u) + 1 /\ r = Len(v) + 1
    BY <1>2, <1>5, <1>7, <1>8
  <1>9. CASE ~(q = Len(u) + 1 /\ r = Len(v) + 1)
    <2>1. \/ q < n - d /\ r = q
          \/ q > n /\ q <= Len(u) /\ r = q - d
      BY <1>3, <1>9
    <2>2. ASSUME NEW i \in A
          PROVE  /\ i < n => i < n - d /\ i \in B
                 /\ i >= n => i - d \in B /\ i - d >= n - d
      <3>1. i \in q + 1..Len(u) /\ u[i] = "&"
        OBVIOUS
      <3>2. i < n => i < n - d
        <4>1. i < n /\ i >= n - d => i \in n - d..n - 1
          BY <1>2, <1>3, <3>1
        <4> QED
          BY <1>1, <1>2, <1>3, <3>1, <4>1
      <3>3. i < n => i \in B
        <4> SUFFICES ASSUME i < n PROVE i \in B
          OBVIOUS
        <4>1. i \in 1..n - d - 1 /\ i \in r + 1..Len(v)
          BY <1>2, <1>3, <2>1, <3>1, <3>2
        <4> QED
          BY <1>4, <3>1, <4>1
      <3>4. i >= n => i - d \in B /\ i - d >= n - d
        <4> SUFFICES ASSUME i >= n PROVE i - d \in B /\ i - d >= n - d
          OBVIOUS
        <4>1. i \in n..Len(u) /\ i - d \in r + 1..Len(v) /\ i - d >= n - d
          BY <1>2, <1>3, <2>1, <3>1
        <4>2. v[i - d] = "&"
          BY <1>1, <3>1, <4>1
        <4> QED
          BY <4>1, <4>2
      <3> QED
        BY <3>2, <3>3, <3>4
    <2>3. ASSUME NEW j \in B PROVE \E i \in A : g[i] = j
      <3>1. j \in r + 1..Len(v) /\ v[j] = "&"
        OBVIOUS
      <3>2. CASE j < n - d
        <4>1. j \in 1..n - d - 1 /\ j \in q + 1..Len(u) /\ j < n
          BY <1>2, <1>3, <2>1, <3>1, <3>2
        <4>2. j \in A
          BY <1>4, <3>1, <4>1
        <4> QED
          BY <4>1, <4>2
      <3>3. CASE ~(j < n - d)
        <4> DEFINE i == j + d
        <4>1. j # n - d
          BY <1>1, <3>1
        <4>2. i \in n..Len(u) /\ i \in q + 1..Len(u) /\ i - d = j /\ ~(i < n)
          BY <1>2, <1>3, <2>1, <3>1, <3>3, <4>1
        <4> HIDE DEF i
        <4>3. v[i - d] = u[i]
          BY <1>1, <4>2
        <4>4. i \in A
          BY <3>1, <4>2, <4>3
        <4> QED
          BY <4>2, <4>4
      <3> QED
        BY <3>2, <3>3
    <2>4. A \subseteq Nat /\ B \subseteq Nat
      BY <1>2, <1>3
    <2> HIDE DEF A, B
    <2>5. g \in [A -> B]
      <3>1. \A i \in A : (IF i < n THEN i ELSE i - d) \in B
        BY <1>2, <2>2, <2>4
      <3> QED
        BY <3>1
    <2>6. \A i, k \in A : g[i] = g[k] => i = k
      <3> SUFFICES ASSUME NEW i \in A, NEW k \in A, g[i] = g[k] PROVE i = k
        OBVIOUS
      <3>1. /\ g[i] = IF i < n THEN i ELSE i - d
            /\ g[k] = IF k < n THEN k ELSE k - d
            /\ i \in Nat /\ k \in Nat
        BY <2>4
      <3>2. /\ i < n => i < n - d
            /\ k < n => k < n - d
        BY <2>2
      <3> HIDE DEF g
      <3>3. CASE i < n /\ k < n
        BY <3>1, <3>3
      <3>4. CASE i < n /\ ~(k < n)
        <4>1. i = k - d /\ i < n - d
          BY <3>1, <3>2, <3>4
        <4> QED
          BY <1>2, <3>1, <3>4, <4>1
      <3>5. CASE ~(i < n) /\ k < n
        <4>1. k = i - d /\ k < n - d
          BY <3>1, <3>2, <3>5
        <4> QED
          BY <1>2, <3>1, <3>5, <4>1
      <3>6. CASE ~(i < n) /\ ~(k < n)
        <4>1. k - d = i - d
          BY <3>1, <3>6
        <4> QED
          BY <1>2, <3>1, <4>1
      <3> QED
        BY <3>3, <3>4, <3>5, <3>6
    <2> HIDE DEF g
    <2>7. g \in Bijection(A, B)
      <3>1. g \in Injection(A, B)
        BY <2>5, <2>6, Zenon DEF Injection, IsInjective
      <3>2. g \in Surjection(A, B)
        BY <2>3, <2>5, Zenon DEF Surjection
      <3> QED
        BY <3>1, <3>2, Zenon DEF Bijection
    <2>8. ExistsBijection(A, B)
      BY <2>7, Zenon DEF ExistsBijection
    <2>9. Cardinality(B) = Cardinality(A) /\ Cardinality(A) \in Nat
      BY <1>6, <2>8, FS_Bijection, FS_CardinalityType
    <2>10. CASE q >= Len(u)
      <3>1. A = {}
        BY <1>2, <1>3, <2>10 DEF A
      <3>2. Cardinality(B) = 0
        BY <2>9, <3>1, FS_EmptySet
      <3> QED
        BY <1>5, <1>7, <2>10, <3>2
    <2>11. CASE ~(q >= Len(u))
      <3>1. ~(r >= Len(v))
        BY <1>2, <1>3, <2>1, <2>11
      <3> QED
        BY <1>5, <2>9, <2>11, <3>1
    <2> QED
      BY <2>10, <2>11
  <1> QED
    BY <1>8, <1>9

\* A scheme in lower case stays as it is.
LEMMA LinkIsHttp ==
  ASSUME NEW u \in Seq(Word), HasHttp(u)
  PROVE  IsHttp(u) /\ SchemeOf(u) = Before(u, 2) /\ SchemeOf(u)[1] = u[1]
  <1> DEFINE b == Before(u, 2)
  <1>1. Len(u) >= 4 /\ u[1] \in {"http", "https"}
    BY HttpBegins
  <1>2. 2 - 1 \in 0..Len(u)
    BY <1>1
  <1>3. b \in Seq(Word) /\ Len(b) = 2 - 1 /\ \A i \in 1..2 - 1 : b[i] = u[i]
    BY <1>2, CutSays, Zenon DEF Before
  <1> HIDE DEF b
  <1>4. Len(b) = 1 /\ b[1] = u[1] /\ \A i \in 1..Len(b) : b[i] \in {"http", "https"}
    BY <1>1, <1>3
  <1>5. {"http", "https"} \cap DOMAIN LowerOf = {}
    BY UrlsAssumption
  <1>6. Lower(b) = b
    BY <1>3, <1>4, <1>5, LowerSays
  <1>7. b \in Schemes
    <2>1. b = <<u[1]>>
      BY <1>3, <1>4
    <2> QED
      BY <1>1, <2>1 DEF Schemes
  <1>8. SchemeEnd(u) = 2
    BY HttpLink
  <1> QED
    BY <1>4, <1>6, <1>7, <1>8 DEF b, IsHttp, SchemeOf

\* What is taken off a host is nothing, or a colon and a default port.
LEMMA PortOff ==
  ASSUME NEW scheme \in Schemes, NEW host \in Seq(Word)
  PROVE  \E d \in {0, 2} :
           /\ d <= Len(host) /\ WithoutDefaultPort(scheme, host) = SubSeq(host, 1, Len(host) - d)
           /\ \A i \in Len(host) - d + 1..Len(host) : host[i] \notin {"?", "&"}
  <1> DEFINE p == DefaultPort[scheme[1]]
             N == Len(host)
  <1>1. N \in Nat
    OBVIOUS
  <1>2. p \in {"80", "443"} /\ p \in Word /\ p \notin {"?", "&"}
    <2>1. p \in {"80", "443"}
      BY SchemesSay
    <2> QED
      BY <2>1, UrlsAssumption DEF Delimiter
  <1>3. CASE N > 2 /\ IsSuffix(<<":", p>>, host)
    <2>1. host[N - 1] = ":" /\ host[N] = p
      <3> HIDE DEF p
      <3> QED
        BY <1>2, <1>3, PortSuffix DEF N
    <2>2. WithoutDefaultPort(scheme, host) = SubSeq(host, 1, N - 1 - 1)
      BY <1>3, Zenon DEF WithoutDefaultPort, Before
    <2> HIDE DEF p, N
    <2>3. N - 1 - 1 = N - 2 /\ 2 <= N
      BY <1>1, <1>3
    <2>4. \A i \in N - 2 + 1..N : i = N - 1 \/ i = N
      BY <1>1, <1>3
    <2>5. \A i \in N - 2 + 1..N : host[i] \notin {"?", "&"}
      BY <1>2, <2>1, <2>4
    <2> QED
      BY <2>2, <2>3, <2>5 DEF N
  <1>4. CASE ~(N > 2 /\ IsSuffix(<<":", p>>, host))
    <2>1. WithoutDefaultPort(scheme, host) = host
      BY <1>4, Zenon DEF WithoutDefaultPort
    <2>2. N - 0 = N /\ 0 <= N /\ N \in 0..N
      BY <1>1
    <2>3. SubSeq(host, 1, N) = host
      <3>1. SubSeq(host, 1, N) \in Seq(Word) /\ Len(SubSeq(host, 1, N)) = N
            /\ \A i \in 1..N : SubSeq(host, 1, N)[i] = host[i]
        BY <2>2, CutSays
      <3> QED
        BY <3>1, SeqEqual
    <2>4. \A i \in N - 0 + 1..N : FALSE
      BY <1>1
    <2> QED
      BY <2>1, <2>2, <2>3, <2>4
  <1> QED
    BY <1>3, <1>4

\* Lower() goes over the tokens.
LEMMA LowerAt ==
  ASSUME NEW s \in Seq(Word), NEW i \in 1..Len(s)
  PROVE  Lower(s)[i] = IF s[i] \in DOMAIN LowerOf THEN LowerOf[s[i]] ELSE s[i]
  BY DEF Lower

\* What the frontier makes of such a link.
LEMMA NormalizeNearly ==
  ASSUME NEW u \in Seq(Word), HasHttp(u), ~Contains(u, "#"), Last(u) # "/"
  PROVE  \E n, d : /\ Nearly(u, NormalizeMT(u), n, d) /\ HasHttp(NormalizeMT(u))
                   /\ First(u, {"/"}, SchemeEnd(u) + 3) = n
                   /\ First(NormalizeMT(u), {"/"}, SchemeEnd(NormalizeMT(u)) + 3) = n - d
  <1> DEFINE n == First(u, {"/"}, 5)
             v == NormalizeMT(u)
             scheme == SchemeOf(u)
             raw == SubSeq(u, 5, n - 1)
             low == Lower(raw)
             host == HostAt(u, n)
             path == PathAt(u, n)
             rest == RestAt(u, n)
  <1>1. /\ Len(u) \in Nat /\ Len(u) >= 4 /\ u[1] \in {"http", "https"}
        /\ u[2] = ":" /\ u[3] = "/" /\ u[4] = "/"
    BY HttpBegins
  <1>2. IsHttp(u) /\ scheme = Before(u, 2) /\ scheme[1] = u[1] /\ SchemeEnd(u) = 2
    BY LinkIsHttp DEF IsHttp
  <1>3. Fragment(u) = Len(u) + 1 /\ Before(u, Len(u) + 1) = u
    <2>1. Fragment(u) \in 5..Len(u) + 1 /\ (Fragment(u) <= Len(u) => u[Fragment(u)] = "#")
      BY <1>2, FragmentSays
    <2>2. Fragment(u) = Len(u) + 1
      BY <1>1, <2>1 DEF Contains
    <2>3. Len(u) \in 0..Len(u) /\ Len(u) + 1 - 1 = Len(u)
      BY <1>1
    <2>4. /\ SubSeq(u, 1, Len(u)) \in Seq(Word) /\ Len(SubSeq(u, 1, Len(u))) = Len(u)
          /\ \A i \in 1..Len(u) : SubSeq(u, 1, Len(u))[i] = u[i]
      BY <2>3, CutSays, Zenon
    <2>5. SubSeq(u, 1, Len(u)) = u
      BY <2>4, SeqEqual
    <2> QED
      BY <2>2, <2>3, <2>5 DEF Before
  <1>4. n \in 5..Len(u) + 1 /\ (\A i \in 5..n - 1 : u[i] # "/") /\ (n <= Len(u) => u[n] = "/")
    <2>1. 5 \in 1..Len(u) + 1
      BY <1>1
    <2>2. /\ n \in 5..Len(u) + 1 /\ (\A i \in 5..n - 1 : u[i] \notin {"/"})
          /\ (n <= Len(u) => u[n] \in {"/"})
      BY <2>1, FirstSays, Zenon
    <2> HIDE DEF n
    <2> QED
      BY <2>2
  <1>5. v = Whole(scheme, host, rest)
    <2>1. scheme \in Schemes
      BY <1>2, SchemesSay DEF IsHttp, SchemeOf
    <2>2. 2 # 0 /\ 2 + 3 = 5
      OBVIOUS
    <2>3. First(u, {"#"}, 1) = Len(u) + 1
      BY <1>3 DEF Fragment
    <2> DEFINE behind == IF n > Len(u) THEN <<"/">> ELSE From(u, n)
    <2>4. v = Whole(scheme, WithoutDefaultPort(scheme, low), WithoutSlash(behind))
      BY <1>2, <1>3, <2>1, <2>2, <2>3 DEF NormalizeMT, Whole, SchemeOf
    <2>5. behind = path
      <3>1. n > Len(u) <=> n = Fragment(u)
        BY <1>1, <1>3, <1>4
      <3>2. Fragment(u) - 1 = Len(u)
        BY <1>1, <1>3
      <3> QED
        BY <3>1, <3>2 DEF PathAt, From
    <2> QED
      BY <2>4, <2>5 DEF HostAt, RestAt
  <1> HIDE DEF n
  <1>6. EndsAt(u, n)
    BY <1>1, <1>3, <1>4 DEF EndsAt
  <1>7. IsForm(scheme, host, rest)
    BY <1>2, <1>6, FormAt, Zenon
  <1>8. scheme \in Schemes /\ host \in Seq(Word) /\ rest \in Seq(Word)
        /\ \A i \in 1..Len(host) : host[i] \notin DOMAIN LowerOf
    BY <1>7 DEF IsForm
  <1>9. /\ v \in Seq(Word) /\ Len(v) = 4 + Len(host) + Len(rest)
        /\ v[1] = scheme[1] /\ v[2] = ":" /\ v[3] = "/" /\ v[4] = "/"
        /\ \A i \in 1..Len(host) : v[4 + i] = host[i]
        /\ \A i \in 1..Len(rest) : v[4 + Len(host) + i] = rest[i]
    <2>1. HasParts(v, scheme, host, rest)
      BY <1>5, <1>8, WholeSays, Zenon
    <2> HIDE DEF v
    <2> QED
      BY <2>1 DEF HasParts
  <1>10. SchemeEnd(v) = 2 /\ First(v, {"/"}, 5) = 5 + Len(host)
    <2>1. ReadsAs(v, scheme, host, rest)
      BY <1>5, <1>7, FormSays, Zenon
    <2> QED
      BY <2>1, Zenon DEF ReadsAs
  <1>11. /\ path \in Seq(Word) /\ path # <<>> /\ path[1] = "/"
         /\ raw \in Seq(Word) /\ Len(raw) = n - 5 /\ \A i \in 1..n - 5 : raw[i] = u[4 + i]
    BY <1>2, <1>6, AtSays
  <1>12. n = Len(u) + 1 => path = <<"/">>
    BY <1>3 DEF PathAt
  <1>13. n <= Len(u) => /\ Len(path) = Len(u) - n + 1
                        /\ \A i \in 1..Len(u) - n + 1 : path[i] = u[n + i - 1]
    <2> SUFFICES ASSUME n <= Len(u)
                 PROVE  /\ Len(path) = Len(u) - n + 1
                        /\ \A i \in 1..Len(u) - n + 1 : path[i] = u[n + i - 1]
      OBVIOUS
    <2>1. Len(u) + 1 - 1 = Len(u) /\ n # Len(u) + 1 /\ n \in 1..Len(u) + 1 /\ Len(u) \in (n - 1)..Len(u)
      BY <1>1, <1>4
    <2>2. path = SubSeq(u, n, Len(u))
      BY <1>3, <2>1 DEF PathAt
    <2>3. /\ SubSeq(u, n, Len(u)) \in Seq(Word) /\ Len(SubSeq(u, n, Len(u))) = Len(u) - n + 1
          /\ \A i \in 1..Len(u) - n + 1 : SubSeq(u, n, Len(u))[i] = u[n + i - 1]
      BY <2>1, PartAt
    <2> HIDE DEF path
    <2> QED
      BY <2>2, <2>3
  <1>14. rest = path
    <2>1. Len(path) > 1 => Last(path) # "/"
      <3> SUFFICES ASSUME Len(path) > 1 PROVE Last(path) # "/"
        OBVIOUS
      <3>1. n <= Len(u)
        <4> HIDE DEF path
        <4>1. ASSUME n = Len(u) + 1 PROVE FALSE
          <5>1. path = <<"/">>
            BY <1>12, <4>1
          <5>2. Len(path) = 1
            BY <5>1
          <5> QED
            BY <5>2
        <4> QED
          BY <1>1, <1>4, <4>1
      <3> HIDE DEF path
      <3>2. Len(u) - n + 1 \in 1..Len(u) - n + 1 /\ n + (Len(u) - n + 1) - 1 = Len(u)
        BY <1>1, <1>4, <3>1
      <3>3. path[Len(path)] = u[Len(u)]
        <4> DEFINE k == Len(u) - n + 1
        <4>1. k \in 1..Len(u) - n + 1 /\ n + k - 1 = Len(u) /\ Len(path) = k
          BY <1>13, <3>1, <3>2
        <4> HIDE DEF k
        <4> QED
          BY <1>13, <3>1, <4>1
      <3> QED
        BY <3>3 DEF Last
    <2> HIDE DEF path
    <2>2. rest = WithoutSlash(path)
      BY DEF RestAt, path
    <2> QED
      BY <2>1, <2>2 DEF WithoutSlash
  <1> HIDE DEF path, rest
  <1>15. low \in Seq(Word) /\ Len(low) = n - 5
    BY <1>11, LowerSays
  <1>16. PICK d \in {0, 2} : /\ d <= n - 5 /\ host = SubSeq(low, 1, n - 5 - d)
                             /\ \A i \in n - 5 - d + 1..n - 5 : low[i] \notin {"?", "&"}
    <2>1. host = WithoutDefaultPort(scheme, low)
      BY DEF HostAt
    <2> HIDE DEF low, host
    <2> QED
      BY <1>8, <1>15, <2>1, PortOff
  <1>17. Len(host) = n - 5 - d /\ \A i \in 1..n - 5 - d : host[i] = low[i]
    <2>1. n - 5 - d \in 0..Len(low)
      BY <1>4, <1>15, <1>16
    <2> HIDE DEF low, host
    <2> QED
      BY <1>15, <1>16, <2>1, CutSays
  <1>18. \A i \in 1..n - d - 1 : Lower(v)[i] = Lower(u)[i]
    <2> SUFFICES ASSUME NEW i \in 1..n - d - 1 PROVE Lower(v)[i] = Lower(u)[i]
      OBVIOUS
    <2> HIDE DEF v
    <2>1. i \in 1..Len(u) /\ i \in 1..Len(v)
      BY <1>1, <1>4, <1>8, <1>9, <1>16, <1>17
    <2>2. CASE i <= 4
      <3>1. i = 1 \/ i = 2 \/ i = 3 \/ i = 4
        BY <2>2
      <3>2. v[i] = u[i]
        BY <1>1, <1>2, <1>9, <3>1
      <3> QED
        BY <1>9, <2>1, <3>2 DEF Lower
    <2>3. CASE i > 4
      <3> DEFINE k == i - 4
      <3>1. k \in 1..n - 5 - d /\ k \in 1..n - 5 /\ 4 + k = i
        BY <1>4, <1>16, <2>3
      <3> HIDE DEF k
      <3>2. v[i] = host[k] /\ host[k] = low[k] /\ host[k] \notin DOMAIN LowerOf
        BY <1>8, <1>9, <1>17, <3>1
      <3>3. raw[k] = u[i]
        BY <1>11, <3>1
      <3>4. low[k] = Lower(u)[i]
        <4>1. k \in 1..Len(raw) /\ raw \in Seq(Word)
          BY <1>11, <3>1
        <4> HIDE DEF raw
        <4>2. Lower(raw)[k] = IF raw[k] \in DOMAIN LowerOf THEN LowerOf[raw[k]] ELSE raw[k]
          BY <4>1, LowerAt
        <4>3. Lower(u)[i] = IF u[i] \in DOMAIN LowerOf THEN LowerOf[u[i]] ELSE u[i]
          BY <2>1, LowerAt
        <4> QED
          BY <3>3, <4>2, <4>3
      <3>5. Lower(v)[i] = v[i]
        BY <1>9, <2>1, <3>2, LowerAt
      <3> QED
        BY <3>2, <3>4, <3>5
    <2> QED
      BY <2>2, <2>3
  <1>19. \A i \in n - d..n - 1 : u[i] \notin {"?", "&"}
    <2> SUFFICES ASSUME NEW i \in n - d..n - 1 PROVE u[i] \notin {"?", "&"}
      OBVIOUS
    <2> DEFINE k == i - 4
    <2>1. k \in n - 5 - d + 1..n - 5 /\ k \in 1..n - 5 /\ 4 + k = i
      BY <1>4, <1>16
    <2> HIDE DEF k
    <2>2. raw[k] = u[i]
      BY <1>11, <2>1
    <2>3. low[k] \notin {"?", "&"}
      BY <1>16, <2>1
    <2>4. \A c \in Delimiter : low[k] = c <=> raw[k] = c
      <3>1. k \in 1..Len(raw) /\ raw \in Seq(Word)
        BY <1>11, <2>1
      <3> HIDE DEF raw
      <3> QED
        BY <3>1, LowerSays
    <2> HIDE DEF raw, low
    <2> QED
      BY <2>2, <2>3, <2>4 DEF Delimiter
  <1>20. /\ Len(v) = IF n > Len(u) THEN n - d ELSE Len(u) - d
         /\ v[n - d] = "/" /\ \A i \in n..Len(u) : v[i - d] = u[i]
    <2> HIDE DEF v, host
    <2>1. 4 + Len(host) = n - d - 1 /\ n - d - 1 + 1 = n - d
      BY <1>4, <1>16, <1>17
    <2>2. Len(v) = n - d - 1 + Len(path) /\ \A i \in 1..Len(path) : v[n - d - 1 + i] = path[i]
      BY <1>9, <1>14, <2>1
    <2>3. 1 \in 1..Len(path)
      BY <1>11
    <2>4. v[n - d] = "/"
      <3>1. v[n - d - 1 + 1] = path[1]
        BY <2>2, <2>3
      <3> QED
        BY <1>11, <2>1, <3>1
    <2>5. n = Len(u) + 1 => Len(path) = 1
      BY <1>12
    <2>6. Len(v) = IF n > Len(u) THEN n - d ELSE Len(u) - d
      <3>1. d \in Nat /\ n \in Nat
        BY <1>4, <1>16
      <3>2. CASE n > Len(u)
        <4>1. n = Len(u) + 1
          BY <1>1, <1>4, <3>2
        <4>2. Len(path) = 1
          BY <2>5, <4>1
        <4> QED
          BY <2>2, <3>1, <3>2, <4>2
      <3>3. CASE n <= Len(u)
        <4>1. Len(path) = Len(u) - n + 1
          BY <1>13, <3>3
        <4> QED
          BY <1>1, <2>2, <3>1, <3>3, <4>1
      <3> QED
        BY <1>1, <3>1, <3>2, <3>3
    <2>7. ASSUME NEW i \in n..Len(u) PROVE v[i - d] = u[i]
      <3> DEFINE k == i - n + 1
      <3>1. k \in 1..Len(u) - n + 1 /\ n <= Len(u) /\ n + k - 1 = i /\ n - d - 1 + k = i - d
        BY <1>1, <1>4, <1>16
      <3> HIDE DEF k
      <3>2. path[k] = u[i] /\ k \in 1..Len(path)
        BY <1>13, <3>1
      <3>3. v[n - d - 1 + k] = path[k]
        BY <2>2, <3>2
      <3> QED
        BY <3>1, <3>2, <3>3
    <2> QED
      BY <2>4, <2>6, <2>7
  <1>21. d \in 0..n - 5
    BY <1>4, <1>16
  <1>22. Nearly(u, v, n, d)
    <2> HIDE DEF v
    <2> QED
      BY <1>1, <1>4, <1>9, <1>18, <1>19, <1>20, <1>21 DEF Nearly
  <1>23. HasHttp(v)
    <2> HIDE DEF v
    <2>1. Len(v) >= 4
      BY <1>8, <1>9
    <2> QED
      BY <1>1, <1>2, <1>9, <2>1, HttpBegins
  <1>24. First(u, {"/"}, SchemeEnd(u) + 3) = n /\ First(v, {"/"}, SchemeEnd(v) + 3) = n - d
    <2>1. 2 + 3 = 5 /\ 5 + (n - 5 - d) = n - d
      BY <1>4, <1>16
    <2> HIDE DEF v, host
    <2> QED
      BY <1>2, <1>10, <1>17, <2>1 DEF n
  <1> QED
    BY <1>22, <1>23, <1>24

\* The filter judges a link as what the frontier makes of it.
LEMMA FilterAgrees ==
  ASSUME NEW u \in Seq(Word), HasHttp(u), ~Contains(u, "#"), Last(u) # "/", Len(u) < MaxUrlLength,
         ~(First(u, {"/"}, SchemeEnd(u) + 3) > Len(u) /\ HasBadExtension(u)),
         ~SoughtInHost(u), ~SoughtInHost(NormalizeMT(u))
  PROVE  IsAcceptable(u) <=> IsAcceptable(NormalizeMT(u))
  <1> DEFINE v == NormalizeMT(u)
  <1>1. PICK n, d : /\ Nearly(u, v, n, d) /\ HasHttp(v)
                    /\ First(u, {"/"}, SchemeEnd(u) + 3) = n
                    /\ First(v, {"/"}, SchemeEnd(v) + 3) = n - d
    BY NormalizeNearly, Zenon
  <1>2. ~SoughtInHost(u) /\ ~SoughtInHost(v) /\ (n > Len(u) => ~HasBadExtension(u))
    BY <1>1
  <1> HIDE DEF v
  <1>3. Len(u) <= MaxUrlLength /\ Len(v) <= MaxUrlLength
    <2>1. MaxUrlLength \in Nat
      BY UrlsAssumption
    <2>2. /\ Len(u) \in Nat /\ Len(v) \in Nat /\ d \in Nat /\ n <= Len(u) + 1 /\ n \in Nat
          /\ n <= Len(u) => Len(v) = Len(u) - d
          /\ n = Len(u) + 1 => Len(v) = n - d
      BY <1>1, NearlyPlaces
    <2>3. Len(v) <= Len(u) + 1
      BY <2>2
    <2> QED
      BY <2>1, <2>2, <2>3
  <1>4. HasBadExtension(u) <=> HasBadExtension(v)
    BY <1>1, <1>2, ExtensionAlike
  <1>5. CountQueryParams(u) <= MaxQueryParams <=> CountQueryParams(v) <= MaxQueryParams
    BY <1>1, CountAlike
  <1>6. ASSUME NEW p \in PagePatterns \cup LowValuePatterns
        PROVE  Occurs(p, Lower(u)) <=> Occurs(p, Lower(v))
    <2>1. p \in Seq(Word) \/ Len(p) > 1
      <3>1. CASE p \in LowValuePatterns
        BY <3>1, UrlsAssumption
      <3>2. CASE p \in PagePatterns
        <4>1. \/ \E q \in {"?", "&"}, w \in PageParams : p = <<q, w, "=">>
              \/ \E w \in {"page", "pages"}, m \in DOMAIN NumberOf : p = <<"/", w, "/", m>>
          BY <3>2 DEF PagePatterns
        <4>2. \A q, w : Len(<<q, w, "=">>) = 3
          OBVIOUS
        <4>3. \A w, m : Len(<<"/", w, "/", m>>) = 4
          OBVIOUS
        <4>4. Len(p) = 3 \/ Len(p) = 4
          BY <4>1, <4>2, <4>3
        <4>5. 3 > 1 /\ 4 > 1
          OBVIOUS
        <4> QED
          BY <4>4, <4>5, Zenon
      <3> QED
        BY <3>1, <3>2
    <2>2. /\ \A i \in 1..n - 1 : ~IsPrefix(p, From(Lower(u), i))
          /\ \A i \in 1..n - d - 1 : ~IsPrefix(p, From(Lower(v), i))
      BY <1>1, <1>2, Zenon DEF SoughtInHost
    <2> QED
      BY <1>1, <2>1, <2>2, OccursAlike
  <1>7. IsPaginationUrl(u) <=> IsPaginationUrl(v)
    BY <1>6, Zenon DEF IsPaginationUrl
  <1>8. HasLowValuePattern(u) <=> HasLowValuePattern(v)
    BY <1>6, Zenon DEF HasLowValuePattern
  <1> QED
    BY <1>1, <1>3, <1>4, <1>5, <1>7, <1>8, Zenon DEF IsAcceptable, v

-----------------------------------------------------------------------------
(* The text of a page.                                                     *)

\* A text that is put together from those of the children, but for what is invisible.
Gleans(g) ==
  g = [node \in Node |->
         IF node.tag = "#text" THEN node.text
         ELSE IF node.tag \in InvisibleTags THEN <<>>
         ELSE FlattenSeq([i \in DOMAIN node.children |-> g[node.children[i]]])]

Texts == Seq(UNION {ToSet(n.text) : n \in Node})

\* The text of a page is put together so, and is a sequence.
LEMMA TextGleaned == Gleans(TextOf) /\ \A n \in Node : TextOf[n] \in Texts
  <1> DEFINE Below == [n \in Node |-> n.children]
             Rule(n, q) == IF n.tag = "#text" THEN n.text ELSE IF n.tag \in InvisibleTags THEN <<>>
                           ELSE FlattenSeq(q)
             rule == [p \in Node \X Seq(Texts) |-> Rule(p[1], p[2])]
  <1>1. \A n \in Node : n.children \in Seq(Node)
    BY HtmlAssumption
  <1>2. Height \in [Node -> Nat] /\ \A n \in Node : \A i \in DOMAIN n.children : Height[n.children[i]] < Height[n]
    BY HtmlAssumption
  <1>3. \A n \in Node : Len(Below[n]) \in Nat /\ DOMAIN n.children = 1..Len(Below[n]) /\ Below[n] = n.children
    BY <1>1
  <1>4. IsTree(Node, Below, Height)
    <2>1. Below \in [Node -> Seq(Node)]
      BY <1>1
    <2> HIDE DEF Below
    <2> QED
      BY <1>2, <1>3, <2>1 DEF IsTree
  <1>5. \A n \in Node : n.text \in Texts
    <2> SUFFICES ASSUME NEW n \in Node PROVE n.text \in Texts
      OBVIOUS
    <2> DEFINE A == ToSet(n.text)
               B == UNION {ToSet(m.text) : m \in Node}
    <2>1. n.text \in Seq(A)
      BY HtmlAssumption
    <2>2. A \subseteq B
      OBVIOUS
    <2>3. Texts = Seq(B)
      BY DEF Texts
    <2> HIDE DEF A, B
    <2> QED
      BY <2>1, <2>2, <2>3
  <1>6. <<>> \in Texts /\ \A q \in Seq(Texts) : FlattenSeq(q) \in Texts
    BY FlattenTyped DEF Texts
  <1>7. rule \in [Node \X Seq(Texts) -> Texts]
    <2>1. \A p \in Node \X Seq(Texts) : Rule(p[1], p[2]) \in Texts
      BY <1>5, <1>6
    <2> HIDE DEF Rule
    <2> QED
      BY <2>1
  <1>8. PICK g : Gathers(g, Node, Texts, Below, rule)
    <2> HIDE DEF Below, rule
    <2> QED
      BY <1>4, <1>7, TreeRecursion
  <1>9. ASSUME NEW n \in Node
        PROVE  g[n] = Rule(n, [i \in DOMAIN n.children |-> g[n.children[i]]])
    <2>1. g[n] = rule[<<n, ValuesBelow(g, Below, n)>>] /\ g \in [Node -> Texts]
      <3> HIDE DEF Below, rule
      <3> QED
        BY <1>8 DEF Gathers
    <2>2. ValuesBelow(g, Below, n) = [i \in DOMAIN n.children |-> g[n.children[i]]]
      <3> HIDE DEF Below
      <3> QED
        BY <1>3 DEF ValuesBelow
    <2>3. ValuesBelow(g, Below, n) \in Seq(Texts)
      <3>1. \A i \in 1..Len(Below[n]) : Below[n][i] \in Node
        BY <1>1, <1>3
      <3> HIDE DEF Below
      <3>2. \A i \in 1..Len(Below[n]) : g[Below[n][i]] \in Texts
        BY <2>1, <3>1
      <3> QED
        BY <1>3, <3>2 DEF ValuesBelow
    <2> HIDE DEF Below, Rule
    <2>4. g[n] = Rule(n, ValuesBelow(g, Below, n))
      BY <2>1, <2>3
    <2> QED
      BY <2>2, <2>4
  <1>10. g = [n \in Node |-> g[n]] /\ g \in [Node -> Texts]
    <2> HIDE DEF Below, rule
    <2> QED
      BY <1>8 DEF Gathers
  <1>11. Gleans(g)
    BY <1>9, <1>10, Zenon DEF Gleans
  <1>12. Gleans(TextOf)
    <2>1. TextOf = CHOOSE f : Gleans(f)
      BY Zenon DEF TextOf, Gleans
    <2> QED
      BY <1>11, <2>1, Zenon
  <1>13. ASSUME NEW n \in Node PROVE TextOf[n] \in Texts
    <2> DEFINE Z == {m \in Node : TextOf[m] \in Texts}
    <2>1. ASSUME NEW m \in Node, \A l \in Node : Height[l] < Height[m] => l \in Z PROVE m \in Z
      <3> DEFINE values == [i \in DOMAIN m.children |-> TextOf[m.children[i]]]
      <3>1. m.children \in Seq(Node)
        BY <1>1
      <3>2. \A i \in DOMAIN m.children : m.children[i] \in Node /\ TextOf[m.children[i]] \in Texts
        <4>1. \A i \in DOMAIN m.children : m.children[i] \in Node
          BY <3>1
        <4> QED
          BY <1>2, <2>1, <4>1
      <3>3. values \in Seq(Texts)
        BY <3>1, <3>2
      <3>4. TextOf[m] = Rule(m, values)
        BY <1>12, Zenon DEF Gleans
      <3> HIDE DEF values
      <3> QED
        BY <1>5, <1>6, <3>3, <3>4
    <2> HIDE DEF Z
    <2>2. Node \subseteq Z
      BY <1>2, <2>1, HeightInduction
    <2> QED
      BY <2>2 DEF Z
  <1> QED
    BY <1>12, <1>13

\* Nothing put together is nothing.
LEMMA FlattenNothing ==
  ASSUME NEW c \in Seq(Node), NEW s, s = [i \in DOMAIN c |-> s[i]], \A i \in DOMAIN c : s[i] = <<>>
  PROVE  FlattenSeq(s) = <<>>
  <1> DEFINE D == Seq({})
  <1>1. <<>> \in D /\ \A t \in D : t = <<>>
    OBVIOUS
  <1>2. Len(c) \in Nat /\ DOMAIN c = 1..Len(c)
    OBVIOUS
  <1> HIDE DEF D
  <1>3. \A i \in 1..Len(c) : s[i] \in D
    BY <1>1, <1>2
  <1>4. s = [i \in 1..Len(c) |-> s[i]]
    BY <1>2
  <1>5. s \in Seq(D)
    BY <1>2, <1>3, <1>4
  <1>6. FlattenSeq(s) \in D
    BY <1>5, FlattenTyped DEF D
  <1> QED
    BY <1>1, <1>6

\* What is below a node, as a reader sees it.
SeenBelow(g, node, hidden) ==
  IF node.tag = "#text" THEN IF hidden THEN <<>> ELSE node.text
  ELSE FlattenSeq([i \in DOMAIN node.children |->
                     g[<<node.children[i], hidden \/ node.tag \in InvisibleTags>>]])

Sees(g) == g = [p \in Node \X BOOLEAN |-> SeenBelow(g, p[1], p[2])]

\* There is a function that sees so.
LEMMA SeesText == Sees(TextBelow)
  <1> DEFINE f == [p \in Node \X BOOLEAN |-> IF p[2] THEN <<>> ELSE TextOf[p[1]]]
  <1>1. ASSUME NEW n \in Node, NEW h \in BOOLEAN PROVE f[<<n, h>>] = SeenBelow(f, n, h)
    <2> DEFINE parts == [i \in DOMAIN n.children |-> f[<<n.children[i], h \/ n.tag \in InvisibleTags>>]]
    <2>1. n.children \in Seq(Node) /\ \A i \in DOMAIN n.children : n.children[i] \in Node
      BY HtmlAssumption
    <2>2. f[<<n, h>>] = IF h THEN <<>> ELSE TextOf[n]
      OBVIOUS
    <2>3. CASE n.tag = "#text"
      <3>1. TextOf[n] = n.text
        BY <2>3, TextGleaned DEF Gleans
      <3> HIDE DEF f
      <3> QED
        BY <2>2, <2>3, <3>1 DEF SeenBelow
    <2>4. CASE n.tag # "#text" /\ (h \/ n.tag \in InvisibleTags)
      <3>1. SeenBelow(f, n, h) = FlattenSeq(parts)
        <4> HIDE DEF f
        <4> QED
          BY <2>4, Zenon DEF SeenBelow
      <3>2. \A i \in DOMAIN n.children : parts[i] = <<>>
        BY <2>1, <2>4
      <3>3. parts = [i \in DOMAIN n.children |-> parts[i]]
        OBVIOUS
      <3> HIDE DEF parts, f
      <3>4. FlattenSeq(parts) = <<>>
        BY <2>1, <3>2, <3>3, FlattenNothing
      <3>5. ~h => TextOf[n] = <<>>
        BY <2>4, TextGleaned DEF Gleans
      <3> QED
        BY <2>2, <3>1, <3>4, <3>5
    <2>5. CASE n.tag # "#text" /\ ~(h \/ n.tag \in InvisibleTags)
      <3>1. SeenBelow(f, n, h) = FlattenSeq(parts)
        <4> HIDE DEF f
        <4> QED
          BY <2>5, Zenon DEF SeenBelow
      <3>2. \A i \in DOMAIN n.children : parts[i] = TextOf[n.children[i]]
        BY <2>1, <2>5
      <3>3. parts = [i \in DOMAIN n.children |-> parts[i]]
        OBVIOUS
      <3>4. TextOf[n] = FlattenSeq([i \in DOMAIN n.children |-> TextOf[n.children[i]]])
        BY <2>5, TextGleaned DEF Gleans
      <3> HIDE DEF parts, f
      <3>5. parts = [i \in DOMAIN n.children |-> TextOf[n.children[i]]]
        BY <3>2, <3>3
      <3> QED
        BY <2>2, <2>5, <3>1, <3>4, <3>5
    <2> QED
      BY <2>3, <2>4, <2>5
  <1>2. f = [p \in Node \X BOOLEAN |-> f[p]]
    OBVIOUS
  <1> HIDE DEF f
  <1>3. \A p \in Node \X BOOLEAN : f[p] = SeenBelow(f, p[1], p[2])
    BY <1>1
  <1>4. [p \in Node \X BOOLEAN |-> f[p]] = [p \in Node \X BOOLEAN |-> SeenBelow(f, p[1], p[2])]
    BY <1>3
  <1>5. Sees(f)
    BY <1>2, <1>4, Zenon DEF Sees
  <1>6. TextBelow = CHOOSE g : Sees(g)
    BY Zenon DEF TextBelow, Sees, SeenBelow
  <1> QED
    BY <1>5, <1>6, Zenon

\* The text that the programs read of a page is the one that a reader sees.
LEMMA TextVisible == \A n \in Node : TextOf[n] = Visible(n)
  <1> DEFINE Z == {n \in Node : /\ TextBelow[<<n, TRUE>>] = <<>>
                                /\ TextBelow[<<n, FALSE>>] = TextOf[n]}
  <1>1. Height \in [Node -> Nat] /\ \A n \in Node : \A i \in DOMAIN n.children : Height[n.children[i]] < Height[n]
    BY HtmlAssumption
  <1>2. \A n \in Node, h \in BOOLEAN : TextBelow[<<n, h>>] = SeenBelow(TextBelow, n, h)
    BY SeesText DEF Sees
  <1>3. ASSUME NEW n \in Node, \A m \in Node : Height[m] < Height[n] => m \in Z PROVE n \in Z
    <2> DEFINE Parts(h) == [i \in DOMAIN n.children |->
                              TextBelow[<<n.children[i], h \/ n.tag \in InvisibleTags>>]]
    <2>1. n.children \in Seq(Node) /\ \A i \in DOMAIN n.children : n.children[i] \in Node
      BY HtmlAssumption
    <2>2. \A i \in DOMAIN n.children : /\ TextBelow[<<n.children[i], TRUE>>] = <<>>
                                        /\ TextBelow[<<n.children[i], FALSE>>] = TextOf[n.children[i]]
      BY <1>1, <1>3, <2>1
    <2>3. CASE n.tag = "#text"
      <3>1. TextOf[n] = n.text
        BY <2>3, TextGleaned DEF Gleans
      <3>2. TextBelow[<<n, TRUE>>] = <<>> /\ TextBelow[<<n, FALSE>>] = n.text
        BY <1>2, <2>3 DEF SeenBelow
      <3> QED
        BY <3>1, <3>2
    <2>4. CASE n.tag # "#text"
      <3>1. \A h \in BOOLEAN : TextBelow[<<n, h>>] = FlattenSeq(Parts(h))
        BY <1>2, <2>4, Zenon DEF SeenBelow
      <3>2. ASSUME NEW h \in BOOLEAN, h \/ n.tag \in InvisibleTags PROVE FlattenSeq(Parts(h)) = <<>>
        <4> DEFINE parts == Parts(h)
        <4>1. \A i \in DOMAIN n.children : parts[i] = <<>>
          BY <2>2, <3>2
        <4>2. parts = [i \in DOMAIN n.children |-> parts[i]]
          OBVIOUS
        <4> HIDE DEF parts
        <4>3. FlattenSeq(parts) = <<>>
          BY <2>1, <4>1, <4>2, FlattenNothing
        <4> QED
          BY <4>3 DEF parts
      <3>3. n.tag \in InvisibleTags => TextOf[n] = <<>>
        BY <2>4, TextGleaned DEF Gleans
      <3>4. n.tag \notin InvisibleTags => FlattenSeq(Parts(FALSE)) = TextOf[n]
        <4> SUFFICES ASSUME n.tag \notin InvisibleTags PROVE FlattenSeq(Parts(FALSE)) = TextOf[n]
          OBVIOUS
        <4>1. TextOf[n] = FlattenSeq([i \in DOMAIN n.children |-> TextOf[n.children[i]]])
          BY <2>4, TextGleaned DEF Gleans
        <4>2. Parts(FALSE) = [i \in DOMAIN n.children |-> TextOf[n.children[i]]]
          BY <2>2
        <4> QED
          BY <4>1, <4>2
      <3> HIDE DEF Parts
      <3> QED
        BY <3>1, <3>2, <3>3, <3>4
    <2> QED
      BY <2>3, <2>4
  <1> HIDE DEF Z
  <1>4. Node \subseteq Z
    BY <1>1, <1>3, HeightInduction
  <1> QED
    BY <1>4 DEF Z, Visible

-----------------------------------------------------------------------------
(* The types.                                                              *)

\* A row has its four fields.
IsRow(r) ==
  /\ r = [status |-> r.status, key |-> r.key, crawled |-> r.crawled, indexed |-> r.indexed]
  /\ r.status \in {"0", "200"} /\ r.crawled \in BOOLEAN /\ r.indexed \in BOOLEAN

\* The types, and that the multi-threaded crawler records what it has stored.
Typed ==
  /\ TypeOK
  /\ case \in DOMAIN Cases
  /\ \A u \in DOMAIN rows : IsRow(rows[u])
  /\ MT /\ pc \in {"store", "record"} => content # <<>>
  /\ MT /\ pc = "record" => ContentKey \in DOMAIN store

\* Initially there is nothing.
LEMMA InitTyped == Init => Typed
  <1> SUFFICES ASSUME Init PROVE Typed
    OBVIOUS
  <1>1. DOMAIN rows = {} /\ DOMAIN recorded = {} /\ DOMAIN records = {}
    BY DEF Init
  <1>2. runs \in 0..MaxRuns
    BY PageFlowAssumption DEF Init, MaxRuns
  <1>3. saved = {} /\ pc = "off" /\ seen = {} /\ queue = {} /\ again = {}
    BY DEF Init
  <1>4. program \in Programs /\ changed \in BOOLEAN /\ case \in DOMAIN Cases
    BY DEF Init
  <1> QED
    BY <1>1, <1>2, <1>3, <1>4 DEF Typed, TypeOK, Step

\* Nothing is admitted that is no URL.
LEMMA AdmittedUrls == \A U : NoUrl \notin Admitted(U)
  BY DEF Admitted

\* A row that is written has the key of what is stored.
LEMMA RowType ==
  ASSUME Typed, NEW status \in {"0", "200"}, url \in DOMAIN rows => IsRow(rows[url])
  PROVE  /\ IsRow(Row(status))
         /\ Row(status).status = status
         /\ Row(status).key = IF MT /\ status = "200" THEN ContentKey ELSE EmptyKey
         /\ Row(status).crawled <=> MT \/ url \in DOMAIN rows
         /\ Row(status).indexed <=> MT /\ url \in DOMAIN rows /\ rows[url].indexed
  BY DEF Row, IsRow

\* What record() leaves in the table.
LEMMA RecordType ==
  ASSUME Typed, NEW status \in {"0", "200"}, Record(status)
  PROVE  /\ DOMAIN rows' = DOMAIN rows \cup {url}
         /\ rows'[url] = Row(status)
         /\ \A u \in DOMAIN rows : u # url => rows'[u] = rows[u]
         /\ \A u \in DOMAIN rows' : IsRow(rows'[u])
         /\ again' \subseteq DOMAIN rows'
         /\ MT' = MT => \A u \in DOMAIN rows' : rows'[u].crawled = (MT' \/ u \in again')
  <1>1. /\ DOMAIN rows' = DOMAIN rows \cup {url}
        /\ rows'[url] = Row(status)
        /\ \A u \in DOMAIN rows : u # url => rows'[u] = rows[u]
    BY DEF Record, Put
  <1>2. IsRow(Row(status))
    BY RowType DEF Typed
  <1>3. again' \subseteq DOMAIN rows'
    BY <1>1 DEF Record, Typed, TypeOK
  <1>4. \A u \in DOMAIN rows' : IsRow(rows'[u])
    BY <1>1, <1>2 DEF Typed
  <1>5. ASSUME MT' = MT, NEW u \in DOMAIN rows' PROVE rows'[u].crawled <=> (MT' \/ u \in again')
    <2>1. again' = again \cup ({url} \cap DOMAIN rows) /\ again \subseteq DOMAIN rows
      BY DEF Record, Typed, TypeOK
    <2>2. CASE u = url
      <3>1. Row(status).crawled <=> MT \/ url \in DOMAIN rows
        BY RowType DEF Typed
      <3> QED
        BY <1>1, <1>5, <2>1, <2>2, <3>1
    <2>3. CASE u # url
      <3>1. rows[u].crawled = (MT \/ u \in again)
        BY <1>1, <2>3 DEF Typed, TypeOK
      <3> QED
        BY <1>1, <1>5, <2>1, <2>3, <3>1
    <2> QED
      BY <2>2, <2>3
  <1>6. MT' = MT => \A u \in DOMAIN rows' : rows'[u].crawled = (MT' \/ u \in again')
    BY <1>4, <1>5 DEF IsRow
  <1> QED
    BY <1>1, <1>3, <1>4, <1>6

\* Every step keeps the types.
LEMMA NextTyped == Typed /\ [Next]_vars => Typed'
  <1> SUFFICES ASSUME Typed, [Next]_vars PROVE Typed'
    OBVIOUS
  <1> USE DEF Typed, TypeOK, web, crawler, history, MT, MaxRuns, Step, ContentKey
  <1>1. CASE Start
    <2>1. NoUrl \notin seen' /\ queue' \subseteq seen'
      BY <1>1, AdmittedUrls DEF Start
    <2>2. runs' \in 0..Cases[case].maxRuns
      BY <1>1, PageFlowAssumption DEF Start
    <2> QED
      BY <1>1, <2>1, <2>2 DEF Start
  <1>2. CASE Take
    BY <1>2 DEF Take
  <1>3. CASE Fetch
    BY <1>3 DEF Fetch
  <1>4. CASE FetchFails
    <2>1. CASE MT /\ Record("0")
      <3>1. /\ \A u \in DOMAIN rows' : IsRow(rows'[u])
            /\ DOMAIN rows \subseteq DOMAIN rows' /\ again' \subseteq DOMAIN rows'
        BY <2>1, RecordType
      <3>2. \A u \in DOMAIN rows' : rows'[u].key = EmptyKey \/ (MT /\ rows'[u].key \in DOMAIN store)
        BY <2>1, RecordType, RowType
      <3>3. MT' = MT
        BY <1>4 DEF FetchFails
      <3>4. \A u \in DOMAIN rows' : rows'[u].crawled = (MT' \/ u \in again')
        BY <2>1, <3>3, RecordType
      <3> QED
        BY <1>4, <3>1, <3>2, <3>4 DEF FetchFails, NextUrl
    <2>2. CASE UNCHANGED <<rows, again>>
      BY <1>4, <2>2 DEF FetchFails, NextUrl
    <2> QED
      BY <1>4, <2>1, <2>2 DEF FetchFails
  <1>5. CASE StoreContent
    <2>1. DOMAIN store \subseteq DOMAIN store'
      BY <1>5 DEF Put, StoreContent
    <2>2. pc' = "record" /\ MT => ContentKey \in DOMAIN store'
      BY <1>5 DEF Put, StoreContent, NextUrl
    <2>3. pc' \in {"record", "loop"} /\ (pc' = "record" => content' = content)
      BY <1>5 DEF StoreContent, NextUrl
    <2>4. UNCHANGED <<web, rows, saved, records, program, seen, queue, history, runs>>
      BY <1>5 DEF StoreContent
    <2>5. MT /\ pc' = "record" => ContentKey' \in DOMAIN store' /\ content # <<>>
      BY <1>5, <2>2, <2>3, <2>4 DEF StoreContent
    <2> QED
      BY <2>1, <2>3, <2>4, <2>5
  <1>6. CASE RecordPage
    <2>1. CASE Record("200") /\ recorded' = Put(recorded, url, content) /\ ReadLinks
      <3>1. /\ \A u \in DOMAIN rows' : IsRow(rows'[u])
            /\ DOMAIN rows' = DOMAIN rows \cup {url} /\ again' \subseteq DOMAIN rows'
        BY <2>1, RecordType
      <3>2. \A u \in DOMAIN rows' : rows'[u].key = EmptyKey \/ (MT /\ rows'[u].key \in DOMAIN store)
        BY <1>6, <2>1, RecordType, RowType DEF RecordPage
      <3>3. /\ DOMAIN recorded' = DOMAIN recorded \cup {url}
            /\ \A u \in DOMAIN recorded' : recorded'[u] = IF u = url THEN content ELSE recorded[u]
        BY <2>1 DEF Put
      <3>4. MT' = MT
        BY <1>6 DEF RecordPage
      <3>5. \A u \in DOMAIN rows' : rows'[u].crawled = (MT' \/ u \in again')
        BY <2>1, <3>4, RecordType
      <3> QED
        BY <1>6, <2>1, <3>1, <3>2, <3>3, <3>5 DEF RecordPage, ReadLinks
    <2>2. CASE UNCHANGED <<rows, history>> /\ (IF MT THEN NextUrl ELSE ReadLinks)
      BY <1>6, <2>2 DEF RecordPage, ReadLinks, NextUrl
    <2> QED
      BY <1>6, <2>1, <2>2 DEF RecordPage
  <1>7. CASE AddLinks
    <2>1. NoUrl \notin seen' /\ queue' \subseteq seen'
      BY <1>7, AdmittedUrls DEF AddLinks, Add
    <2> QED
      BY <1>7, <2>1 DEF AddLinks, NextUrl
  <1>8. CASE Stop \/ Crash
    BY <1>8 DEF Stop, Crash, End
  <1>9. CASE SiteChanges
    BY <1>9 DEF SiteChanges
  <1>10. CASE Index
    <2>1. PICK u \in DOMAIN rows :
            /\ \E got \in Gets(rows[u].key) :
                 records' = IF got = {} THEN records
                            ELSE Put(records, u, Document(u, HtmlOf(CHOOSE c \in got : TRUE)))
            /\ rows' = [rows EXCEPT ![u].indexed = TRUE]
            /\ UNCHANGED <<web, store, saved, program, crawler, history, runs>>
      BY <1>10 DEF Index
    <2>2. DOMAIN records' \subseteq DOMAIN rows
      BY <2>1 DEF Put
    <2>3. DOMAIN rows' = DOMAIN rows
      BY <2>1
    <2>4. ASSUME NEW v \in DOMAIN rows 
          PROVE  /\ IsRow(rows'[v]) /\ rows'[v].key = rows[v].key
                 /\ rows'[v].crawled = rows[v].crawled
      <3>1. CASE v # u
        BY <2>1, <3>1
      <3>2. CASE v = u
        <4>1. rows'[v] = [rows[v] EXCEPT !.indexed = TRUE]
          BY <2>1, <3>2
        <4>2. rows'[v] = [status |-> rows[v].status, key |-> rows[v].key, crawled |-> rows[v].crawled,
                         indexed |-> TRUE]
          BY <4>1 DEF IsRow
        <4> QED
          BY <4>2 DEF IsRow
      <3> QED
        BY <3>1, <3>2
    <2>5. \A v \in DOMAIN rows' : rows'[v].crawled = (MT' \/ v \in again')
      BY <2>1, <2>3, <2>4
    <2>6. \A v \in DOMAIN rows' : IsRow(rows'[v]) /\ (rows'[v].key = EmptyKey \/ (MT' /\ rows'[v].key \in DOMAIN store'))
      BY <2>1, <2>3, <2>4
    <2> QED
      BY <2>1, <2>2, <2>3, <2>5, <2>6
  <1>11. CASE UNCHANGED vars
    BY <1>11 DEF vars
  <1> QED
    BY <1>1, <1>2, <1>3, <1>4, <1>5, <1>6, <1>7, <1>8, <1>9, <1>10, <1>11 DEF Next

\* Every variable has its type, only the multi-threaded crawler saves a frontier or
\* names contents in its rows, and it records no empty page.
THEOREM TypeCorrect == Spec => []TypeOK
  <1>1. Typed => TypeOK
    BY DEF Typed
  <1> QED
    BY InitTyped, NextTyped, <1>1, PTL DEF Spec

-----------------------------------------------------------------------------
(* The way to the index.                                                   *)

Contents == {<<>>, <<"first">>, <<"later">>}

KeyOf(c) == <<{c}, NoUrl>>

\* What the store has for a content gives that content.
StoreGives ==
  /\ content \in Contents
  /\ \A c \in Contents : KeyOf(c) \in DOMAIN store => Decompress(store[KeyOf(c)]) = c

\* A row that was written once has its content's key, which the store knows, and is
\* marked when the index has the content.
ReachesFrom(u) ==
  /\ recorded[u] \in Contents
  /\ rows[u].status = "200" /\ rows[u].key = KeyOf(recorded[u])
  /\ KeyOf(recorded[u]) \in DOMAIN store
  /\ rows[u].indexed => u \in DOMAIN records /\ records[u] = Document(u, HtmlOf(recorded[u]))

Reaches == MT => \A u \in DOMAIN recorded \ again : ReachesFrom(u)

ReachInv == Typed /\ StoreGives /\ Reaches

\* No content begins like a frame, so that what was compressed is found again.
LEMMA CompressedGives ==
  ASSUME NEW c \in Contents, NEW object \in Compressed(c)
  PROVE  Decompress(object) = c
  <1>1. CASE c = <<>>
    BY <1>1 DEF Compressed, Decompress, StartsWith
  <1>2. CASE c \in {<<"first">>, <<"later">>}
    <2>1. c[1] # "zstd" /\ c # <<>>
      BY <1>2
    <2>2. CASE object = c
      BY <2>1, <2>2 DEF Decompress, StartsWith
    <2>3. CASE object = <<"zstd">> \o c
      <3>1. c \in Seq({"first", "later"})
        <4>1. <<"first">> \in Seq({"first", "later"}) /\ <<"later">> \in Seq({"first", "later"})
          OBVIOUS
        <4> QED
          BY <1>2, <4>1
      <3>2. object # <<>> /\ object[1] = "zstd"
        BY <2>3, <3>1
      <3>3. Tail(object) = c
        BY <2>3, <3>1
      <3> QED
        BY <3>2, <3>3 DEF Decompress, StartsWith
    <2> QED
      BY <1>2, <2>1, <2>2, <2>3 DEF Compressed
  <1> QED
    BY <1>1, <1>2 DEF Contents

\* The keys of different contents, and those of the single-threaded crawler, differ.
LEMMA KeysDiffer ==
  /\ \A c, d : KeyOf(c) = KeyOf(d) => c = d
  /\ \A c, u : KeyOf(c) # <<{}, u>>
  <1>1. \A c, d : KeyOf(c)[1] = {c} /\ KeyOf(d)[1] = {d}
    BY DEF KeyOf
  <1>2. \A u : <<{}, u>>[1] = {}
    OBVIOUS
  <1> QED
    BY <1>1, <1>2

\* What get() returns for a content that is stored.
LEMMA GetsContent ==
  ASSUME StoreGives, NEW c \in Contents, KeyOf(c) \in DOMAIN store
  PROVE  Gets(KeyOf(c)) = {{c}}
  <1>1. KeyOf(c) # EmptyKey
    BY KeysDiffer DEF EmptyKey
  <1>2. Decompress(store[KeyOf(c)]) = c
    BY DEF StoreGives
  <1> QED
    BY <1>1, <1>2 DEF Gets

\* Initially nothing is stored.
LEMMA InitReach == Init => ReachInv
  <1> SUFFICES ASSUME Init PROVE ReachInv
    OBVIOUS
  <1>1. DOMAIN store = {} /\ DOMAIN recorded = {} /\ content \in Contents
    BY DEF Init, Contents
  <1> QED
    BY <1>1, InitTyped DEF ReachInv, StoreGives, Reaches

\* Every step keeps what the store gives.
LEMMA StoreGivesKept == ReachInv /\ [Next]_vars => StoreGives'
  <1> SUFFICES ASSUME ReachInv, [Next]_vars PROVE StoreGives'
    OBVIOUS
  <1>1. CASE UNCHANGED store /\ content' \in {content, Site, <<>>}
    <2>1. Site \in Contents
      BY DEF Site, Contents
    <2>2. content' \in Contents
      BY <1>1, <2>1 DEF ReachInv, StoreGives, Contents
    <2> QED
      BY <1>1, <2>2 DEF ReachInv, StoreGives, Decompress, KeyOf
  <1>2. CASE StoreContent
    <2>1. content \in Contents /\ content' \in Contents
      BY <1>2 DEF ReachInv, StoreGives, StoreContent, NextUrl, Contents
    <2>2. CASE UNCHANGED store
      BY <2>1, <2>2 DEF ReachInv, StoreGives, Decompress, KeyOf
    <2>3. CASE \E object \in Compressed(content) : store' = Put(store, ContentKey, object)
      <3>1. PICK object \in Compressed(content) : store' = Put(store, ContentKey, object)
        BY <2>3
      <3>2. ASSUME NEW c \in Contents, KeyOf(c) \in DOMAIN store'
            PROVE  Decompress(store'[KeyOf(c)]) = c
        <4>1. CASE KeyOf(c) = ContentKey
          <5>1. c = content
            BY <4>1, KeysDiffer DEF ContentKey, KeyOf
          <5>2. store'[KeyOf(c)] = object
            BY <3>1, <4>1 DEF Put
          <5> QED
            BY <2>1, <5>1, <5>2, CompressedGives
        <4>2. CASE KeyOf(c) # ContentKey
          <5>1. KeyOf(c) \in DOMAIN store /\ store'[KeyOf(c)] = store[KeyOf(c)]
            BY <3>1, <3>2, <4>2 DEF Put
          <5> QED
            BY <5>1 DEF ReachInv, StoreGives
        <4> QED
          BY <4>1, <4>2
      <3> QED
        BY <2>1, <3>2 DEF StoreGives, Decompress, KeyOf
    <2> QED
      BY <1>2, <2>2, <2>3 DEF StoreContent
  <1>3. CASE \/ Start \/ Take \/ Fetch \/ FetchFails \/ RecordPage \/ AddLinks
             \/ Stop \/ Crash \/ SiteChanges \/ Index \/ UNCHANGED vars
    <2>1. UNCHANGED store
      BY <1>3 DEF Start, Take, Fetch, FetchFails, RecordPage, AddLinks, Stop, Crash,
                  SiteChanges, Index, vars
    <2>2. Start \/ Take \/ Fetch \/ SiteChanges \/ Index \/ UNCHANGED vars
            => content' \in {content, Site}
      BY DEF Start, Take, Fetch, SiteChanges, Index, crawler, vars
    <2>3. FetchFails \/ RecordPage \/ AddLinks \/ Stop \/ Crash => content' \in {content, <<>>}
      BY DEF FetchFails, RecordPage, AddLinks, Stop, Crash, End, NextUrl, ReadLinks, history
    <2>4. content' \in {content, Site, <<>>}
      BY <1>3, <2>2, <2>3
    <2> QED
      BY <1>1, <2>1, <2>4
  <1> QED
    BY <1>2, <1>3 DEF Next

\* The document of a row does not depend on the state.
LEMMA DocumentConstant ==
  ASSUME UNCHANGED <<case, program>>
  PROVE  \A u, c : Document(u, HtmlOf(c))' = Document(u, HtmlOf(c))
  BY DEF Document, HtmlOf, first

\* Every step keeps what is on its way, or puts another row over it.
LEMMA ReachesKept == ReachInv /\ [Next]_vars => Reaches'
  <1> SUFFICES ASSUME ReachInv, [Next]_vars, MT', NEW u \in DOMAIN recorded', u \notin again'
               PROVE  ReachesFrom(u)'
    BY DEF Reaches
  <1>1. UNCHANGED <<case, program>> /\ MT
    BY DEF Next, vars, Start, Take, Fetch, FetchFails, StoreContent, RecordPage, AddLinks, Stop, Crash,
           SiteChanges, Index, web, MT
  <1>2. CASE UNCHANGED <<rows, recorded, records, again>> /\ DOMAIN store \subseteq DOMAIN store'
    <2>1. ReachesFrom(u)
      BY <1>1, <1>2 DEF ReachInv, Reaches
    <2> QED
      BY <1>1, <1>2, <2>1, DocumentConstant DEF ReachesFrom, KeyOf
  <1>3. CASE StoreContent
    <2>1. UNCHANGED <<rows, recorded, records, again>> /\ DOMAIN store \subseteq DOMAIN store'
      BY <1>3 DEF StoreContent, Put, history
    <2> QED
      BY <1>2, <2>1
  <1>4. CASE Start \/ Take \/ Fetch \/ AddLinks \/ Stop \/ Crash \/ SiteChanges \/ UNCHANGED vars
    <2>1. UNCHANGED <<rows, recorded, records, again, store>>
      BY <1>4 DEF Start, Take, Fetch, AddLinks, Stop, Crash, SiteChanges, history, vars
    <2> QED
      BY <1>2, <2>1
  <1>5. CASE FetchFails
    <2>1. UNCHANGED <<recorded, records, store>>
      BY <1>5 DEF FetchFails
    <2>2. CASE UNCHANGED <<rows, again>>
      BY <1>2, <2>1, <2>2
    <2>3. CASE Record("0")
      <3>1. u \in DOMAIN rows /\ u # url /\ u \notin again
        BY <2>1, <2>3 DEF Record, ReachInv, Typed, TypeOK
      <3>2. rows'[u] = rows[u]
        BY <2>3, <3>1, RecordType DEF ReachInv
      <3>3. ReachesFrom(u)
        BY <1>1, <2>1, <3>1 DEF ReachInv, Reaches
      <3> QED
        BY <1>1, <2>1, <3>2, <3>3, DocumentConstant DEF ReachesFrom, KeyOf
    <2> QED
      BY <1>5, <2>2, <2>3 DEF FetchFails
  <1>6. CASE RecordPage
    <2>1. UNCHANGED <<records, store>>
      BY <1>6 DEF RecordPage
    <2>2. CASE UNCHANGED <<rows, history>>
      BY <1>2, <2>1, <2>2 DEF history
    <2>3. CASE Record("200") /\ recorded' = Put(recorded, url, content)
      <3>1. CASE u = url
        <4>1. u \notin DOMAIN rows /\ recorded'[u] = content
          BY <2>3, <3>1 DEF Record, Put
        <4>2. rows'[u].status = "200" /\ rows'[u].key = ContentKey /\ ~rows'[u].indexed
          BY <1>1, <2>3, <3>1, <4>1, RecordType, RowType DEF ReachInv
        <4>3. ContentKey = KeyOf(content) /\ ContentKey \in DOMAIN store
          BY <1>1, <1>6 DEF ContentKey, KeyOf, ReachInv, Typed, RecordPage
        <4>4. content \in Contents
          BY DEF ReachInv, StoreGives
        <4> QED
          BY <2>1, <4>1, <4>2, <4>3, <4>4 DEF ReachesFrom, KeyOf
      <3>2. CASE u # url
        <4>1. u \in DOMAIN recorded /\ u \in DOMAIN rows /\ u \notin again /\ recorded'[u] = recorded[u]
          BY <2>3, <3>2 DEF Record, Put, ReachInv, Typed, TypeOK
        <4>2. rows'[u] = rows[u]
          BY <2>3, <3>2, <4>1, RecordType DEF ReachInv
        <4>3. ReachesFrom(u)
          BY <1>1, <4>1 DEF ReachInv, Reaches
        <4> QED
          BY <1>1, <2>1, <4>1, <4>2, <4>3, DocumentConstant DEF ReachesFrom, KeyOf
      <3> QED
        BY <3>1, <3>2
    <2> QED
      BY <1>6, <2>2, <2>3 DEF RecordPage
  <1>7. CASE Index
    <2>1. PICK v \in DOMAIN rows :
            /\ \E got \in Gets(rows[v].key) :
                 records' = IF got = {} THEN records
                            ELSE Put(records, v, Document(v, HtmlOf(CHOOSE c \in got : TRUE)))
            /\ rows' = [rows EXCEPT ![v].indexed = TRUE]
            /\ UNCHANGED <<web, store, saved, program, crawler, history, runs>>
      BY <1>7 DEF Index
    <2>2. UNCHANGED <<recorded, again, store>>
      BY <2>1 DEF history
    <2>3. ReachesFrom(u) /\ u \in DOMAIN rows /\ IsRow(rows[u])
      BY <1>1, <2>2 DEF ReachInv, Reaches, Typed, TypeOK
    <2>4. CASE u # v
      <3>1. rows'[u] = rows[u]
        BY <2>1, <2>3, <2>4
      <3>2. u \in DOMAIN records => u \in DOMAIN records' /\ records'[u] = records[u]
        BY <2>1, <2>4 DEF Put
      <3> QED
        BY <1>1, <2>2, <2>3, <3>1, <3>2, DocumentConstant DEF ReachesFrom, KeyOf
    <2>5. CASE u = v
      <3>1. Gets(rows[v].key) = {{recorded[u]}}
        BY <2>3, <2>5, GetsContent DEF ReachesFrom, ReachInv
      <3>2. records' = Put(records, v, Document(v, HtmlOf(CHOOSE c \in {recorded[u]} : TRUE)))
        BY <2>1, <3>1
      <3>3. (CHOOSE c \in {recorded[u]} : TRUE) = recorded[u]
        OBVIOUS
      <3>4. u \in DOMAIN records' /\ records'[u] = Document(u, HtmlOf(recorded[u]))
        BY <2>5, <3>2, <3>3 DEF Put
      <3>5. rows'[u] = [rows[u] EXCEPT !.indexed = TRUE]
        BY <2>1, <2>3, <2>5
      <3>6. rows'[u].status = rows[u].status /\ rows'[u].key = rows[u].key
        BY <2>3, <3>5 DEF IsRow
      <3> QED
        BY <1>1, <2>2, <2>3, <3>4, <3>6, DocumentConstant DEF ReachesFrom, KeyOf
    <2> QED
      BY <2>4, <2>5
  <1> QED
    BY <1>3, <1>4, <1>5, <1>6, <1>7 DEF Next

\* A page that the multi-threaded crawler has recorded once waits for the indexer
\* under the key of its content, or is in the index with that content, whichever
\* calls fail and whenever the crawler dies.
THEOREM RecordedIndexed == Spec => []RecordedReachesIndex
  <1>1. ReachInv => RecordedReachesIndex
    <2> SUFFICES ASSUME ReachInv, MT, NEW u \in DOMAIN recorded \ again
                 PROVE  \/ Unindexed(u) /\ Gets(rows[u].key) = {{recorded[u]}}
                        \/ u \in DOMAIN records /\ records[u] = Document(u, HtmlOf(recorded[u]))
      BY DEF RecordedReachesIndex
    <2>1. ReachesFrom(u)
      BY DEF ReachInv, Reaches
    <2>2. Gets(rows[u].key) = {{recorded[u]}}
      BY <2>1, GetsContent DEF ReachInv, ReachesFrom
    <2>3. rows[u].crawled
      BY DEF ReachInv, Typed, TypeOK
    <2> QED
      BY <2>1, <2>2, <2>3 DEF ReachesFrom, Unindexed
  <1>2. ReachInv /\ [Next]_vars => ReachInv'
    BY NextTyped, StoreGivesKept, ReachesKept DEF ReachInv
  <1> QED
    BY InitReach, <1>1, <1>2, PTL DEF Spec

-----------------------------------------------------------------------------
(* The names in a frontier.                                                *)

\* A name that a frontier gives: a normal form, with a domain in the multi-threaded one.
IsName(u) ==
  /\ u \in Seq(Word)
  /\ MT => IsNormal(u) /\ DomainMT(u) # NoUrl
  /\ ~MT => IsPlain(u) /\ [Resource(u) EXCEPT !.path = DecodeUnreserved(@)] = Resource(u)

\* A normal form is a sequence of tokens.
LEMMA NormalTyped == \A u : IsNormal(u) \/ IsPlain(u) => u \in Seq(Word)
  <1> SUFFICES ASSUME NEW scheme, NEW host, NEW rest, IsForm(scheme, host, rest)
               PROVE  Whole(scheme, host, rest) \in Seq(Word)
    BY DEF IsNormal, IsPlain
  <1>1. HasParts(Whole(scheme, host, rest), scheme, host, rest)
    BY WholeSays DEF IsForm
  <1> QED
    BY <1>1 DEF HasParts

\* A frontier admits names.
LEMMA AdmittedNames ==
  ASSUME NEW U, U \subseteq Seq(Word)
  PROVE  \A u \in Admitted(U) : IsName(u)
  <1> SUFFICES ASSUME NEW u \in Admitted(U) PROVE IsName(u)
    OBVIOUS
  <1>1. PICK t \in U : /\ u = Normalize(t) /\ Normalize(t) # NoUrl
                       /\ MT => DomainOf(Normalize(t)) # NoUrl
    BY DEF Admitted
  <1>2. t \in Seq(Word)
    BY <1>1
  <1>3. CASE MT
    <2>1. IsNormal(u)
      BY <1>1, <1>2, <1>3, NormalMT DEF Normalize
    <2> QED
      BY <1>1, <1>3, <2>1, NormalTyped DEF IsName, DomainOf
  <1>4. CASE ~MT
    <2>1. IsPlain(u) /\ [Resource(u) EXCEPT !.path = DecodeUnreserved(@)] = Resource(u)
      <3>1. u = NormalizeST(t) /\ NormalizeST(t) # NoUrl
        BY <1>1, <1>4, Zenon DEF Normalize
      <3> QED
        BY <1>2, <3>1, NormalST, Zenon
    <2>2. u \in Seq(Word)
      BY <2>1, NormalTyped, Zenon
    <2> QED
      BY <1>4, <2>1, <2>2, Zenon DEF IsName
  <1> QED
    BY <1>3, <1>4

\* What is in the frontier, or is saved, has been named by it, and what it is given
\* is a sequence of tokens.
Named ==
  /\ \A u \in seen \cup saved : IsName(u)
  /\ url \in Seq(Word) /\ links \in Seq(Seq(Word))

\* Initially nothing is named.
LEMMA InitNamed == Init => Named
  BY DEF Init, Named, NoUrl

\* The links of a page are sequences of tokens.
LEMMA LinksRead ==
  ASSUME Typed
  PROVE  LinksOf[HtmlOf(content)] \in Seq(Seq(Word)) /\ HrefsOf[HtmlOf(content)] \in Seq(Seq(Word))
  <1>1. HtmlOf(content) \in Node
    BY PageFlowAssumption DEF HtmlOf, first, Typed
  <1> QED
    BY <1>1, LinksTyped, Zenon

\* Every step leaves names in the frontier.
LEMMA NextNamed == Typed /\ Named /\ [Next]_vars => Named'
  <1> SUFFICES ASSUME Typed, Named, [Next]_vars PROVE Named'
    OBVIOUS
  <1>1. MT' = MT
    BY DEF Next, vars, Start, Take, Fetch, FetchFails, StoreContent, RecordPage, AddLinks, Stop, Crash,
           SiteChanges, Index, MT
  <1>2. \A u : IsName(u)' <=> IsName(u)
    BY <1>1, Zenon DEF IsName
  <1>3. <<>> \in Seq(Word) /\ <<>> \in Seq(Seq(Word))
    OBVIOUS
  <1>4. \A u \in queue : IsName(u)
    BY DEF Typed, TypeOK, Named
  <1>5. \A u : IsName(u) => u \in Seq(Word)
    BY DEF IsName
  <1>6. CASE Start
    <2>1. saved \cup {seed} \subseteq Seq(Word)
      BY <1>5, PageFlowAssumption DEF Typed, Named, seed
    <2>2. \A u \in Admitted(saved \cup {seed}) : IsName(u)
      BY <2>1, AdmittedNames, Zenon
    <2>3. seen' = Admitted(saved \cup {seed}) /\ saved' = {} /\ UNCHANGED <<url, links>>
      BY <1>6 DEF Start
    <2> QED
      BY <1>2, <2>2, <2>3, Zenon DEF Named
  <1>7. CASE Take
    <2>1. UNCHANGED <<seen, saved, links>> /\ url' \in queue \cup {url}
      BY <1>7 DEF Take
    <2>2. url' \in Seq(Word)
      BY <1>4, <1>5, <2>1 DEF Named
    <2> QED
      BY <1>2, <2>1, <2>2, Zenon DEF Named
  <1>8. CASE AddLinks
    <2> DEFINE resolved == {Resolve(link, url) : link \in ToSet(links)}
               U == {link \in resolved : MT => IsAcceptable(link)}
    <2>1. seen' = seen \cup Admitted(U) /\ UNCHANGED saved /\ url' = NoUrl /\ links' = <<>>
      BY <1>8, Zenon DEF AddLinks, Add, NextUrl
    <2>2. ToSet(links) \subseteq Seq(Word)
      BY DEF Named, ToSet
    <2>3. resolved \subseteq Seq(Word)
      BY <2>2, ResolveTyped DEF Named
    <2>4. U \subseteq Seq(Word)
      BY <2>3
    <2> HIDE DEF U, resolved
    <2>5. \A u \in Admitted(U) : IsName(u)
      BY <2>4, AdmittedNames, Zenon
    <2>6. \A u \in seen' \cup saved' : IsName(u)
      BY <2>1, <2>5 DEF Named
    <2>7. url' \in Seq(Word) /\ links' \in Seq(Seq(Word))
      BY <1>3, <2>1 DEF NoUrl
    <2> QED
      BY <1>2, <2>6, <2>7, Zenon DEF Named
  <1>9. CASE Stop \/ Crash
    <2>1. seen' = {} /\ saved' \in {saved, queue, {}} /\ url' = <<>> /\ links' = <<>>
      BY <1>9 DEF Stop, Crash, End, NoUrl
    <2>2. \A u \in seen' \cup saved' : IsName(u)
      BY <1>4, <2>1 DEF Named
    <2>3. url' \in Seq(Word) /\ links' \in Seq(Seq(Word))
      BY <1>3, <2>1
    <2> QED
      BY <1>2, <2>2, <2>3, Zenon DEF Named
  <1>10. CASE RecordPage
    <2>1. UNCHANGED <<seen, saved>>
      BY <1>10 DEF RecordPage
    <2>2. links' \in {<<>>, LinksOf[HtmlOf(content)], HrefsOf[HtmlOf(content)]} /\ url' \in {url, <<>>}
      BY <1>10 DEF RecordPage, ReadLinks, NextUrl, NoUrl
    <2>3. url' \in Seq(Word) /\ links' \in Seq(Seq(Word))
      BY <1>3, <2>2, LinksRead DEF Named
    <2> QED
      BY <1>2, <2>1, <2>3, Zenon DEF Named
  <1>11. CASE Fetch \/ FetchFails \/ StoreContent \/ SiteChanges \/ Index \/ UNCHANGED vars
    <2>1. UNCHANGED <<seen, saved>> /\ url' \in {url, <<>>} /\ links' \in {links, <<>>}
      BY <1>11 DEF Fetch, FetchFails, StoreContent, SiteChanges, Index, vars, crawler, NextUrl, NoUrl
    <2>2. url' \in Seq(Word) /\ links' \in Seq(Seq(Word))
      BY <1>3, <2>1 DEF Named
    <2> QED
      BY <1>2, <2>1, <2>2, Zenon DEF Named
  <1> QED
    BY <1>6, <1>7, <1>8, <1>9, <1>10, <1>11 DEF Next

\* No resource is queued under two names.
THEOREM OneNameEach == Spec => []NoPageTwice
  <1>1. ASSUME Named PROVE NoPageTwice
    <2> SUFFICES ASSUME NEW u \in seen, NEW v \in seen, Identity(u) = Identity(v),
                        ~(MT /\ \E w \in {u, v} : NoPath(w) \/ OddPort(w))
                 PROVE  u = v
      BY Zenon DEF NoPageTwice
    <2>1. IsName(u) /\ IsName(v)
      BY <1>1 DEF Named
    <2>2. IsPlain(u) /\ IsPlain(v)
      <3>1. CASE MT
        <4>1. ~NoPath(u) /\ ~OddPort(u) /\ ~NoPath(v) /\ ~OddPort(v)
          BY <3>1
        <4>2. IsNormal(u) /\ IsNormal(v)
          BY <2>1, <3>1, Zenon DEF IsName
        <4> QED
          BY <4>1, <4>2, NormalIsPlain, Zenon
      <3> QED
        BY <2>1, <3>1, Zenon DEF IsName
    <2>3. Resource(u) = Resource(v)
      BY <2>1, Zenon DEF Identity, IsName
    <2> QED
      BY <2>2, <2>3, PlainTells, Zenon
  <1> QED
    BY InitTyped, NextTyped, InitNamed, NextNamed, <1>1, PTL DEF Spec

\* A saved frontier is loaded as it was saved.
THEOREM ReloadKept == Spec => ReloadKeepsUrls
  <1>1. ASSUME Typed, Named, [Next]_vars, runs' # runs
        PROVE  \A u \in saved : \/ u \in queue' \/ Last(u) = "/"
                                \/ WithoutDefaultPort(<<u[1]>>, Authority(u)) # Authority(u)
    <2> SUFFICES ASSUME NEW u \in saved, Last(u) # "/",
                        WithoutDefaultPort(<<u[1]>>, Authority(u)) = Authority(u)
                 PROVE  u \in queue'
      BY Zenon
    <2>1. queue' = Admitted(saved \cup {seed})
      <3>1. ~Index
        BY <1>1 DEF Index
      <3> QED
        BY <1>1, <3>1 DEF Next, vars, history, Start, Take, Fetch, FetchFails, StoreContent, RecordPage, AddLinks,
                  Stop, Crash, SiteChanges
    <2>2. MT /\ IsName(u)
      BY <1>1 DEF Typed, TypeOK, Named
    <2>3. PICK scheme, host, rest : IsForm(scheme, host, rest) /\ u = Whole(scheme, host, rest)
      BY <2>2 DEF IsName, IsNormal
    <2>4. ReadsAs(u, scheme, host, rest)
      BY <2>3, FormSays, Zenon
    <2>5. HasParts(u, scheme, host, rest) /\ scheme = <<scheme[1]>> /\ host \in Seq(Word)
      BY <2>3, WholeSays, SchemesSay DEF IsForm
    <2>6. Authority(u) = host
      <3>1. SchemeEnd(u) = 2 /\ First(u, {"/"}, 5) = 5 + Len(host) /\ SubSeq(u, 5, 4 + Len(host)) = host
        BY <2>4 DEF ReadsAs
      <3>2. Len(host) \in Nat
        BY <2>5
      <3> HIDE DEF First, SchemeEnd
      <3>3. 2 + 3 = 5 /\ 5 + Len(host) - 1 = 4 + Len(host)
        BY <3>2
      <3> QED
        BY <3>1, <3>3 DEF Authority
    <2>7. <<u[1]>> = scheme
      BY <2>5 DEF HasParts
    <2>8. NormalizeMT(u) = u
      <3>1. WithoutDefaultPort(scheme, host) = host
        BY <2>6, <2>7
      <3> QED
        BY <2>3, <3>1, NormalStays, Zenon
    <2>9. u # NoUrl /\ DomainMT(u) # NoUrl
      <3>1. Len(u) = 4 + Len(host) + Len(rest) /\ Len(host) \in Nat /\ Len(rest) \in Nat
        BY <2>3, <2>5 DEF HasParts, IsForm
      <3> QED
        BY <2>2, <3>1 DEF IsName, NoUrl
    <2>10. Normalize(u) = u /\ DomainOf(u) = DomainMT(u)
      BY <2>2, <2>8, Zenon DEF Normalize, DomainOf
    <2>11. u \in Admitted(saved \cup {seed})
      <3>1. u \in saved \cup {seed}
        OBVIOUS
      <3> HIDE DEF Normalize, DomainOf
      <3> QED
        BY <2>9, <2>10, <3>1, Zenon DEF Admitted
    <2> QED
      BY <2>1, <2>11
  <1> QED
    BY InitTyped, NextTyped, InitNamed, NextNamed, <1>1, PTL DEF Spec, ReloadKeepsUrls

-----------------------------------------------------------------------------
(* What the URLs of the frontier mean.                                     *)

\* A frontier reads tokens as tokens.
LEMMA NormalizeTyped == \A u \in Seq(Word) : Normalize(u) \in Seq(Word)
  <1> SUFFICES ASSUME NEW u \in Seq(Word) PROVE Normalize(u) \in Seq(Word)
    OBVIOUS
  <1>1. NoUrl \in Seq(Word)
    BY DEF NoUrl
  <1>2. NormalizeMT(u) \in Seq(Word)
    <2>1. NormalizeMT(u) # NoUrl => IsNormal(NormalizeMT(u))
      BY NormalMT, Zenon
    <2> QED
      BY <1>1, <2>1, NormalTyped, Zenon
  <1>3. NormalizeST(u) \in Seq(Word)
    <2>1. NormalizeST(u) # NoUrl => IsPlain(NormalizeST(u))
      BY NormalST, Zenon
    <2> QED
      BY <1>1, <2>1, NormalTyped, Zenon
  <1> QED
    BY <1>2, <1>3, Zenon DEF Normalize

\* What a frontier makes of a URL it makes of it step by step.
LEMMA AgainSays ==
  ASSUME Typed, NEW u \in Seq(Word)
  PROVE  /\ Again(u)[0] = u
         /\ \A n \in 1..MaxRuns : Again(u)[n] = Normalize(Again(u)[n - 1])
  <1> DEFINE N == MaxRuns
             Is(f) == f = [n \in 0..N |-> IF n = 0 THEN u ELSE Normalize(f[n - 1])]
             read == CHOOSE f : Is(f)
  <1>1. Again(u) = read
    BY Zenon DEF Again
  <1>2. N \in Nat
    BY PageFlowAssumption DEF MaxRuns, Typed
  <1> HIDE DEF N
  <1>3. \E f : Is(f)
    <2> DEFINE D == Seq(Word)
               step == [p \in D \X (1..N) |-> Normalize(p[1])]
    <2>1. IsStep(step, N, D) /\ u \in D
      BY NormalizeTyped DEF IsStep
    <2>2. PICK g : Recurs(g, N, D, u, step)
      <3> HIDE DEF step, D
      <3> QED
        BY <1>2, <2>1, RecursionExists
    <2>3. ASSUME NEW n \in 0..N PROVE g[n] = IF n = 0 THEN u ELSE Normalize(g[n - 1])
      <3>1. CASE n = 0
        <4>1. g[0] = u
          BY <2>2 DEF Recurs
        <4> QED
          BY <3>1, <4>1, Zenon
      <3>2. CASE n # 0
        <4>1. n \in 1..N /\ n - 1 \in 0..N
          BY <1>2, <3>2
        <4>2. g[n] = step[<<g[n - 1], n>>] /\ g[n - 1] \in D
          <5> HIDE DEF step, D
          <5> QED
            BY <2>2, <4>1 DEF Recurs
        <4>3. g[n] = Normalize(g[n - 1])
          <5> HIDE DEF D
          <5> QED
            BY <4>1, <4>2
        <4> QED
          BY <3>2, <4>3, Zenon
      <3> QED
        BY <3>1, <3>2
    <2>4. g = [n \in 0..N |-> g[n]]
      <3> HIDE DEF step, D
      <3> QED
        BY <2>2 DEF Recurs
    <2>5. Is(g)
      BY <2>3, <2>4, Zenon
    <2> QED
      BY <2>5
  <1>4. Is(read)
    <2> HIDE DEF Is
    <2> QED
      BY <1>3
  <1> HIDE DEF read
  <1>5. \A n \in 0..N : read[n] = IF n = 0 THEN u ELSE Normalize(read[n - 1])
    BY <1>4, Zenon
  <1>6. 0 \in 0..N /\ \A n \in 1..N : n \in 0..N /\ n # 0
    BY <1>2
  <1> QED
    BY <1>1, <1>5, <1>6, Zenon DEF N

\* A URL that came of a name: its page, where the name is read as it is meant.
IsOf(u, name) ==
  IF Unusual(name) THEN IsRead(u, name)
  ELSE PageOf(u) = PageOf(name) /\ (MT => ~NoPath(u))

\* A URL that came of a seed or a link.
Comes(u) ==
  \/ IsOf(u, seed)
  \/ \E link \in PageLinks : IF Misread(link, Home) THEN IsRead(u, Resolve(link, Home))
                             ELSE IsOf(u, Target(link, Home))

\* The page has the URL of the seed, and its links, and what is saved came of them.
Meant ==
  /\ pc # "off" => runs # 0 /\ Admitted({seed}) # {}
  /\ pc \in {"store", "record", "links"} => url = Home
  /\ pc = "links" => ToSet(links) \subseteq PageLinks
  /\ \A u \in seen \cup saved : Comes(u)

\* A URL that is added is read once.
LEMMA ReadOnce ==
  ASSUME Typed, NEW t \in Seq(Word), runs # 0
  PROVE  IsRead(Normalize(t), t)
  <1>1. 1 \in 1..runs /\ 1 \in 1..MaxRuns
    BY PageFlowAssumption DEF MaxRuns, Typed, TypeOK
  <1>2. Again(t)[1] = Normalize(Again(t)[1 - 1]) /\ Again(t)[0] = t
    BY <1>1, AgainSays, Zenon
  <1>3. Again(t)[1] = Normalize(t)
    <2>1. 1 - 1 = 0
      OBVIOUS
    <2> QED
      BY <1>2, <2>1
  <1> QED
    BY <1>1, <1>3, Zenon DEF IsRead

\* The frontier names the page that a URL names.
LEMMA PageKept ==
  ASSUME NEW t \in Seq(Word), Normalize(t) # NoUrl, Resource(t).port \in DOMAIN NumberOf,
         MT => ~NoPath(Normalize(t))
  PROVE  PageOf(Normalize(t)) = PageOf(t)
  <1>1. CASE MT
    <2>1. Normalize(t) = NormalizeMT(t)
      BY <1>1, Zenon DEF Normalize
    <2> QED
      BY <1>1, <2>1, PageMT, Zenon
  <1>2. CASE ~MT
    <2>1. Normalize(t) = NormalizeST(t)
      BY <1>2, Zenon DEF Normalize
    <2> QED
      BY <1>2, <2>1, PageST, Zenon
  <1> QED
    BY <1>1, <1>2

\* What is made of a name comes of it.
LEMMA FirstOfName ==
  ASSUME Typed, NEW t \in Seq(Word), Normalize(t) # NoUrl, runs # 0
  PROVE  IsOf(Normalize(t), t)
  <1>1. CASE Unusual(t)
    BY <1>1, ReadOnce, Zenon DEF IsOf
  <1>2. CASE ~Unusual(t)
    <2>1. Resource(t).port \in DOMAIN NumberOf /\ (MT => ~NoPath(Normalize(t)))
      BY <1>2, Zenon DEF Unusual
    <2> QED
      BY <1>2, <2>1, PageKept, Zenon DEF IsOf
  <1> QED
    BY <1>1, <1>2

\* The port is that of the page.
LEMMA PortOfPage ==
  ASSUME NEW u, NEW v, PageOf(u) = PageOf(v)
  PROVE  Resource(u).port = Resource(v).port
  <1>1. \A w : PageOf(w).port = Resource(w).port
    <2> SUFFICES ASSUME NEW w PROVE PageOf(w).port = Resource(w).port
      OBVIOUS
    <2> DEFINE e == SchemeEnd(w)
               scheme == Lower(Before(w, e))
               hierarchy == From(Before(w, First(w, {"#"}, 1)), e + 3)
               end == First(hierarchy, {"/", "?"}, 1)
               host == Before(hierarchy, end)
               target == From(hierarchy, end)
    <2>1. Resource(w) = Located(scheme, host, target)
      BY Zenon DEF Resource, Split
    <2> HIDE DEF scheme, host, target
    <2>2. Resource(w) = [scheme |-> scheme, host |-> NameIn(host), port |-> PortIn(scheme, host),
                         path |-> PathOf(target), query |-> QueryOf(target)]
      BY <2>1, LocatedIs, Zenon
    <2>3. PageOf(w) = Page(Located(scheme, host, target))
      BY <2>1, Zenon DEF PageOf
    <2> QED
      BY <2>2, <2>3, LocatedIs
  <1> QED
    BY <1>1, Zenon

\* What is loaded again comes of the name that it came of.
LEMMA NextOfName ==
  ASSUME Typed, NEW u, NEW name \in Seq(Word), IsName(u), Normalize(u) # NoUrl, IsOf(u, name),
         ~Unusual(name)
  PROVE  IsOf(Normalize(u), name)
  <1>1. PageOf(u) = PageOf(name) /\ (MT => ~NoPath(u)) /\ u \in Seq(Word)
    BY Zenon DEF IsOf, IsName
  <1>2. Resource(u).port \in DOMAIN NumberOf
    BY <1>1, PortOfPage, Zenon DEF Unusual
  <1>3. MT => ~NoPath(Normalize(u))
    <2> SUFFICES ASSUME MT PROVE ~NoPath(Normalize(u))
      OBVIOUS
    <2>1. IsNormal(u) /\ Normalize(u) = NormalizeMT(u)
      BY Zenon DEF IsName, Normalize
    <2> QED
      BY <1>1, <2>1, PathStays, Zenon
  <1>4. PageOf(Normalize(u)) = PageOf(u)
    BY <1>1, <1>2, <1>3, PageKept, Zenon
  <1> QED
    BY <1>1, <1>3, <1>4, Zenon DEF IsOf

\* What depends on the case and the program alone.
LEMMA SameCase ==
  ASSUME UNCHANGED <<case, program>>
  PROVE  /\ MT' = MT /\ seed' = seed /\ Home' = Home /\ PageLinks' = PageLinks /\ MaxRuns' = MaxRuns
         /\ \A u : Normalize(u)' = Normalize(u) /\ Again(u)' = Again(u)
         /\ \A u : Unusual(u)' <=> Unusual(u)
  <1>1. MT' = MT
    BY DEF MT
  <1>2. seed' = seed /\ first' = first /\ MaxRuns' = MaxRuns
    BY DEF seed, first, MaxRuns
  <1>3. \A u : Normalize(u)' = Normalize(u)
    BY <1>1, Zenon DEF Normalize
  <1>4. Home' = Home
    BY <1>2, <1>1, Zenon DEF Home, Normalize
  <1>5. PageLinks' = PageLinks
    BY <1>2, Zenon DEF PageLinks
  <1>6. \A u : Again(u)' = Again(u)
    BY SMT DEF Again, Normalize, MT, MaxRuns
  <1>7. \A u : Unusual(u)' <=> Unusual(u)
    BY <1>1, <1>3, Zenon DEF Unusual
  <1> QED
    BY <1>1, <1>2, <1>3, <1>4, <1>5, <1>6, <1>7

\* What was read stays read when there are more runs.
LEMMA ReadStays ==
  ASSUME Typed, UNCHANGED <<case, program>>, runs' \in {runs, runs + 1}
  PROVE  \A u, t : IsRead(u, t) => IsRead(u, t)'
  <1> SUFFICES ASSUME NEW u, NEW t, IsRead(u, t) PROVE IsRead(u, t)'
    OBVIOUS
  <1>1. PICK n \in 1..runs : u = Again(t)[n]
    BY Zenon DEF IsRead
  <1>2. runs \in Nat
    BY PageFlowAssumption DEF MaxRuns, Typed, TypeOK
  <1>3. n \in 1..runs'
    BY <1>2
  <1>4. Again(t)' = Again(t)
    BY SameCase, Zenon
  <1> QED
    BY <1>1, <1>3, <1>4, Zenon DEF IsRead

\* What came of a seed or a link has come of it.
LEMMA ComesStays ==
  ASSUME Typed, UNCHANGED <<case, program>>, runs' \in {runs, runs + 1}
  PROVE  /\ \A u, t : IsOf(u, t) => IsOf(u, t)'
         /\ \A u : Comes(u) => Comes(u)'
  <1>1. MT' = MT /\ seed' = seed /\ Home' = Home /\ PageLinks' = PageLinks
        /\ \A u : Unusual(u)' <=> Unusual(u)
    BY SameCase, Zenon
  <1>2. \A u, t : IsOf(u, t) => IsOf(u, t)'
    BY <1>1, ReadStays, Zenon DEF IsOf
  <1>3. ASSUME NEW u, Comes(u) PROVE Comes(u)'
    <2>1. CASE IsOf(u, seed)
      BY <1>1, <1>2, <2>1, Zenon DEF Comes
    <2>2. CASE \E link \in PageLinks : IF Misread(link, Home) THEN IsRead(u, Resolve(link, Home))
                                       ELSE IsOf(u, Target(link, Home))
      <3>1. PICK link \in PageLinks : IF Misread(link, Home) THEN IsRead(u, Resolve(link, Home))
                                      ELSE IsOf(u, Target(link, Home))
        BY <2>2
      <3>2. IF Misread(link, Home) THEN IsRead(u, Resolve(link, Home))' ELSE IsOf(u, Target(link, Home))'
        <4>1. CASE Misread(link, Home)
          <5>1. IsRead(u, Resolve(link, Home))
            BY <3>1, <4>1, Zenon
          <5> QED
            BY <1>1, <4>1, <5>1, ReadStays, Zenon
        <4>2. CASE ~Misread(link, Home)
          <5>1. IsOf(u, Target(link, Home))
            BY <3>1, <4>2, Zenon
          <5> QED
            BY <1>1, <1>2, <4>2, <5>1, Zenon
        <4> QED
          BY <4>1, <4>2, Zenon
      <3> QED
        BY <1>1, <3>2, Zenon DEF Comes
    <2> QED
      BY <1>3, <2>1, <2>2, Zenon DEF Comes
  <1> QED
    BY <1>2, <1>3

\* The URL of the page is a normal form.
LEMMA HomeForm ==
  ASSUME Typed, Admitted({seed}) # {}
  PROVE  /\ Home \in Seq(Word) /\ seed \in Seq(Word)
         /\ \E s, h, r : IsForm(s, h, r) /\ Home = Whole(s, h, r)
  <1>1. seed \in Seq(Word)
    BY PageFlowAssumption DEF Typed, seed
  <1>2. Home \in Admitted({seed})
    BY Zenon DEF Admitted, Home
  <1>3. IsName(Home)
    <2>1. {seed} \subseteq Seq(Word)
      BY <1>1
    <2> QED
      BY <1>2, <2>1, AdmittedNames, Zenon
  <1> QED
    BY <1>1, <1>3, Zenon DEF IsName, IsNormal, IsPlain

\* The links of a page are sequences of tokens.
LEMMA PageLinksTyped == ASSUME Typed PROVE PageLinks \subseteq Seq(Word)
  <1>1. first \in Node /\ Later \in Node
    BY PageFlowAssumption DEF first, Typed
  <1>2. HrefsOf[first] \in Seq(Seq(Word)) /\ HrefsOf[Later] \in Seq(Seq(Word))
    BY <1>1, LinksTyped, Zenon
  <1>3. \A s \in Seq(Seq(Word)) : ToSet(s) \subseteq Seq(Word)
    BY DEF ToSet
  <1> QED
    BY <1>2, <1>3, Zenon DEF PageLinks

\* A link of the page is resolved to the URL that it means.
LEMMA HomeLinks ==
  ASSUME Typed, Admitted({seed}) # {}, NEW link \in Seq(Word), ~Misread(link, Home)
  PROVE  Resolve(link, Home) = Target(link, Home)
  <1>1. PICK s, h, r : IsForm(s, h, r) /\ Home = Whole(s, h, r)
    BY HomeForm, Zenon
  <1>2. ~Misread(link, Whole(s, h, r))
    BY <1>1, Zenon
  <1>3. Resolve(link, Whole(s, h, r)) = Target(link, Whole(s, h, r))
    BY <1>1, <1>2, ResolveMeant, Zenon
  <1> QED
    BY <1>1, <1>3, Zenon

\* A URL that a frontier is given for a seed or a link comes of it.
LEMMA ComesFirst ==
  ASSUME Typed, Admitted({seed}) # {}, runs # 0
  PROVE  /\ Normalize(seed) # NoUrl => Comes(Normalize(seed))
         /\ \A link \in PageLinks : Normalize(Resolve(link, Home)) # NoUrl
                                       => Comes(Normalize(Resolve(link, Home)))
  <1>1. seed \in Seq(Word) /\ Home \in Seq(Word)
    BY HomeForm
  <1>2. Normalize(seed) # NoUrl => Comes(Normalize(seed))
    BY <1>1, FirstOfName, Zenon DEF Comes
  <1>3. ASSUME NEW link \in PageLinks, Normalize(Resolve(link, Home)) # NoUrl
        PROVE  Comes(Normalize(Resolve(link, Home)))
    <2> DEFINE t == Resolve(link, Home)
    <2>1. link \in Seq(Word) /\ t \in Seq(Word)
      BY <1>1, PageLinksTyped, ResolveTyped
    <2>2. CASE Misread(link, Home)
      BY <2>1, <2>2, ReadOnce, Zenon DEF Comes
    <2>3. CASE ~Misread(link, Home)
      <3>1. t = Target(link, Home)
        BY <2>1, <2>3, HomeLinks, Zenon
      <3>2. IsOf(Normalize(t), t)
        BY <1>3, <2>1, FirstOfName, Zenon
      <3>3. IsOf(Normalize(t), Target(link, Home))
        BY <3>1, <3>2, Zenon
      <3> QED
        BY <2>3, <3>3, Zenon DEF Comes
    <2> QED
      BY <2>2, <2>3
  <1> QED
    BY <1>2, <1>3

\* What was read and is loaded again is read once more.
LEMMA ReadAgain ==
  ASSUME Typed, UNCHANGED <<case, program>>, runs' = runs + 1, runs < MaxRuns,
         NEW u, NEW t \in Seq(Word), IsRead(u, t)
  PROVE  IsRead(Normalize(u), t)'
  <1>1. PICK n \in 1..runs : u = Again(t)[n]
    BY Zenon DEF IsRead
  <1>2. runs \in Nat /\ MaxRuns \in Nat
    BY PageFlowAssumption DEF MaxRuns, Typed, TypeOK
  <1> DEFINE m == n + 1
  <1>3. m \in 1..runs' /\ m \in 1..MaxRuns /\ m - 1 = n
    BY <1>2
  <1> HIDE DEF m
  <1>4. Again(t)[m] = Normalize(Again(t)[m - 1])
    BY <1>3, AgainSays, Zenon
  <1>5. Again(t)[m] = Normalize(u)
    BY <1>1, <1>3, <1>4, Zenon
  <1>6. Again(t)' = Again(t) /\ Normalize(u)' = Normalize(u)
    BY SameCase, Zenon
  <1> QED
    BY <1>3, <1>5, <1>6, Zenon DEF IsRead

\* What came of a seed or a link comes of it when it is loaded again.
LEMMA ComesAgain ==
  ASSUME Typed, Admitted({seed}) # {}, UNCHANGED <<case, program>>, runs' = runs + 1, runs < MaxRuns,
         NEW u, IsName(u), Comes(u), Normalize(u) # NoUrl
  PROVE  Comes(Normalize(u))'
  <1>1. /\ seed' = seed /\ Home' = Home /\ PageLinks' = PageLinks
        /\ Normalize(u)' = Normalize(u) /\ \A t : Unusual(t)' <=> Unusual(t)
    BY SameCase, Zenon
  <1>2. seed \in Seq(Word) /\ Home \in Seq(Word)
    BY HomeForm
  <1>3. ASSUME NEW name \in Seq(Word), IsOf(u, name) PROVE IsOf(Normalize(u), name)'
    <2>1. CASE Unusual(name)
      <3>1. IsRead(Normalize(u), name)'
        BY <1>3, <2>1, ReadAgain, Zenon DEF IsOf
      <3> QED
        BY <1>1, <2>1, <3>1, Zenon DEF IsOf
    <2>2. CASE ~Unusual(name)
      <3>1. IsOf(Normalize(u), name)
        BY <1>3, <2>2, NextOfName, Zenon
      <3>2. \A v : IsOf(v, name) => IsOf(v, name)'
        BY ComesStays, Zenon
      <3> QED
        BY <1>1, <3>1, <3>2, Zenon DEF IsOf
    <2> QED
      BY <2>1, <2>2
  <1>4. CASE IsOf(u, seed)
    <2>1. IsOf(Normalize(u), seed)'
      BY <1>1, <1>2, <1>3, <1>4, Zenon
    <2> QED
      BY <1>1, <2>1, Zenon DEF Comes
  <1>5. CASE \E link \in PageLinks : IF Misread(link, Home) THEN IsRead(u, Resolve(link, Home))
                                     ELSE IsOf(u, Target(link, Home))
    <2>1. PICK link \in PageLinks : IF Misread(link, Home) THEN IsRead(u, Resolve(link, Home))
                                    ELSE IsOf(u, Target(link, Home))
      BY <1>5
    <2>2. link \in Seq(Word) /\ Resolve(link, Home) \in Seq(Word)
      BY <1>2, PageLinksTyped, ResolveTyped
    <2>3. CASE Misread(link, Home)
      <3>1. IsRead(Normalize(u), Resolve(link, Home))'
        BY <1>1, <2>1, <2>2, <2>3, ReadAgain, Zenon
      <3> QED
        BY <1>1, <2>3, <3>1, Zenon DEF Comes
    <2>4. CASE ~Misread(link, Home)
      <3>1. Target(link, Home) \in Seq(Word)
        <4>1. Resolve(link, Home) = Target(link, Home)
          BY <2>2, <2>4, HomeLinks, Zenon
        <4> QED
          BY <2>2, <4>1, Zenon
      <3>2. IsOf(Normalize(u), Target(link, Home))'
        BY <1>1, <1>3, <2>1, <2>4, <3>1, Zenon
      <3> QED
        BY <1>1, <2>4, <3>2, Zenon DEF Comes
    <2> QED
      BY <2>3, <2>4
  <1> QED
    BY <1>4, <1>5, Zenon DEF Comes

\* With each start the seed is added.
LEMMA SeedAgain ==
  ASSUME Typed, Admitted({seed}) # {}, UNCHANGED <<case, program>>, runs' = runs + 1, runs < MaxRuns,
         Normalize(seed) # NoUrl
  PROVE  Comes(Normalize(seed))'
  <1>1. /\ seed' = seed /\ Normalize(seed)' = Normalize(seed)
        /\ \A t : Unusual(t)' <=> Unusual(t)
    BY SameCase, Zenon
  <1>2. seed \in Seq(Word)
    BY HomeForm
  <1>3. CASE Unusual(seed)
    <2>1. runs \in Nat /\ MaxRuns \in Nat
      BY PageFlowAssumption DEF MaxRuns, Typed, TypeOK
    <2>2. 1 \in 1..runs' /\ 1 \in 1..MaxRuns /\ 1 - 1 = 0
      BY <2>1
    <2>3. Again(seed)[1] = Normalize(Again(seed)[1 - 1]) /\ Again(seed)[0] = seed
      BY <1>2, <2>2, AgainSays, Zenon
    <2>4. Again(seed)[1] = Normalize(seed)
      BY <2>2, <2>3
    <2>5. Again(seed)' = Again(seed)
      <3>1. \A u : Again(u)' = Again(u)
        BY SameCase, Zenon
      <3> QED
        BY <1>1, <3>1 DEF seed
    <2> QED
      BY <1>1, <1>3, <2>2, <2>4, <2>5, Zenon DEF Comes, IsOf, IsRead
  <1>4. CASE ~Unusual(seed)
    <2>1. IsOf(Normalize(seed), seed)
      <3>1. Resource(seed).port \in DOMAIN NumberOf /\ (MT => ~NoPath(Normalize(seed)))
        BY <1>4, Zenon DEF Unusual
      <3> QED
        BY <1>2, <1>4, <3>1, PageKept, Zenon DEF IsOf
    <2>2. Comes(Normalize(seed))
      BY <2>1, Zenon DEF Comes
    <2> QED
      BY <1>1, <2>2, ComesStays, Zenon
  <1> QED
    BY <1>3, <1>4

\* Initially nothing has come of anything.
LEMMA InitMeant == Init => Meant
  BY DEF Init, Meant

\* The links that either crawler reads from what it has fetched are links of the page.
LEMMA LinksAreOfPage ==
  ASSUME Typed, StoreGives
  PROVE  /\ ToSet(LinksOf[HtmlOf(content)]) \subseteq PageLinks
         /\ ToSet(HrefsOf[HtmlOf(content)]) \subseteq PageLinks
  <1>1. first \in Node /\ Later \in Node /\ Nothing \in Node
    BY PageFlowAssumption DEF first, Typed
  <1>2. HrefsOf[Nothing] = <<>>
    <2>1. HrefsOf[Nothing] = OwnHref(Nothing) \o FlattenSeq([i \in DOMAIN Nothing.children |-> HrefsOf[Nothing.children[i]]])
      BY <1>1, LinksCollect, Zenon DEF Collects, OwnHrefs
    <2>2. OwnHref(Nothing) = <<>>
      BY DEF OwnHref, Nothing
    <2>3. [i \in DOMAIN Nothing.children |-> HrefsOf[Nothing.children[i]]] = <<>>
      <3>1. Nothing.children = <<>> /\ DOMAIN <<>> = {}
        BY DEF Nothing
      <3> QED
        BY <3>1
    <2>4. FlattenSeq(<<>>) = <<>>
      BY DEF FlattenSeq
    <2> QED
      BY <2>1, <2>2, <2>3, <2>4
  <1>3. ToSet(HrefsOf[Nothing]) = {}
    BY <1>2 DEF ToSet
  <1>4. HtmlOf(content) \in {first, Later, Nothing}
    <2>1. content \in {<<>>, <<"first">>, <<"later">>}
      BY DEF StoreGives, Contents
    <2>2. <<>> # <<"listing">> /\ <<"first">> # <<"listing">> /\ <<"later">> # <<"listing">>
      OBVIOUS
    <2> QED
      BY <2>1, <2>2 DEF HtmlOf
  <1>5. ToSet(HrefsOf[HtmlOf(content)]) \subseteq PageLinks
    BY <1>3, <1>4, Zenon DEF PageLinks
  <1>6. ToSet(LinksOf[HtmlOf(content)]) \subseteq ToSet(HrefsOf[HtmlOf(content)])
    BY <1>1, <1>4, LinksWithin, Zenon
  <1> QED
    BY <1>5, <1>6

\* Every step keeps what the URLs mean.
LEMMA NextMeant == ReachInv /\ Named /\ Meant /\ [Next]_vars => Meant'
  <1> SUFFICES ASSUME ReachInv, Named, Meant, [Next]_vars PROVE Meant'
    OBVIOUS
  <1>1. Typed /\ Typed' /\ StoreGives
    BY NextTyped DEF ReachInv
  <1>2. UNCHANGED <<case, program>>
    BY DEF Next, vars, web, Start, Take, Fetch, FetchFails, StoreContent, RecordPage, AddLinks, Stop, Crash,
           SiteChanges, Index
  <1>3. /\ Home' = Home /\ PageLinks' = PageLinks /\ seed' = seed
        /\ Admitted({seed})' = Admitted({seed})
    <2>1. /\ Home' = Home /\ PageLinks' = PageLinks /\ seed' = seed
      BY <1>2, SameCase
    <2>2. Admitted({seed})' = Admitted({seed})
      BY <1>2 DEF Admitted, seed, Normalize, DomainOf, MT
    <2> QED
      BY <2>1, <2>2
  <1>4. ASSUME runs' \in {runs, runs + 1} PROVE \A u \in seen \cup saved : Comes(u)'
    BY <1>1, <1>2, <1>4, ComesStays, Zenon DEF Meant
  <1>5. queue \subseteq seen
    BY <1>1 DEF Typed, TypeOK
  <1>6. CASE Start
    <2>1. /\ runs' = runs + 1 /\ runs < MaxRuns /\ Admitted({seed}) # {} /\ runs \in Nat
          /\ seen' = Admitted(saved \cup {seed}) /\ saved' = {} /\ pc' = "loop"
      <3>1. runs \in Nat
        BY <1>1, PageFlowAssumption DEF Typed, TypeOK, MaxRuns
      <3> QED
        BY <1>6, <3>1, Zenon DEF Start
    <2>2. ASSUME NEW u \in seen' PROVE Comes(u)'
      <3> DEFINE U == saved \cup {seed}
      <3>0. u \in Admitted(U)
        BY <2>1, <2>2
      <3> HIDE DEF U
      <3>1. PICK t \in U : u = Normalize(t) /\ Normalize(t) # NoUrl
        BY <3>0, Zenon DEF Admitted
      <3> USE DEF U
      <3>2. CASE t \in saved
        <4>1. IsName(t) /\ Comes(t)
          BY <3>2 DEF Named, Meant
        <4>2. Comes(Normalize(t))'
          BY <1>1, <1>2, <2>1, <3>1, <4>1, ComesAgain, Zenon
        <4> QED
          BY <1>2, <3>1, <4>2, SameCase, Zenon
      <3>3. CASE t = seed
        <4>1. Comes(Normalize(seed))'
          BY <1>1, <1>2, <2>1, <3>1, <3>3, SeedAgain, Zenon
        <4> QED
          BY <1>2, <1>3, <3>1, <3>3, <4>1, SameCase, Zenon
      <3> QED
        BY <3>1, <3>2, <3>3
    <2>3. runs' # 0
      BY <2>1
    <2> QED
      BY <1>3, <2>1, <2>2, <2>3 DEF Meant
  <1>7. CASE AddLinks
    <2> DEFINE resolved == {Resolve(link, url) : link \in ToSet(links)}
               U == {link \in resolved : MT => IsAcceptable(link)}
    <2>1. /\ seen' = seen \cup Admitted(U) /\ UNCHANGED <<saved, runs>> /\ pc' = "loop" /\ pc = "links"
      BY <1>7, Zenon DEF AddLinks, Add, NextUrl
    <2>2. ASSUME NEW u \in Admitted(U) PROVE Comes(u)
      <3>1. PICK t \in U : u = Normalize(t) /\ Normalize(t) # NoUrl
        BY <2>2, Zenon DEF Admitted
      <3>2. PICK link \in ToSet(links) : t = Resolve(link, url)
        BY <3>1
      <3>3. url = Home /\ link \in PageLinks /\ runs # 0 /\ Admitted({seed}) # {}
        BY <2>1, <3>2 DEF Meant
      <3> HIDE DEF U
      <3> QED
        BY <1>1, <3>1, <3>2, <3>3, ComesFirst, Zenon
    <2> HIDE DEF U
    <2>3. \A u \in seen' \cup saved' : Comes(u)'
      <3>1. \A u \in seen \cup saved \cup Admitted(U) : Comes(u)
        BY <2>2 DEF Meant
      <3>2. \A u : Comes(u) => Comes(u)'
        BY <1>1, <1>2, <2>1, ComesStays
      <3> QED
        BY <2>1, <3>1, <3>2
    <2> QED
      BY <1>3, <2>1, <2>3 DEF Meant
  <1>8. CASE Stop \/ Crash
    <2>1. seen' = {} /\ saved' \subseteq saved \cup queue /\ runs' = runs /\ pc' = "off"
      BY <1>8 DEF Stop, Crash, End
    <2> QED
      BY <1>3, <1>4, <1>5, <2>1 DEF Meant
  <1>9. CASE RecordPage
    <2>1. /\ UNCHANGED <<seen, saved, runs>> /\ pc = "record"
          /\ pc' = "loop" \/ (pc' = "links" /\ url' = url
                              /\ links' \in {LinksOf[HtmlOf(content)], HrefsOf[HtmlOf(content)]})
      BY <1>9 DEF RecordPage, ReadLinks, NextUrl
    <2>2. pc' = "links" => ToSet(links)' \subseteq PageLinks
      BY <1>1, <2>1, LinksAreOfPage
    <2> QED
      BY <1>3, <1>4, <2>1, <2>2 DEF Meant
  <1>10. CASE Take \/ Fetch \/ FetchFails \/ StoreContent \/ SiteChanges \/ Index \/ UNCHANGED vars
    <2>1. UNCHANGED <<seen, saved, runs>>
      BY <1>10 DEF Take, Fetch, FetchFails, StoreContent, SiteChanges, Index, vars, crawler
    <2>2. pc # "off" \/ pc' = pc
      BY <1>10 DEF Take, Fetch, FetchFails, StoreContent, SiteChanges, Index, vars, crawler
    <2>3. pc' = "links" => pc = "links" /\ UNCHANGED <<url, links>>
      BY <1>10 DEF Take, Fetch, FetchFails, StoreContent, SiteChanges, Index, vars, crawler, NextUrl
    <2>4. pc' \in {"store", "record"} => url' = Home
      BY <1>10 DEF Meant, Take, Fetch, FetchFails, StoreContent, SiteChanges, Index, vars, crawler, NextUrl
    <2> QED
      BY <1>3, <1>4, <2>1, <2>2, <2>3, <2>4 DEF Meant
  <1> QED
    BY <1>6, <1>7, <1>8, <1>9, <1>10 DEF Next

\* Every URL of the frontier is that of a page that a seed or a link names.
THEOREM QueuedMeant == Spec => []QueuedIsMeant
  <1>1. Meant => QueuedIsMeant
    <2> SUFFICES ASSUME Meant, NEW u \in seen PROVE IsMeant(u, Home)
      BY DEF QueuedIsMeant
    <2>1. \A t : IsOf(u, t) => Means(u, t)
      BY Zenon DEF IsOf, Means
    <2>2. Comes(u)
      BY DEF Meant
    <2> QED
      BY <2>1, <2>2, Zenon DEF Comes, IsMeant
  <1> QED
    BY InitReach, NextTyped, StoreGivesKept, ReachesKept, InitNamed, NextNamed, InitMeant, NextMeant, <1>1,
       PTL DEF Spec, ReachInv

\* There are links only while they are added.
LinksHeld == pc # "links" => links = <<>>

\* Every step keeps that.
LEMMA NextHeld == LinksHeld /\ [Next]_vars => LinksHeld'
  <1> SUFFICES ASSUME LinksHeld, [Next]_vars PROVE LinksHeld'
    OBVIOUS
  <1>1. CASE Start
    BY <1>1 DEF Start, LinksHeld
  <1>2. CASE Take
    BY <1>2 DEF Take, LinksHeld
  <1>3. CASE Fetch
    BY <1>3 DEF Fetch, LinksHeld
  <1>4. CASE FetchFails
    BY <1>4 DEF FetchFails, NextUrl, LinksHeld
  <1>5. CASE StoreContent
    BY <1>5 DEF StoreContent, NextUrl, LinksHeld
  <1>6. CASE RecordPage
    BY <1>6 DEF RecordPage, NextUrl, ReadLinks, LinksHeld
  <1>7. CASE AddLinks
    BY <1>7 DEF AddLinks, NextUrl, LinksHeld
  <1>8. CASE Stop \/ Crash
    BY <1>8 DEF Stop, Crash, End, LinksHeld
  <1>9. CASE SiteChanges \/ Index \/ UNCHANGED vars
    <2>1. UNCHANGED crawler
      BY <1>9 DEF SiteChanges, Index, vars
    <2> QED
      BY <2>1 DEF crawler, LinksHeld
  <1> QED
    BY <1>1, <1>2, <1>3, <1>4, <1>5, <1>6, <1>7, <1>8, <1>9 DEF Next

\* The filter judges a link as the URL that is made of it, but for those that the property
\* names.
THEOREM JudgedAlike == Spec => []FilteredAlike
  <1>1. Init => LinksHeld
    BY DEF Init, LinksHeld
  <1>2. Typed /\ Meant /\ LinksHeld => FilteredAlike
    <2> SUFFICES ASSUME Typed, Meant, LinksHeld, MT, NEW i \in DOMAIN links
                 PROVE  LET link == Resolve(links[i], url)
                        IN \/ IsAcceptable(link) = IsAcceptable(NormalizeMT(link))
                           \/ Len(link) >= MaxUrlLength \/ Contains(link, "#") \/ Last(link) = "/"
                           \/ First(link, {"/"}, SchemeEnd(link) + 3) > Len(link) /\ HasBadExtension(link)
                           \/ SoughtInHost(link) \/ SoughtInHost(NormalizeMT(link))
      BY DEF FilteredAlike
    <2> DEFINE link == Resolve(links[i], url)
    <2>1. pc = "links"
      <3>1. links = <<>> => DOMAIN links = {}
        OBVIOUS
      <3> QED
        BY <3>1 DEF LinksHeld
    <2>2. url = Home /\ links[i] \in PageLinks /\ Admitted({seed}) # {}
      BY <2>1 DEF Meant, ToSet
    <2>3. links[i] \in Seq(Word)
      BY <2>2, PageLinksTyped
    <2>4. PICK s, h, r : IsForm(s, h, r) /\ Home = Whole(s, h, r)
      BY <2>2, HomeForm, Zenon
    <2>5. HasHttp(link)
      BY <2>2, <2>3, <2>4, ResolvedHttp
    <2>6. link \in Seq(Word)
      BY <2>2, <2>3, HomeForm, ResolveTyped
    <2> HIDE DEF link
    <2>7. Len(link) \in Nat /\ MaxUrlLength \in Nat
      <3>1. MaxUrlLength \in Nat
        BY UrlsAssumption
      <3> QED
        BY <2>6, <3>1
    <2>8. \/ IsAcceptable(link) <=> IsAcceptable(NormalizeMT(link))
          \/ ~(Len(link) < MaxUrlLength) \/ Contains(link, "#") \/ Last(link) = "/"
          \/ First(link, {"/"}, SchemeEnd(link) + 3) > Len(link) /\ HasBadExtension(link)
          \/ SoughtInHost(link) \/ SoughtInHost(NormalizeMT(link))
      BY <2>5, <2>6, FilterAgrees, Zenon
    <2>9. IsAcceptable(link) \in BOOLEAN /\ IsAcceptable(NormalizeMT(link)) \in BOOLEAN
      BY Zenon DEF IsAcceptable
    <2> QED
      BY <2>7, <2>8, <2>9 DEF link
  <1> QED
    BY InitReach, NextTyped, StoreGivesKept, ReachesKept, InitNamed, NextNamed, InitMeant, NextMeant, NextHeld,
       <1>1, <1>2, PTL DEF Spec, ReachInv

-----------------------------------------------------------------------------
(* What the index shows of a page.                                         *)

\* The text, title and description of a record are those of one version of the page, or of
\* the list of the bucket: the part of RecordIsOnePage that is not about dates.
RecordsShowPages ==
  \A u \in DOMAIN records : \E html \in {first, Later, Listing} : ShowsPage(records[u], html)

\* A row that has a key of its own has that of a content that is not empty.
KeysNamed ==
  \A u \in DOMAIN rows : rows[u].key # EmptyKey => \E c \in Contents \ {<<>>} : rows[u].key = KeyOf(c)

\* A document of a page shows it.
LEMMA DocumentShows ==
  ASSUME NEW u, NEW html \in Node
  PROVE  ShowsPage(Document(u, html), html)
  <1>1. /\ Document(u, html).text = TextOf[html] /\ Document(u, html).title = TitleOf(html)
        /\ Document(u, html).description = FirstOf(MetaOf(html), <<"description">>)
    BY DEF Document, ParseHtml
  <1> QED
    BY <1>1, TextVisible DEF ShowsPage

\* Initially there are no rows and no records.
LEMMA InitShown == Init => KeysNamed /\ RecordsShowPages
  BY DEF Init, KeysNamed, RecordsShowPages

\* Every step leaves the keys of contents in the rows.
LEMMA KeysNamedKept == ReachInv /\ KeysNamed /\ [Next]_vars => KeysNamed'
  <1> SUFFICES ASSUME ReachInv, KeysNamed, [Next]_vars PROVE KeysNamed'
    OBVIOUS
  <1>1. Typed /\ content \in Contents
    BY DEF ReachInv, StoreGives
  <1>2. CASE UNCHANGED rows
    BY <1>2 DEF KeysNamed, EmptyKey, KeyOf, Contents
  <1>3. ASSUME NEW status \in {"0", "200"}, Record(status), MT /\ status = "200" => content # <<>>
        PROVE  KeysNamed'
    <2>1. /\ DOMAIN rows' = DOMAIN rows \cup {url} /\ rows'[url] = Row(status)
          /\ \A u \in DOMAIN rows : u # url => rows'[u] = rows[u]
      BY <1>1, <1>3, RecordType
    <2>2. Row(status).key = IF MT /\ status = "200" THEN ContentKey ELSE EmptyKey
      BY DEF Row
    <2>3. MT => ContentKey = KeyOf(content)
      BY DEF ContentKey, KeyOf
    <2>4. rows'[url].key # EmptyKey => \E c \in Contents \ {<<>>} : rows'[url].key = KeyOf(c)
      BY <1>1, <1>3, <2>1, <2>2, <2>3
    <2>5. \A u \in DOMAIN rows' : rows'[u].key # EmptyKey => \E c \in Contents \ {<<>>} : rows'[u].key = KeyOf(c)
      BY <2>1, <2>4 DEF KeysNamed
    <2> QED
      BY <2>5 DEF KeysNamed, EmptyKey, KeyOf, Contents
  <1>4. CASE FetchFails
    <2>1. UNCHANGED rows \/ Record("0")
      BY <1>4 DEF FetchFails
    <2> QED
      BY <1>2, <1>3, <2>1
  <1>5. CASE RecordPage
    <2>1. UNCHANGED rows \/ Record("200")
      BY <1>5 DEF RecordPage
    <2>2. MT => content # <<>>
      BY <1>1, <1>5 DEF RecordPage, Typed
    <2> QED
      BY <1>2, <1>3, <2>1, <2>2
  <1>6. CASE Index
    <2>1. PICK v \in DOMAIN rows : rows' = [rows EXCEPT ![v].indexed = TRUE]
      BY <1>6 DEF Index
    <2>2. DOMAIN rows' = DOMAIN rows /\ \A u \in DOMAIN rows : rows'[u].key = rows[u].key
      <3>1. ASSUME NEW u \in DOMAIN rows PROVE rows'[u].key = rows[u].key
        <4>1. CASE u # v
          BY <2>1, <4>1
        <4>2. CASE u = v
          <5>1. rows'[v] = [rows[v] EXCEPT !.indexed = TRUE] /\ IsRow(rows[v])
            BY <1>1, <2>1 DEF Typed
          <5> QED
            BY <4>2, <5>1 DEF IsRow
        <4> QED
          BY <4>1, <4>2
      <3> QED
        BY <2>1, <3>1
    <2> QED
      BY <2>2 DEF KeysNamed, EmptyKey, KeyOf, Contents
  <1>7. CASE Start \/ Take \/ Fetch \/ StoreContent \/ AddLinks \/ Stop \/ Crash \/ SiteChanges \/ UNCHANGED vars
    <2>1. UNCHANGED rows
      BY <1>7 DEF Start, Take, Fetch, StoreContent, AddLinks, Stop, Crash, SiteChanges, vars
    <2> QED
      BY <1>2, <2>1
  <1> QED
    BY <1>4, <1>5, <1>6, <1>7 DEF Next

\* Every step leaves records of pages in the index.
LEMMA ShownKept == ReachInv /\ KeysNamed /\ RecordsShowPages /\ [Next]_vars => RecordsShowPages'
  <1> SUFFICES ASSUME ReachInv, KeysNamed, RecordsShowPages, [Next]_vars PROVE RecordsShowPages'
    OBVIOUS
  <1>1. Typed /\ StoreGives
    BY DEF ReachInv
  <1>2. first' = first /\ \A r, html : ShowsPage(r, html)' <=> ShowsPage(r, html)
    <2>1. case' = case
      BY DEF Next, vars, web, Start, Take, Fetch, FetchFails, StoreContent, RecordPage, AddLinks, Stop, Crash,
             SiteChanges, Index
    <2> QED
      BY <2>1 DEF first, ShowsPage
  <1>3. CASE Index
    <2>1. PICK u \in DOMAIN rows :
            \E got \in Gets(rows[u].key) :
              records' = IF got = {} THEN records ELSE Put(records, u, Document(u, HtmlOf(CHOOSE c \in got : TRUE)))
      BY <1>3 DEF Index
    <2>2. PICK got \in Gets(rows[u].key) :
            records' = IF got = {} THEN records ELSE Put(records, u, Document(u, HtmlOf(CHOOSE c \in got : TRUE)))
      BY <2>1
    <2>3. CASE got = {}
      BY <1>2, <2>2, <2>3 DEF RecordsShowPages
    <2>4. CASE got # {}
      <3> DEFINE d == CHOOSE c \in got : TRUE
      <3>1. \E c : got = {c} /\ (c = <<"listing">> \/ c \in Contents \ {<<>>})
        <4>1. CASE rows[u].key = EmptyKey
          BY <2>2, <2>4, <4>1 DEF Gets
        <4>2. CASE rows[u].key # EmptyKey
          <5>1. PICK c \in Contents \ {<<>>} : rows[u].key = KeyOf(c)
            BY <4>2 DEF KeysNamed
          <5>2. KeyOf(c) \in DOMAIN store
            BY <1>1, <4>2, <5>1 DEF Typed, TypeOK
          <5>3. Gets(KeyOf(c)) = {{c}}
            BY <1>1, <5>1, <5>2, GetsContent
          <5> QED
            BY <2>2, <5>1, <5>3
        <4> QED
          BY <4>1, <4>2
      <3>2. d = <<"listing">> \/ d \in Contents \ {<<>>}
        BY <3>1
      <3>3. HtmlOf(d) \in {first, Later, Listing}
        <4>1. d \in {<<"first">>, <<"later">>, <<"listing">>}
          BY <3>2 DEF Contents
        <4> HIDE DEF d
        <4> QED
          BY <4>1 DEF HtmlOf
      <3>4. first \in Node /\ Later \in Node /\ Listing \in Node
        BY <1>1, PageFlowAssumption DEF Typed, first
      <3> HIDE DEF d
      <3>5. ShowsPage(Document(u, HtmlOf(d)), HtmlOf(d))
        BY <3>3, <3>4, DocumentShows, Zenon
      <3>6. records' = Put(records, u, Document(u, HtmlOf(d)))
        BY <2>2, <2>4 DEF d
      <3>7. ASSUME NEW v \in DOMAIN records'
            PROVE  \E html \in {first, Later, Listing} : ShowsPage(records'[v], html)
        <4>1. CASE v = u
          <5>1. records'[v] = Document(u, HtmlOf(d))
            BY <3>6, <4>1 DEF Put
          <5> QED
            BY <3>3, <3>5, <5>1, Zenon
        <4>2. CASE v # u
          <5>1. v \in DOMAIN records /\ records'[v] = records[v]
            BY <3>6, <3>7, <4>2 DEF Put
          <5> QED
            BY <5>1, Zenon DEF RecordsShowPages
        <4> QED
          BY <4>1, <4>2
      <3> QED
        BY <1>2, <3>7, Zenon DEF RecordsShowPages
    <2> QED
      BY <2>3, <2>4
  <1>4. CASE \/ Start \/ Take \/ Fetch \/ FetchFails \/ StoreContent \/ RecordPage \/ AddLinks \/ Stop \/ Crash
             \/ SiteChanges \/ UNCHANGED vars
    <2>1. UNCHANGED records
      BY <1>4 DEF Start, Take, Fetch, FetchFails, StoreContent, RecordPage, AddLinks, Stop, Crash, SiteChanges, vars
    <2> QED
      BY <1>2, <2>1 DEF RecordsShowPages
  <1> QED
    BY <1>3, <1>4 DEF Next

\* What the index has of a page is the text that a reader of one version of it sees,
\* with the title and the description of that version.
THEOREM RecordsShown == Spec => []RecordsShowPages
  BY InitReach, NextTyped, StoreGivesKept, ReachesKept, InitShown, KeysNamedKept, ShownKept,
     PTL DEF Spec, ReachInv
=============================================================================
