----------------------------- MODULE QueryProofs -----------------------------
(***************************************************************************)
(* What TLAPS proves of Query, for any documents, stems, stop words and    *)
(* queries: what is shown obeys the query, nothing that it asks for is     *)
(* missed, and the pages show each match once, in order.                   *)
(***************************************************************************)
EXTENDS Query, Induction, FiniteSetTheorems, TLAPS

\* A sequence with one more element, and two sequences, have the elements of both.
LEMMA ToSetAppend ==
  ASSUME NEW S, NEW s \in Seq(S), NEW e \in S
  PROVE  ToSet(Append(s, e)) = ToSet(s) \cup {e}
  <1> DEFINE t == Append(s, e)
  <1>1. /\ t \in Seq(S) /\ Len(t) = Len(s) + 1 /\ t[Len(s) + 1] = e
        /\ \A i \in 1..Len(s) : t[i] = s[i]
    OBVIOUS
  <1>2. DOMAIN s = 1..Len(s) /\ DOMAIN t = (1..Len(s)) \cup {Len(s) + 1}
    OBVIOUS
  <1> HIDE DEF t
  <1>3. ToSet(t) = ToSet(s) \cup {e}
    BY <1>1, <1>2 DEF ToSet
  <1> QED
    BY <1>3 DEF t

\* The same of two sequences.
LEMMA ToSetConcat ==
  ASSUME NEW S, NEW s \in Seq(S), NEW t \in Seq(S)
  PROVE  ToSet(s \o t) = ToSet(s) \cup ToSet(t)
  <1> DEFINE c == s \o t
  <1>1. /\ c \in Seq(S) /\ Len(c) = Len(s) + Len(t) /\ Len(s) \in Nat /\ Len(t) \in Nat
        /\ \A i \in 1..Len(s) : c[i] = s[i]
        /\ \A i \in 1..Len(t) : c[Len(s) + i] = t[i]
    OBVIOUS
  <1>2. DOMAIN s = 1..Len(s) /\ DOMAIN t = 1..Len(t) /\ DOMAIN c = 1..Len(c)
    OBVIOUS
  <1> HIDE DEF c
  <1>3. ASSUME NEW x \in ToSet(c) PROVE x \in ToSet(s) \cup ToSet(t)
    <2>1. PICK i \in 1..Len(c) : c[i] = x
      BY <1>2 DEF ToSet
    <2>2. CASE i <= Len(s)
      BY <1>1, <1>2, <2>1, <2>2 DEF ToSet
    <2>3. CASE i > Len(s)
      <3>1. i - Len(s) \in 1..Len(t) /\ Len(s) + (i - Len(s)) = i
        BY <1>1, <2>3
      <3>2. t[i - Len(s)] = x
        BY <1>1, <2>1, <3>1
      <3> QED
        BY <1>2, <3>1, <3>2 DEF ToSet
    <2> QED
      BY <1>1, <2>2, <2>3
  <1>4. ASSUME NEW x \in ToSet(s) PROVE x \in ToSet(c)
    BY <1>1, <1>2 DEF ToSet
  <1>5. ASSUME NEW x \in ToSet(t) PROVE x \in ToSet(c)
    <2>1. PICK i \in 1..Len(t) : t[i] = x
      BY <1>2 DEF ToSet
    <2>2. Len(s) + i \in 1..Len(c) /\ c[Len(s) + i] = x
      BY <1>1, <2>1
    <2> QED
      BY <1>2, <2>2 DEF ToSet
  <1> QED
    BY <1>3, <1>4, <1>5 DEF c

\* The elements of a sequence are in the set that it is a sequence of.
LEMMA ToSetType ==
  ASSUME NEW S, NEW s \in Seq(S)
  PROVE  ToSet(s) \subseteq S
  BY DEF ToSet

-----------------------------------------------------------------------------
(* The index.                                                              *)

\* The tokenizer keeps the words that are not stop words, in their order.
LEMMA KeptSays ==
  ASSUME NEW text \in Seq(Word)
  PROVE  Kept(text) \in Seq(Word) /\ ToSet(Kept(text)) = ToSet(text) \ StopWord
  <1> DEFINE N == Len(text)
             D == Seq(Word)
             First == <<>>
             More(s, i) == IF text[i] \in StopWord THEN s ELSE Append(s, text[i])
             step == [x \in D \X (1..N) |-> More(x[1], x[2])]
             Equation(g) == g = [i \in 0..N |-> IF i = 0 THEN First
                                   ELSE IF text[i] \in StopWord THEN g[i - 1]
                                   ELSE Append(g[i - 1], text[i])]
             K == Keeping(text)
             Upto(k) == {text[j] : j \in 1..k} \ StopWord
             Z == {k \in 0..N : K[k] \in D /\ ToSet(K[k]) = Upto(k)}
  <1>1. N \in Nat /\ N \in 0..N /\ First \in D /\ \A i \in 1..N : text[i] \in Word
    OBVIOUS
  <1>2. \A s \in D, i \in 1..N : More(s, i) \in D /\ step[<<s, i>>] = More(s, i)
    OBVIOUS
  <1>3. step \in [D \X (1..N) -> D]
    BY <1>2
  <1>4. \A i \in 0..N : i # 0 => i \in 1..N /\ i - 1 \in 0..N
    BY <1>1
  <1>5. \A k \in 1..N : k \in 0..N /\ k # 0 /\ k - 1 \in 0..N
    BY <1>1
  <1> HIDE DEF N, D, step, First
  <1>6. PICK g : Recurs(g, N, D, First, step)
    <2>1. IsStep(step, N, D)
      BY <1>3 DEF IsStep
    <2> HIDE DEF Equation
    <2> QED
      BY <2>1, <1>1, RecursionExists
  <1>7. Equation(g)
    <2>1. \A i \in 0..N : i # 0 => g[i] = More(g[i - 1], i)
      BY <1>2, <1>4, <1>6 DEF Recurs
    <2>2. g = [i \in 0..N |-> g[i]]
      BY <1>6 DEF Recurs
    <2>3. \A i \in 0..N : g[i] = IF i = 0 THEN First
                                   ELSE IF text[i] \in StopWord THEN g[i - 1]
                                   ELSE Append(g[i - 1], text[i])
      BY <1>6, <2>1 DEF Recurs
    <2> QED
      BY <2>2, <2>3
  <1>8. Equation(K)
    BY <1>7, Zenon DEF Keeping, N, First
  <1> HIDE DEF K
  <1>9. K[0] = First /\ \A k \in 1..N : K[k] = More(K[k - 1], k)
    <2>1. \A i \in 0..N : K[i] = IF i = 0 THEN First
                                 ELSE IF text[i] \in StopWord THEN K[i - 1]
                                 ELSE Append(K[i - 1], text[i])
      BY <1>8, Zenon
    <2>2. 0 \in 0..N
      BY <1>1
    <2> QED
      BY <1>5, <2>1, <2>2, ZenonT(40)
  <1>10. 0 \in Z
    BY <1>1, <1>9 DEF ToSet, First
  <1>11. ASSUME NEW k \in 1..N, k - 1 \in Z PROVE k \in Z
    <2>1. /\ K[k - 1] \in D /\ ToSet(K[k - 1]) = Upto(k - 1) /\ text[k] \in Word
          /\ K[k] = More(K[k - 1], k) /\ k \in 0..N
      BY <1>1, <1>5, <1>9, <1>11
    <2>2. 1..k = (1..(k - 1)) \cup {k}
      BY <1>1
    <2>3. CASE text[k] \in StopWord
      BY <2>1, <2>2, <2>3
    <2>4. CASE text[k] \notin StopWord
      <3>1. ToSet(K[k]) = ToSet(K[k - 1]) \cup {text[k]}
        BY <2>1, <2>4, ToSetAppend DEF D
      <3>2. K[k] \in D
        BY <1>2, <2>1
      <3> QED
        BY <2>1, <2>2, <2>4, <3>1, <3>2
    <2> QED
      BY <2>3, <2>4
  <1> HIDE DEF Z
  <1>12. 0..N \subseteq Z
    BY <1>1, <1>10, <1>11, UpToInduction
  <1>13. K[N] \in D /\ ToSet(K[N]) = Upto(N)
    BY <1>1, <1>12 DEF Z
  <1>14. {text[j] : j \in 1..N} = ToSet(text)
    BY DEF ToSet, N
  <1> QED
    BY <1>13, <1>14 DEF Kept, K, N, D

IndexTyped == index \in [Doc -> Documents] /\ listed \in SUBSET Doc

\* A document's texts, domain and AI score.
LEMMA DocumentType ==
  ASSUME IndexTyped, NEW d \in Doc
  PROVE  /\ \A f \in Field : index[d].text[f] \in Seq(Word)
         /\ index[d].domain \in DOMAIN Parents /\ index[d].ai \in 0..10
  <1>1. index[d] \in Documents
    BY DEF IndexTyped
  <1> QED
    BY <1>1, QueryAssumption

\* A field has a term if it has a word with that stem that is not a stop word.
LEMMA FieldsWithTerm ==
  ASSUME IndexTyped, NEW d \in Doc, NEW t
  PROVE  FieldsWith(d, t) # {} <=> HasTerm(d, t)
  <1>1. ASSUME NEW f \in Field
        PROVE  t \in ToSet(Tokens(index[d].text[f]))
                 <=> \E v \in ToSet(index[d].text[f]) \ StopWord : Stem[v] = t
    <2> DEFINE text == index[d].text[f]
               kept == Kept(text)
    <2>1. kept \in Seq(Word) /\ ToSet(kept) = ToSet(text) \ StopWord
      BY DocumentType, KeptSays
    <2>2. Tokens(text) = [i \in DOMAIN kept |-> Stem[kept[i]]]
      BY DEF Tokens
    <2> HIDE DEF kept, text
    <2>3. ToSet(Tokens(text)) = {Stem[kept[i]] : i \in DOMAIN kept}
      BY <2>2 DEF ToSet
    <2>4. t \in ToSet(Tokens(text)) <=> \E v \in ToSet(kept) : Stem[v] = t
      BY <2>3 DEF ToSet
    <2> QED
      BY <2>1, <2>4 DEF text
  <1> QED
    BY <1>1 DEF FieldsWith, HasTerm

-----------------------------------------------------------------------------
(* The query parser.                                                       *)

\* What the parser makes of a query.
PQuery ==
  [terms : Seq(Word), phrases : Seq(Seq(Word)), excluded : Seq(Word),
   era : {NoFilter, "PRE_AI", "AI_ERA", "TRANSITION"}, site : DOMAIN Parents \cup {NoFilter},
   maxAi : 0..10, minAi : 0..10]

\* A token that becomes a term unless it is a stop word.
IsTerm(t) ==
  /\ t.kind = "word" \/ (t.kind = "era" /\ t.value \notin DOMAIN Eras)
  /\ t.value \notin StopWord

Kinds == {"word", "minus", "phrase", "era", "site", "max-ai", "min-ai"}

\* A token is its kind and a value that fits it.
LEMMA TokenType ==
  ASSUME NEW t \in Token
  PROVE  /\ t = [kind |-> t.kind, value |-> t.value] /\ t.kind \in Kinds
         /\ t.kind \in {"word", "minus"} => t.value \in Word
         /\ t.kind = "phrase" => t.value \in Seq(Word)
         /\ t.kind = "era" => t.value \in DOMAIN Eras \cup Word
         /\ t.kind = "site" => t.value \in DOMAIN Parents
         /\ t.kind \in {"max-ai", "min-ai"} => t.value \in 0..10
  <1> DEFINE E == DOMAIN Eras
  <1> HIDE DEF E
  <1>1. /\ Token = [kind : {"word", "minus"}, value : Word] \cup [kind : {"phrase"}, value : Seq(Word)]
                     \cup [kind : {"era"}, value : E \cup Word]
                     \cup [kind : {"site"}, value : DOMAIN Parents]
                     \cup [kind : {"max-ai", "min-ai"}, value : 0..10]
    BY Zenon DEF Token, E
  <1> QED
    BY <1>1 DEF Kinds, E

\* The eras that are understood.
LEMMA ErasAre ==
  /\ DOMAIN Eras = {"pre-ai", "ai-era", "transition"}
  /\ Eras["pre-ai"] = "PRE_AI" /\ Eras["ai-era"] = "AI_ERA" /\ Eras["transition"] = "TRANSITION"
  BY DEF Eras

\* The parts of the query that a token changes.
LEMMA ParseTokenSays ==
  ASSUME NEW p \in PQuery, NEW t \in Token
  PROVE  LET r == ParseToken(p, t) IN
         /\ r \in PQuery
         /\ r.terms = IF IsTerm(t) THEN Append(p.terms, Stem[t.value]) ELSE p.terms
         /\ r.phrases = IF t.kind = "phrase" THEN Append(p.phrases, t.value) ELSE p.phrases
         /\ r.excluded = IF t.kind = "minus" THEN Append(p.excluded, Stem[t.value]) ELSE p.excluded
         /\ r.era = IF t.kind = "era" /\ t.value \in DOMAIN Eras THEN Eras[t.value] ELSE p.era
         /\ r.site = IF t.kind = "site" THEN t.value ELSE p.site
         /\ r.maxAi = IF t.kind = "max-ai" THEN t.value ELSE p.maxAi
         /\ r.minAi = IF t.kind = "min-ai" THEN t.value ELSE p.minAi
  <1> DEFINE E == DOMAIN Eras
             Set == {NoFilter, "PRE_AI", "AI_ERA", "TRANSITION"}
             r == ParseToken(p, t)
             v == t.value
  <1>1. /\ \A e \in E : Eras[e] \in Set
        /\ \A w \in Word : Stem[w] \in Word
    BY ErasAre, QueryAssumption
  <1>2. PQuery = [terms : Seq(Word), phrases : Seq(Seq(Word)), excluded : Seq(Word), era : Set,
                  site : DOMAIN Parents \cup {NoFilter}, maxAi : 0..10, minAi : 0..10]
    BY DEF PQuery
  <1>3. /\ t.kind \in {"word", "minus"} => v \in Word
        /\ t.kind = "phrase" => v \in Seq(Word)
        /\ t.kind = "era" => v \in E \cup Word
        /\ t.kind = "site" => v \in DOMAIN Parents
        /\ t.kind \in {"max-ai", "min-ai"} => v \in 0..10
        /\ t.kind \in Kinds
    BY TokenType
  <1>4. r = CASE t.kind = "phrase" -> [p EXCEPT !.phrases = Append(@, v)]
              [] t.kind = "minus" -> [p EXCEPT !.excluded = Append(@, Stem[v])]
              [] t.kind = "word" -> AddTerm(p, v)
              [] t.kind = "era" -> IF v \in E THEN [p EXCEPT !.era = Eras[v]] ELSE AddTerm(p, v)
              [] t.kind = "site" -> [p EXCEPT !.site = v]
              [] t.kind = "max-ai" -> [p EXCEPT !.maxAi = v]
              [] t.kind = "min-ai" -> [p EXCEPT !.minAi = v]
    BY Zenon DEF ParseToken
  <1> HIDE DEF E, Set, r, v
  <1>5. ASSUME v \in Word
        PROVE  LET a == AddTerm(p, v) IN
               /\ a = IF v \in StopWord THEN p ELSE [p EXCEPT !.terms = Append(p.terms, Stem[v])]
               /\ a \in PQuery
    <2> DEFINE x == Append(p.terms, Stem[v])
    <2>1. x \in Seq(Word) /\ AddTerm(p, v) = IF v \in StopWord THEN p ELSE [p EXCEPT !.terms = x]
      BY <1>1, <1>2, <1>5 DEF AddTerm
    <2> HIDE DEF x
    <2>2. [p EXCEPT !.terms = x] \in PQuery
      BY <1>2, <2>1
    <2> QED
      BY <2>1, <2>2 DEF x
  <1>6. IsTerm(t) <=> (t.kind = "word" \/ (t.kind = "era" /\ v \notin E)) /\ v \notin StopWord
    BY DEF IsTerm, E, v
  <1>7. /\ r \in PQuery
        /\ r.terms = IF IsTerm(t) THEN Append(p.terms, Stem[v]) ELSE p.terms
        /\ r.phrases = IF t.kind = "phrase" THEN Append(p.phrases, v) ELSE p.phrases
        /\ r.excluded = IF t.kind = "minus" THEN Append(p.excluded, Stem[v]) ELSE p.excluded
        /\ r.era = IF t.kind = "era" /\ v \in E THEN Eras[v] ELSE p.era
        /\ r.site = IF t.kind = "site" THEN v ELSE p.site
        /\ r.maxAi = IF t.kind = "max-ai" THEN v ELSE p.maxAi
        /\ r.minAi = IF t.kind = "min-ai" THEN v ELSE p.minAi
    <2>1. CASE t.kind = "phrase"
      <3> DEFINE x == Append(p.phrases, v)
      <3>1. r = [p EXCEPT !.phrases = x] /\ x \in Seq(Seq(Word))
        BY <1>2, <1>3, <1>4, <2>1
      <3> HIDE DEF x
      <3>2. /\ r \in PQuery /\ r.phrases = x /\ r.terms = p.terms /\ r.excluded = p.excluded
            /\ r.era = p.era /\ r.site = p.site /\ r.maxAi = p.maxAi /\ r.minAi = p.minAi
        BY <1>2, <3>1
      <3> QED
        BY <1>6, <2>1, <3>2 DEF x
    <2>2. CASE t.kind = "minus"
      <3> DEFINE x == Append(p.excluded, Stem[v])
      <3>1. r = [p EXCEPT !.excluded = x] /\ x \in Seq(Word)
        BY <1>1, <1>2, <1>3, <1>4, <2>2
      <3> HIDE DEF x
      <3>2. /\ r \in PQuery /\ r.excluded = x /\ r.terms = p.terms /\ r.phrases = p.phrases
            /\ r.era = p.era /\ r.site = p.site /\ r.maxAi = p.maxAi /\ r.minAi = p.minAi
        BY <1>2, <3>1
      <3> QED
        BY <1>6, <2>2, <3>2 DEF x
    <2>3. CASE t.kind = "word" \/ (t.kind = "era" /\ v \notin E)
      <3>1. v \in Word /\ r = AddTerm(p, v)
        BY <1>3, <1>4, <2>3
      <3> QED
        BY <1>2, <1>5, <1>6, <2>3, <3>1
    <2>4. CASE t.kind = "era" /\ v \in E
      <3>1. r = [p EXCEPT !.era = Eras[v]] /\ Eras[v] \in Set
        BY <1>1, <1>4, <2>4
      <3> QED
        BY <1>2, <1>6, <2>4, <3>1
    <2>5. CASE t.kind = "site"
      <3>1. r = [p EXCEPT !.site = v]
        BY <1>4, <2>5
      <3> QED
        BY <1>2, <1>3, <1>6, <2>5, <3>1
    <2>6. CASE t.kind = "max-ai"
      <3>1. r = [p EXCEPT !.maxAi = v]
        BY <1>4, <2>6
      <3> QED
        BY <1>2, <1>3, <1>6, <2>6, <3>1
    <2>7. CASE t.kind = "min-ai"
      <3>1. r = [p EXCEPT !.minAi = v]
        BY <1>4, <2>7
      <3> QED
        BY <1>2, <1>3, <1>6, <2>7, <3>1
    <2> QED
      BY <1>3, <2>1, <2>2, <2>3, <2>4, <2>5, <2>6, <2>7 DEF Kinds
  <1> QED
    BY <1>7, Zenon DEF E, r, v

\* The tokens of a kind up to one, and what they say.
Said(tokens, k, kind) == {tokens[i].value : i \in {j \in 1..k : tokens[j].kind = kind}}

TermsSaid(tokens, k) == {Stem[tokens[i].value] : i \in {j \in 1..k : IsTerm(tokens[j])}}

\* The last filter of a kind that is understood, up to a token.
LastSaid(tokens, k, kind, v) ==
  \E i \in 1..k :
    /\ tokens[i] = [kind |-> kind, value |-> v] /\ Understood(tokens[i])
    /\ \A j \in (i + 1)..k : tokens[j].kind = kind => ~Understood(tokens[j])

FilterValue(kind, v) == IF kind = "era" THEN Eras[v] ELSE v

\* A part of the query is what the last filter says, or what it was.
FilterIs(x, none, tokens, k, kind) ==
  /\ \A v : LastSaid(tokens, k, kind, v) => x = FilterValue(kind, v)
  /\ x # none => \E v : LastSaid(tokens, k, kind, v)

Meaning(p, tokens, k) ==
  /\ ToSet(p.terms) = TermsSaid(tokens, k)
  /\ ToSet(p.phrases) = Said(tokens, k, "phrase")
  /\ ToSet(p.excluded) = {Stem[w] : w \in Said(tokens, k, "minus")}
  /\ FilterIs(p.era, NoFilter, tokens, k, "era")
  /\ FilterIs(p.site, NoFilter, tokens, k, "site")
  /\ FilterIs(p.maxAi, 10, tokens, k, "max-ai")
  /\ FilterIs(p.minAi, 0, tokens, k, "min-ai")

\* One more token is the last filter of its kind, if it is one.
LEMMA LastStep ==
  ASSUME NEW tokens \in Seq(Token), NEW k \in 1..Len(tokens), NEW kind, NEW v
  PROVE  LastSaid(tokens, k, kind, v)
           <=> IF tokens[k].kind = kind /\ Understood(tokens[k]) THEN tokens[k].value = v
               ELSE LastSaid(tokens, k - 1, kind, v)
  <1> DEFINE U(i) == Understood(tokens[i])
             Is(i) == tokens[i] = [kind |-> kind, value |-> v]
             Of(i) == tokens[i].kind = kind
  <1>1. k \in Nat /\ k >= 1 /\ tokens[k] \in Token
    OBVIOUS
  <1>2. tokens[k] = [kind |-> tokens[k].kind, value |-> tokens[k].value]
    BY <1>1, TokenType
  <1>3. Is(k) <=> Of(k) /\ tokens[k].value = v
    BY <1>2
  <1>4. \A i \in 1..k : Is(i) => Of(i)
    OBVIOUS
  <1>5. /\ LastSaid(tokens, k, kind, v) <=> \E i \in 1..k : Is(i) /\ U(i) /\ \A j \in (i + 1)..k : Of(j) => ~U(j)
        /\ LastSaid(tokens, k - 1, kind, v)
             <=> \E i \in 1..(k - 1) : Is(i) /\ U(i) /\ \A j \in (i + 1)..(k - 1) : Of(j) => ~U(j)
    BY DEF LastSaid
  <1> HIDE DEF U, Is, Of
  <1>6. CASE Of(k) /\ U(k)
    <2>1. ASSUME LastSaid(tokens, k, kind, v) PROVE tokens[k].value = v
      <3>1. PICK i \in 1..k : Is(i) /\ U(i) /\ \A j \in (i + 1)..k : Of(j) => ~U(j)
        BY <1>5, <2>1
      <3>2. i = k
        BY <1>1, <1>6, <3>1
      <3> QED
        BY <1>3, <3>1, <3>2
    <2>2. ASSUME tokens[k].value = v PROVE LastSaid(tokens, k, kind, v)
      BY <1>1, <1>3, <1>5, <1>6, <2>2
    <2> QED
      BY <1>6, <2>1, <2>2 DEF Of, U
  <1>7. CASE ~(Of(k) /\ U(k))
    <2>1. ASSUME LastSaid(tokens, k, kind, v) PROVE LastSaid(tokens, k - 1, kind, v)
      <3>1. PICK i \in 1..k : Is(i) /\ U(i) /\ \A j \in (i + 1)..k : Of(j) => ~U(j)
        BY <1>5, <2>1
      <3>2. i \in 1..(k - 1)
        BY <1>1, <1>4, <1>7, <3>1
      <3>3. \A j \in (i + 1)..(k - 1) : j \in (i + 1)..k
        BY <1>1
      <3> QED
        BY <1>5, <3>1, <3>2, <3>3
    <2>2. ASSUME LastSaid(tokens, k - 1, kind, v) PROVE LastSaid(tokens, k, kind, v)
      <3>1. PICK i \in 1..(k - 1) : Is(i) /\ U(i) /\ \A j \in (i + 1)..(k - 1) : Of(j) => ~U(j)
        BY <1>5, <2>2
      <3>2. i \in 1..k /\ \A j \in (i + 1)..k : j = k \/ j \in (i + 1)..(k - 1)
        BY <1>1
      <3> QED
        BY <1>5, <1>7, <3>1, <3>2
    <2> QED
      BY <1>7, <2>1, <2>2 DEF Of, U
  <1> QED
    BY <1>6, <1>7

\* A part of the query stays what the last filter says.
LEMMA FilterStep ==
  ASSUME NEW tokens \in Seq(Token), NEW k \in 1..Len(tokens), NEW kind, NEW none, NEW x, NEW y,
         FilterIs(x, none, tokens, k - 1, kind),
         y = IF tokens[k].kind = kind /\ Understood(tokens[k])
             THEN FilterValue(kind, tokens[k].value) ELSE x
  PROVE  FilterIs(y, none, tokens, k, kind)
  <1>1. \A v : LastSaid(tokens, k, kind, v)
                 <=> IF tokens[k].kind = kind /\ Understood(tokens[k]) THEN tokens[k].value = v
                     ELSE LastSaid(tokens, k - 1, kind, v)
    BY LastStep
  <1>2. CASE tokens[k].kind = kind /\ Understood(tokens[k])
    <2>1. y = FilterValue(kind, tokens[k].value)
      BY <1>2
    <2>2. \A v : LastSaid(tokens, k, kind, v) <=> tokens[k].value = v
      BY <1>1, <1>2
    <2> QED
      BY <2>1, <2>2, ZenonT(40) DEF FilterIs
  <1>3. CASE ~(tokens[k].kind = kind /\ Understood(tokens[k]))
    <2>1. y = x
      BY <1>3
    <2>2. \A v : LastSaid(tokens, k, kind, v) <=> LastSaid(tokens, k - 1, kind, v)
      BY <1>1, <1>3
    <2> QED
      BY <2>1, <2>2, ZenonT(40) DEF FilterIs
  <1> QED
    BY <1>2, <1>3

\* So does each part of the query, one token further.
LEMMA MeaningStep ==
  ASSUME NEW tokens \in Seq(Token), NEW k \in 1..Len(tokens), NEW p \in PQuery,
         Meaning(p, tokens, k - 1)
  PROVE  Meaning(ParseToken(p, tokens[k]), tokens, k)
  <1> DEFINE t == tokens[k]
             r == ParseToken(p, t)
  <1>1. t \in Token /\ k \in Nat /\ 1..k = (1..(k - 1)) \cup {k}
    OBVIOUS
  <1>2. /\ r \in PQuery
        /\ r.terms = IF IsTerm(t) THEN Append(p.terms, Stem[t.value]) ELSE p.terms
        /\ r.phrases = IF t.kind = "phrase" THEN Append(p.phrases, t.value) ELSE p.phrases
        /\ r.excluded = IF t.kind = "minus" THEN Append(p.excluded, Stem[t.value]) ELSE p.excluded
        /\ r.era = IF t.kind = "era" /\ t.value \in DOMAIN Eras THEN Eras[t.value] ELSE p.era
        /\ r.site = IF t.kind = "site" THEN t.value ELSE p.site
        /\ r.maxAi = IF t.kind = "max-ai" THEN t.value ELSE p.maxAi
        /\ r.minAi = IF t.kind = "min-ai" THEN t.value ELSE p.minAi
    BY <1>1, ParseTokenSays
  <1>3. /\ t.kind \in {"word", "minus"} => t.value \in Word
        /\ t.kind = "phrase" => t.value \in Seq(Word)
        /\ t.kind = "era" => t.value \in DOMAIN Eras \cup Word
        /\ \A w \in Word : Stem[w] \in Word
    BY <1>1, TokenType, QueryAssumption
  <1>4. p.terms \in Seq(Word) /\ p.phrases \in Seq(Seq(Word)) /\ p.excluded \in Seq(Word)
    BY DEF PQuery
  <1>5. /\ ToSet(p.terms) = TermsSaid(tokens, k - 1)
        /\ ToSet(p.phrases) = Said(tokens, k - 1, "phrase")
        /\ ToSet(p.excluded) = {Stem[w] : w \in Said(tokens, k - 1, "minus")}
        /\ FilterIs(p.era, NoFilter, tokens, k - 1, "era")
        /\ FilterIs(p.site, NoFilter, tokens, k - 1, "site")
        /\ FilterIs(p.maxAi, 10, tokens, k - 1, "max-ai")
        /\ FilterIs(p.minAi, 0, tokens, k - 1, "min-ai")
    BY DEF Meaning
  <1> HIDE DEF r
  <1>6. \A kind : Said(tokens, k, kind)
                    = Said(tokens, k - 1, kind) \cup (IF t.kind = kind THEN {t.value} ELSE {})
    BY <1>1 DEF Said
  <1>7. TermsSaid(tokens, k) = TermsSaid(tokens, k - 1) \cup (IF IsTerm(t) THEN {Stem[t.value]} ELSE {})
    BY <1>1 DEF TermsSaid
  <1>8. ToSet(r.terms) = TermsSaid(tokens, k)
    <2>1. CASE IsTerm(t)
      <3>1. Stem[t.value] \in Word
        BY <1>3, <2>1 DEF IsTerm
      <3> QED
        BY <1>2, <1>4, <1>5, <1>7, <2>1, <3>1, ToSetAppend
    <2>2. CASE ~IsTerm(t)
      BY <1>2, <1>5, <1>7, <2>2
    <2> QED
      BY <2>1, <2>2
  <1>9. ToSet(r.phrases) = Said(tokens, k, "phrase")
    <2>1. CASE t.kind = "phrase"
      <3>1. ToSet(r.phrases) = ToSet(p.phrases) \cup {t.value}
        <4> DEFINE S == Seq(Word)
        <4>1. t.value \in S /\ p.phrases \in Seq(S) /\ r.phrases = Append(p.phrases, t.value)
          BY <1>2, <1>3, <1>4, <2>1
        <4> HIDE DEF S
        <4> QED
          BY <4>1, ToSetAppend
      <3>2. Said(tokens, k, "phrase") = Said(tokens, k - 1, "phrase") \cup {t.value}
        BY <1>6, <2>1
      <3> QED
        BY <1>5, <3>1, <3>2
    <2>2. CASE t.kind # "phrase"
      <3>1. r.phrases = p.phrases
        BY <1>2, <2>2
      <3>2. Said(tokens, k, "phrase") = Said(tokens, k - 1, "phrase")
        BY <1>6, <2>2
      <3> QED
        BY <1>5, <3>1, <3>2
    <2> QED
      BY <2>1, <2>2
  <1>10. ToSet(r.excluded) = {Stem[w] : w \in Said(tokens, k, "minus")}
    <2>1. CASE t.kind = "minus"
      <3>1. ToSet(r.excluded) = ToSet(p.excluded) \cup {Stem[t.value]}
        BY <1>2, <1>3, <1>4, <2>1, ToSetAppend
      <3> DEFINE A == Said(tokens, k - 1, "minus")
      <3>2. Said(tokens, k, "minus") = A \cup {t.value}
        BY <1>6, <2>1
      <3>3. ToSet(p.excluded) = {Stem[w] : w \in A}
        BY <1>5
      <3> HIDE DEF A
      <3> QED
        BY <3>1, <3>2, <3>3
    <2>2. CASE t.kind # "minus"
      <3>1. Said(tokens, k, "minus") = Said(tokens, k - 1, "minus")
        BY <1>6, <2>2
      <3> QED
        BY <1>2, <1>5, <2>2, <3>1
    <2> QED
      BY <2>1, <2>2
  <1>11. FilterIs(r.era, NoFilter, tokens, k, "era")
    <2>1. r.era = IF t.kind = "era" /\ Understood(t) THEN FilterValue("era", t.value) ELSE p.era
      BY <1>2 DEF Understood, FilterValue
    <2> QED
      BY <1>5, <2>1, FilterStep
  <1>12. FilterIs(r.site, NoFilter, tokens, k, "site")
    <2>1. r.site = IF t.kind = "site" /\ Understood(t) THEN FilterValue("site", t.value) ELSE p.site
      BY <1>2 DEF Understood, FilterValue
    <2> QED
      BY <1>5, <2>1, FilterStep
  <1>13. FilterIs(r.maxAi, 10, tokens, k, "max-ai")
    <2>1. r.maxAi = IF t.kind = "max-ai" /\ Understood(t) THEN FilterValue("max-ai", t.value) ELSE p.maxAi
      BY <1>2 DEF Understood, FilterValue
    <2> QED
      BY <1>5, <2>1, FilterStep
  <1>14. FilterIs(r.minAi, 0, tokens, k, "min-ai")
    <2>1. r.minAi = IF t.kind = "min-ai" /\ Understood(t) THEN FilterValue("min-ai", t.value) ELSE p.minAi
      BY <1>2 DEF Understood, FilterValue
    <2> QED
      BY <1>5, <2>1, FilterStep
  <1> QED
    BY <1>8, <1>9, <1>10, <1>11, <1>12, <1>13, <1>14 DEF Meaning, r

\* The parsed query has the typed words, phrases, exclusions and last filters.
LEMMA ParseSays ==
  ASSUME NEW tokens \in Seq(Token)
  PROVE  Parse(tokens) \in PQuery /\ Meaning(Parse(tokens), tokens, Len(tokens))
  <1> DEFINE N == Len(tokens)
             D == PQuery
             step == [x \in D \X (1..N) |-> ParseToken(x[1], tokens[x[2]])]
             Equation(g) == g = [i \in 0..N |-> IF i = 0 THEN NoQuery
                                                ELSE ParseToken(g[i - 1], tokens[i])]
             K == Parsing(tokens)
             Z == {k \in 0..N : K[k] \in D /\ Meaning(K[k], tokens, k)}
  <1>1. N \in Nat /\ N \in 0..N /\ 0 \in 0..N /\ \A i \in 1..N : tokens[i] \in Token
    OBVIOUS
  <1>2. \A p \in D, i \in 1..N : ParseToken(p, tokens[i]) \in D
    BY <1>1, ParseTokenSays
  <1>3. step \in [D \X (1..N) -> D] /\ \A p \in D, i \in 1..N : step[<<p, i>>] = ParseToken(p, tokens[i])
    BY <1>2
  <1>4. \A i \in 0..N : i # 0 => i \in 1..N /\ i - 1 \in 0..N
    BY <1>1
  <1>5. \A k \in 1..N : k \in 0..N /\ k # 0 /\ k - 1 \in 0..N
    BY <1>1
  <1>6. NoQuery \in D
    BY DEF NoQuery, PQuery
  <1> HIDE DEF N, D, step
  <1>7. PICK g : Recurs(g, N, D, NoQuery, step)
    <2>1. IsStep(step, N, D)
      BY <1>3 DEF IsStep
    <2> HIDE DEF Equation
    <2> QED
      BY <2>1, <1>1, <1>6, RecursionExists
  <1>8. Equation(g)
    <2>1. \A i \in 0..N : i # 0 => g[i] = ParseToken(g[i - 1], tokens[i])
      BY <1>3, <1>4, <1>7 DEF Recurs
    <2>2. g = [i \in 0..N |-> g[i]]
      BY <1>7 DEF Recurs
    <2>3. \A i \in 0..N : g[i] = IF i = 0 THEN NoQuery ELSE ParseToken(g[i - 1], tokens[i])
      BY <1>7, <2>1 DEF Recurs
    <2> QED
      BY <2>2, <2>3
  <1>9. Equation(K)
    BY <1>8, Zenon DEF Parsing, N
  <1> HIDE DEF K
  <1>10. K[0] = NoQuery /\ \A k \in 1..N : K[k] = ParseToken(K[k - 1], tokens[k])
    <2>1. \A i \in 0..N : K[i] = IF i = 0 THEN NoQuery ELSE ParseToken(K[i - 1], tokens[i])
      BY <1>9, Zenon
    <2> QED
      BY <1>1, <1>5, <2>1, ZenonT(40)
  <1>11. 0 \in Z
    <2> DEFINE p == NoQuery
    <2>1. /\ ToSet(p.terms) = {} /\ ToSet(p.phrases) = {} /\ ToSet(p.excluded) = {}
          /\ p.era = NoFilter /\ p.site = NoFilter /\ p.maxAi = 10 /\ p.minAi = 0
      BY DEF NoQuery, ToSet
    <2>2. 1..0 = {}
      OBVIOUS
    <2>3. /\ \A kind : Said(tokens, 0, kind) = {} /\ \A v : ~LastSaid(tokens, 0, kind, v)
          /\ TermsSaid(tokens, 0) = {}
      BY <2>2 DEF Said, LastSaid, TermsSaid
    <2>4. \A x, kind : FilterIs(x, x, tokens, 0, kind)
      BY <2>3 DEF FilterIs
    <2> HIDE DEF p
    <2>5. Meaning(p, tokens, 0)
      BY <2>1, <2>3, <2>4 DEF Meaning
    <2> QED
      BY <1>1, <1>6, <1>10, <2>5 DEF p
  <1>12. ASSUME NEW k \in 1..N, k - 1 \in Z PROVE k \in Z
    <2>1. /\ K[k - 1] \in PQuery /\ Meaning(K[k - 1], tokens, k - 1)
          /\ K[k] = ParseToken(K[k - 1], tokens[k]) /\ k \in 0..N
      BY <1>5, <1>10, <1>12 DEF D
    <2>2. Meaning(ParseToken(K[k - 1], tokens[k]), tokens, k)
      BY <2>1, MeaningStep DEF N
    <2>3. ParseToken(K[k - 1], tokens[k]) \in D
      BY <1>2, <2>1 DEF D
    <2> QED
      BY <2>1, <2>2, <2>3
  <1> HIDE DEF Z
  <1>13. 0..N \subseteq Z
    BY <1>1, <1>11, <1>12, UpToInduction
  <1>14. K[N] \in D /\ Meaning(K[N], tokens, N)
    BY <1>1, <1>13 DEF Z
  <1> QED
    BY <1>14 DEF Parse, K, N, D

\* The words that a query has terms of, if they are no stop words.
TypedWords == Typed("word") \cup (Typed("era") \ DOMAIN Eras)

\* The same of the query at the prompt.
LEMMA QuerySays ==
  ASSUME query \in Seq(Token)
  PROVE  LET q == Parse(query) IN
         /\ q \in PQuery
         /\ ToSet(q.terms) = {Stem[w] : w \in TypedWords \ StopWord}
         /\ ToSet(q.phrases) = Typed("phrase")
         /\ ToSet(q.excluded) = {Stem[w] : w \in Typed("minus")}
         /\ \A v : LastTyped("era", v) => q.era = Eras[v]
         /\ q.era # NoFilter => \E v : LastTyped("era", v)
         /\ \A v : LastTyped("site", v) => q.site = v
         /\ q.site # NoFilter => \E v : LastTyped("site", v)
         /\ \A v : LastTyped("max-ai", v) => q.maxAi = v
         /\ q.maxAi # 10 => \E v : LastTyped("max-ai", v)
         /\ \A v : LastTyped("min-ai", v) => q.minAi = v
         /\ q.minAi # 0 => \E v : LastTyped("min-ai", v)
  <1> DEFINE q == Parse(query)
             N == Len(query)
  <1>1. q \in PQuery /\ Meaning(q, query, N)
    BY ParseSays
  <1> HIDE DEF q
  <1>2. DOMAIN query = 1..N
    OBVIOUS
  <1>3. \A kind : Said(query, N, kind) = Typed(kind)
    BY <1>2 DEF Said, Typed
  <1>4. \A kind, v : LastSaid(query, N, kind, v) <=> LastTyped(kind, v)
    BY <1>2 DEF LastSaid, LastTyped
  <1>5. TermsSaid(query, N) = {Stem[w] : w \in TypedWords \ StopWord}
    <2>1. ASSUME NEW i \in 1..N
          PROVE  IsTerm(query[i]) => query[i].value \in TypedWords \ StopWord
      BY <1>2, <2>1 DEF IsTerm, TypedWords, Typed
    <2>2. ASSUME NEW w \in TypedWords \ StopWord
          PROVE  \E i \in 1..N : IsTerm(query[i]) /\ query[i].value = w
      BY <1>2, <2>2 DEF IsTerm, TypedWords, Typed
    <2> QED
      BY <2>1, <2>2 DEF TermsSaid
  <1>6. \A x, none, kind : FilterIs(x, none, query, N, kind)
          => (\A v : LastTyped(kind, v) => x = FilterValue(kind, v)) /\ (x # none => \E v : LastTyped(kind, v))
    BY <1>4, ZenonT(40) DEF FilterIs
  <1>7. \A v : /\ FilterValue("era", v) = Eras[v] /\ FilterValue("site", v) = v
               /\ FilterValue("max-ai", v) = v /\ FilterValue("min-ai", v) = v
    BY DEF FilterValue
  <1>8. /\ ToSet(q.terms) = TermsSaid(query, N)
        /\ ToSet(q.phrases) = Said(query, N, "phrase")
        /\ ToSet(q.excluded) = {Stem[w] : w \in Said(query, N, "minus")}
        /\ FilterIs(q.era, NoFilter, query, N, "era")
        /\ FilterIs(q.site, NoFilter, query, N, "site")
        /\ FilterIs(q.maxAi, 10, query, N, "max-ai")
        /\ FilterIs(q.minAi, 0, query, N, "min-ai")
    BY <1>1 DEF Meaning
  <1>9. /\ ToSet(q.terms) = {Stem[w] : w \in TypedWords \ StopWord}
        /\ ToSet(q.phrases) = Typed("phrase")
        /\ ToSet(q.excluded) = {Stem[w] : w \in Typed("minus")}
    BY <1>3, <1>5, <1>8
  <1>10. /\ \A v : LastTyped("era", v) => q.era = Eras[v]
         /\ q.era # NoFilter => \E v : LastTyped("era", v)
    BY <1>6, <1>7, <1>8
  <1>11. /\ \A v : LastTyped("site", v) => q.site = v
         /\ q.site # NoFilter => \E v : LastTyped("site", v)
    BY <1>6, <1>7, <1>8
  <1>12. /\ \A v : LastTyped("max-ai", v) => q.maxAi = v
         /\ q.maxAi # 10 => \E v : LastTyped("max-ai", v)
    BY <1>6, <1>7, <1>8
  <1>13. /\ \A v : LastTyped("min-ai", v) => q.minAi = v
         /\ q.minAi # 0 => \E v : LastTyped("min-ai", v)
    BY <1>6, <1>7, <1>8
  <1> QED
    BY <1>1, <1>9, <1>10, <1>11, <1>12, <1>13, Zenon DEF q

\* What is typed is of the type of its kind.
LEMMA TypedType ==
  ASSUME query \in Seq(Token)
  PROVE  /\ Typed("word") \subseteq Word /\ Typed("minus") \subseteq Word
         /\ Typed("phrase") \subseteq Seq(Word) /\ Typed("site") \subseteq DOMAIN Parents
         /\ Typed("era") \subseteq DOMAIN Eras \cup Word
         /\ \A kind, v : LastTyped(kind, v) => v \in Typed(kind) /\ (kind = "era" => v \in DOMAIN Eras)
  <1>1. \A i \in DOMAIN query : query[i] \in Token
    OBVIOUS
  <1>2. ASSUME NEW i \in DOMAIN query
        PROVE  /\ query[i].kind \in {"word", "minus"} => query[i].value \in Word
               /\ query[i].kind = "phrase" => query[i].value \in Seq(Word)
               /\ query[i].kind = "era" => query[i].value \in DOMAIN Eras \cup Word
               /\ query[i].kind = "site" => query[i].value \in DOMAIN Parents
    BY <1>1, TokenType
  <1>3. ASSUME NEW kind, NEW v, LastTyped(kind, v)
        PROVE  v \in Typed(kind) /\ (kind = "era" => v \in DOMAIN Eras)
    <2>1. PICK i \in DOMAIN query : query[i] = [kind |-> kind, value |-> v] /\ Understood(query[i])
      BY <1>3 DEF LastTyped
    <2>2. query[i].kind = kind /\ query[i].value = v
      BY <2>1
    <2> QED
      BY <2>1, <2>2 DEF Typed, Understood
  <1> QED
    BY <1>2, <1>3 DEF Typed

-----------------------------------------------------------------------------
(* The ranker.                                                             *)

\* The terms to look for are those of the query and of its phrases.
LEMMA AllTermsSays ==
  ASSUME NEW q \in PQuery
  PROVE  /\ AllTerms(q) \in Seq(Word)
         /\ ToSet(AllTerms(q)) = ToSet(q.terms) \cup UNION {ToSet(p) : p \in ToSet(q.phrases)}
  <1> DEFINE N == Len(q.phrases)
             ph == q.phrases
             D == Seq(Word)
             step == [x \in D \X (1..N) |-> x[1] \o ph[x[2]]]
             Equation(g) == g = [i \in 0..N |-> IF i = 0 THEN q.terms ELSE g[i - 1] \o ph[i]]
             K == Gathering(q)
             Upto(k) == ToSet(q.terms) \cup UNION {ToSet(ph[j]) : j \in 1..k}
             Z == {k \in 0..N : K[k] \in D /\ ToSet(K[k]) = Upto(k)}
  <1>0. q.terms \in D /\ ph \in Seq(D)
    BY DEF PQuery
  <1>1. N \in Nat /\ N \in 0..N /\ 0 \in 0..N /\ \A i \in 1..N : ph[i] \in D
    BY <1>0
  <1>2. \A p \in D, i \in 1..N : p \o ph[i] \in D
    BY <1>1
  <1>3. step \in [D \X (1..N) -> D] /\ \A p \in D, i \in 1..N : step[<<p, i>>] = p \o ph[i]
    BY <1>2
  <1>4. \A i \in 0..N : i # 0 => i \in 1..N /\ i - 1 \in 0..N
    BY <1>1
  <1>5. \A k \in 1..N : k \in 0..N /\ k # 0 /\ k - 1 \in 0..N
    BY <1>1
  <1>14. {ph[j] : j \in 1..N} = ToSet(ph) /\ DOMAIN ph = 1..N
    BY <1>0 DEF ToSet
  <1> HIDE DEF N, D, step
  <1>7. PICK g : Recurs(g, N, D, q.terms, step)
    <2>1. IsStep(step, N, D)
      BY <1>3 DEF IsStep
    <2> HIDE DEF Equation
    <2> QED
      BY <2>1, <1>0, <1>1, RecursionExists
  <1>8. Equation(g)
    <2>1. \A i \in 0..N : i # 0 => g[i] = g[i - 1] \o ph[i]
      BY <1>3, <1>4, <1>7 DEF Recurs
    <2>2. g = [i \in 0..N |-> g[i]]
      BY <1>7 DEF Recurs
    <2>3. \A i \in 0..N : g[i] = IF i = 0 THEN q.terms ELSE g[i - 1] \o ph[i]
      BY <1>7, <2>1 DEF Recurs
    <2> QED
      BY <2>2, <2>3
  <1>9. Equation(K)
    BY <1>8, Zenon DEF Gathering, N
  <1> HIDE DEF K
  <1>10. K[0] = q.terms /\ \A k \in 1..N : K[k] = K[k - 1] \o ph[k]
    <2>1. \A i \in 0..N : K[i] = IF i = 0 THEN q.terms ELSE K[i - 1] \o ph[i]
      BY <1>9, Zenon
    <2> QED
      BY <1>1, <1>5, <2>1, ZenonT(40)
  <1>11. 0 \in Z
    <2>1. 1..0 = {}
      OBVIOUS
    <2> QED
      BY <1>0, <1>1, <1>10, <2>1
  <1>12. ASSUME NEW k \in 1..N, k - 1 \in Z PROVE k \in Z
    <2>1. /\ K[k - 1] \in D /\ ToSet(K[k - 1]) = Upto(k - 1) /\ ph[k] \in D
          /\ K[k] = K[k - 1] \o ph[k] /\ k \in 0..N
      BY <1>1, <1>5, <1>10, <1>12
    <2>2. ToSet(K[k]) = ToSet(K[k - 1]) \cup ToSet(ph[k]) /\ K[k] \in D
      <3>1. ToSet(K[k - 1] \o ph[k]) = ToSet(K[k - 1]) \cup ToSet(ph[k])
        BY <2>1, ToSetConcat DEF D
      <3> QED
        BY <1>2, <2>1, <3>1
    <2>3. 1..k = (1..(k - 1)) \cup {k}
      BY <1>1
    <2>4. Upto(k) = Upto(k - 1) \cup ToSet(ph[k])
      BY <2>3
    <2> QED
      BY <2>1, <2>2, <2>4
  <1> HIDE DEF Z
  <1>13. 0..N \subseteq Z
    BY <1>1, <1>11, <1>12, UpToInduction
  <1>15. K[N] \in D /\ ToSet(K[N]) = Upto(N)
    BY <1>1, <1>13 DEF Z
  <1>16. {ToSet(ph[j]) : j \in 1..N} = {ToSet(p) : p \in ToSet(ph)}
    <2> DEFINE A == ToSet(ph)
    <2>1. A = {ph[j] : j \in 1..N}
      BY <1>14
    <2> HIDE DEF A
    <2>2. \A p : p \in A <=> \E j \in 1..N : p = ph[j]
      BY <2>1
    <2>3. {ToSet(ph[j]) : j \in 1..N} = {ToSet(p) : p \in A}
      BY <2>2
    <2> QED
      BY <2>3 DEF A
  <1>17. ToSet(K[N]) = ToSet(q.terms) \cup UNION {ToSet(p) : p \in ToSet(ph)}
    BY <1>15, <1>16
  <1> QED
    BY <1>15, <1>17, Zenon DEF AllTerms, K, N, D

\* A candidate has one of the terms and none of the excluded ones; this is in terms
\* of what was typed.
LEMMA CandidateSays ==
  ASSUME IndexTyped, query \in Seq(Token), NEW d \in Doc
  PROVE  LET q == Parse(query) IN
         /\ \A t : t \in TermsOf(d, q) <=> t \in SearchTerms(q) /\ HasTerm(d, t)
         /\ (\E t \in ToSet(AllTerms(q)) : HasTerm(d, t)) <=> Asked(d)
         /\ HasExcludedTerms(d, q) <=> \E w \in Typed("minus") : HasTerm(d, Stem[w])
  <1> DEFINE q == Parse(query)
  <1>1. /\ q \in PQuery
        /\ ToSet(q.terms) = {Stem[w] : w \in TypedWords \ StopWord}
        /\ ToSet(q.phrases) = Typed("phrase")
        /\ ToSet(q.excluded) = {Stem[w] : w \in Typed("minus")}
    BY QuerySays
  <1> HIDE DEF q
  <1>2. \A t : t \in TermsOf(d, q) <=> t \in SearchTerms(q) /\ HasTerm(d, t)
    BY FieldsWithTerm DEF TermsOf
  <1>3. (\E t \in ToSet(AllTerms(q)) : HasTerm(d, t)) <=> Asked(d)
    <2>1. ToSet(AllTerms(q)) = ToSet(q.terms) \cup UNION {ToSet(p) : p \in ToSet(q.phrases)}
      BY <1>1, AllTermsSays
    <2>2. (\E t \in ToSet(q.terms) : HasTerm(d, t)) <=> \E w \in TypedWords : HasWord(d, w)
      BY <1>1 DEF HasWord
    <2>3. (\E t \in UNION {ToSet(p) : p \in ToSet(q.phrases)} : HasTerm(d, t))
            <=> \E p \in Typed("phrase") : \E w \in ToSet(p) : HasTerm(d, w)
      BY <1>1
    <2>4. Asked(d) <=> \/ \E w \in TypedWords : HasWord(d, w)
                       \/ \E p \in Typed("phrase") : \E w \in ToSet(p) : HasTerm(d, w)
      BY DEF Asked, TypedWords
    <2> QED
      BY <2>1, <2>2, <2>3, <2>4
  <1>4. HasExcludedTerms(d, q) <=> \E w \in Typed("minus") : HasTerm(d, Stem[w])
    <2>1. HasExcludedTerms(d, q) <=> \E t \in ToSet(q.excluded) : HasTerm(d, t)
      BY <1>2 DEF HasExcludedTerms, SearchTerms
    <2> QED
      BY <1>1, <2>1
  <1> QED
    BY <1>2, <1>3, <1>4, Zenon DEF q

\* The era that a document is read back with.
LEMMA EraRead ==
  ASSUME NEW d
  PROVE  /\ EraOf(d) = "PRE_AI" <=> index[d].era = "pre-ai"
         /\ EraOf(d) = "AI_ERA" <=> index[d].era = "post-ai"
         /\ EraOf(d) # "TRANSITION"
  BY DEF EraOf

\* The filters of the ranker are those that were typed.
LEMMA FiltersAgree ==
  ASSUME IndexTyped, query \in Seq(Token), NEW d \in Doc
  PROVE  PassesFilters(d, Parse(query)) /\ ~HasExcludedTerms(d, Parse(query)) <=> ObeysFilters(d)
  <1> DEFINE q == Parse(query)
             E == DOMAIN Eras
             ai == index[d].ai
             At(h) == index[d].domain = h \/ h \in Parents[index[d].domain]
  <1>1. /\ \A v : LastTyped("era", v) => q.era = Eras[v]
        /\ q.era # NoFilter => \E v : LastTyped("era", v)
        /\ \A v : LastTyped("site", v) => q.site = v
        /\ q.site # NoFilter => \E v : LastTyped("site", v)
        /\ \A v : LastTyped("max-ai", v) => q.maxAi = v
        /\ q.maxAi # 10 => \E v : LastTyped("max-ai", v)
        /\ \A v : LastTyped("min-ai", v) => q.minAi = v
        /\ q.minAi # 0 => \E v : LastTyped("min-ai", v)
        /\ q.maxAi \in 0..10 /\ q.minAi \in 0..10
    BY QuerySays DEF PQuery
  <1>2. HasExcludedTerms(d, q) <=> \E w \in Typed("minus") : HasTerm(d, Stem[w])
    BY CandidateSays
  <1>3. ai \in 0..10
    BY DocumentType
  <1>4. /\ Typed("site") \subseteq DOMAIN Parents /\ NoFilter \notin DOMAIN Parents
        /\ \A kind, v : LastTyped(kind, v) => v \in Typed(kind) /\ (kind = "era" => v \in E)
    BY TypedType, QueryAssumption
  <1>5. PassesFilters(d, q) <=> /\ q.era # NoFilter => EraOf(d) = q.era
                                /\ ai <= q.maxAi /\ ai >= q.minAi
                                /\ q.site # NoFilter => At(q.site)
    BY DEF PassesFilters
  <1>6. ObeysFilters(d) <=>
          /\ \A w \in Typed("minus") : ~HasTerm(d, Stem[w])
          /\ LastTyped("era", "pre-ai") => index[d].era = "pre-ai"
          /\ LastTyped("era", "ai-era") => index[d].era = "post-ai"
          /\ ~LastTyped("era", "transition")
          /\ \A n \in 0..10 : /\ LastTyped("max-ai", n) => ai <= n
                              /\ LastTyped("min-ai", n) => ai >= n
          /\ \A h \in Typed("site") : LastTyped("site", h) => At(h)
    BY DEF ObeysFilters
  <1>7. E = {"pre-ai", "ai-era", "transition"}
    BY ErasAre
  <1> HIDE DEF q, E, ai, At
  <1>8. (q.era # NoFilter => EraOf(d) = q.era)
          <=> /\ LastTyped("era", "pre-ai") => index[d].era = "pre-ai"
              /\ LastTyped("era", "ai-era") => index[d].era = "post-ai"
              /\ ~LastTyped("era", "transition")
    <2>1. CASE q.era = NoFilter
      <3>1. \A v : ~LastTyped("era", v)
        <4>1. ASSUME NEW v, LastTyped("era", v) PROVE FALSE
          <5>1. v \in E /\ q.era = Eras[v]
            BY <1>1, <1>4, <4>1
          <5> QED
            BY <1>7, <2>1, <5>1, ErasAre DEF NoFilter
        <4> QED
          BY <4>1
      <3> QED
        BY <2>1, <3>1
    <2>2. CASE q.era # NoFilter
      <3>1. PICK v \in E : LastTyped("era", v)
        BY <1>1, <1>4, <2>2
      <3>2. q.era = Eras[v] /\ \A u \in E : LastTyped("era", u) => Eras[u] = Eras[v]
        BY <1>1, <3>1
      <3>3. \A u \in E : Eras[u] = Eras[v] => u = v
        BY <1>7, ErasAre
      <3>4. \A u \in E : LastTyped("era", u) <=> u = v
        BY <3>1, <3>2, <3>3
      <3>5. (EraOf(d) = q.era) <=> CASE v = "pre-ai" -> index[d].era = "pre-ai"
                                     [] v = "ai-era" -> index[d].era = "post-ai"
                                     [] OTHER -> FALSE
        BY <1>7, <3>2, EraRead, ErasAre
      <3> QED
        BY <1>7, <2>2, <3>4, <3>5
    <2> QED
      BY <2>1, <2>2
  <1>9. ai <= q.maxAi <=> \A n \in 0..10 : LastTyped("max-ai", n) => ai <= n
    <2>1. CASE \A v : ~LastTyped("max-ai", v)
      BY <1>1, <1>3, <2>1
    <2>2. CASE \E v : LastTyped("max-ai", v)
      BY <1>1, <2>2
    <2> QED
      BY <2>1, <2>2
  <1>10. ai >= q.minAi <=> \A n \in 0..10 : LastTyped("min-ai", n) => ai >= n
    <2>1. CASE \A v : ~LastTyped("min-ai", v)
      BY <1>1, <1>3, <2>1
    <2>2. CASE \E v : LastTyped("min-ai", v)
      BY <1>1, <2>2
    <2> QED
      BY <2>1, <2>2
  <1>11. (q.site # NoFilter => At(q.site)) <=> \A h \in Typed("site") : LastTyped("site", h) => At(h)
    <2>1. CASE q.site = NoFilter
      <3>1. \A v : ~LastTyped("site", v)
        BY <1>1, <1>4, <2>1
      <3> QED
        BY <2>1, <3>1
    <2>2. CASE q.site # NoFilter
      BY <1>1, <1>4, <2>2
    <2> QED
      BY <2>1, <2>2
  <1>12. PassesFilters(d, q) /\ ~HasExcludedTerms(d, q) <=> ObeysFilters(d)
    BY <1>2, <1>5, <1>6, <1>8, <1>9, <1>10, <1>11
  <1> QED
    BY <1>12 DEF q

\* A match has what was asked for and obeys the filters.
LEMMA MatchesObey ==
  ASSUME IndexTyped, query \in Seq(Token), NEW d \in Matches(Parse(query))
  PROVE  d \in listed /\ Asked(d) /\ ObeysFilters(d)
  <1> DEFINE q == Parse(query)
  <1>1. d \in listed /\ TermsOf(d, q) # {} /\ ~HasExcludedTerms(d, q) /\ PassesFilters(d, q)
    BY DEF Matches
  <1>2. d \in Doc
    BY <1>1 DEF IndexTyped
  <1>3. ObeysFilters(d)
    BY <1>1, <1>2, FiltersAgree
  <1>4. PICK t : t \in TermsOf(d, q)
    BY <1>1
  <1>5. t \in SearchTerms(q) /\ HasTerm(d, t)
    BY <1>2, <1>4, CandidateSays
  <1>6. t \notin ToSet(q.excluded)
    BY <1>1, <1>4 DEF HasExcludedTerms
  <1>7. t \in ToSet(AllTerms(q))
    BY <1>5, <1>6 DEF SearchTerms
  <1>8. Asked(d)
    BY <1>2, <1>5, <1>7, CandidateSays
  <1> QED
    BY <1>1, <1>3, <1>8

\* A number below the modulus is its own remainder.
LEMMA ModuloSmall ==
  ASSUME NEW n \in Nat \ {0}, NEW j \in 0..(n - 1)
  PROVE  j % n = j
  BY SMTT(60)

\* A phrase that a field has is found, word by word and in its order.
LEMMA PhraseFound ==
  ASSUME IndexTyped, NEW d \in Doc, NEW p \in Seq(Word), HasPhrase(d, p)
  PROVE  /\ \A w \in ToSet(p) : HasTerm(d, w)
         /\ \A k \in 1..(Len(p) - 1) : MatchesPhrase(d, p[k], p[k + 1])
  <1>1. PICK f \in Field :
          LET s == Kept(index[d].text[f]) IN
          /\ Len(s) <= PositionSize
          /\ \E i \in 0..(Len(s) - Len(p)) : \A k \in DOMAIN p : Stem[s[i + k]] = p[k]
    BY DEF HasPhrase
  <1> DEFINE text == index[d].text[f]
             s == Kept(text)
             ts == Tokens(text)
  <1>2. text \in Seq(Word) /\ s \in Seq(Word) /\ ToSet(s) = ToSet(text) \ StopWord
    BY DocumentType, KeptSays
  <1>3. ts = [i \in DOMAIN s |-> Stem[s[i]]]
    BY DEF Tokens
  <1> HIDE DEF s, ts
  <1>4. Len(s) <= PositionSize /\ \E i \in 0..(Len(s) - Len(p)) : \A k \in DOMAIN p : Stem[s[i + k]] = p[k]
    BY <1>1, Zenon DEF s
  <1>5. PICK i \in 0..(Len(s) - Len(p)) : \A k \in DOMAIN p : Stem[s[i + k]] = p[k]
    BY <1>4
  <1>6. /\ DOMAIN s = 1..Len(s) /\ Len(s) \in Nat /\ DOMAIN p = 1..Len(p) /\ Len(p) \in Nat
        /\ i \in Nat /\ i + Len(p) <= Len(s)
    BY <1>2
  <1>7. ASSUME NEW k \in 1..Len(p) PROVE i + k \in DOMAIN s /\ ts[i + k] = p[k]
    <2>1. i + k \in 1..Len(s)
      BY <1>6
    <2>2. ts[i + k] = Stem[s[i + k]]
      BY <1>3, <1>6, <2>1
    <2> QED
      BY <1>5, <1>6, <2>1, <2>2
  <1>8. ASSUME NEW w \in ToSet(p) PROVE HasTerm(d, w)
    <2>1. PICK k \in 1..Len(p) : p[k] = w
      BY <1>6 DEF ToSet
    <2>2. i + k \in DOMAIN s /\ Stem[s[i + k]] = w
      BY <1>5, <1>6, <1>7, <2>1
    <2>3. s[i + k] \in ToSet(text) \ StopWord
      BY <1>2, <2>2 DEF ToSet
    <2> QED
      BY <2>2, <2>3 DEF HasTerm
  <1>9. ASSUME NEW k \in 1..(Len(p) - 1) PROVE MatchesPhrase(d, p[k], p[k + 1])
    <2>1. k \in 1..Len(p) /\ k + 1 \in 1..Len(p) /\ k \in Nat
      BY <1>6
    <2>2. /\ i + k \in DOMAIN s /\ ts[i + k] = p[k]
          /\ i + k + 1 \in DOMAIN s /\ ts[i + k + 1] = p[k + 1]
      <3>1. i + k + 1 = i + (k + 1)
        BY <1>6, <2>1
      <3> QED
        BY <1>7, <2>1, <3>1
    <2>3. DOMAIN ts = DOMAIN s
      BY <1>3
    <2>4. ASSUME NEW j \in DOMAIN s
          PROVE  (j - 1) \in 0..(PositionSize - 1) /\ (j - 1) % PositionSize = j - 1
      <3>1. j \in 1..Len(s)
        BY <1>6
      <3>2. PositionSize \in Nat \ {0}
        BY QueryAssumption
      <3> HIDE DEF s
      <3>3. j \in Int /\ 1 <= j /\ j <= PositionSize
        BY <1>4, <1>6, <3>1, <3>2
      <3>4. j - 1 \in 0..(PositionSize - 1)
        BY <3>2, <3>3
      <3> QED
        BY <3>2, <3>4, ModuloSmall
    <2>5. ASSUME NEW j \in DOMAIN s PROVE j - 1 \in Positions(d, f, ts[j])
      <3>1. Positions(d, f, ts[j]) = {(m - 1) % PositionSize : m \in {n \in DOMAIN ts : ts[n] = ts[j]}}
        BY DEF Positions, ts
      <3> QED
        BY <2>3, <2>4, <3>1
    <2>6. \A t : Positions(d, f, t) \subseteq Aggregate(d, t).positions
      BY DEF Aggregate, Field
    <2>7. (i + k) - 1 \in Aggregate(d, p[k]).positions
      BY <2>2, <2>5, <2>6
    <2>8. (i + k + 1) - 1 \in Aggregate(d, p[k + 1]).positions
      BY <2>2, <2>5, <2>6
    <2>9. (i + k + 1) - 1 = ((i + k) - 1) + 1
      BY <1>6, <2>1
    <2> QED
      BY <2>7, <2>8, <2>9, Zenon DEF MatchesPhrase
  <1> QED
    BY <1>8, <1>9

\* A document that has what was asked for is a match.
LEMMA MatchesAll ==
  ASSUME IndexTyped, query \in Seq(Token), NEW d \in listed,
         Asked(d), ObeysFilters(d), \A p \in Typed("phrase") : HasPhrase(d, p)
  PROVE  d \in Matches(Parse(query))
  <1> DEFINE q == Parse(query)
  <1>1. d \in Doc
    BY DEF IndexTyped
  <1>2. PassesFilters(d, q) /\ ~HasExcludedTerms(d, q)
    BY <1>1, FiltersAgree
  <1>3. q \in PQuery /\ ToSet(q.phrases) = Typed("phrase") /\ Typed("phrase") \subseteq Seq(Word)
    BY QuerySays, TypedType
  <1>4. ToSet(AllTerms(q)) = ToSet(q.terms) \cup UNION {ToSet(p) : p \in ToSet(q.phrases)}
    BY <1>3, AllTermsSays
  <1>5. \A t : t \in TermsOf(d, q) <=> t \in SearchTerms(q) /\ HasTerm(d, t)
    BY <1>1, CandidateSays
  <1>6. PICK t \in ToSet(AllTerms(q)) : HasTerm(d, t)
    BY <1>1, CandidateSays
  <1> HIDE DEF q
  <1>7. TermsOf(d, q) # {}
    BY <1>5, <1>6 DEF SearchTerms
  <1>8. ~(q.terms = <<>> /\ q.phrases = <<>>)
    BY <1>4, <1>6 DEF ToSet
  <1>9. CheckPhrases(d, q)
    <2>1. ASSUME NEW p \in ToSet(q.phrases)
          PROVE  /\ ToSet(p) \subseteq TermsOf(d, q)
                 /\ \A k \in 1..(Len(p) - 1) : MatchesPhrase(d, p[k], p[k + 1])
      <3>1. p \in Seq(Word) /\ HasPhrase(d, p)
        BY <1>3
      <3>2. /\ \A w \in ToSet(p) : HasTerm(d, w)
            /\ \A k \in 1..(Len(p) - 1) : MatchesPhrase(d, p[k], p[k + 1])
        BY <1>1, <3>1, PhraseFound
      <3>3. ToSet(p) \subseteq SearchTerms(q)
        BY <1>4 DEF SearchTerms
      <3> QED
        BY <1>5, <3>2, <3>3
    <2> QED
      BY <2>1 DEF CheckPhrases
  <1>10. d \in Matches(q)
    BY <1>2, <1>7, <1>8, <1>9 DEF Matches, q
  <1> QED
    BY <1>10 DEF q

\* How often a document has a term is a number, and so is its score.
LEMMA FrequencyType ==
  ASSUME IndexTyped, NEW d \in Doc, NEW t
  PROVE  Aggregate(d, t).frequency \in Nat
  <1>1. ASSUME NEW f \in Field PROVE Frequency(d, f, t) \in Nat
    <2> DEFINE text == index[d].text[f]
               s == Tokens(text)
               At == {j \in DOMAIN s : s[j] = t}
    <2>1. Kept(text) \in Seq(Word) /\ DOMAIN s = DOMAIN Kept(text)
      BY DocumentType, KeptSays DEF Tokens
    <2>2. DOMAIN s = 1..Len(Kept(text)) /\ Len(Kept(text)) \in Nat
      BY <2>1
    <2> HIDE DEF s
    <2>3. IsFiniteSet(DOMAIN s)
      BY <2>2, FS_Interval
    <2>4. IsFiniteSet(At)
      BY <2>3, FS_Subset
    <2>5. Cardinality(At) \in Nat
      BY <2>4, FS_CardinalityType
    <2>6. Frequency(d, f, t) = Cardinality(At) % PositionSize
      BY DEF Frequency, s
    <2> HIDE DEF At
    <2> QED
      BY <2>5, <2>6, QueryAssumption
  <1>2. Frequency(d, "title", t) \in Nat /\ Frequency(d, "body", t) \in Nat
    BY <1>1 DEF Field
  <1>3. Aggregate(d, t).frequency = Frequency(d, "title", t) + Frequency(d, "body", t)
    BY DEF Aggregate
  <1> QED
    BY <1>2, <1>3

\* The score of a document is an integer.
LEMMA ScoreType ==
  ASSUME IndexTyped, NEW d \in Doc, NEW q \in PQuery
  PROVE  Score(d, q) \in Int
  <1> DEFINE terms == AllTerms(q)
             present == TermsOf(d, q)
             N == Len(terms)
             Of(i) == IF terms[i] \in present THEN Aggregate(d, terms[i]).frequency ELSE 0
             step == [x \in Int \X (1..N) |-> x[1] + Of(x[2])]
             Equation(g) == g = [i \in 0..N |-> IF i = 0 THEN 0 ELSE g[i - 1] + Of(i)]
             K == Scoring(d, q)
             Z == {k \in 0..N : K[k] \in Int}
  <1>1. terms \in Seq(Word)
    BY AllTermsSays
  <1>2. N \in Nat /\ N \in 0..N /\ 0 \in 0..N
    BY <1>1
  <1>3. \A i : Of(i) \in Int
    BY FrequencyType
  <1>4. \A i \in 0..N : i # 0 => i \in 1..N /\ i - 1 \in 0..N
    BY <1>2
  <1>5. \A k \in 1..N : k \in 0..N /\ k # 0 /\ k - 1 \in 0..N
    BY <1>2
  <1> HIDE DEF Of, N
  <1>6. step \in [Int \X (1..N) -> Int] /\ \A p \in Int, i \in 1..N : step[<<p, i>>] = p + Of(i)
    BY <1>3
  <1> HIDE DEF step
  <1>7. PICK g : Recurs(g, N, Int, 0, step)
    <2>1. IsStep(step, N, Int)
      BY <1>6 DEF IsStep
    <2> HIDE DEF Equation
    <2> QED
      BY <2>1, <1>2, RecursionExists
  <1>8. Equation(g)
    <2>1. \A i \in 0..N : i # 0 => g[i] = g[i - 1] + Of(i)
      BY <1>4, <1>6, <1>7 DEF Recurs
    <2>2. g = [i \in 0..N |-> g[i]]
      BY <1>7 DEF Recurs
    <2>3. \A i \in 0..N : g[i] = IF i = 0 THEN 0 ELSE g[i - 1] + Of(i)
      BY <1>7, <2>1 DEF Recurs
    <2> QED
      BY <2>2, <2>3
  <1>9. Equation(K)
    BY <1>8, Zenon DEF Scoring, N, Of
  <1> HIDE DEF K
  <1>10. K[0] = 0 /\ \A k \in 1..N : K[k] = K[k - 1] + Of(k)
    <2>1. \A i \in 0..N : K[i] = IF i = 0 THEN 0 ELSE K[i - 1] + Of(i)
      BY <1>9, Zenon
    <2> QED
      BY <1>2, <1>5, <2>1, ZenonT(40)
  <1>11. 0 \in Z
    BY <1>2, <1>10
  <1>12. ASSUME NEW k \in 1..N, k - 1 \in Z PROVE k \in Z
    BY <1>3, <1>5, <1>10, <1>12
  <1> HIDE DEF Z
  <1>13. 0..N \subseteq Z
    BY <1>2, <1>11, <1>12, UpToInduction
  <1>14. K[N] \in Int
    BY <1>2, <1>13 DEF Z
  <1>15. index[d].ai \in Int
    BY DocumentType
  <1>16. Score(d, q) = (50 - index[d].ai) * K[N]
    BY Zenon DEF Score, K, N
  <1> QED
    BY <1>14, <1>15, <1>16

\* Of finitely many elements with integer scores one has the least.
LEMMA LeastExists ==
  ASSUME NEW S, NEW score, \A d \in S : score[d] \in Int
  PROVE  \A T \in SUBSET S : IsFiniteSet(T) /\ T # {} =>
           \E m \in T : \A x \in T : score[m] <= score[x]
  <1> DEFINE Has(T) == \E m \in T : \A x \in T : score[m] <= score[x]
             Z == {n \in Nat : \A T \in SUBSET S : IsFiniteSet(T) /\ Cardinality(T) = n /\ T # {} => Has(T)}
  <1>1. 0 \in Z
    BY FS_EmptySet
  <1>2. ASSUME NEW n \in Nat, n \in Z PROVE n + 1 \in Z
    <2>1. ASSUME NEW T \in SUBSET S, IsFiniteSet(T), Cardinality(T) = n + 1, T # {} PROVE Has(T)
      <3>1. PICK e \in T : TRUE
        BY <2>1
      <3> DEFINE R == T \ {e}
      <3>2. IsFiniteSet(R) /\ Cardinality(R) = n /\ R \in SUBSET S
        <4>1. IsFiniteSet(R) /\ Cardinality(R) = Cardinality(T) - 1
          BY <2>1, <3>1, FS_RemoveElement
        <4> QED
          BY <2>1, <4>1
      <3>3. CASE R = {}
        <4>1. \A x \in T : x = e
          BY <3>3
        <4> QED
          BY <3>1, <4>1
      <3>4. CASE R # {}
        <4>1. PICK m \in R : \A x \in R : score[m] <= score[x]
          BY <1>2, <3>2, <3>4
        <4>2. score[m] \in Int /\ score[e] \in Int /\ \A x \in T : x \in R \/ x = e
          BY <3>1
        <4>3. CASE score[m] <= score[e]
          BY <4>1, <4>2, <4>3
        <4>4. CASE score[e] < score[m]
          <5>1. \A x \in T : score[e] <= score[x]
            BY <4>1, <4>2, <4>4
          <5> QED
            BY <3>1, <5>1
        <4> QED
          BY <4>2, <4>3, <4>4
      <3> QED
        BY <3>3, <3>4
    <2> QED
      BY <2>1
  <1> HIDE DEF Z
  <1>3. Nat \subseteq Z
    BY <1>1, <1>2, NatSetInduction
  <1>4. \A T \in SUBSET S : IsFiniteSet(T) => Cardinality(T) \in Nat
    BY FS_CardinalityType
  <1> HIDE DEF Has
  <1>5. \A T \in SUBSET S : IsFiniteSet(T) /\ T # {} => Has(T)
    BY <1>3, <1>4 DEF Z
  <1> QED
    BY <1>5 DEF Has

\* An order of a set: each of its elements, once, by falling score.
Falls(s, score) == \A i, j \in DOMAIN s : i < j => score[s[i]] >= score[s[j]]
Orders(s, S, score) ==
  /\ s \in [1..Cardinality(S) -> S] /\ \A d \in S : \E i \in DOMAIN s : s[i] = d
  /\ Falls(s, score)

\* Finitely many elements with integer scores can be sorted.
LEMMA OrderExists ==
  ASSUME NEW S, IsFiniteSet(S), NEW score, \A d \in S : score[d] \in Int
  PROVE  \E s : Orders(s, S, score)
  <1> DEFINE Z == {n \in Nat : \A T \in SUBSET S :
                     IsFiniteSet(T) /\ Cardinality(T) = n => \E s : Orders(s, T, score)}
  <1>1. 0 \in Z
    <2>1. ASSUME NEW T \in SUBSET S, IsFiniteSet(T), Cardinality(T) = 0
          PROVE  \E s : Orders(s, T, score)
      <3>1. T = {}
        BY <2>1, FS_EmptySet
      <3> DEFINE s == [i \in 1..0 |-> i]
      <3>2. 1..0 = {} /\ DOMAIN s = {}
        OBVIOUS
      <3>3. s \in [1..0 -> T]
        BY <3>2
      <3> HIDE DEF s
      <3>4. Orders(s, T, score)
        BY <2>1, <3>1, <3>2, <3>3 DEF Orders, Falls
      <3> QED
        BY <3>4
    <2> QED
      BY <2>1
  <1>2. ASSUME NEW n \in Nat, n \in Z PROVE n + 1 \in Z
    <2>1. ASSUME NEW T \in SUBSET S, IsFiniteSet(T), Cardinality(T) = n + 1
          PROVE  \E s : Orders(s, T, score)
      <3>1. T # {}
        BY <2>1, FS_EmptySet
      <3>2. PICK m \in T : \A x \in T : score[m] <= score[x]
        BY <2>1, <3>1, LeastExists
      <3> DEFINE R == T \ {m}
      <3>3. IsFiniteSet(R) /\ Cardinality(R) = n /\ R \in SUBSET S
        <4>1. IsFiniteSet(R) /\ Cardinality(R) = Cardinality(T) - 1
          BY <2>1, <3>2, FS_RemoveElement
        <4> QED
          BY <2>1, <4>1
      <3>4. PICK s : Orders(s, R, score)
        BY <1>2, <3>3
      <3>5. s \in [1..n -> R] /\ (\A d \in R : \E i \in 1..n : s[i] = d) /\ Falls(s, score)
        BY <3>3, <3>4 DEF Orders
      <3> DEFINE t == [i \in 1..(n + 1) |-> IF i <= n THEN s[i] ELSE m]
      <3>6. /\ DOMAIN t = 1..(n + 1) /\ t[n + 1] = m
            /\ \A i \in 1..n : i \in 1..(n + 1) /\ t[i] = s[i] /\ t[i] \in T
            /\ \A i \in 1..(n + 1) : i = n + 1 \/ i \in 1..n
        BY <3>5
      <3>7. t \in [1..(n + 1) -> T]
        BY <3>2, <3>5
      <3> HIDE DEF t
      <3>8. \A d \in T : \E i \in DOMAIN t : t[i] = d
        <4>1. ASSUME NEW d \in T PROVE \E i \in DOMAIN t : t[i] = d
          <5>1. CASE d = m
            BY <3>6, <5>1
          <5>2. CASE d # m
            BY <3>5, <3>6, <5>2
          <5> QED
            BY <5>1, <5>2
        <4> QED
          BY <4>1
      <3>9. Falls(t, score)
        <4>1. ASSUME NEW i \in 1..(n + 1), NEW j \in 1..(n + 1), i < j
              PROVE  score[t[i]] >= score[t[j]]
          <5>1. i \in 1..n
            BY <4>1
          <5>2. CASE j = n + 1
            <6>1. t[j] = m /\ t[i] \in T /\ score[t[i]] \in Int /\ score[m] \in Int
              BY <3>6, <5>1, <5>2
            <6> QED
              BY <3>2, <6>1
          <5>3. CASE j \in 1..n
            BY <3>5, <3>6, <4>1, <5>1, <5>3 DEF Falls
          <5> QED
            BY <5>2, <5>3
        <4> QED
          BY <3>6, <4>1 DEF Falls
      <3>10. Orders(t, T, score)
        BY <2>1, <3>7, <3>8, <3>9 DEF Orders
      <3> QED
        BY <3>10
    <2> QED
      BY <2>1
  <1> HIDE DEF Z
  <1>3. Nat \subseteq Z
    BY <1>1, <1>2, NatSetInduction
  <1>4. Cardinality(S) \in Nat /\ S \in SUBSET S
    BY FS_CardinalityType
  <1> QED
    BY <1>3, <1>4 DEF Z

\* What the sort returns is such an order.
LEMMA SortedOrders ==
  ASSUME NEW S, IsFiniteSet(S), NEW score, \A d \in S : score[d] \in Int
  PROVE  Orders(Sorted(S, score), S, score)
  <1> DEFINE Is(s) == /\ \A d \in S : \E i \in DOMAIN s : s[i] = d
                      /\ \A i, j \in DOMAIN s : i < j => score[s[i]] >= score[s[j]]
             F == [1..Cardinality(S) -> S]
  <1>1. PICK s : Orders(s, S, score)
    BY OrderExists
  <1>2. s \in F /\ Is(s)
    BY <1>1 DEF Orders, Falls
  <1>3. Sorted(S, score) = CHOOSE r \in F : Is(r)
    BY Zenon DEF Sorted
  <1> HIDE DEF Is, F
  <1>4. Sorted(S, score) \in F /\ Is(Sorted(S, score))
    BY <1>2, <1>3, Zenon
  <1> QED
    BY <1>4, Zenon DEF Is, F, Orders, Falls

\* The matches are finitely many documents.
LEMMA MatchesFinite ==
  ASSUME IndexTyped, NEW q
  PROVE  /\ Matches(q) \subseteq Doc /\ IsFiniteSet(Matches(q))
         /\ Cardinality(Matches(q)) \in Nat
  <1>1. Matches(q) \subseteq listed
    BY DEF Matches
  <1>2. Matches(q) \subseteq Doc
    BY <1>1 DEF IndexTyped
  <1>3. IsFiniteSet(Matches(q))
    BY <1>2, QueryAssumption, FS_Subset
  <1> QED
    BY <1>2, <1>3, FS_CardinalityType

\* The ranking has each match once, by falling score.
LEMMA RankingSays ==
  ASSUME IndexTyped, NEW q \in PQuery
  PROVE  LET R == Ranking(q) IN
         /\ R \in Seq(Matches(q)) /\ Len(R) = Cardinality(Matches(q))
         /\ \A d \in Matches(q) : \E i \in 1..Len(R) : R[i] = d
         /\ \A i, j \in 1..Len(R) : R[i] = R[j] => i = j
         /\ \A i, j \in 1..Len(R) : i < j => Score(R[i], q) >= Score(R[j], q)
  <1> DEFINE S == Matches(q)
             score == [d \in S |-> Score(d, q)]
             R == Ranking(q)
             n == Cardinality(S)
  <1>1. S \subseteq Doc /\ IsFiniteSet(S) /\ n \in Nat
    BY MatchesFinite
  <1>2. \A d \in S : score[d] \in Int
    BY <1>1, ScoreType
  <1>3. R = Sorted(S, score)
    BY Zenon DEF Ranking
  <1>4. \A d \in S : score[d] = Score(d, q)
    OBVIOUS
  <1> HIDE DEF S, score, R
  <1>5. Orders(R, S, score)
    BY <1>1, <1>2, <1>3, SortedOrders
  <1>6. R \in [1..n -> S] /\ (\A d \in S : \E i \in DOMAIN R : R[i] = d) /\ Falls(R, score)
    BY <1>5 DEF Orders
  <1> HIDE DEF n
  <1>7. R \in Seq(S) /\ Len(R) = n /\ DOMAIN R = 1..n
    BY <1>1, <1>6
  <1>8. \A i, j \in 1..n : R[i] = R[j] => i = j
    <2>1. R \in Surjection(1..n, S)
      BY <1>6, <1>7, ZenonT(40) DEF Surjection
    <2>2. IsFiniteSet(1..n) /\ Cardinality(1..n) = n
      BY <1>1, FS_Interval
    <2>3. R \in Injection(1..n, S)
      BY <2>1, <2>2, FS_SurjSameCardinalityImpliesInj DEF n
    <2> QED
      BY <2>3 DEF Injection, IsInjective
  <1>9. \A i, j \in 1..n : i < j => Score(R[i], q) >= Score(R[j], q)
    <2>1. ASSUME NEW i \in 1..n, NEW j \in 1..n, i < j PROVE Score(R[i], q) >= Score(R[j], q)
      <3>1. R[i] \in S /\ R[j] \in S /\ score[R[i]] >= score[R[j]]
        BY <1>6, <1>7, <2>1 DEF Falls
      <3> QED
        BY <1>4, <3>1
    <2> QED
      BY <2>1
  <1>10. \A d \in S : \E i \in 1..n : R[i] = d
    BY <1>6, <1>7
  <1> QED
    BY <1>7, <1>8, <1>9, <1>10 DEF R, S, n

-----------------------------------------------------------------------------
(* The pages.                                                              *)

\* How far m results reach into a ranking.
Reach(R, m) == IF Len(R) > m THEN m ELSE Len(R)

\* The results of a page are those after the pages before it.
LEMMA PageIs ==
  ASSUME NEW typed, NEW p \in Nat \ {0}, NEW S, Ranking(Parse(typed)) \in Seq(S),
         limit \in Nat \ {0}
  PROVE  LET R == Ranking(Parse(typed)) IN
         ExecuteSearch(typed, p) = SubSeq(R, Reach(R, limit * (p - 1)) + 1, Reach(R, limit * p))
  <1> DEFINE R == Ranking(Parse(typed))
             x == (p - 1) * limit
             a == Reach(R, limit * (p - 1))
             b == Reach(R, limit * p)
             r == SubSeq(R, 1, b)
             end == IF x + limit < Len(r) THEN x + limit ELSE Len(r)
  <1>1. ExecuteSearch(typed, p) = IF r = <<>> THEN <<>> ELSE SubSeq(r, x + 1, end)
    BY Zenon DEF ExecuteSearch, Rank, StartIndex, Reach
  <1>2. x \in Nat /\ limit * (p - 1) = x /\ limit * p = x + limit
    OBVIOUS
  <1> HIDE DEF x, R
  <1>3. /\ a = IF Len(R) > x THEN x ELSE Len(R)
        /\ b = IF Len(R) > x + limit THEN x + limit ELSE Len(R)
    BY <1>2 DEF Reach
  <1>4. R \in Seq(S)
    BY DEF R
  <1> HIDE DEF a, b
  <1>5. a \in Nat /\ b \in Nat /\ a <= b /\ b <= Len(R) /\ b <= x + limit
    BY <1>2, <1>3, <1>4
  <1>6. /\ r \in Seq(S) /\ Len(r) = b
        /\ \A i \in 1..b : r[i] = R[i]
    BY <1>4, <1>5
  <1> HIDE DEF r
  <1>7. end = b
    BY <1>2, <1>5, <1>6
  <1>8. SubSeq(R, a + 1, b) = [i \in 1..(b - a) |-> R[i + a]]
    BY <1>4, <1>5
  <1>9. CASE r = <<>>
    <2>1. b = 0 /\ a = 0
      BY <1>5, <1>6, <1>9
    <2>2. SubSeq(R, 1, 0) = <<>>
      OBVIOUS
    <2> QED
      BY <1>1, <1>9, <2>1, <2>2 DEF R, a, b
  <1>10. CASE r # <<>>
    <2>1. SubSeq(r, x + 1, b) = [i \in 1..(b - x) |-> r[i + x]]
      BY <1>2, <1>5, <1>6
    <2>2. 1..(b - x) = 1..(b - a) /\ \A i \in 1..(b - x) : x = a /\ i + x \in 1..b
      <3>1. CASE a = x
        BY <1>2, <1>5, <3>1
      <3>2. CASE a # x
        <4>1. a = b /\ b < x
          BY <1>2, <1>3, <1>4, <1>5, <3>2
        <4>2. 1..(b - x) = {} /\ 1..(b - a) = {}
          BY <1>2, <1>5, <4>1
        <4> QED
          BY <4>2
      <3> QED
        BY <3>1, <3>2
    <2>3. [i \in 1..(b - x) |-> r[i + x]] = [i \in 1..(b - a) |-> R[i + a]]
      BY <1>6, <2>2
    <2>4. ExecuteSearch(typed, p) = SubSeq(r, x + 1, b)
      BY <1>1, <1>7, <1>10
    <2>5. ExecuteSearch(typed, p) = SubSeq(R, a + 1, b)
      BY <1>8, <2>1, <2>3, <2>4
    <2> QED
      BY <2>5 DEF R, a, b
  <1> QED
    BY <1>9, <1>10

\* Two pieces of a sequence that follow each other make one.
LEMMA PiecesJoin ==
  ASSUME NEW S, NEW R \in Seq(S), NEW a \in 0..Len(R), NEW b \in a..Len(R)
  PROVE  SubSeq(R, 1, a) \o SubSeq(R, a + 1, b) = SubSeq(R, 1, b)
  <1> DEFINE s == SubSeq(R, 1, a)
             t == SubSeq(R, a + 1, b)
             u == SubSeq(R, 1, b)
             c == s \o t
  <1>0. a \in Nat /\ b \in Nat /\ a <= b /\ b - a \in Nat
    OBVIOUS
  <1>1. s \in Seq(S) /\ Len(s) = a /\ \A i \in 1..a : s[i] = R[i]
    OBVIOUS
  <1>2. t \in Seq(S) /\ Len(t) = b - a /\ \A i \in 1..(b - a) : t[i] = R[a + i]
    OBVIOUS
  <1>3. u \in Seq(S) /\ Len(u) = b /\ \A i \in 1..b : u[i] = R[i]
    OBVIOUS
  <1> HIDE DEF s, t, u
  <1>4. c \in Seq(S) /\ Len(c) = b
    BY <1>0, <1>1, <1>2
  <1>5. \A i \in 1..a : c[i] = s[i]
    BY <1>0, <1>1, <1>2
  <1>6. \A i \in (a + 1)..b : c[i] = t[i - a]
    BY <1>0, <1>1, <1>2
  <1> HIDE DEF c
  <1>7. \A i \in 1..b : c[i] = u[i]
    <2>1. ASSUME NEW i \in 1..b PROVE c[i] = u[i]
      <3>1. CASE i <= a
        BY <1>1, <1>3, <1>5, <3>1
      <3>2. CASE i > a
        <4>1. i \in (a + 1)..b /\ i - a \in 1..(b - a) /\ a + (i - a) = i
          BY <1>0, <3>2
        <4>2. c[i] = t[i - a] /\ u[i] = R[i]
          BY <1>3, <1>6, <4>1
        <4>3. t[i - a] = R[a + (i - a)]
          BY <1>2, <4>1
        <4> QED
          BY <4>1, <4>2, <4>3
      <3> QED
        BY <1>0, <3>1, <3>2
    <2> QED
      BY <2>1
  <1>8. c = u
    BY <1>3, <1>4, <1>7
  <1> QED
    BY <1>8 DEF c, s, t, u

\* A page has matches only, and any page is one.
LEMMA PageMatches ==
  ASSUME IndexTyped, NEW typed \in Seq(Token), NEW p \in Nat \ {0}, limit \in Nat \ {0}
  PROVE  ExecuteSearch(typed, p) \in Seq(Matches(Parse(typed)))
  <1> DEFINE S == Matches(Parse(typed))
             R == Ranking(Parse(typed))
             a == Reach(R, limit * (p - 1))
             b == Reach(R, limit * p)
  <1>1. R \in Seq(S)
    BY ParseSays, RankingSays
  <1>2. ExecuteSearch(typed, p) = SubSeq(R, a + 1, b)
    BY <1>1, PageIs
  <1>3. limit * (p - 1) \in Nat /\ limit * p \in Nat
    OBVIOUS
  <1> HIDE DEF R, S
  <1>4. a \in 0..Len(R) /\ b \in 0..Len(R)
    BY <1>1, <1>3 DEF Reach
  <1> HIDE DEF a, b
  <1>5. SubSeq(R, a + 1, b) \in Seq(S)
    BY <1>1, <1>4
  <1>6. ExecuteSearch(typed, p) \in Seq(S)
    BY <1>2, <1>5
  <1> QED
    BY <1>6 DEF S

\* The same index gives the same matches, in the same order.
LEMMA SameRanking ==
  ASSUME index' = index, listed' = listed
  PROVE  \A q : Matches(q)' = Matches(q) /\ Ranking(q)' = Ranking(q)
  <1>1. \A d, f, t : Positions(d, f, t)' = Positions(d, f, t)
    BY DEF Positions
  <1>2. \A d, f, t : Frequency(d, f, t)' = Frequency(d, f, t)
    BY DEF Frequency
  <1>3. \A d, t : Aggregate(d, t)' = Aggregate(d, t)
    BY <1>1, <1>2 DEF Aggregate
  <1>4. \A d, t : FieldsWith(d, t)' = FieldsWith(d, t)
    BY DEF FieldsWith
  <1>5. \A d, q : TermsOf(d, q)' = TermsOf(d, q)
    BY <1>4 DEF TermsOf
  <1>6. \A d, q : HasExcludedTerms(d, q)' <=> HasExcludedTerms(d, q)
    BY <1>5 DEF HasExcludedTerms
  <1>7. \A d, q : PassesFilters(d, q)' <=> PassesFilters(d, q)
    BY DEF PassesFilters, EraOf
  <1>8. \A d, t1, t2 : MatchesPhrase(d, t1, t2)' <=> MatchesPhrase(d, t1, t2)
    BY <1>3 DEF MatchesPhrase
  <1>9. \A d, q : CheckPhrases(d, q)' <=> CheckPhrases(d, q)
    BY <1>5, <1>8 DEF CheckPhrases
  <1>10. \A q : Matches(q)' = Matches(q)
    BY <1>5, <1>6, <1>7, <1>9 DEF Matches
  <1>11. \A d, q : Scoring(d, q)' = Scoring(d, q)
    BY <1>3, <1>5 DEF Scoring
  <1>12. \A d, q : Score(d, q)' = Score(d, q)
    BY <1>11 DEF Score
  <1>13. \A q : Ranking(q)' = Ranking(q)
    BY <1>10, <1>12 DEF Ranking
  <1> QED
    BY <1>10, <1>13

-----------------------------------------------------------------------------
(* The prompt.                                                             *)

\* What is shown is matches, and from the first page on the pages are pieces of one
\* ranking that follow each other.
Shows(q) ==
  LET R == Ranking(q) IN
  /\ shown \in Seq(Matches(q)) /\ trail \in Seq(Matches(q)) /\ paged \in BOOLEAN
  /\ paged => /\ trail = SubSeq(R, 1, Reach(R, limit * page))
              /\ shown = SubSeq(R, Reach(R, limit * (page - 1)) + 1, Reach(R, limit * page))

QueryTyped == query \in Queries \cup {<<>>} /\ limit \in Limits /\ page \in 1..MaxPage

QueryInv == IndexTyped /\ QueryTyped /\ \E q : q = Parse(query) /\ Shows(q)

\* A query is a sequence of tokens, and a limit and a page are positive.
LEMMA TypedSequence ==
  /\ \A typed \in Queries \cup {<<>>} : typed \in Seq(Token)
  /\ \A n \in Limits : n \in Nat \ {0}
  /\ \A p \in 1..MaxPage : p \in Nat \ {0}
  /\ 1 \in 1..MaxPage
  <1> DEFINE S == Seq(Token)
  <1>1. <<>> \in S
    OBVIOUS
  <1>2. Queries \subseteq S /\ Limits \subseteq Nat \ {0} /\ MaxPage \in Nat \ {0}
    BY QueryAssumption
  <1> HIDE DEF S
  <1>3. \A typed \in Queries \cup {<<>>} : typed \in S
    BY <1>1, <1>2
  <1>4. /\ \A p \in 1..MaxPage : p \in Nat \ {0}
        /\ 1 \in 1..MaxPage
    BY <1>2
  <1> QED
    BY <1>2, <1>3, <1>4 DEF S

\* The invariant holds of the first prompt.
LEMMA InitInv == Init => QueryInv
  <1> SUFFICES ASSUME Init PROVE QueryInv
    OBVIOUS
  <1> DEFINE q == Parse(query)
  <1>1. IndexTyped
    BY DEF Init, IndexTyped
  <1>2. QueryTyped
    BY TypedSequence DEF Init, QueryTyped
  <1>3. shown = <<>> /\ trail = <<>> /\ paged = FALSE
    BY DEF Init
  <1> HIDE DEF q
  <1>4. Shows(q)
    <2>1. <<>> \in Seq(Matches(q))
      OBVIOUS
    <2> QED
      BY <1>3, <2>1, Zenon DEF Shows
  <1> QED
    BY <1>1, <1>2, <1>4 DEF QueryInv, q

\* A search shows the first page.
LEMMA SearchInv ==
  ASSUME QueryInv, NEW typed \in Queries, Search(typed)
  PROVE  QueryInv'
  <1> DEFINE q == Parse(typed)
             R == Ranking(q)
  <1>1. /\ query' = typed /\ page' = 1 /\ limit' = limit /\ index' = index /\ listed' = listed
        /\ shown' = ExecuteSearch(typed, 1) /\ paged' = TRUE /\ trail' = shown'
    BY DEF Search
  <1>2. IndexTyped /\ QueryTyped
    BY DEF QueryInv
  <1>3. typed \in Seq(Token) /\ limit \in Nat \ {0} /\ 1 \in Nat \ {0} /\ limit \in Limits
    BY <1>2, TypedSequence DEF QueryTyped
  <1>4. IndexTyped' /\ QueryTyped'
    BY <1>1, <1>2, TypedSequence DEF IndexTyped, QueryTyped
  <1>5. R \in Seq(Matches(q))
    BY <1>2, <1>3, ParseSays, RankingSays
  <1>6. shown' \in Seq(Matches(q))
    BY <1>1, <1>2, <1>3, PageMatches
  <1>7. shown' = SubSeq(R, Reach(R, limit * (1 - 1)) + 1, Reach(R, limit * 1))
    BY <1>1, <1>3, <1>5, PageIs
  <1>8. Matches(q)' = Matches(q) /\ R' = R
    <2>1. \A p : Matches(p)' = Matches(p) /\ Ranking(p)' = Ranking(p)
      BY <1>1, SameRanking
    <2> QED
      BY <2>1, Zenon
  <1> HIDE DEF q, R
  <1>9. Reach(R, limit * (1 - 1)) = 0
    BY <1>3, <1>5 DEF Reach
  <1>10. /\ shown' = SubSeq(R, Reach(R, limit' * (page' - 1)) + 1, Reach(R, limit' * page'))
         /\ trail' = SubSeq(R, 1, Reach(R, limit' * page'))
    BY <1>1, <1>7, <1>9
  <1> USE DEF R
  <1>11. Shows(q)'
    BY <1>1, <1>6, <1>8, <1>10 DEF Shows, Reach
  <1>12. q = Parse(query)'
    BY <1>1 DEF q
  <1> QED
    BY <1>4, <1>11, <1>12 DEF QueryInv

\* The next page goes on where the last one ended.
LEMMA NextPageInv ==
  ASSUME QueryInv, NextPage
  PROVE  QueryInv'
  <1>1. /\ query # <<>> /\ page < MaxPage /\ page' = page + 1 /\ paged' = paged
        /\ query' = query /\ limit' = limit /\ index' = index /\ listed' = listed
        /\ shown' = ExecuteSearch(query, page + 1) /\ trail' = trail \o shown'
    BY DEF NextPage
  <1>2. IndexTyped /\ QueryTyped
    BY DEF QueryInv
  <1>3. PICK q : q = Parse(query) /\ Shows(q)
    BY DEF QueryInv
  <1> DEFINE R == Ranking(q)
             S == Matches(q)
             p == page + 1
  <1>4. /\ query \in Seq(Token) /\ limit \in Nat \ {0} /\ page \in Nat \ {0} /\ limit \in Limits
        /\ p \in Nat \ {0} /\ p \in 1..MaxPage /\ p - 1 = page
    <2>1. page \in Nat \ {0} /\ MaxPage \in Nat
      BY <1>2, TypedSequence, QueryAssumption DEF QueryTyped
    <2>2. query \in Seq(Token) /\ limit \in Nat \ {0} /\ limit \in Limits
      BY <1>2, TypedSequence DEF QueryTyped
    <2> QED
      BY <1>1, <2>1, <2>2
  <1>5. IndexTyped' /\ QueryTyped'
    BY <1>1, <1>2, <1>4 DEF IndexTyped, QueryTyped
  <1>6. R \in Seq(S)
    BY <1>2, <1>3, <1>4, ParseSays, RankingSays
  <1>7. shown' \in Seq(S)
    BY <1>1, <1>2, <1>3, <1>4, PageMatches
  <1>8. shown' = SubSeq(R, Reach(R, limit * (p - 1)) + 1, Reach(R, limit * p))
    BY <1>1, <1>3, <1>4, <1>6, PageIs
  <1>9. S' = S /\ R' = R
    <2>1. \A z : Matches(z)' = Matches(z) /\ Ranking(z)' = Ranking(z)
      BY <1>1, SameRanking
    <2> QED
      BY <2>1, Zenon
  <1>10. /\ trail \in Seq(S) /\ paged \in BOOLEAN
         /\ paged => trail = SubSeq(R, 1, Reach(R, limit * page))
    BY <1>3 DEF Shows
  <1> HIDE DEF S, R
  <1>11. trail' \in Seq(S)
    BY <1>1, <1>7, <1>10
  <1>12. limit * page \in Nat /\ limit * p = limit * page + limit
    BY <1>4
  <1>13. Reach(R, limit * page) \in 0..Len(R) /\ Reach(R, limit * p) \in Reach(R, limit * page)..Len(R)
    BY <1>4, <1>6, <1>12 DEF Reach
  <1>14. ASSUME paged PROVE trail' = SubSeq(R, 1, Reach(R, limit * p))
    <2> DEFINE a == Reach(R, limit * page)
               b == Reach(R, limit * p)
    <2>1. trail = SubSeq(R, 1, a)
      BY <1>10, <1>14
    <2>2. shown' = SubSeq(R, a + 1, b)
      BY <1>4, <1>8
    <2>3. a \in 0..Len(R) /\ b \in a..Len(R)
      BY <1>13
    <2> HIDE DEF a, b
    <2>4. SubSeq(R, 1, a) \o SubSeq(R, a + 1, b) = SubSeq(R, 1, b)
      BY <1>6, <2>3, PiecesJoin
    <2> QED
      BY <1>1, <2>1, <2>2, <2>4 DEF b
  <1>15. /\ shown' = SubSeq(R, Reach(R, limit' * (page' - 1)) + 1, Reach(R, limit' * page'))
         /\ paged' => trail' = SubSeq(R, 1, Reach(R, limit' * page'))
    BY <1>1, <1>8, <1>14
  <1>16. shown' \in Seq(S') /\ trail' \in Seq(S') /\ paged' \in BOOLEAN
    BY <1>1, <1>7, <1>9, <1>10, <1>11
  <1>17. /\ shown' = SubSeq(R', Reach(R', limit' * (page' - 1)) + 1, Reach(R', limit' * page'))
         /\ paged' => trail' = SubSeq(R', 1, Reach(R', limit' * page'))
    BY <1>9, <1>15
  <1> USE DEF S, R
  <1>18. Shows(q)'
    BY <1>16, <1>17 DEF Shows, Reach
  <1>19. q = Parse(query)'
    BY <1>1, <1>3
  <1> QED
    BY <1>5, <1>18, <1>19 DEF QueryInv

\* Any other page begins no series.
LEMMA JumpInv ==
  ASSUME QueryInv, query # <<>>, NEW p \in 1..MaxPage, Jump(p)
  PROVE  QueryInv'
  <1>1. /\ page' = p /\ paged' = FALSE /\ trail' = <<>> /\ shown' = ExecuteSearch(query, p)
        /\ query' = query /\ limit' = limit /\ index' = index /\ listed' = listed
    BY DEF Jump
  <1>2. IndexTyped /\ QueryTyped
    BY DEF QueryInv
  <1>3. PICK q : q = Parse(query)
    OBVIOUS
  <1>4. query \in Seq(Token) /\ limit \in Nat \ {0} /\ p \in Nat \ {0}
    BY <1>2, TypedSequence DEF QueryTyped
  <1>5. IndexTyped' /\ QueryTyped'
    BY <1>1, <1>2 DEF IndexTyped, QueryTyped
  <1>6. shown' \in Seq(Matches(q))
    BY <1>1, <1>2, <1>3, <1>4, PageMatches
  <1>7. Matches(q)' = Matches(q)
    <2>1. \A z : Matches(z)' = Matches(z)
      BY <1>1, SameRanking
    <2> QED
      BY <2>1, Zenon
  <1>8. Shows(q)'
    <2>1. <<>> \in Seq(Matches(q)')
      OBVIOUS
    <2>2. shown' \in Seq(Matches(q)')
      BY <1>6, <1>7
    <2>3. paged' \in BOOLEAN /\ ~paged'
      BY <1>1
    <2> QED
      BY <1>1, <2>1, <2>2, <2>3, ZenonT(40) DEF Shows
  <1>9. q = Parse(query)'
    BY <1>1, <1>3
  <1> QED
    BY <1>5, <1>8, <1>9 DEF QueryInv

\* A new limit leaves the page that was printed, and ends the series.
LEMMA SetLimitInv ==
  ASSUME QueryInv, NEW n \in Limits, SetLimit(n)
  PROVE  QueryInv'
  <1>1. /\ limit' = n /\ paged' = FALSE /\ trail' = <<>>
        /\ page' = page /\ shown' = shown /\ query' = query /\ index' = index /\ listed' = listed
    BY DEF SetLimit
  <1>2. IndexTyped' /\ QueryTyped'
    BY <1>1 DEF QueryInv, IndexTyped, QueryTyped
  <1>3. PICK q : q = Parse(query) /\ Shows(q)
    BY DEF QueryInv
  <1>4. Matches(q)' = Matches(q)
    <2>1. \A z : Matches(z)' = Matches(z)
      BY <1>1, SameRanking
    <2> QED
      BY <2>1, Zenon
  <1>5. shown' \in Seq(Matches(q))
    BY <1>1, <1>3 DEF Shows
  <1>6. Shows(q)'
    <2>1. <<>> \in Seq(Matches(q)')
      OBVIOUS
    <2>2. shown' \in Seq(Matches(q)')
      BY <1>4, <1>5
    <2>3. paged' \in BOOLEAN /\ ~paged'
      BY <1>1
    <2> QED
      BY <1>1, <2>1, <2>2, <2>3, ZenonT(40) DEF Shows
  <1>7. q = Parse(query)'
    BY <1>1, <1>3
  <1> QED
    BY <1>2, <1>6, <1>7 DEF QueryInv

\* Nothing else changes what the invariant is about.
LEMMA StutterInv ==
  ASSUME QueryInv, UNCHANGED vars
  PROVE  QueryInv'
  <1>1. /\ limit' = limit /\ paged' = paged /\ trail' = trail
        /\ page' = page /\ shown' = shown /\ query' = query /\ index' = index /\ listed' = listed
    BY DEF vars
  <1>2. IndexTyped' /\ QueryTyped'
    BY <1>1 DEF QueryInv, IndexTyped, QueryTyped
  <1>3. PICK q : q = Parse(query) /\ Shows(q)
    BY DEF QueryInv
  <1> DEFINE R == Ranking(q)
             S == Matches(q)
  <1>4. S' = S /\ R' = R
    <2>1. \A z : Matches(z)' = Matches(z) /\ Ranking(z)' = Ranking(z)
      BY <1>1, SameRanking
    <2> QED
      BY <2>1, Zenon
  <1>5. Shows(q)'
    BY <1>1, <1>3, <1>4 DEF Shows, Reach
  <1>6. q = Parse(query)'
    BY <1>1, <1>3
  <1> QED
    BY <1>2, <1>5, <1>6 DEF QueryInv

\* The invariant is inductive.
LEMMA NextInv == QueryInv /\ [Next]_vars => QueryInv'
  <1> SUFFICES ASSUME QueryInv, [Next]_vars PROVE QueryInv'
    OBVIOUS
  <1>1. CASE \E typed \in Queries : Search(typed)
    BY <1>1, SearchInv
  <1>2. CASE NextPage
    BY <1>2, NextPageInv
  <1>3. CASE PrevPage
    <2>1. page \in 1..MaxPage /\ MaxPage \in Nat
      BY QueryAssumption DEF QueryInv, QueryTyped
    <2>2. query # <<>> /\ page - 1 \in 1..MaxPage /\ Jump(page - 1)
      BY <1>3, <2>1 DEF PrevPage
    <2>3. PICK p : p = page - 1
      OBVIOUS
    <2>4. p \in 1..MaxPage /\ Jump(p)
      BY <2>2, <2>3 DEF Jump
    <2> QED
      BY <2>2, <2>4, JumpInv
  <1>4. CASE \E p \in 1..MaxPage : GoToPage(p)
    BY <1>4, JumpInv DEF GoToPage
  <1>5. CASE \E n \in Limits : SetLimit(n)
    BY <1>5, SetLimitInv
  <1>6. CASE UNCHANGED vars
    BY <1>6, StutterInv
  <1> QED
    BY <1>1, <1>2, <1>3, <1>4, <1>5, <1>6 DEF Next

\* The query and the index have their types, what is shown is matches of the query,
\* and the pages reached from the first one by "next" are consecutive pieces of one
\* ranking.
THEOREM PiecesOfOneRanking == Spec => []QueryInv
  BY InitInv, NextInv, PTL DEF Spec

\* In every state the variables of the prompt have their types; in particular there is
\* no page before the first and none beyond the last.
THEOREM TypeCorrect == Spec => []TypeOK
  <1>1. QueryInv => TypeOK
    <2> SUFFICES ASSUME QueryInv PROVE TypeOK
      OBVIOUS
    <2>1. PICK q : Shows(q)
      BY DEF QueryInv
    <2>2. Matches(q) \subseteq Doc
      BY MatchesFinite DEF QueryInv
    <2>3. ToSet(shown) \subseteq Matches(q) /\ ToSet(trail) \subseteq Matches(q) /\ paged \in BOOLEAN
      BY <2>1, ToSetType DEF Shows
    <2> QED
      BY <2>2, <2>3 DEF QueryInv, IndexTyped, QueryTyped, TypeOK
  <1> QED
    BY <1>1, PiecesOfOneRanking, PTL

\* For any documents, stems and queries: a document is printed only if it is listed, has
\* a word that was asked for, has no excluded one and obeys the last filter of each kind.
THEOREM ShownObeys == Spec => []NothingWrongShown
  <1>1. QueryInv => NothingWrongShown
    <2> SUFFICES ASSUME QueryInv, NEW i \in DOMAIN shown
                 PROVE  shown[i] \in listed /\ Asked(shown[i]) /\ ObeysFilters(shown[i])
      BY DEF NothingWrongShown
    <2>1. shown \in Seq(Matches(Parse(query)))
      BY DEF QueryInv, Shows
    <2>2. shown[i] \in Matches(Parse(query))
      BY <2>1
    <2>3. IndexTyped /\ query \in Seq(Token)
      BY TypedSequence DEF QueryInv, QueryTyped
    <2> QED
      BY <2>2, <2>3, MatchesObey
  <1> QED
    BY <1>1, PiecesOfOneRanking, PTL

\* Every listed document that has what was asked for, has the phrases and obeys the
\* filters is a match.
THEOREM NoneMissed == Spec => []NothingMissed
  <1>1. QueryInv => NothingMissed
    <2> SUFFICES ASSUME QueryInv PROVE NothingMissed
      OBVIOUS
    <2>1. IndexTyped /\ query \in Seq(Token)
      BY TypedSequence DEF QueryInv, QueryTyped
    <2> QED
      BY <2>1, MatchesAll DEF NothingMissed
  <1> QED
    BY <1>1, PiecesOfOneRanking, PTL

\* From the first page on, "next" shows each match once and in the order of the scores,
\* and has shown all of them when a page is not full.
THEOREM PagesFollow == Spec => []PagesInOrder
  <1>1. QueryInv => PagesInOrder
    <2> SUFFICES ASSUME QueryInv, paged PROVE PagesInOrder
      BY DEF PagesInOrder
    <2> DEFINE q == Parse(query)
               S == Matches(q)
               R == Ranking(q)
               m == Reach(R, limit * page)
               a == Reach(R, limit * (page - 1))
    <2>1. IndexTyped /\ query \in Seq(Token) /\ limit \in Nat \ {0} /\ page \in Nat \ {0}
      BY TypedSequence DEF QueryInv, QueryTyped
    <2>2. q \in PQuery
      BY <2>1, ParseSays
    <2>3. /\ R \in Seq(S) /\ Len(R) = Cardinality(S)
          /\ \A d \in S : \E i \in 1..Len(R) : R[i] = d
          /\ \A i, j \in 1..Len(R) : R[i] = R[j] => i = j
          /\ \A i, j \in 1..Len(R) : i < j => Score(R[i], q) >= Score(R[j], q)
      BY <2>1, <2>2, RankingSays
    <2>4. trail = SubSeq(R, 1, m) /\ shown = SubSeq(R, a + 1, m)
      BY DEF QueryInv, Shows
    <2>5. S \subseteq Doc
      BY <2>1, MatchesFinite
    <2>6. \A d \in S : Score(d, q) \in Int
      BY <2>1, <2>2, <2>5, ScoreType
    <2>7. limit * page \in Nat /\ limit * (page - 1) \in Nat /\ limit * page = limit * (page - 1) + limit
      BY <2>1
    <2> HIDE DEF q, S, R
    <2>8. /\ m \in 0..Len(R) /\ a \in 0..m
          /\ m - a < limit => m = Len(R)
      BY <2>1, <2>3, <2>7 DEF Reach
    <2> HIDE DEF m, a
    <2>9. /\ trail \in Seq(S) /\ Len(trail) = m /\ \A i \in 1..m : i \in 1..Len(R) /\ trail[i] = R[i]
          /\ DOMAIN trail = 1..m
      BY <2>3, <2>4, <2>8
    <2>10. Len(shown) = m - a
      BY <2>3, <2>4, <2>8
    <2>11. ToSet(trail) \subseteq S
      BY <2>9, ToSetType
    <2>12. Cardinality(ToSet(trail)) = Len(trail)
      <3>1. trail \in Surjection(1..m, ToSet(trail))
        <4>1. trail \in [1..m -> ToSet(trail)]
          BY <2>9 DEF ToSet
        <4>2. \A e \in ToSet(trail) : \E i \in 1..m : trail[i] = e
          BY <2>9 DEF ToSet
        <4> QED
          BY <4>1, <4>2, ZenonT(40) DEF Surjection
      <3>2. \A i, j \in 1..m : trail[i] = trail[j] => i = j
        BY <2>3, <2>9
      <3>3. trail \in Injection(1..m, ToSet(trail))
        BY <3>1, <3>2, ZenonT(40) DEF Injection, IsInjective, Surjection
      <3>4. IsFiniteSet(1..m) /\ Cardinality(1..m) = m
        BY <2>8, FS_Interval
      <3> QED
        BY <2>9, <3>1, <3>3, <3>4, FS_Surjection
    <2>13. Len(shown) < limit => ToSet(trail) = S
      <3> SUFFICES ASSUME Len(shown) < limit PROVE S \subseteq ToSet(trail)
        BY <2>11
      <3>1. m = Len(R)
        BY <2>8, <2>10
      <3> QED
        BY <2>3, <2>9, <3>1 DEF ToSet
    <2>14. ASSUME NEW i \in DOMAIN trail, NEW d \in S \ ToSet(SubSeq(trail, 1, i - 1))
           PROVE  Score(trail[i], q) >= Score(d, q)
      <3>1. i \in 1..m /\ i \in 1..Len(R) /\ trail[i] = R[i]
        BY <2>9
      <3>2. PICK j \in 1..Len(R) : R[j] = d
        BY <2>3
      <3>3. ~(j < i)
        <4>1. ASSUME j < i PROVE FALSE
          <5> DEFINE b == SubSeq(trail, 1, i - 1)
          <5>1. j \in 1..(i - 1) /\ j \in 1..m /\ i - 1 \in 0..Len(trail)
            BY <2>9, <3>1, <4>1
          <5>2. b \in Seq(S) /\ Len(b) = i - 1 /\ b[j] = trail[j]
            BY <2>9, <5>1
          <5>3. trail[j] = d
            BY <2>9, <3>2, <5>1
          <5> HIDE DEF b
          <5>4. DOMAIN b = 1..(i - 1)
            BY <5>2
          <5>5. d \in ToSet(b)
            BY <5>1, <5>2, <5>3, <5>4 DEF ToSet
          <5> QED
            BY <5>5 DEF b
        <4> QED
          BY <4>1
      <3>4. CASE i = j
        BY <2>6, <3>1, <3>2, <3>4
      <3>5. CASE i < j
        BY <2>3, <3>1, <3>2, <3>5
      <3> QED
        BY <3>1, <3>3, <3>4, <3>5
    <2> QED
      BY <2>11, <2>12, <2>13, <2>14, Zenon DEF PagesInOrder, q, S
  <1> QED
    BY <1>1, PiecesOfOneRanking, PTL
=============================================================================
