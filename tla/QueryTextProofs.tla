--------------------------- MODULE QueryTextProofs ---------------------------
(***************************************************************************)
(* The theorems about QueryText: whatever the query and the arguments, no  *)
(* argument is lost, and what is sent is what a reader of the text from    *)
(* left to right expects, although the code finds the placeholders with    *)
(* strstr, puts the new query together piece by piece and unescapes braces *)
(* by overwriting the characters before them.                              *)
(*                                                                         *)
(* The proof compares two ways through the text.  Reading is recursive: it *)
(* goes character by character.  The lemmas on it say where it is after    *)
(* ordinary text (OrdinaryText), inside a placeholder (InsidePlaceholder)  *)
(* and behind one (OnePlaceholder); they are proved by induction over the  *)
(* position in the text.  The invariant says that the loops of the program *)
(* stop where the reader is, outside of a placeholder and with as many of  *)
(* them behind it (Scanning, Building), so that the text put together is   *)
(* the one expected (Sending).                                             *)
(***************************************************************************)
EXTENDS QueryText, NatRecursion, TLAPS

(* reading a text from left to right *)

\* The values of placeholders, in their order.
ValueLists == Seq(Seq(Chars))

\* What a reader can know after some characters: whether it is inside a
\* placeholder, how many are behind it, and the text with their values.
States(vs) ==
    {st \in [inside : BOOLEAN, k : 0 .. Len(vs), out : Seq(Chars)] :
        st.inside => st.k < Len(vs)}

\* Outside of placeholders with k behind, inside one with k behind, and at
\* the beginning of the text.
Outside(k, out) == [inside |-> FALSE, k |-> k, out |-> out]
Within(k, out) == [inside |-> TRUE, k |-> k, out |-> out]
Beginning == Outside(0, << >>)

\* Reading a character keeps the state a state.
LEMMA ReadCharType ==
    ASSUME NEW vs \in ValueLists, NEW st \in States(vs), NEW ch \in Chars
    PROVE  ReadChar(st, ch, vs) \in States(vs)
<1>1. /\ st = [inside |-> st.inside, k |-> st.k, out |-> st.out]
      /\ st.inside \in BOOLEAN /\ st.k \in 0 .. Len(vs) /\ st.out \in Seq(Chars)
      /\ st.inside => st.k < Len(vs)
      /\ Len(vs) \in Nat
  BY DEF States, ValueLists
<1>2. CASE st.inside /\ ch = PhClose
  <2>0. st.k < Len(vs)
    BY <1>1, <1>2
  <2>1. st.k + 1 \in 1 .. Len(vs)
    BY <1>1, <2>0
  <2>2. vs[st.k + 1] \in Seq(Chars)
    BY <2>1, ElementOfSeq DEF ValueLists
  <2>3. st.out \o vs[st.k + 1] \in Seq(Chars)
    BY <1>1, <2>2, ConcatProperties
  <2>4. ReadChar(st, ch, vs) = [inside |-> FALSE, k |-> st.k + 1, out |-> st.out \o vs[st.k + 1]]
    BY <1>2 DEF ReadChar
  <2>5. st.k + 1 \in 0 .. Len(vs)
    BY <1>1, <2>1
  <2> QED BY <2>3, <2>4, <2>5 DEF States
<1>3. CASE st.inside /\ ch # PhClose
  BY <1>3 DEF ReadChar
<1>4. CASE ~ st.inside /\ ch = PhOpen /\ st.k < Len(vs)
  BY <1>1, <1>4 DEF ReadChar, States
<1>5. CASE ~ st.inside /\ ~ (ch = PhOpen /\ st.k < Len(vs))
  <2>1. Append(st.out, ch) \in Seq(Chars)
    BY <1>1, AppendProperties
  <2> QED BY <1>1, <1>5, <2>1 DEF ReadChar, States
<1> QED BY <1>1, <1>2, <1>3, <1>4, <1>5

\* The recursive definition of Reading has a value, and it is what the
\* definition says.
LEMMA ReadingValue ==
    ASSUME NEW q \in Seq(Chars), NEW vs \in ValueLists
    PROVE  /\ Reading(q, vs) \in [0 .. Len(q) -> States(vs)]
           /\ Reading(q, vs)[0] = Beginning
           /\ \A i \in 1 .. Len(q) :
                 Reading(q, vs)[i] = ReadChar(Reading(q, vs)[i - 1], q[i], vs)
<1>a. PICK S : S = States(vs)
  OBVIOUS
<1>b. PICK n : n = Len(q)
  OBVIOUS
<1>c. PICK F : F = [i \in 1 .. n |-> [st \in S |-> ReadChar(st, q[i], vs)]]
  OBVIOUS
<1>1. Beginning \in S /\ n \in Nat
  BY <1>a, <1>b, EmptySeq DEF Beginning, Outside, States
<1>2. F \in Rounds(n, S)
  BY <1>a, <1>b, <1>c, ReadCharType DEF Rounds
<1>3. PICK f \in [0 .. n -> S] : Iterates(f, Beginning, n, F)
  BY <1>1, <1>2, RecursionExists
<1> DEFINE G(g) == [i \in 0 .. n |-> IF i = 0 THEN Beginning
                                              ELSE ReadChar(g[i - 1], q[i], vs)]
<1>4. f = G(f)
  <2>1. ASSUME NEW i \in 1 .. n PROVE f[i] = ReadChar(f[i - 1], q[i], vs)
    <3>1. f[i - 1] \in S
      BY <1>1
    <3>2. F[i][f[i - 1]] = ReadChar(f[i - 1], q[i], vs)
      BY <1>c, <3>1
    <3> QED BY <1>3, <3>2 DEF Iterates
  <2>2. f[0] = Beginning
    BY <1>3 DEF Iterates
  <2>3. ASSUME NEW i \in 0 .. n
        PROVE  f[i] = IF i = 0 THEN Beginning ELSE ReadChar(f[i - 1], q[i], vs)
    <3>1. i = 0 \/ i \in 1 .. n
      BY <1>1
    <3> QED BY <2>1, <2>2, <3>1
  <2> QED BY <2>3
<1>5. Reading(q, vs) = CHOOSE g : g = G(g)
  BY <1>b DEF Reading, Beginning, Outside
<1>6. Reading(q, vs) = G(Reading(q, vs))
  <2> HIDE DEF G
  <2> QED BY <1>4, <1>5
<1>7. /\ Reading(q, vs)[0] = Beginning
      /\ \A i \in 1 .. n : Reading(q, vs)[i] = ReadChar(Reading(q, vs)[i - 1], q[i], vs)
  BY <1>1, <1>6
<1>8. \A i \in 0 .. n : Reading(q, vs)[i] \in S
  <2>1. ASSUME NEW i \in 1 .. n, Reading(q, vs)[i - 1] \in S
        PROVE  Reading(q, vs)[i] = F[i][Reading(q, vs)[i - 1]]
    BY <1>c, <1>7, <2>1
  <2> QED BY <1>1, <1>2, <1>7, <2>1, RecursionStays
<1> QED BY <1>a, <1>b, <1>6, <1>7, <1>8

\* A part of a text is a text.
LEMMA PartType ==
    ASSUME NEW q \in Seq(Chars), NEW m \in 1 .. Len(q) + 1, NEW e \in 0 .. Len(q)
    PROVE  SubSeq(q, m, e) \in Seq(Chars)
<1>1. m \in Int /\ e \in Int
  OBVIOUS
<1>2. \A i \in m .. e : q[i] \in Chars
  OBVIOUS
<1> QED BY <1>1, <1>2, SubSeqProperties

\* Three texts can be put together in either order.
LEMMA ConcatThree ==
    ASSUME NEW s \in Seq(Chars)
    PROVE  \A t, u \in Seq(Chars) : (s \o t) \o u = s \o (t \o u)
<1> SUFFICES ASSUME NEW t \in Seq(Chars), NEW u \in Seq(Chars)
             PROVE  (s \o t) \o u = s \o (t \o u)
  OBVIOUS
<1> QED BY ConcatAssociative

\* A part of a text grows by the character behind it.
LEMMA AppendToSubSeq ==
    ASSUME NEW s \in Seq(Chars), NEW q \in Seq(Chars),
           NEW p \in 0 .. Len(q), NEW e \in p .. Len(q), e < Len(q)
    PROVE  Append(s \o SubSeq(q, p + 1, e), q[e + 1]) = s \o SubSeq(q, p + 1, e + 1)
<1>1. /\ p + 1 \in 1 .. Len(q) /\ e + 1 \in (p + 1) .. Len(q)
      /\ p + 1 \in 1 .. Len(q) + 1 /\ e \in 0 .. Len(q)
      /\ (e + 1) - 1 = e /\ q[e + 1] \in Chars
  OBVIOUS
<1>2. SubSeq(q, p + 1, e + 1) = SubSeq(q, p + 1, e) \o <<q[e + 1]>>
  BY <1>1, SubSeqRecursiveSecond
<1>3. SubSeq(q, p + 1, e) \in Seq(Chars)
  BY <1>1, PartType
<1>4. <<q[e + 1]>> \in Seq(Chars)
  BY <1>1
<1>5. s \o SubSeq(q, p + 1, e) \in Seq(Chars)
  BY <1>3, ConcatProperties
<1>6. Append(s \o SubSeq(q, p + 1, e), q[e + 1]) = (s \o SubSeq(q, p + 1, e)) \o <<q[e + 1]>>
  BY <1>1, <1>5, AppendIsConcat
<1>7. (s \o SubSeq(q, p + 1, e)) \o <<q[e + 1]>> = s \o (SubSeq(q, p + 1, e) \o <<q[e + 1]>>)
  BY <1>3, <1>4, ConcatThree
<1> QED BY <1>2, <1>6, <1>7, Zenon

\* The character ch is not between from and to.
Lacks(q, ch, from, to) == \A i \in from .. to : q[i] # ch

\* Outside of placeholders the text is read as it is, up to the next opening
\* brace, or to the end when every value is used.
LEMMA OrdinaryText ==
    ASSUME NEW q \in Seq(Chars), NEW vs \in ValueLists,
           NEW p \in 0 .. Len(q), NEW e \in p .. Len(q),
           NEW k \in 0 .. Len(vs), NEW out \in Seq(Chars),
           Reading(q, vs)[p] = Outside(k, out),
           k = Len(vs) \/ Lacks(q, PhOpen, p + 1, e)
    PROVE  Reading(q, vs)[e] = Outside(k, out \o SubSeq(q, p + 1, e))
<1> DEFINE T == {i \in p .. e : Reading(q, vs)[i] = Outside(k, out \o SubSeq(q, p + 1, i))}
<1>1. Len(q) \in Nat /\ p \in Nat /\ e \in Nat /\ p <= e
  OBVIOUS
<1>2. p \in T
  <2>1. SubSeq(q, p + 1, p) = << >>
    BY <1>1, SubSeqEmpty
  <2>2. out \o << >> = out
    BY ConcatEmptySeq
  <2>3. Reading(q, vs)[p] = Outside(k, out \o SubSeq(q, p + 1, p))
    BY <2>1, <2>2
  <2> QED BY <1>1, <2>3
<1>3. ASSUME NEW i \in p .. e, i < e, i \in T PROVE i + 1 \in T
  <2> DEFINE o == out \o SubSeq(q, p + 1, i)
  <2>1. /\ i \in p .. Len(q) /\ i < Len(q) /\ i + 1 \in p .. e
        /\ i + 1 \in p + 1 .. e /\ i + 1 \in 1 .. Len(q) /\ (i + 1) - 1 = i
    BY <1>1, <1>3
  <2>2. Reading(q, vs)[i + 1] = ReadChar(Outside(k, o), q[i + 1], vs)
    BY <1>3, <2>1, ReadingValue
  <2>3. ~ (q[i + 1] = PhOpen /\ k < Len(vs))
    BY <2>1 DEF Lacks
  <2>4. ReadChar(Outside(k, o), q[i + 1], vs) = Outside(k, Append(o, q[i + 1]))
    BY <2>3 DEF ReadChar, Outside
  <2>5. Append(o, q[i + 1]) = out \o SubSeq(q, p + 1, i + 1)
    BY <2>1, AppendToSubSeq
  <2> QED BY <2>1, <2>2, <2>4, <2>5
<1>4. e \in T
  <2> HIDE DEF T
  <2> QED BY <1>1, <1>2, <1>3, Upwards
<1> QED BY <1>4

\* When every value is used, the rest is read as it is.
LEMMA TextToTheEnd ==
    ASSUME NEW q \in Seq(Chars), NEW vs \in ValueLists,
           NEW p \in 0 .. Len(q), NEW out \in Seq(Chars),
           Reading(q, vs)[p] = Outside(Len(vs), out)
    PROVE  Reading(q, vs)[Len(q)] = Outside(Len(vs), out \o SubSeq(q, p + 1, Len(q)))
<1>1. Len(q) \in p .. Len(q) /\ Len(vs) \in 0 .. Len(vs)
  BY DEF ValueLists
<1> QED BY <1>1, OrdinaryText

\* Inside a placeholder nothing happens up to the closing brace.
LEMMA InsidePlaceholder ==
    ASSUME NEW q \in Seq(Chars), NEW vs \in ValueLists,
           NEW p \in 0 .. Len(q), NEW e \in p .. Len(q),
           NEW st \in States(vs), Reading(q, vs)[p] = st, st.inside = TRUE,
           Lacks(q, PhClose, p + 1, e)
    PROVE  Reading(q, vs)[e] = st
<1> DEFINE T == {i \in p .. e : Reading(q, vs)[i] = st}
<1>1. Len(q) \in Nat /\ p \in Nat /\ e \in Nat /\ p <= e
  OBVIOUS
<1>2. p \in T
  BY <1>1
<1>3. ASSUME NEW i \in p .. e, i < e, i \in T PROVE i + 1 \in T
  <2>1. i + 1 \in p .. e /\ i + 1 \in p + 1 .. e /\ i + 1 \in 1 .. Len(q) /\ (i + 1) - 1 = i
    BY <1>1, <1>3
  <2>2. Reading(q, vs)[i + 1] = ReadChar(st, q[i + 1], vs)
    BY <1>3, <2>1, ReadingValue
  <2>3. q[i + 1] # PhClose
    BY <2>1 DEF Lacks
  <2> QED BY <2>1, <2>2, <2>3 DEF ReadChar
<1>4. e \in T
  <2> HIDE DEF T
  <2> QED BY <1>1, <1>2, <1>3, Upwards
<1> QED BY <1>4

\* The next opening brace is the beginning of a placeholder while values are
\* left.
LEMMA OpeningBrace ==
    ASSUME NEW q \in Seq(Chars), NEW vs \in ValueLists,
           NEW p \in 0 .. Len(q), NEW open \in p + 1 .. Len(q),
           NEW k \in 0 .. Len(vs), NEW out \in Seq(Chars), k < Len(vs),
           Reading(q, vs)[p] = Outside(k, out),
           q[open] = PhOpen, Lacks(q, PhOpen, p + 1, open - 1)
    PROVE  /\ Reading(q, vs)[open] = Within(k, out \o SubSeq(q, p + 1, open - 1))
           /\ Within(k, out \o SubSeq(q, p + 1, open - 1)) \in States(vs)
<1> DEFINE o == out \o SubSeq(q, p + 1, open - 1)
           st == Within(k, o)
<1>1. Len(q) \in Nat /\ open - 1 \in p .. Len(q) /\ open \in 1 .. Len(q)
  OBVIOUS
<1>2. Reading(q, vs)[open - 1] = Outside(k, o)
  BY <1>1, OrdinaryText
<1>3. Reading(q, vs)[open] = st
  <2>1. Reading(q, vs)[open] = ReadChar(Outside(k, o), PhOpen, vs)
    BY <1>1, <1>2, ReadingValue
  <2> QED BY <2>1 DEF ReadChar, Outside, Within
<1>4. o \in Seq(Chars)
  <2>1. p + 1 \in 1 .. Len(q) + 1 /\ open - 1 \in 0 .. Len(q)
    BY <1>1
  <2>2. SubSeq(q, p + 1, open - 1) \in Seq(Chars)
    BY <2>1, PartType
  <2> QED BY <2>2, ConcatProperties
<1>5. st \in States(vs)
  BY <1>4 DEF States, Within
<1> QED BY <1>3, <1>5

\* From outside a placeholder to behind the next one: the text before it and
\* its value.
LEMMA OnePlaceholder ==
    ASSUME NEW q \in Seq(Chars), NEW vs \in ValueLists,
           NEW p \in 0 .. Len(q), NEW open \in p + 1 .. Len(q), NEW close \in open + 1 .. Len(q),
           NEW k \in 0 .. Len(vs), NEW out \in Seq(Chars), k < Len(vs),
           Reading(q, vs)[p] = Outside(k, out),
           q[open] = PhOpen, Lacks(q, PhOpen, p + 1, open - 1),
           q[close] = PhClose, Lacks(q, PhClose, open + 1, close - 1)
    PROVE  Reading(q, vs)[close] =
              Outside(k + 1, (out \o SubSeq(q, p + 1, open - 1)) \o vs[k + 1])
<1>1. /\ Len(q) \in Nat /\ close - 1 \in open .. Len(q) /\ close \in 1 .. Len(q)
      /\ open \in 0 .. Len(q)
  OBVIOUS
<1>2. PICK st : st = Within(k, out \o SubSeq(q, p + 1, open - 1))
  OBVIOUS
<1>3. Reading(q, vs)[open] = st /\ st \in States(vs) /\ st.inside = TRUE
  BY <1>2, OpeningBrace DEF Within
<1>4. Reading(q, vs)[close - 1] = st
  BY <1>1, <1>3, InsidePlaceholder
<1>5. Reading(q, vs)[close] = ReadChar(st, PhClose, vs)
  BY <1>1, <1>4, ReadingValue
<1> QED BY <1>2, <1>5 DEF ReadChar, Outside, Within

-----------------------------------------------------------------------------
(* values, escaping and unescaping *)

\* The characters that the code tells apart are different.
LEMMA CharFacts ==
    /\ PhOpen \in Chars /\ PhClose \in Chars /\ Slash \in Chars /\ Blank \in Chars
    /\ PhOpen # PhClose /\ Slash # PhOpen /\ Slash # PhClose
    /\ "C" \in Chars /\ "C" # Blank /\ "C" # PhOpen /\ "C" # PhClose
    /\ "lost" \in Chars /\ "lost" # "C" /\ "lost" # Blank
BY DEF PhOpen, PhClose, Slash, Blank, Chars

\* The values of arguments are texts.
LEMMA ValueType == ASSUME NEW a \in DOMAIN Values PROVE Values[a] \in Seq(Chars)
<1>1. "d" \in Chars /\ "f" \in Chars /\ "q" \in Chars /\ Slash \in Chars /\ PhOpen \in Chars
  BY DEF Chars
<1>2. a \in {"plain", "flag", "quote", "slash", "empty"}
  BY DEF Values
<1>3. CASE a = "plain"
  BY <1>1, <1>3 DEF Values
<1>4. CASE a = "flag"
  BY <1>1, <1>4 DEF Values
<1>5. CASE a = "quote"
  BY <1>1, <1>5 DEF Values
<1>6. CASE a = "slash"
  <2>1. Values[a] = <<Slash, PhOpen>>
    BY <1>6 DEF Values
  <2> QED BY <1>1, <2>1
<1>7. CASE a = "empty"
  <2>1. Values[a] = << >>
    BY <1>7 DEF Values
  <2> QED BY <2>1, EmptySeq
<1> QED BY <1>2, <1>3, <1>4, <1>5, <1>6, <1>7

\* Escaping gives a text.
LEMMA EscapeType == ASSUME NEW v \in Seq(Chars) PROVE Escape(v) \in Seq(Chars)
<1>1. PICK s : s = [k \in 1 .. Len(v) |-> IF v[k] \in {"q", Slash} THEN <<Slash, v[k]>> ELSE <<v[k]>>]
  OBVIOUS
<1>2. Escape(v) = FlattenSeq(s)
  <2>1. DOMAIN v = 1 .. Len(v)
    OBVIOUS
  <2> QED BY <1>1, <2>1 DEF Escape
<1>3. ASSUME NEW k \in 1 .. Len(v) PROVE s[k] \in Seq(Chars)
  <2>1. v[k] \in Chars
    OBVIOUS
  <2>2. <<Slash, v[k]>> \in Seq(Chars) /\ <<v[k]>> \in Seq(Chars)
    BY <2>1, CharFacts
  <2> QED BY <1>1, <2>2
<1>4. Len(v) \in Nat /\ s = [k \in 1 .. Len(v) |-> s[k]]
  BY <1>1
<1> QED BY <1>2, <1>3, <1>4, FlattenSeqType

\* The last character is the one that was appended.
LEMMA FrontOfAppend ==
    ASSUME NEW S, NEW s \in Seq(S), NEW x \in S
    PROVE  Front(Append(s, x)) = s
<1>1. Append(s, x) \in Seq(S) /\ Len(Append(s, x)) = Len(s) + 1 /\ Len(s) \in Nat
  BY AppendProperties
<1>2. Front(Append(s, x)) = SubSeq(Append(s, x), 1, Len(s))
  BY <1>1 DEF Front
<1>3. SubSeq(Append(s, x), 1, Len(s)) = s
  BY <1>1
<1> QED BY <1>2, <1>3

\* A sequence without its last element is one over the same set.
LEMMA FrontType == ASSUME NEW S, NEW s \in Seq(S) PROVE Front(s) \in Seq(S)
<1>1. CASE s = << >>
  BY <1>1, SubSeqEmpty, EmptySeq DEF Front
<1>2. CASE s # << >>
  <2>1. Len(s) - 1 \in Nat /\ Len(s) \in Nat
    BY <1>2
  <2>2. \A i \in 1 .. Len(s) - 1 : s[i] \in S
    BY <2>1
  <2> QED BY <2>1, <2>2, SubSeqProperties DEF Front
<1> QED BY <1>1, <1>2

\* The i-th round of the loop over the braces, where out was written before.
UnescapeStep(q, i, out) ==
    IF IsBrace(q[i]) /\ i > 1 THEN Append(Front(out), q[i]) ELSE Append(out, q[i])

\* The recursion of Unescape has a value, that of its rounds.
LEMMA UnescapeValue ==
    ASSUME NEW q \in Seq(Chars)
    PROVE  \E r \in [0 .. Len(q) -> Seq(Chars)] :
              /\ Unescape(q) = r[Len(q)]
              /\ r[0] = << >>
              /\ \A i \in 1 .. Len(q) : r[i] = UnescapeStep(q, i, r[i - 1])
<1>a. PICK S : S = Seq(Chars)
  OBVIOUS
<1>b. PICK n : n = Len(q)
  OBVIOUS
<1>c. PICK F : F = [i \in 1 .. n |-> [out \in S |-> UnescapeStep(q, i, out)]]
  OBVIOUS
<1>1. << >> \in S /\ n \in Nat
  BY <1>a, <1>b, EmptySeq
<1>2. F \in Rounds(n, S)
  <2>1. ASSUME NEW i \in 1 .. n, NEW out \in S PROVE UnescapeStep(q, i, out) \in S
    <3>1. q[i] \in Chars /\ Front(out) \in S
      BY <1>a, <1>b, FrontType
    <3>2. Append(Front(out), q[i]) \in S /\ Append(out, q[i]) \in S
      BY <1>a, <3>1, AppendProperties
    <3> QED BY <3>2 DEF UnescapeStep
  <2> QED BY <1>c, <2>1 DEF Rounds
<1> DEFINE G(g) == [i \in 0 .. n |-> IF i = 0 THEN << >> ELSE UnescapeStep(q, i, g[i - 1])]
           r == CHOOSE g : g = G(g)
<1>3. PICK f \in [0 .. n -> S] : Iterates(f, << >>, n, F)
  BY <1>1, <1>2, RecursionExists
<1>4. f = G(f)
  <2>1. ASSUME NEW i \in 1 .. n PROVE f[i] = UnescapeStep(q, i, f[i - 1])
    <3>1. f[i - 1] \in S /\ f[i] = F[i][f[i - 1]]
      BY <1>1, <1>3 DEF Iterates
    <3> QED BY <1>c, <3>1
  <2>2. f[0] = << >>
    BY <1>3 DEF Iterates
  <2>3. ASSUME NEW i \in 0 .. n
        PROVE  f[i] = IF i = 0 THEN << >> ELSE UnescapeStep(q, i, f[i - 1])
    <3>1. i = 0 \/ i \in 1 .. n
      BY <1>1
    <3> QED BY <2>1, <2>2, <3>1
  <2> QED BY <2>3
<1>5. Unescape(q) = r[n]
  BY <1>b DEF Unescape, UnescapeStep
<1>6. r = G(r)
  <2> HIDE DEF G
  <2> QED BY <1>4
<1> HIDE DEF r
<1>7. r[0] = << >> /\ \A i \in 1 .. n : r[i] = UnescapeStep(q, i, r[i - 1])
  BY <1>1, <1>6
<1>8. \A i \in 0 .. n : r[i] \in S
  <2>1. ASSUME NEW i \in 1 .. n, r[i - 1] \in S PROVE r[i] = F[i][r[i - 1]]
    BY <1>c, <1>7, <2>1
  <2> QED BY <1>1, <1>2, <1>7, <2>1, RecursionStays
<1>9. r \in [0 .. n -> S]
  <2>1. r = [i \in 0 .. n |-> r[i]]
    BY <1>6
  <2> QED BY <1>8, <2>1
<1> QED BY <1>a, <1>b, <1>5, <1>7, <1>9

\* The same for the definition of the text that is expected.
KeptStep(q, i, kept) ==
    IF q[i] = Slash /\ i < Len(q) /\ IsBrace(q[i + 1]) THEN kept ELSE Append(kept, q[i])

\* The recursion of Unescaped has a value.
LEMMA UnescapedValue ==
    ASSUME NEW q \in Seq(Chars)
    PROVE  \E r \in [0 .. Len(q) -> Seq(Chars)] :
              /\ Unescaped(q) = r[Len(q)]
              /\ r[0] = << >>
              /\ \A i \in 1 .. Len(q) : r[i] = KeptStep(q, i, r[i - 1])
<1>a. PICK S : S = Seq(Chars)
  OBVIOUS
<1>b. PICK n : n = Len(q)
  OBVIOUS
<1>c. PICK F : F = [i \in 1 .. n |-> [kept \in S |-> KeptStep(q, i, kept)]]
  OBVIOUS
<1>1. << >> \in S /\ n \in Nat
  BY <1>a, <1>b, EmptySeq
<1>2. F \in Rounds(n, S)
  <2>1. ASSUME NEW i \in 1 .. n, NEW kept \in S PROVE KeptStep(q, i, kept) \in S
    <3>1. q[i] \in Chars
      BY <1>b
    <3>2. Append(kept, q[i]) \in S
      BY <1>a, <3>1, AppendProperties
    <3> QED BY <3>2 DEF KeptStep
  <2> QED BY <1>c, <2>1 DEF Rounds
<1> DEFINE G(g) == [i \in 0 .. n |-> IF i = 0 THEN << >> ELSE KeptStep(q, i, g[i - 1])]
           r == CHOOSE g : g = G(g)
<1>3. PICK f \in [0 .. n -> S] : Iterates(f, << >>, n, F)
  BY <1>1, <1>2, RecursionExists
<1>4. f = G(f)
  <2>1. ASSUME NEW i \in 1 .. n PROVE f[i] = KeptStep(q, i, f[i - 1])
    <3>1. f[i - 1] \in S /\ f[i] = F[i][f[i - 1]]
      BY <1>1, <1>3 DEF Iterates
    <3> QED BY <1>c, <3>1
  <2>2. f[0] = << >>
    BY <1>3 DEF Iterates
  <2>3. ASSUME NEW i \in 0 .. n
        PROVE  f[i] = IF i = 0 THEN << >> ELSE KeptStep(q, i, f[i - 1])
    <3>1. i = 0 \/ i \in 1 .. n
      BY <1>1
    <3> QED BY <2>1, <2>2, <3>1
  <2> QED BY <2>3
<1>5. Unescaped(q) = r[n]
  BY <1>b DEF Unescaped, KeptStep
<1>6. r = G(r)
  <2> HIDE DEF G
  <2> QED BY <1>4
<1> HIDE DEF r
<1>7. r[0] = << >> /\ \A i \in 1 .. n : r[i] = KeptStep(q, i, r[i - 1])
  BY <1>1, <1>6
<1>8. \A i \in 0 .. n : r[i] \in S
  <2>1. ASSUME NEW i \in 1 .. n, r[i - 1] \in S PROVE r[i] = F[i][r[i - 1]]
    BY <1>c, <1>7, <2>1
  <2> QED BY <1>1, <1>2, <1>7, <2>1, RecursionStays
<1>9. r \in [0 .. n -> S]
  <2>1. r = [i \in 0 .. n |-> r[i]]
    BY <1>6
  <2> QED BY <1>8, <2>1
<1> QED BY <1>a, <1>b, <1>5, <1>7, <1>9

\* When every brace has a backslash before it, overwriting the backslashes
\* leaves the text without them.
LEMMA UnescapeIsUnescaped ==
    ASSUME NEW q \in Seq(Chars), BracesEscaped(q), q # << >>, ~ IsBrace(q[1])
    PROVE  Unescape(q) = Unescaped(q)
<1>1. PICK f \in [0 .. Len(q) -> Seq(Chars)] :
              /\ Unescape(q) = f[Len(q)]
              /\ f[0] = << >>
              /\ \A i \in 1 .. Len(q) : f[i] = UnescapeStep(q, i, f[i - 1])
  BY UnescapeValue
<1>2. PICK g \in [0 .. Len(q) -> Seq(Chars)] :
              /\ Unescaped(q) = g[Len(q)]
              /\ g[0] = << >>
              /\ \A i \in 1 .. Len(q) : g[i] = KeptStep(q, i, g[i - 1])
  BY UnescapedValue
<1> DEFINE Skipped(i) == q[i] = Slash /\ i < Len(q) /\ IsBrace(q[i + 1])
           n == Len(q)
           T == {i \in 1 .. n : f[i] = IF Skipped(i) THEN Append(g[i - 1], Slash) ELSE g[i]}
<1>3. n \in Nat /\ 1 <= n /\ 1 \in Nat
  OBVIOUS
<1>4. \A ch : IsBrace(ch) => ch # Slash
  BY CharFacts DEF IsBrace
<1>5. 1 \in T
  <2>1. 1 \in 1 .. n /\ 1 - 1 = 0 /\ ~ (1 > 1)
    BY <1>3
  <2>2. f[0] = << >> /\ g[0] = << >>
    BY <1>1, <1>2
  <2>3. f[1] = UnescapeStep(q, 1, << >>) /\ g[1] = KeptStep(q, 1, << >>)
    BY <1>1, <1>2, <2>1, <2>2
  <2>4. f[1] = Append(<< >>, q[1])
    BY <2>1, <2>3 DEF UnescapeStep
  <2>5. g[1] = IF Skipped(1) THEN << >> ELSE Append(<< >>, q[1])
    BY <2>3 DEF KeptStep
  <2>6. f[1] = IF Skipped(1) THEN Append(g[1 - 1], Slash) ELSE g[1]
    BY <2>1, <2>2, <2>4, <2>5
  <2> QED BY <2>1, <2>6
<1>6. ASSUME NEW i \in 1 .. n, i < n, i \in T PROVE i + 1 \in T
  <2>1. i + 1 \in 1 .. n /\ (i + 1) - 1 = i /\ i + 1 > 1 /\ i + 1 \in 2 .. n
    BY <1>3, <1>6
  <2>2. /\ f[i + 1] = UnescapeStep(q, i + 1, f[i])
        /\ g[i + 1] = KeptStep(q, i + 1, g[i])
        /\ g[i] = KeptStep(q, i, g[i - 1])
    BY <1>1, <1>2, <2>1
  <2>3. CASE IsBrace(q[i + 1])
    <3>1. q[i] = Slash
      BY <2>1, <2>3 DEF BracesEscaped
    <3>2. Skipped(i) /\ ~ Skipped(i + 1)
      BY <1>4, <1>6, <2>3, <3>1
    <3>a. f[i] = Append(g[i - 1], Slash)
      BY <1>6, <3>2
    <3>b. g[i] = g[i - 1]
      BY <2>2, <3>2 DEF KeptStep
    <3>c. i - 1 \in 0 .. n
      BY <1>3
    <3>3. f[i] = Append(g[i - 1], Slash) /\ g[i] = g[i - 1] /\ g[i - 1] \in Seq(Chars)
      BY <3>a, <3>b, <3>c
    <3>4. Front(f[i]) = g[i]
      BY <3>3, CharFacts, FrontOfAppend
    <3>5. f[i + 1] = Append(g[i], q[i + 1])
      BY <2>1, <2>2, <2>3, <3>4 DEF UnescapeStep
    <3>6. g[i + 1] = Append(g[i], q[i + 1])
      BY <1>4, <2>2, <2>3 DEF KeptStep
    <3> QED BY <2>1, <3>2, <3>5, <3>6
  <2>4. CASE ~ IsBrace(q[i + 1])
    <3>1. ~ Skipped(i)
      BY <2>4
    <3>2. f[i] = g[i]
      BY <1>6, <3>1
    <3>3. f[i + 1] = Append(g[i], q[i + 1])
      BY <2>2, <2>4, <3>2 DEF UnescapeStep
    <3>4. g[i + 1] = IF Skipped(i + 1) THEN g[i] ELSE Append(g[i], q[i + 1])
      BY <2>2 DEF KeptStep
    <3> QED BY <2>1, <3>3, <3>4
  <2> QED BY <2>3, <2>4
<1>7. n \in T
  <2> HIDE DEF T
  <2> QED BY <1>3, <1>5, <1>6, Upwards
<1>8. ~ Skipped(n)
  BY <1>3
<1> QED BY <1>1, <1>2, <1>7, <1>8

-----------------------------------------------------------------------------
(* types *)

\* What the types say about the lengths and domains.
LEMMA TypeFacts ==
    ASSUME TypeOK
    PROVE  /\ text \in Seq(Chars) /\ Len(text) \in Nat
           /\ args \in Seq(DOMAIN Values) /\ Len(args) \in Nat
           /\ DOMAIN args = 1 .. Len(args) /\ DOMAIN text = 1 .. Len(text)
           /\ segs \in Seq((1 .. Len(text)) \X (1 .. Len(text)))
           /\ Len(segs) \in Nat /\ DOMAIN segs = 1 .. Len(segs)
           /\ query \in Seq(Chars) /\ nq \in Seq(Chars)
           /\ used \in 0 .. Len(segs)
<1>1. /\ text \in Seq(Chars) /\ args \in Seq(DOMAIN Values)
      /\ segs \in Seq((1 .. Len(text)) \X (1 .. Len(text)))
      /\ query \in Seq(Chars) /\ nq \in Seq(Chars)
      /\ used \in 0 .. Len(segs)
  BY DEF TypeOK
<1> QED BY <1>1, LenProperties

\* TrailingFlags counts the flags at the end of the arguments.
LEMMA Trailing ==
    ASSUME TypeOK
    PROVE  \E last \in 0 .. Len(args) :
              /\ TrailingFlags = Len(args) - last
              /\ \A k \in last + 1 .. Len(args) : args[k] = Flag
<1> DEFINE I == {i \in 1 .. Len(args) : args[i] # Flag}
           last == IF I # {} THEN Max(I) ELSE 0
<1>1. Len(args) \in Nat
  BY TypeFacts
<1>2. TrailingFlags = Len(args) - last
  BY DEF TrailingFlags, SelectLastInSeq
<1>3. CASE I = {}
  <2>1. last = 0 /\ last \in 0 .. Len(args)
    BY <1>1, <1>3
  <2>2. \A k \in last + 1 .. Len(args) : args[k] = Flag
    BY <1>3, <2>1
  <2> QED BY <1>2, <2>1, <2>2
<1>4. CASE I # {}
  <2>1. I \subseteq 0 .. Len(args)
    BY <1>1
  <2>2. last \in I /\ \A k \in I : k <= last
    <3> HIDE DEF I
    <3> QED BY <1>1, <1>4, <2>1, Greatest
  <2>3. last \in 0 .. Len(args)
    BY <2>1, <2>2
  <2>4. \A k \in last + 1 .. Len(args) : args[k] = Flag
    <3> HIDE DEF last
    <3> QED BY <1>1, <2>2, <2>3
  <2> HIDE DEF last
  <2> QED BY <1>2, <2>3, <2>4
<1> QED BY <1>3, <1>4

\* The search for the next placeholder starts inside the text or at its end.
LEMMA BehindType ==
    ASSUME TypeOK, NEW k \in 0 .. Len(segs)
    PROVE  Behind(k) \in 1 .. Len(text) + 1
<1>1. Len(text) \in Nat /\ Len(segs) \in Nat
  BY TypeFacts
<1>2. CASE k = 0
  BY <1>1, <1>2 DEF Behind
<1>3. CASE k # 0
  <2>1. k \in 1 .. Len(segs)
    BY <1>1, <1>3
  <2>2. segs[k] \in (1 .. Len(text)) \X (1 .. Len(text))
    BY <2>1, ElementOfSeq, TypeFacts
  <2>3. segs[k][2] \in 1 .. Len(text)
    BY <2>2
  <2> QED BY <1>1, <1>3, <2>3 DEF Behind
<1> QED BY <1>2, <1>3

\* When the number of placeholders is accepted, the arguments without one are
\* flags, and all of them are counted as flags.
LEMMA AcceptFacts ==
    ASSUME TypeOK, Accept(Len(segs)) <= Len(args)
    PROVE  /\ Accept(Len(segs)) \in 0 .. Len(args)
           /\ Len(segs) <= Len(args)
           /\ Accept(Len(segs)) >= Len(args) - Len(segs)
           /\ \A k \in Len(segs) + 1 .. Len(args) : args[k] = Flag
<1>1. Len(args) \in Nat /\ Len(segs) \in Nat
  BY TypeFacts
<1>2. PICK last \in 0 .. Len(args) :
              /\ TrailingFlags = Len(args) - last
              /\ \A k \in last + 1 .. Len(args) : args[k] = Flag
  BY Trailing
<1>3. CASE Len(segs) < Len(args)
  <2>1. Len(segs) + TrailingFlags >= Len(args) /\ Accept(Len(segs)) = Len(args) - Len(segs)
    BY <1>1, <1>3 DEF Accept
  <2>2. last <= Len(segs)
    BY <1>1, <1>2, <2>1
  <2> QED BY <1>1, <1>2, <1>3, <2>1, <2>2
<1>4. CASE Len(segs) = Len(args)
  BY <1>1, <1>2, <1>4 DEF Accept
<1>5. Len(segs) <= Len(args)
  BY <1>1 DEF Accept
<1> QED BY <1>1, <1>3, <1>4, <1>5
\* A number of flags that is no error is one of arguments.
LEMMA AcceptsOrNot ==
    ASSUME TypeOK, ~ (Accept(Len(segs)) > Len(args))
    PROVE  Accept(Len(segs)) \in 0 .. Len(args)
<1>1. Len(args) \in Nat /\ Len(segs) \in Nat
  BY TypeFacts
<1>2. PICK last \in 0 .. Len(args) : TrailingFlags = Len(args) - last
  BY Trailing
<1>3. Accept(Len(segs)) \in Nat
  BY <1>1, <1>2 DEF Accept
<1> QED BY <1>1, <1>3

\* There are never more placeholders than arguments.
Typed == TypeOK /\ Len(segs) <= Len(args)

\* The types hold at the start.
LEMMA TypedInit == Init => Typed
<1> SUFFICES ASSUME Init PROVE Typed
  OBVIOUS
<1>1. /\ text \in Seq(Chars) /\ args \in Seq(DOMAIN Values)
      /\ segs = << >> /\ nq = << >> /\ cells = << >> /\ query = text
  BY QueryAssumption DEF Init
<1>2. Len(segs) = 0 /\ Len(args) \in Nat /\ Len(text) \in Nat
  BY <1>1
<1>3. /\ segs \in Seq((1 .. Len(text)) \X (1 .. Len(text)))
      /\ nq \in Seq(Chars) /\ cells \in Seq(Range(Values))
  BY <1>1, EmptySeq
<1>4. DOMAIN segs = {}
  BY <1>1
<1>5. \A k \in DOMAIN segs : segs[k][1] < segs[k][2] /\ (k > 1 => segs[k - 1][2] < segs[k][1])
  BY <1>4
<1>6. /\ flags \in 0 .. Len(args) /\ used \in 0 .. Len(segs) /\ over \in 0 .. 1
      /\ bigint \in BOOLEAN /\ query \in Seq(Chars) /\ Len(segs) <= Len(args)
  <2>1. flags = 0 /\ used = 0 /\ over = 0 /\ bigint = FALSE
    BY DEF Init
  <2>2. flags \in 0 .. Len(args) /\ used \in 0 .. Len(segs) /\ over \in 0 .. 1
        /\ Len(segs) <= Len(args)
    BY <1>2, <2>1
  <2> QED BY <1>1, <2>1, <2>2
<1>7. /\ cmd \in {"sql", "serialize"} /\ pc = "scan" /\ outcome = "none"
  BY DEF Init
<1> QED BY <1>1, <1>3, <1>5, <1>6, <1>7 DEF TypeOK, Typed

\* A placeholder that was found lies behind the ones before.
LEMMA SegsAppend ==
    ASSUME Typed, NEW open \in DOMAIN text, NEW close \in DOMAIN text,
           Finds(PhOpen, Behind(Len(segs)), open), Finds(PhClose, open + 1, close),
           NEW ss, ss = Append(segs, <<open, close>>)
    PROVE  /\ ss \in Seq((1 .. Len(text)) \X (1 .. Len(text)))
           /\ Len(ss) = Len(segs) + 1
           /\ ss[Len(segs) + 1] = <<open, close>>
           /\ \A k \in 1 .. Len(segs) : ss[k] = segs[k]
           /\ \A k \in DOMAIN ss :
                 /\ ss[k][1] < ss[k][2]
                 /\ k > 1 => ss[k - 1][2] < ss[k][1]
<1> DEFINE n == Len(segs)
<1>1. TypeOK /\ n \in Nat
  BY TypeFacts DEF Typed
<1>2. open \in 1 .. Len(text) /\ close \in 1 .. Len(text) /\ Len(text) \in Nat
  BY <1>1, TypeFacts
<1>3. /\ ss \in Seq((1 .. Len(text)) \X (1 .. Len(text))) /\ Len(ss) = n + 1
      /\ ss[n + 1] = <<open, close>> /\ \A k \in 1 .. n : ss[k] = segs[k]
  <2>1. <<open, close>> \in (1 .. Len(text)) \X (1 .. Len(text))
    BY <1>2
  <2> QED BY <1>1, <2>1, TypeFacts, AppendProperties
<1>4. open < close /\ Behind(n) <= open
  BY <1>1, <1>2, BehindType DEF Finds
<1>5. ASSUME NEW k \in 1 .. n
      PROVE  ss[k][1] < ss[k][2] /\ (k > 1 => ss[k - 1][2] < ss[k][1])
  <2>1. segs[k][1] < segs[k][2] /\ (k > 1 => segs[k - 1][2] < segs[k][1])
    <3>1. k \in DOMAIN segs
      BY <1>1, TypeFacts
    <3> QED BY <1>1, <3>1 DEF TypeOK
  <2>2. k > 1 => k - 1 \in 1 .. n
    BY <1>1
  <2> QED BY <1>3, <2>1, <2>2
<1>6. ss[n + 1][1] < ss[n + 1][2] /\ (n + 1 > 1 => ss[(n + 1) - 1][2] < ss[n + 1][1])
  <2>1. CASE n = 0
    BY <1>2, <1>3, <1>4, <2>1
  <2>2. CASE n # 0
    <3>1. n \in 1 .. n /\ (n + 1) - 1 = n /\ ss[n] = segs[n]
      BY <1>1, <1>3, <2>2
    <3>2. segs[n][2] \in 1 .. Len(text)
      BY <1>1, <3>1, TypeFacts
    <3>3. segs[n][2] < open
      BY <1>2, <1>4, <2>2, <3>2 DEF Behind
    <3> QED BY <1>3, <1>4, <3>1, <3>3
  <2> QED BY <2>1, <2>2
<1>7. DOMAIN ss = 1 .. (n + 1)
  BY <1>3
<1>8. \A k \in 1 .. (n + 1) : k \in 1 .. n \/ k = n + 1
  BY <1>1
<1>9. \A k \in DOMAIN ss : ss[k][1] < ss[k][2] /\ (k > 1 => ss[k - 1][2] < ss[k][1])
  BY <1>5, <1>6, <1>7, <1>8
<1> QED BY <1>3, <1>9

\* What is put in place of a placeholder is a text.
LEMMA ExpandType ==
    ASSUME Typed, NEW k \in 1 .. Len(segs)
    PROVE  /\ Escape(Values[args[k]]) \in Seq(Chars)
           /\ SubSeq(text, Behind(k - 1), segs[k][1] - 1) \in Seq(Chars)
           /\ Expand(k) \in Seq(Chars)
<1>1. TypeOK /\ k \in 1 .. Len(args)
  BY TypeFacts DEF Typed
<1>2. args[k] \in DOMAIN Values
  BY <1>1, TypeFacts, ElementOfSeq
<1>3. Escape(Values[args[k]]) \in Seq(Chars)
  BY <1>2, ValueType, EscapeType
<1>4. SubSeq(text, Behind(k - 1), segs[k][1] - 1) \in Seq(Chars)
  <2>1. k - 1 \in 0 .. Len(segs)
    BY <1>1, TypeFacts
  <2>2. Behind(k - 1) \in 1 .. Len(text) + 1
    BY <1>1, <2>1, BehindType
  <2>3. segs[k][1] \in 1 .. Len(text)
    BY <1>1, TypeFacts
  <2>4. segs[k][1] - 1 \in 0 .. Len(text) /\ text \in Seq(Chars)
    BY <1>1, <2>3, TypeFacts
  <2> QED BY <2>2, <2>4, PartType
<1>5. Expand(k) \in Seq(Chars)
  BY <1>3, <1>4, ConcatProperties DEF Expand
<1> QED BY <1>3, <1>4, <1>5

\* The rest of the query is a text.
LEMMA RestType ==
    ASSUME Typed
    PROVE  SubSeq(text, Behind(used), Len(text)) \in Seq(Chars)
<1>1. Behind(used) \in 1 .. Len(text) + 1 /\ Len(text) \in Nat /\ text \in Seq(Chars)
  BY BehindType, TypeFacts DEF Typed
<1>2. Len(text) \in 0 .. Len(text)
  BY <1>1
<1> QED BY <1>1, <1>2, PartType

\* Every step keeps the types.
LEMMA TypedStep == Typed /\ [Next]_vars => Typed'
<1> SUFFICES ASSUME Typed, [Next]_vars PROVE Typed'
  OBVIOUS
<1>0. TypeOK /\ Len(segs) <= Len(args)
  BY DEF Typed
<1>a. \A why \in {"not closed", "number differs", "unknown placeholder", "no arguments"} :
         Fail(why) => Typed'
  BY <1>0 DEF Fail, given, new, result, Typed, TypeOK
<1>1. CASE NoArguments
  BY <1>0, <1>1 DEF NoArguments, given, new, result, Typed, TypeOK
<1>2. CASE Scan
  <2>1. CASE /\ pc' = "count"
             /\ UNCHANGED <<given, segs, flags, query, new, result, outcome>>
    BY <1>0, <2>1 DEF given, new, result, Typed, TypeOK
  <2>2. CASE /\ Len(segs) < Len(args)
             /\ \E open, close \in DOMAIN text :
                   /\ Finds(PhOpen, Behind(Len(segs)), open) /\ Finds(PhClose, open + 1, close)
                   /\ segs' = Append(segs, <<open, close>>)
             /\ UNCHANGED <<given, pc, flags, query, new, result, outcome>>
    <3>1. PICK open \in DOMAIN text, close \in DOMAIN text :
                   /\ Finds(PhOpen, Behind(Len(segs)), open) /\ Finds(PhClose, open + 1, close)
                   /\ segs' = Append(segs, <<open, close>>)
      BY <2>2
    <3>2. PICK ss : ss = Append(segs, <<open, close>>)
      OBVIOUS
    <3>3. /\ ss \in Seq((1 .. Len(text)) \X (1 .. Len(text)))
          /\ Len(ss) = Len(segs) + 1
          /\ \A k \in DOMAIN ss :
                 /\ ss[k][1] < ss[k][2]
                 /\ k > 1 => ss[k - 1][2] < ss[k][1]
      BY <3>1, <3>2, SegsAppend
    <3>4. segs' = ss
      BY <3>1, <3>2
    <3>5. Len(ss) <= Len(args) /\ used \in 0 .. Len(ss)
      BY <1>0, <2>2, <3>3, TypeFacts
    <3> QED BY <1>0, <2>2, <3>3, <3>4, <3>5 DEF given, new, result, Typed, TypeOK
  <2>3. CASE Fail("not closed")
    BY <1>a, <2>3
  <2> QED BY <1>2, <2>1, <2>2, <2>3 DEF Scan
<1>3. CASE CountFlags
  <2>1. CASE Accept(Len(segs)) > Len(args)
    BY <1>3, <1>a, <2>1 DEF CountFlags
  <2>2. CASE ~ (Accept(Len(segs)) > Len(args))
    <3>1. Accept(Len(segs)) \in 0 .. Len(args)
      BY <1>0, <2>2, AcceptsOrNot
    <3> QED BY <1>0, <1>3, <2>2, <3>1 DEF CountFlags, given, new, result, Typed, TypeOK
  <2> QED BY <2>1, <2>2
<1>4. CASE CountAll
  BY <1>0, <1>4, <1>a DEF CountAll, given, new, result, Typed, TypeOK
<1>5. CASE ReadTypes
  <2>1. CASE Fail("unknown placeholder")
    BY <1>a, <2>1
  <2>2. CASE pc' = "build" /\ UNCHANGED <<given, segs, flags, query, new, result, outcome>>
    BY <1>0, <2>2 DEF given, new, result, Typed, TypeOK
  <2>3. CASE /\ pc' = "end" /\ outcome' = "serialized"
             /\ cells' = [k \in DOMAIN segs |-> Values[args[k]]]
             /\ UNCHANGED <<given, segs, flags, query, new, over, bigint>>
    <3>1. cells' \in Seq(Range(Values))
      <4>1. ASSUME NEW k \in 1 .. Len(segs) PROVE Values[args[k]] \in Range(Values)
        <5>1. args[k] \in DOMAIN Values
          BY <1>0, TypeFacts, ElementOfSeq
        <5> QED BY <5>1 DEF Range
      <4>2. DOMAIN segs = 1 .. Len(segs) /\ Len(segs) \in Nat
        BY <1>0, TypeFacts
      <4> QED BY <2>3, <4>1, <4>2
    <3> QED BY <1>0, <2>3, <3>1 DEF given, new, result, Typed, TypeOK
  <2> QED BY <1>5, <2>1, <2>2, <2>3 DEF ReadTypes, result
<1>6. CASE Build
  <2>1. used + 1 \in 1 .. Len(segs)
    BY <1>0, <1>6, TypeFacts DEF Build
  <2>2. nq \o Expand(used + 1) \in Seq(Chars)
    BY <1>0, <2>1, ExpandType, TypeFacts, ConcatProperties
  <2>3. used + 1 \in 0 .. Len(segs)
    BY <2>1
  <2> QED BY <1>0, <1>6, <2>2, <2>3 DEF Build, given, new, result, Typed, TypeOK
<1>7. CASE Built
  <2>1. nq \o SubSeq(text, Behind(used), Len(text)) \in Seq(Chars)
    BY <1>0, RestType, TypeFacts, ConcatProperties
  <2> QED BY <1>0, <1>7, <2>1 DEF Built, given, new, result, Typed, TypeOK
<1>8. CASE Trim
  <2>1. Lost \in Seq(Chars)
    BY CharFacts DEF Lost
  <2>2. query' \in Seq(Chars)
    BY <1>0, <1>8, <2>1, TypeFacts DEF Trim
  <2> QED BY <1>0, <1>8, <2>2 DEF Trim, given, new, result, Typed, TypeOK
<1>9. CASE Braces
  <2>1. CASE pc' = "send" /\ UNCHANGED <<given, segs, flags, query, new, result, outcome>>
    BY <1>0, <2>1 DEF given, new, result, Typed, TypeOK
  <2>2. CASE Fail("no arguments")
    BY <1>a, <2>2
  <2>3. CASE /\ pc' = "send"
             /\ query' = Unescape(query)
             /\ over' = IF Len(Unescape(query)) + 1 > Len(query) THEN 1 ELSE 0
             /\ UNCHANGED <<given, segs, flags, new, bigint, cells, outcome>>
    <3>1. query \in Seq(Chars) /\ Len(query) \in 0 .. Len(query)
      BY <1>0, TypeFacts
    <3>2. Unescape(query) \in Seq(Chars)
      BY <3>1, UnescapeValue
    <3>3. over' \in 0 .. 1
      BY <2>3
    <3> QED BY <1>0, <2>3, <3>2, <3>3 DEF given, new, result, Typed, TypeOK
  <2> QED BY <1>9, <2>1, <2>2, <2>3 DEF Braces
<1>10. CASE SendQuery
  BY <1>0, <1>10 DEF SendQuery, given, new, result, Typed, TypeOK
<1>11. CASE UNCHANGED vars
  BY <1>0, <1>11 DEF vars, given, new, result, Typed, TypeOK
<1> QED BY <1>1, <1>2, <1>3, <1>4, <1>5, <1>6, <1>7, <1>8, <1>9, <1>10, <1>11
        DEF Next, Finished

-----------------------------------------------------------------------------
(* the inductive invariant *)

\* The text read with an empty value for every argument, to count placeholders.
NoTexts == [k \in 1 .. Len(args) |-> << >>]
Counted(i) == Reading(text, NoTexts)[i]
TooFew == Placeholders(Len(args)) < Len(args)

\* strstr stops where a reader from left to right would, and when it finds no
\* further placeholder, there is none.
Scanning ==
    /\ pc = "scan" => /\ Counted(Behind(Len(segs)) - 1).inside = FALSE
                      /\ Counted(Behind(Len(segs)) - 1).k = Len(segs)
    /\ pc = "count" => Len(segs) = Len(args) \/ TooFew
    /\ outcome = "not closed" => TooFew
    /\ cmd = "serialize" /\ outcome = "number differs" => TooFew

\* What strstr found, it finds.
Found ==
    \A k \in 1 .. Len(segs) :
        /\ Finds(PhOpen, Behind(k - 1), segs[k][1])
        /\ Finds(PhClose, segs[k][1] + 1, segs[k][2])

\* serialize takes a way of its own.
Serializing ==
    /\ pc # "end" => outcome = "none"
    /\ pc = "scan" => cells = << >>
    /\ cmd = "serialize" =>
          /\ pc \in {"scan", "count", "read", "end"}
          /\ pc = "read" => Len(segs) = Len(args)
          /\ pc = "end" => outcome \in {"serialized", "not closed", "number differs",
                                        "unknown placeholder"}
          /\ outcome = "serialized" => cells = [k \in DOMAIN args |-> Values[args[k]]]
          /\ outcome = "unknown placeholder" => segs # << >>

\* The arguments that no placeholder stands for are flags, and counted.
Matched ==
    cmd = "sql" /\ pc \notin {"scan", "count", "end"} =>
        /\ flags >= Len(args) - Len(segs)
        /\ \A k \in Len(segs) + 1 .. Len(args) : args[k] = Flag

\* What has been put together is what a reader from left to right has read.
Building ==
    /\ pc \in {"scan", "count", "read"} => used = 0 /\ nq = << >>
    /\ pc = "scan" => query = text
    /\ pc = "build" => Reading(text, Replacements)[Behind(used) - 1] = Outside(used, nq)

\* What is done to the text that was put together.
Sending ==
    /\ pc = "trim" => query = Expected
    /\ pc = "braces" => query = Expected \/ (StartsWithBlank(Expected) /\ query = Lost)
    /\ pc = "send" \/ outcome = "sent" =>
          IF IsCreate(Expected) THEN BracesEscaped(Expected) /\ query = Unescaped(Expected)
                                ELSE StartsWithBlank(Expected) \/ query = Expected
    /\ outcome = "no arguments" => ~ BracesEscaped(Expected)

TextInv == Typed /\ Scanning /\ Found /\ Serializing /\ Matched /\ Building /\ Sending
        /\ NoArgumentLost

\* Where strstr finds a character, and that there is none before.
LEMMA FindsLacks ==
    ASSUME NEW ch, NEW from, NEW p, Finds(ch, from, p)
    PROVE  /\ p \in from .. Len(text) /\ text[p] = ch
           /\ Lacks(text, ch, from, p - 1)
BY DEF Finds, Lacks

\* Empty values are values.
LEMMA NoTextsList ==
    ASSUME TypeOK
    PROVE  NoTexts \in ValueLists /\ Len(NoTexts) = Len(args)
<1>1. Len(args) \in Nat
  BY TypeFacts
<1>2. << >> \in Seq(Chars)
  BY EmptySeq
<1> QED BY <1>1, <1>2 DEF NoTexts, ValueLists

\* There is a replacement for every placeholder.
LEMMA ReplacementsList ==
    ASSUME Typed
    PROVE  /\ Replacements \in ValueLists /\ Len(Replacements) = Len(segs)
           /\ \A k \in 1 .. Len(segs) : Replacements[k] = Escape(Values[args[k]])
<1>1. DOMAIN segs = 1 .. Len(segs) /\ Len(segs) \in Nat
  BY TypeFacts DEF Typed
<1>2. \A k \in 1 .. Len(segs) : Escape(Values[args[k]]) \in Seq(Chars)
  BY ExpandType
<1> QED BY <1>1, <1>2 DEF Replacements, ValueLists

\* What depends only on the query, the arguments and the placeholders found
\* stays as long as they do.
LEMMA Unmoved ==
    ASSUME UNCHANGED <<given, segs>>
    PROVE  /\ text' = text /\ args' = args /\ cmd' = cmd
           /\ Expected' = Expected /\ Replacements' = Replacements
           /\ TooFew' = TooFew /\ Found' = Found
<1>1. text' = text /\ args' = args /\ cmd' = cmd /\ segs' = segs
  BY DEF given
<1>2. Replacements' = Replacements
  BY <1>1 DEF Replacements
<1>3. Expected' = Expected
  BY <1>1, <1>2 DEF Expected
<1>4. TooFew' = TooFew
  BY <1>1 DEF TooFew, Placeholders
<1>5. Found' = Found
  BY <1>1 DEF Found, Finds, Behind
<1> QED BY <1>1, <1>2, <1>3, <1>4, <1>5

-----------------------------------------------------------------------------
(* the placeholders and the arguments *)

\* The one action that changes what was found.
NextFound(open, close) ==
    /\ Len(segs) < Len(args)
    /\ Finds(PhOpen, Behind(Len(segs)), open) /\ Finds(PhClose, open + 1, close)
    /\ segs' = Append(segs, <<open, close>>)
    /\ UNCHANGED <<given, pc, flags, query, new, result, outcome>>

\* Only a round of the scan finds placeholders.
LEMMA SegsChange ==
    ASSUME [Next]_vars
    PROVE  \/ UNCHANGED <<given, segs>>
           \/ pc = "scan" /\ \E open, close \in DOMAIN text : NextFound(open, close)
<1>1. CASE Scan
  BY <1>1 DEF Scan, NextFound, Fail
<1>2. CASE NoArguments \/ CountFlags \/ CountAll \/ ReadTypes \/ Build \/ Built
           \/ Trim \/ Braces \/ SendQuery \/ Finished \/ UNCHANGED vars
  BY <1>2 DEF NoArguments, CountFlags, CountAll, ReadTypes, Build, Built, Trim, Braces,
              SendQuery, Finished, Fail, vars
<1> QED BY <1>1, <1>2 DEF Next

\* What was found stays found.
LEMMA FoundStep == Typed /\ Found /\ [Next]_vars => Found'
<1> SUFFICES ASSUME Typed, Found, [Next]_vars PROVE Found'
  OBVIOUS
<1>1. CASE UNCHANGED <<given, segs>>
  BY <1>1, Unmoved
<1>2. ASSUME NEW open \in DOMAIN text, NEW close \in DOMAIN text, NextFound(open, close)
      PROVE  Found'
  <2>1. PICK n, ss : n = Len(segs) /\ ss = Append(segs, <<open, close>>)
    OBVIOUS
  <2>2. /\ n \in Nat /\ Len(ss) = n + 1 /\ ss[n + 1] = <<open, close>>
        /\ \A k \in 1 .. n : ss[k] = segs[k]
    BY <1>2, <2>1, SegsAppend, TypeFacts DEF NextFound, Typed
  <2>3. text' = text /\ segs' = ss
    BY <1>2, <2>1 DEF NextFound, given
  <2>4. \A k \in 0 .. n : Behind(k)' = Behind(k)
    <3>1. \A k \in 0 .. n : k = 0 \/ k \in 1 .. n
      BY <2>2
    <3> QED BY <2>2, <2>3, <3>1 DEF Behind
  <2>5. ASSUME NEW k \in 1 .. n + 1
        PROVE  /\ Finds(PhOpen, Behind(k - 1), segs[k][1])'
               /\ Finds(PhClose, segs[k][1] + 1, segs[k][2])'
    <3>1. k - 1 \in 0 .. n
      BY <2>2
    <3>2. Behind(k - 1)' = Behind(k - 1)
      BY <2>4, <3>1
    <3>3. CASE k = n + 1
      <4>1. k - 1 = n
        BY <2>2, <3>3
      <4>2. /\ Finds(PhOpen, Behind(k - 1), ss[k][1])
            /\ Finds(PhClose, ss[k][1] + 1, ss[k][2])
        BY <1>2, <2>1, <2>2, <3>3, <4>1 DEF NextFound
      <4> QED BY <2>3, <3>2, <4>2 DEF Finds
    <3>4. CASE k \in 1 .. n
      <4>1. /\ Finds(PhOpen, Behind(k - 1), segs[k][1])
            /\ Finds(PhClose, segs[k][1] + 1, segs[k][2])
        BY <2>1, <3>4 DEF Found
      <4>2. segs'[k] = segs[k]
        BY <2>2, <2>3, <3>4
      <4> QED BY <2>3, <3>2, <4>1, <4>2 DEF Finds
    <3> QED BY <2>2, <3>3, <3>4
  <2> QED BY <2>2, <2>3, <2>5 DEF Found
<1> QED BY <1>1, <1>2, SegsChange

\* The way of serialize, step by step.
LEMMA SerializingStep == Typed /\ Serializing /\ [Next]_vars => Serializing'
<1> SUFFICES ASSUME Typed, Serializing, [Next]_vars PROVE Serializing'
  OBVIOUS
<1>1. CASE NoArguments
  <2>1. args = << >> /\ args' = << >> /\ cells' = cells /\ (cells = << >>)
    BY <1>1 DEF NoArguments, given, result, Serializing
  <2>2. << >> = [k \in DOMAIN args |-> Values[args[k]]]
    BY <2>1
  <2>3. cmd = "serialize" => pc' = "end" /\ outcome' = "serialized"
    BY <1>1 DEF NoArguments
  <2>4. cmd' = cmd /\ (cmd = "sql" => pc' = "trim" /\ outcome' = "none")
    BY <1>1 DEF NoArguments, given, Serializing
  <2>5. cmd \in {"sql", "serialize"}
    BY DEF Typed, TypeOK
  <2> QED BY <2>1, <2>2, <2>3, <2>4, <2>5 DEF Serializing
<1>2. CASE Scan
  <2>1. CASE pc' = "count" /\ UNCHANGED <<given, segs, flags, query, new, result, outcome>>
    BY <1>2, <2>1 DEF Scan, Serializing, given, result
  <2>2. CASE UNCHANGED <<given, pc, flags, query, new, result, outcome>>
    BY <1>2, <2>2 DEF Scan, Serializing, given, result
  <2>3. CASE Fail("not closed")
    BY <1>2, <2>3 DEF Scan, Serializing, Fail, given, result
  <2> QED BY <1>2, <2>1, <2>2, <2>3 DEF Scan
<1>3. CASE CountFlags
  BY <1>3 DEF CountFlags, Serializing, Fail, given, result
<1>4. CASE CountAll
  BY <1>4 DEF CountAll, AllUsed, Serializing, Fail, given, result
<1>5. CASE ReadTypes
  <2>0. pc = "read" /\ Len(segs) \in Nat /\ Len(args) \in Nat /\ DOMAIN segs = 1 .. Len(segs)
        /\ DOMAIN args = 1 .. Len(args)
    BY <1>5, TypeFacts DEF ReadTypes, Typed
  <2>1. CASE Fail("unknown placeholder") /\ \E k \in DOMAIN segs : ~ Known(segs[k])
    <3>1. PICK k \in 1 .. Len(segs) : ~ Known(segs[k])
      BY <2>0, <2>1
    <3>2. Len(segs) # 0
      BY <2>0, <3>1
    <3>3. segs # << >>
      BY <3>2
    <3> QED BY <2>0, <2>1, <3>3 DEF Serializing, Fail, given, result
  <2>2. CASE cmd = "sql" /\ pc' = "build" /\ UNCHANGED <<given, segs, flags, query, new, result, outcome>>
    BY <2>0, <2>2 DEF Serializing, given, result
  <2>3. CASE /\ pc' = "end" /\ outcome' = "serialized"
             /\ cells' = [k \in DOMAIN segs |-> Values[args[k]]]
             /\ UNCHANGED <<given, segs, flags, query, new, over, bigint>>
    <3>1. cmd = "serialize" => DOMAIN segs = DOMAIN args
      BY <2>0 DEF Serializing
    <3>2. cmd' = cmd /\ args' = args
      BY <2>3 DEF given
    <3>3. cmd = "serialize" => cells' = [k \in DOMAIN args' |-> Values[args'[k]]]
      BY <2>3, <3>1, <3>2
    <3> QED BY <2>3, <3>2, <3>3 DEF Serializing
  <2> QED BY <1>5, <2>1, <2>2, <2>3 DEF ReadTypes, result
<1>6. CASE Build \/ Built \/ Trim \/ SendQuery
  BY <1>6 DEF Build, Built, Trim, SendQuery, Serializing, given, result
<1>7. CASE Braces
  BY <1>7 DEF Braces, Fail, Serializing, given, result
<1>8. CASE Finished \/ UNCHANGED vars
  BY <1>8 DEF Finished, vars, Serializing, given, result
<1> QED BY <1>1, <1>2, <1>3, <1>4, <1>5, <1>6, <1>7, <1>8 DEF Next

\* Arguments without a placeholder are accepted only when they are flags.
LEMMA MatchedStep == Typed /\ Matched /\ [Next]_vars => Matched'
<1> SUFFICES ASSUME Typed, Matched, [Next]_vars PROVE Matched'
  OBVIOUS
<1>0. Len(args) \in Nat /\ Len(segs) \in Nat /\ TypeOK
  BY TypeFacts DEF Typed
<1>1. CASE NoArguments
  <2>1. args' = << >> /\ segs' = segs /\ flags' = flags
    BY <1>1 DEF NoArguments, given
  <2>2. Len(args') = 0 /\ args = args'
    BY <1>1, <2>1 DEF NoArguments
  <2>3. flags \in 0 .. Len(args)
    BY <1>0 DEF TypeOK
  <2>4. flags >= 0 - Len(segs) /\ Len(segs) + 1 .. 0 = {}
    BY <1>0, <2>3
  <2> QED BY <2>1, <2>2, <2>4 DEF Matched
<1>2. CASE Scan
  BY <1>2 DEF Scan, Fail, given, Matched
<1>3. CASE CountFlags
  <2>1. CASE Accept(Len(segs)) > Len(args)
    BY <1>3, <2>1 DEF CountFlags, Fail, Matched
  <2>2. CASE ~ (Accept(Len(segs)) > Len(args))
    <3>1. flags' = Accept(Len(segs)) /\ args' = args /\ segs' = segs
      BY <1>3, <2>2 DEF CountFlags, given
    <3>2. flags' \in 0 .. Len(args)
      BY <1>0, <2>2, <3>1, AcceptsOrNot
    <3>3. /\ flags' >= Len(args) - Len(segs)
          /\ \A k \in Len(segs) + 1 .. Len(args) : args[k] = Flag
      BY <1>0, <3>1, <3>2, AcceptFacts
    <3> QED BY <3>1, <3>3 DEF Matched
  <2> QED BY <2>1, <2>2
<1>4. CASE CountAll
  BY <1>4 DEF CountAll, Fail, given, Matched
<1>5. CASE ReadTypes
  <2>1. pc = "read" /\ cmd' = cmd /\ args' = args /\ segs' = segs /\ flags' = flags
    BY <1>5 DEF ReadTypes, Fail, given
  <2> QED BY <2>1 DEF Matched
<1>6. CASE Build \/ Built \/ Trim \/ SendQuery
  BY <1>6 DEF Build, Built, Trim, SendQuery, Matched, given
<1>7. CASE Braces
  <2>1. pc = "braces" /\ cmd' = cmd /\ args' = args /\ segs' = segs /\ flags' = flags
    BY <1>7 DEF Braces, Fail, given
  <2> QED BY <2>1 DEF Matched
<1>8. CASE Finished \/ UNCHANGED vars
  BY <1>8 DEF Finished, vars, Matched, given
<1> QED BY <1>1, <1>2, <1>3, <1>4, <1>5, <1>6, <1>7, <1>8 DEF Next

\* When the command is sent the flags are in force.
LEMMA NoArgumentLostStep ==
    Typed /\ Serializing /\ Matched /\ NoArgumentLost /\ [Next]_vars => NoArgumentLost'
<1> SUFFICES ASSUME Typed, Serializing, Matched, NoArgumentLost, [Next]_vars
             PROVE  NoArgumentLost'
  OBVIOUS
<1>0. /\ Len(args) \in Nat /\ Len(segs) \in Nat /\ DOMAIN args = 1 .. Len(args)
      /\ flags \in 0 .. Len(args) /\ cmd \in {"sql", "serialize"}
  BY TypeFacts DEF Typed, TypeOK
<1>1. CASE SendQuery
  <2>1. args' = args /\ segs' = segs
    BY <1>1 DEF SendQuery, given
  <2>2. /\ flags >= Len(args) - Len(segs)
        /\ \A k \in Len(segs) + 1 .. Len(args) : args[k] = Flag
    BY <1>0, <1>1 DEF SendQuery, Serializing, Matched
  <2>3. ASSUME NEW k \in 1 .. Len(args), k > Len(segs)
        PROVE  args[k] = Flag /\ bigint'
    <3>1. k \in Len(segs) + 1 .. Len(args) /\ k \in (Len(args) - flags + 1) .. Len(args)
      BY <1>0, <2>2, <2>3
    <3>2. args[k] = Flag
      BY <2>2, <3>1
    <3> QED BY <1>1, <3>1, <3>2 DEF SendQuery
  <2> QED BY <1>0, <2>1, <2>3 DEF NoArgumentLost
<1>2. CASE NoArguments \/ Scan \/ CountFlags \/ CountAll \/ ReadTypes
  <2>1. outcome' # "sent"
    BY <1>2 DEF NoArguments, Scan, CountFlags, CountAll, ReadTypes, Fail, Serializing
  <2> QED BY <2>1 DEF NoArgumentLost
<1>3. CASE Build \/ Built \/ Trim \/ Braces
  <2>1. outcome' # "sent"
    BY <1>3 DEF Build, Built, Trim, Braces, Fail, Serializing
  <2> QED BY <2>1 DEF NoArgumentLost
<1>4. CASE Finished \/ UNCHANGED vars
  BY <1>4 DEF Finished, vars, NoArgumentLost, given, result
<1> QED BY <1>1, <1>2, <1>3, <1>4 DEF Next

\* A state of the reader outside of placeholders.
LEMMA CountedOutside ==
    ASSUME Typed, NEW i \in 0 .. Len(text), Counted(i).inside = FALSE
    PROVE  \E out \in Seq(Chars) : Counted(i) = Outside(Counted(i).k, out)
<1>1. text \in Seq(Chars) /\ NoTexts \in ValueLists
  BY TypeFacts, NoTextsList DEF Typed
<1>2. Counted(i) \in States(NoTexts)
  BY <1>1, ReadingValue DEF Counted
<1> QED BY <1>2 DEF States, Outside

\* Where the search has come to while the text is scanned.
LEMMA ScanPoint ==
    ASSUME Typed, Scanning, pc = "scan"
    PROVE  \E p \in 0 .. Len(text), out \in Seq(Chars) :
              /\ Behind(Len(segs)) = p + 1
              /\ Reading(text, NoTexts)[p] = Outside(Len(segs), out)
<1>1. Len(text) \in Nat /\ Len(segs) \in Nat /\ TypeOK
  BY TypeFacts DEF Typed
<1>2. Behind(Len(segs)) \in 1 .. Len(text) + 1
  BY <1>1, BehindType
<1>3. PICK p : p = Behind(Len(segs)) - 1
  OBVIOUS
<1>4. p \in 0 .. Len(text) /\ Behind(Len(segs)) = p + 1
  BY <1>1, <1>2, <1>3
<1>5. Counted(p).inside = FALSE /\ Counted(p).k = Len(segs)
  BY <1>3 DEF Scanning
<1>6. PICK out \in Seq(Chars) : Counted(p) = Outside(Len(segs), out)
  BY <1>4, <1>5, CountedOutside
<1> QED BY <1>4, <1>6 DEF Counted

\* When no other brace opens a placeholder, all were found.
LEMMA NoneLeft ==
    ASSUME Typed, Scanning, pc = "scan", FindsNone(PhOpen, Behind(Len(segs)))
    PROVE  Len(segs) = Len(args) \/ TooFew
<1>1. /\ Len(text) \in Nat /\ Len(segs) \in Nat /\ Len(args) \in Nat
      /\ text \in Seq(Chars) /\ Len(segs) <= Len(args)
      /\ NoTexts \in ValueLists /\ Len(NoTexts) = Len(args)
  BY TypeFacts, NoTextsList DEF Typed
<1>2. PICK p \in 0 .. Len(text), out \in Seq(Chars) :
              /\ Behind(Len(segs)) = p + 1
              /\ Reading(text, NoTexts)[p] = Outside(Len(segs), out)
  BY ScanPoint
<1>3. Lacks(text, PhOpen, p + 1, Len(text)) /\ Len(text) \in p .. Len(text)
  BY <1>1, <1>2 DEF FindsNone, Lacks
<1>4. Len(segs) \in 0 .. Len(NoTexts)
  BY <1>1
<1>5. Reading(text, NoTexts)[Len(text)] = Outside(Len(segs), out \o SubSeq(text, p + 1, Len(text)))
  BY <1>1, <1>2, <1>3, <1>4, OrdinaryText
<1>6. Placeholders(Len(args)) = Len(segs)
  BY <1>5 DEF Placeholders, NoTexts, Outside
<1> QED BY <1>1, <1>6 DEF TooFew

\* When no brace closes a placeholder, those before it are all there are.
LEMMA NotClosed ==
    ASSUME Typed, Scanning, pc = "scan", Len(segs) < Len(args), NEW open \in DOMAIN text,
           Finds(PhOpen, Behind(Len(segs)), open), FindsNone(PhClose, open + 1)
    PROVE  TooFew
<1>1. /\ Len(text) \in Nat /\ Len(segs) \in Nat /\ Len(args) \in Nat
      /\ text \in Seq(Chars) /\ NoTexts \in ValueLists /\ Len(NoTexts) = Len(args)
  BY TypeFacts, NoTextsList DEF Typed
<1>2. PICK p \in 0 .. Len(text), out \in Seq(Chars) :
              /\ Behind(Len(segs)) = p + 1
              /\ Reading(text, NoTexts)[p] = Outside(Len(segs), out)
  BY ScanPoint
<1>3. open \in p + 1 .. Len(text) /\ text[open] = PhOpen /\ Lacks(text, PhOpen, p + 1, open - 1)
  BY <1>2, FindsLacks
<1>4. Len(segs) \in 0 .. Len(NoTexts) /\ Len(segs) < Len(NoTexts)
  BY <1>1
<1>5. PICK st : st = Within(Len(segs), out \o SubSeq(text, p + 1, open - 1))
  OBVIOUS
<1>a. Reading(text, NoTexts)[open] = st /\ st \in States(NoTexts)
  BY <1>1, <1>2, <1>3, <1>4, <1>5, OpeningBrace
<1>6. Lacks(text, PhClose, open + 1, Len(text))
  BY DEF FindsNone, Lacks
<1>7. open \in 0 .. Len(text) /\ Len(text) \in open .. Len(text) /\ st.inside = TRUE
  BY <1>1, <1>3, <1>5 DEF Within
<1>8. Reading(text, NoTexts)[Len(text)] = st
  BY <1>1, <1>a, <1>6, <1>7, InsidePlaceholder
<1>9. Placeholders(Len(args)) = Len(segs)
  BY <1>5, <1>8 DEF Placeholders, NoTexts, Within
<1> QED BY <1>9 DEF TooFew

\* The next placeholder is also the next one for a reader.
LEMMA OneMore ==
    ASSUME Typed, Scanning, pc = "scan", NEW open \in DOMAIN text, NEW close \in DOMAIN text,
           NextFound(open, close)
    PROVE  Scanning'
<1>1. /\ Len(text) \in Nat /\ Len(segs) \in Nat /\ Len(args) \in Nat
      /\ text \in Seq(Chars) /\ NoTexts \in ValueLists /\ Len(NoTexts) = Len(args)
      /\ Len(segs) < Len(args)
  BY TypeFacts, NoTextsList DEF Typed, NextFound
<1>2. PICK p \in 0 .. Len(text), out \in Seq(Chars) :
              /\ Behind(Len(segs)) = p + 1
              /\ Reading(text, NoTexts)[p] = Outside(Len(segs), out)
  BY ScanPoint
<1>3. /\ open \in p + 1 .. Len(text) /\ text[open] = PhOpen
      /\ Lacks(text, PhOpen, p + 1, open - 1)
      /\ close \in open + 1 .. Len(text) /\ text[close] = PhClose
      /\ Lacks(text, PhClose, open + 1, close - 1)
  BY <1>2, FindsLacks DEF NextFound
<1>4. Len(segs) \in 0 .. Len(NoTexts) /\ Len(segs) < Len(NoTexts)
  BY <1>1
<1>5. Reading(text, NoTexts)[close] =
         Outside(Len(segs) + 1, (out \o SubSeq(text, p + 1, open - 1)) \o NoTexts[Len(segs) + 1])
  BY <1>1, <1>2, <1>3, <1>4, OnePlaceholder
<1>6. PICK n, ss : n = Len(segs) /\ ss = Append(segs, <<open, close>>)
  OBVIOUS
<1>7. n \in Nat /\ Len(ss) = n + 1 /\ ss[n + 1] = <<open, close>>
  BY <1>1, <1>6, SegsAppend DEF NextFound
<1>8. /\ text' = text /\ args' = args /\ segs' = ss /\ cmd' = cmd
      /\ pc' = "scan" /\ outcome' = outcome
  BY <1>6 DEF NextFound, given
<1>9. Behind(n + 1)' = close + 1
  BY <1>7, <1>8 DEF Behind
<1>10. close + 1 - 1 = close
  BY <1>3, <1>1
<1>11. Counted(close)' = Reading(text, NoTexts)[close]
  BY <1>8 DEF Counted, NoTexts
<1>12. (Counted(Behind(Len(segs)) - 1))'
          = Outside(n + 1, (out \o SubSeq(text, p + 1, open - 1)) \o NoTexts[Len(segs) + 1])
  BY <1>5, <1>6, <1>7, <1>8, <1>9, <1>10, <1>11 DEF Counted
<1>13. TooFew' = TooFew
  BY <1>8 DEF TooFew, Placeholders
<1>14. /\ (Counted(Behind(Len(segs)) - 1).inside)' = FALSE
       /\ (Counted(Behind(Len(segs)) - 1).k)' = n + 1
  BY <1>12 DEF Outside
<1>15. Len(segs)' = n + 1
  BY <1>7, <1>8
<1> QED BY <1>8, <1>13, <1>14, <1>15 DEF Scanning

\* The scan stays where a reader is.
LEMMA ScanningStep == Typed /\ Scanning /\ Serializing /\ [Next]_vars => Scanning'
<1> SUFFICES ASSUME Typed, Scanning, Serializing, [Next]_vars PROVE Scanning'
  OBVIOUS
<1>1. CASE Scan
  <2>0. pc = "scan" /\ outcome = "none"
    BY <1>1 DEF Scan, Serializing
  <2>1. CASE /\ Len(segs) = Len(args) \/ FindsNone(PhOpen, Behind(Len(segs)))
             /\ pc' = "count"
             /\ UNCHANGED <<given, segs, flags, query, new, result, outcome>>
    <3>1. Len(segs) = Len(args) \/ TooFew
      BY <2>0, <2>1, NoneLeft
    <3>2. args' = args /\ segs' = segs /\ TooFew' = TooFew
      BY <2>1, Unmoved
    <3>3. pc' = "count" /\ outcome' = "none"
      BY <2>0, <2>1
    <3> QED BY <3>1, <3>2, <3>3 DEF Scanning
  <2>2. ASSUME NEW open \in DOMAIN text, NEW close \in DOMAIN text, NextFound(open, close)
        PROVE  Scanning'
    BY <2>0, <2>2, OneMore
  <2>3. CASE /\ Len(segs) < Len(args)
             /\ \E open \in DOMAIN text :
                   Finds(PhOpen, Behind(Len(segs)), open) /\ FindsNone(PhClose, open + 1)
             /\ Fail("not closed")
    <3>1. TooFew
      BY <2>0, <2>3, NotClosed
    <3>2. TooFew' = TooFew
      BY <2>3, Unmoved DEF Fail
    <3>3. pc' = "end"
      BY <2>3 DEF Fail
    <3> QED BY <3>1, <3>2, <3>3 DEF Scanning
  <2> QED BY <1>1, <2>1, <2>2, <2>3 DEF Scan, NextFound
<1>2. CASE CountAll
  <2>1. pc = "count" /\ pc' # "scan" /\ pc' # "count" /\ UNCHANGED <<given, segs>>
    BY <1>2 DEF CountAll, Fail
  <2>2. outcome' = "none" \/ (Len(segs) # Len(args) /\ outcome' = "number differs")
    BY <1>2 DEF CountAll, AllUsed, Fail, Serializing
  <2>3. TooFew' = TooFew
    BY <2>1, Unmoved
  <2> QED BY <2>1, <2>2, <2>3 DEF Scanning
<1>3. CASE CountFlags
  <2>1. cmd' = "sql" /\ pc' # "scan" /\ pc' # "count" /\ outcome' # "not closed"
    BY <1>3 DEF CountFlags, Fail, given, Serializing
  <2> QED BY <2>1 DEF Scanning
<1>4. CASE NoArguments \/ ReadTypes \/ Build \/ Built
  <2>1. /\ pc' # "scan" /\ pc' # "count" /\ outcome' # "not closed"
        /\ outcome' # "number differs"
    BY <1>4 DEF NoArguments, ReadTypes, Build, Built, Fail, Serializing
  <2> QED BY <2>1 DEF Scanning
<1>5. CASE Trim \/ Braces \/ SendQuery
  <2>1. /\ pc' # "scan" /\ pc' # "count" /\ outcome' # "not closed"
        /\ outcome' # "number differs"
    BY <1>5 DEF Trim, Braces, SendQuery, Fail, Serializing
  <2> QED BY <2>1 DEF Scanning
<1>6. CASE Finished \/ UNCHANGED vars
  <2>1. UNCHANGED <<given, segs>> /\ pc' = pc /\ outcome' = outcome
    BY <1>6 DEF Finished, vars
  <2>2. TooFew' = TooFew /\ cmd' = cmd /\ args' = args /\ segs' = segs /\ text' = text
    BY <2>1, Unmoved
  <2>3. (Counted(Behind(Len(segs)) - 1))' = Counted(Behind(Len(segs)) - 1)
    BY <2>2 DEF Counted, NoTexts, Behind
  <2> QED BY <2>1, <2>2, <2>3 DEF Scanning
<1> QED BY <1>1, <1>2, <1>3, <1>4, <1>5, <1>6 DEF Next

-----------------------------------------------------------------------------
(* the text that is sent *)

\* The text up to the next placeholder and its value are what a reader reads.
LEMMA NextExpansion ==
    ASSUME Typed, Found, pc = "build", used < Len(segs),
           Reading(text, Replacements)[Behind(used) - 1] = Outside(used, nq)
    PROVE  Reading(text, Replacements)[segs[used + 1][2]] = Outside(used + 1, nq \o Expand(used + 1))
<1>a. PICK open, close : open = segs[used + 1][1] /\ close = segs[used + 1][2]
  OBVIOUS
<1>b. PICK vs : vs = Replacements
  OBVIOUS
<1>1. /\ Len(text) \in Nat /\ Len(segs) \in Nat
      /\ used \in 0 .. Len(segs) /\ used + 1 \in 1 .. Len(segs)
      /\ text \in Seq(Chars) /\ nq \in Seq(Chars) /\ TypeOK /\ (used + 1) - 1 = used
  BY TypeFacts DEF Typed
<1>2. /\ vs \in ValueLists /\ Len(vs) = Len(segs)
      /\ vs[used + 1] = Escape(Values[args[used + 1]])
  BY <1>1, <1>b, ReplacementsList
<1>3. PICK p : p = Behind(used) - 1
  OBVIOUS
<1>4. p \in 0 .. Len(text) /\ Behind(used) = p + 1
  BY <1>1, <1>3, BehindType
<1>5. Finds(PhOpen, Behind(used), open) /\ Finds(PhClose, open + 1, close)
  BY <1>1, <1>a DEF Found
<1>6. /\ open \in p + 1 .. Len(text) /\ text[open] = PhOpen
      /\ Lacks(text, PhOpen, p + 1, open - 1)
      /\ close \in open + 1 .. Len(text) /\ text[close] = PhClose
      /\ Lacks(text, PhClose, open + 1, close - 1)
  BY <1>4, <1>5, FindsLacks
<1>7. used \in 0 .. Len(vs) /\ used < Len(vs)
  BY <1>1, <1>2
<1>8. Reading(text, vs)[p] = Outside(used, nq)
  BY <1>b, <1>3
<1>9. Reading(text, vs)[close] =
         Outside(used + 1, (nq \o SubSeq(text, p + 1, open - 1)) \o vs[used + 1])
  BY <1>1, <1>2, <1>4, <1>6, <1>7, <1>8, OnePlaceholder
<1>10. (nq \o SubSeq(text, p + 1, open - 1)) \o vs[used + 1] = nq \o Expand(used + 1)
  <2>1. /\ SubSeq(text, p + 1, open - 1) \in Seq(Chars)
        /\ vs[used + 1] \in Seq(Chars)
        /\ Expand(used + 1) = SubSeq(text, p + 1, open - 1) \o vs[used + 1]
    BY <1>1, <1>2, <1>4, <1>a, ExpandType DEF Expand
  <2>2. \A a, b \in Seq(Chars) : (nq \o a) \o b = nq \o (a \o b)
    BY <1>1, ConcatThree
  <2> QED BY <2>1, <2>2
<1> QED BY <1>9, <1>10, <1>a, <1>b

\* The text put together stays what a reader has read.
LEMMA BuildingStep == Typed /\ Found /\ Building /\ [Next]_vars => Building'
<1> SUFFICES ASSUME Typed, Found, Building, [Next]_vars PROVE Building'
  OBVIOUS
<1>1. CASE NoArguments \/ CountFlags \/ CountAll
  BY <1>1 DEF NoArguments, CountFlags, CountAll, Fail, new, Building
<1>2. CASE Scan
  BY <1>2 DEF Scan, Fail, new, given, Building
<1>3. CASE ReadTypes
  <2>1. /\ used' = 0 /\ nq' = << >> /\ text' = text /\ Replacements' = Replacements
        /\ pc' \in {"build", "end"}
    BY <1>3, Unmoved DEF ReadTypes, Fail, new, Building
  <2>2. text \in Seq(Chars) /\ Replacements \in ValueLists
    BY TypeFacts, ReplacementsList DEF Typed
  <2>3. Reading(text, Replacements)[0] = Outside(0, << >>)
    BY <2>2, ReadingValue DEF Beginning
  <2>4. Behind(0)' - 1 = 0
    BY DEF Behind
  <2>5. (Reading(text, Replacements)[Behind(used) - 1])' = Outside(0, << >>)
    BY <2>1, <2>3, <2>4
  <2> QED BY <2>1, <2>5 DEF Building
<1>4. CASE Build
  <2>1. /\ pc = "build" /\ used < Len(segs)
        /\ Reading(text, Replacements)[Behind(used) - 1] = Outside(used, nq)
    BY <1>4 DEF Build, Building
  <2>2. Reading(text, Replacements)[segs[used + 1][2]] = Outside(used + 1, nq \o Expand(used + 1))
    BY <2>1, NextExpansion
  <2>3. /\ pc' = "build" /\ text' = text /\ segs' = segs /\ Replacements' = Replacements
        /\ used' = used + 1 /\ nq' = nq \o Expand(used + 1)
    BY <1>4, Unmoved DEF Build
  <2>4. /\ used \in 0 .. Len(segs) /\ used + 1 # 0 /\ used + 1 \in 1 .. Len(segs)
        /\ segs \in Seq((1 .. Len(text)) \X (1 .. Len(text)))
    BY <2>1, TypeFacts DEF Typed
  <2>5. segs[used + 1][2] \in 1 .. Len(text) /\ Len(text) \in Nat
    <3>1. segs[used + 1] \in (1 .. Len(text)) \X (1 .. Len(text))
      BY <2>4, ElementOfSeq
    <3> QED BY <3>1, TypeFacts DEF Typed
  <2>6. Behind(used)' - 1 = segs[used + 1][2]
    BY <2>3, <2>4, <2>5 DEF Behind
  <2>7. (Reading(text, Replacements)[Behind(used) - 1])' = Outside(used', nq')
    BY <2>2, <2>3, <2>6
  <2> QED BY <2>3, <2>7 DEF Building
<1>5. CASE Built \/ Trim \/ SendQuery
  BY <1>5 DEF Built, Trim, SendQuery, Building
<1>6. CASE Braces
  BY <1>6 DEF Braces, Fail, Building
<1>7. CASE Finished \/ UNCHANGED vars
  <2>1. /\ UNCHANGED <<given, segs>> /\ pc' = pc /\ used' = used /\ nq' = nq /\ query' = query
    BY <1>7 DEF Finished, vars, new
  <2>2. text' = text /\ segs' = segs /\ Replacements' = Replacements
    BY <2>1, Unmoved
  <2>3. (Reading(text, Replacements)[Behind(used) - 1])' = Reading(text, Replacements)[Behind(used) - 1]
    BY <2>1, <2>2 DEF Behind
  <2> QED BY <2>1, <2>2, <2>3 DEF Building
<1> QED BY <1>1, <1>2, <1>3, <1>4, <1>5, <1>6, <1>7 DEF Next

\* The text behind the last placeholder completes the new query.
LEMMA RestIsExpected ==
    ASSUME Typed, used = Len(segs),
           Reading(text, Replacements)[Behind(used) - 1] = Outside(used, nq)
    PROVE  Expected = nq \o SubSeq(text, Behind(used), Len(text))
<1>1. /\ Len(text) \in Nat /\ Len(segs) \in Nat /\ used \in 0 .. Len(segs)
      /\ text \in Seq(Chars) /\ nq \in Seq(Chars) /\ TypeOK
  BY TypeFacts DEF Typed
<1>2. PICK vs : vs = Replacements
  OBVIOUS
<1>a. vs \in ValueLists /\ used = Len(vs)
  BY <1>1, <1>2, ReplacementsList
<1>3. PICK p : p = Behind(used) - 1
  OBVIOUS
<1>4. p \in 0 .. Len(text) /\ Behind(used) = p + 1
  BY <1>1, <1>3, BehindType
<1>5. Reading(text, vs)[p] = Outside(Len(vs), nq)
  BY <1>2, <1>3, <1>a
<1>6. Reading(text, vs)[Len(text)] = Outside(Len(vs), nq \o SubSeq(text, p + 1, Len(text)))
  BY <1>1, <1>4, <1>5, <1>a, TextToTheEnd
<1> QED BY <1>2, <1>4, <1>6 DEF Expected, Outside

\* Without arguments nothing is replaced.
LEMMA TextIsExpected ==
    ASSUME Typed, args = << >>
    PROVE  Expected = text
<1>1. /\ Len(text) \in Nat /\ Len(segs) \in Nat /\ text \in Seq(Chars) /\ Len(segs) <= Len(args)
      /\ Replacements \in ValueLists /\ Len(Replacements) = Len(segs)
  BY TypeFacts, ReplacementsList DEF Typed
<1>2. Len(args) = 0
  OBVIOUS
<1>3. Len(Replacements) = 0
  BY <1>1, <1>2
<1>4. Reading(text, Replacements)[0] = Outside(0, << >>)
  BY <1>1, ReadingValue DEF Beginning
<1>5. << >> \in Seq(Chars) /\ 0 \in 0 .. Len(text)
  BY <1>1, EmptySeq
<1>6. PICK p, vs, out : p = 0 /\ vs = Replacements /\ out = << >>
  OBVIOUS
<1>7. Reading(text, vs)[Len(text)] = Outside(Len(vs), out \o SubSeq(text, p + 1, Len(text)))
  <2>1. /\ vs \in ValueLists /\ p \in 0 .. Len(text) /\ out \in Seq(Chars)
        /\ Reading(text, vs)[p] = Outside(Len(vs), out)
    BY <1>1, <1>3, <1>4, <1>5, <1>6
  <2> QED BY <1>1, <2>1, TextToTheEnd
<1>8. SubSeq(text, 1, Len(text)) = text /\ << >> \o text = text /\ p + 1 = 1
  BY <1>1, <1>6, SubSeqFull, ConcatEmptySeq
<1>9. Reading(text, Replacements)[Len(text)] = Outside(Len(vs), text)
  BY <1>6, <1>7, <1>8
<1> QED BY <1>9 DEF Expected, Outside

\* The text that is put together, trimmed and unescaped is the one expected.
LEMMA SendingStep == Typed /\ Serializing /\ Building /\ Sending /\ [Next]_vars => Sending'
<1> SUFFICES ASSUME Typed, Serializing, Building, Sending, [Next]_vars PROVE Sending'
  OBVIOUS
<1>1. CASE NoArguments
  <2>1. /\ pc' \in {"trim", "end"} /\ outcome' \in {"none", "serialized"}
        /\ query' = query /\ query = text /\ UNCHANGED <<given, segs>> /\ args = << >>
    BY <1>1 DEF NoArguments, Serializing, Building
  <2>2. Expected' = Expected /\ Expected = text
    BY <2>1, Unmoved, TextIsExpected
  <2> QED BY <2>1, <2>2 DEF Sending
<1>2. CASE Scan \/ CountFlags \/ CountAll
  <2>1. pc' \in {"scan", "count", "read", "end"} /\ outcome' \in {"none", "not closed", "number differs"}
    BY <1>2 DEF Scan, CountFlags, CountAll, Fail, Serializing
  <2> QED BY <2>1 DEF Sending
<1>3. CASE ReadTypes \/ Build
  <2>1. pc' \in {"build", "end"} /\ outcome' \in {"none", "unknown placeholder", "serialized"}
    BY <1>3 DEF ReadTypes, Build, Fail, Serializing
  <2> QED BY <2>1 DEF Sending
<1>4. CASE Built
  <2>1. /\ pc' = "trim" /\ outcome' = "none" /\ UNCHANGED <<given, segs>>
        /\ query' = nq \o SubSeq(text, Behind(used), Len(text))
        /\ used = Len(segs) /\ Reading(text, Replacements)[Behind(used) - 1] = Outside(used, nq)
    BY <1>4 DEF Built, Serializing, Building
  <2>2. Expected' = Expected /\ Expected = nq \o SubSeq(text, Behind(used), Len(text))
    BY <2>1, Unmoved, RestIsExpected
  <2> QED BY <2>1, <2>2 DEF Sending
<1>5. CASE Trim
  <2>1. /\ pc' = "braces" /\ outcome' = "none" /\ UNCHANGED <<given, segs>> /\ query = Expected
        /\ query' = query \/ (StartsWithBlank(query) /\ query' = Lost)
    BY <1>5 DEF Trim, StartsWithBlank, Serializing, Sending
  <2>2. Expected' = Expected
    BY <2>1, Unmoved
  <2> QED BY <2>1, <2>2 DEF Sending
<1>6. CASE Braces
  <2>1. /\ pc = "braces" /\ outcome = "none" /\ UNCHANGED <<given, segs>>
        /\ query = Expected \/ (StartsWithBlank(Expected) /\ query = Lost)
    BY <1>6 DEF Braces, Fail, Serializing, Sending
  <2>2. Expected' = Expected
    BY <2>1, Unmoved
  <2>3. CASE ~ IsCreate(query)
    <3>1. pc' = "send" /\ query' = query /\ outcome' = "none"
      BY <1>6, <2>1, <2>3 DEF Braces
    <3>2. ~ IsCreate(Expected) /\ (StartsWithBlank(Expected) \/ query' = Expected)
      <4>1. StartsWithBlank(Expected) => ~ IsCreate(Expected)
        BY CharFacts DEF StartsWithBlank, IsCreate
      <4> QED BY <2>1, <2>3, <3>1, <4>1
    <3> QED BY <2>2, <3>1, <3>2 DEF Sending
  <2>4. CASE IsCreate(query)
    <3>1. query = Expected
      <4>1. ~ IsCreate(Lost)
        BY CharFacts DEF Lost, IsCreate
      <4> QED BY <2>1, <2>4, <4>1
    <3>2. CASE ~ BracesEscaped(query)
      <4>1. pc' = "end" /\ outcome' = "no arguments"
        BY <1>6, <2>4, <3>2 DEF Braces, Fail
      <4> QED BY <2>2, <3>1, <3>2, <4>1 DEF Sending
    <3>3. CASE BracesEscaped(query)
      <4>1. pc' = "send" /\ outcome' = "none" /\ query' = Unescape(query)
        BY <1>6, <2>1, <2>4, <3>3 DEF Braces
      <4>2. query \in Seq(Chars) /\ query # << >> /\ query[1] = "C"
        BY <2>4, TypeFacts DEF Typed, IsCreate
      <4>3. ~ IsBrace(query[1])
        BY <4>2, CharFacts DEF IsBrace
      <4>4. Unescape(query) = Unescaped(query)
        BY <3>3, <4>2, <4>3, UnescapeIsUnescaped
      <4> QED BY <2>2, <2>4, <3>1, <3>3, <4>1, <4>4 DEF Sending
    <3> QED BY <3>2, <3>3
  <2> QED BY <2>3, <2>4
<1>7. CASE SendQuery
  <2>1. /\ pc = "send" /\ pc' = "end" /\ outcome' = "sent" /\ query' = query
        /\ UNCHANGED <<given, segs>>
    BY <1>7 DEF SendQuery
  <2>2. Expected' = Expected
    BY <2>1, Unmoved
  <2> QED BY <2>1, <2>2 DEF Sending
<1>8. CASE Finished \/ UNCHANGED vars
  <2>1. /\ UNCHANGED <<given, segs>> /\ pc' = pc /\ outcome' = outcome /\ query' = query
    BY <1>8 DEF Finished, vars
  <2>2. Expected' = Expected
    BY <2>1, Unmoved
  <2> QED BY <2>1, <2>2 DEF Sending
<1> QED BY <1>1, <1>2, <1>3, <1>4, <1>5, <1>6, <1>7, <1>8 DEF Next

-----------------------------------------------------------------------------
(* the theorems *)

\* The query as it was given satisfies the invariant.
LEMMA InvInit == Init => TextInv
<1> SUFFICES ASSUME Init PROVE TextInv
  OBVIOUS
<1>1. Typed
  BY TypedInit
<1>2. /\ pc = "scan" /\ outcome = "none" /\ segs = << >> /\ cells = << >>
      /\ query = text /\ used = 0 /\ nq = << >>
  BY DEF Init
<1>3. Len(segs) = 0
  BY <1>2
<1>4. text \in Seq(Chars) /\ NoTexts \in ValueLists
  BY <1>1, TypeFacts, NoTextsList DEF Typed
<1>5. Reading(text, NoTexts)[0] = Outside(0, << >>)
  BY <1>4, ReadingValue DEF Beginning
<1>6. Behind(Len(segs)) - 1 = 0
  BY <1>3 DEF Behind
<1>7. Counted(Behind(Len(segs)) - 1) = Outside(0, << >>)
  BY <1>5, <1>6 DEF Counted
<1>8. Scanning
  BY <1>2, <1>3, <1>7 DEF Scanning, Outside
<1>9. Found
  BY <1>3 DEF Found
<1>10. Serializing /\ Matched /\ Building /\ Sending /\ NoArgumentLost
  BY <1>2 DEF Serializing, Matched, Building, Sending, NoArgumentLost
<1> QED BY <1>1, <1>8, <1>9, <1>10 DEF TextInv

\* Every step keeps the invariant.
LEMMA InvStep == TextInv /\ [Next]_vars => TextInv'
<1> SUFFICES ASSUME TextInv, [Next]_vars PROVE TextInv'
  OBVIOUS
<1>1. /\ Typed /\ Scanning /\ Found /\ Serializing /\ Matched /\ Building /\ Sending
      /\ NoArgumentLost
  BY DEF TextInv
<1> QED BY <1>1, TypedStep, ScanningStep, FoundStep, SerializingStep, MatchedStep,
           BuildingStep, SendingStep, NoArgumentLostStep DEF TextInv

\* The invariant holds at the start and every step keeps it.
THEOREM QueryInductive == Spec => []TextInv
BY InvInit, InvStep, PTL DEF Spec

\* The placeholders lie one behind the other and inside the text, whatever
\* braces it holds (mym.cpp:734-745).
THEOREM QueryTypeCorrect == Spec => []TypeOK
<1>1. TextInv => TypeOK
  BY DEF TextInv, Typed
<1> QED BY <1>1, QueryInductive, PTL

\* No argument of a command that is sent is ignored: each is the value of a
\* placeholder or a flag in force (mym.cpp:714-752).
THEOREM NoArgumentIsEverLost == Spec => []NoArgumentLost
<1>1. TextInv => NoArgumentLost
  BY DEF TextInv
<1> QED BY <1>1, QueryInductive, PTL

\* What is sent is the text with the escaped values in place of their
\* placeholders, however many there are (mym.cpp:805-832).
THEOREM SentIsAlwaysExpansion == Spec => []SentIsExpansion
<1>1. TextInv => SentIsExpansion
  BY DEF TextInv, Sending, SentIsExpansion
<1> QED BY <1>1, QueryInductive, PTL

\* CREATE and ALTER are sent without the backslashes exactly when every brace
\* has one, also those of the values (mym.cpp:839-876).
THEOREM CreateAlwaysUnescapes == Spec => []CreateUnescapes
<1>1. TextInv => CreateUnescapes
  BY DEF TextInv, Sending, CreateUnescapes
<1> QED BY <1>1, QueryInductive, PTL

\* mym('serialize ..') gives every argument's value or has a reason not to
\* (mym.cpp:1037-1143).
THEOREM SerializesAllOrFails == Spec => []SerializesAll
<1>1. TextInv => SerializesAll
  <2> SUFFICES ASSUME TextInv, cmd = "serialize", pc = "end" PROVE SerializesAll
    BY DEF SerializesAll
  <2>1. Serializing /\ Scanning
    BY DEF TextInv
  <2> QED BY <2>1 DEF Serializing, Scanning, SerializesAll, TooFew
<1> QED BY <1>1, QueryInductive, PTL
=============================================================================
