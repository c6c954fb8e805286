------------------------------ MODULE BlobProofs ------------------------------
(***************************************************************************)
(* What Blob says of its bytes, for values of every shape nested to every  *)
(* depth, for every vector and for every file.                             *)
(***************************************************************************)
EXTENDS Blob, NatRecursion, SequenceTheorems, TLAPS

-----------------------------------------------------------------------------
(* Recursion over the depth *)

\* The values of the next depth.
Nesting(S) == Leaves \cup Cells(S \cup {Missing}) \cup Structs(S \cup {Missing})

Nests(V, n) == V = [d \in 0 .. n |-> IF d = 0 THEN Leaves ELSE Nesting(V[d - 1])]

\* There are sets of values of every depth.
LEMMA NestsExists == ASSUME NEW n \in Nat PROVE \E V : Nests(V, n)
<1> DEFINE T == {m \in Nat : \E f : Nests(f, m)}
<1>1. 0 \in T
  <2>1. PICK f : f = [i \in 0 .. 0 |-> Leaves]
    OBVIOUS
  <2>2. f = [i \in 0 .. 0 |-> IF i = 0 THEN Leaves ELSE Nesting(f[i - 1])]
    BY <2>1
  <2> QED BY <2>2 DEF Nests
<1>2. ASSUME NEW m \in Nat, m \in T PROVE m + 1 \in T
  <2>1. PICK f : Nests(f, m)
    BY <1>2
  <2>2. PICK v : v = Nesting(f[m])
    OBVIOUS
  <2>3. PICK h : h = [i \in 0 .. m + 1 |-> IF i <= m THEN f[i] ELSE v]
    OBVIOUS
  <2>4. \A i \in 0 .. m : f[i] = IF i = 0 THEN Leaves ELSE Nesting(f[i - 1])
    BY <2>1 DEF Nests
  <2>5. ASSUME NEW i \in 0 .. m + 1
        PROVE  h[i] = IF i = 0 THEN Leaves ELSE Nesting(h[i - 1])
    <3>1. CASE i <= m
      <4>1. i \in 0 .. m /\ h[i] = f[i]
        BY <2>3, <3>1
      <4>2. i # 0 => h[i - 1] = f[i - 1]
        BY <2>3, <3>1
      <4> QED BY <2>4, <4>1, <4>2
    <3>2. CASE i = m + 1
      <4>1. h[i] = v /\ h[i - 1] = f[m] /\ i # 0
        BY <2>3, <3>2
      <4> QED BY <2>2, <3>2, <4>1
    <3> QED BY <3>1, <3>2
  <2>6. h = [i \in 0 .. m + 1 |-> h[i]]
    BY <2>3
  <2>7. Nests(h, m + 1)
    BY <2>5, <2>6 DEF Nests
  <2> QED BY <2>7
<1>3. n \in T
  <2> HIDE DEF T
  <2> QED BY <1>1, <1>2, Induction
<1> QED BY <1>3

\* The values of each depth.
LEMMA ValuesDef ==
    \A d \in 0 .. Depth : Values[d] = IF d = 0 THEN Leaves ELSE Nesting(Values[d - 1])
<1> DEFINE G(V) == [d \in 0 .. Depth |->
                       IF d = 0 THEN Leaves
                       ELSE Leaves \cup Cells(V[d - 1] \cup {Missing})
                                   \cup Structs(V[d - 1] \cup {Missing})]
           f == CHOOSE V : V = G(V)
<1>1. Values = f
  BY DEF Values
<1>2. f = G(f)
  <2>1. \E V : V = G(V)
    BY NestsExists, BlobAssumption DEF Nests, Nesting
  <2> HIDE DEF G
  <2> QED BY <2>1
<1>3. Values = G(Values)
  BY <1>1, <1>2
<1> QED BY <1>3 DEF Nesting

\* A value of the depth 0 has no elements, and one of any depth has elements of
\* the depth below, or none.
LEMMA LeafElements == ASSUME NEW v \in Leaves PROVE ElementsOf(v) = << >>
BY DEF Leaves, Arrays, Sparses, Object, ElementsOf

\* What a function of values gives for the elements of one.
Below(v, g) == [k \in DOMAIN ElementsOf(v) |-> g[Present(ElementsOf(v)[k])]]

\* There is nothing below a value without elements.
LEMMA LeafBelow == ASSUME NEW v \in Leaves, NEW g PROVE Below(v, g) = << >>
<1>1. ElementsOf(v) = << >>
  BY LeafElements
<1>2. Below(v, g) = [k \in {} |-> g[Present(ElementsOf(v)[k])]]
  BY <1>1 DEF Below
<1> QED BY <1>2

Serialize(g, d) == [v \in Values[d] |-> serializeNested(v, Below(v, g))]
Serializes(s, n) == s = [d \in 0 .. n |-> Serialize(s[d - 1], d)]

\* There is a function that serializes values of every depth.
LEMMA SerializesExists == ASSUME NEW n \in Nat PROVE \E s : Serializes(s, n)
<1> DEFINE T == {m \in Nat : \E f : Serializes(f, m)}
<1>0. ASSUME NEW g, NEW h PROVE Serialize(g, 0) = Serialize(h, 0)
  <2>1. Values[0] = Leaves
    BY ValuesDef, BlobAssumption
  <2>2. \A v \in Values[0] : Below(v, g) = Below(v, h)
    BY <2>1, LeafBelow
  <2> QED BY <2>2 DEF Serialize
<1>1. 0 \in T
  <2>1. PICK f : f = [i \in 0 .. 0 |-> Serialize(<< >>, 0)]
    OBVIOUS
  <2>2. f[0] = Serialize(f[0 - 1], 0)
    <3>1. f[0] = Serialize(<< >>, 0)
      BY <2>1
    <3> QED BY <1>0, <3>1
  <2>3. f = [i \in 0 .. 0 |-> Serialize(f[i - 1], i)]
    <3>1. f = [i \in 0 .. 0 |-> f[i]]
      BY <2>1
    <3>2. \A i \in 0 .. 0 : f[i] = Serialize(f[i - 1], i)
      <4>1. \A i \in 0 .. 0 : i = 0
        OBVIOUS
      <4> QED BY <2>2, <4>1
    <3> QED BY <3>1, <3>2
  <2> QED BY <2>3 DEF Serializes
<1>2. ASSUME NEW m \in Nat, m \in T PROVE m + 1 \in T
  <2>1. PICK f : Serializes(f, m)
    BY <1>2
  <2>2. PICK w : w = Serialize(f[m], m + 1)
    OBVIOUS
  <2>3. PICK h : h = [i \in 0 .. m + 1 |-> IF i <= m THEN f[i] ELSE w]
    OBVIOUS
  <2>4. \A i \in 0 .. m : f[i] = Serialize(f[i - 1], i)
    BY <2>1 DEF Serializes
  <2>5. ASSUME NEW i \in 0 .. m + 1 PROVE h[i] = Serialize(h[i - 1], i)
    <3>1. CASE i <= m
      <4>1. i \in 0 .. m /\ h[i] = f[i]
        BY <2>3, <3>1
      <4>2. i # 0 => h[i - 1] = f[i - 1]
        BY <2>3, <3>1
      <4> QED BY <1>0, <2>4, <4>1, <4>2
    <3>2. CASE i = m + 1
      <4>1. h[i] = w /\ h[i - 1] = f[m]
        BY <2>3, <3>2
      <4> QED BY <2>2, <3>2, <4>1
    <3> QED BY <3>1, <3>2
  <2>6. h = [i \in 0 .. m + 1 |-> h[i]]
    BY <2>3
  <2>7. Serializes(h, m + 1)
    BY <2>5, <2>6 DEF Serializes
  <2> QED BY <2>7
<1>3. n \in T
  <2> HIDE DEF T
  <2> QED BY <1>1, <1>2, Induction
<1> QED BY <1>3

\* What is written of a value is what its elements give, of the depth below.
LEMMA SerializedDef ==
    \A d \in 0 .. Depth : \A v \in Values[d] :
        Serialized[d][v] = serializeNested(v, Below(v, Serialized[d - 1]))
<1> DEFINE G(s) == [d \in 0 .. Depth |->
                       [v \in Values[d] |->
                           serializeNested(v, [k \in DOMAIN ElementsOf(v) |->
                               s[d - 1][Present(ElementsOf(v)[k])]])]]
           f == CHOOSE s : s = G(s)
<1>1. Serialized = f
  BY DEF Serialized
<1>2. f = G(f)
  <2>1. \E s : s = G(s)
    BY SerializesExists, BlobAssumption DEF Serializes, Serialize, Below
  <2> HIDE DEF G
  <2> QED BY <2>1
<1>3. PICK s : s = f
  OBVIOUS
<1>4. s = G(s)
  <2> HIDE DEF G, f
  <2> QED BY <1>2, <1>3
<1>5. Serialized = s
  BY <1>1, <1>3
<1> HIDE DEF f
<1>6. ASSUME NEW d \in 0 .. Depth, NEW v \in Values[d]
      PROVE  s[d][v] = serializeNested(v, Below(v, s[d - 1]))
  <2>1. s[d] = [x \in Values[d] |->
                  serializeNested(x, [k \in DOMAIN ElementsOf(x) |->
                      s[d - 1][Present(ElementsOf(x)[k])]])]
    BY <1>4
  <2>2. s[d][v] = serializeNested(v, [k \in DOMAIN ElementsOf(v) |->
                      s[d - 1][Present(ElementsOf(v)[k])]])
    BY <2>1
  <2> QED BY <2>2 DEF Below
<1> QED BY <1>5, <1>6

\* The same of what comes back.
CanonicalOf(v, elems) ==
    IF v.t = "object" THEN Error
    ELSE IF v.t \notin {"cell", "struct"} THEN v
    ELSE IF \E k \in DOMAIN elems : elems[k] = Error THEN Error
    ELSE [v EXCEPT !.elems = elems]

Canonize(g, d) == [v \in Values[d] |-> CanonicalOf(v, Below(v, g))]
Canonizes(s, n) == s = [d \in 0 .. n |-> Canonize(s[d - 1], d)]

\* There is such a function.
LEMMA CanonizesExists == ASSUME NEW n \in Nat PROVE \E s : Canonizes(s, n)
<1> DEFINE T == {m \in Nat : \E f : Canonizes(f, m)}
<1>0. ASSUME NEW g, NEW h PROVE Canonize(g, 0) = Canonize(h, 0)
  <2>1. Values[0] = Leaves
    BY ValuesDef, BlobAssumption
  <2>2. \A v \in Values[0] : Below(v, g) = Below(v, h)
    BY <2>1, LeafBelow
  <2> QED BY <2>2 DEF Canonize
<1>1. 0 \in T
  <2>1. PICK f : f = [i \in 0 .. 0 |-> Canonize(<< >>, 0)]
    OBVIOUS
  <2>2. f[0] = Canonize(f[0 - 1], 0)
    <3>1. f[0] = Canonize(<< >>, 0)
      BY <2>1
    <3> QED BY <1>0, <3>1
  <2>3. f = [i \in 0 .. 0 |-> Canonize(f[i - 1], i)]
    <3>1. f = [i \in 0 .. 0 |-> f[i]]
      BY <2>1
    <3>2. \A i \in 0 .. 0 : f[i] = Canonize(f[i - 1], i)
      <4>1. \A i \in 0 .. 0 : i = 0
        OBVIOUS
      <4> QED BY <2>2, <4>1
    <3> QED BY <3>1, <3>2
  <2> QED BY <2>3 DEF Canonizes
<1>2. ASSUME NEW m \in Nat, m \in T PROVE m + 1 \in T
  <2>1. PICK f : Canonizes(f, m)
    BY <1>2
  <2>2. PICK w : w = Canonize(f[m], m + 1)
    OBVIOUS
  <2>3. PICK h : h = [i \in 0 .. m + 1 |-> IF i <= m THEN f[i] ELSE w]
    OBVIOUS
  <2>4. \A i \in 0 .. m : f[i] = Canonize(f[i - 1], i)
    BY <2>1 DEF Canonizes
  <2>5. ASSUME NEW i \in 0 .. m + 1 PROVE h[i] = Canonize(h[i - 1], i)
    <3>1. CASE i <= m
      <4>1. i \in 0 .. m /\ h[i] = f[i]
        BY <2>3, <3>1
      <4>2. i # 0 => h[i - 1] = f[i - 1]
        BY <2>3, <3>1
      <4> QED BY <1>0, <2>4, <4>1, <4>2
    <3>2. CASE i = m + 1
      <4>1. h[i] = w /\ h[i - 1] = f[m]
        BY <2>3, <3>2
      <4> QED BY <2>2, <3>2, <4>1
    <3> QED BY <3>1, <3>2
  <2>6. h = [i \in 0 .. m + 1 |-> h[i]]
    BY <2>3
  <2>7. Canonizes(h, m + 1)
    BY <2>5, <2>6 DEF Canonizes
  <2> QED BY <2>7
<1>3. n \in T
  <2> HIDE DEF T
  <2> QED BY <1>1, <1>2, Induction
<1> QED BY <1>3

\* The canonical form of a value is made of those of its elements.
LEMMA CanonicalDef ==
    \A d \in 0 .. Depth : \A v \in Values[d] :
        Canonical[d][v] = CanonicalOf(v, Below(v, Canonical[d - 1]))
<1> DEFINE B(c, d, v) ==
              IF v.t = "object" THEN Error
              ELSE IF v.t \notin {"cell", "struct"} THEN v
              ELSE LET elems == [k \in DOMAIN v.elems |-> c[d - 1][Present(v.elems[k])]]
                   IN  IF \E k \in DOMAIN elems : elems[k] = Error THEN Error
                       ELSE [v EXCEPT !.elems = elems]
           G(c) == [d \in 0 .. Depth |-> [v \in Values[d] |-> B(c, d, v)]]
           H(c) == [d \in 0 .. Depth |-> [v \in Values[d] |-> CanonicalOf(v, Below(v, c[d - 1]))]]
           f == CHOOSE c : c = G(c)
<1>1. Canonical = f
  BY DEF Canonical
<1>2. ASSUME NEW c PROVE G(c) = H(c)
  <2>1. ASSUME NEW d \in 0 .. Depth, NEW v \in Values[d]
        PROVE  B(c, d, v) = CanonicalOf(v, Below(v, c[d - 1]))
    <3>1. CASE v.t \in {"cell", "struct"}
      <4>1. ElementsOf(v) = v.elems
        BY <3>1 DEF ElementsOf
      <4> QED BY <3>1, <4>1 DEF CanonicalOf, Below
    <3>2. CASE v.t \notin {"cell", "struct"}
      BY <3>2 DEF CanonicalOf
    <3> QED BY <3>1, <3>2
  <2> HIDE DEF B
  <2>2. ASSUME NEW d \in 0 .. Depth
        PROVE  [v \in Values[d] |-> B(c, d, v)]
                 = [v \in Values[d] |-> CanonicalOf(v, Below(v, c[d - 1]))]
    BY <2>1
  <2> QED BY <2>2
<1> HIDE DEF B
<1>3. f = G(f)
  <2>1. \E c : c = G(c)
    <3>1. \E c : c = H(c)
      BY CanonizesExists, BlobAssumption DEF Canonizes, Canonize
    <3> HIDE DEF G, H
    <3> QED BY <1>2, <3>1
  <2> HIDE DEF G
  <2> QED BY <2>1
<1>4. PICK c : c = f
  OBVIOUS
<1>5. c = H(c)
  <2> HIDE DEF G, H, f
  <2> QED BY <1>2, <1>3, <1>4
<1>6. Canonical = c
  BY <1>1, <1>4
<1> HIDE DEF f
<1>7. ASSUME NEW d \in 0 .. Depth, NEW v \in Values[d]
      PROVE  c[d][v] = CanonicalOf(v, Below(v, c[d - 1]))
  <2>1. c[d] = [x \in Values[d] |-> CanonicalOf(x, Below(x, c[d - 1]))]
    BY <1>5
  <2> QED BY <2>1
<1> QED BY <1>6, <1>7

\* And of what is read.
ReadAt(b, p, d, nested) ==
    IF Get(b, p) = Tag("array") THEN deserializeArray(b, p + 1)
    ELSE IF Get(b, p) = Tag("sparse") THEN deserializeSparse(b, p + 1)
    ELSE IF Get(b, p) = Tag("struct") /\ d > 0 THEN deserializeStruct(b, p + 1, nested)
    ELSE IF Get(b, p) = Tag("cell") /\ d > 0 THEN deserializeCell(b, p + 1, nested)
    ELSE Error

Deserialize(b, g, d) == [p \in Nat |-> ReadAt(b, p, d, g)]
Deserializes(r, b, n) == r = [d \in 0 .. n |-> Deserialize(b, r[d - 1], d)]

\* There is such a function.
LEMMA DeserializesExists == ASSUME NEW b, NEW n \in Nat PROVE \E r : Deserializes(r, b, n)
<1> DEFINE T == {m \in Nat : \E f : Deserializes(f, b, m)}
<1>0. ASSUME NEW g, NEW h PROVE Deserialize(b, g, 0) = Deserialize(b, h, 0)
  <2>1. \A p \in Nat : ReadAt(b, p, 0, g) = ReadAt(b, p, 0, h)
    BY DEF ReadAt
  <2> QED BY <2>1 DEF Deserialize
<1>1. 0 \in T
  <2>1. PICK f : f = [i \in 0 .. 0 |-> Deserialize(b, << >>, 0)]
    OBVIOUS
  <2>2. f[0] = Deserialize(b, f[0 - 1], 0)
    <3>1. f[0] = Deserialize(b, << >>, 0)
      BY <2>1
    <3> QED BY <1>0, <3>1
  <2>3. f = [i \in 0 .. 0 |-> Deserialize(b, f[i - 1], i)]
    <3>1. f = [i \in 0 .. 0 |-> f[i]]
      BY <2>1
    <3>2. \A i \in 0 .. 0 : f[i] = Deserialize(b, f[i - 1], i)
      <4>1. \A i \in 0 .. 0 : i = 0
        OBVIOUS
      <4> QED BY <2>2, <4>1
    <3> QED BY <3>1, <3>2
  <2> QED BY <2>3 DEF Deserializes
<1>2. ASSUME NEW m \in Nat, m \in T PROVE m + 1 \in T
  <2>1. PICK f : Deserializes(f, b, m)
    BY <1>2
  <2>2. PICK w : w = Deserialize(b, f[m], m + 1)
    OBVIOUS
  <2>3. PICK h : h = [i \in 0 .. m + 1 |-> IF i <= m THEN f[i] ELSE w]
    OBVIOUS
  <2>4. \A i \in 0 .. m : f[i] = Deserialize(b, f[i - 1], i)
    BY <2>1 DEF Deserializes
  <2>5. ASSUME NEW i \in 0 .. m + 1 PROVE h[i] = Deserialize(b, h[i - 1], i)
    <3>1. CASE i <= m
      <4>1. i \in 0 .. m /\ h[i] = f[i]
        BY <2>3, <3>1
      <4>2. i # 0 => h[i - 1] = f[i - 1]
        BY <2>3, <3>1
      <4> QED BY <1>0, <2>4, <4>1, <4>2
    <3>2. CASE i = m + 1
      <4>1. h[i] = w /\ h[i - 1] = f[m]
        BY <2>3, <3>2
      <4> QED BY <2>2, <3>2, <4>1
    <3> QED BY <3>1, <3>2
  <2>6. h = [i \in 0 .. m + 1 |-> h[i]]
    BY <2>3
  <2>7. Deserializes(h, b, m + 1)
    BY <2>5, <2>6 DEF Deserializes
  <2> QED BY <2>7
<1>3. n \in T
  <2> HIDE DEF T
  <2> QED BY <1>1, <1>2, Induction
<1> QED BY <1>3

\* What is read at a place is read from what its elements are read as.
LEMMA DeserializedDef ==
    ASSUME NEW b
    PROVE  \A d \in 0 .. Depth : \A p \in Nat :
               Deserialized(b)[d][p] = ReadAt(b, p, d, Deserialized(b)[d - 1])
<1> DEFINE B(r, d, p) ==
                LET tag == Get(b, p)
                IN  IF tag = Tag("array") THEN deserializeArray(b, p + 1)
                    ELSE IF tag = Tag("sparse") THEN deserializeSparse(b, p + 1)
                    ELSE IF tag = Tag("struct") /\ d > 0
                         THEN deserializeStruct(b, p + 1, r[d - 1])
                    ELSE IF tag = Tag("cell") /\ d > 0
                         THEN deserializeCell(b, p + 1, r[d - 1])
                    ELSE Error
           G(r) == [d \in 0 .. Depth |-> [p \in Nat |-> B(r, d, p)]]
           H(r) == [d \in 0 .. Depth |-> Deserialize(b, r[d - 1], d)]
           f == CHOOSE r : r = G(r)
<1>1. Deserialized(b) = f
  BY DEF Deserialized
<1>2. ASSUME NEW r PROVE G(r) = H(r)
  <2>1. ASSUME NEW d \in 0 .. Depth, NEW p \in Nat PROVE B(r, d, p) = ReadAt(b, p, d, r[d - 1])
    BY DEF ReadAt
  <2> HIDE DEF B
  <2>2. ASSUME NEW d \in 0 .. Depth
        PROVE  [p \in Nat |-> B(r, d, p)] = Deserialize(b, r[d - 1], d)
    BY <2>1 DEF Deserialize
  <2> QED BY <2>2
<1> HIDE DEF B
<1>3. f = G(f)
  <2>1. \E r : r = G(r)
    <3>1. \E r : r = H(r)
      <4>1. Depth \in Nat
        BY BlobAssumption
      <4>2. PICK r : Deserializes(r, b, Depth)
        BY <4>1, DeserializesExists
      <4>3. r = H(r)
        BY <4>2 DEF Deserializes
      <4> QED BY <4>3
    <3> HIDE DEF G, H
    <3> QED BY <1>2, <3>1
  <2> HIDE DEF G
  <2> QED BY <2>1
<1>4. PICK r : r = f
  OBVIOUS
<1>5. r = H(r)
  <2> HIDE DEF G, H, f
  <2> QED BY <1>2, <1>3, <1>4
<1>6. Deserialized(b) = r
  BY <1>1, <1>4
<1> HIDE DEF f
<1>7. ASSUME NEW d \in 0 .. Depth, NEW p \in Nat
      PROVE  r[d][p] = ReadAt(b, p, d, r[d - 1])
  <2>1. r[d] = Deserialize(b, r[d - 1], d)
    BY <1>5
  <2> QED BY <2>1 DEF Deserialize
<1> QED BY <1>6, <1>7

-----------------------------------------------------------------------------
(* Sums and products *)

\* The number of elements is the product of the dimensions, one by one.
LEMMA ElementsDef ==
    ASSUME NEW dims \in Seq(Nat)
    PROVE  \E f \in [0 .. Len(dims) -> Nat] :
               /\ Elements(dims) = f[Len(dims)]
               /\ f[0] = 1
               /\ \A k \in 1 .. Len(dims) : f[k] = f[k - 1] * dims[k]
<1>0. PICK n : n = Len(dims)
  OBVIOUS
<1>1. n \in Nat
  BY <1>0
<1> DEFINE G(g) == [k \in 0 .. n |-> IF k = 0 THEN 1 ELSE g[k - 1] * dims[k]]
           f == CHOOSE g : g = G(g)
<1>2. PICK F : F = [k \in 1 .. n |-> [x \in Nat |-> x * dims[k]]]
  OBVIOUS
<1>3. F \in Rounds(n, Nat)
  <2>1. \A k \in 1 .. n : dims[k] \in Nat
    BY <1>0
  <2>2. \A x, y \in Nat : x * y \in Nat
    OBVIOUS
  <2> QED BY <1>2, <2>1, <2>2 DEF Rounds
<1>4. f = G(f)
  <2>1. PICK r \in [0 .. n -> Nat] : Iterates(r, 1, n, F)
    BY <1>1, <1>3, RecursionExists
  <2>2. ASSUME NEW k \in 1 .. n PROVE r[k] = r[k - 1] * dims[k]
    <3>0. k - 1 \in 0 .. n
      BY <1>1
    <3>1. r[k - 1] \in Nat /\ r[k] = F[k][r[k - 1]]
      BY <2>1, <3>0 DEF Iterates
    <3>2. PICK x : x = r[k - 1]
      OBVIOUS
    <3>3. F[k][x] = x * dims[k]
      BY <1>2, <3>1, <3>2
    <3> QED BY <3>1, <3>2, <3>3
  <2>3. r[0] = 1
    BY <2>1 DEF Iterates
  <2>4. \A k \in 0 .. n : r[k] = IF k = 0 THEN 1 ELSE r[k - 1] * dims[k]
    BY <2>2, <2>3
  <2>5. r = G(r)
    BY <2>1, <2>4
  <2> HIDE DEF G
  <2> QED BY <2>5
<1>5. Elements(dims) = f[n]
  BY <1>0 DEF Elements
<1> HIDE DEF f
<1>6. \A k \in 0 .. n : f[k] = IF k = 0 THEN 1 ELSE f[k - 1] * dims[k]
  BY <1>4
<1>7. \A k \in 1 .. n : f[k - 1] \in Nat => f[k] = F[k][f[k - 1]]
  <2> SUFFICES ASSUME NEW k \in 1 .. n, f[k - 1] \in Nat PROVE f[k] = F[k][f[k - 1]]
    OBVIOUS
  <2>1. PICK x : x = f[k - 1]
    OBVIOUS
  <2>2. k \in 0 .. n /\ k # 0
    BY <1>1
  <2>3. f[k] = x * dims[k]
    BY <1>6, <2>1, <2>2
  <2>4. F[k][x] = x * dims[k]
    BY <1>2, <2>1
  <2> QED BY <2>1, <2>3, <2>4
<1>8. f[0] = 1
  BY <1>1, <1>6
<1>9. \A k \in 0 .. n : f[k] \in Nat
  <2>1. 1 \in Nat
    OBVIOUS
  <2>2. PICK r : r = f
    OBVIOUS
  <2>3. r[0] = 1 /\ \A k \in 1 .. n : r[k - 1] \in Nat => r[k] = F[k][r[k - 1]]
    BY <1>7, <1>8, <2>2
  <2>4. \A k \in 0 .. n : r[k] \in Nat
    BY <1>1, <1>3, <2>1, <2>3, RecursionStays
  <2> QED BY <2>2, <2>4
<1>10. f \in [0 .. n -> Nat]
  BY <1>4, <1>9
<1>11. \A k \in 1 .. n : f[k] = f[k - 1] * dims[k]
  BY <1>6
<1> QED BY <1>0, <1>5, <1>8, <1>10, <1>11

\* It is a number.
LEMMA ElementsType == ASSUME NEW dims \in Seq(Nat) PROVE Elements(dims) \in Nat
<1>1. PICK f \in [0 .. Len(dims) -> Nat] : Elements(dims) = f[Len(dims)]
  BY ElementsDef
<1>2. Len(dims) \in 0 .. Len(dims)
  OBVIOUS
<1> QED BY <1>1, <1>2

\* An empty matrix is a value of every depth.
LEMMA EmptyMatrixIsValue == EmptyMatrix \in Leaves
<1>1. PICK d : d = <<0, 0>>
  OBVIOUS
<1>2. d \in Seq(Nat) /\ Len(d) = 2 /\ d[1] = 0 /\ d[2] = 0
  BY <1>1
<1>3. PICK f \in [0 .. 2 -> Nat] :
         Elements(d) = f[2] /\ f[0] = 1 /\ \A k \in 1 .. 2 : f[k] = f[k - 1] * d[k]
  BY <1>2, ElementsDef
<1>4. f[1] \in Nat /\ f[2] = f[1] * 0
  <2>1. 2 \in 1 .. 2 /\ 2 - 1 = 1 /\ 1 \in 0 .. 2
    OBVIOUS
  <2> QED BY <1>2, <1>3, <2>1
<1>5. Elements(d) = 0
  BY <1>3, <1>4
<1>6. EmptyMatrix = [t |-> "array", dims |-> d, class |-> 6, cplx |-> 0, data |-> << >>]
  BY <1>1 DEF EmptyMatrix, Array, DoubleClass
<1>7. EmptyMatrix \in Arrays
  <2>1. << >> \in Seq(Nat) /\ Len(<< >>) = 0
    OBVIOUS
  <2> QED BY <1>2, <1>5, <1>6, <2>1 DEF Arrays
<1> QED BY <1>7 DEF Leaves

\* q has the sums of the first numbers of ns.
Sums(q, ns, n) ==
    q \in [0 .. n -> Nat] /\ q[0] = 0 /\ \A k \in 1 .. n : q[k] = q[k - 1] + ns[k]

\* What is allocated for several parts is the last of the sums.
LEMMA TotalIs ==
    ASSUME NEW n \in Nat, NEW ns, Len(ns) = n, NEW q, Sums(q, ns, n)
    PROVE  Total(ns) = q[n]
<1> DEFINE G(g) == [k \in 0 .. n |-> IF k = 0 THEN 0 ELSE g[k - 1] + ns[k]]
           f == CHOOSE g : g = G(g)
<1>1. f = G(f)
  <2>1. q = G(q)
    BY DEF Sums
  <2> HIDE DEF G
  <2> QED BY <2>1
<1>2. Total(ns) = f[n]
  BY DEF Total
<1> HIDE DEF f
<1>3. \A k \in 0 .. n : f[k] = IF k = 0 THEN 0 ELSE f[k - 1] + ns[k]
  BY <1>1
<1> DEFINE T == {k \in Nat : k <= n => f[k] = q[k]}
<1>4. 0 \in T
  BY <1>3 DEF Sums
<1>5. ASSUME NEW k \in Nat, k \in T PROVE k + 1 \in T
  <2> SUFFICES ASSUME k + 1 <= n PROVE f[k + 1] = q[k + 1]
    OBVIOUS
  <2>1. k + 1 \in 1 .. n /\ (k + 1) - 1 = k /\ k + 1 # 0 /\ k + 1 \in 0 .. n
    OBVIOUS
  <2> QED BY <1>3, <1>5, <2>1 DEF Sums
<1>6. n \in T
  <2> HIDE DEF T
  <2> QED BY <1>4, <1>5, Induction
<1> QED BY <1>2, <1>6

\* There are such sums.
LEMMA SumsExist ==
    ASSUME NEW n \in Nat, NEW ns \in [1 .. n -> Nat]
    PROVE  \E q : Sums(q, ns, n)
<1>1. PICK F : F = [k \in 1 .. n |-> [x \in Nat |-> x + ns[k]]]
  OBVIOUS
<1>2. F \in Rounds(n, Nat)
  BY <1>1 DEF Rounds
<1>3. PICK r \in [0 .. n -> Nat] : Iterates(r, 0, n, F)
  BY <1>2, RecursionExists
<1>4. ASSUME NEW k \in 1 .. n PROVE r[k] = r[k - 1] + ns[k]
  <2>1. r[k - 1] \in Nat /\ r[k] = F[k][r[k - 1]]
    BY <1>3 DEF Iterates
  <2>2. PICK x : x = r[k - 1]
    OBVIOUS
  <2>3. F[k][x] = x + ns[k]
    BY <1>1, <2>1, <2>2
  <2> QED BY <2>1, <2>2, <2>3
<1>5. Sums(r, ns, n)
  BY <1>3, <1>4 DEF Iterates, Sums
<1> QED BY <1>5

-----------------------------------------------------------------------------
(* Bytes *)

\* n sequences, their lengths and the sums of those.
Laid(s, ls, q, n) ==
    Listing(s, n, Nat) /\ Sums(q, ls, n) /\ \A k \in 1 .. n : ls[k] = Len(s[k])

\* t has u behind its first a numbers.
Placed(t, u, a) == a + Len(u) <= Len(t) /\ \A i \in 1 .. Len(u) : t[a + i] = u[i]

\* What is somewhere stays there when more is put behind.
LEMMA PlacedBefore ==
    ASSUME NEW t \in Seq(Nat), NEW u \in Seq(Nat), NEW x \in Seq(Nat), NEW a \in Nat,
           Placed(t, x, a)
    PROVE  Placed(t \o u, x, a)
<1>1. PICK l, m, n : l = Len(x) /\ m = Len(t) /\ n = Len(u)
  OBVIOUS
<1>2. l \in Nat /\ m \in Nat /\ n \in Nat /\ a + l <= m /\ Len(t \o u) = m + n
  BY <1>1 DEF Placed
<1>3. ASSUME NEW i \in 1 .. l PROVE (t \o u)[a + i] = x[i]
  <2>1. a + i \in 1 .. m
    BY <1>2
  <2>2. (t \o u)[a + i] = t[a + i]
    BY <1>1, <2>1
  <2> QED BY <1>1, <2>2 DEF Placed
<1> QED BY <1>1, <1>2, <1>3 DEF Placed

\* And what is put behind is there.
LEMMA PlacedLast ==
    ASSUME NEW t \in Seq(Nat), NEW u \in Seq(Nat)
    PROVE  Placed(t \o u, u, Len(t))
<1>1. PICK m, n : m = Len(t) /\ n = Len(u)
  OBVIOUS
<1>2. m \in Nat /\ n \in Nat /\ Len(t \o u) = m + n
  BY <1>1
<1>3. ASSUME NEW i \in 1 .. n PROVE (t \o u)[m + i] = u[i]
  BY <1>1, <1>2
<1> QED BY <1>1, <1>2, <1>3 DEF Placed

\* Where each of n sequences is in what they make when put behind each other.
LEMMA Flattened ==
    ASSUME NEW n \in Nat, NEW s, NEW ls, NEW q, Laid(s, ls, q, n)
    PROVE  /\ FlattenSeq(s) \in Seq(Nat)
           /\ Len(FlattenSeq(s)) = q[n]
           /\ \A k \in 1 .. n : Placed(FlattenSeq(s), s[k], q[k - 1])
<1>a. Listing(s, n, Nat) /\ Sums(q, ls, n) /\ \A k \in 1 .. n : ls[k] = Len(s[k])
  BY DEF Laid
<1>0. \A k \in 1 .. n : s[k] \in Seq(Nat)
  BY <1>a DEF Listing
<1>1. PICK r \in [0 .. n -> Seq(Nat)] : Joins(r, s, n)
  BY <1>a, FlattenSeqPrefixes
<1> DEFINE P(m) == Len(r[m]) = q[m] /\ \A k \in 1 .. m : Placed(r[m], s[k], q[k - 1])
           T == {m \in Nat : m <= n => P(m)}
<1>2. 0 \in T
  <2>1. Len(<< >>) = 0
    OBVIOUS
  <2> QED BY <1>1, <1>a, <2>1 DEF Sums, Joins
<1>3. ASSUME NEW m \in Nat, m \in T PROVE m + 1 \in T
  <2> SUFFICES ASSUME m + 1 <= n PROVE P(m + 1)
    OBVIOUS
  <2>1. m + 1 \in 1 .. n /\ (m + 1) - 1 = m /\ m \in 0 .. n /\ m <= n /\ m + 1 \in 0 .. n
    OBVIOUS
  <2>a. P(m)
    BY <1>3, <2>1
  <2>2. PICK t, u : t = r[m] /\ u = s[m + 1]
    OBVIOUS
  <2>3. t \in Seq(Nat) /\ u \in Seq(Nat) /\ r[m + 1] = t \o u
    <3>1. r[m + 1] = r[(m + 1) - 1] \o s[m + 1]
      BY <1>1, <2>1 DEF Joins
    <3> QED BY <1>0, <2>1, <2>2, <3>1
  <2>4. q[m] \in Nat /\ q[m + 1] = q[m] + Len(u) /\ Len(u) \in Nat /\ Len(t) = q[m]
    <3>1. Len(u) \in Nat
      BY <2>3
    <3>2. Len(t) = q[m]
      BY <2>2, <2>a
    <3>3. q[m] \in Nat /\ q[m + 1] = q[(m + 1) - 1] + ls[m + 1] /\ ls[m + 1] = Len(u)
      BY <1>a, <2>1, <2>2 DEF Sums
    <3> QED BY <2>1, <3>1, <3>2, <3>3
  <2>5. Len(r[m + 1]) = q[m + 1]
    <3>1. Len(t \o u) = Len(t) + Len(u)
      BY <2>3
    <3> QED BY <2>3, <2>4, <3>1
  <2>6. ASSUME NEW k \in 1 .. m + 1 PROVE Placed(r[m + 1], s[k], q[k - 1])
    <3>1. CASE k \in 1 .. m
      <4>1. PICK a, x : a = q[k - 1] /\ x = s[k]
        OBVIOUS
      <4>2. a \in Nat /\ x \in Seq(Nat)
        <5>1. k - 1 \in 0 .. n /\ k \in 1 .. n
          BY <3>1, <2>1
        <5> QED BY <1>0, <1>a, <4>1, <5>1 DEF Sums
      <4>3. Placed(t, x, a)
        BY <2>2, <2>a, <3>1, <4>1
      <4>4. Placed(t \o u, x, a)
        BY <2>3, <4>2, <4>3, PlacedBefore
      <4> QED BY <2>3, <4>1, <4>4
    <3>2. CASE k = m + 1
      <4>1. s[k] = u /\ q[k - 1] = Len(t)
        BY <2>1, <2>2, <2>4, <3>2
      <4>2. Placed(t \o u, u, Len(t))
        BY <2>3, PlacedLast
      <4> QED BY <2>3, <4>1, <4>2
    <3>3. k \in 1 .. m \/ k = m + 1
      OBVIOUS
    <3> QED BY <3>1, <3>2, <3>3
  <2> QED BY <2>5, <2>6
<1>4. n \in T
  <2> HIDE DEF T
  <2> QED BY <1>2, <1>3, Induction
<1>5. P(n)
  <2> HIDE DEF P
  <2> QED BY <1>4
<1>6. r[n] = FlattenSeq(s) /\ r[n] \in Seq(Nat)
  <2>1. n \in 0 .. n
    OBVIOUS
  <2> QED BY <1>1, <2>1 DEF Joins
<1> QED BY <1>5, <1>6

\* The bytes b have s at p.
Holds(b, p, s) ==
    /\ p + Len(s) <= Len(b) + 1
    /\ \A i \in 1 .. Len(s) : b[p + i - 1] = s[i]

\* Each number there.
LEMMA HoldsGet ==
    ASSUME NEW b \in Seq(Nat), NEW p \in Nat, p >= 1, NEW s \in Seq(Nat), Holds(b, p, s),
           NEW i \in 1 .. Len(s)
    PROVE  Get(b, p + i - 1) = s[i]
<1>1. p + i - 1 \in DOMAIN b
  BY DEF Holds
<1> QED BY <1>1 DEF Holds, Get

\* The first number there.
LEMMA HoldsFirst ==
    ASSUME NEW b \in Seq(Nat), NEW p \in Nat, p >= 1, NEW s \in Seq(Nat), Holds(b, p, s),
           Len(s) >= 1
    PROVE  Get(b, p) = s[1]
<1>1. 1 \in 1 .. Len(s) /\ p + 1 - 1 = p
  OBVIOUS
<1> QED BY <1>1, HoldsGet

\* Two sequences that are there behind each other.
LEMMA HoldsConcat ==
    ASSUME NEW b \in Seq(Nat), NEW p \in Nat, p >= 1,
           NEW s \in Seq(Nat), NEW t \in Seq(Nat), Holds(b, p, s \o t)
    PROVE  Holds(b, p, s) /\ Holds(b, p + Len(s), t)
<1>1. PICK m, n : m = Len(s) /\ n = Len(t)
  OBVIOUS
<1>2. m \in Nat /\ n \in Nat /\ Len(s \o t) = m + n
  BY <1>1
<1>3. p + (m + n) <= Len(b) + 1
  BY <1>2 DEF Holds
<1>4. ASSUME NEW i \in 1 .. m PROVE b[p + i - 1] = s[i]
  <2>1. i \in 1 .. Len(s \o t) /\ (s \o t)[i] = s[i]
    BY <1>1, <1>2
  <2> QED BY <2>1 DEF Holds
<1>5. ASSUME NEW i \in 1 .. n PROVE b[(p + m) + i - 1] = t[i]
  <2>1. m + i \in 1 .. Len(s \o t) /\ (s \o t)[m + i] = t[i]
    BY <1>1, <1>2
  <2>2. p + (m + i) - 1 = (p + m) + i - 1
    BY <1>2
  <2> QED BY <2>1, <2>2 DEF Holds
<1> QED BY <1>1, <1>2, <1>3, <1>4, <1>5 DEF Holds

\* A part of what is there.
LEMMA HoldsPlaced ==
    ASSUME NEW b \in Seq(Nat), NEW p \in Nat, p >= 1, NEW t \in Seq(Nat), Holds(b, p, t),
           NEW u \in Seq(Nat), NEW a \in Nat, Placed(t, u, a)
    PROVE  Holds(b, p + a, u)
<1>1. PICK m, n : m = Len(u) /\ n = Len(t)
  OBVIOUS
<1>2. m \in Nat /\ n \in Nat /\ a + m <= n /\ p + n <= Len(b) + 1
  BY <1>1 DEF Holds, Placed
<1>3. (p + a) + m <= Len(b) + 1
  BY <1>2
<1>4. ASSUME NEW i \in 1 .. m PROVE b[(p + a) + i - 1] = u[i]
  <2>1. a + i \in 1 .. n /\ (p + a) + i - 1 = p + (a + i) - 1
    BY <1>2
  <2>2. b[p + (a + i) - 1] = t[a + i]
    BY <1>1, <2>1 DEF Holds
  <2>3. t[a + i] = u[i]
    BY <1>1 DEF Placed
  <2> QED BY <2>1, <2>2, <2>3
<1> QED BY <1>1, <1>3, <1>4 DEF Holds

\* One of several sequences that are there behind each other.
LEMMA HoldsFlattened ==
    ASSUME NEW b \in Seq(Nat), NEW p \in Nat, p >= 1,
           NEW n \in Nat, NEW s, NEW ls, NEW q, Laid(s, ls, q, n),
           Holds(b, p, FlattenSeq(s)),
           NEW k \in 1 .. n
    PROVE  Holds(b, p + q[k - 1], s[k])
<1>1. PICK t, u, a : t = FlattenSeq(s) /\ u = s[k] /\ a = q[k - 1]
  OBVIOUS
<1>2. FlattenSeq(s) \in Seq(Nat) /\ Placed(FlattenSeq(s), s[k], q[k - 1])
  BY Flattened
<1>3. a \in Nat /\ u \in Seq(Nat)
  <2>1. k - 1 \in 0 .. n
    OBVIOUS
  <2> QED BY <1>1, <2>1 DEF Laid, Sums, Listing
<1>4. t \in Seq(Nat) /\ Placed(t, u, a) /\ Holds(b, p, t)
  BY <1>1, <1>2
<1>5. Holds(b, p + a, u)
  BY <1>3, <1>4, HoldsPlaced
<1> QED BY <1>1, <1>5

\* Multiplication, for the provers.
LEMMA Times ==
    ASSUME NEW m \in Nat, NEW n \in Nat
    PROVE  m * n \in Nat /\ (m + 1) * n = m * n + n
OBVIOUS

\* A dimension takes one place or two.
LEMMA WidthType == Width \in Nat /\ Width >= 1
BY DEF Width, Uint

\* A number is written in that many places, itself first.
LEMMA UintType ==
    ASSUME NEW n \in Nat
    PROVE  Uint(n) \in Seq(Nat) /\ Len(Uint(n)) = Width /\ Uint(n)[1] = n
BY DEF Uint, Width

\* Where the numbers are that are written.
LEMMA UintsLaid ==
    ASSUME NEW ns \in Seq(Nat), NEW n \in Nat, n = Len(ns)
    PROVE  \E s, ls, q :
               /\ Laid(s, ls, q, n)
               /\ Uints(ns) = FlattenSeq(s)
               /\ s = [k \in 1 .. n |-> Uint(ns[k])]
               /\ q = [k \in 0 .. n |-> k * Width]
<1>1. PICK s : s = [k \in 1 .. n |-> Uint(ns[k])]
  OBVIOUS
<1>2. DOMAIN ns = 1 .. n /\ \A k \in 1 .. n : ns[k] \in Nat
  OBVIOUS
<1>3. Uints(ns) = FlattenSeq(s)
  BY <1>1, <1>2 DEF Uints
<1>4. \A k \in 1 .. n : s[k] \in Seq(Nat) /\ Len(s[k]) = Width
  BY <1>1, <1>2, UintType
<1>5. s = [k \in 1 .. n |-> s[k]]
  BY <1>1
<1>6. PICK w : w = Width
  OBVIOUS
<1>7. w \in Nat
  BY <1>6, WidthType
<1>8. PICK ls : ls = [k \in 1 .. n |-> w]
  OBVIOUS
<1>9. PICK q : q = [k \in 0 .. n |-> k * w]
  OBVIOUS
<1>10. Sums(q, ls, n)
  <2>1. \A k \in 0 .. n : q[k] \in Nat
    BY <1>7, <1>9, Times
  <2>2. q[0] = 0
    BY <1>7, <1>9
  <2>3. ASSUME NEW k \in 1 .. n PROVE q[k] = q[k - 1] + ls[k]
    <3>1. k - 1 \in Nat /\ (k - 1) + 1 = k /\ k - 1 \in 0 .. n /\ k \in 0 .. n
      OBVIOUS
    <3>2. k * w = (k - 1) * w + w
      BY <1>7, <3>1, Times
    <3> QED BY <1>8, <1>9, <3>1, <3>2
  <2> QED BY <1>9, <2>1, <2>2, <2>3 DEF Sums
<1>11. Laid(s, ls, q, n)
  <2>1. Listing(s, n, Nat)
    BY <1>4, <1>5 DEF Listing
  <2>2. \A k \in 1 .. n : ls[k] = Len(s[k])
    BY <1>4, <1>6, <1>8
  <2> QED BY <1>10, <2>1, <2>2 DEF Laid
<1> QED BY <1>1, <1>3, <1>6, <1>9, <1>11

\* And how many bytes they take.
LEMMA UintsType ==
    ASSUME NEW ns \in Seq(Nat)
    PROVE  Uints(ns) \in Seq(Nat) /\ Len(Uints(ns)) = Len(ns) * Width
<1>1. PICK n : n = Len(ns)
  OBVIOUS
<1>2. n \in Nat
  BY <1>1
<1>3. PICK s, ls, q :
         /\ Laid(s, ls, q, n)
         /\ Uints(ns) = FlattenSeq(s)
         /\ s = [k \in 1 .. n |-> Uint(ns[k])]
         /\ q = [k \in 0 .. n |-> k * Width]
  BY <1>1, <1>2, UintsLaid
<1>4. FlattenSeq(s) \in Seq(Nat) /\ Len(FlattenSeq(s)) = q[n]
  BY <1>2, <1>3, Flattened
<1>5. q[n] = n * Width
  BY <1>2, <1>3
<1> QED BY <1>1, <1>3, <1>4, <1>5

\* What READ_UINTS reads is what WRITE_UINT64S wrote, if the reader is told how
\* wide it was written.
LEMMA UintsBack ==
    ASSUME Width = Step, NEW b \in Seq(Nat), NEW p \in Nat, p >= 1,
           NEW ns \in Seq(Nat), Holds(b, p, Uints(ns))
    PROVE  ReadUints(b, p, Len(ns)) = ns
<1>1. PICK n : n = Len(ns)
  OBVIOUS
<1>2. n \in Nat /\ \A k \in 1 .. n : ns[k] \in Nat
  BY <1>1
<1>3. PICK s, ls, q :
         /\ Laid(s, ls, q, n)
         /\ Uints(ns) = FlattenSeq(s)
         /\ s = [k \in 1 .. n |-> Uint(ns[k])]
         /\ q = [k \in 0 .. n |-> k * Width]
  BY <1>1, <1>2, UintsLaid
<1>4. Holds(b, p, FlattenSeq(s))
  BY <1>3
<1>5. ASSUME NEW k \in 1 .. n PROVE Get(b, p + (k - 1) * Step) = ns[k]
  <2>1. Holds(b, p + q[k - 1], s[k])
    BY <1>2, <1>3, <1>4, HoldsFlattened
  <2>2. PICK x, u : x = q[k - 1] /\ u = Uint(ns[k])
    OBVIOUS
  <2>3. x = (k - 1) * Step /\ x \in Nat
    <3>1. k - 1 \in 0 .. n
      BY <1>2
    <3> QED BY <1>3, <2>2, <3>1 DEF Laid, Sums
  <2>4. u \in Seq(Nat) /\ Len(u) = Step /\ u[1] = ns[k]
    BY <1>2, <2>2, UintType
  <2>5. Len(u) >= 1
    BY <2>4, WidthType
  <2>6. PICK r : r = p + x
    OBVIOUS
  <2>7. r \in Nat /\ r >= 1
    BY <2>3, <2>6
  <2>8. Holds(b, r, u)
    BY <1>3, <2>1, <2>2, <2>6
  <2>9. Get(b, r) = u[1]
    BY <2>4, <2>5, <2>7, <2>8, HoldsFirst
  <2> QED BY <2>3, <2>4, <2>6, <2>9
<1>6. ReadUints(b, p, n) = [k \in 1 .. n |-> ns[k]]
  BY <1>5 DEF ReadUints
<1>7. ns = [k \in 1 .. n |-> ns[k]]
  BY <1>1
<1> QED BY <1>1, <1>6, <1>7

-----------------------------------------------------------------------------
(* Arrays and sparse matrices *)

\* Two sequences of bytes are one, as long as both.
LEMMA Concat2 ==
    ASSUME NEW s \in Seq(Nat), NEW t \in Seq(Nat)
    PROVE  s \o t \in Seq(Nat) /\ Len(s \o t) = Len(s) + Len(t)
OBVIOUS

\* What an array has.
LEMMA ArrayFields ==
    ASSUME NEW v \in Arrays
    PROVE  /\ v.t = "array" /\ v.dims \in Seq(Nat) /\ v.class \in Nat /\ v.cplx \in {0, 1}
           /\ v.data \in Seq(Nat) /\ Len(v.data) = Elements(v.dims) * (1 + v.cplx)
           /\ v = Array(v.dims, v.class, v.cplx, v.data)
BY DEF Arrays, Array

\* What an array is written as, and how long that is.
LEMMA ArrayWritten ==
    ASSUME NEW v \in Arrays, NEW xs
    PROVE  serializeArray(v) \in Seq(Nat) /\ Len(serializeArray(v)) = Allocated(v, xs)
<1>1. PICK n, w, m, e :
         n = Len(v.dims) /\ w = Width /\ m = n * w /\ e = Elements(v.dims) * (1 + v.cplx)
  OBVIOUS
<1>2. PICK s1, s2, s3, s4, s5 :
         /\ s1 = <<65>> /\ s2 = Uint(n) /\ s3 = Uints(v.dims)
         /\ s4 = <<v.class, v.cplx>> /\ s5 = v.data
  OBVIOUS
<1>a. n \in Nat
  BY <1>1, ArrayFields
<1>b. w \in Nat /\ w >= 1
  BY <1>1, WidthType
<1>3. m \in Nat
  BY <1>1, <1>a, <1>b, Times
<1>4. s1 \in Seq(Nat) /\ Len(s1) = 1 /\ s1[1] = 65
  BY <1>2
<1>5. s2 \in Seq(Nat) /\ Len(s2) = w /\ s2[1] = n
  BY <1>1, <1>2, <1>a, UintType
<1>6. s3 \in Seq(Nat) /\ Len(s3) = m
  BY <1>1, <1>2, ArrayFields, UintsType
<1>7. s4 \in Seq(Nat) /\ Len(s4) = 2 /\ s4[1] = v.class /\ s4[2] = v.cplx
  <2>1. v.class \in Nat /\ v.cplx \in Nat
    BY ArrayFields
  <2> QED BY <1>2, <2>1
<1>8. s5 \in Seq(Nat) /\ Len(s5) = e
  BY <1>1, <1>2, ArrayFields
<1>u2. PICK u2 : u2 = s1 \o s2
  OBVIOUS
<1>u3. PICK u3 : u3 = u2 \o s3
  OBVIOUS
<1>u4. PICK u4 : u4 = u3 \o s4
  OBVIOUS
<1>u5. PICK u5 : u5 = u4 \o s5
  OBVIOUS
<1>c2. u2 \in Seq(Nat) /\ Len(u2) = 1 + w
  <2>1. u2 \in Seq(Nat) /\ Len(u2) = Len(s1) + Len(s2)
    BY <1>u2, <1>4, <1>5, Concat2
  <2> QED BY <1>4, <1>5, <2>1
<1>c3. u3 \in Seq(Nat) /\ Len(u3) = 1 + w + m
  <2>1. u3 \in Seq(Nat) /\ Len(u3) = Len(u2) + Len(s3)
    BY <1>u3, <1>c2, <1>6, Concat2
  <2> QED BY <1>c2, <1>6, <2>1
<1>c4. u4 \in Seq(Nat) /\ Len(u4) = 1 + w + m + 2
  <2>1. u4 \in Seq(Nat) /\ Len(u4) = Len(u3) + Len(s4)
    BY <1>u4, <1>c3, <1>7, Concat2
  <2> QED BY <1>c3, <1>7, <2>1
<1>c5. u5 \in Seq(Nat) /\ Len(u5) = 1 + w + m + 2 + e
  <2>1. u5 \in Seq(Nat) /\ Len(u5) = Len(u4) + Len(s5)
    BY <1>u5, <1>c4, <1>8, Concat2
  <2> QED BY <1>c4, <1>8, <2>1
<1>9. serializeArray(v) = u5
  BY <1>1, <1>2, <1>u2, <1>u3, <1>u4, <1>u5 DEF serializeArray, Tag
<1>10. Allocated(v, xs) = 1 + w + m + 2 + e
  BY <1>1, ArrayFields DEF Allocated
<1> QED BY <1>9, <1>10, <1>c5

\* An array is read as it was.
LEMMA ArrayBack ==
    ASSUME Width = Step, NEW b \in Seq(Nat), NEW p \in Nat, p >= 1,
           NEW v \in Arrays, Holds(b, p, serializeArray(v))
    PROVE  Get(b, p) = 65 /\ deserializeArray(b, p + 1) = v
<1>1. PICK n, w, m, e :
         n = Len(v.dims) /\ w = Step /\ m = n * w /\ e = Elements(v.dims) * (1 + v.cplx)
  OBVIOUS
<1>2. PICK s1, s2, s3, s4, s5 :
         /\ s1 = <<65>> /\ s2 = Uint(n) /\ s3 = Uints(v.dims)
         /\ s4 = <<v.class, v.cplx>> /\ s5 = v.data
  OBVIOUS
<1>a. n \in Nat
  BY <1>1, ArrayFields
<1>b. w \in Nat /\ w >= 1
  BY <1>1, WidthType
<1>3. m \in Nat
  BY <1>1, <1>a, <1>b, Times
<1>4. s1 \in Seq(Nat) /\ Len(s1) = 1 /\ s1[1] = 65
  BY <1>2
<1>5. s2 \in Seq(Nat) /\ Len(s2) = w /\ s2[1] = n
  BY <1>1, <1>2, <1>a, UintType
<1>6. s3 \in Seq(Nat) /\ Len(s3) = m
  BY <1>1, <1>2, ArrayFields, UintsType
<1>7. s4 \in Seq(Nat) /\ Len(s4) = 2 /\ s4[1] = v.class /\ s4[2] = v.cplx
  <2>1. v.class \in Nat /\ v.cplx \in Nat
    BY ArrayFields
  <2> QED BY <1>2, <2>1
<1>8. s5 \in Seq(Nat) /\ Len(s5) = e
  BY <1>1, <1>2, ArrayFields
<1>u2. PICK u2 : u2 = s1 \o s2
  OBVIOUS
<1>u3. PICK u3 : u3 = u2 \o s3
  OBVIOUS
<1>u4. PICK u4 : u4 = u3 \o s4
  OBVIOUS
<1>u5. PICK u5 : u5 = u4 \o s5
  OBVIOUS
<1>c2. u2 \in Seq(Nat) /\ Len(u2) = 1 + w
  <2>1. u2 \in Seq(Nat) /\ Len(u2) = Len(s1) + Len(s2)
    BY <1>u2, <1>4, <1>5, Concat2
  <2> QED BY <1>4, <1>5, <2>1
<1>c3. u3 \in Seq(Nat) /\ Len(u3) = 1 + w + m
  <2>1. u3 \in Seq(Nat) /\ Len(u3) = Len(u2) + Len(s3)
    BY <1>u3, <1>c2, <1>6, Concat2
  <2> QED BY <1>c2, <1>6, <2>1
<1>c4. u4 \in Seq(Nat) /\ Len(u4) = 1 + w + m + 2
  <2>1. u4 \in Seq(Nat) /\ Len(u4) = Len(u3) + Len(s4)
    BY <1>u4, <1>c3, <1>7, Concat2
  <2> QED BY <1>c3, <1>7, <2>1
<1>c5. u5 \in Seq(Nat) /\ Len(u5) = 1 + w + m + 2 + e
  <2>1. u5 \in Seq(Nat) /\ Len(u5) = Len(u4) + Len(s5)
    BY <1>u5, <1>c4, <1>8, Concat2
  <2> QED BY <1>c4, <1>8, <2>1
<1>9. serializeArray(v) = u5
  BY <1>1, <1>2, <1>u2, <1>u3, <1>u4, <1>u5 DEF serializeArray, Tag
<1>h6. Holds(b, p, u5)
  BY <1>9
<1>h5. Holds(b, p, u4) /\ Holds(b, p + (1 + w + m + 2), s5)
  BY <1>u5, <1>h6, <1>c4, <1>8, HoldsConcat
<1>h4. Holds(b, p, u3) /\ Holds(b, p + (1 + w + m), s4)
  BY <1>u4, <1>h5, <1>c3, <1>7, HoldsConcat
<1>h3. Holds(b, p, u2) /\ Holds(b, p + (1 + w), s3)
  BY <1>u3, <1>h4, <1>c2, <1>6, HoldsConcat
<1>h2. Holds(b, p, s1) /\ Holds(b, p + 1, s2)
  <2>1. Holds(b, p, s1 \o s2)
    BY <1>u2, <1>h3
  <2>2. s1 \in Seq(Nat) /\ s2 \in Seq(Nat) /\ Len(s1) = 1
    BY <1>4, <1>5
  <2>3. Holds(b, p, s1) /\ Holds(b, p + Len(s1), s2)
    BY <2>1, <2>2, HoldsConcat
  <2> QED BY <2>2, <2>3
<1>10. PICK q : q = (p + 1) + (1 + n) * w
  OBVIOUS
<1>11. q = p + (1 + w + m) /\ q \in Nat /\ q >= 1
  <2>1. (1 + n) * w = m + w
    BY <1>1, <1>a, <1>b, Times
  <2> QED BY <1>3, <1>b, <1>10, <2>1
<1>12. Get(b, p) = 65
  <2>1. Len(s1) >= 1 /\ Holds(b, p, s1)
    BY <1>4, <1>h2
  <2> QED BY <1>4, <2>1, HoldsFirst
<1>13. Get(b, p + 1) = n
  <2>1. p + 1 \in Nat /\ p + 1 >= 1 /\ Len(s2) >= 1
    BY <1>5, <1>b
  <2> QED BY <1>5, <1>h2, <2>1, HoldsFirst
<1>14. ReadUints(b, (p + 1) + w, n) = v.dims
  <2>1. PICK r : r = (p + 1) + w
    OBVIOUS
  <2>2. r \in Nat /\ r >= 1 /\ r = p + (1 + w)
    BY <1>b, <2>1
  <2>3. Holds(b, r, Uints(v.dims)) /\ v.dims \in Seq(Nat)
    BY <1>2, <1>h3, <2>2, ArrayFields
  <2> QED BY <1>1, <2>1, <2>2, <2>3, UintsBack
<1>15. Holds(b, q, s4)
  BY <1>11, <1>h4
<1>16. Get(b, q) = v.class
  <2>1. Len(s4) >= 1
    BY <1>7
  <2> QED BY <1>7, <1>11, <1>15, <2>1, HoldsFirst
<1>17. Get(b, q + 1) = v.cplx
  <2>1. 2 \in 1 .. Len(s4)
    BY <1>7
  <2>2. Get(b, q + 2 - 1) = s4[2]
    BY <1>7, <1>11, <1>15, <2>1, HoldsGet
  <2>3. q + 2 - 1 = q + 1
    BY <1>11
  <2> QED BY <1>7, <2>2, <2>3
<1>18. ASSUME NEW k \in 1 .. Len(s5) PROVE Get(b, q + 1 + k) = s5[k]
  <2>1. PICK r : r = q + 2
    OBVIOUS
  <2>2. r = p + (1 + w + m + 2) /\ r \in Nat /\ r >= 1 /\ r + k - 1 = q + 1 + k
    BY <1>3, <1>b, <1>8, <1>11, <2>1
  <2>3. Holds(b, r, s5)
    BY <1>h5, <2>2
  <2>4. Get(b, r + k - 1) = s5[k]
    BY <1>8, <2>2, <2>3, HoldsGet
  <2> QED BY <2>2, <2>4
<1>19. deserializeArray(b, p + 1) =
           Array(v.dims, v.class, v.cplx, [k \in 1 .. Len(s5) |-> Get(b, q + 1 + k)])
  <2>1. deserializeArray(b, p + 1) =
            Array(v.dims, Get(b, q), Get(b, q + 1),
                  [k \in 1 .. Elements(v.dims) * (1 + Get(b, q + 1)) |-> Get(b, q + 1 + k)])
    BY <1>1, <1>10, <1>13, <1>14 DEF deserializeArray
  <2> QED BY <1>1, <1>8, <1>16, <1>17, <2>1
<1>20. [k \in 1 .. Len(s5) |-> Get(b, q + 1 + k)] = v.data
  <2>1. s5 = [k \in 1 .. Len(s5) |-> s5[k]]
    BY <1>8
  <2> QED BY <1>2, <1>18, <2>1
<1> QED BY <1>12, <1>19, <1>20, ArrayFields

\* Products, for the provers.
LEMMA Distribute ==
    ASSUME NEW a \in Nat, NEW m \in Nat, NEW n \in Nat
    PROVE  a * (m + n) = a * m + a * n /\ m * n = n * m
OBVIOUS

\* What a sparse matrix has.
LEMMA SparseFields ==
    ASSUME NEW v \in Sparses
    PROVE  /\ v.t = "sparse" /\ v.dims \in Seq(Nat) /\ v.class \in Nat /\ v.cplx \in {0, 1}
           /\ v.jc \in Seq(Nat) /\ v.ir \in Seq(Nat) /\ v.data \in Seq(Nat)
           /\ Len(v.dims) = 2 /\ v.dims[2] \in Nat /\ Len(v.jc) = v.dims[2] + 1
           /\ Len(v.data) = Len(v.ir) * (1 + v.cplx)
           /\ v = Sparse(v.dims, v.class, v.cplx, v.jc, v.ir, v.data)
BY DEF Sparses, Sparse

\* Its class and its complexity are numbers.
LEMMA SparseNumbers == ASSUME NEW v \in Sparses PROVE v.class \in Nat /\ v.cplx \in Nat
<1>1. v.class \in Nat /\ v.cplx \in {0, 1}
  BY DEF Sparses
<1>2. \A c \in {0, 1} : c \in Nat
  OBVIOUS
<1> QED BY <1>1, <1>2

\* What a sparse matrix is written as, and how long that is.
LEMMA SparseWritten ==
    ASSUME NEW v \in Sparses, NEW xs
    PROVE  serializeSparse(v) \in Seq(Nat) /\ Len(serializeSparse(v)) = Allocated(v, xs)
<1>1. PICK n, w, j, c : n = Len(v.ir) /\ w = Width /\ j = Len(v.jc) /\ c = 1 + v.cplx
  OBVIOUS
<1>2. PICK s1, s2, s3, s4, s5, s6, s7 :
         /\ s1 = <<80>> /\ s2 = Uints(v.dims) /\ s3 = Uint(n)
         /\ s4 = <<v.class, v.cplx>> /\ s5 = Uints(v.jc) /\ s6 = Uints(v.ir) /\ s7 = v.data
  OBVIOUS
<1>a. n \in Nat /\ j \in Nat /\ c \in Nat
  <2>1. n \in Nat /\ j \in Nat
    BY <1>1, SparseFields
  <2>2. v.cplx \in Nat
    BY SparseNumbers
  <2> QED BY <1>1, <2>1, <2>2
<1>b. w \in Nat /\ w >= 1
  BY <1>1, WidthType
<1>d. PICK k0, k1, k2, k3 : k0 = 2 * w /\ k1 = j * w /\ k2 = n * w /\ k3 = n * c
  OBVIOUS
<1>3. k0 \in Nat /\ k1 \in Nat /\ k2 \in Nat /\ k3 \in Nat
  BY <1>a, <1>b, <1>d, Times
<1>4. s1 \in Seq(Nat) /\ Len(s1) = 1 /\ s1[1] = 80
  BY <1>2
<1>5. s2 \in Seq(Nat) /\ Len(s2) = k0
  BY <1>1, <1>2, <1>d, SparseFields, UintsType
<1>6. s3 \in Seq(Nat) /\ Len(s3) = w /\ s3[1] = n
  BY <1>1, <1>2, <1>a, UintType
<1>7. s4 \in Seq(Nat) /\ Len(s4) = 2 /\ s4[1] = v.class /\ s4[2] = v.cplx
  <2>1. v.class \in Nat /\ v.cplx \in Nat
    BY SparseNumbers
  <2> QED BY <1>2, <2>1
<1>8. s5 \in Seq(Nat) /\ Len(s5) = k1
  BY <1>1, <1>2, <1>d, SparseFields, UintsType
<1>9. s6 \in Seq(Nat) /\ Len(s6) = k2
  BY <1>1, <1>2, <1>d, SparseFields, UintsType
<1>10. s7 \in Seq(Nat) /\ Len(s7) = k3
  BY <1>1, <1>2, <1>d, SparseFields
<1>u2. PICK u2 : u2 = s1 \o s2
  OBVIOUS
<1>u3. PICK u3 : u3 = u2 \o s3
  OBVIOUS
<1>u4. PICK u4 : u4 = u3 \o s4
  OBVIOUS
<1>u5. PICK u5 : u5 = u4 \o s5
  OBVIOUS
<1>u6. PICK u6 : u6 = u5 \o s6
  OBVIOUS
<1>u7. PICK u7 : u7 = u6 \o s7
  OBVIOUS
<1>c2. u2 \in Seq(Nat) /\ Len(u2) = 1 + k0
  <2>1. u2 \in Seq(Nat) /\ Len(u2) = Len(s1) + Len(s2)
    BY <1>u2, <1>4, <1>5, Concat2
  <2> QED BY <1>4, <1>5, <2>1
<1>c3. u3 \in Seq(Nat) /\ Len(u3) = 1 + k0 + w
  <2>1. u3 \in Seq(Nat) /\ Len(u3) = Len(u2) + Len(s3)
    BY <1>u3, <1>c2, <1>6, Concat2
  <2> QED BY <1>c2, <1>6, <2>1
<1>c4. u4 \in Seq(Nat) /\ Len(u4) = 1 + k0 + w + 2
  <2>1. u4 \in Seq(Nat) /\ Len(u4) = Len(u3) + Len(s4)
    BY <1>u4, <1>c3, <1>7, Concat2
  <2> QED BY <1>c3, <1>7, <2>1
<1>c5. u5 \in Seq(Nat) /\ Len(u5) = 1 + k0 + w + 2 + k1
  <2>1. u5 \in Seq(Nat) /\ Len(u5) = Len(u4) + Len(s5)
    BY <1>u5, <1>c4, <1>8, Concat2
  <2> QED BY <1>c4, <1>8, <2>1
<1>c6. u6 \in Seq(Nat) /\ Len(u6) = 1 + k0 + w + 2 + k1 + k2
  <2>1. u6 \in Seq(Nat) /\ Len(u6) = Len(u5) + Len(s6)
    BY <1>u6, <1>c5, <1>9, Concat2
  <2> QED BY <1>c5, <1>9, <2>1
<1>c7. u7 \in Seq(Nat) /\ Len(u7) = 1 + k0 + w + 2 + k1 + k2 + k3
  <2>1. u7 \in Seq(Nat) /\ Len(u7) = Len(u6) + Len(s7)
    BY <1>u7, <1>c6, <1>10, Concat2
  <2> QED BY <1>c6, <1>10, <2>1
<1>11. serializeSparse(v) = u7
  BY <1>1, <1>2, <1>u2, <1>u3, <1>u4, <1>u5, <1>u6, <1>u7 DEF serializeSparse, Tag
<1>12. Allocated(v, xs) = 1 + 3 * w + 2 + w * j + n * (w + c)
  <2>1. Allocated(v, xs) = 1 + 3 * w + 2 + w * (v.dims[2] + 1) + n * (w + 1 + v.cplx)
    BY <1>1, SparseFields DEF Allocated
  <2>2. v.dims[2] + 1 = j
    BY <1>1, SparseFields
  <2>3. w + 1 + v.cplx = w + c
    <3>1. v.cplx \in Nat
      BY SparseFields
    <3> QED BY <1>1, <1>b, <3>1
  <2> QED BY <2>1, <2>2, <2>3
<1>13. w * j = k1 /\ n * (w + c) = k2 + k3
  BY <1>a, <1>b, <1>d, Distribute
<1>14. Allocated(v, xs) = 1 + k0 + w + 2 + k1 + k2 + k3
  <2>1. 3 * w = k0 + w
    BY <1>b, <1>d
  <2>2. PICK k4, k5, k6 : k4 = 3 * w /\ k5 = w * j /\ k6 = n * (w + c)
    OBVIOUS
  <2> QED BY <1>3, <1>b, <1>12, <1>13, <2>1, <2>2
<1> QED BY <1>11, <1>14, <1>c7

\* Inside another value, a sparse matrix is read as it was.
LEMMA SparseBack ==
    ASSUME Width = Step, NEW b \in Seq(Nat), NEW p \in Nat, p >= 1,
           NEW v \in Sparses, Holds(b, p, serializeSparse(v))
    PROVE  Get(b, p) = 80 /\ deserializeSparse(b, p + 1) = v
<1>1. PICK n, w, j, c : n = Len(v.ir) /\ w = Step /\ j = Len(v.jc) /\ c = 1 + v.cplx
  OBVIOUS
<1>2. PICK s1, s2, s3, s4, s5, s6, s7 :
         /\ s1 = <<80>> /\ s2 = Uints(v.dims) /\ s3 = Uint(n)
         /\ s4 = <<v.class, v.cplx>> /\ s5 = Uints(v.jc) /\ s6 = Uints(v.ir) /\ s7 = v.data
  OBVIOUS
<1>a. n \in Nat /\ j \in Nat /\ c \in Nat
  <2>1. n \in Nat /\ j \in Nat
    BY <1>1, SparseFields
  <2>2. v.cplx \in Nat
    BY SparseNumbers
  <2> QED BY <1>1, <2>1, <2>2
<1>b. w \in Nat /\ w >= 1
  BY <1>1, WidthType
<1>d. PICK k0, k1, k2, k3 : k0 = 2 * w /\ k1 = j * w /\ k2 = n * w /\ k3 = n * c
  OBVIOUS
<1>3. k0 \in Nat /\ k1 \in Nat /\ k2 \in Nat /\ k3 \in Nat
  BY <1>a, <1>b, <1>d, Times
<1>4. s1 \in Seq(Nat) /\ Len(s1) = 1 /\ s1[1] = 80
  BY <1>2
<1>5. s2 \in Seq(Nat) /\ Len(s2) = k0
  BY <1>1, <1>2, <1>d, SparseFields, UintsType
<1>6. s3 \in Seq(Nat) /\ Len(s3) = w /\ s3[1] = n
  BY <1>1, <1>2, <1>a, UintType
<1>7. s4 \in Seq(Nat) /\ Len(s4) = 2 /\ s4[1] = v.class /\ s4[2] = v.cplx
  <2>1. v.class \in Nat /\ v.cplx \in Nat
    BY SparseNumbers
  <2> QED BY <1>2, <2>1
<1>8. s5 \in Seq(Nat) /\ Len(s5) = k1
  BY <1>1, <1>2, <1>d, SparseFields, UintsType
<1>9. s6 \in Seq(Nat) /\ Len(s6) = k2
  BY <1>1, <1>2, <1>d, SparseFields, UintsType
<1>10. s7 \in Seq(Nat) /\ Len(s7) = k3
  BY <1>1, <1>2, <1>d, SparseFields
<1>u2. PICK u2 : u2 = s1 \o s2
  OBVIOUS
<1>u3. PICK u3 : u3 = u2 \o s3
  OBVIOUS
<1>u4. PICK u4 : u4 = u3 \o s4
  OBVIOUS
<1>u5. PICK u5 : u5 = u4 \o s5
  OBVIOUS
<1>u6. PICK u6 : u6 = u5 \o s6
  OBVIOUS
<1>u7. PICK u7 : u7 = u6 \o s7
  OBVIOUS
<1>c2. u2 \in Seq(Nat) /\ Len(u2) = 1 + k0
  <2>1. u2 \in Seq(Nat) /\ Len(u2) = Len(s1) + Len(s2)
    BY <1>u2, <1>4, <1>5, Concat2
  <2> QED BY <1>4, <1>5, <2>1
<1>c3. u3 \in Seq(Nat) /\ Len(u3) = 1 + k0 + w
  <2>1. u3 \in Seq(Nat) /\ Len(u3) = Len(u2) + Len(s3)
    BY <1>u3, <1>c2, <1>6, Concat2
  <2> QED BY <1>c2, <1>6, <2>1
<1>c4. u4 \in Seq(Nat) /\ Len(u4) = 1 + k0 + w + 2
  <2>1. u4 \in Seq(Nat) /\ Len(u4) = Len(u3) + Len(s4)
    BY <1>u4, <1>c3, <1>7, Concat2
  <2> QED BY <1>c3, <1>7, <2>1
<1>c5. u5 \in Seq(Nat) /\ Len(u5) = 1 + k0 + w + 2 + k1
  <2>1. u5 \in Seq(Nat) /\ Len(u5) = Len(u4) + Len(s5)
    BY <1>u5, <1>c4, <1>8, Concat2
  <2> QED BY <1>c4, <1>8, <2>1
<1>c6. u6 \in Seq(Nat) /\ Len(u6) = 1 + k0 + w + 2 + k1 + k2
  <2>1. u6 \in Seq(Nat) /\ Len(u6) = Len(u5) + Len(s6)
    BY <1>u6, <1>c5, <1>9, Concat2
  <2> QED BY <1>c5, <1>9, <2>1
<1>c7. u7 \in Seq(Nat) /\ Len(u7) = 1 + k0 + w + 2 + k1 + k2 + k3
  <2>1. u7 \in Seq(Nat) /\ Len(u7) = Len(u6) + Len(s7)
    BY <1>u7, <1>c6, <1>10, Concat2
  <2> QED BY <1>c6, <1>10, <2>1
<1>11. serializeSparse(v) = u7
  BY <1>1, <1>2, <1>u2, <1>u3, <1>u4, <1>u5, <1>u6, <1>u7 DEF serializeSparse, Tag
<1>h8. Holds(b, p, u7)
  BY <1>11
<1>h7. Holds(b, p, u6) /\ Holds(b, p + (1 + k0 + w + 2 + k1 + k2), s7)
  BY <1>u7, <1>h8, <1>c6, <1>10, HoldsConcat
<1>h6. Holds(b, p, u5) /\ Holds(b, p + (1 + k0 + w + 2 + k1), s6)
  BY <1>u6, <1>h7, <1>c5, <1>9, HoldsConcat
<1>h5. Holds(b, p, u4) /\ Holds(b, p + (1 + k0 + w + 2), s5)
  BY <1>u5, <1>h6, <1>c4, <1>8, HoldsConcat
<1>h4. Holds(b, p, u3) /\ Holds(b, p + (1 + k0 + w), s4)
  BY <1>u4, <1>h5, <1>c3, <1>7, HoldsConcat
<1>h3. Holds(b, p, u2) /\ Holds(b, p + (1 + k0), s3)
  BY <1>u3, <1>h4, <1>c2, <1>6, HoldsConcat
<1>h2. Holds(b, p, s1) /\ Holds(b, p + 1, s2)
  <2>1. Holds(b, p, s1 \o s2)
    BY <1>u2, <1>h3
  <2>2. s1 \in Seq(Nat) /\ s2 \in Seq(Nat) /\ Len(s1) = 1
    BY <1>4, <1>5
  <2>3. Holds(b, p, s1) /\ Holds(b, p + Len(s1), s2)
    BY <2>1, <2>2, HoldsConcat
  <2> QED BY <2>2, <2>3
<1>q. PICK q : q = (p + 1) + 3 * w
  OBVIOUS
<1>14. q \in Nat /\ q >= 1 /\ q = p + (1 + k0 + w)
  <2>1. PICK k4 : k4 = 3 * w
    OBVIOUS
  <2>2. k4 = k0 + w
    BY <1>b, <1>d, <2>1
  <2> QED BY <1>3, <1>b, <1>q, <2>1, <2>2
<1>15. /\ Holds(b, p, s1) /\ Holds(b, p + 1, s2) /\ Holds(b, (p + 1) + 2 * w, s3)
       /\ Holds(b, q, s4) /\ Holds(b, q + 2, s5) /\ Holds(b, (q + 2) + k1, s6)
       /\ Holds(b, ((q + 2) + k1) + k2, s7)
  <2>1. (p + 1) + k0 = p + (1 + k0)
    BY <1>3
  <2>2. /\ q + 2 = p + (1 + k0 + w + 2)
        /\ (q + 2) + k1 = p + (1 + k0 + w + 2 + k1)
        /\ ((q + 2) + k1) + k2 = p + (1 + k0 + w + 2 + k1 + k2)
    BY <1>3, <1>b, <1>14
  <2> QED BY <1>d, <1>14, <1>h2, <1>h3, <1>h4, <1>h5, <1>h6, <1>h7, <2>1, <2>2
<1>16. Get(b, p) = 80
  <2>1. Len(s1) >= 1 /\ Holds(b, p, s1)
    BY <1>4, <1>15
  <2> QED BY <1>4, <2>1, HoldsFirst
<1>17. ReadUints(b, p + 1, 2) = v.dims
  <2>1. Holds(b, p + 1, Uints(v.dims)) /\ v.dims \in Seq(Nat) /\ p + 1 \in Nat /\ p + 1 >= 1
    BY <1>2, <1>15, SparseFields
  <2>2. Len(v.dims) = 2
    BY SparseFields
  <2>3. ReadUints(b, p + 1, Len(v.dims)) = v.dims
    BY <2>1, UintsBack
  <2> QED BY <2>2, <2>3
<1>18. Get(b, (p + 1) + 2 * w) = n
  <2>1. PICK r : r = (p + 1) + 2 * w
    OBVIOUS
  <2>2. r \in Nat /\ r >= 1 /\ Len(s3) >= 1 /\ Holds(b, r, s3)
    BY <1>b, <1>6, <1>15, <2>1
  <2> QED BY <1>6, <2>1, <2>2, HoldsFirst
<1>19. Get(b, q) = v.class
  <2>1. Len(s4) >= 1
    BY <1>7
  <2> QED BY <1>7, <1>14, <1>15, <2>1, HoldsFirst
<1>20. Get(b, q + 1) = v.cplx
  <2>1. 2 \in 1 .. Len(s4)
    BY <1>7
  <2>2. Get(b, q + 2 - 1) = s4[2]
    BY <1>7, <1>14, <1>15, <2>1, HoldsGet
  <2>3. q + 2 - 1 = q + 1
    BY <1>14
  <2> QED BY <1>7, <2>2, <2>3
<1>21. ReadUints(b, q + 2, j) = v.jc
  <2>1. PICK r : r = q + 2
    OBVIOUS
  <2>2. r \in Nat /\ r >= 1
    BY <1>14, <2>1
  <2>3. Holds(b, r, Uints(v.jc))
    BY <1>2, <1>15, <2>1
  <2>4. v.jc \in Seq(Nat)
    BY SparseFields
  <2> QED BY <1>1, <2>1, <2>2, <2>3, <2>4, UintsBack
<1>r. PICK r : r = (q + 2) + k1
  OBVIOUS
<1>22. r \in Nat /\ r >= 1
  BY <1>3, <1>14, <1>r
<1>23. ReadUints(b, r, n) = v.ir
  <2>1. Holds(b, r, Uints(v.ir)) /\ v.ir \in Seq(Nat)
    BY <1>2, <1>15, <1>r, SparseFields
  <2> QED BY <1>1, <1>22, <2>1, UintsBack
<1>24. ASSUME NEW k \in 1 .. Len(s7) PROVE Get(b, r + k2 + k - 1) = s7[k]
  <2>1. Holds(b, r + k2, s7) /\ r + k2 \in Nat /\ r + k2 >= 1
    BY <1>3, <1>15, <1>22, <1>r
  <2>2. PICK z : z = r + k2
    OBVIOUS
  <2>3. Holds(b, z, s7) /\ z \in Nat /\ z >= 1
    BY <2>1, <2>2
  <2>4. Get(b, z + k - 1) = s7[k]
    BY <1>10, <2>3, HoldsGet
  <2> QED BY <2>2, <2>4
<1>25. deserializeSparse(b, p + 1) =
           Sparse(v.dims, v.class, v.cplx, v.jc, v.ir,
                  [k \in 1 .. Len(s7) |-> Get(b, r + k2 + k - 1)])
  <2>1. v.dims[2] + 1 = j
    BY <1>1, SparseFields
  <2>2. (q + 2) + (v.dims[2] + 1) * w = r /\ r + n * w = r + k2
    BY <1>1, <1>d, <1>r, <2>1
  <2>3. /\ Get(b, (p + 1) + 3 * w + 1) = v.cplx /\ Get(b, (p + 1) + 3 * w) = v.class
        /\ (p + 1) + 3 * w + 2 = q + 2
    BY <1>q, <1>19, <1>20
  <2>4. n * (1 + v.cplx) = Len(s7)
    BY <1>1, <1>d, <1>10
  <2>6. deserializeSparse(b, p + 1) =
           Sparse(v.dims, Get(b, q), Get(b, q + 1), ReadUints(b, q + 2, v.dims[2] + 1),
                  ReadUints(b, (q + 2) + (v.dims[2] + 1) * w, n),
                  [k \in 1 .. n * (1 + Get(b, q + 1)) |->
                      Get(b, (q + 2) + (v.dims[2] + 1) * w + n * w + k - 1)])
    BY <1>1, <1>17, <1>18, <1>q DEF deserializeSparse
  <2>7. deserializeSparse(b, p + 1) =
           Sparse(v.dims, v.class, v.cplx, v.jc, v.ir,
                  [k \in 1 .. n * (1 + v.cplx) |-> Get(b, r + n * w + k - 1)])
    BY <2>1, <2>2, <2>6, <1>19, <1>20, <1>21, <1>23
  <2> QED BY <2>2, <2>4, <2>7
<1>26. [k \in 1 .. Len(s7) |-> Get(b, r + k2 + k - 1)] = v.data
  <2>1. s7 = [k \in 1 .. Len(s7) |-> s7[k]]
    BY <1>10
  <2> QED BY <1>2, <1>24, <2>1
<1> QED BY <1>16, <1>25, <1>26, SparseFields

-----------------------------------------------------------------------------
(* Elements and names *)

\* What a value is written as: the bytes, and as many as are allocated.
Coded == {x \in [bytes : Seq(Nat), size : Nat] : x.size = Len(x.bytes)}

\* It is no error.
LEMMA CodedFields ==
    ASSUME NEW x \in Coded
    PROVE  x.bytes \in Seq(Nat) /\ x.size \in Nat /\ x.size = Len(x.bytes) /\ x # Error
<1>1. x \in [bytes : Seq(Nat), size : Nat] /\ x.size = Len(x.bytes)
  BY DEF Coded
<1>2. x # Error
  <2>1. DOMAIN x = {"bytes", "size"}
    BY <1>1
  <2>2. DOMAIN Error = {"t"}
    BY DEF Error
  <2> QED BY <2>1, <2>2
<1> QED BY <1>1, <1>2

CodedList(xs, n) == xs = [k \in 1 .. n |-> xs[k]] /\ \A k \in 1 .. n : xs[k] \in Coded

\* An element behind its length.
Prefixed(x) == Uint(x.size) \o x.bytes

\* It takes the bytes of the length, too.
LEMMA PrefixedType ==
    ASSUME NEW x \in Coded
    PROVE  Prefixed(x) \in Seq(Nat) /\ Len(Prefixed(x)) = x.size + Width
<1>1. PICK u : u = Uint(x.size)
  OBVIOUS
<1>2. u \in Seq(Nat) /\ Len(u) = Width /\ Width \in Nat
  BY <1>1, CodedFields, UintType
<1>3. u \o x.bytes \in Seq(Nat) /\ Len(u \o x.bytes) = Len(u) + Len(x.bytes)
  BY <1>2, CodedFields, Concat2
<1> QED BY <1>1, <1>2, <1>3, CodedFields DEF Prefixed

\* Where the elements are.
LEMMA ElementSums ==
    ASSUME NEW n \in Nat, NEW xs, CodedList(xs, n)
    PROVE  \E s, ls, q :
               /\ serializeElements(xs) = FlattenSeq(s)
               /\ Laid(s, ls, q, n)
               /\ \A k \in 1 .. n : s[k] = Prefixed(xs[k]) /\ ls[k] = xs[k].size + Width
               /\ AllocatedElements(xs) = q[n]
<1>1. PICK s : s = [k \in 1 .. n |-> Prefixed(xs[k])]
  OBVIOUS
<1>2. PICK ls : ls = [k \in 1 .. n |-> xs[k].size + Width]
  OBVIOUS
<1>3. \A k \in 1 .. n : /\ s[k] \in Seq(Nat) /\ Len(s[k]) = xs[k].size + Width
                        /\ xs[k].size + Width \in Nat
  <2>1. ASSUME NEW k \in 1 .. n
        PROVE  s[k] \in Seq(Nat) /\ Len(s[k]) = xs[k].size + Width
    <3>1. xs[k] \in Coded
      BY DEF CodedList
    <3> QED BY <1>1, <3>1, PrefixedType
  <2>2. ASSUME NEW k \in 1 .. n PROVE xs[k].size + Width \in Nat
    <3>1. Len(s[k]) \in Nat
      BY <2>1
    <3> QED BY <2>1, <3>1
  <2> QED BY <2>1, <2>2
<1>4. ls \in [1 .. n -> Nat]
  BY <1>2, <1>3
<1>5. PICK q : Sums(q, ls, n)
  BY <1>4, SumsExist
<1>6. DOMAIN xs = 1 .. n
  BY DEF CodedList
<1>7. serializeElements(xs) = FlattenSeq(s)
  BY <1>1, <1>6 DEF serializeElements, Prefixed
<1>8. AllocatedElements(xs) = q[n]
  <2>1. AllocatedElements(xs) = Total(ls)
    BY <1>2, <1>6 DEF AllocatedElements
  <2>2. Len(ls) = n
    BY <1>2
  <2> QED BY <1>5, <2>1, <2>2, TotalIs
<1>9. s = [k \in 1 .. n |-> s[k]]
  BY <1>1
<1>10. \A k \in 1 .. n : s[k] = Prefixed(xs[k])
  BY <1>1
<1>11. \A k \in 1 .. n : ls[k] = Len(s[k]) /\ ls[k] = xs[k].size + Width
  BY <1>2, <1>3
<1>12. Laid(s, ls, q, n)
  <2>1. Listing(s, n, Nat)
    BY <1>3, <1>9 DEF Listing
  <2> QED BY <1>5, <1>11, <2>1 DEF Laid
<1> QED BY <1>7, <1>8, <1>10, <1>11, <1>12

\* All elements take as many bytes as are allocated for them.
LEMMA ElementsWritten ==
    ASSUME NEW n \in Nat, NEW xs, CodedList(xs, n)
    PROVE  /\ serializeElements(xs) \in Seq(Nat)
           /\ Len(serializeElements(xs)) = AllocatedElements(xs)
<1>1. PICK s, ls, q :
               /\ serializeElements(xs) = FlattenSeq(s)
               /\ Laid(s, ls, q, n)
               /\ \A k \in 1 .. n : s[k] = Prefixed(xs[k]) /\ ls[k] = xs[k].size + Width
               /\ AllocatedElements(xs) = q[n]
  BY ElementSums
<1>2. FlattenSeq(s) \in Seq(Nat) /\ Len(FlattenSeq(s)) = q[n]
  BY <1>1, Flattened
<1> QED BY <1>1, <1>2

\* Where one of the elements is written, nested has what comes back of it.
Reads(b, nested, xs, ys, n) ==
    /\ ys = [k \in 1 .. n |-> ys[k]]
    /\ \A k \in 1 .. n : \A r \in Nat :
           r >= 1 /\ Holds(b, r, xs[k].bytes) => nested[r] = ys[k]

\* deserializeCell and deserializeStruct find each element by the lengths in front.
LEMMA ElementsBack ==
    ASSUME Width = Step, NEW b \in Seq(Nat), NEW p \in Nat, p >= 1,
           NEW n \in Nat, NEW xs, CodedList(xs, n), Holds(b, p, serializeElements(xs)),
           NEW nested, NEW ys, Reads(b, nested, xs, ys, n)
    PROVE  deserializeElements(b, p, n, nested) = ys
<1>1. PICK s, ls, q :
               /\ serializeElements(xs) = FlattenSeq(s)
               /\ Laid(s, ls, q, n)
               /\ \A k \in 1 .. n : s[k] = Prefixed(xs[k]) /\ ls[k] = xs[k].size + Width
               /\ AllocatedElements(xs) = q[n]
  BY ElementSums
<1>2. PICK w : w = Step
  OBVIOUS
<1>3. w \in Nat /\ w >= 1
  BY <1>2, WidthType
<1>a. Sums(q, ls, n)
  BY <1>1 DEF Laid
<1>b. q[0] = 0 /\ \A k \in 0 .. n : q[k] \in Nat
  BY <1>a DEF Sums
<1>4. ASSUME NEW k \in 1 .. n
      PROVE  /\ q[k - 1] \in Nat
             /\ q[k] = q[k - 1] + w + Get(b, p + q[k - 1])
             /\ Holds(b, p + q[k - 1] + w, xs[k].bytes)
  <2>1. PICK a, x, u : a = q[k - 1] /\ x = xs[k] /\ u = Uint(xs[k].size)
    OBVIOUS
  <2>2. a \in Nat /\ q[k] = a + (x.size + w)
    <3>1. k - 1 \in 0 .. n
      OBVIOUS
    <3>2. q[k] = q[k - 1] + ls[k]
      BY <1>a DEF Sums
    <3> QED BY <1>1, <1>2, <1>b, <2>1, <3>1, <3>2
  <2>3. x \in Coded
    BY <2>1 DEF CodedList
  <2>4. x.size \in Nat /\ x.bytes \in Seq(Nat)
    BY <2>3, CodedFields
  <2>5. u \in Seq(Nat) /\ Len(u) = w /\ u[1] = x.size
    BY <1>2, <2>1, <2>4, UintType
  <2>6. Holds(b, p + a, s[k])
    <3>1. Holds(b, p, FlattenSeq(s))
      BY <1>1
    <3> QED BY <1>1, <2>1, <3>1, HoldsFlattened
  <2>7. Holds(b, p + a, u \o x.bytes)
    BY <1>1, <2>1, <2>6 DEF Prefixed
  <2>8. p + a \in Nat /\ p + a >= 1
    BY <2>2
  <2>9. Holds(b, p + a, u) /\ Holds(b, p + a + w, x.bytes)
    <3>1. PICK r : r = p + a
      OBVIOUS
    <3>2. Holds(b, r, u) /\ Holds(b, r + Len(u), x.bytes)
      BY <2>4, <2>5, <2>7, <2>8, <3>1, HoldsConcat
    <3> QED BY <2>5, <3>1, <3>2
  <2>10. Get(b, p + a) = x.size
    <3>1. Len(u) >= 1
      BY <1>3, <2>5
    <3> QED BY <2>5, <2>8, <2>9, <3>1, HoldsFirst
  <2>11. q[k - 1] \in Nat /\ Holds(b, p + q[k - 1] + w, xs[k].bytes)
    BY <2>1, <2>2, <2>9
  <2>12. PICK z : z = x.size
    OBVIOUS
  <2>13. a + (z + w) = a + w + z
    BY <1>3, <2>2, <2>4, <2>12
  <2>14. q[k] = a + w + z /\ Get(b, p + q[k - 1]) = z
    BY <2>1, <2>2, <2>10, <2>12, <2>13
  <2> QED BY <2>1, <2>11, <2>14
<1> DEFINE G(g) == [k \in 0 .. n |-> IF k = 0 THEN p ELSE g[k - 1] + Step + Get(b, g[k - 1])]
           f == CHOOSE g : g = G(g)
<1>5. f = G(f)
  <2>1. PICK h : h = [k \in 0 .. n |-> p + q[k]]
    OBVIOUS
  <2>2. ASSUME NEW k \in 0 .. n
        PROVE  h[k] = IF k = 0 THEN p ELSE h[k - 1] + Step + Get(b, h[k - 1])
    <3>1. CASE k = 0
      <4>1. h[0] = p + 0
        BY <1>b, <2>1
      <4> QED BY <3>1, <4>1
    <3>2. CASE k # 0
      <4>1. k \in 1 .. n /\ k - 1 \in 0 .. n
        BY <3>2
      <4>2. h[k] = p + q[k] /\ h[k - 1] = p + q[k - 1]
        BY <2>1, <4>1
      <4>3. q[k] = q[k - 1] + w + Get(b, p + q[k - 1]) /\ q[k - 1] \in Nat /\ q[k] \in Nat
        BY <1>b, <1>4, <4>1
      <4>4. PICK x : x = Get(b, p + q[k - 1])
        OBVIOUS
      <4>5. x \in Nat
        <5>1. PICK r : r = p + q[k - 1]
          OBVIOUS
        <5>2. r \in Nat
          BY <4>3, <5>1
        <5> QED BY <4>4, <5>1, <5>2 DEF Get, Unknown
      <4>6. p + q[k] = (p + q[k - 1]) + w + x
        BY <1>3, <4>3, <4>4, <4>5
      <4> QED BY <1>2, <3>2, <4>2, <4>4, <4>6
    <3> QED BY <3>1, <3>2
  <2>3. h = [k \in 0 .. n |-> h[k]]
    BY <2>1
  <2>4. h = G(h)
    BY <2>2, <2>3
  <2> HIDE DEF G
  <2> QED BY <2>4
<1>6. ElementStarts(b, p, n) = f
  BY DEF ElementStarts
<1> HIDE DEF f
<1>7. \A k \in 0 .. n : f[k] = IF k = 0 THEN p ELSE f[k - 1] + Step + Get(b, f[k - 1])
  BY <1>5
<1> DEFINE T == {k \in Nat : k <= n => f[k] = p + q[k]}
<1>8. 0 \in T
  <2>1. 0 \in 0 .. n
    OBVIOUS
  <2>2. f[0] = p
    BY <1>7, <2>1
  <2>3. p + q[0] = p
    BY <1>b
  <2> QED BY <2>2, <2>3
<1>9. ASSUME NEW k \in Nat, k \in T PROVE k + 1 \in T
  <2> SUFFICES ASSUME k + 1 <= n PROVE f[k + 1] = p + q[k + 1]
    OBVIOUS
  <2>1. k + 1 \in 1 .. n /\ (k + 1) - 1 = k /\ k + 1 # 0 /\ k + 1 \in 0 .. n /\ k <= n
    OBVIOUS
  <2>2. f[k + 1] = f[k] + w + Get(b, f[k]) /\ f[k] = p + q[k]
    BY <1>2, <1>7, <1>9, <2>1
  <2>3. q[k + 1] = q[k] + w + Get(b, p + q[k]) /\ q[k] \in Nat /\ q[k + 1] \in Nat
    <3>1. q[k + 1] \in Nat
      BY <1>b, <2>1
    <3> QED BY <1>4, <2>1, <3>1
  <2>4. PICK x : x = Get(b, p + q[k])
    OBVIOUS
  <2>5. x \in Nat
    <3>1. PICK r : r = p + q[k]
      OBVIOUS
    <3>2. r \in Nat
      BY <2>3, <3>1
    <3> QED BY <2>4, <3>1, <3>2 DEF Get, Unknown
  <2>6. p + q[k + 1] = (p + q[k]) + w + x
    BY <1>3, <2>3, <2>4, <2>5
  <2> QED BY <2>2, <2>4, <2>6
<1>10. Nat \subseteq T
  <2> HIDE DEF T
  <2> QED BY <1>8, <1>9, Induction
<1>11. ASSUME NEW k \in 1 .. n PROVE nested[f[k - 1] + Step] = ys[k]
  <2>1. PICK r : r = p + q[k - 1] + w
    OBVIOUS
  <2>2. r \in Nat /\ r >= 1
    <3>1. PICK a : a = q[k - 1]
      OBVIOUS
    <3>2. a \in Nat /\ r = p + a + w
      BY <1>4, <2>1, <3>1
    <3> QED BY <1>3, <3>2
  <2>a. Holds(b, r, xs[k].bytes)
    BY <1>4, <2>1
  <2>3. f[k - 1] = p + q[k - 1]
    <3>1. k - 1 \in Nat /\ k - 1 <= n
      OBVIOUS
    <3> QED BY <1>10, <3>1
  <2> QED BY <1>2, <2>1, <2>2, <2>a, <2>3 DEF Reads
<1>12. deserializeElements(b, p, n, nested) = [k \in 1 .. n |-> nested[f[k - 1] + Step]]
  BY <1>6 DEF deserializeElements
<1> QED BY <1>11, <1>12 DEF Reads

NameBytes(names) == FlattenSeq([k \in DOMAIN names |-> Append(names[k], 0)])

\* A name with the 0 behind it.
Terminated(name) == Append(name, 0)

\* It is as long as the name and one more.
LEMMA TerminatedType ==
    ASSUME NEW name \in Seq(Nat \ {0})
    PROVE  /\ Terminated(name) \in Seq(Nat) /\ Len(Terminated(name)) = Len(name) + 1
           /\ \A i \in 1 .. Len(name) : Terminated(name)[i] = name[i]
           /\ Terminated(name)[Len(name) + 1] = 0
BY DEF Terminated

\* Where the names are.
LEMMA NameSums ==
    ASSUME NEW n \in Nat, NEW names \in Seq(Seq(Nat \ {0})), Len(names) = n
    PROVE  \E s, ls, q :
               /\ NameBytes(names) = FlattenSeq(s)
               /\ Laid(s, ls, q, n)
               /\ \A k \in 1 .. n : s[k] = Terminated(names[k]) /\ ls[k] = Len(names[k]) + 1
               /\ Total([k \in DOMAIN names |-> Len(names[k]) + 1]) = q[n]
<1>1. PICK s : s = [k \in 1 .. n |-> Terminated(names[k])]
  OBVIOUS
<1>2. PICK ls : ls = [k \in 1 .. n |-> Len(names[k]) + 1]
  OBVIOUS
<1>3. \A k \in 1 .. n : names[k] \in Seq(Nat \ {0})
  OBVIOUS
<1>4. \A k \in 1 .. n : s[k] \in Seq(Nat) /\ Len(s[k]) = Len(names[k]) + 1
  BY <1>1, <1>3, TerminatedType
<1>5. ls \in [1 .. n -> Nat]
  BY <1>2, <1>3
<1>6. PICK q : Sums(q, ls, n)
  BY <1>5, SumsExist
<1>7. DOMAIN names = 1 .. n
  OBVIOUS
<1>8. NameBytes(names) = FlattenSeq(s)
  BY <1>1, <1>7 DEF NameBytes, Terminated
<1>9. Total([k \in DOMAIN names |-> Len(names[k]) + 1]) = q[n]
  <2>1. [k \in DOMAIN names |-> Len(names[k]) + 1] = ls
    BY <1>2, <1>7
  <2>2. Len(ls) = n
    BY <1>2
  <2>3. Total(ls) = q[n]
    BY <1>6, <2>2, TotalIs
  <2> QED BY <2>1, <2>3
<1>10. s = [k \in 1 .. n |-> s[k]] /\ \A k \in 1 .. n : s[k] = Terminated(names[k])
  BY <1>1
<1>11. \A k \in 1 .. n : ls[k] = Len(s[k]) /\ ls[k] = Len(names[k]) + 1
  BY <1>2, <1>4
<1>12. Laid(s, ls, q, n)
  <2>1. Listing(s, n, Nat)
    BY <1>4, <1>10 DEF Listing
  <2> QED BY <1>6, <1>11, <2>1 DEF Laid
<1> QED BY <1>8, <1>9, <1>10, <1>11, <1>12

\* All names take as many bytes as are allocated for them.
LEMMA NamesWritten ==
    ASSUME NEW names \in Seq(Seq(Nat \ {0}))
    PROVE  /\ NameBytes(names) \in Seq(Nat)
           /\ Len(NameBytes(names)) = Total([k \in DOMAIN names |-> Len(names[k]) + 1])
           /\ Len(NameBytes(names)) \in Nat
<1>1. PICK n : n = Len(names)
  OBVIOUS
<1>2. n \in Nat
  BY <1>1
<1>3. PICK s, ls, q :
               /\ NameBytes(names) = FlattenSeq(s)
               /\ Laid(s, ls, q, n)
               /\ \A k \in 1 .. n : s[k] = Terminated(names[k]) /\ ls[k] = Len(names[k]) + 1
               /\ Total([k \in DOMAIN names |-> Len(names[k]) + 1]) = q[n]
  BY <1>1, <1>2, NameSums
<1>4. FlattenSeq(s) \in Seq(Nat) /\ Len(FlattenSeq(s)) = q[n]
  BY <1>2, <1>3, Flattened
<1>5. q[n] \in Nat
  <2>1. n \in 0 .. n
    BY <1>2
  <2> QED BY <1>3, <2>1 DEF Laid, Sums
<1> QED BY <1>3, <1>4, <1>5

\* strlen finds the 0 behind a name.
LEMMA NameFound ==
    ASSUME NEW b \in Seq(Nat), NEW e \in Nat, NEW name \in Seq(Nat \ {0}),
           Holds(b, e + 1, Terminated(name))
    PROVE  /\ Min({i \in e + 1 .. Len(b) + 1 : Get(b, i) = 0}) = e + Len(name) + 1
           /\ SubSeq(b, e + 1, e + Len(name)) = name
<1>1. PICK m, t : m = Len(name) /\ t = Terminated(name)
  OBVIOUS
<1>2. /\ m \in Nat /\ t \in Seq(Nat) /\ Len(t) = m + 1 /\ t[m + 1] = 0
      /\ \A i \in 1 .. m : t[i] = name[i]
  BY <1>1, TerminatedType
<1>3. e + 1 + (m + 1) <= Len(b) + 1 /\ \A i \in 1 .. m + 1 : b[(e + 1) + i - 1] = t[i]
  BY <1>1, <1>2 DEF Holds
<1>4. \A i \in 1 .. m + 1 : b[e + i] = t[i] /\ e + i \in 1 .. Len(b)
  <2>1. ASSUME NEW i \in 1 .. m + 1 PROVE b[e + i] = t[i] /\ e + i \in 1 .. Len(b)
    <3>1. (e + 1) + i - 1 = e + i
      OBVIOUS
    <3>2. b[e + i] = t[i]
      BY <1>3, <3>1
    <3>3. PICK l : l = Len(b)
      OBVIOUS
    <3>4. l \in Nat
      BY <3>3
    <3>5. e + 1 + (m + 1) <= l + 1
      BY <1>3, <3>3
    <3>6. e + i \in 1 .. l
      BY <1>2, <3>4, <3>5
    <3> QED BY <3>2, <3>3, <3>6
  <2> QED BY <2>1
<1>5. PICK z : z = e + m + 1
  OBVIOUS
<1>6. PICK S : S = {i \in e + 1 .. Len(b) + 1 : Get(b, i) = 0}
  OBVIOUS
<1>7. z \in S
  <2>1. m + 1 \in 1 .. m + 1 /\ e + (m + 1) = z
    BY <1>2, <1>5
  <2>2. b[z] = 0 /\ z \in 1 .. Len(b)
    BY <1>2, <1>4, <2>1
  <2>3. Get(b, z) = 0
    BY <2>2 DEF Get
  <2> QED BY <1>2, <1>5, <1>6, <2>2, <2>3
<1>8. ASSUME NEW y \in S PROVE z <= y
  <2>1. y \in e + 1 .. Len(b) + 1 /\ Get(b, y) = 0
    BY <1>6
  <2>2. SUFFICES ASSUME y < z PROVE FALSE
    BY <1>2, <1>5, <2>1
  <2>3. PICK i : i = y - e
    OBVIOUS
  <2>4. i \in 1 .. m /\ i \in 1 .. m + 1 /\ e + i = y
    BY <1>2, <1>5, <2>1, <2>2, <2>3
  <2>5. b[y] = name[i] /\ y \in 1 .. Len(b)
    BY <1>2, <1>4, <2>4
  <2>6. name[i] # 0
    BY <1>1, <2>4
  <2> QED BY <2>1, <2>5, <2>6 DEF Get
<1>9. Min(S) = z
  <2>1. Min(S) \in S /\ \A y \in S : Min(S) <= y
    BY <1>7, <1>8 DEF Min
  <2>2. Min(S) \in Int /\ z \in Int
    BY <1>2, <1>5, <1>6, <2>1
  <2>3. Min(S) <= z /\ z <= Min(S)
    BY <1>7, <1>8, <2>1
  <2> QED BY <2>2, <2>3
<1>10. SubSeq(b, e + 1, e + m) = name
  <2>1. PICK u : u = SubSeq(b, e + 1, e + m)
    OBVIOUS
  <2>2. PICK x, y : x = e + 1 /\ y = e + m
    OBVIOUS
  <2>3. x \in Int /\ y \in Int /\ \A i \in x .. y : b[i] \in Nat
    <3>1. x \in Int /\ y \in Int
      BY <1>2, <2>2
    <3>2. y <= Len(b) /\ x >= 1
      BY <1>2, <1>3, <2>2
    <3> QED BY <3>1, <3>2
  <2>4. /\ SubSeq(b, x, y) \in Seq(Nat)
        /\ Len(SubSeq(b, x, y)) = IF x <= y THEN y - x + 1 ELSE 0
        /\ \A i \in 1 .. y - x + 1 : SubSeq(b, x, y)[i] = b[x + i - 1]
    BY <2>3, SubSeqProperties
  <2>5. u \in Seq(Nat) /\ Len(u) = m
    BY <1>2, <2>1, <2>2, <2>4
  <2>6. ASSUME NEW i \in 1 .. m PROVE u[i] = name[i]
    <3>1. i \in 1 .. y - x + 1 /\ x + i - 1 = e + i /\ i \in 1 .. m + 1
      BY <1>2, <2>2
    <3> QED BY <1>2, <1>4, <2>1, <2>2, <2>4, <3>1
  <2>7. name \in Seq(Nat)
    OBVIOUS
  <2> QED BY <1>1, <2>1, <2>5, <2>6, <2>7
<1> QED BY <1>1, <1>5, <1>6, <1>9, <1>10

\* The names that e is the ends of.
NamesRead(b, e, n) == [k \in 1 .. n |-> SubSeq(b, e[k - 1] + 1, e[k] - 1)]

\* The names are read as they were, and what follows them is found.
LEMMA NamesBack ==
    ASSUME NEW b \in Seq(Nat), NEW p \in Nat, p >= 1,
           NEW n \in Nat, NEW names \in Seq(Seq(Nat \ {0})), Len(names) = n,
           Holds(b, p, NameBytes(names)), NEW e, e = NameEnds(b, p, n)
    PROVE  /\ e[n] + 1 = p + Len(NameBytes(names))
           /\ NamesRead(b, e, n) = names
<1>1. PICK s, ls, q :
               /\ NameBytes(names) = FlattenSeq(s)
               /\ Laid(s, ls, q, n)
               /\ \A k \in 1 .. n : s[k] = Terminated(names[k]) /\ ls[k] = Len(names[k]) + 1
               /\ Total([k \in DOMAIN names |-> Len(names[k]) + 1]) = q[n]
  BY NameSums
<1>a. Sums(q, ls, n)
  BY <1>1 DEF Laid
<1>b. q[0] = 0 /\ \A k \in 0 .. n : q[k] \in Nat
  BY <1>a DEF Sums
<1>2. ASSUME NEW k \in 1 .. n
      PROVE  /\ q[k - 1] \in Nat /\ q[k] \in Nat
             /\ Min({i \in (p - 1 + q[k - 1]) + 1 .. Len(b) + 1 : Get(b, i) = 0}) = p - 1 + q[k]
             /\ SubSeq(b, (p - 1 + q[k - 1]) + 1, (p - 1 + q[k]) - 1) = names[k]
  <2>1. PICK a, x : a = q[k - 1] /\ x = names[k]
    OBVIOUS
  <2>2. x \in Seq(Nat \ {0}) /\ Len(x) \in Nat
    BY <2>1
  <2>3. a \in Nat /\ q[k] = a + (Len(x) + 1)
    <3>1. k - 1 \in 0 .. n
      OBVIOUS
    <3>2. q[k] = q[k - 1] + ls[k]
      BY <1>a DEF Sums
    <3> QED BY <1>1, <1>b, <2>1, <3>1, <3>2
  <2>4. Holds(b, p + a, s[k])
    <3>1. Holds(b, p, FlattenSeq(s))
      BY <1>1
    <3> QED BY <1>1, <2>1, <3>1, HoldsFlattened
  <2>5. PICK d : d = p - 1 + a
    OBVIOUS
  <2>6. d \in Nat /\ d + 1 = p + a /\ p - 1 + q[k] = d + Len(x) + 1
    BY <2>2, <2>3, <2>5
  <2>7. Holds(b, d + 1, Terminated(x))
    BY <1>1, <2>1, <2>4, <2>6
  <2>8. /\ Min({i \in d + 1 .. Len(b) + 1 : Get(b, i) = 0}) = d + Len(x) + 1
        /\ SubSeq(b, d + 1, d + Len(x)) = x
    BY <2>2, <2>6, <2>7, NameFound
  <2>9. (p - 1 + q[k]) - 1 = d + Len(x)
    BY <2>2, <2>6
  <2>10. q[k - 1] \in Nat /\ q[k] \in Nat
    BY <1>b, <2>1, <2>2, <2>3
  <2>11. PICK z : z = p - 1 + q[k]
    OBVIOUS
  <2>12. p - 1 + q[k - 1] = d /\ z = d + Len(x) + 1 /\ z - 1 = d + Len(x)
    BY <2>1, <2>5, <2>6, <2>9, <2>11
  <2>13. /\ Min({i \in d + 1 .. Len(b) + 1 : Get(b, i) = 0}) = z
         /\ SubSeq(b, d + 1, z - 1) = x
    BY <2>8, <2>12
  <2> QED BY <2>1, <2>10, <2>11, <2>12, <2>13
<1> DEFINE G(g) == [k \in 0 .. n |-> IF k = 0 THEN p - 1
                       ELSE Min({i \in g[k - 1] + 1 .. Len(b) + 1 : Get(b, i) = 0})]
           f == CHOOSE g : g = G(g)
<1>5. f = G(f)
  <2>1. PICK h : h = [k \in 0 .. n |-> p - 1 + q[k]]
    OBVIOUS
  <2>2. ASSUME NEW k \in 0 .. n
        PROVE  h[k] = IF k = 0 THEN p - 1
                      ELSE Min({i \in h[k - 1] + 1 .. Len(b) + 1 : Get(b, i) = 0})
    <3>1. CASE k = 0
      <4>1. h[0] = p - 1 + 0
        BY <1>b, <2>1
      <4> QED BY <3>1, <4>1
    <3>2. CASE k # 0
      <4>1. k \in 1 .. n /\ k - 1 \in 0 .. n
        BY <3>2
      <4>2. h[k] = p - 1 + q[k] /\ h[k - 1] = p - 1 + q[k - 1]
        BY <2>1, <4>1
      <4> QED BY <1>2, <3>2, <4>1, <4>2
    <3> QED BY <3>1, <3>2
  <2>3. h = [k \in 0 .. n |-> h[k]]
    BY <2>1
  <2>4. h = G(h)
    BY <2>2, <2>3
  <2> HIDE DEF G
  <2> QED BY <2>4
<1>6. e = f
  BY DEF NameEnds
<1> HIDE DEF f
<1>7. \A k \in 0 .. n : e[k] = IF k = 0 THEN p - 1
                 ELSE Min({i \in e[k - 1] + 1 .. Len(b) + 1 : Get(b, i) = 0})
  BY <1>5, <1>6
<1> DEFINE T == {k \in Nat : k <= n => e[k] = p - 1 + q[k]}
<1>8. 0 \in T
  <2>1. 0 \in 0 .. n
    OBVIOUS
  <2>2. e[0] = p - 1
    BY <1>7, <2>1
  <2>3. p - 1 + q[0] = p - 1
    BY <1>b
  <2> QED BY <2>2, <2>3
<1>9. ASSUME NEW k \in Nat, k \in T PROVE k + 1 \in T
  <2> SUFFICES ASSUME k + 1 <= n PROVE e[k + 1] = p - 1 + q[k + 1]
    OBVIOUS
  <2>1. k + 1 \in 1 .. n /\ (k + 1) - 1 = k /\ k + 1 # 0 /\ k + 1 \in 0 .. n /\ k <= n
    OBVIOUS
  <2>2. e[k] = p - 1 + q[k]
    BY <1>9, <2>1
  <2>3. e[k + 1] = Min({i \in e[k] + 1 .. Len(b) + 1 : Get(b, i) = 0})
    BY <1>7, <2>1
  <2>4. Min({i \in (p - 1 + q[k]) + 1 .. Len(b) + 1 : Get(b, i) = 0}) = p - 1 + q[k + 1]
    BY <1>2, <2>1
  <2> QED BY <2>2, <2>3, <2>4
<1>10. Nat \subseteq T
  <2> HIDE DEF T
  <2> QED BY <1>8, <1>9, Induction
<1>11. \A k \in 0 .. n : e[k] = p - 1 + q[k]
  BY <1>10
<1>12. ASSUME NEW k \in 1 .. n PROVE SubSeq(b, e[k - 1] + 1, e[k] - 1) = names[k]
  <2>1. k - 1 \in 0 .. n /\ k \in 0 .. n
    OBVIOUS
  <2> QED BY <1>2, <1>11, <2>1
<1>13. names = [k \in 1 .. n |-> names[k]]
  OBVIOUS
<1>14. e[n] + 1 = p + q[n]
  <2>1. n \in 0 .. n /\ q[n] \in Nat
    BY <1>b
  <2> QED BY <1>11, <2>1
<1>15. Len(NameBytes(names)) = q[n]
  BY <1>1, Flattened
<1>16. [k \in 1 .. n |-> SubSeq(b, e[k - 1] + 1, e[k] - 1)] = [k \in 1 .. n |-> names[k]]
  BY <1>12
<1> QED BY <1>13, <1>14, <1>15, <1>16 DEF NamesRead

-----------------------------------------------------------------------------
(* Cells and structures *)

\* What a cell has.
LEMMA CellFields ==
    ASSUME NEW S, NEW v \in Cells(S)
    PROVE  /\ v.t = "cell" /\ v.dims \in Seq(Nat) /\ v.elems \in Seq(S)
           /\ Len(v.elems) = Elements(v.dims) /\ v = Cell(v.dims, v.elems)
BY DEF Cells, Cell

\* What a structure has.
LEMMA StructFields ==
    ASSUME NEW S, NEW v \in Structs(S)
    PROVE  /\ v.t = "struct" /\ v.dims \in Seq(Nat) /\ v.elems \in Seq(S)
           /\ v.names \in Seq(Seq(Nat \ {0}))
           /\ Len(v.elems) = Elements(v.dims) * Len(v.names)
           /\ v = Struct(v.dims, v.names, v.elems)
BY DEF Structs, Struct

\* What a cell is written as, and how long that is.
LEMMA CellWritten ==
    ASSUME NEW S, NEW v \in Cells(S), NEW n \in Nat, NEW xs, CodedList(xs, n)
    PROVE  serializeCell(v, xs) \in Seq(Nat) /\ Len(serializeCell(v, xs)) = Allocated(v, xs)
<1>1. PICK d, w, m, a : d = Len(v.dims) /\ w = Width /\ m = d * w /\ a = AllocatedElements(xs)
  OBVIOUS
<1>2. PICK s1, s2, s3, s4 :
         s1 = <<67>> /\ s2 = Uint(d) /\ s3 = Uints(v.dims) /\ s4 = serializeElements(xs)
  OBVIOUS
<1>a. d \in Nat
  BY <1>1, CellFields
<1>b. w \in Nat /\ w >= 1
  BY <1>1, WidthType
<1>3. m \in Nat
  BY <1>1, <1>a, <1>b, Times
<1>4. s1 \in Seq(Nat) /\ Len(s1) = 1 /\ s1[1] = 67
  BY <1>2
<1>5. s2 \in Seq(Nat) /\ Len(s2) = w /\ s2[1] = d
  BY <1>1, <1>2, <1>a, UintType
<1>6. s3 \in Seq(Nat) /\ Len(s3) = m
  BY <1>1, <1>2, CellFields, UintsType
<1>7. s4 \in Seq(Nat) /\ Len(s4) = a
  BY <1>1, <1>2, ElementsWritten
<1>u2. PICK u2 : u2 = s1 \o s2
  OBVIOUS
<1>u3. PICK u3 : u3 = u2 \o s3
  OBVIOUS
<1>u4. PICK u4 : u4 = u3 \o s4
  OBVIOUS
<1>c2. u2 \in Seq(Nat) /\ Len(u2) = 1 + w
  <2>1. u2 \in Seq(Nat) /\ Len(u2) = Len(s1) + Len(s2)
    BY <1>u2, <1>4, <1>5, Concat2
  <2> QED BY <1>4, <1>5, <2>1
<1>c3. u3 \in Seq(Nat) /\ Len(u3) = 1 + w + m
  <2>1. u3 \in Seq(Nat) /\ Len(u3) = Len(u2) + Len(s3)
    BY <1>u3, <1>c2, <1>6, Concat2
  <2> QED BY <1>c2, <1>6, <2>1
<1>c4. u4 \in Seq(Nat) /\ Len(u4) = 1 + w + m + a
  <2>1. u4 \in Seq(Nat) /\ Len(u4) = Len(u3) + Len(s4)
    BY <1>u4, <1>c3, <1>7, Concat2
  <2> QED BY <1>c3, <1>7, <2>1
<1>8. serializeCell(v, xs) = u4
  BY <1>1, <1>2, <1>u2, <1>u3, <1>u4 DEF serializeCell, Tag
<1>9. (1 + d) * w = m + w
  BY <1>1, <1>a, <1>b, Times
<1>10. Allocated(v, xs) = 1 + (1 + d) * w + a
  BY <1>1, CellFields DEF Allocated
<1>11. Len(u4) \in Nat /\ a \in Nat
  BY <1>7, <1>c4
<1>12. 1 + (m + w) + a = 1 + w + m + a
  BY <1>3, <1>b, <1>11
<1> QED BY <1>8, <1>9, <1>10, <1>12, <1>c4

\* A cell is read as one of what its elements are read as.
LEMMA CellBack ==
    ASSUME Width = Step, NEW b \in Seq(Nat), NEW p \in Nat, p >= 1,
           NEW S, NEW v \in Cells(S), NEW n \in Nat, n = Len(v.elems),
           NEW xs, CodedList(xs, n), Holds(b, p, serializeCell(v, xs)),
           NEW nested, NEW ys, Reads(b, nested, xs, ys, n)
    PROVE  Get(b, p) = 67 /\ deserializeCell(b, p + 1, nested) = Cell(v.dims, ys)
<1>1. PICK d, w, m, a : d = Len(v.dims) /\ w = Step /\ m = d * w /\ a = AllocatedElements(xs)
  OBVIOUS
<1>2. PICK s1, s2, s3, s4 :
         s1 = <<67>> /\ s2 = Uint(d) /\ s3 = Uints(v.dims) /\ s4 = serializeElements(xs)
  OBVIOUS
<1>a. d \in Nat
  BY <1>1, CellFields
<1>b. w \in Nat /\ w >= 1
  BY <1>1, WidthType
<1>3. m \in Nat
  BY <1>1, <1>a, <1>b, Times
<1>4. s1 \in Seq(Nat) /\ Len(s1) = 1 /\ s1[1] = 67
  BY <1>2
<1>5. s2 \in Seq(Nat) /\ Len(s2) = w /\ s2[1] = d
  BY <1>1, <1>2, <1>a, UintType
<1>6. s3 \in Seq(Nat) /\ Len(s3) = m
  BY <1>1, <1>2, CellFields, UintsType
<1>7. s4 \in Seq(Nat) /\ Len(s4) = a
  BY <1>1, <1>2, ElementsWritten
<1>u2. PICK u2 : u2 = s1 \o s2
  OBVIOUS
<1>u3. PICK u3 : u3 = u2 \o s3
  OBVIOUS
<1>u4. PICK u4 : u4 = u3 \o s4
  OBVIOUS
<1>c2. u2 \in Seq(Nat) /\ Len(u2) = 1 + w
  <2>1. u2 \in Seq(Nat) /\ Len(u2) = Len(s1) + Len(s2)
    BY <1>u2, <1>4, <1>5, Concat2
  <2> QED BY <1>4, <1>5, <2>1
<1>c3. u3 \in Seq(Nat) /\ Len(u3) = 1 + w + m
  <2>1. u3 \in Seq(Nat) /\ Len(u3) = Len(u2) + Len(s3)
    BY <1>u3, <1>c2, <1>6, Concat2
  <2> QED BY <1>c2, <1>6, <2>1
<1>c4. u4 \in Seq(Nat) /\ Len(u4) = 1 + w + m + a
  <2>1. u4 \in Seq(Nat) /\ Len(u4) = Len(u3) + Len(s4)
    BY <1>u4, <1>c3, <1>7, Concat2
  <2> QED BY <1>c3, <1>7, <2>1
<1>8. serializeCell(v, xs) = u4
  BY <1>1, <1>2, <1>u2, <1>u3, <1>u4 DEF serializeCell, Tag
<1>9. (1 + d) * w = m + w
  BY <1>1, <1>a, <1>b, Times
<1>h5. Holds(b, p, u4)
  BY <1>8
<1>h4. Holds(b, p, u3) /\ Holds(b, p + (1 + w + m), s4)
  BY <1>u4, <1>h5, <1>c3, <1>7, HoldsConcat
<1>h3. Holds(b, p, u2) /\ Holds(b, p + (1 + w), s3)
  BY <1>u3, <1>h4, <1>c2, <1>6, HoldsConcat
<1>h2. Holds(b, p, s1) /\ Holds(b, p + 1, s2)
  <2>1. Holds(b, p, s1 \o s2)
    BY <1>u2, <1>h3
  <2>2. s1 \in Seq(Nat) /\ s2 \in Seq(Nat) /\ Len(s1) = 1
    BY <1>4, <1>5
  <2>3. Holds(b, p, s1) /\ Holds(b, p + Len(s1), s2)
    BY <2>1, <2>2, HoldsConcat
  <2> QED BY <2>2, <2>3
<1>q. PICK q : q = (p + 1) + (1 + d) * w
  OBVIOUS
<1>11. q = p + (1 + w + m) /\ q \in Nat /\ q >= 1
  BY <1>3, <1>b, <1>9, <1>q
<1>12. /\ Holds(b, p, s1) /\ Holds(b, p + 1, s2) /\ Holds(b, (p + 1) + w, s3)
       /\ Holds(b, q, s4)
  <2>1. (p + 1) + w = p + (1 + w)
    BY <1>b
  <2> QED BY <1>11, <1>h2, <1>h3, <1>h4, <2>1
<1>13. Get(b, p) = 67
  <2>1. Len(s1) >= 1 /\ Holds(b, p, s1)
    BY <1>4, <1>12
  <2> QED BY <1>4, <2>1, HoldsFirst
<1>14. Get(b, p + 1) = d
  <2>1. p + 1 \in Nat /\ p + 1 >= 1 /\ Len(s2) >= 1
    BY <1>b, <1>5
  <2> QED BY <1>5, <1>12, <2>1, HoldsFirst
<1>15. ReadUints(b, (p + 1) + w, d) = v.dims
  <2>1. PICK r : r = (p + 1) + w
    OBVIOUS
  <2>2. r \in Nat /\ r >= 1
    BY <1>b, <2>1
  <2>3. Holds(b, r, Uints(v.dims)) /\ v.dims \in Seq(Nat)
    BY <1>2, <1>12, <2>1, CellFields
  <2> QED BY <1>1, <2>1, <2>2, <2>3, UintsBack
<1>16. deserializeElements(b, q, n, nested) = ys
  <2>1. Holds(b, q, serializeElements(xs))
    BY <1>2, <1>12
  <2> QED BY <1>11, <2>1, ElementsBack
<1>17. nelts(v.dims) = n
  BY CellFields DEF nelts
<1> QED BY <1>1, <1>13, <1>14, <1>15, <1>16, <1>17, <1>q DEF deserializeCell

\* What a structure is written as, and how long that is.
LEMMA StructWritten ==
    ASSUME NEW S, NEW v \in Structs(S), NEW n \in Nat, NEW xs, CodedList(xs, n)
    PROVE  /\ serializeStruct(v, xs) \in Seq(Nat)
           /\ Len(serializeStruct(v, xs)) = Allocated(v, xs)
<1>1. PICK d, w, m, a, f :
         /\ d = Len(v.dims) /\ w = Width /\ m = d * w /\ a = AllocatedElements(xs)
         /\ f = Len(v.names)
  OBVIOUS
<1>2. PICK s1, s2, s3, s4, s5, s6 :
         /\ s1 = <<83>> /\ s2 = Uint(d) /\ s3 = Uints(v.dims) /\ s4 = <<f>>
         /\ s5 = NameBytes(v.names) /\ s6 = serializeElements(xs)
  OBVIOUS
<1>l. PICK l : l = Len(s5)
  OBVIOUS
<1>a. d \in Nat /\ f \in Nat
  BY <1>1, StructFields
<1>b. w \in Nat /\ w >= 1
  BY <1>1, WidthType
<1>3. m \in Nat
  BY <1>1, <1>a, <1>b, Times
<1>4. s1 \in Seq(Nat) /\ Len(s1) = 1 /\ s1[1] = 83
  BY <1>2
<1>5. s2 \in Seq(Nat) /\ Len(s2) = w /\ s2[1] = d
  BY <1>1, <1>2, <1>a, UintType
<1>6. s3 \in Seq(Nat) /\ Len(s3) = m
  BY <1>1, <1>2, StructFields, UintsType
<1>7. s4 \in Seq(Nat) /\ Len(s4) = 1 /\ s4[1] = f
  BY <1>2, <1>a
<1>8. /\ s5 \in Seq(Nat) /\ Len(s5) = l /\ l \in Nat
      /\ l = Total([k \in DOMAIN v.names |-> Len(v.names[k]) + 1])
  BY <1>2, <1>l, StructFields, NamesWritten
<1>9. s6 \in Seq(Nat) /\ Len(s6) = a
  BY <1>1, <1>2, ElementsWritten
<1>u2. PICK u2 : u2 = s1 \o s2
  OBVIOUS
<1>u3. PICK u3 : u3 = u2 \o s3
  OBVIOUS
<1>u4. PICK u4 : u4 = u3 \o s4
  OBVIOUS
<1>u5. PICK u5 : u5 = u4 \o s5
  OBVIOUS
<1>u6. PICK u6 : u6 = u5 \o s6
  OBVIOUS
<1>c2. u2 \in Seq(Nat) /\ Len(u2) = 1 + w
  <2>1. u2 \in Seq(Nat) /\ Len(u2) = Len(s1) + Len(s2)
    BY <1>u2, <1>4, <1>5, Concat2
  <2> QED BY <1>4, <1>5, <2>1
<1>c3. u3 \in Seq(Nat) /\ Len(u3) = 1 + w + m
  <2>1. u3 \in Seq(Nat) /\ Len(u3) = Len(u2) + Len(s3)
    BY <1>u3, <1>c2, <1>6, Concat2
  <2> QED BY <1>c2, <1>6, <2>1
<1>c4. u4 \in Seq(Nat) /\ Len(u4) = 1 + w + m + 1
  <2>1. u4 \in Seq(Nat) /\ Len(u4) = Len(u3) + Len(s4)
    BY <1>u4, <1>c3, <1>7, Concat2
  <2> QED BY <1>c3, <1>7, <2>1
<1>c5. u5 \in Seq(Nat) /\ Len(u5) = 1 + w + m + 1 + l
  <2>1. u5 \in Seq(Nat) /\ Len(u5) = Len(u4) + Len(s5)
    BY <1>u5, <1>c4, <1>8, Concat2
  <2> QED BY <1>c4, <1>8, <2>1
<1>c6. u6 \in Seq(Nat) /\ Len(u6) = 1 + w + m + 1 + l + a
  <2>1. u6 \in Seq(Nat) /\ Len(u6) = Len(u5) + Len(s6)
    BY <1>u6, <1>c5, <1>9, Concat2
  <2> QED BY <1>c5, <1>9, <2>1
<1>10. serializeStruct(v, xs) = u6
  BY <1>1, <1>2, <1>u2, <1>u3, <1>u4, <1>u5, <1>u6 DEF serializeStruct, Tag, NameBytes
<1>11. (1 + d) * w = m + w
  BY <1>1, <1>a, <1>b, Times
<1>12. Allocated(v, xs) = 1 + (1 + d) * w + 1 + l + a
  BY <1>1, <1>8, StructFields DEF Allocated
<1>13. a \in Nat
  BY <1>9
<1>14. 1 + (m + w) + 1 + l + a = 1 + w + m + 1 + l + a
  BY <1>3, <1>b, <1>8, <1>13
<1> QED BY <1>10, <1>11, <1>12, <1>14, <1>c6

\* A structure is read with its names and what its elements are read as.
LEMMA StructBack ==
    ASSUME Width = Step, NEW b \in Seq(Nat), NEW p \in Nat, p >= 1,
           NEW S, NEW v \in Structs(S), NEW n \in Nat, n = Len(v.elems),
           NEW xs, CodedList(xs, n), Holds(b, p, serializeStruct(v, xs)),
           NEW nested, NEW ys, Reads(b, nested, xs, ys, n)
    PROVE  Get(b, p) = 83 /\ deserializeStruct(b, p + 1, nested) = Struct(v.dims, v.names, ys)
<1>1. PICK d, w, m, a, f :
         /\ d = Len(v.dims) /\ w = Step /\ m = d * w /\ a = AllocatedElements(xs)
         /\ f = Len(v.names)
  OBVIOUS
<1>2. PICK s1, s2, s3, s4, s5, s6 :
         /\ s1 = <<83>> /\ s2 = Uint(d) /\ s3 = Uints(v.dims) /\ s4 = <<f>>
         /\ s5 = NameBytes(v.names) /\ s6 = serializeElements(xs)
  OBVIOUS
<1>l. PICK l : l = Len(s5)
  OBVIOUS
<1>a. d \in Nat /\ f \in Nat
  BY <1>1, StructFields
<1>b. w \in Nat /\ w >= 1
  BY <1>1, WidthType
<1>3. m \in Nat
  BY <1>1, <1>a, <1>b, Times
<1>4. s1 \in Seq(Nat) /\ Len(s1) = 1 /\ s1[1] = 83
  BY <1>2
<1>5. s2 \in Seq(Nat) /\ Len(s2) = w /\ s2[1] = d
  BY <1>1, <1>2, <1>a, UintType
<1>6. s3 \in Seq(Nat) /\ Len(s3) = m
  BY <1>1, <1>2, StructFields, UintsType
<1>7. s4 \in Seq(Nat) /\ Len(s4) = 1 /\ s4[1] = f
  BY <1>2, <1>a
<1>8. /\ s5 \in Seq(Nat) /\ Len(s5) = l /\ l \in Nat
      /\ l = Total([k \in DOMAIN v.names |-> Len(v.names[k]) + 1])
  BY <1>2, <1>l, StructFields, NamesWritten
<1>9. s6 \in Seq(Nat) /\ Len(s6) = a
  BY <1>1, <1>2, ElementsWritten
<1>u2. PICK u2 : u2 = s1 \o s2
  OBVIOUS
<1>u3. PICK u3 : u3 = u2 \o s3
  OBVIOUS
<1>u4. PICK u4 : u4 = u3 \o s4
  OBVIOUS
<1>u5. PICK u5 : u5 = u4 \o s5
  OBVIOUS
<1>u6. PICK u6 : u6 = u5 \o s6
  OBVIOUS
<1>c2. u2 \in Seq(Nat) /\ Len(u2) = 1 + w
  <2>1. u2 \in Seq(Nat) /\ Len(u2) = Len(s1) + Len(s2)
    BY <1>u2, <1>4, <1>5, Concat2
  <2> QED BY <1>4, <1>5, <2>1
<1>c3. u3 \in Seq(Nat) /\ Len(u3) = 1 + w + m
  <2>1. u3 \in Seq(Nat) /\ Len(u3) = Len(u2) + Len(s3)
    BY <1>u3, <1>c2, <1>6, Concat2
  <2> QED BY <1>c2, <1>6, <2>1
<1>c4. u4 \in Seq(Nat) /\ Len(u4) = 1 + w + m + 1
  <2>1. u4 \in Seq(Nat) /\ Len(u4) = Len(u3) + Len(s4)
    BY <1>u4, <1>c3, <1>7, Concat2
  <2> QED BY <1>c3, <1>7, <2>1
<1>c5. u5 \in Seq(Nat) /\ Len(u5) = 1 + w + m + 1 + l
  <2>1. u5 \in Seq(Nat) /\ Len(u5) = Len(u4) + Len(s5)
    BY <1>u5, <1>c4, <1>8, Concat2
  <2> QED BY <1>c4, <1>8, <2>1
<1>c6. u6 \in Seq(Nat) /\ Len(u6) = 1 + w + m + 1 + l + a
  <2>1. u6 \in Seq(Nat) /\ Len(u6) = Len(u5) + Len(s6)
    BY <1>u6, <1>c5, <1>9, Concat2
  <2> QED BY <1>c5, <1>9, <2>1
<1>10. serializeStruct(v, xs) = u6
  BY <1>1, <1>2, <1>u2, <1>u3, <1>u4, <1>u5, <1>u6 DEF serializeStruct, Tag, NameBytes
<1>11. (1 + d) * w = m + w
  BY <1>1, <1>a, <1>b, Times
<1>h7. Holds(b, p, u6)
  BY <1>10
<1>h6. Holds(b, p, u5) /\ Holds(b, p + (1 + w + m + 1 + l), s6)
  BY <1>u6, <1>h7, <1>c5, <1>9, HoldsConcat
<1>h5. Holds(b, p, u4) /\ Holds(b, p + (1 + w + m + 1), s5)
  BY <1>u5, <1>h6, <1>c4, <1>8, HoldsConcat
<1>h4. Holds(b, p, u3) /\ Holds(b, p + (1 + w + m), s4)
  BY <1>u4, <1>h5, <1>c3, <1>7, HoldsConcat
<1>h3. Holds(b, p, u2) /\ Holds(b, p + (1 + w), s3)
  BY <1>u3, <1>h4, <1>c2, <1>6, HoldsConcat
<1>h2. Holds(b, p, s1) /\ Holds(b, p + 1, s2)
  <2>1. Holds(b, p, s1 \o s2)
    BY <1>u2, <1>h3
  <2>2. s1 \in Seq(Nat) /\ s2 \in Seq(Nat) /\ Len(s1) = 1
    BY <1>4, <1>5
  <2>3. Holds(b, p, s1) /\ Holds(b, p + Len(s1), s2)
    BY <2>1, <2>2, HoldsConcat
  <2> QED BY <2>2, <2>3
<1>q. PICK q : q = (p + 1) + (1 + d) * w
  OBVIOUS
<1>13. q = p + (1 + w + m) /\ q \in Nat /\ q >= 1
  BY <1>3, <1>b, <1>11, <1>q
<1>14. /\ Holds(b, p, s1) /\ Holds(b, p + 1, s2) /\ Holds(b, (p + 1) + w, s3)
       /\ Holds(b, q, s4) /\ Holds(b, q + 1, s5) /\ Holds(b, (q + 1) + l, s6)
  <2>1. (p + 1) + w = p + (1 + w)
    BY <1>b
  <2>2. q + 1 = p + (1 + w + m + 1) /\ (q + 1) + l = p + (1 + w + m + 1 + l)
    BY <1>3, <1>b, <1>8, <1>13
  <2> QED BY <1>13, <1>h2, <1>h3, <1>h4, <1>h5, <1>h6, <2>1, <2>2
<1>15. Get(b, p) = 83
  <2>1. Len(s1) >= 1 /\ Holds(b, p, s1)
    BY <1>4, <1>14
  <2> QED BY <1>4, <2>1, HoldsFirst
<1>16. Get(b, p + 1) = d
  <2>1. p + 1 \in Nat /\ p + 1 >= 1 /\ Len(s2) >= 1
    BY <1>b, <1>5
  <2> QED BY <1>5, <1>14, <2>1, HoldsFirst
<1>17. ReadUints(b, (p + 1) + w, d) = v.dims
  <2>1. PICK r : r = (p + 1) + w
    OBVIOUS
  <2>2. r \in Nat /\ r >= 1
    BY <1>b, <2>1
  <2>3. Holds(b, r, Uints(v.dims)) /\ v.dims \in Seq(Nat)
    BY <1>2, <1>14, <2>1, StructFields
  <2> QED BY <1>1, <2>1, <2>2, <2>3, UintsBack
<1>18. Get(b, q) = f
  <2>1. Len(s4) >= 1
    BY <1>7
  <2> QED BY <1>7, <1>13, <1>14, <2>1, HoldsFirst
<1>19. PICK e : e = NameEnds(b, q + 1, f)
  OBVIOUS
<1>20. /\ e[f] + 1 = (q + 1) + l
       /\ [k \in 1 .. f |-> SubSeq(b, e[k - 1] + 1, e[k] - 1)] = v.names
  <2>1. PICK r : r = q + 1
    OBVIOUS
  <2>2. PICK names : names = v.names
    OBVIOUS
  <2>3. r \in Nat /\ r >= 1 /\ e = NameEnds(b, r, f)
    BY <1>13, <1>19, <2>1
  <2>4. names \in Seq(Seq(Nat \ {0})) /\ Len(names) = f /\ Holds(b, r, NameBytes(names))
    BY <1>1, <1>2, <1>14, <2>1, <2>2, StructFields
  <2>5. /\ e[f] + 1 = r + Len(NameBytes(names))
        /\ NamesRead(b, e, f) = names
    BY <1>a, <2>3, <2>4, NamesBack
  <2> QED BY <1>2, <1>l, <2>1, <2>2, <2>5 DEF NamesRead
<1>21. deserializeElements(b, (q + 1) + l, n, nested) = ys
  <2>1. PICK r : r = (q + 1) + l
    OBVIOUS
  <2>2. Holds(b, r, serializeElements(xs)) /\ r \in Nat /\ r >= 1
    BY <1>2, <1>8, <1>13, <1>14, <2>1
  <2> QED BY <2>1, <2>2, ElementsBack
<1>22. nelts(v.dims) * f = n
  BY <1>1, StructFields DEF nelts
<1>23. deserializeStruct(b, p + 1, nested) =
           Struct(v.dims, [k \in 1 .. f |-> SubSeq(b, e[k - 1] + 1, e[k] - 1)],
                  deserializeElements(b, e[f] + 1, nelts(v.dims) * f, nested))
  BY <1>1, <1>16, <1>17, <1>18, <1>19, <1>q DEF deserializeStruct
<1> QED BY <1>15, <1>20, <1>21, <1>22, <1>23

-----------------------------------------------------------------------------
(* Values of every depth *)

\* The letters of the four types.
LEMMA TagValues ==
    Tag("array") = 65 /\ Tag("sparse") = 80 /\ Tag("cell") = 67 /\ Tag("struct") = 83
BY DEF Tag

\* The containers of a depth.
Containers(S) == Cells(S \cup {Missing}) \cup Structs(S \cup {Missing})

\* A value has no elements or is a container of values of the depth below.
LEMMA ValueCases ==
    ASSUME NEW d \in 0 .. Depth, NEW v \in Values[d]
    PROVE  \/ v \in Leaves
           \/ d \in 1 .. Depth /\ d - 1 \in 0 .. Depth /\ v \in Containers(Values[d - 1])
<1>1. Depth \in Nat
  BY BlobAssumption
<1>2. Values[d] = IF d = 0 THEN Leaves ELSE Nesting(Values[d - 1])
  BY ValuesDef
<1>3. CASE d = 0
  BY <1>2, <1>3
<1>4. CASE d # 0
  <2>1. d \in 1 .. Depth /\ d - 1 \in 0 .. Depth
    BY <1>1, <1>4
  <2> QED BY <1>2, <1>4, <2>1 DEF Nesting, Containers
<1> QED BY <1>3, <1>4

\* There are three kinds of values without elements.
LEMMA LeafCases == ASSUME NEW v \in Leaves PROVE v \in Arrays \/ v \in Sparses \/ v = Object
BY DEF Leaves

\* They are values of every depth.
LEMMA LeafIsValue == ASSUME NEW d \in 0 .. Depth, NEW v \in Leaves PROVE v \in Values[d]
<1>1. Values[d] = IF d = 0 THEN Leaves ELSE Nesting(Values[d - 1])
  BY ValuesDef
<1> QED BY <1>1 DEF Nesting

\* What a container has is of the depth below, when it is not missing.
LEMMA PresentIsValue ==
    ASSUME NEW d \in 0 .. Depth, NEW e \in Values[d] \cup {Missing}
    PROVE  Present(e) \in Values[d]
<1>1. CASE e.t = "missing"
  BY <1>1, EmptyMatrixIsValue, LeafIsValue DEF Present
<1>2. CASE e.t # "missing"
  <2>1. e # Missing
    BY <1>2 DEF Missing
  <2> QED BY <1>2, <2>1 DEF Present
<1> QED BY <1>1, <1>2

\* What both kinds of containers have.
LEMMA ContainerFields ==
    ASSUME NEW S, NEW v \in Containers(S)
    PROVE  /\ v.elems \in Seq(S \cup {Missing}) /\ v.t \in {"cell", "struct"}
           /\ ElementsOf(v) = v.elems
BY DEF Containers, Cells, Structs, ElementsOf

\* Of each element of a container there is what its value is given.
LEMMA ContainerBelow ==
    ASSUME NEW d \in 0 .. Depth, NEW v \in Containers(Values[d]), NEW n, n = Len(v.elems), NEW g
    PROVE  /\ n \in Nat
           /\ Below(v, g) = [k \in 1 .. n |-> Below(v, g)[k]]
           /\ \A k \in 1 .. n : /\ Below(v, g)[k] = g[Present(v.elems[k])]
                                /\ Present(v.elems[k]) \in Values[d]
<1>1. v.elems \in Seq(Values[d] \cup {Missing}) /\ ElementsOf(v) = v.elems
  BY ContainerFields
<1>2. n \in Nat /\ DOMAIN v.elems = 1 .. n
  BY <1>1
<1>3. Below(v, g) = [k \in 1 .. n |-> g[Present(v.elems[k])]]
  BY <1>1, <1>2 DEF Below
<1>4. ASSUME NEW k \in 1 .. n PROVE Present(v.elems[k]) \in Values[d]
  <2>1. v.elems[k] \in Values[d] \cup {Missing}
    BY <1>1, <1>2
  <2> QED BY <2>1, PresentIsValue
<1>5. \A k \in 1 .. n : Below(v, g)[k] = g[Present(v.elems[k])]
  BY <1>3
<1>6. Below(v, g) = [k \in 1 .. n |-> Below(v, g)[k]]
  BY <1>3
<1> QED BY <1>2, <1>4, <1>5, <1>6

\* A container is written when its elements are.
LEMMA ContainerWritten ==
    ASSUME NEW S, NEW v \in Containers(S), NEW n \in Nat, NEW xs, CodedList(xs, n)
    PROVE  serializeNested(v, xs) \in Coded
<1>1. v.t \in {"cell", "struct"}
  BY ContainerFields
<1>2. \A k \in DOMAIN xs : xs[k] # Error
  BY CodedFields DEF CodedList
<1>3. CASE v \in Cells(S \cup {Missing})
  <2>1. v.t = "cell"
    BY <1>3, CellFields
  <2>2. serializeNested(v, xs) = [bytes |-> serializeCell(v, xs), size |-> Allocated(v, xs)]
    BY <1>2, <2>1 DEF serializeNested
  <2>3. serializeCell(v, xs) \in Seq(Nat) /\ Len(serializeCell(v, xs)) = Allocated(v, xs)
    BY <1>3, CellWritten
  <2>4. PICK y : y = serializeCell(v, xs)
    OBVIOUS
  <2>5. Len(y) \in Nat /\ y \in Seq(Nat) /\ Allocated(v, xs) = Len(y)
    BY <2>3, <2>4
  <2>6. serializeNested(v, xs) = [bytes |-> y, size |-> Len(y)]
    BY <2>2, <2>4, <2>5
  <2> QED BY <2>5, <2>6 DEF Coded
<1>4. CASE v \in Structs(S \cup {Missing})
  <2>1. v.t = "struct"
    BY <1>4, StructFields
  <2>2. serializeNested(v, xs) = [bytes |-> serializeStruct(v, xs), size |-> Allocated(v, xs)]
    BY <1>2, <2>1 DEF serializeNested
  <2>3. serializeStruct(v, xs) \in Seq(Nat) /\ Len(serializeStruct(v, xs)) = Allocated(v, xs)
    BY <1>4, StructWritten
  <2>4. PICK y : y = serializeStruct(v, xs)
    OBVIOUS
  <2>5. Len(y) \in Nat /\ y \in Seq(Nat) /\ Allocated(v, xs) = Len(y)
    BY <2>3, <2>4
  <2>6. serializeNested(v, xs) = [bytes |-> y, size |-> Len(y)]
    BY <2>2, <2>4, <2>5
  <2> QED BY <2>5, <2>6 DEF Coded
<1> QED BY <1>3, <1>4 DEF Containers

\* So is a value without elements, unless it is not supported.
LEMMA LeafWritten ==
    ASSUME NEW v \in Leaves, NEW g
    PROVE  /\ v \in Arrays => /\ serializeNested(v, Below(v, g)) \in Coded
                              /\ serializeNested(v, Below(v, g)).bytes = serializeArray(v)
           /\ v \in Sparses => /\ serializeNested(v, Below(v, g)) \in Coded
                               /\ serializeNested(v, Below(v, g)).bytes = serializeSparse(v)
           /\ v = Object => serializeNested(v, Below(v, g)) = Error
<1>1. PICK xs : xs = Below(v, g)
  OBVIOUS
<1>2. xs = << >>
  BY <1>1, LeafBelow
<1>3. ~ \E k \in DOMAIN xs : xs[k] = Error
  BY <1>2
<1>4. CASE v \in Arrays
  <2>1. v.t = "array"
    BY <1>4, ArrayFields
  <2>2. serializeNested(v, xs) = [bytes |-> serializeArray(v), size |-> Allocated(v, xs)]
    BY <1>3, <2>1 DEF serializeNested
  <2>3. PICK y : y = serializeArray(v)
    OBVIOUS
  <2>4. y \in Seq(Nat) /\ Allocated(v, xs) = Len(y)
    BY <1>4, <2>3, ArrayWritten
  <2>5. serializeNested(v, xs) = [bytes |-> y, size |-> Len(y)] /\ Len(y) \in Nat
    BY <2>2, <2>3, <2>4
  <2>6. serializeNested(v, xs) \in Coded /\ serializeNested(v, xs).bytes = y
    BY <2>4, <2>5 DEF Coded
  <2>7. v \notin Sparses /\ v # Object
    BY <2>1, SparseFields DEF Object
  <2> QED BY <1>1, <2>3, <2>6, <2>7
<1>5. CASE v \in Sparses
  <2>1. v.t = "sparse"
    BY <1>5, SparseFields
  <2>2. serializeNested(v, xs) = [bytes |-> serializeSparse(v), size |-> Allocated(v, xs)]
    BY <1>3, <2>1 DEF serializeNested
  <2>3. PICK y : y = serializeSparse(v)
    OBVIOUS
  <2>4. y \in Seq(Nat) /\ Allocated(v, xs) = Len(y)
    BY <1>5, <2>3, SparseWritten
  <2>5. serializeNested(v, xs) = [bytes |-> y, size |-> Len(y)] /\ Len(y) \in Nat
    BY <2>2, <2>3, <2>4
  <2>6. serializeNested(v, xs) \in Coded /\ serializeNested(v, xs).bytes = y
    BY <2>4, <2>5 DEF Coded
  <2>7. v \notin Arrays /\ v # Object
    BY <2>1, ArrayFields DEF Object
  <2> QED BY <1>1, <2>3, <2>6, <2>7
<1>6. CASE v = Object
  <2>1. v.t = "object" /\ v \notin Arrays /\ v \notin Sparses
    BY <1>6, ArrayFields, SparseFields DEF Object
  <2> QED BY <1>1, <2>1 DEF serializeNested
<1> QED BY <1>4, <1>5, <1>6, LeafCases

\* What is written of every value is as long as what is allocated for it.
LEMMA SerializedCoded ==
    \A d \in 0 .. Depth : \A v \in Values[d] : Serialized[d][v] \in Coded \cup {Error}
<1> DEFINE T == {d \in Nat : d <= Depth => \A v \in Values[d] : Serialized[d][v] \in Coded \cup {Error}}
<1>0. Depth \in Nat
  BY BlobAssumption
<1>1. ASSUME NEW d \in 0 .. Depth, NEW v \in Leaves
      PROVE  Serialized[d][v] \in Coded \cup {Error}
  <2>1. v \in Values[d]
    BY <1>1, LeafIsValue
  <2>2. Serialized[d][v] = serializeNested(v, Below(v, Serialized[d - 1]))
    BY <2>1, SerializedDef
  <2> QED BY <2>2, LeafWritten, LeafCases
<1>2. 0 \in T
  <2>1. 0 \in 0 .. Depth /\ Values[0] = Leaves
    BY <1>0, ValuesDef
  <2> QED BY <1>1, <2>1
<1>3. ASSUME NEW d \in Nat, d \in T PROVE d + 1 \in T
  <2> SUFFICES ASSUME d + 1 <= Depth, NEW v \in Values[d + 1]
               PROVE  Serialized[d + 1][v] \in Coded \cup {Error}
    OBVIOUS
  <2>1. d + 1 \in 0 .. Depth /\ d \in 0 .. Depth /\ (d + 1) - 1 = d /\ d <= Depth
    BY <1>0
  <2>2. PICK xs : xs = Below(v, Serialized[d])
    OBVIOUS
  <2>3. Serialized[d + 1][v] = serializeNested(v, xs)
    BY <2>1, <2>2, SerializedDef
  <2>4. CASE v \in Leaves
    BY <1>1, <2>1, <2>4
  <2>5. CASE v \in Containers(Values[d])
    <3>1. PICK n : n = Len(v.elems)
      OBVIOUS
    <3>2. /\ n \in Nat /\ xs = [k \in 1 .. n |-> xs[k]]
          /\ \A k \in 1 .. n : /\ xs[k] = Serialized[d][Present(v.elems[k])]
                               /\ Present(v.elems[k]) \in Values[d]
      BY <2>1, <2>2, <2>5, <3>1, ContainerBelow
    <3>3. \A k \in 1 .. n : xs[k] \in Coded \cup {Error}
      BY <1>3, <2>1, <3>2
    <3>4. CASE \E k \in 1 .. n : xs[k] = Error
      <4>1. \E k \in DOMAIN xs : xs[k] = Error
        BY <3>2, <3>4
      <4> QED BY <2>3, <4>1 DEF serializeNested
    <3>5. CASE ~ \E k \in 1 .. n : xs[k] = Error
      <4>1. CodedList(xs, n)
        BY <3>2, <3>3, <3>5 DEF CodedList
      <4> QED BY <2>3, <2>5, <3>2, <4>1, ContainerWritten
    <3> QED BY <3>4, <3>5
  <2>6. v \in Leaves \/ v \in Containers(Values[d])
    BY <2>1, ValueCases
  <2> QED BY <2>4, <2>5, <2>6
<1>4. Nat \subseteq T
  <2> HIDE DEF T
  <2> QED BY <1>2, <1>3, Induction
<1> QED BY <1>0, <1>4

\* What is written of v comes back as its canonical form, or is an error.
Back(d, v) ==
    /\ Serialized[d][v] = Error <=> Canonical[d][v] = Error
    /\ Serialized[d][v] # Error =>
           \A b \in Seq(Nat) : \A p \in Nat :
               p >= 1 /\ Holds(b, p, Serialized[d][v].bytes) =>
                   Deserialized(b)[d][p] = Canonical[d][v]

\* That is so of values without elements,
LEMMA LeafBack == ASSUME Width = Step, NEW d \in 0 .. Depth, NEW v \in Leaves PROVE Back(d, v)
<1>1. v \in Values[d]
  BY LeafIsValue
<1>2. PICK x : x = Serialized[d][v]
  OBVIOUS
<1>3. x = serializeNested(v, Below(v, Serialized[d - 1]))
  BY <1>1, <1>2, SerializedDef
<1>4. Canonical[d][v] = CanonicalOf(v, Below(v, Canonical[d - 1]))
  BY <1>1, CanonicalDef
<1>5. CASE v \in Arrays
  <2>1. x \in Coded /\ x.bytes = serializeArray(v)
    BY <1>3, <1>5, LeafWritten
  <2>2. x # Error
    BY <2>1, CodedFields
  <2>3. v.t = "array"
    BY <1>5, ArrayFields
  <2>4. Canonical[d][v] = v /\ v # Error
    BY <1>4, <2>3 DEF CanonicalOf, Error
  <2>5. ASSUME NEW b \in Seq(Nat), NEW p \in Nat, p >= 1, Holds(b, p, x.bytes)
        PROVE  Deserialized(b)[d][p] = v
    <3>1. Get(b, p) = 65 /\ deserializeArray(b, p + 1) = v
      BY <1>5, <2>1, <2>5, ArrayBack
    <3>2. Deserialized(b)[d][p] = ReadAt(b, p, d, Deserialized(b)[d - 1])
      BY DeserializedDef
    <3> QED BY <3>1, <3>2, TagValues DEF ReadAt
  <2> QED BY <1>2, <2>2, <2>4, <2>5 DEF Back
<1>6. CASE v \in Sparses
  <2>1. x \in Coded /\ x.bytes = serializeSparse(v)
    BY <1>3, <1>6, LeafWritten
  <2>2. x # Error
    BY <2>1, CodedFields
  <2>3. v.t = "sparse"
    BY <1>6, SparseFields
  <2>4. Canonical[d][v] = v /\ v # Error
    BY <1>4, <2>3 DEF CanonicalOf, Error
  <2>5. ASSUME NEW b \in Seq(Nat), NEW p \in Nat, p >= 1, Holds(b, p, x.bytes)
        PROVE  Deserialized(b)[d][p] = v
    <3>1. Get(b, p) = 80 /\ deserializeSparse(b, p + 1) = v
      BY <1>6, <2>1, <2>5, SparseBack
    <3>2. Deserialized(b)[d][p] = ReadAt(b, p, d, Deserialized(b)[d - 1])
      BY DeserializedDef
    <3> QED BY <3>1, <3>2, TagValues DEF ReadAt
  <2> QED BY <1>2, <2>2, <2>4, <2>5 DEF Back
<1>7. CASE v = Object
  <2>1. x = Error
    BY <1>3, <1>7, LeafWritten
  <2>2. Canonical[d][v] = Error
    BY <1>4, <1>7 DEF CanonicalOf, Object
  <2> QED BY <1>2, <2>1, <2>2 DEF Back
<1> QED BY <1>5, <1>6, <1>7, LeafCases

\* of containers when it is so of their elements,
LEMMA ContainerBack ==
    ASSUME Width = Step, NEW d \in 1 .. Depth, NEW v \in Containers(Values[d - 1]), v \in Values[d],
           \A u \in Values[d - 1] : Back(d - 1, u)
    PROVE  Back(d, v)
<1>0. d \in 0 .. Depth /\ d - 1 \in 0 .. Depth /\ d > 0
  BY BlobAssumption
<1>1. PICK S : S = Values[d - 1]
  OBVIOUS
<1>2. PICK n, xs, ys :
         /\ n = Len(v.elems) /\ xs = Below(v, Serialized[d - 1])
         /\ ys = Below(v, Canonical[d - 1])
  OBVIOUS
<1>3. Serialized[d][v] = serializeNested(v, xs) /\ Canonical[d][v] = CanonicalOf(v, ys)
  BY <1>0, <1>2, SerializedDef, CanonicalDef
<1>4. /\ n \in Nat /\ xs = [k \in 1 .. n |-> xs[k]]
      /\ \A k \in 1 .. n : /\ xs[k] = Serialized[d - 1][Present(v.elems[k])]
                           /\ Present(v.elems[k]) \in S
  <2>1. PICK e, g : e = d - 1 /\ g = Serialized[d - 1]
    OBVIOUS
  <2>2. e \in 0 .. Depth /\ v \in Containers(Values[e]) /\ xs = Below(v, g)
    BY <1>0, <1>2, <2>1
  <2>3. /\ n \in Nat
        /\ Below(v, g) = [k \in 1 .. n |-> Below(v, g)[k]]
        /\ \A k \in 1 .. n : /\ Below(v, g)[k] = g[Present(v.elems[k])]
                             /\ Present(v.elems[k]) \in Values[e]
    BY <1>2, <2>2, ContainerBelow
  <2> QED BY <1>1, <2>1, <2>2, <2>3
<1>5. /\ ys = [k \in 1 .. n |-> ys[k]]
      /\ \A k \in 1 .. n : ys[k] = Canonical[d - 1][Present(v.elems[k])]
  <2>1. PICK e, g : e = d - 1 /\ g = Canonical[d - 1]
    OBVIOUS
  <2>2. e \in 0 .. Depth /\ v \in Containers(Values[e]) /\ ys = Below(v, g)
    BY <1>0, <1>2, <2>1
  <2>3. /\ Below(v, g) = [k \in 1 .. n |-> Below(v, g)[k]]
        /\ \A k \in 1 .. n : Below(v, g)[k] = g[Present(v.elems[k])]
    BY <1>2, <2>2, ContainerBelow
  <2> QED BY <2>1, <2>2, <2>3
<1>6. \A k \in 1 .. n : Back(d - 1, Present(v.elems[k]))
  BY <1>1, <1>4
<1>7. \A k \in 1 .. n : xs[k] = Error <=> ys[k] = Error
  BY <1>4, <1>5, <1>6 DEF Back
<1>8. v.t \in {"cell", "struct"} /\ DOMAIN xs = 1 .. n /\ DOMAIN ys = 1 .. n
  BY <1>4, <1>5, ContainerFields
<1>9. CASE \E k \in 1 .. n : xs[k] = Error
  <2>1. serializeNested(v, xs) = Error
    BY <1>8, <1>9 DEF serializeNested
  <2>2. CanonicalOf(v, ys) = Error
    BY <1>7, <1>8, <1>9 DEF CanonicalOf
  <2> QED BY <1>3, <2>1, <2>2 DEF Back
<1>10. CASE ~ \E k \in 1 .. n : xs[k] = Error
  <2>1. \A k \in 1 .. n : xs[k] # Error /\ ys[k] # Error
    BY <1>7, <1>10
  <2>2. CodedList(xs, n)
    <3>1. ASSUME NEW k \in 1 .. n PROVE xs[k] \in Coded
      <4>1. xs[k] \in Coded \cup {Error}
        BY <1>0, <1>1, <1>4, SerializedCoded
      <4> QED BY <2>1, <4>1
    <3> QED BY <1>4, <3>1 DEF CodedList
  <2>3. serializeNested(v, xs) # Error
    <3>1. serializeNested(v, xs) \in Coded
      BY <1>1, <1>4, <2>2, ContainerWritten
    <3> QED BY <3>1, CodedFields
  <2>4. CanonicalOf(v, ys) = [v EXCEPT !.elems = ys]
    BY <1>8, <2>1 DEF CanonicalOf
  <2>5. \A k \in DOMAIN xs : xs[k] # Error
    BY <1>8, <2>1
  <2>6. ASSUME NEW b \in Seq(Nat) PROVE Reads(b, Deserialized(b)[d - 1], xs, ys, n)
    <3>1. ASSUME NEW k \in 1 .. n, NEW r \in Nat, r >= 1, Holds(b, r, xs[k].bytes)
          PROVE  Deserialized(b)[d - 1][r] = ys[k]
      <4>1. PICK u : u = Present(v.elems[k])
        OBVIOUS
      <4>2. Back(d - 1, u) /\ xs[k] = Serialized[d - 1][u] /\ ys[k] = Canonical[d - 1][u]
        BY <1>4, <1>5, <1>6, <4>1
      <4> QED BY <2>1, <3>1, <4>2 DEF Back
    <3> QED BY <1>5, <3>1 DEF Reads
  <2>7. CASE v \in Cells(S \cup {Missing})
    <3>1. v.t = "cell"
      BY <2>7, CellFields
    <3>2. serializeNested(v, xs) = [bytes |-> serializeCell(v, xs), size |-> Allocated(v, xs)]
      BY <2>5, <3>1 DEF serializeNested
    <3>3. CanonicalOf(v, ys) = Cell(v.dims, ys) /\ Cell(v.dims, ys) # Error
      <4>1. v = [t |-> "cell", dims |-> v.dims, elems |-> v.elems]
        BY <2>7, CellFields DEF Cell
      <4>2. [v EXCEPT !.elems = ys] = [t |-> "cell", dims |-> v.dims, elems |-> ys]
        BY <4>1
      <4>3. Cell(v.dims, ys).t = "cell" /\ Error.t = "error"
        BY DEF Cell, Error
      <4> QED BY <2>4, <4>2, <4>3 DEF Cell
    <3>4. ASSUME NEW b \in Seq(Nat), NEW p \in Nat, p >= 1, Holds(b, p, serializeCell(v, xs))
          PROVE  Deserialized(b)[d][p] = Cell(v.dims, ys)
      <4>1. PICK nested : nested = Deserialized(b)[d - 1]
        OBVIOUS
      <4>2. Reads(b, nested, xs, ys, n)
        BY <2>6, <4>1
      <4>3. Get(b, p) = 67 /\ deserializeCell(b, p + 1, nested) = Cell(v.dims, ys)
        BY <1>2, <1>4, <2>2, <2>7, <3>4, <4>2, CellBack
      <4>4. Deserialized(b)[d][p] = ReadAt(b, p, d, nested)
        BY <1>0, <4>1, DeserializedDef
      <4> QED BY <1>0, <4>3, <4>4, TagValues DEF ReadAt
    <3>5. Serialized[d][v].bytes = serializeCell(v, xs)
      BY <1>3, <3>2
    <3> QED BY <1>3, <2>3, <3>3, <3>4, <3>5 DEF Back
  <2>8. CASE v \in Structs(S \cup {Missing})
    <3>1. v.t = "struct"
      BY <2>8, StructFields
    <3>2. serializeNested(v, xs) = [bytes |-> serializeStruct(v, xs), size |-> Allocated(v, xs)]
      BY <2>5, <3>1 DEF serializeNested
    <3>3. CanonicalOf(v, ys) = Struct(v.dims, v.names, ys) /\ Struct(v.dims, v.names, ys) # Error
      <4>1. v = [t |-> "struct", dims |-> v.dims, names |-> v.names, elems |-> v.elems]
        BY <2>8, StructFields DEF Struct
      <4>2. [v EXCEPT !.elems = ys] =
                [t |-> "struct", dims |-> v.dims, names |-> v.names, elems |-> ys]
        BY <4>1
      <4>3. Struct(v.dims, v.names, ys).t = "struct" /\ Error.t = "error"
        BY DEF Struct, Error
      <4> QED BY <2>4, <4>2, <4>3 DEF Struct
    <3>4. ASSUME NEW b \in Seq(Nat), NEW p \in Nat, p >= 1, Holds(b, p, serializeStruct(v, xs))
          PROVE  Deserialized(b)[d][p] = Struct(v.dims, v.names, ys)
      <4>1. PICK nested : nested = Deserialized(b)[d - 1]
        OBVIOUS
      <4>2. Reads(b, nested, xs, ys, n)
        BY <2>6, <4>1
      <4>3. Get(b, p) = 83 /\ deserializeStruct(b, p + 1, nested) = Struct(v.dims, v.names, ys)
        BY <1>2, <1>4, <2>2, <2>8, <3>4, <4>2, StructBack
      <4>4. Deserialized(b)[d][p] = ReadAt(b, p, d, nested)
        BY <1>0, <4>1, DeserializedDef
      <4> QED BY <1>0, <4>3, <4>4, TagValues DEF ReadAt
    <3>5. Serialized[d][v].bytes = serializeStruct(v, xs)
      BY <1>3, <3>2
    <3> QED BY <1>3, <2>3, <3>3, <3>4, <3>5 DEF Back
  <2> QED BY <1>1, <2>7, <2>8 DEF Containers
<1> QED BY <1>9, <1>10

\* and so of all values.
LEMMA ValueBack ==
    ASSUME Width = Step
    PROVE  \A d \in 0 .. Depth : \A v \in Values[d] : Back(d, v)
<1> DEFINE T == {d \in Nat : d <= Depth => \A v \in Values[d] : Back(d, v)}
<1>0. Depth \in Nat
  BY BlobAssumption
<1>1. 0 \in T
  <2>1. 0 \in 0 .. Depth /\ Values[0] = Leaves
    BY <1>0, ValuesDef
  <2> QED BY <2>1, LeafBack
<1>2. ASSUME NEW d \in Nat, d \in T PROVE d + 1 \in T
  <2> SUFFICES ASSUME d + 1 <= Depth, NEW v \in Values[d + 1] PROVE Back(d + 1, v)
    OBVIOUS
  <2>1. PICK e : e = d + 1
    OBVIOUS
  <2>2. e \in 0 .. Depth /\ e \in 1 .. Depth /\ e - 1 = d /\ v \in Values[e] /\ d <= Depth
    BY <1>0, <2>1
  <2>3. \A u \in Values[e - 1] : Back(e - 1, u)
    BY <1>2, <2>2
  <2>4. v \in Leaves \/ v \in Containers(Values[e - 1])
    BY <2>2, ValueCases
  <2>5. Back(e, v)
    BY <2>2, <2>3, <2>4, LeafBack, ContainerBack
  <2> QED BY <2>1, <2>5
<1>3. Nat \subseteq T
  <2> HIDE DEF T
  <2> QED BY <1>1, <1>2, Induction
<1> QED BY <1>0, <1>3

-----------------------------------------------------------------------------
(* Memory that is freed *)

FreesOf(g, d) ==
    {v \in Values[d] :
        \/ FreesOwn(v)
        \/ \E k \in DOMAIN ElementsOf(v) :
               /\ Present(ElementsOf(v)[k]) \in g
               /\ \A j \in 1 .. k - 1 :
                      Serialized[d - 1][Present(ElementsOf(v)[j])] # Error}

FieldlessOf(g, d) ==
    {v \in Values[d] :
        \/ v.t = "struct" /\ v.names = << >> /\ Elements(v.dims) > 1
        \/ \E k \in DOMAIN ElementsOf(v) : Present(ElementsOf(v)[k]) \in g}

\* A recursion over the depth that begins with c and goes on with F.
Steps(s, c, F) == s = [d \in 0 .. Depth |-> IF d = 0 THEN c ELSE F[d][s[d - 1]]]

\* If it gives sets of values, it has a solution.
LEMMA SetsExist ==
    ASSUME NEW U, NEW c \in SUBSET U,
           NEW F \in [1 .. Depth -> [SUBSET U -> SUBSET U]]
    PROVE  \E s : Steps(s, c, F)
<1>0. Depth \in Nat
  BY BlobAssumption
<1>1. PICK S : S = SUBSET U
  OBVIOUS
<1>2. F \in Rounds(Depth, S) /\ c \in S
  BY <1>1 DEF Rounds
<1>3. PICK r \in [0 .. Depth -> S] : Iterates(r, c, Depth, F)
  BY <1>0, <1>2, RecursionExists
<1>4. \A d \in 0 .. Depth : r[d] = IF d = 0 THEN c ELSE F[d][r[d - 1]]
  BY <1>0, <1>3 DEF Iterates
<1>5. r = [d \in 0 .. Depth |-> r[d]]
  BY <1>3
<1>6. r = [d \in 0 .. Depth |-> IF d = 0 THEN c ELSE F[d][r[d - 1]]]
  BY <1>4, <1>5
<1> QED BY <1>6 DEF Steps

\* The values of each depth with which what is not the program's is freed.
LEMMA FreesBehindDef ==
    \A d \in 0 .. Depth : FreesBehind[d] = FreesOf(FreesBehind[d - 1], d)
<1> DEFINE G(s) == [d \in 0 .. Depth |->
                   {v \in Values[d] :
                     \/ FreesOwn(v)
                     \/ \E k \in DOMAIN ElementsOf(v) :
                            /\ Present(ElementsOf(v)[k]) \in s[d - 1]
                            /\ \A j \in 1 .. k - 1 :
                                   Serialized[d - 1][Present(ElementsOf(v)[j])] # Error}]
           H(s) == [d \in 0 .. Depth |-> FreesOf(s[d - 1], d)]
           f == CHOOSE s : s = G(s)
<1>1. FreesBehind = f
  BY DEF FreesBehind
<1>2. ASSUME NEW s PROVE G(s) = H(s)
  BY DEF FreesOf
<1>3. \E s : s = H(s)
  <2>1. PICK U : U = UNION {Values[d] : d \in 0 .. Depth}
    OBVIOUS
  <2>2. \A g : \A d \in 0 .. Depth : FreesOf(g, d) \in SUBSET U
    BY <2>1 DEF FreesOf
  <2>3. Depth \in Nat
    BY BlobAssumption
  <2>4. PICK c : c = FreesOf({}, 0)
    OBVIOUS
  <2>5. PICK F : F = [d \in 1 .. Depth |-> [g \in SUBSET U |-> FreesOf(g, d)]]
    OBVIOUS
  <2>6. c \in SUBSET U
    BY <2>2, <2>3, <2>4
  <2>7. F \in [1 .. Depth -> [SUBSET U -> SUBSET U]]
    <3>1. \A d \in 1 .. Depth : \A g \in SUBSET U : FreesOf(g, d) \in SUBSET U
      BY <2>2, <2>3
    <3> QED BY <2>5, <3>1
  <2>a. PICK s : Steps(s, c, F)
    BY <2>6, <2>7, SetsExist
  <2>8. s = [d \in 0 .. Depth |-> IF d = 0 THEN c ELSE F[d][s[d - 1]]]
    BY <2>a DEF Steps
  <2>9. ASSUME NEW d \in 0 .. Depth PROVE s[d] = FreesOf(s[d - 1], d)
    <3>1. CASE d = 0
      <4>1. \A v \in Values[0] : ElementsOf(v) = << >>
        BY <2>3, ValuesDef, LeafElements
      <4>2. \A g : FreesOf(g, 0) = c
        BY <2>4, <4>1 DEF FreesOf
      <4> QED BY <2>8, <3>1, <4>2
    <3>2. CASE d # 0
      <4>1. d \in 1 .. Depth /\ d - 1 \in 0 .. Depth
        BY <2>3, <3>2
      <4>2. s[d - 1] \in SUBSET U
        <5>1. CASE d - 1 = 0
          BY <2>6, <2>8, <4>1, <5>1
        <5>2. CASE d - 1 # 0
          <6>1. PICK S : S = SUBSET U
            OBVIOUS
          <6>2. F \in Rounds(Depth, S) /\ c \in S
            BY <2>6, <2>7, <6>1 DEF Rounds
          <6>3. s[0] = c /\ \A i \in 1 .. Depth : s[i] = F[i][s[i - 1]]
            BY <2>3, <2>8
          <6>4. \A i \in 0 .. Depth : s[i] \in S
            BY <2>3, <6>2, <6>3, RecursionStays
          <6> QED BY <4>1, <6>1, <6>4
        <5> QED BY <5>1, <5>2
      <4>3. s[d] = F[d][s[d - 1]]
        BY <2>8, <3>2
      <4> QED BY <2>5, <4>1, <4>2, <4>3
    <3> QED BY <3>1, <3>2
  <2>10. s = [d \in 0 .. Depth |-> s[d]]
    BY <2>8
  <2>11. s = H(s)
    BY <2>9, <2>10
  <2> HIDE DEF H
  <2> QED BY <2>11
<1>4. f = G(f)
  <2>1. \E s : s = G(s)
    <3> HIDE DEF G, H
    <3> QED BY <1>2, <1>3
  <2> HIDE DEF G
  <2> QED BY <2>1
<1>5. PICK s : s = f
  OBVIOUS
<1>6. s = H(s)
  <2> HIDE DEF G, H, f
  <2> QED BY <1>2, <1>4, <1>5
<1>7. FreesBehind = s
  BY <1>1, <1>5
<1> QED BY <1>6, <1>7

\* And those with two structures without fields.
LEMMA FieldlessDef ==
    \A d \in 0 .. Depth : Fieldless[d] = FieldlessOf(Fieldless[d - 1], d)
<1> DEFINE G(s) == [d \in 0 .. Depth |->
                   {v \in Values[d] :
                     \/ v.t = "struct" /\ v.names = << >> /\ Elements(v.dims) > 1
                     \/ \E k \in DOMAIN ElementsOf(v) : Present(ElementsOf(v)[k]) \in s[d - 1]}]
           H(s) == [d \in 0 .. Depth |-> FieldlessOf(s[d - 1], d)]
           f == CHOOSE s : s = G(s)
<1>1. Fieldless = f
  BY DEF Fieldless
<1>2. ASSUME NEW s PROVE G(s) = H(s)
  BY DEF FieldlessOf
<1>3. \E s : s = H(s)
  <2>1. PICK U : U = UNION {Values[d] : d \in 0 .. Depth}
    OBVIOUS
  <2>2. \A g : \A d \in 0 .. Depth : FieldlessOf(g, d) \in SUBSET U
    BY <2>1 DEF FieldlessOf
  <2>3. Depth \in Nat
    BY BlobAssumption
  <2>4. PICK c : c = FieldlessOf({}, 0)
    OBVIOUS
  <2>5. PICK F : F = [d \in 1 .. Depth |-> [g \in SUBSET U |-> FieldlessOf(g, d)]]
    OBVIOUS
  <2>6. c \in SUBSET U
    BY <2>2, <2>3, <2>4
  <2>7. F \in [1 .. Depth -> [SUBSET U -> SUBSET U]]
    <3>1. \A d \in 1 .. Depth : \A g \in SUBSET U : FieldlessOf(g, d) \in SUBSET U
      BY <2>2, <2>3
    <3> QED BY <2>5, <3>1
  <2>a. PICK s : Steps(s, c, F)
    BY <2>6, <2>7, SetsExist
  <2>8. s = [d \in 0 .. Depth |-> IF d = 0 THEN c ELSE F[d][s[d - 1]]]
    BY <2>a DEF Steps
  <2>9. ASSUME NEW d \in 0 .. Depth PROVE s[d] = FieldlessOf(s[d - 1], d)
    <3>1. CASE d = 0
      <4>1. \A v \in Values[0] : ElementsOf(v) = << >>
        BY <2>3, ValuesDef, LeafElements
      <4>2. \A g : FieldlessOf(g, 0) = c
        BY <2>4, <4>1 DEF FieldlessOf
      <4> QED BY <2>8, <3>1, <4>2
    <3>2. CASE d # 0
      <4>1. d \in 1 .. Depth /\ d - 1 \in 0 .. Depth
        BY <2>3, <3>2
      <4>2. s[d - 1] \in SUBSET U
        <5>1. CASE d - 1 = 0
          BY <2>6, <2>8, <4>1, <5>1
        <5>2. CASE d - 1 # 0
          <6>1. PICK S : S = SUBSET U
            OBVIOUS
          <6>2. F \in Rounds(Depth, S) /\ c \in S
            BY <2>6, <2>7, <6>1 DEF Rounds
          <6>3. s[0] = c /\ \A i \in 1 .. Depth : s[i] = F[i][s[i - 1]]
            BY <2>3, <2>8
          <6>4. \A i \in 0 .. Depth : s[i] \in S
            BY <2>3, <6>2, <6>3, RecursionStays
          <6> QED BY <4>1, <6>1, <6>4
        <5> QED BY <5>1, <5>2
      <4>3. s[d] = F[d][s[d - 1]]
        BY <2>8, <3>2
      <4> QED BY <2>5, <4>1, <4>2, <4>3
    <3> QED BY <3>1, <3>2
  <2>10. s = [d \in 0 .. Depth |-> s[d]]
    BY <2>8
  <2>11. s = H(s)
    BY <2>9, <2>10
  <2> HIDE DEF H
  <2> QED BY <2>11
<1>4. f = G(f)
  <2>1. \E s : s = G(s)
    <3> HIDE DEF G, H
    <3> QED BY <1>2, <1>3
  <2> HIDE DEF G
  <2> QED BY <2>1
<1>5. PICK s : s = f
  OBVIOUS
<1>6. s = H(s)
  <2> HIDE DEF G, H, f
  <2> QED BY <1>2, <1>4, <1>5
<1>7. Fieldless = s
  BY <1>1, <1>5
<1> QED BY <1>6, <1>7

\* Only an array of two structures without fields has fewer elements than its
\* dimensions say.
LEMMA FreesOwnFieldless ==
    ASSUME NEW d \in 0 .. Depth, NEW v \in Values[d], FreesOwn(v)
    PROVE  v.t = "struct" /\ v.names = << >> /\ Elements(v.dims) > 1
<1>0. PICK i \in 2 .. Elements(v.dims) : i \notin DOMAIN v.elems
  BY DEF FreesOwn
<1>1. v.t \in {"cell", "struct"}
  BY DEF FreesOwn
<1>2. v \notin Leaves
  BY <1>1, LeafCases, ArrayFields, SparseFields DEF Object
<1>3. d # 0 /\ v \in Containers(Values[d - 1])
  BY <1>2, ValueCases
<1>4. PICK S : v \in Cells(S) \/ v \in Structs(S)
  BY <1>3 DEF Containers
<1>5. PICK e : e = Elements(v.dims)
  OBVIOUS
<1>6. v.dims \in Seq(Nat) /\ e \in Nat
  <2>1. v.dims \in Seq(Nat)
    BY <1>4 DEF Cells, Structs
  <2> QED BY <1>5, <2>1, ElementsType
<1>7. CASE v \in Cells(S)
  <2>1. v.elems \in Seq(S) /\ Len(v.elems) = e
    BY <1>5, <1>7 DEF Cells
  <2>2. i \in DOMAIN v.elems
    BY <1>0, <1>5, <1>6, <2>1
  <2> QED BY <1>0, <2>2
<1>8. CASE v \in Structs(S)
  <2>1. /\ v.t = "struct" /\ v.names \in Seq(Seq(Nat \ {0}))
        /\ v.elems \in Seq(S) /\ Len(v.elems) = e * Len(v.names)
    BY <1>5, <1>8 DEF Structs
  <2>2. PICK n : n = Len(v.names)
    OBVIOUS
  <2>3. n \in Nat
    BY <2>1, <2>2
  <2>4. i \in Nat /\ 2 <= i /\ i <= e /\ ~ (i <= e * n)
    BY <1>0, <1>5, <1>6, <2>1, <2>2
  <2>5. n = 0
    <3> SUFFICES ASSUME n # 0 PROVE FALSE
      OBVIOUS
    <3>1. PICK m : m = n - 1
      OBVIOUS
    <3>2. m \in Nat /\ n = m + 1
      BY <2>3, <3>1
    <3>3. (m + 1) * e = m * e + e /\ m * e \in Nat
      BY <1>6, <3>2, Times
    <3>4. e * n = (m + 1) * e
      BY <1>6, <3>2
    <3> QED BY <1>6, <2>4, <3>3, <3>4
  <2>6. v.names = << >>
    <3>1. PICK W, names : W = Seq(Nat \ {0}) /\ names = v.names
      OBVIOUS
    <3>2. names \in Seq(W) /\ Len(names) = 0
      BY <2>1, <2>2, <2>5, <3>1
    <3>3. names = << >>
      BY <3>2
    <3> QED BY <3>1, <3>3
  <2> QED BY <1>5, <1>6, <2>1, <2>4, <2>6
<1> QED BY <1>4, <1>7, <1>8

\* What is not the program's is freed only with such an array in the value.
LEMMA FreesFieldless == \A d \in 0 .. Depth : FreesBehind[d] \subseteq Fieldless[d]
<1> DEFINE T == {d \in Nat : d <= Depth => FreesBehind[d] \subseteq Fieldless[d]}
<1>0. Depth \in Nat
  BY BlobAssumption
<1>1. ASSUME NEW d \in 0 .. Depth, NEW v \in FreesBehind[d],
             d # 0 => FreesBehind[d - 1] \subseteq Fieldless[d - 1]
      PROVE  v \in Fieldless[d]
  <2>1. v \in FreesOf(FreesBehind[d - 1], d) /\ v \in Values[d]
    BY FreesBehindDef DEF FreesOf
  <2>2. Fieldless[d] = FieldlessOf(Fieldless[d - 1], d)
    BY FieldlessDef
  <2>3. CASE FreesOwn(v)
    BY <2>1, <2>2, <2>3, FreesOwnFieldless DEF FieldlessOf
  <2>4. CASE \E k \in DOMAIN ElementsOf(v) : Present(ElementsOf(v)[k]) \in FreesBehind[d - 1]
    <3>1. PICK k \in DOMAIN ElementsOf(v) : Present(ElementsOf(v)[k]) \in FreesBehind[d - 1]
      BY <2>4
    <3>2. d # 0
      <4>1. d = 0 => v \in Leaves
        BY <2>1, ValuesDef
      <4>2. d = 0 => ElementsOf(v) = << >>
        BY <4>1, LeafElements
      <4> QED BY <3>1, <4>2
    <3> QED BY <1>1, <2>1, <2>2, <3>1, <3>2 DEF FieldlessOf
  <2> QED BY <2>1, <2>3, <2>4 DEF FreesOf
<1>2. 0 \in T
  <2>1. 0 \in 0 .. Depth
    BY <1>0
  <2> QED BY <1>1, <2>1
<1>3. ASSUME NEW d \in Nat, d \in T PROVE d + 1 \in T
  <2> SUFFICES ASSUME d + 1 <= Depth PROVE FreesBehind[d + 1] \subseteq Fieldless[d + 1]
    OBVIOUS
  <2>1. d + 1 \in 0 .. Depth /\ (d + 1) - 1 = d /\ d <= Depth
    BY <1>0
  <2> QED BY <1>1, <1>3, <2>1
<1>4. Nat \subseteq T
  <2> HIDE DEF T
  <2> QED BY <1>2, <1>3, Induction
<1> QED BY <1>0, <1>4

-----------------------------------------------------------------------------
(* What a value is stored as and what comes back *)

\* A sparse matrix that is taken for an array is a value, and no other value changes.
LEMMA AsArrayIsValue ==
    ASSUME NEW v \in Values[Depth]
    PROVE  AsArray(v) \in Values[Depth] /\ (v.t # "sparse" => AsArray(v) = v)
<1>0. Depth \in 0 .. Depth
  BY BlobAssumption
<1>1. CASE v.t # "sparse"
  BY <1>1 DEF AsArray
<1>2. CASE v.t = "sparse"
  <2>1. v \in Sparses
    <3>1. v \in Leaves
      <4>1. v \notin Containers(Values[Depth - 1])
        BY <1>2, ContainerFields
      <4> QED BY <1>0, <4>1, ValueCases
    <3>2. v \notin Arrays /\ v # Object
      BY <1>2, ArrayFields DEF Object
    <3> QED BY <3>1, <3>2, LeafCases
  <2>2. PICK e, c, n : e = Elements(v.dims) /\ c = 1 + v.cplx /\ n = e * c
    OBVIOUS
  <2>3. n \in Nat
    <3>1. e \in Nat
      BY <2>1, <2>2, SparseFields, ElementsType
    <3>2. v.cplx \in Nat
      BY <2>1, SparseFields
    <3>3. c \in Nat
      BY <2>2, <3>2
    <3> QED BY <2>2, <3>1, <3>3, Times
  <2>4. PICK data : data = [k \in 1 .. n |->
                              IF k <= Len(v.data) THEN v.data[k] ELSE Unknown]
    OBVIOUS
  <2>5. data \in Seq(Nat) /\ Len(data) = n
    <3>1. v.data \in Seq(Nat)
      BY <2>1, SparseFields
    <3>2. \A k \in 1 .. n : data[k] \in Nat
      BY <2>3, <2>4, <3>1 DEF Unknown
    <3> QED BY <2>3, <2>4, <3>2
  <2>6. AsArray(v) = Array(v.dims, v.class, v.cplx, data)
    BY <1>2, <2>2, <2>4 DEF AsArray
  <2>7. AsArray(v) \in Arrays
    <3>1. /\ v.dims \in Seq(Nat) /\ v.class \in Nat /\ v.cplx \in {0, 1}
          /\ Len(data) = Elements(v.dims) * (1 + v.cplx)
      BY <2>1, <2>2, <2>5, SparseFields
    <3> QED BY <2>5, <2>6, <3>1 DEF Arrays, Array
  <2> QED BY <1>0, <1>2, <2>7, LeafIsValue DEF Leaves
<1> QED BY <1>1, <1>2

\* The bytes have the word mYm and then the value.
LEMMA SerializeFields ==
    ASSUME NEW v \in Values[Depth], NEW x, x = Serialized[Depth][AsArray(v)]
    PROVE  /\ x = Error => serialize(v) = Error
           /\ x # Error => /\ serialize(v) \in Coded
                           /\ Get(serialize(v).bytes, 1) = mYm
                           /\ Get(serialize(v).bytes, 2) = 0
                           /\ Holds(serialize(v).bytes, 3, x.bytes)
<1>1. CASE x = Error
  BY <1>1 DEF serialize
<1>2. CASE x # Error
  <2>1. x \in Coded
    <3>1. Depth \in 0 .. Depth
      BY BlobAssumption
    <3> QED BY <1>2, <3>1, AsArrayIsValue, SerializedCoded
  <2>2. x.bytes \in Seq(Nat) /\ x.size = Len(x.bytes)
    BY <2>1, CodedFields
  <2>3. PICK s, t, u : s = <<mYm, 0>> /\ t = x.bytes /\ u = s \o t
    OBVIOUS
  <2>4. s \in Seq(Nat) /\ Len(s) = 2 /\ s[1] = mYm /\ s[2] = 0
    BY <2>3 DEF mYm
  <2>5. t \in Seq(Nat) /\ Len(t) \in Nat
    BY <2>2, <2>3
  <2>6. u \in Seq(Nat) /\ Len(u) = 2 + Len(t)
    <3>1. u \in Seq(Nat) /\ Len(u) = Len(s) + Len(t)
      BY <2>3, <2>4, <2>5, Concat2
    <3> QED BY <2>4, <3>1
  <2>7. serialize(v) = [bytes |-> u, size |-> Len(u)]
    BY <1>2, <2>2, <2>3, <2>6 DEF serialize
  <2>8. serialize(v) \in Coded
    BY <2>6, <2>7 DEF Coded
  <2>9. Holds(u, 1, s) /\ Holds(u, 3, t)
    <3>1. Holds(u, 1, u)
      BY <2>6 DEF Holds
    <3>2. Holds(u, 1, s \o t)
      BY <2>3, <3>1
    <3>3. PICK p : p = 1
      OBVIOUS
    <3>4. p \in Nat /\ p >= 1 /\ s \in Seq(Nat) /\ t \in Seq(Nat) /\ u \in Seq(Nat)
      BY <2>4, <2>5, <2>6, <3>3
    <3>5. Holds(u, p, s \o t)
      BY <3>2, <3>3
    <3>6. Holds(u, p, s) /\ Holds(u, p + Len(s), t)
      BY <3>4, <3>5, HoldsConcat
    <3>7. p + Len(s) = 3
      BY <2>4, <3>3
    <3> QED BY <3>3, <3>6, <3>7
  <2>10. Get(u, 1) = mYm /\ Get(u, 2) = 0
    <3>1. 1 \in DOMAIN u /\ 2 \in DOMAIN u
      BY <2>5, <2>6
    <3>2. u[1] = s[1] /\ u[2] = s[2]
      BY <2>3, <2>4, <2>5
    <3> QED BY <2>4, <3>1, <3>2 DEF Get
  <2> QED BY <1>2, <2>3, <2>7, <2>8, <2>9, <2>10
<1> QED BY <1>1, <1>2

\* A value comes back as its canonical form, or it is refused.
LEMMA Round ==
    ASSUME Width = Step, NEW v \in Values[Depth], v.t # "sparse"
    PROVE  /\ serialize(v) = Error => Canonical[Depth][v] = Error
           /\ serialize(v) # Error =>
                  deserialize(serialize(v).bytes) = Canonical[Depth][v]
<1>1. Depth \in 0 .. Depth
  BY BlobAssumption
<1>2. PICK x : x = Serialized[Depth][v]
  OBVIOUS
<1>3. x = Serialized[Depth][AsArray(v)]
  BY <1>2, AsArrayIsValue
<1>4. Back(Depth, v)
  BY <1>1, ValueBack
<1>5. CASE x = Error
  <2>1. serialize(v) = Error
    BY <1>3, <1>5, SerializeFields
  <2>2. Canonical[Depth][v] = Error
    BY <1>2, <1>4, <1>5 DEF Back
  <2> QED BY <2>1, <2>2
<1>6. CASE x # Error
  <2>1. PICK b : b = serialize(v).bytes
    OBVIOUS
  <2>2. /\ serialize(v) \in Coded
        /\ Get(b, 1) = mYm /\ Get(b, 2) = 0 /\ Holds(b, 3, x.bytes)
    BY <1>3, <1>6, <2>1, SerializeFields
  <2>3. b \in Seq(Nat) /\ serialize(v) # Error
    BY <2>1, <2>2, CodedFields
  <2>4. Deserialized(b)[Depth][3] = Canonical[Depth][v] /\ Canonical[Depth][v] # Error
    BY <1>2, <1>4, <1>6, <2>2, <2>3 DEF Back
  <2>5. deserialize(b) = Canonical[Depth][v]
    <3>1. mYm # dj0 /\ mYm # ZL123
      BY DEF mYm, dj0, ZL123
    <3>2. Unzipped(b) = b
      BY <2>2, <3>1 DEF Unzipped, Compressed, Begins
    <3> QED BY <2>2, <2>4, <3>1, <3>2 DEF deserialize, Begins
  <2> QED BY <2>1, <2>3, <2>5
<1> QED BY <1>5, <1>6

\* What a file is measured as: its length as an int.
LEMMA FileLength ==
    ASSUME NEW bytes \in Seq(Nat)
    PROVE  /\ file_length(bytes) \in Int
           /\ file_length(bytes) < IntLimit
           /\ Len(bytes) < IntLimit => file_length(bytes) = Len(bytes)
<1>1. PICK m : m = 2 * IntLimit
  OBVIOUS
<1>2. PICK n : n = Len(bytes) % m
  OBVIOUS
<1>3. IntLimit \in Nat /\ IntLimit > 0 /\ m \in Nat /\ m > 0
  BY <1>1, BlobAssumption
<1>4. PICK l : l = Len(bytes)
  OBVIOUS
<1>5. l \in Nat
  BY <1>4
<1>6. n \in 0 .. m - 1
  BY <1>2, <1>3, <1>4, <1>5
<1>7. file_length(bytes) = IF n < IntLimit THEN n ELSE n - m
  BY <1>1, <1>2 DEF file_length
<1>8. l < m => n = l
  BY <1>2, <1>3, <1>4, <1>5
<1>9. file_length(bytes) \in Int /\ file_length(bytes) < IntLimit
  BY <1>1, <1>3, <1>6, <1>7
<1>10. l < IntLimit => file_length(bytes) = l
  BY <1>1, <1>3, <1>5, <1>7, <1>8
<1> QED BY <1>4, <1>9, <1>10

\* fread fills the buffer as far as the file goes, and the rest stays zero.
LEMMA ReadIntoType ==
    ASSUME NEW bytes \in Seq(Nat), NEW n \in Nat
    PROVE  /\ ReadInto(bytes, n) \in Seq(Nat) /\ Len(ReadInto(bytes, n)) = n
           /\ \A k \in 1 .. n : ReadInto(bytes, n)[k] = IF k <= Len(bytes) THEN bytes[k] ELSE 0
<1>1. PICK s : s = ReadInto(bytes, n)
  OBVIOUS
<1>2. s = [k \in 1 .. n |-> IF k <= Len(bytes) THEN bytes[k] ELSE 0]
  BY <1>1 DEF ReadInto
<1>3. \A k \in 1 .. n : s[k] \in Nat
  BY <1>2
<1>4. s \in Seq(Nat) /\ Len(s) = n
  BY <1>2, <1>3
<1> QED BY <1>1, <1>2, <1>4

\* What a buffer of the right length is filled with is in it as it was.
LEMMA ReadIntoWhole ==
    ASSUME NEW bytes \in Seq(Nat) PROVE ReadInto(bytes, Len(bytes)) = bytes
<1>1. PICK n, s : n = Len(bytes) /\ s = ReadInto(bytes, n)
  OBVIOUS
<1>2. n \in Nat
  BY <1>1
<1>3. /\ s \in Seq(Nat) /\ Len(s) = n
      /\ \A k \in 1 .. n : s[k] = IF k <= n THEN bytes[k] ELSE 0
  <2>1. /\ ReadInto(bytes, n) \in Seq(Nat) /\ Len(ReadInto(bytes, n)) = n
        /\ \A k \in 1 .. n :
               ReadInto(bytes, n)[k] = IF k <= Len(bytes) THEN bytes[k] ELSE 0
    BY <1>2, ReadIntoType
  <2> QED BY <1>1, <2>1
<1>4. s = [k \in 1 .. n |-> s[k]] /\ bytes = [k \in 1 .. n |-> bytes[k]]
  BY <1>1, <1>2, <1>3
<1>5. \A k \in 1 .. n : s[k] = bytes[k]
  BY <1>2, <1>3
<1>6. s = bytes
  BY <1>4, <1>5
<1> QED BY <1>1, <1>6

\* Where what is put together is found again.
LEMMA Concat2At ==
    ASSUME NEW s \in Seq(Nat), NEW t \in Seq(Nat)
    PROVE  /\ \A i \in 1 .. Len(s) : (s \o t)[i] = s[i]
           /\ \A i \in 1 .. Len(t) : (s \o t)[Len(s) + i] = t[i]
OBVIOUS

\* What compressed bytes look like: the word, their length, and what zlib makes
\* of them.
LEMMA ZippedFields ==
    ASSUME Width = Step, NEW bytes \in Seq(Nat), NEW b, b = Zipped(bytes)
    PROVE  /\ Begins(b, ZL123) /\ Len(b) = 3 + Step + Len(bytes)
           /\ Get(b, 3) = Len(bytes) /\ Get(b, 3 + Step) = Stream
           /\ SubSeq(b, 4 + Step, Len(b)) = bytes
<1>1. PICK w, n, s1, s2, s3 :
         /\ w = Step /\ n = Len(bytes)
         /\ s1 = <<ZL123, 0>> /\ s2 = Uint(n) /\ s3 = <<Stream>>
  OBVIOUS
<1>2. w \in Nat /\ w >= 1 /\ n \in Nat
  BY <1>1, WidthType
<1>3. s1 \in Seq(Nat) /\ Len(s1) = 2 /\ s1[1] = ZL123 /\ s1[2] = 0
  BY <1>1 DEF ZL123
<1>4. s2 \in Seq(Nat) /\ Len(s2) = w /\ s2[1] = n
  BY <1>1, <1>2, UintType
<1>5. s3 \in Seq(Nat) /\ Len(s3) = 1 /\ s3[1] = Stream
  BY <1>1 DEF Stream
<1>6. b = ((s1 \o s2) \o s3) \o bytes
  BY <1>1 DEF Zipped
<1>7. PICK u2, u3 : u2 = s1 \o s2 /\ u3 = u2 \o s3
  OBVIOUS
<1>8. /\ u2 \in Seq(Nat) /\ Len(u2) = 2 + w
      /\ u2[1] = ZL123 /\ u2[2] = 0 /\ u2[3] = n
  <2>1. u2 \in Seq(Nat) /\ Len(u2) = Len(s1) + Len(s2)
    BY <1>3, <1>4, <1>7, Concat2
  <2>2. /\ \A i \in 1 .. Len(s1) : u2[i] = s1[i]
        /\ \A i \in 1 .. Len(s2) : u2[Len(s1) + i] = s2[i]
    BY <1>3, <1>4, <1>7, Concat2At
  <2>3. u2[1] = s1[1] /\ u2[2] = s1[2] /\ u2[2 + 1] = s2[1]
    BY <1>2, <1>3, <1>4, <2>2
  <2> QED BY <1>3, <1>4, <2>1, <2>3
<1>9. /\ u3 \in Seq(Nat) /\ Len(u3) = 3 + w
      /\ u3[1] = ZL123 /\ u3[2] = 0 /\ u3[3] = n /\ u3[3 + w] = Stream
  <2>1. u3 \in Seq(Nat) /\ Len(u3) = Len(u2) + Len(s3)
    BY <1>5, <1>7, <1>8, Concat2
  <2>2. u3[1] = u2[1] /\ u3[2] = u2[2] /\ u3[3] = u2[3]
    BY <1>2, <1>5, <1>7, <1>8
  <2>3. u3[3 + w] = s3[1]
    <3>1. \A i \in 1 .. Len(s3) : u3[Len(u2) + i] = s3[i]
      BY <1>5, <1>7, <1>8, Concat2At
    <3>2. u3[(2 + w) + 1] = s3[1]
      BY <1>5, <1>8, <3>1
    <3>3. (2 + w) + 1 = 3 + w
      BY <1>2
    <3> QED BY <3>2, <3>3
  <2> QED BY <1>2, <1>5, <1>8, <2>1, <2>2, <2>3
<1>10. b \in Seq(Nat) /\ Len(b) = 3 + w + n
  <2>1. b = u3 \o bytes
    BY <1>6, <1>7
  <2>2. b \in Seq(Nat) /\ Len(b) = Len(u3) + Len(bytes)
    BY <1>9, <2>1, Concat2
  <2> QED BY <1>1, <1>9, <2>2
<1>11. \A k \in 1 .. 3 + w : b[k] = u3[k]
  BY <1>2, <1>6, <1>7, <1>9
<1>12. /\ b[1] = ZL123 /\ b[2] = 0 /\ b[3] = n /\ b[3 + w] = Stream
       /\ {1, 2, 3, 3 + w} \subseteq DOMAIN b
  BY <1>2, <1>9, <1>10, <1>11
<1>13. SubSeq(b, 4 + w, Len(b)) = bytes
  <2>1. PICK t : t = SubSeq(b, 4 + w, 3 + w + n)
    OBVIOUS
  <2>2. t = [k \in 1 .. n |-> b[k + (3 + w)]]
    BY <1>2, <1>10, <2>1
  <2>3. ASSUME NEW k \in 1 .. n PROVE b[k + (3 + w)] = bytes[k]
    <3>1. b = u3 \o bytes
      BY <1>6, <1>7
    <3>2. \A i \in 1 .. Len(bytes) : b[Len(u3) + i] = bytes[i]
      <4>1. \A i \in 1 .. Len(bytes) : (u3 \o bytes)[Len(u3) + i] = bytes[i]
        BY <1>9, Concat2At
      <4> QED BY <3>1, <4>1
    <3>3. b[(3 + w) + k] = bytes[k]
      BY <1>1, <1>9, <3>2
    <3>4. (3 + w) + k = k + (3 + w)
      BY <1>2
    <3> QED BY <3>3, <3>4
  <2>4. bytes = [k \in 1 .. n |-> bytes[k]]
    BY <1>1
  <2>5. t = bytes
    BY <2>2, <2>3, <2>4
  <2> QED BY <1>10, <2>1, <2>5
<1>14. Get(b, 1) = ZL123 /\ Get(b, 2) = 0 /\ Get(b, 3) = n /\ Get(b, 3 + w) = Stream
  BY <1>12 DEF Get
<1> QED BY <1>1, <1>10, <1>13, <1>14 DEF Begins

\* Compressed or not, bytes are what they were when they are not compressed any
\* more.
LEMMA UnzippedZipped ==
    ASSUME Width = Step, NEW bytes \in Seq(Nat), ~ Compressed(bytes),
           NEW b \in {bytes, Zipped(bytes)}
    PROVE  Unzipped(b) = bytes
<1>1. CASE b = bytes
  BY <1>1 DEF Unzipped
<1>2. CASE b = Zipped(bytes)
  <2>1. PICK w, n : w = Step /\ n = Len(bytes)
    OBVIOUS
  <2>2. w \in Nat /\ n \in Nat
    BY <2>1, WidthType
  <2>3. /\ Begins(b, ZL123) /\ Len(b) = 3 + w + n
        /\ Get(b, 3) = n /\ Get(b, 3 + w) = Stream
        /\ SubSeq(b, 4 + w, Len(b)) = bytes
    BY <1>2, <2>1, ZippedFields
  <2>4. Len(b) - (3 + w) <= Get(b, 3)
    BY <2>2, <2>3
  <2>5. Compressed(b)
    BY <2>1, <2>3, <2>4 DEF Compressed
  <2>6. Unzipped(b) = ReadInto(bytes, n)
    BY <2>1, <2>3, <2>5 DEF Unzipped
  <2> QED BY <2>1, <2>6, ReadIntoWhole
<1> QED BY <1>1, <1>2

\* What deserialize makes of them does not depend on it.
LEMMA DeserializeZipped ==
    ASSUME Width = Step, NEW bytes \in Seq(Nat), ~ Compressed(bytes),
           NEW b \in {bytes, Zipped(bytes)}
    PROVE  deserialize(b) = deserialize(bytes)
<1>1. Unzipped(b) = bytes /\ Unzipped(bytes) = bytes
  BY UnzippedZipped
<1> QED BY <1>1 DEF deserialize

\* A reader that is told how wide numbers were written.
LEMMA Told == ASSUME use32 = OldBlobs PROVE Width = Step
BY BlobAssumption DEF Width, Step, Uint

-----------------------------------------------------------------------------
(* The way of a value *)

\* What is known of the length of a file before it is read.
Measured == arg # NoFile /\ rnBytes = file_length(arg) /\ rnBytes >= 0

\* What is stored, in as many bytes as are allocated for it, compressed or not.
Written ==
    /\ blob \in {stored, Zipped(stored)}
    /\ \/ /\ mode = "M" /\ serialize(arg) # Error
          /\ stored = serialize(arg).bytes /\ rnBytes = serialize(arg).size
       \/ mode = "B" /\ stored = arg /\ rnBytes = Len(arg)
       \/ mode = "F" /\ Measured /\ stored = ReadInto(file, rnBytes)

\* What asks for more memory than it had.
Asks ==
    /\ Begins(blob, ZL123)
    /\ Len(blob) < 2 + Step \/ Get(blob, 3) > Len(stored)

\* What cannot be stored.
Refused ==
    \/ mode = "M" /\ serialize(arg) = Error
    \/ mode = "F" /\ (arg = NoFile \/ file_length(arg) < 0)

Input ==
    /\ mode \in {"M", "B", "F"}
    /\ mode = "M" => arg \in Matrices
    /\ mode = "B" => arg \in Vectors
    /\ mode = "F" => arg \in Files \cup {NoFile} /\ (arg # NoFile => file \in Files)

\* The inductive invariant: what is stored and what has come back are functions
\* of the argument and of the file, and memory is spoilt only by some values.
BlobInv ==
    /\ pc \in {"put", "read", "get", "end", "spoilt"}
    /\ Input
    /\ pc = "read" => mode = "F" /\ Measured
    /\ pc = "get" => Written
    /\ pc = "spoilt" => mode = "M" /\ arg \in FreesBehind[Depth]
    /\ pc = "end" => \/ Refused /\ got = Error
                     \/ Written /\ Asks /\ got = Error
                     \/ Written /\ got = deserialize(blob)

\* It holds before anything is stored,
LEMMA InitInv == Init => BlobInv
BY DEF Init, BlobInv, Input

\* when a value or a file is refused,
LEMMA RefuseInv ==
    ASSUME BlobInv, Refuse, Refused PROVE BlobInv'
BY DEF BlobInv, Refuse, Refused, Input, input

\* when bytes are stored,
LEMMA StoredInv ==
    ASSUME BlobInv, NEW bytes, NEW size, Stored(bytes, size),
           \/ /\ mode = "M" /\ serialize(arg) # Error
              /\ bytes = serialize(arg).bytes /\ size = serialize(arg).size
           \/ mode = "B" /\ bytes = arg /\ size = Len(arg)
           \/ /\ mode = "F" /\ Measured /\ size = rnBytes
              /\ bytes = ReadInto(file, rnBytes)
    PROVE  BlobInv'
<1>1. /\ pc' = "get" /\ stored' = bytes /\ rnBytes' = size
      /\ blob' \in {bytes, Zipped(bytes)}
      /\ mode' = mode /\ arg' = arg /\ file' = file
  BY DEF Stored, input
<1>2. Written'
  BY <1>1 DEF Written, Measured
<1>3. Input'
  BY <1>1 DEF BlobInv, Input
<1> QED BY <1>1, <1>2, <1>3 DEF BlobInv

\* and after every step.
LEMMA NextInv == BlobInv /\ [Next]_vars => BlobInv'
<1> SUFFICES ASSUME BlobInv, [Next]_vars PROVE BlobInv'
  OBVIOUS
<1>1. CASE Put
  <2>1. CASE mode = "B" /\ Stored(arg, Len(arg))
    BY <2>1, StoredInv
  <2>2. CASE mode = "M" /\ serialize(arg) = Error /\ Refuse
    BY <2>2, RefuseInv DEF Refused
  <2>3. CASE /\ mode = "M" /\ serialize(arg) # Error
             /\ Stored(serialize(arg).bytes, serialize(arg).size)
    BY <2>3, StoredInv
  <2> QED BY <1>1, <2>1, <2>2, <2>3 DEF Put
<1>2. CASE Measure
  <2>1. CASE (arg = NoFile \/ file_length(arg) < 0) /\ Refuse
    BY <1>2, <2>1, RefuseInv DEF Measure, Refused
  <2>2. CASE ~ (arg = NoFile \/ file_length(arg) < 0)
    <3>1. /\ pc' = "read" /\ rnBytes' = file_length(arg) /\ mode = "F"
          /\ mode' = mode /\ arg' = arg /\ file' = file
      BY <1>2, <2>2 DEF Measure, input
    <3>2. file_length(arg) >= 0
      <4>1. arg \in Seq(Nat)
        BY <2>2, <3>1, BlobAssumption DEF BlobInv, Input
      <4>2. file_length(arg) \in Int
        BY <4>1, FileLength
      <4> QED BY <2>2, <4>2
    <3>3. Measured'
      BY <2>2, <3>1, <3>2 DEF Measured
    <3>4. Input'
      BY <3>1 DEF BlobInv, Input
    <3> QED BY <3>1, <3>3, <3>4 DEF BlobInv
  <2> QED BY <1>2, <2>1, <2>2 DEF Measure
<1>3. CASE ReadFile
  <2>1. Stored(ReadInto(file, rnBytes), rnBytes) /\ mode = "F" /\ Measured
    BY <1>3 DEF ReadFile, BlobInv
  <2> QED BY <2>1, StoredInv
<1>4. CASE Overwrite
  BY <1>4 DEF Overwrite, BlobInv, Input, Measured, input
<1>5. CASE GetBack \/ NoMemory
  <2>1. /\ pc' = "end" /\ mode' = mode /\ arg' = arg /\ file' = file
        /\ rnBytes' = rnBytes /\ stored' = stored /\ blob' = blob
    BY <1>5 DEF GetBack, NoMemory, input
  <2>2. Written
    BY <1>5 DEF GetBack, NoMemory, BlobInv
  <2>3. Written'
    BY <2>1, <2>2 DEF Written, Measured
  <2>4. (got = deserialize(blob))' \/ (Asks /\ got = Error)'
    <3>1. CASE GetBack
      BY <2>1, <3>1 DEF GetBack
    <3>2. CASE NoMemory
      BY <2>1, <3>2 DEF NoMemory, Asks
    <3> QED BY <1>5, <3>1, <3>2
  <2>5. Input'
    BY <2>1 DEF BlobInv, Input
  <2> QED BY <2>1, <2>3, <2>4, <2>5 DEF BlobInv
<1>6. CASE FreeBehind
  <2>1. /\ pc' = "spoilt" /\ mode = "M" /\ arg \in FreesBehind[Depth]
        /\ mode' = mode /\ arg' = arg /\ file' = file
    BY <1>6 DEF FreeBehind, input
  <2>2. Input'
    BY <2>1 DEF BlobInv, Input
  <2> QED BY <2>1, <2>2 DEF BlobInv
<1>7. CASE Finished \/ UNCHANGED vars
  BY <1>7 DEF Finished, vars, input, BlobInv, Input, Measured, Written, Asks, Refused
<1> QED BY <1>1, <1>2, <1>3, <1>4, <1>5, <1>6, <1>7 DEF Next

\* What is stored and what has come back are always what the argument and the
\* file say: serialize, fread, compress and deserialize are called in this
\* order, and nothing else writes to their buffers (mym.cpp:1208-2083).
THEOREM Invariance == Spec => []BlobInv
<1>1. Init => BlobInv
  BY InitInv
<1>2. BlobInv /\ [Next]_vars => BlobInv'
  BY NextInv
<1> QED BY <1>1, <1>2, PTL DEF Spec

\* What has been compressed asks for the memory that it had.
LEMMA NotAsked ==
    ASSUME Width = Step, stored \in Seq(Nat), blob = Zipped(stored)
    PROVE  ~ Asks
<1>1. PICK w, n, l : w = Step /\ n = Len(stored) /\ l = Len(blob)
  OBVIOUS
<1>2. w \in Nat /\ n \in Nat
  BY <1>1, WidthType
<1>3. l = 3 + w + n /\ Get(blob, 3) = n
  BY <1>1, ZippedFields
<1>4. ~ (l < 2 + w) /\ ~ (n > n)
  BY <1>2, <1>3
<1> QED BY <1>1, <1>3, <1>4 DEF Asks

\* What is stored of a value is not asked for more memory than it had, and comes
\* back as deserialize reads it, compressed or not.
LEMMA ValueStored ==
    ASSUME Width = Step, BlobInv, pc = "end", mode = "M"
    PROVE  \/ serialize(arg) = Error /\ got = Error
           \/ serialize(arg) # Error /\ got = deserialize(serialize(arg).bytes)
<1>1. CASE Refused /\ got = Error
  BY <1>1 DEF Refused
<1>2. CASE Written
  <2>1. arg \in Values[Depth]
    BY BlobAssumption DEF BlobInv, Input
  <2>2. serialize(arg) # Error /\ stored = serialize(arg).bytes
    BY <1>2 DEF Written
  <2>3. /\ serialize(arg) \in Coded /\ Get(stored, 1) = mYm
    BY <2>1, <2>2, SerializeFields
  <2>4. stored \in Seq(Nat)
    BY <2>2, <2>3, CodedFields
  <2>5. ~ Begins(stored, ZL123)
    BY <2>3 DEF Begins, mYm, ZL123
  <2>6. ~ Compressed(stored)
    BY <2>5 DEF Compressed
  <2>7. blob \in {stored, Zipped(stored)}
    BY <1>2 DEF Written
  <2>8. deserialize(blob) = deserialize(stored)
    BY <2>4, <2>6, <2>7, DeserializeZipped
  <2>9. ~ Asks
    <3>1. CASE blob = stored
      BY <2>5, <3>1 DEF Asks
    <3>2. CASE blob = Zipped(stored)
      BY <2>4, <3>2, NotAsked
    <3> QED BY <2>7, <3>1, <3>2
  <2>10. got = deserialize(blob)
    BY <2>2, <2>9 DEF BlobInv, Refused
  <2> QED BY <2>2, <2>8, <2>10
<1> QED BY <1>1, <1>2 DEF BlobInv

\* Whatever a value is made of and however it is nested, what getSerialFct's
\* functions write of it is what deserialize makes of it again, compressed or
\* not, if MYM_USE_32BIT_DIMS says how wide its numbers were written; only what
\* has an unsupported part is refused, and only with an array of structures
\* without fields is memory freed that is not the program's (mym.cpp:1208-1922).
THEOREM RoundTrips == ASSUME use32 = OldBlobs PROVE Spec => []RoundTrip
<1>1. Width = Step
  BY Told
<1>2. BlobInv => RoundTrip
  <2> SUFFICES ASSUME BlobInv, mode = "M"
               PROVE  /\ pc = "end" /\ arg.t # "sparse" => got = Canonical[Depth][arg]
                      /\ pc = "spoilt" => arg \in Fieldless[Depth]
    BY DEF RoundTrip
  <2>1. ASSUME pc = "end", arg.t # "sparse" PROVE got = Canonical[Depth][arg]
    <3>1. arg \in Values[Depth]
      BY BlobAssumption DEF BlobInv, Input
    <3>2. \/ serialize(arg) = Error /\ got = Error
          \/ serialize(arg) # Error /\ got = deserialize(serialize(arg).bytes)
      BY <1>1, <2>1, ValueStored
    <3> QED BY <1>1, <2>1, <3>1, <3>2, Round
  <2>2. ASSUME pc = "spoilt" PROVE arg \in Fieldless[Depth]
    <3>1. Depth \in 0 .. Depth
      BY BlobAssumption
    <3>2. arg \in FreesBehind[Depth]
      BY <2>2 DEF BlobInv
    <3> QED BY <3>1, <3>2, FreesFieldless
  <2> QED BY <2>1, <2>2
<1> QED BY <1>2, Invariance, PTL

\* The memory that serializeArray, serializeSparse, serializeCell and
\* serializeStruct allocate before they write is what they write, for values of
\* every size (mym.cpp:1353, 1437, 1520, 1616).
THEOREM AllocatesExactly == Spec => []ExactlyAllocated
<1>1. BlobInv => ExactlyAllocated
  <2> SUFFICES ASSUME BlobInv, pc = "get", mode = "M" PROVE Len(stored) = rnBytes
    BY DEF ExactlyAllocated
  <2>1. arg \in Values[Depth]
    BY BlobAssumption DEF BlobInv, Input
  <2>2. /\ serialize(arg) # Error
        /\ stored = serialize(arg).bytes /\ rnBytes = serialize(arg).size
    BY DEF BlobInv, Written
  <2>3. serialize(arg) \in Coded
    BY <2>1, <2>2, SerializeFields
  <2> QED BY <2>2, <2>3, CodedFields
<1> QED BY <1>1, Invariance, PTL

\* What is not Meant as anything else is a column of bytes again, compressed or
\* not.
LEMMA Dumped ==
    ASSUME Width = Step, NEW bytes \in Seq(Nat), ~ Meant(bytes),
           NEW b \in {bytes, Zipped(bytes)}
    PROVE  deserialize(b) = Dump(bytes, 1)
<1>1. ~ Compressed(bytes) /\ ~ Begins(bytes, mYm) /\ ~ Begins(bytes, dj0)
  BY DEF Meant
<1>2. Unzipped(b) = bytes
  BY <1>1, UnzippedZipped
<1> QED BY <1>1, <1>2 DEF deserialize

\* The column has the length and the bytes of what is dumped.
LEMMA DumpFields ==
    ASSUME NEW b \in Seq(Nat)
    PROVE  Dump(b, 1).dims = <<Len(b), 1>> /\ Dump(b, 1).data = b
<1>1. Dump(b, 1).dims = <<Len(b), 1>>
  BY DEF Dump, Array
<1>2. Dump(b, 1).data = [k \in 1 .. Len(b) |-> Get(b, 1 + k - 1)]
  BY DEF Dump, Array
<1>3. ASSUME NEW k \in 1 .. Len(b) PROVE Get(b, 1 + k - 1) = b[k]
  <2>1. 1 + k - 1 = k /\ k \in DOMAIN b
    OBVIOUS
  <2> QED BY <2>1 DEF Get
<1>4. b = [k \in 1 .. Len(b) |-> b[k]]
  OBVIOUS
<1> QED BY <1>1, <1>2, <1>3, <1>4

\* Every vector and every file come back as BytesSurvive says, another program
\* may write the file between file_length and fread or not, the file may be of
\* any length, and bytes may look compressed and be none
\* (mym.cpp:1708-1730, 1926-1934, 2022-2044, 2073-2079).
THEOREM BytesComeBack == ASSUME use32 = OldBlobs PROVE Spec => []BytesSurvive
<1>0. Width = Step
  BY Told
<1>1. BlobInv => BytesSurvive
  <2> DEFINE Excused == /\ got = Error /\ Begins(stored, ZL123)
                        /\ Len(stored) < 2 + Step \/ Get(stored, 3) > Len(stored)
  <2> SUFFICES ASSUME BlobInv, pc = "end", mode # "M", ~ Meant(stored), ~ Excused
               PROVE  CASE mode = "B" -> got = Dump(arg, 1)
                        [] mode = "F" /\ arg = NoFile -> got = Error
                        [] mode = "F" /\ arg # NoFile /\ Len(arg) < IntLimit ->
                               /\ got.dims = <<Len(arg), 1>>
                               /\ file = arg => got.data = arg
                               /\ \A k \in 1 .. Len(arg) :
                                      got.data[k] # 0 => k <= Len(file) /\ got.data[k] = file[k]
                        [] OTHER ->
                               \/ got = Error
                               \/ /\ Len(got.data) < Len(arg)
                                  /\ file = arg => IsPrefix(got.data, arg)
    BY DEF BytesSurvive
  <2>0. ASSUME Written PROVE stored \in Seq(Nat)
    <3>1. CASE mode = "B"
      BY <2>0, <3>1, BlobAssumption DEF Written, BlobInv, Input
    <3>2. CASE mode = "F"
      <4>1. stored = ReadInto(file, rnBytes) /\ Measured
        BY <2>0, <3>2 DEF Written
      <4>2. arg \in Seq(Nat) /\ file \in Seq(Nat)
        BY <3>2, <4>1, BlobAssumption DEF BlobInv, Input, Measured
      <4>3. rnBytes \in Nat
        BY <4>1, <4>2, FileLength DEF Measured
      <4> QED BY <4>1, <4>2, <4>3, ReadIntoType
    <3> QED BY <3>1, <3>2 DEF BlobInv, Input
  <2>1. ASSUME Written PROVE deserialize(blob) = Dump(stored, 1) /\ ~ (Asks /\ got = Error)
    <3>1. stored \in Seq(Nat) /\ blob \in {stored, Zipped(stored)}
      BY <2>0, <2>1 DEF Written
    <3>2. deserialize(blob) = Dump(stored, 1)
      BY <1>0, <3>1, Dumped
    <3>3. CASE blob = stored
      BY <3>2, <3>3 DEF Asks
    <3>4. CASE blob = Zipped(stored)
      BY <1>0, <3>1, <3>2, <3>4, NotAsked
    <3> QED BY <3>1, <3>3, <3>4
  <2> HIDE DEF Excused
  <2>2. (Refused /\ got = Error) \/ (Written /\ got = Dump(stored, 1))
    BY <2>1 DEF BlobInv
  <2>3. CASE mode = "B"
    <3>1. stored = arg /\ got = Dump(stored, 1)
      BY <2>2, <2>3 DEF Refused, Written
    <3> QED BY <2>3, <3>1
  <2>4. CASE mode = "F" /\ arg = NoFile
    BY <2>2, <2>4 DEF Written, Measured
  <2>5. CASE mode = "F" /\ arg # NoFile
    <3>1. arg \in Seq(Nat) /\ file \in Seq(Nat)
      BY <2>5, BlobAssumption DEF BlobInv, Input
    <3>2. PICK n : n = file_length(arg)
      OBVIOUS
    <3>3. /\ n \in Int /\ n < IntLimit
          /\ Len(arg) < IntLimit => n = Len(arg)
      BY <3>1, <3>2, FileLength
    <3>4. \/ n < 0 /\ got = Error
          \/ n >= 0 /\ stored = ReadInto(file, n) /\ got = Dump(stored, 1)
      BY <2>2, <2>5, <3>2 DEF Refused, Written, Measured
    <3>5. CASE n < 0
      <4>1. ~ (Len(arg) < IntLimit)
        <5>1. Len(arg) \in Nat
          BY <3>1
        <5> QED BY <3>3, <3>5, <5>1
      <4>2. got = Error
        BY <3>3, <3>4, <3>5
      <4> QED BY <2>5, <4>1, <4>2
    <3>6. CASE n >= 0
      <4>1. n \in Nat
        BY <3>3, <3>6
      <4>2. stored = ReadInto(file, n) /\ got = Dump(stored, 1)
        BY <3>3, <3>4, <3>6
      <4>3. /\ stored \in Seq(Nat) /\ Len(stored) = n
            /\ \A k \in 1 .. n : stored[k] = IF k <= Len(file) THEN file[k] ELSE 0
        BY <3>1, <4>1, <4>2, ReadIntoType
      <4>4. got.dims = <<n, 1>> /\ got.data = stored
        BY <4>2, <4>3, DumpFields
      <4>5. CASE Len(arg) < IntLimit
        <5>1. n = Len(arg)
          BY <3>3, <4>5
        <5>2. ASSUME file = arg PROVE got.data = arg
          <6>1. ASSUME NEW k \in 1 .. n PROVE stored[k] = arg[k]
            <7>1. k <= Len(file)
              BY <4>1, <5>1, <5>2
            <7> QED BY <4>3, <5>2, <7>1
          <6>2. stored = [k \in 1 .. n |-> stored[k]] /\ arg = [k \in 1 .. n |-> arg[k]]
            BY <3>1, <4>1, <4>3, <5>1
          <6>3. stored = arg
            BY <6>1, <6>2
          <6> QED BY <4>4, <6>3
        <5>3. ASSUME NEW k \in 1 .. n, got.data[k] # 0
              PROVE  k <= Len(file) /\ got.data[k] = file[k]
          BY <4>3, <4>4, <5>3
        <5>4. got.dims = <<Len(arg), 1>>
          BY <4>4, <5>1
        <5>5. \A k \in 1 .. Len(arg) :
                 got.data[k] # 0 => k <= Len(file) /\ got.data[k] = file[k]
          BY <5>1, <5>3
        <5> QED BY <2>5, <4>5, <5>2, <5>4, <5>5
      <4>6. CASE ~ (Len(arg) < IntLimit)
        <5>1. Len(arg) \in Nat /\ IntLimit \in Nat
          BY <3>1, BlobAssumption
        <5>2. n < Len(arg)
          BY <3>3, <4>1, <4>6, <5>1
        <5>3. Len(got.data) < Len(arg)
          BY <4>3, <4>4, <5>2
        <5>4. ASSUME file = arg PROVE IsPrefix(got.data, arg)
          <6>1. ASSUME NEW k \in 1 .. n PROVE stored[k] = arg[k]
            <7>1. k <= Len(file)
              BY <4>1, <5>1, <5>2, <5>4
            <7> QED BY <4>3, <5>4, <7>1
          <6>2. SubSeq(stored, 1, n) = SubSeq(arg, 1, n)
            BY <3>1, <4>1, <4>3, <5>2, <6>1
          <6> QED BY <4>3, <4>4, <5>1, <5>2, <6>2 DEF IsPrefix
        <5> QED BY <2>5, <4>6, <5>3, <5>4
      <4> QED BY <4>5, <4>6
    <3> QED BY <3>3, <3>5, <3>6
  <2>6. mode \in {"B", "F"}
    BY DEF BlobInv, Input
  <2> QED BY <2>3, <2>4, <2>5, <2>6
<1> QED BY <1>1, Invariance, PTL
=============================================================================
