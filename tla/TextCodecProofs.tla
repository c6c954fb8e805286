---------------------------- MODULE TextCodecProofs ----------------------------
(***************************************************************************)
(* The theorems about TextCodec, for strings of any length and numbers of  *)
(* any size: both loops stay in their buffers, strings of one byte per     *)
(* character come back as they were, and a number that is printed stands   *)
(* for the argument.                                                       *)
(*                                                                         *)
(* The bytes of a string are those of its first characters and of the next *)
(* one (Encoding), so that what char2hex finds at a character's first byte *)
(* is known (OneCharacter); it is between two characters after each round  *)
(* (Encoded).  What hex2char has written of characters of one byte is the  *)
(* encoding of as many characters (Decoded), and MATLAB reads it back by   *)
(* induction on the number of characters (CreateReadsEncoding).            *)
(***************************************************************************)
EXTENDS TextCodec, NatRecursion, TLAPS

(* UTF-8 *)

\* The bytes of a character: the first says how many there are, and only the
\* character 0 has a byte 0.
LEMMA UTF8Bytes ==
    ASSUME NEW c \in CodePoint
    PROVE  /\ UTF8(c) \in Seq(Nat)
           /\ Len(UTF8(c)) = IF c < 128 THEN 1 ELSE IF c < 2048 THEN 2
                             ELSE IF c < 65536 THEN 3 ELSE 4
           /\ c # 0 => \A i \in 1 .. Len(UTF8(c)) : UTF8(c)[i] # 0
<1>1. c \in Nat /\ c < 1114112
  BY DEF CodePoint
<1>2. CASE c < 128
  <2>1. UTF8(c) = <<c>>
    BY <1>2 DEF UTF8
  <2> QED BY <1>1, <1>2, <2>1
<1>3. CASE ~ (c < 128) /\ c < 2048
  <2>1. UTF8(c) = <<192 + c \div 64, 128 + (c % 64)>>
    BY <1>3 DEF UTF8
  <2>2. PICK u \in Nat, v \in Nat : u = 192 + c \div 64 /\ v = 128 + (c % 64) /\ u # 0 /\ v # 0
    BY <1>1
  <2>3. UTF8(c) = <<u, v>>
    BY <2>1, <2>2
  <2> QED BY <1>1, <1>3, <2>2, <2>3
<1>4. CASE ~ (c < 2048) /\ c < 65536
  <2>1. UTF8(c) = <<224 + c \div 4096, 128 + ((c \div 64) % 64), 128 + (c % 64)>>
    BY <1>1, <1>4 DEF UTF8
  <2>2. PICK u \in Nat, v \in Nat, w \in Nat :
           /\ u = 224 + c \div 4096 /\ v = 128 + ((c \div 64) % 64) /\ w = 128 + (c % 64)
           /\ u # 0 /\ v # 0 /\ w # 0
    BY <1>1
  <2>3. UTF8(c) = <<u, v, w>>
    BY <2>1, <2>2
  <2> QED BY <1>1, <1>4, <2>2, <2>3
<1>5. CASE ~ (c < 65536)
  <2>1. UTF8(c) = <<240 + c \div 262144, 128 + ((c \div 4096) % 64),
                    128 + ((c \div 64) % 64), 128 + (c % 64)>>
    BY <1>1, <1>5 DEF UTF8
  <2>2. PICK u \in Nat, v \in Nat, w \in Nat, x \in Nat :
           /\ u = 240 + c \div 262144 /\ v = 128 + ((c \div 4096) % 64)
           /\ w = 128 + ((c \div 64) % 64) /\ x = 128 + (c % 64)
           /\ u # 0 /\ v # 0 /\ w # 0 /\ x # 0
    BY <1>1
  <2>3. UTF8(c) = <<u, v, w, x>>
    BY <2>1, <2>2
  <2> QED BY <1>1, <1>5, <2>2, <2>3
<1> QED BY <1>1, <1>2, <1>3, <1>4, <1>5

\* The recursive definition of Encoding has a value, and it is what it says.
LEMMA EncodingValue ==
    ASSUME NEW s \in Seq(CodePoint)
    PROVE  /\ Encoding(s)[0] = << >>
           /\ \A k \in 1 .. Len(s) : Encoding(s)[k] = Encoding(s)[k - 1] \o UTF8(s[k])
           /\ \A k \in 0 .. Len(s) : Encoding(s)[k] \in Seq(Nat)
<1>a. PICK n : n = Len(s)
  OBVIOUS
<1>b. PICK B : B = Seq(Nat)
  OBVIOUS
<1>c. PICK F : F = [k \in 1 .. n |-> [q \in B |-> q \o UTF8(s[k])]]
  OBVIOUS
<1>1. n \in Nat /\ << >> \in B
  BY <1>a, <1>b, EmptySeq
<1>2. F \in Rounds(n, B)
  <2>1. ASSUME NEW k \in 1 .. n, NEW q \in B PROVE q \o UTF8(s[k]) \in B
    <3>1. UTF8(s[k]) \in Seq(Nat)
      BY <1>a, UTF8Bytes
    <3> QED BY <1>b, <3>1, ConcatProperties
  <2> QED BY <1>c, <2>1 DEF Rounds
<1>3. PICK r \in [0 .. n -> B] : Iterates(r, << >>, n, F)
  BY <1>1, <1>2, RecursionExists
<1> DEFINE G(b) == [k \in 0 .. n |-> IF k = 0 THEN << >> ELSE b[k - 1] \o UTF8(s[k])]
<1>4. r = G(r)
  <2>1. r[0] = << >> /\ \A k \in 1 .. n : r[k] = F[k][r[k - 1]]
    BY <1>3 DEF Iterates
  <2>2. ASSUME NEW k \in 1 .. n PROVE r[k] = r[k - 1] \o UTF8(s[k])
    <3>1. r[k - 1] \in B
      BY <1>1, <1>3
    <3> QED BY <1>c, <2>1, <3>1
  <2>3. r = [k \in 0 .. n |-> r[k]]
    BY <1>3
  <2>4. ASSUME NEW k \in 0 .. n
        PROVE  r[k] = IF k = 0 THEN << >> ELSE r[k - 1] \o UTF8(s[k])
    <3>1. k = 0 \/ k \in 1 .. n
      BY <1>1
    <3> QED BY <2>1, <2>2, <3>1
  <2> QED BY <2>3, <2>4
<1>5. Encoding(s) = CHOOSE b : b = G(b)
  BY <1>a DEF Encoding
<1>6. Encoding(s) = G(Encoding(s))
  <2> HIDE DEF G
  <2> QED BY <1>4, <1>5
<1>d. PICK e : e = Encoding(s)
  OBVIOUS
<1>7. e[0] = << >> /\ \A k \in 1 .. n : e[k] = e[k - 1] \o UTF8(s[k])
  <2>1. e = G(e)
    <3> HIDE DEF G
    <3> QED BY <1>6, <1>d
  <2>2. ASSUME NEW k \in 0 .. n
        PROVE  e[k] = IF k = 0 THEN << >> ELSE e[k - 1] \o UTF8(s[k])
    BY <2>1
  <2>3. 0 \in 0 .. n /\ \A k \in 1 .. n : k \in 0 .. n /\ k # 0
    BY <1>1
  <2> QED BY <2>2, <2>3
<1>8. \A k \in 0 .. n : e[k] \in B
  <2>1. ASSUME NEW k \in 1 .. n, e[k - 1] \in B PROVE e[k] = F[k][e[k - 1]]
    BY <1>c, <1>7, <2>1
  <2> QED BY <1>1, <1>2, <1>7, <2>1, RecursionStays
<1> QED BY <1>7, <1>8, <1>a, <1>b, <1>d

\* The next character's bytes.
LEMMA NextCharacter ==
    ASSUME NEW s \in Seq(CodePoint), NEW k \in 0 .. Len(s) - 1
    PROVE  /\ s[k + 1] \in CodePoint
           /\ Encoding(s)[k] \in Seq(Nat) /\ Encoding(s)[k + 1] \in Seq(Nat)
           /\ Len(Encoding(s)[k + 1]) = Len(Encoding(s)[k]) + Len(UTF8(s[k + 1]))
           /\ \A i \in 1 .. Len(Encoding(s)[k]) : Encoding(s)[k + 1][i] = Encoding(s)[k][i]
           /\ \A i \in 1 .. Len(UTF8(s[k + 1])) :
                 Encoding(s)[k + 1][Len(Encoding(s)[k]) + i] = UTF8(s[k + 1])[i]
<1>1. k + 1 \in 1 .. Len(s) /\ k \in 0 .. Len(s) /\ k + 1 \in 0 .. Len(s) /\ (k + 1) - 1 = k
  OBVIOUS
<1>2. s[k + 1] \in CodePoint
  BY <1>1
<1>3. PICK u, e, f : u = UTF8(s[k + 1]) /\ e = Encoding(s)[k] /\ f = Encoding(s)[k + 1]
  OBVIOUS
<1>4. u \in Seq(Nat)
  BY <1>2, <1>3, UTF8Bytes
<1>5. e \in Seq(Nat) /\ f \in Seq(Nat) /\ f = e \o u
  BY <1>1, <1>3, EncodingValue
<1>6. /\ Len(f) = Len(e) + Len(u)
      /\ \A i \in 1 .. Len(e) : f[i] = e[i]
      /\ \A i \in 1 .. Len(u) : f[Len(e) + i] = u[i]
  BY <1>4, <1>5
<1> QED BY <1>2, <1>3, <1>5, <1>6

\* What is written of the first characters stays when more are.
LEMMA EncodingPrefix ==
    ASSUME NEW s \in Seq(CodePoint), NEW k \in 0 .. Len(s), NEW m \in k .. Len(s)
    PROVE  /\ Len(Encoding(s)[k]) <= Len(Encoding(s)[m])
           /\ \A i \in 1 .. Len(Encoding(s)[k]) : Encoding(s)[m][i] = Encoding(s)[k][i]
<1>a. PICK e, n : e = Encoding(s) /\ n = Len(s)
  OBVIOUS
<1>1. n \in Nat /\ k \in Nat /\ m \in Nat /\ k <= m /\ m <= n
  BY <1>a
<1>2. \A j \in 0 .. n : e[j] \in Seq(Nat)
  BY <1>a, EncodingValue
<1>b. PICK l : l = Len(e[k])
  OBVIOUS
<1>3. l \in Nat
  BY <1>1, <1>2, <1>b
<1> DEFINE T == {j \in k .. m : l <= Len(e[j]) /\ \A i \in 1 .. l : e[j][i] = e[k][i]}
<1>4. k \in T
  BY <1>1, <1>3, <1>b
<1>5. ASSUME NEW j \in k .. m, j < m, j \in T PROVE j + 1 \in T
  <2>1. j \in 0 .. n - 1 /\ j + 1 \in k .. m /\ j \in 0 .. n
    BY <1>1, <1>5
  <2>2. /\ Len(e[j + 1]) = Len(e[j]) + Len(UTF8(s[j + 1]))
        /\ \A i \in 1 .. Len(e[j]) : e[j + 1][i] = e[j][i]
        /\ s[j + 1] \in CodePoint
    BY <1>a, <2>1, NextCharacter
  <2>3. Len(UTF8(s[j + 1])) \in Nat
    BY <2>2, UTF8Bytes
  <2>4. Len(e[j]) \in Nat
    BY <1>2, <2>1
  <2>5. l <= Len(e[j]) /\ \A i \in 1 .. l : e[j][i] = e[k][i]
    BY <1>5
  <2>6. l <= Len(e[j + 1])
    <3>1. PICK x, y : x = Len(e[j]) /\ y = Len(UTF8(s[j + 1]))
      OBVIOUS
    <3>2. Len(e[j + 1]) = x + y /\ x \in Nat /\ y \in Nat /\ l <= x
      BY <2>2, <2>3, <2>4, <2>5, <3>1
    <3> HIDE DEF T
    <3> QED BY <1>3, <3>2
  <2>7. \A i \in 1 .. l : e[j + 1][i] = e[k][i]
    BY <1>3, <2>2, <2>4, <2>5
  <2> QED BY <2>1, <2>6, <2>7
<1>6. m \in T
  <2> HIDE DEF T
  <2> QED BY <1>1, <1>4, <1>5, Upwards
<1> QED BY <1>6, <1>a, <1>b

-----------------------------------------------------------------------------
(* The length of a string, and where it ends in C *)

\* MATLAB counts one or two for each character.
LEMMA LengthCounts ==
    ASSUME str \in Seq(CodePoint)
    PROVE  /\ length \in Nat
           /\ Len(str) <= length
           /\ (\A k \in DOMAIN str : str[k] < 65536) => length = Len(str)
<1>a. PICK s, n : s = str /\ n = Len(s)
  OBVIOUS
<1>1. s \in Seq(CodePoint) /\ n \in Nat /\ DOMAIN s = 1 .. n
  BY <1>a
<1>b. PICK F : F = [k \in 1 .. n |-> [q \in Nat |-> q + Units(s[k])]]
  OBVIOUS
<1>2. \A k \in 1 .. n : Units(s[k]) \in {1, 2} /\ (s[k] < 65536 => Units(s[k]) = 1)
  BY DEF Units
<1>3. F \in Rounds(n, Nat)
  <2>1. ASSUME NEW k \in 1 .. n, NEW q \in Nat PROVE q + Units(s[k]) \in Nat
    <3>1. Units(s[k]) \in Nat
      BY <1>2
    <3> QED BY <3>1
  <2> QED BY <1>b, <2>1 DEF Rounds
<1>4. PICK r \in [0 .. n -> Nat] : Iterates(r, 0, n, F)
  BY <1>1, <1>3, RecursionExists
<1> DEFINE G(v) == [k \in 0 .. n |-> IF k = 0 THEN 0 ELSE v[k - 1] + Units(s[k])]
           f == CHOOSE v : v = G(v)
<1>5. r = G(r)
  <2>1. r[0] = 0 /\ \A k \in 1 .. n : r[k] = F[k][r[k - 1]]
    BY <1>4 DEF Iterates
  <2>2. r = [k \in 0 .. n |-> r[k]]
    BY <1>4
  <2>3. ASSUME NEW k \in 0 .. n PROVE r[k] = IF k = 0 THEN 0 ELSE r[k - 1] + Units(s[k])
    <3>1. CASE k = 0
      BY <2>1, <3>1
    <3>2. CASE k # 0
      <4>1. k \in 1 .. n /\ k - 1 \in 0 .. n
        BY <1>1, <3>2
      <4>2. r[k - 1] \in Nat /\ r[k] = F[k][r[k - 1]]
        BY <1>4, <2>1, <4>1
      <4> QED BY <1>b, <3>2, <4>1, <4>2
    <3> QED BY <3>1, <3>2
  <2> QED BY <2>2, <2>3
<1>6. length = f[n]
  BY <1>a DEF length
<1>7. f = G(f)
  <2> HIDE DEF G
  <2> QED BY <1>5
<1> HIDE DEF f
<1> DEFINE Short(k) == \A i \in 1 .. k : s[i] < 65536
           T == {k \in Nat : k <= n => f[k] \in Nat /\ k <= f[k] /\ (Short(k) => f[k] = k)}
<1>8. 0 \in T
  <2>1. f[0] = 0
    BY <1>1, <1>7
  <2> QED BY <2>1
<1>9. ASSUME NEW k \in Nat, k \in T PROVE k + 1 \in T
  <2> SUFFICES ASSUME k + 1 <= n
               PROVE  f[k + 1] \in Nat /\ k + 1 <= f[k + 1] /\ (Short(k + 1) => f[k + 1] = k + 1)
    OBVIOUS
  <2>1. k + 1 \in 1 .. n /\ k + 1 \in 0 .. n /\ k + 1 # 0 /\ (k + 1) - 1 = k /\ k <= n
    BY <1>1
  <2>2. f[k + 1] = f[k] + Units(s[k + 1])
    BY <1>7, <2>1
  <2>3. f[k] \in Nat /\ k <= f[k] /\ (Short(k) => f[k] = k)
    BY <1>9, <2>1
  <2>4. Short(k + 1) => Short(k) /\ s[k + 1] < 65536
    BY <2>1
  <2>5. Units(s[k + 1]) \in {1, 2} /\ (s[k + 1] < 65536 => Units(s[k + 1]) = 1)
    BY <1>2, <2>1
  <2> HIDE DEF Short
  <2> QED BY <2>2, <2>3, <2>4, <2>5
<1>10. n \in T
  <2> HIDE DEF T
  <2> QED BY <1>1, <1>8, <1>9, Induction
<1> QED BY <1>1, <1>6, <1>10, <1>a

\* A C string is the beginning of a sequence, before the first 0.
LEMMA CStringIsBeginning ==
    ASSUME NEW S, NEW s \in Seq(S)
    PROVE  /\ CString(s) \in Seq(S)
           /\ Len(CString(s)) <= Len(s)
           /\ \A i \in 1 .. Len(CString(s)) : CString(s)[i] = s[i]
           /\ (\A i \in 1 .. Len(s) : s[i] # 0) => CString(s) = s
<1> DEFINE I == {i \in 1 .. Len(s) : s[i] = 0}
<1>1. PICK z : z = SelectInSeq(s, LAMBDA c : c = 0)
  OBVIOUS
<1>2. CString(s) = IF z = 0 THEN s ELSE SubSeq(s, 1, z - 1)
  BY <1>1 DEF CString
<1>3. z = IF I # {} THEN Min(I) ELSE 0
  BY <1>1 DEF SelectInSeq
<1>4. CASE I = {}
  <2>1. CString(s) = s
    BY <1>2, <1>3, <1>4
  <2> QED BY <2>1
<1>5. CASE I # {}
  <2>1. PICK m \in I : \A k \in I : m <= k
    <3>1. I \subseteq Nat
      OBVIOUS
    <3> HIDE DEF I
    <3> QED BY <1>5, <3>1, Least
  <2>2. z = m
    <3>1. \A x \in I : (\A y \in I : x =< y) <=> x = m
      BY <2>1
    <3>2. Min(I) = m
      <4> HIDE DEF I
      <4> QED BY <2>1, <3>1 DEF Min
    <3> QED BY <1>3, <1>5, <3>2
  <2>3. m \in 1 .. Len(s) /\ s[m] = 0
    BY <2>1
  <2>4. CString(s) = SubSeq(s, 1, m - 1)
    BY <1>2, <2>2, <2>3
  <2>5. SubSeq(s, 1, m - 1) \in Seq(S) /\ Len(SubSeq(s, 1, m - 1)) = m - 1
        /\ \A i \in 1 .. m - 1 : SubSeq(s, 1, m - 1)[i] = s[i]
    BY <2>3
  <2> QED BY <2>3, <2>4, <2>5
<1> QED BY <1>4, <1>5

-----------------------------------------------------------------------------
(* char2hex *)

\* char2hex finds the character whose first byte it looks at.
LEMMA OneCharacter ==
    ASSUME NEW s \in Seq(CodePoint), utf8 = Encoding(s)[Len(s)],
           NEW k \in 0 .. Len(s) - 1, a = Len(Encoding(s)[k]),
           NEW w, w = Width(utf8[a + 1])
    PROVE  /\ Character(w) = s[k + 1]
           /\ a + w = Len(Encoding(s)[k + 1])
<1>a. PICK c, u, n, p, x : /\ c = s[k + 1] /\ u = UTF8(c) /\ n = Len(utf8) /\ p = a
                           /\ x = utf8
  OBVIOUS
<1>1. /\ c \in CodePoint /\ p \in Nat
      /\ Len(Encoding(s)[k + 1]) = p + Len(u)
      /\ \A i \in 1 .. Len(u) : Encoding(s)[k + 1][p + i] = u[i]
  <2>1. /\ s[k + 1] \in CodePoint /\ Encoding(s)[k] \in Seq(Nat)
        /\ Len(Encoding(s)[k + 1]) = Len(Encoding(s)[k]) + Len(UTF8(s[k + 1]))
        /\ \A i \in 1 .. Len(UTF8(s[k + 1])) :
              Encoding(s)[k + 1][Len(Encoding(s)[k]) + i] = UTF8(s[k + 1])[i]
    BY NextCharacter
  <2>2. p = Len(Encoding(s)[k])
    BY <1>a
  <2>3. p \in Nat
    BY <2>1, <2>2
  <2> QED BY <1>a, <2>1, <2>2, <2>3
<1>2. c \in Nat /\ c < 1114112
  BY <1>1 DEF CodePoint
<1>3. k + 1 \in 0 .. Len(s) /\ Len(s) \in (k + 1) .. Len(s)
  OBVIOUS
<1>4. /\ Len(Encoding(s)[k + 1]) <= n
      /\ \A i \in 1 .. Len(Encoding(s)[k + 1]) : x[i] = Encoding(s)[k + 1][i]
  BY <1>a, <1>3, EncodingPrefix
<1>5. n \in Nat
  <2>1. Len(s) \in 0 .. Len(s)
    OBVIOUS
  <2>2. utf8 \in Seq(Nat)
    BY <2>1, EncodingValue
  <2> QED BY <1>a, <2>2
<1>6. Len(u) \in Nat
  BY <1>1, <1>a, UTF8Bytes
<1>7. p + Len(u) <= n /\ \A i \in 1 .. Len(u) : x[p + i] = u[i]
  <2>1. \A i \in 1 .. Len(u) : p + i \in 1 .. Len(Encoding(s)[k + 1])
    BY <1>1, <1>6
  <2> QED BY <1>1, <1>4, <2>1
<1>b. PICK x1, x2, x3, x4, v :
         /\ x1 = x[p + 1] /\ x2 = x[p + 2] /\ x3 = x[p + 3] /\ x4 = x[p + 4]
         /\ v = Character(w)
  OBVIOUS
<1>8. w = (IF x1 >= 240 /\ x1 < 248 /\ p + 4 <= n THEN 4
           ELSE IF x1 >= 224 /\ x1 < 240 /\ p + 3 <= n THEN 3
           ELSE IF x1 >= 192 /\ x1 < 224 /\ p + 2 <= n THEN 2
           ELSE 1)
  BY <1>a, <1>b DEF Width
<1>9. /\ w = 4 => v = (x1 - 128 - 112) * 262144 + (x2 - 128) * 4096 + (x3 - 128) * 64 + (x4 - 128)
      /\ w = 3 => v = (x1 - 128 - 96) * 4096 + (x2 - 128) * 64 + (x3 - 128)
      /\ w = 2 => v = (x1 - 128 - 64) * 64 + (x2 - 128)
      /\ w = 1 => v = x1
  <2>1. p + 1 + 0 = p + 1 /\ p + 1 + 1 = p + 2 /\ p + 1 + 2 = p + 3 /\ p + 1 + 3 = p + 4
    BY <1>1
  <2>2. PICK y1, y2, y3, y4 : /\ y1 = utf8[a + 1 + 0] - 128 /\ y2 = utf8[a + 1 + 1] - 128
                              /\ y3 = utf8[a + 1 + 2] - 128 /\ y4 = utf8[a + 1 + 3] - 128
    OBVIOUS
  <2>3. y1 = x1 - 128 /\ y2 = x2 - 128 /\ y3 = x3 - 128 /\ y4 = x4 - 128 /\ utf8[a + 1] = x1
    BY <1>a, <1>b, <2>1, <2>2
  <2>4. Character(w) = CASE w = 4 -> (y1 - 112) * 262144 + y2 * 4096 + y3 * 64 + y4
                         [] w = 3 -> (y1 - 96) * 4096 + y2 * 64 + y3
                         [] w = 2 -> (y1 - 64) * 64 + y2
                         [] OTHER -> utf8[a + 1]
    BY <2>2 DEF Character
  <2>5. /\ w = 4 => v = (y1 - 112) * 262144 + y2 * 4096 + y3 * 64 + y4
        /\ w = 3 => v = (y1 - 96) * 4096 + y2 * 64 + y3
        /\ w = 2 => v = (y1 - 64) * 64 + y2
        /\ w = 1 => v = x1
    BY <1>b, <2>3, <2>4
  <2> QED BY <2>3, <2>5
<1>10. ASSUME c < 128 PROVE v = c /\ w = Len(u)
  <2>1. u = <<c>>
    BY <1>10, <1>a DEF UTF8
  <2>2. Len(u) = 1 /\ x1 = c
    BY <1>7, <1>b, <2>1
  <2>3. w = 1
    BY <1>2, <1>8, <1>10, <2>2
  <2> QED BY <1>9, <2>2, <2>3
<1>11. ASSUME ~ (c < 128) /\ c < 2048 PROVE v = c /\ w = Len(u)
  <2>1. PICK r \in Nat, t \in Nat :
           r = c \div 64 /\ t = c % 64 /\ c = 64 * r + t /\ r < 32
    BY <1>2, <1>11
  <2>2. u = <<192 + r, 128 + t>>
    BY <1>11, <1>a, <2>1 DEF UTF8
  <2>3. Len(u) = 2 /\ x1 = 192 + r /\ x2 = 128 + t
    BY <1>7, <1>b, <2>2
  <2>4. x1 >= 192 /\ x1 < 224 /\ p + 2 <= n
    BY <1>7, <2>1, <2>3
  <2>5. w = 2
    BY <1>8, <2>1, <2>3, <2>4
  <2>6. v = (192 + r - 128 - 64) * 64 + (128 + t - 128)
    BY <1>9, <2>3, <2>5
  <2> QED BY <2>1, <2>3, <2>5, <2>6
<1>12. ASSUME ~ (c < 2048) /\ c < 65536 PROVE v = c /\ w = Len(u)
  <2>1. PICK r \in Nat, t \in Nat, o \in Nat :
           /\ r = c \div 4096 /\ t = (c \div 64) % 64 /\ o = c % 64
           /\ c = 4096 * r + 64 * t + o /\ r < 16
    <3>1. PICK d \in Nat, o \in Nat : d = c \div 64 /\ o = c % 64 /\ c = 64 * d + o /\ o < 64
      BY <1>2
    <3>2. PICK r \in Nat, t \in Nat : /\ r = d \div 64 /\ t = d % 64
                                     /\ d = 64 * r + t /\ t < 64
      BY <3>1
    <3>3. r = c \div 4096
      BY <1>2, <3>1, <3>2
    <3>4. r < 16
      BY <1>12, <3>1, <3>2
    <3> QED BY <3>1, <3>2, <3>3, <3>4
  <2>2. u = <<224 + r, 128 + t, 128 + o>>
    <3>1. ~ (c < 128)
      BY <1>2, <1>12
    <3>2. u = <<224 + c \div 4096, 128 + ((c \div 64) % 64), 128 + (c % 64)>>
      BY <1>12, <1>a, <3>1 DEF UTF8
    <3> QED BY <2>1, <3>2
  <2>3. Len(u) = 3 /\ x1 = 224 + r /\ x2 = 128 + t /\ x3 = 128 + o
    BY <1>7, <1>b, <2>2
  <2>4. x1 >= 224 /\ x1 < 240 /\ p + 3 <= n
    BY <1>7, <2>1, <2>3
  <2>5. w = 3
    BY <1>8, <2>1, <2>3, <2>4
  <2>6. v = (224 + r - 128 - 96) * 4096 + (128 + t - 128) * 64 + (128 + o - 128)
    BY <1>9, <2>3, <2>5
  <2> QED BY <2>1, <2>3, <2>5, <2>6
<1>13. ASSUME ~ (c < 65536) PROVE v = c /\ w = Len(u)
  <2>1. PICK r \in Nat, t \in Nat, o \in Nat, q \in Nat :
           /\ r = c \div 262144 /\ t = (c \div 4096) % 64
           /\ o = (c \div 64) % 64 /\ q = c % 64
           /\ c = 262144 * r + 4096 * t + 64 * o + q /\ r < 8
    <3>1. PICK d \in Nat, q \in Nat : d = c \div 64 /\ q = c % 64 /\ c = 64 * d + q /\ q < 64
      BY <1>2
    <3>2. PICK e \in Nat, o \in Nat : /\ e = d \div 64 /\ o = d % 64
                                     /\ d = 64 * e + o /\ o < 64
      BY <3>1
    <3>3. PICK r \in Nat, t \in Nat : /\ r = e \div 64 /\ t = e % 64
                                     /\ e = 64 * r + t /\ t < 64
      BY <3>2
    <3>4. e = c \div 4096
      BY <1>2, <3>1, <3>2
    <3>5. r = c \div 262144
      BY <1>2, <3>1, <3>2, <3>3
    <3>6. r < 8
      BY <1>2, <3>1, <3>2, <3>3
    <3> QED BY <3>1, <3>2, <3>3, <3>4, <3>5, <3>6
  <2>2. u = <<240 + r, 128 + t, 128 + o, 128 + q>>
    <3>1. ~ (c < 128) /\ ~ (c < 2048)
      BY <1>2, <1>13
    <3>2. u = <<240 + c \div 262144, 128 + ((c \div 4096) % 64),
                128 + ((c \div 64) % 64), 128 + (c % 64)>>
      BY <1>13, <1>a, <3>1 DEF UTF8
    <3> QED BY <2>1, <3>2
  <2>3. Len(u) = 4 /\ x1 = 240 + r /\ x2 = 128 + t /\ x3 = 128 + o /\ x4 = 128 + q
    BY <1>7, <1>b, <2>2
  <2>4. x1 >= 240 /\ x1 < 248 /\ p + 4 <= n
    BY <1>7, <2>1, <2>3
  <2>5. w = 4
    BY <1>8, <2>1, <2>3, <2>4
  <2>6. v = (240 + r - 128 - 112) * 262144 + (128 + t - 128) * 4096 + (128 + o - 128) * 64
            + (128 + q - 128)
    BY <1>9, <2>3, <2>5
  <2> QED BY <2>1, <2>3, <2>5, <2>6
<1>14. v = c /\ w = Len(u)
  BY <1>10, <1>11, <1>12, <1>13, <1>2
<1> QED BY <1>1, <1>14, <1>a, <1>b

-----------------------------------------------------------------------------
(* hex2char and MATLAB *)

\* f is what MATLAB has after each of the first n bytes.
Takes(f, bytes, n) ==
    f = [i \in 0 .. n |-> IF i = 0 THEN << >> ELSE TakeByte(f[i - 1], bytes[i])]

\* The recursive definition in mxCreateString has a value.
LEMMA TakingExists ==
    ASSUME NEW bytes, NEW n \in Nat
    PROVE  \E f : Takes(f, bytes, n)
<1> DEFINE T == {m \in Nat : \E f : Takes(f, bytes, m)}
<1>1. 0 \in T
  <2>1. PICK f : f = [i \in 0 .. 0 |-> << >>]
    OBVIOUS
  <2>2. f = [i \in 0 .. 0 |-> IF i = 0 THEN << >> ELSE TakeByte(f[i - 1], bytes[i])]
    BY <2>1
  <2> QED BY <2>2 DEF Takes
<1>2. ASSUME NEW m \in Nat, m \in T PROVE m + 1 \in T
  <2>1. PICK f : Takes(f, bytes, m)
    BY <1>2
  <2>2. PICK v : v = TakeByte(f[m], bytes[m + 1])
    OBVIOUS
  <2>3. PICK h : h = [i \in 0 .. m + 1 |-> IF i <= m THEN f[i] ELSE v]
    OBVIOUS
  <2>4. \A i \in 0 .. m : f[i] = IF i = 0 THEN << >> ELSE TakeByte(f[i - 1], bytes[i])
    BY <2>1 DEF Takes
  <2>5. ASSUME NEW i \in 0 .. m + 1
        PROVE  h[i] = IF i = 0 THEN << >> ELSE TakeByte(h[i - 1], bytes[i])
    <3>1. CASE i <= m
      <4>1. i \in 0 .. m /\ h[i] = f[i]
        BY <2>3, <3>1
      <4>2. i # 0 => h[i - 1] = f[i - 1]
        BY <2>3, <3>1
      <4> QED BY <2>4, <4>1, <4>2
    <3>2. CASE i = m + 1
      <4>1. h[i] = v /\ h[i - 1] = f[m] /\ i # 0
        BY <2>3, <3>2
      <4> QED BY <2>2, <3>2, <4>1
    <3> QED BY <3>1, <3>2
  <2>6. h = [i \in 0 .. m + 1 |-> h[i]]
    BY <2>3
  <2>7. Takes(h, bytes, m + 1)
    BY <2>5, <2>6 DEF Takes
  <2> QED BY <2>7
<1>3. n \in T
  <2> HIDE DEF T
  <2> QED BY <1>1, <1>2, Induction
<1> QED BY <1>3

\* Characters of one byte.
OneByte(s) == \A k \in 1 .. Len(s) : s[k] \in Nat /\ 0 < s[k] /\ s[k] < 256

\* What is written of them has no 0 in it.
LEMMA NoZero ==
    ASSUME NEW s \in Seq(CodePoint), OneByte(s)
    PROVE  \A k \in 0 .. Len(s) : \A i \in 1 .. Len(Encoding(s)[k]) : Encoding(s)[k][i] # 0
<1>a. PICK e, n : e = Encoding(s) /\ n = Len(s)
  OBVIOUS
<1> DEFINE T == {k \in Nat : k <= n => \A i \in 1 .. Len(e[k]) : e[k][i] # 0}
<1>1. 0 \in T
  <2>1. e[0] = << >>
    BY <1>a, EncodingValue
  <2> QED BY <2>1
<1>2. ASSUME NEW k \in Nat, k \in T PROVE k + 1 \in T
  <2> SUFFICES ASSUME k + 1 <= n, NEW i \in 1 .. Len(e[k + 1]) PROVE e[k + 1][i] # 0
    OBVIOUS
  <2>1. k \in 0 .. n - 1 /\ k <= n /\ k + 1 \in 1 .. n
    BY <1>a
  <2>b. PICK u, l : u = UTF8(s[k + 1]) /\ l = Len(e[k])
    OBVIOUS
  <2>2. /\ s[k + 1] \in CodePoint /\ e[k] \in Seq(Nat)
        /\ Len(e[k + 1]) = l + Len(u)
        /\ \A j \in 1 .. l : e[k + 1][j] = e[k][j]
        /\ \A j \in 1 .. Len(u) : e[k + 1][l + j] = u[j]
    BY <1>a, <2>1, <2>b, NextCharacter
  <2>3. s[k + 1] # 0
    BY <1>a, <2>1 DEF OneByte
  <2>4. u \in Seq(Nat) /\ \A j \in 1 .. Len(u) : u[j] # 0
    BY <2>2, <2>3, <2>b, UTF8Bytes
  <2>5. l \in Nat /\ Len(u) \in Nat
    BY <2>2, <2>4, <2>b
  <2>6. \A j \in 1 .. l : e[k][j] # 0
    BY <1>2, <2>1, <2>b
  <2>7. CASE i <= l
    <3>1. i \in 1 .. l
      BY <2>5, <2>7
    <3> QED BY <2>2, <2>6, <3>1
  <2>8. CASE l < i
    <3>1. i - l \in 1 .. Len(u) /\ l + (i - l) = i
      BY <2>2, <2>5, <2>8
    <3> QED BY <2>2, <2>4, <3>1
  <2> QED BY <2>5, <2>7, <2>8
<1>3. Nat \subseteq T
  <2> HIDE DEF T
  <2> QED BY <1>1, <1>2, Induction
<1> QED BY <1>3, <1>a

\* f is what MATLAB has after each of the first m bytes, those behind the l-th
\* are the bytes of c; after the j-th it is q and c.
TakesAll(f, bytes, m) == \A i \in 1 .. m : f[i] = TakeByte(f[i - 1], bytes[i])
Extends(f, j, q, c) == f[j] = Append(q, c)
Follows(c, bytes, l) == \A i \in 1 .. Len(UTF8(c)) : bytes[l + i] = UTF8(c)[i]

\* MATLAB takes the bytes of a character for the character.
LEMMA TakeCharacter ==
    ASSUME NEW q \in Seq(Nat), NEW c \in Nat, c < 256,
           NEW f, NEW bytes, NEW l \in Nat, f[l] = q,
           NEW m \in Nat, l + Len(UTF8(c)) <= m,
           TakesAll(f, bytes, m), Follows(c, bytes, l)
    PROVE  Extends(f, l + Len(UTF8(c)), q, c)
<1>a. PICK u : u = UTF8(c)
  OBVIOUS
<1>b. (\A i \in 1 .. Len(u) : bytes[l + i] = u[i]) /\ l + Len(u) <= m
  BY <1>a DEF Follows
<1>c. /\ l + 1 <= m => f[l + 1] = TakeByte(f[l], bytes[l + 1])
      /\ l + 2 <= m => f[l + 2] = TakeByte(f[l + 1], bytes[l + 2])
  <2>1. /\ (l + 1) - 1 = l /\ (l + 2) - 1 = l + 1
        /\ l + 1 <= m => l + 1 \in 1 .. m
        /\ l + 2 <= m => l + 2 \in 1 .. m
    OBVIOUS
  <2> QED BY <2>1 DEF TakesAll
<1>1. CASE c < 128
  <2>1. u = <<c>>
    BY <1>1, <1>a DEF UTF8
  <2>2. Len(u) = 1 /\ u[1] = c
    BY <2>1
  <2>3. f[l + 1] = TakeByte(q, c)
    BY <1>b, <1>c, <2>2
  <2> QED BY <1>1, <1>a, <2>2, <2>3 DEF TakeByte, Extends
<1>2. CASE ~ (c < 128)
  <2>1. PICK r \in Nat, t \in Nat :
           r = c \div 64 /\ t = c % 64 /\ c = 64 * r + t /\ t < 64
    <3>1. /\ c \div 64 \in Nat /\ c % 64 \in Nat
          /\ c = 64 * (c \div 64) + (c % 64) /\ c % 64 < 64
      OBVIOUS
    <3> QED BY <3>1
  <2>2. u = <<192 + r, 128 + t>>
    BY <1>2, <1>a, <2>1 DEF UTF8
  <2>3. Len(u) = 2 /\ u[1] = 192 + r /\ u[2] = 128 + t
    BY <2>2
  <2>4. PICK p : p = Append(q, r)
    OBVIOUS
  <2>5. f[l + 1] = TakeByte(q, 192 + r)
    BY <1>b, <1>c, <2>3
  <2>6. f[l + 1] = p
    <3>1. ~ (192 + r < 128) /\ 192 + r >= 192 /\ (192 + r) - 192 = r
      BY <2>1
    <3> QED BY <2>4, <2>5, <3>1 DEF TakeByte
  <2>7. f[l + 2] = TakeByte(p, 128 + t)
    BY <1>b, <1>c, <2>3, <2>6
  <2>8. TakeByte(p, 128 + t) = Append(Front(p), 64 * Last(p) + (128 + t) - 128)
    <3>1. ~ (128 + t < 128) /\ ~ (128 + t >= 192)
      BY <2>1
    <3> QED BY <3>1 DEF TakeByte
  <2>9. Last(p) = r /\ Front(p) = q
    BY <2>1, <2>4 DEF Last, Front
  <2>10. 64 * Last(p) + (128 + t) - 128 = c
    BY <2>1, <2>9
  <2>11. f[l + 2] = Append(q, c)
    BY <2>7, <2>8, <2>9, <2>10
  <2>12. l + Len(UTF8(c)) = l + 2
    BY <1>a, <2>3
  <2> QED BY <2>11, <2>12 DEF Extends
<1> QED BY <1>1, <1>2

\* A string of such characters is read again from what is written of it.
LEMMA CreateReadsEncoding ==
    ASSUME NEW s \in Seq(CodePoint), OneByte(s)
    PROVE  mxCreateString(Encoding(s)[Len(s)]) = s
<1>a. PICK e, n : e = Encoding(s) /\ n = Len(s)
  OBVIOUS
<1>b. PICK bytes : bytes = e[n]
  OBVIOUS
<1>c. PICK m : m = Len(bytes)
  OBVIOUS
<1>1. n \in Nat /\ n \in 0 .. Len(s) /\ s \in Seq(Nat)
  <2>1. CodePoint \subseteq Nat
    BY DEF CodePoint
  <2>2. s \in Seq(Nat)
    <3>1. ASSUME NEW i \in 1 .. Len(s) PROVE s[i] \in Nat
      <4>1. s[i] \in CodePoint
        OBVIOUS
      <4> QED BY <2>1, <4>1
    <3>2. Len(s) \in Int /\ SubSeq(s, 1, Len(s)) = s
      BY SubSeqFull
    <3>3. SubSeq(s, 1, Len(s)) \in Seq(Nat)
      BY <3>1, <3>2, SubSeqProperties
    <3> QED BY <3>2, <3>3
  <2> QED BY <1>a, <2>2
<1>2. bytes \in Seq(Nat)
  BY <1>1, <1>a, <1>b, EncodingValue
<1>3. CString(bytes) = bytes
  <2>1. \A i \in 1 .. Len(bytes) : bytes[i] # 0
    BY <1>1, <1>a, <1>b, NoZero
  <2> QED BY <1>2, <2>1, CStringIsBeginning
<1>4. m \in Nat
  BY <1>2, <1>c
<1> DEFINE G(g) == [i \in 0 .. m |-> IF i = 0 THEN << >> ELSE TakeByte(g[i - 1], bytes[i])]
           f == CHOOSE g : g = G(g)
<1>5. mxCreateString(bytes) = f[m]
  BY <1>3, <1>c DEF mxCreateString
<1>6. f = G(f)
  <2>1. \E g : g = G(g)
    BY <1>4, TakingExists DEF Takes
  <2> HIDE DEF G
  <2> QED BY <2>1
<1> HIDE DEF f
<1>7. f[0] = << >> /\ \A i \in 1 .. m : f[i] = TakeByte(f[i - 1], bytes[i])
  BY <1>4, <1>6
<1> HIDE DEF G
<1> DEFINE T == {k \in Nat : k <= n => f[Len(e[k])] = SubSeq(s, 1, k)}
<1>8. 0 \in T
  <2>1. e[0] = << >>
    BY <1>a, EncodingValue
  <2>2. SubSeq(s, 1, 0) = << >>
    BY SubSeqEmpty
  <2>3. Len(<< >>) = 0
    OBVIOUS
  <2> QED BY <1>7, <2>1, <2>2, <2>3
<1>9. ASSUME NEW k \in Nat, k \in T PROVE k + 1 \in T
  <2> SUFFICES ASSUME k + 1 <= n PROVE f[Len(e[k + 1])] = SubSeq(s, 1, k + 1)
    OBVIOUS
  <2>1. /\ k \in 0 .. n - 1 /\ k <= n /\ k + 1 \in 0 .. n /\ k \in 0 .. n
        /\ n \in (k + 1) .. n /\ k + 1 \in 1 .. n
    BY <1>1
  <2>b. PICK c, l : c = s[k + 1] /\ l = Len(e[k])
    OBVIOUS
  <2>c. PICK u : u = UTF8(c)
    OBVIOUS
  <2>2. /\ c \in CodePoint /\ e[k] \in Seq(Nat)
        /\ Len(e[k + 1]) = l + Len(u)
        /\ \A i \in 1 .. Len(u) : e[k + 1][l + i] = u[i]
    BY <1>a, <2>1, <2>b, <2>c, NextCharacter
  <2>3. c \in Nat /\ c < 256
    BY <1>a, <2>1, <2>b DEF OneByte
  <2>4. l \in Nat /\ Len(u) \in Nat
    <3>1. u \in Seq(Nat)
      BY <2>2, <2>c, UTF8Bytes
    <3> QED BY <2>2, <2>b, <3>1
  <2>5. /\ Len(e[k + 1]) <= m
        /\ \A i \in 1 .. Len(e[k + 1]) : bytes[i] = e[k + 1][i]
    BY <1>a, <1>b, <1>c, <2>1, EncodingPrefix
  <2>6. ASSUME NEW i \in 1 .. Len(u) PROVE bytes[l + i] = u[i]
    <3>1. l + i \in 1 .. Len(e[k + 1])
      BY <1>4, <2>2, <2>4, <2>5
    <3> QED BY <2>2, <2>5, <3>1
  <2>7. PICK q : q = SubSeq(s, 1, k)
    OBVIOUS
  <2>8. q \in Seq(Nat) /\ f[l] = q /\ SubSeq(s, 1, k + 1) = Append(q, c)
    <3>1. f[l] = q
      BY <1>9, <2>1, <2>7, <2>b
    <3>2. q \in Seq(Nat)
      BY <1>1, <1>a, <2>1, <2>7
    <3>3. SubSeq(s, 1, k + 1) = Append(q, c)
      BY <1>1, <1>a, <2>1, <2>7, <2>b
    <3> QED BY <3>1, <3>2, <3>3
  <2>9. f[l + Len(u)] = Append(q, c)
    <3>1. Follows(c, bytes, l)
      BY <2>6, <2>c DEF Follows
    <3>2. l + Len(UTF8(c)) <= m
      BY <2>2, <2>5, <2>c
    <3>a. PICK g : g = f
      OBVIOUS
    <3>4. g[l] = q /\ TakesAll(g, bytes, m)
      BY <1>7, <2>8, <3>a DEF TakesAll
    <3>5. q \in Seq(Nat) /\ c \in Nat /\ c < 256 /\ l \in Nat /\ m \in Nat
      BY <1>4, <2>3, <2>4, <2>8
    <3>6. Extends(g, l + Len(UTF8(c)), q, c)
      BY <3>1, <3>2, <3>4, <3>5, TakeCharacter
    <3>3. f[l + Len(UTF8(c))] = Append(q, c)
      BY <3>6, <3>a DEF Extends
    <3> QED BY <2>c, <3>3
  <2> QED BY <2>2, <2>8, <2>9
<1>10. f[m] = SubSeq(s, 1, n)
  <2>1. n \in T
    <3> HIDE DEF T
    <3> QED BY <1>1, <1>8, <1>9, Induction
  <2> QED BY <1>1, <1>b, <1>c, <2>1
<1>11. SubSeq(s, 1, n) = s
  BY <1>a, SubSeqFull
<1> QED BY <1>5, <1>10, <1>11, <1>a, <1>b

-----------------------------------------------------------------------------
(* The invariant *)

\* The characters that are encoded, those before the first 0.
Sent == CString(str)

\* Types; what is no string has no characters.
Typed ==
    /\ fmt \in Formats
    /\ arg = Row \/ (arg \in Arguments /\ str = << >>)
    /\ str \in Seq(CodePoint)
    /\ text = NoText \/ text \in Printed(arg, fmt)
    /\ pc \in {"serialize", "encode", "decode", "end", "error"}
    /\ a \in Nat /\ idx \in Nat
    /\ buf \in [0 .. length -> Nat]
    /\ hex \in Seq(Nat) /\ Len(hex) <= 2 * length

\* Before the loops.
Beginning == pc = "serialize" => a = 0 /\ idx = 0 /\ hex = << >>

\* char2hex is between two characters, and has kept a byte of each before.
Encoded ==
    pc = "encode" =>
        /\ hex = << >>
        /\ utf8 = mxArrayToString(str)
        /\ idx \in 0 .. Len(Sent)
        /\ a = Len(Encoding(Sent)[idx])
        /\ \A i \in 0 .. idx - 1 : buf[i] = Sent[i + 1] % 256

\* hex2char has written two bytes for each at most, and of characters of one
\* byte what MATLAB had given.
Decoded ==
    pc = "decode" =>
        /\ a <= length /\ idx <= length
        /\ Len(hex) <= 2 * a
        /\ OneByte(str) =>
              /\ hex = Encoding(str)[a]
              /\ \A i \in 0 .. Len(str) - 1 : buf[i] = str[i + 1]

Survived ==
    arg = Row /\ OneByte(str) => pc # "error" /\ (pc = "end" => fetched = str)

CodecInv == Typed /\ Beginning /\ Encoded /\ Decoded /\ Survived

LEMMA LengthStays == str' = str => length' = length
  BY DEF length

\* What is encoded is a string that is not longer.
LEMMA SentFacts ==
    ASSUME str \in Seq(CodePoint)
    PROVE  /\ Sent \in Seq(CodePoint)
           /\ Len(Sent) \in Nat /\ Len(str) \in Nat /\ length \in Nat
           /\ Len(Sent) <= Len(str) /\ Len(str) <= length
           /\ OneByte(str) => Sent = str /\ length = Len(str)
<1>1. Sent \in Seq(CodePoint) /\ Len(Sent) <= Len(str)
  BY CStringIsBeginning DEF Sent
<1>2. Len(Sent) \in Nat /\ Len(str) \in Nat
  BY <1>1
<1>3. length \in Nat /\ Len(str) <= length
  BY LengthCounts
<1>4. ASSUME OneByte(str) PROVE Sent = str /\ length = Len(str)
  <2>1. \A i \in 1 .. Len(str) : str[i] # 0
    BY <1>4 DEF OneByte
  <2>2. \A k \in DOMAIN str : str[k] < 65536
    <3>1. DOMAIN str = 1 .. Len(str)
      OBVIOUS
    <3> QED BY <1>4, <3>1 DEF OneByte
  <2> QED BY <2>1, <2>2, CStringIsBeginning, LengthCounts DEF Sent
<1> QED BY <1>1, <1>2, <1>3, <1>4

LEMMA InvInit == Init => CodecInv
<1> SUFFICES ASSUME Init PROVE CodecInv
  OBVIOUS
<1>1. /\ fmt \in Formats /\ text = NoText /\ pc = "serialize" /\ a = 0 /\ idx = 0
      /\ buf = [k \in 0 .. length |-> Unset] /\ hex = << >>
  BY DEF Init
<1>2. /\ arg = Row \/ (arg \in Arguments /\ str = << >>)
      /\ str \in Seq(CodePoint)
  <2>1. << >> \in Seq(CodePoint)
    BY EmptySeq
  <2> QED BY <2>1, TextAssumption DEF Init
<1>3. length \in Nat
  BY <1>2, SentFacts
<1>4. buf \in [0 .. length -> Nat]
  BY <1>1 DEF Unset
<1>5. hex \in Seq(Nat) /\ Len(hex) <= 2 * length
  BY <1>1, <1>3, EmptySeq
<1>6. Typed
  BY <1>1, <1>2, <1>4, <1>5 DEF Typed
<1> QED BY <1>1, <1>6 DEF CodecInv, Beginning, Encoded, Decoded, Survived

\* The beginning of a serialization.
LEMMA SerializeStep == CodecInv /\ SerializeString => CodecInv'
<1> SUFFICES ASSUME CodecInv, SerializeString PROVE CodecInv'
  OBVIOUS
<1>1. /\ pc = "serialize" /\ pc' \in {"decode", "encode", "end", "error"}
      /\ arg' = arg /\ fmt' = fmt /\ str' = str /\ a' = a /\ idx' = idx
      /\ buf' = buf /\ hex' = hex
  BY DEF SerializeString, Goto, textVars, loopVars
<1>2. a = 0 /\ idx = 0 /\ hex = << >> /\ Typed
  BY <1>1 DEF CodecInv, Beginning
<1>3. str \in Seq(CodePoint) /\ length \in Nat /\ length' = length
  BY <1>1, <1>2, SentFacts, LengthStays DEF Typed
<1>4. text' = NoText \/ text' \in Printed(arg', fmt')
  BY <1>1, <1>2 DEF SerializeString, Typed
<1>5. Typed'
  BY <1>1, <1>2, <1>3, <1>4 DEF Typed
<1>6. Encoded'
  <2> SUFFICES ASSUME pc' = "encode" PROVE Encoded'
    BY DEF Encoded
  <2>1. utf8' = mxArrayToString(str)
    BY DEF SerializeString, Goto
  <2>2. Sent \in Seq(CodePoint) /\ Len(Sent) \in Nat
    BY <1>3, SentFacts
  <2>3. Encoding(Sent)[0] = << >>
    BY <2>2, EncodingValue
  <2>4. Len(<< >>) = 0
    OBVIOUS
  <2>5. Sent' = Sent
    BY <1>1 DEF Sent
  <2>6. a' = Len(Encoding(Sent')[idx']) /\ idx' \in 0 .. Len(Sent')
    BY <1>1, <1>2, <2>2, <2>3, <2>4, <2>5
  <2>7. hex' = << >> /\ utf8' = mxArrayToString(str')
    BY <1>1, <1>2, <2>1
  <2>8. \A i \in 0 .. idx' - 1 : buf'[i] = Sent'[i + 1] % 256
    BY <1>1, <1>2
  <2> QED BY <2>6, <2>7, <2>8 DEF Encoded
<1>7. Decoded'
  <2> SUFFICES ASSUME pc' = "decode" PROVE Decoded'
    BY DEF Decoded
  <2>1. str = << >>
    BY <1>2 DEF SerializeString, Goto, Typed, Row
  <2>2. Encoding(str)[0] = << >> /\ Len(str) = 0 /\ Len(hex) = 0
    BY <1>2, <1>3, <2>1, EncodingValue
  <2>3. a' <= length' /\ idx' <= length' /\ Len(hex') <= 2 * a'
    BY <1>1, <1>2, <1>3, <2>2
  <2>4. hex' = Encoding(str')[a'] /\ \A i \in 0 .. Len(str') - 1 : buf'[i] = str'[i + 1]
    BY <1>1, <1>2, <2>2
  <2> QED BY <2>3, <2>4 DEF Decoded
<1>8. Survived'
  <2> SUFFICES ASSUME pc' \in {"end", "error"}, arg' = Row PROVE FALSE
    BY DEF Survived
  <2>1. arg.class = "char" /\ arg.shape = "row"
    BY <1>1 DEF Row
  <2>2. pc' \in {"decode", "encode"}
    BY <2>1 DEF SerializeString, Goto
  <2> QED BY <2>2
<1> QED BY <1>1, <1>5, <1>6, <1>7, <1>8 DEF CodecInv, Beginning

\* A round of char2hex that reads a character.
LEMMA EncodeReads ==
    ASSUME CodecInv, Encode, ~ Surrogate(Width(utf8[a + 1]))
    PROVE  CodecInv'
<1>a. PICK s, e, k, n : s = Sent /\ e = Encoding(s) /\ k = idx /\ n = Len(s)
  OBVIOUS
<1>b. PICK w : w = Width(utf8[a + 1])
  OBVIOUS
<1>1. /\ pc = "encode" /\ pc' = pc /\ arg' = arg /\ fmt' = fmt /\ str' = str
      /\ text' = text /\ utf8' = utf8 /\ hex' = hex
      /\ a < Len(utf8) /\ idx' = k + 1 /\ a' = a + w
      /\ buf' = [buf EXCEPT ![k] = Character(w) % 256]
  BY <1>a, <1>b DEF Encode, textVars
<1>2. /\ Typed /\ hex = << >> /\ utf8 = mxArrayToString(str)
      /\ k \in 0 .. n /\ a = Len(e[k])
      /\ \A i \in 0 .. k - 1 : buf[i] = s[i + 1] % 256
  BY <1>1, <1>a DEF CodecInv, Encoded
<1>3. str \in Seq(CodePoint) /\ buf \in [0 .. length -> Nat]
  BY <1>2 DEF Typed
<1>4. /\ s \in Seq(CodePoint) /\ n \in Nat /\ length \in Nat
      /\ n <= length /\ length' = length
  BY <1>1, <1>3, <1>a, SentFacts, LengthStays
<1>5. utf8 = Encoding(s)[Len(s)]
  BY <1>2, <1>a DEF mxArrayToString, Sent
<1>6. k \in 0 .. n - 1
  <2>1. k # n
    BY <1>1, <1>2, <1>5, <1>a, <1>4
  <2> QED BY <1>2, <1>4, <2>1
<1>7. Character(w) = s[k + 1] /\ a + w = Len(e[k + 1])
  <2>1. k \in 0 .. Len(s) - 1 /\ a = Len(Encoding(s)[k])
    BY <1>2, <1>6, <1>a
  <2>2. Character(w) = s[k + 1] /\ a + w = Len(Encoding(s)[k + 1])
    BY <1>4, <1>5, <1>b, <2>1, OneCharacter
  <2> QED BY <1>a, <2>2
<1>8. s[k + 1] \in Nat /\ k + 1 \in 0 .. n /\ k \in 0 .. length
  <2>1. s[k + 1] \in CodePoint /\ k + 1 \in 0 .. n /\ k \in 0 .. length
    BY <1>4, <1>6, <1>a
  <2> QED BY <2>1 DEF CodePoint
<1>9. s[k + 1] % 256 \in Nat
  BY <1>8
<1>10. /\ buf' = [buf EXCEPT ![k] = s[k + 1] % 256]
       /\ a' = Len(e[k + 1])
  BY <1>1, <1>7
<1>11. a' \in Nat /\ idx' \in Nat
  <2>1. e[k + 1] \in Seq(Nat)
    BY <1>4, <1>8, <1>a, EncodingValue
  <2> QED BY <1>1, <1>8, <1>10, <2>1
<1>12. buf' \in [0 .. length -> Nat]
  BY <1>3, <1>8, <1>9, <1>10
<1>13. Typed'
  BY <1>1, <1>2, <1>4, <1>11, <1>12 DEF Typed
<1>14. Sent' = s
  BY <1>1, <1>a DEF Sent
<1>15. \A i \in 0 .. (k + 1) - 1 : buf'[i] = s[i + 1] % 256
  <2> SUFFICES ASSUME NEW i \in 0 .. (k + 1) - 1 PROVE buf'[i] = s[i + 1] % 256
    OBVIOUS
  <2>1. i \in 0 .. length
    BY <1>4, <1>6
  <2>2. CASE i = k
    BY <1>3, <1>8, <1>10, <2>2
  <2>3. CASE i # k
    <3>1. i \in 0 .. k - 1
      BY <1>8, <2>3
    <3>2. buf'[i] = buf[i]
      BY <1>3, <1>10, <2>1, <2>3
    <3> QED BY <1>2, <3>1, <3>2
  <2> QED BY <2>2, <2>3
<1>16. Encoded'
  <2>1. idx' \in 0 .. Len(Sent') /\ a' = Len(Encoding(Sent')[idx'])
    BY <1>1, <1>8, <1>10, <1>14, <1>a
  <2>2. \A i \in 0 .. idx' - 1 : buf'[i] = Sent'[i + 1] % 256
    BY <1>1, <1>14, <1>15
  <2>3. hex' = << >> /\ utf8' = mxArrayToString(str')
    BY <1>1, <1>2
  <2> QED BY <2>1, <2>2, <2>3 DEF Encoded
<1> QED BY <1>1, <1>13, <1>16 DEF CodecInv, Beginning, Decoded, Survived

\* No character of one byte has the three bytes of half of a surrogate pair.
LEMMA LatinIsNoSurrogate ==
    ASSUME CodecInv, pc = "encode", a < Len(utf8), OneByte(str)
    PROVE  ~ Surrogate(Width(utf8[a + 1]))
<1>a. PICK k, n, x : k = idx /\ n = Len(str) /\ x = utf8
  OBVIOUS
<1>1. /\ str \in Seq(CodePoint) /\ utf8 = mxArrayToString(str)
      /\ k \in 0 .. Len(Sent) /\ a = Len(Encoding(Sent)[k])
  BY <1>a DEF CodecInv, Typed, Encoded
<1>2. Sent = str /\ n \in Nat
  BY <1>1, <1>a, SentFacts
<1>3. x = Encoding(str)[n] /\ k \in 0 .. n /\ a = Len(Encoding(str)[k])
  BY <1>1, <1>2, <1>a DEF mxArrayToString, Sent
<1>4. k \in 0 .. Len(str) - 1
  <2>1. k # n
    <3>1. Encoding(str)[n] = utf8 /\ Len(utf8) # a
      BY <1>3, <1>a
    <3> QED BY <1>3, <3>1
  <2> QED BY <1>2, <1>3, <1>a, <2>1
<1>5. PICK c : c = str[k + 1]
  OBVIOUS
<1>6. c \in Nat /\ 0 < c /\ c < 256
  <2>1. k + 1 \in 1 .. Len(str)
    BY <1>2, <1>4, <1>a
  <2> QED BY <1>5, <2>1 DEF OneByte
<1>7. Width(utf8[a + 1]) # 3
  <2>1. PICK s, w, e : s = str /\ w = Width(utf8[a + 1]) /\ e = Encoding(s)
    OBVIOUS
  <2>2. /\ s \in Seq(CodePoint) /\ utf8 = Encoding(s)[Len(s)]
        /\ k \in 0 .. Len(s) - 1 /\ a = Len(Encoding(s)[k])
    BY <1>1, <1>3, <1>4, <1>a, <2>1
  <2>3. a + w = Len(e[k + 1])
    BY <2>1, <2>2, OneCharacter
  <2>4. Len(e[k + 1]) = Len(e[k]) + Len(UTF8(c)) /\ e[k] \in Seq(Nat)
    BY <1>5, <2>1, <2>2, NextCharacter
  <2>5. c \in CodePoint
    BY <1>6 DEF CodePoint
  <2>6. Len(UTF8(c)) \in {1, 2}
    BY <1>6, <2>5, UTF8Bytes
  <2>7. a \in Nat /\ Len(e[k]) = a
    BY <2>1, <2>2, <2>4
  <2>8. w \in Nat
    BY <2>1 DEF Width
  <2>9. a + w = a + Len(UTF8(c))
    BY <2>3, <2>4, <2>7
  <2>10. w # 3
    <3>1. PICK m \in {1, 2}, p \in Nat, q \in Nat : m = Len(UTF8(c)) /\ p = a /\ q = w
      BY <2>6, <2>7, <2>8
    <3>2. p + q = p + m
      BY <2>9, <3>1
    <3> QED BY <3>1, <3>2
  <2> QED BY <2>1, <2>10
<1> QED BY <1>7 DEF Surrogate

\* A round of char2hex.
LEMMA EncodeStep == CodecInv /\ Encode => CodecInv'
<1> SUFFICES ASSUME CodecInv, Encode PROVE CodecInv'
  OBVIOUS
<1>1. CASE ~ Surrogate(Width(utf8[a + 1]))
  BY <1>1, EncodeReads
<1>2. CASE Surrogate(Width(utf8[a + 1]))
  <2>1. /\ pc = "encode" /\ pc' = "error" /\ arg' = arg /\ fmt' = fmt /\ str' = str
        /\ text' = text /\ hex' = hex /\ idx' = idx /\ a' = a /\ buf' = buf
        /\ a < Len(utf8)
    BY <1>2 DEF Encode, Goto, textVars
  <2>2. ~ OneByte(str)
    BY <1>2, <2>1, LatinIsNoSurrogate
  <2>3. Typed'
    BY <2>1, LengthStays DEF CodecInv, Typed
  <2>4. Survived'
    BY <2>1, <2>2 DEF Survived
  <2> QED BY <2>1, <2>3, <2>4 DEF CodecInv, Beginning, Encoded, Decoded
<1> QED BY <1>1, <1>2

\* The end of char2hex: every character has been read.
LEMMA EncodeEndStep == CodecInv /\ EncodeEnd => CodecInv'
<1> SUFFICES ASSUME CodecInv, EncodeEnd PROVE CodecInv'
  OBVIOUS
<1>a. PICK s, e, k, n : s = Sent /\ e = Encoding(s) /\ k = idx /\ n = Len(s)
  OBVIOUS
<1>1. /\ pc = "encode" /\ pc' = "decode" /\ arg' = arg /\ fmt' = fmt /\ str' = str
      /\ text' = text /\ hex' = hex /\ idx' = idx /\ a' = 0
      /\ a = Len(utf8)
      /\ buf' = [buf EXCEPT ![k] = 0]
  BY <1>a DEF EncodeEnd, textVars
<1>2. /\ Typed /\ hex = << >> /\ utf8 = mxArrayToString(str)
      /\ k \in 0 .. n /\ a = Len(e[k])
      /\ \A i \in 0 .. k - 1 : buf[i] = s[i + 1] % 256
  BY <1>1, <1>a DEF CodecInv, Encoded
<1>3. str \in Seq(CodePoint) /\ buf \in [0 .. length -> Nat]
  BY <1>2 DEF Typed
<1>4. /\ s \in Seq(CodePoint) /\ n \in Nat /\ length \in Nat
      /\ n <= length /\ length' = length
      /\ OneByte(str) => s = str /\ length = n
  BY <1>1, <1>3, <1>a, SentFacts, LengthStays
<1>5. a = Len(e[n])
  BY <1>1, <1>2, <1>a DEF mxArrayToString, Sent
<1>6. k = n
  <2> SUFFICES ASSUME k # n PROVE FALSE
    OBVIOUS
  <2>1. k \in 0 .. n - 1 /\ k + 1 \in 0 .. n /\ n \in (k + 1) .. n
    BY <1>2, <1>4
  <2>2. /\ s[k + 1] \in CodePoint /\ e[k] \in Seq(Nat) /\ e[k + 1] \in Seq(Nat)
        /\ Len(e[k + 1]) = Len(e[k]) + Len(UTF8(s[k + 1]))
    BY <1>4, <1>a, <2>1, NextCharacter
  <2>3. Len(UTF8(s[k + 1])) \in {1, 2, 3, 4}
    BY <2>2, UTF8Bytes
  <2>4. Len(e[k + 1]) <= Len(e[n])
    BY <1>4, <1>a, <2>1, EncodingPrefix
  <2>5. Len(e[k]) \in Nat
    BY <2>2
  <2>6. PICK x, y : x = Len(e[k]) /\ y = Len(UTF8(s[k + 1]))
    OBVIOUS
  <2>7. x \in Nat /\ y \in {1, 2, 3, 4} /\ x + y <= x
    BY <1>2, <1>5, <2>2, <2>3, <2>4, <2>5, <2>6
  <2> QED BY <2>7
<1>7. buf' \in [0 .. length -> Nat]
  BY <1>1, <1>3
<1>8. Typed'
  BY <1>1, <1>2, <1>4, <1>7 DEF Typed
<1>9. Len(hex') = 0
  BY <1>1, <1>2
<1>10. ASSUME OneByte(str)
       PROVE  hex' = Encoding(str)[0] /\ \A i \in 0 .. Len(str) - 1 : buf'[i] = str[i + 1]
  <2>1. s = str /\ length = n
    BY <1>4, <1>10
  <2>2. hex' = Encoding(str)[0]
    BY <1>1, <1>2, <1>3, EncodingValue
  <2>3. ASSUME NEW i \in 0 .. n - 1 PROVE buf'[i] = s[i + 1]
    <3>a. n \in Nat /\ length \in Nat /\ n <= length /\ n = Len(s) /\ k = n
      BY <1>4, <1>6, <1>a
    <3>b. i \in Int /\ 0 <= i /\ i <= n - 1
      OBVIOUS
    <3>c. i \in 0 .. length /\ i # n /\ i + 1 \in 1 .. n
      BY <3>a, <3>b
    <3>1. i \in 0 .. k - 1 /\ i \in 0 .. length /\ i # k /\ i + 1 \in 1 .. Len(s)
      BY <3>a, <3>c
    <3>2. buf'[i] = s[i + 1] % 256
      BY <1>1, <1>2, <1>3, <3>1
    <3>3. s[i + 1] \in Nat /\ s[i + 1] < 256
      BY <1>10, <2>1, <3>1 DEF OneByte
    <3> QED BY <3>2, <3>3
  <2> QED BY <1>a, <2>1, <2>2, <2>3
<1>11. a' <= length' /\ idx' <= length' /\ Len(hex') <= 2 * a'
  BY <1>1, <1>4, <1>6, <1>9, <1>a
<1>12. OneByte(str') => /\ hex' = Encoding(str')[a']
                        /\ \A i \in 0 .. Len(str') - 1 : buf'[i] = str'[i + 1]
  BY <1>1, <1>10
<1>13. Decoded'
  BY <1>11, <1>12 DEF Decoded
<1> QED BY <1>1, <1>8, <1>13 DEF CodecInv, Beginning, Encoded, Survived

\* A round of hex2char: two bytes at most, and for a character of one byte those
\* that MATLAB had given for it.
LEMMA DecodeStep == CodecInv /\ Decode => CodecInv'
<1> SUFFICES ASSUME CodecInv, Decode PROVE CodecInv'
  OBVIOUS
<1>a. PICK b, t : /\ b = buf[a]
                  /\ t = IF b < 128 THEN <<b>> ELSE <<192 + b \div 64, 128 + (b % 64)>>
  OBVIOUS
<1>b. PICK k, h : k = a /\ h = hex
  OBVIOUS
<1>1. /\ pc = "decode" /\ pc' = pc /\ arg' = arg /\ fmt' = fmt /\ str' = str
      /\ text' = text /\ idx' = idx /\ buf' = buf
      /\ k < length /\ hex' = h \o t /\ a' = k + 1
  BY <1>a, <1>b DEF Decode, textVars
<1>2. /\ Typed /\ k <= length /\ idx <= length /\ Len(h) <= 2 * k
      /\ OneByte(str) =>
           /\ h = Encoding(str)[k]
           /\ \A i \in 0 .. Len(str) - 1 : buf[i] = str[i + 1]
  BY <1>1, <1>b DEF CodecInv, Decoded
<1>3. /\ str \in Seq(CodePoint) /\ buf \in [0 .. length -> Nat]
      /\ k \in Nat /\ h \in Seq(Nat)
  BY <1>2, <1>b DEF Typed
<1>4. /\ length \in Nat /\ length' = length
      /\ OneByte(str) => length = Len(str)
  BY <1>1, <1>3, SentFacts, LengthStays
<1>5. b \in Nat
  <2>1. k \in 0 .. length
    BY <1>1, <1>3, <1>4
  <2> QED BY <1>3, <1>a, <1>b, <2>1
<1>6. t \in Seq(Nat) /\ Len(t) \in {1, 2}
  <2>1. CASE b < 128
    BY <1>5, <1>a, <2>1
  <2>2. CASE ~ (b < 128)
    <3>1. PICK x \in Nat, y \in Nat : x = 192 + b \div 64 /\ y = 128 + (b % 64)
      BY <1>5
    <3>2. t = <<x, y>>
      BY <1>a, <2>2, <3>1
    <3> QED BY <3>2
  <2> QED BY <2>1, <2>2
<1>7. /\ h \o t \in Seq(Nat)
      /\ Len(h \o t) <= 2 * (k + 1)
      /\ k + 1 \in Nat /\ k + 1 <= length
  <2>1. h \o t \in Seq(Nat) /\ Len(h \o t) = Len(h) + Len(t) /\ Len(h) \in Nat
    BY <1>3, <1>6
  <2>2. PICK x, y, l : x = Len(h) /\ y = Len(t) /\ l = length
    OBVIOUS
  <2>3. x \in Nat /\ y \in {1, 2} /\ x <= 2 * k /\ k < l /\ l \in Nat /\ k \in Nat
    BY <1>1, <1>2, <1>3, <1>4, <1>6, <2>1, <2>2
  <2>4. x + y <= 2 * (k + 1) /\ k + 1 \in Nat /\ k + 1 <= l
    BY <2>3
  <2> QED BY <2>1, <2>2, <2>4
<1>8. hex' \in Seq(Nat) /\ a' \in Nat /\ Len(hex') <= 2 * a' /\ Len(hex') <= 2 * length'
  <2>1. Len(h \o t) \in Nat
    BY <1>7
  <2> QED BY <1>1, <1>4, <1>7, <2>1
<1>9. Typed'
  BY <1>1, <1>2, <1>4, <1>8 DEF Typed
<1>10. ASSUME OneByte(str) PROVE h \o t = Encoding(str)[k + 1]
  <2>1. k + 1 \in 1 .. Len(str) /\ k \in 0 .. Len(str) - 1
    BY <1>1, <1>3, <1>4, <1>10
  <2>2. b = str[k + 1]
    BY <1>2, <1>10, <1>a, <1>b, <2>1
  <2>3. t = UTF8(b)
    <3>1. b < 256
      BY <1>10, <2>1, <2>2 DEF OneByte
    <3>2. b < 2048
      BY <1>5, <3>1
    <3> QED BY <1>a, <3>2 DEF UTF8
  <2>4. Encoding(str)[k + 1] = Encoding(str)[(k + 1) - 1] \o UTF8(str[k + 1])
    BY <1>3, <2>1, EncodingValue
  <2>5. (k + 1) - 1 = k
    BY <1>3
  <2> QED BY <1>2, <1>10, <2>2, <2>3, <2>4, <2>5
<1>11. OneByte(str') => /\ hex' = Encoding(str')[a']
                        /\ \A i \in 0 .. Len(str') - 1 : buf'[i] = str'[i + 1]
  BY <1>1, <1>2, <1>10
<1>12. a' <= length' /\ idx' <= length'
  BY <1>1, <1>2, <1>4, <1>7
<1>13. Decoded'
  BY <1>8, <1>11, <1>12 DEF Decoded
<1> QED BY <1>1, <1>9, <1>13 DEF CodecInv, Beginning, Encoded, Survived

\* The end of hex2char, and MATLAB's string.
LEMMA DecodeEndStep == CodecInv /\ DecodeEnd => CodecInv'
<1> SUFFICES ASSUME CodecInv, DecodeEnd PROVE CodecInv'
  OBVIOUS
<1>1. /\ pc = "decode" /\ pc' = "end" /\ arg' = arg /\ fmt' = fmt /\ str' = str
      /\ text' = text /\ idx' = idx /\ buf' = buf /\ hex' = hex /\ a' = a
      /\ a = length /\ fetched' = mxCreateString(hex)
  BY DEF DecodeEnd, textVars
<1>2. Typed /\ Decoded
  BY DEF CodecInv
<1>3. str \in Seq(CodePoint) /\ length' = length
  BY <1>1, <1>2, LengthStays DEF Typed
<1>4. Typed'
  BY <1>1, <1>2, <1>3 DEF Typed
<1>5. ASSUME OneByte(str) PROVE fetched' = str
  <2>1. length = Len(str)
    BY <1>3, <1>5, SentFacts
  <2>2. hex = Encoding(str)[Len(str)]
    BY <1>1, <1>2, <1>5, <2>1 DEF Decoded
  <2>3. mxCreateString(Encoding(str)[Len(str)]) = str
    <3>1. PICK s : s = str
      OBVIOUS
    <3> QED BY <1>3, <1>5, <3>1, CreateReadsEncoding
  <2> QED BY <1>1, <2>2, <2>3
<1>6. Survived'
  BY <1>1, <1>5 DEF Survived
<1> QED BY <1>1, <1>4, <1>6 DEF CodecInv, Beginning, Encoded, Decoded

LEMMA StutterStep == CodecInv /\ UNCHANGED vars => CodecInv'
<1> SUFFICES ASSUME CodecInv, UNCHANGED vars PROVE CodecInv'
  OBVIOUS
<1>1. /\ arg' = arg /\ fmt' = fmt /\ str' = str /\ text' = text /\ utf8' = utf8
      /\ pc' = pc /\ a' = a /\ idx' = idx /\ buf' = buf /\ hex' = hex /\ fetched' = fetched
  BY DEF vars, textVars, loopVars
<1>2. length' = length /\ Sent' = Sent
  BY <1>1, LengthStays DEF Sent
<1>3. Typed'
  BY <1>1, <1>2 DEF CodecInv, Typed
<1>4. Beginning' /\ Survived'
  BY <1>1 DEF CodecInv, Beginning, Survived
<1>5. Encoded'
  BY <1>1, <1>2 DEF CodecInv, Encoded
<1>6. Decoded'
  BY <1>1, <1>2 DEF CodecInv, Decoded
<1> QED BY <1>3, <1>4, <1>5, <1>6 DEF CodecInv

\* The invariant holds of every string and number (mym.cpp:1626-1706,
\* 2084-2158).
THEOREM TextInductive == Spec => []CodecInv
<1>1. CodecInv /\ [Next]_vars => CodecInv'
  BY SerializeStep, EncodeStep, EncodeEndStep, DecodeStep, DecodeEndStep, StutterStep
     DEF Next, Finished
<1> QED BY InvInit, <1>1, PTL DEF Spec

-----------------------------------------------------------------------------
(* Buffers, strings and numbers *)

\* Neither char2hex nor hex2char leaves its buffer, for strings of any
\* characters and any length (mym.cpp:2086, 2116, 2133-2156).
THEOREM BuffersAlwaysSuffice == Spec => []BuffersSuffice
<1>1. CodecInv => BuffersSuffice
  <2> SUFFICES ASSUME CodecInv PROVE BuffersSuffice
    OBVIOUS
  <2>1. str \in Seq(CodePoint) /\ idx \in Nat /\ hex \in Seq(Nat) /\ Len(hex) <= 2 * length
    BY DEF CodecInv, Typed
  <2>2. /\ length \in Nat /\ Len(Sent) \in Nat /\ Len(str) \in Nat
        /\ Len(Sent) <= Len(str) /\ Len(str) <= length
    BY <2>1, SentFacts
  <2>3. pc = "encode" => idx < length + 1
    <3>1. pc = "encode" => idx <= Len(Sent)
      BY <2>2 DEF CodecInv, Encoded
    <3> QED BY <2>1, <2>2, <3>1
  <2>4. pc = "decode" => idx < length + 1
    BY <2>1, <2>2 DEF CodecInv, Decoded
  <2>5. length > 0 => Len(hex) + 1 <= 4 * length
    <3>1. Len(hex) \in Nat
      BY <2>1
    <3> QED BY <2>1, <2>2, <3>1
  <2> QED BY <2>3, <2>4, <2>5 DEF BuffersSuffice, BufferSize, HexSize
<1> QED BY <1>1, TextInductive, PTL

\* A string of characters of one byte, of any length, is never refused and comes
\* back as it was (mym.cpp:1641, 1020, 2139).
THEOREM LatinAlwaysSurvives == Spec => []LatinSurvives
<1>1. CodecInv => LatinSurvives
  <2> SUFFICES ASSUME CodecInv, arg = Row, \A k \in DOMAIN str : str[k] \in 1 .. 255
               PROVE  pc # "error" /\ (pc = "end" => fetched = str)
    BY DEF LatinSurvives
  <2>1. OneByte(str)
    <3>1. DOMAIN str = 1 .. Len(str)
      BY DEF CodecInv, Typed
    <3>2. ASSUME NEW k \in 1 .. Len(str)
          PROVE  str[k] \in Nat /\ 0 < str[k] /\ str[k] < 256
      <4>1. str[k] \in 1 .. 255
        BY <3>1
      <4>2. PICK c : c = str[k]
        OBVIOUS
      <4>3. c \in 1 .. 255
        BY <4>1, <4>2
      <4>4. c \in Nat /\ 0 < c /\ c < 256
        BY <4>3
      <4> QED BY <4>2, <4>4
    <3> QED BY <3>2 DEF OneByte
  <2> QED BY <2>1 DEF CodecInv, Survived
<1> QED BY <1>1, TextInductive, PTL

\* The floor of an integer is the integer an int is made of.
LEMMA IntegerStands ==
    ASSUME NEW v \in Int, NEW t, t = Decimal(v \div Unit, 0)
    PROVE  t.decimals = 0 /\ Stands(t) = v \div Unit
<1>1. PICK q \in Int : q = v \div 4
  OBVIOUS
<1>3. t = [neg |-> q < 0, coeff |-> Abs(q), decimals |-> 0]
  BY <1>1 DEF Decimal, Unit
<1>n. t.neg = (q < 0)
  <2>1. PICK n : n = (q < 0)
    OBVIOUS
  <2>2. t = [neg |-> n, coeff |-> Abs(q), decimals |-> 0]
    BY <1>3, <2>1, Zenon
  <2>3. t.neg = n
    BY <2>2
  <2> QED BY <2>1, <2>3, Zenon
<1>c. t.coeff = Abs(q)
  BY <1>3
<1>4. Stands(t) = q
  <2>1. CASE q < 0
    <3>1. Abs(q) = -q
      BY <2>1 DEF Abs
    <3>2. t.neg /\ t.coeff = -q
      BY <1>n, <1>c, <2>1, <3>1, Zenon
    <3>3. Stands(t) = -(-q)
      BY <3>2 DEF Stands
    <3> QED BY <3>3
  <2>2. CASE ~ (q < 0)
    <3>1. Abs(q) = q
      BY <2>2 DEF Abs
    <3>2. ~ t.neg /\ t.coeff = q
      BY <1>n, <1>c, <2>2, <3>1, Zenon
    <3> QED BY <3>2 DEF Stands
  <2> QED BY <2>1, <2>2
<1> QED BY <1>1, <1>3, <1>4 DEF Unit

\* A number that is rounded to some decimals is off by half a unit at most.
LEMMA DecimalsStand ==
    ASSUME NEW x, x.val \in Int, NEW d \in Nat, NEW t \in ToDecimals(x, d)
    PROVE  /\ t.decimals = d
           /\ 2 * Abs(Unit * Stands(t) - x.val * 10^t.decimals) <= Unit
<1>1. PICK T \in Int : T = 10^d
  OBVIOUS
<1>2. PICK v \in Int : v = x.val
  OBVIOUS
<1>3. PICK P : P = Abs(v) * T
  OBVIOUS
<1>4. P \in Int /\ v * T = IF v < 0 THEN -P ELSE P
  BY <1>3 DEF Abs
<1>5. PICK q \in Int, r \in Nat : q = P \div 4 /\ r = P % 4 /\ P = 4 * q + r /\ r < 4
  BY <1>4
<1>6. PICK c \in Int :
         /\ c = q \/ c = q + 1
         /\ 2 * r > 4 => c = q + 1
         /\ 2 * r < 4 => c = q
         /\ t = [neg |-> v < 0, coeff |-> c, decimals |-> d]
  <2>1. PICK up \in BOOLEAN :
           /\ 2 * r > 4 => up
           /\ 2 * r < 4 => ~ up
           /\ t = [neg |-> v < 0, coeff |-> IF up THEN q + 1 ELSE q, decimals |-> d]
    <3>1. PICK up : up = (2 * r > 4 \/ (2 * r = 4 /\ q % 2 = 1))
      OBVIOUS
    <3>2. t = [neg |-> v < 0, coeff |-> IF up THEN q + 1 ELSE q, decimals |-> d]
      BY <1>1, <1>2, <1>3, <1>5, <3>1 DEF ToDecimals, Unit
    <3>3. up \in BOOLEAN
      BY <3>1, Zenon
    <3>4. ASSUME 2 * r > 4 PROVE up
      BY <3>1, <3>4
    <3>5. ASSUME 2 * r < 4 PROVE ~ up
      <4>1. ~ (2 * r > 4) /\ ~ (2 * r = 4)
        BY <3>5
      <4> QED BY <3>1, <4>1, Zenon
    <3> QED BY <3>2, <3>3, <3>4, <3>5, Zenon
  <2>2. CASE up
    BY <2>1, <2>2
  <2>3. CASE ~ up
    BY <2>1, <2>3
  <2> QED BY <2>1, <2>2, <2>3
<1>7. Stands(t) = (IF v < 0 THEN -c ELSE c) /\ t.decimals = d
  BY <1>6 DEF Stands
<1>8. PICK z \in Int : z = 4 * (IF v < 0 THEN -c ELSE c) - (IF v < 0 THEN -P ELSE P)
  <2>1. CASE v < 0
    <3>1. 4 * (-c) - (-P) \in Int
      BY <1>4
    <3> QED BY <2>1, <3>1
  <2>2. CASE ~ (v < 0)
    <3>1. 4 * c - P \in Int
      BY <1>4
    <3> QED BY <2>2, <3>1
  <2> QED BY <2>1, <2>2
<1>9. 2 * z <= 4 /\ 2 * (-z) <= 4
  BY <1>4, <1>5, <1>6, <1>8
<1>10. Unit * Stands(t) - x.val * 10^t.decimals = z
  BY <1>1, <1>2, <1>4, <1>7, <1>8 DEF Unit
<1> QED BY <1>7, <1>9, <1>10 DEF Abs, Unit

\* Integers are exact and {Si} takes the floor, as far as an int goes; any other
\* double has the decimals that were asked for and is off by half a unit of the
\* last one at most, whatever the argument, the number of decimals and the width
\* of an int are (mym.cpp:1644-1701).
THEOREM NumbersAlwaysSurvive == Spec => []NumbersSurvive
<1>1. CodecInv => NumbersSurvive
  <2> SUFFICES ASSUME CodecInv, text # NoText PROVE NumbersSurvive
    BY DEF NumbersSurvive
  <2>1. text \in Printed(arg, fmt) /\ fmt \in Formats /\ (arg = Row \/ arg \in Arguments)
    BY DEF CodecInv, Typed
  <2>2. arg.val \in Int /\ fmt.n \in Int
    BY <2>1, TextAssumption DEF Row
  <2>3. ASSUME AsInteger(arg, fmt), InInt(arg)
        PROVE  text.decimals = 0 /\ Stands(text) = arg.val \div Unit
    <3>1. text = Decimal(arg.val \div Unit, 0)
      BY <2>1, <2>3 DEF Printed, ToInteger
    <3>2. PICK v, t : v = arg.val /\ t = text
      OBVIOUS
    <3>3. t.decimals = 0 /\ Stands(t) = v \div Unit
      BY <2>2, <3>1, <3>2, IntegerStands
    <3> QED BY <3>2, <3>3
  <2>4. ASSUME arg.class \in {"int8", "uint8", "int32", "logical"}
        PROVE  text.decimals = 0 /\ Unit * Stands(text) = arg.val
    <3>1. arg.class \in Classes \ Floats /\ arg # Row /\ arg.class # "uint32"
      BY <2>4 DEF Classes, Floats, Row
    <3>2. arg.val % Unit = 0 /\ InInt(arg)
      BY <2>1, <3>1, TextAssumption
    <3>3. AsInteger(arg, fmt)
      BY <3>1 DEF AsInteger
    <3>4. PICK v \in Int : v = arg.val
      BY <2>2
    <3>5. v % 4 = 0 => 4 * (v \div 4) = v
      OBVIOUS
    <3> QED BY <2>3, <3>2, <3>3, <3>4, <3>5 DEF Unit
  <2>5. ASSUME arg.class = "uint32" PROVE AsInteger(arg, fmt)
    BY <2>5 DEF AsInteger, Floats
  <2>6. ASSUME fmt.i, ~ fmt.u PROVE AsInteger(arg, fmt)
    BY <2>6, Zenon DEF AsInteger, AsksInteger
  <2>7. ASSUME arg.class \in Floats, fmt.i => fmt.u
        PROVE  /\ text.decimals = IF fmt.u \/ fmt.n <= 0 THEN 6 ELSE fmt.n
               /\ 2 * Abs(Unit * Stands(text) - arg.val * 10^text.decimals) <= Unit
    <3>1. ~ AsInteger(arg, fmt)
      BY <2>7, Zenon DEF AsInteger, AsksInteger
    <3>2. PICK d : d = Decimals(fmt)
      OBVIOUS
    <3>3. d = IF fmt.u \/ fmt.n <= 0 THEN 6 ELSE fmt.n
      <4>1. CASE fmt.u
        BY <3>2, <4>1, Zenon DEF Decimals
      <4>2. CASE ~ fmt.u
        <5>1. ~ fmt.i
          BY <2>7, <4>2, Zenon
        <5> QED BY <3>2, <4>2, <5>1, Zenon DEF Decimals
      <4> QED BY <4>1, <4>2
    <3>4. d \in Nat
      BY <2>2, <3>3
    <3>5. text \in ToDecimals(arg, d)
      BY <2>1, <3>1, <3>2, Zenon DEF Printed
    <3>6. PICK x, t : x = arg /\ t = text
      OBVIOUS
    <3>7. t.decimals = d /\ 2 * Abs(Unit * Stands(t) - x.val * 10^t.decimals) <= Unit
      BY <2>2, <3>4, <3>5, <3>6, DecimalsStand
    <3> QED BY <3>3, <3>6, <3>7
  <2> QED BY <2>3, <2>4, <2>5, <2>6, <2>7, Zenon DEF NumbersSurvive
<1> QED BY <1>1, TextInductive, PTL
=============================================================================
