--------------------------- MODULE QueryBuildProofs ---------------------------
(***************************************************************************)
(* Proofs about QueryBuild, for any number of placeholders and any lengths *)
(* of the query and of the values.                                         *)
(***************************************************************************)
EXTENDS QueryBuild, TLAPS

\* The buffer compress() writes to only grows.
LEMMA BufferType ==
    ASSUME cmpBuf \in Nat, NEW size \in Nat
    PROVE  GrownBuffer(size) \in Nat /\ GrownBuffer(size) >= compressBound(size)
                                    /\ GrownBuffer(size) >= cmpBuf
  BY DEF GrownBuffer, compressBound

\* The types in the form in which the steps use them.
LEMMA Types ==
    ASSUME TypeOK
    PROVE  /\ n \in Nat /\ n >= 1 /\ i \in 0 .. n /\ i \in Nat
           /\ len \in Nat /\ cmpBuf \in Nat
           /\ pnq \in Nat /\ poq \in Nat /\ high \in Nat
           /\ \A k \in 1 .. n : po[k] \in Nat /\ pcl[k] \in Nat /\ plen[k] \in Nat
           /\ \A k \in 0 .. n : acc[k] \in Nat
<1>1. n \in 1 .. MaxPlaceholders /\ MaxPlaceholders \in Nat /\ MaxLength \in Nat
  BY BuildAssumption DEF TypeOK
<1>2. i \in 0 .. n /\ cmpBuf \in Nat /\ pnq \in Nat /\ poq \in Nat /\ high \in Nat
  BY DEF TypeOK
<1>3. len \in Nat
  BY <1>1 DEF TypeOK
<1>4. ASSUME NEW k \in 1 .. n
      PROVE  po[k] \in Nat /\ pcl[k] \in Nat /\ plen[k] \in Nat
  <2>1. po[k] \in 0 .. MaxLength /\ pcl[k] \in 0 .. MaxLength /\ plen[k] \in Nat
    BY DEF TypeOK
  <2> QED BY <1>1, <2>1
<1>5. \A k \in 0 .. n : acc[k] \in Nat
  BY DEF TypeOK
<1> QED BY <1>1, <1>2, <1>3, <1>4, <1>5

\* The invariant holds at the start.
LEMMA StartsRight == Init => BuildInv
<1> SUFFICES ASSUME Init PROVE BuildInv
  OBVIOUS
<1>1. TypeOK
  BY BuildAssumption DEF Init, TypeOK
<1>2. Placed
  BY DEF Init, Placed
<1>3. Summed(0)
  BY DEF Init, Summed
<1> QED BY <1>1, <1>2, <1>3 DEF Init, BuildInv

\* One round of the first loop: the value is some number of bytes, and the
\* sums go on growing.
LEMMA SerializeStep == BuildInv /\ Serialize => BuildInv'
<1> SUFFICES ASSUME BuildInv, Serialize PROVE BuildInv'
  OBVIOUS
<1>1. /\ stage = "serialize" /\ stage' = stage /\ i < n /\ i' = i + 1
      /\ UNCHANGED <<n, len, po, pcl, pec, pnq, poq, high>>
  BY DEF Serialize, inputs
<1>2. i \in Nat /\ n \in Nat /\ i + 1 \in 1 .. n
  BY <1>1, Types DEF BuildInv
<1>3. PICK size \in 0 .. MaxData :
          /\ raw' = [raw EXCEPT ![i + 1] = size]
          /\ \/ Keep(size)
             \/ \E packed \in 0 .. compressBound(size) : Pack(size, packed)
  BY DEF Serialize
<1>4. PICK m \in Nat : plen' = [plen EXCEPT ![i + 1] = m]
  <2>1. CASE Keep(size)
    <3>1. size \in Nat
      BY BuildAssumption
    <3> QED BY <2>1, <3>1 DEF Keep
  <2>2. ASSUME NEW packed \in 0 .. compressBound(size), Pack(size, packed)
        PROVE  \E m \in Nat : plen' = [plen EXCEPT ![i + 1] = m]
    <3>1. size \in Nat
      BY BuildAssumption
    <3>2. Header + packed \in Nat
      BY <3>1, BuildAssumption DEF compressBound
    <3> QED BY <2>2, <3>2 DEF Pack
  <2> QED BY <1>3, <2>1, <2>2
<1>5. cmpBuf' \in Nat
  <2>1. size \in Nat /\ cmpBuf \in Nat
    BY BuildAssumption DEF BuildInv, TypeOK
  <2>2. GrownBuffer(size) \in Nat
    BY <2>1, BufferType
  <2>3. cmpBuf' = GrownBuffer(size) \/ cmpBuf' = cmpBuf
    BY <1>3 DEF Keep, Pack
  <2> QED BY <2>1, <2>2, <2>3
<1>6. acc' = [acc EXCEPT ![i + 1] = acc[i] + m]
  BY <1>2, <1>4 DEF Serialize, Adds, BuildInv, TypeOK
<1>7. acc[i] \in Nat /\ acc[i] + m \in Nat
  BY <1>2, Types DEF BuildInv
<1>8. TypeOK'
  <2>1. raw' \in [1 .. n -> 0 .. MaxData]
    BY <1>3 DEF BuildInv, TypeOK
  <2>2. plen' \in [1 .. n -> Nat]
    BY <1>4 DEF BuildInv, TypeOK
  <2>3. acc' \in [0 .. n -> Nat]
    BY <1>6, <1>7 DEF BuildInv, TypeOK
  <2>4. i' \in 0 .. n
    BY <1>1, <1>2
  <2>5. TypeOK
    BY DEF BuildInv
  <2> QED BY <1>1, <1>5, <2>1, <2>2, <2>3, <2>4, <2>5 DEF TypeOK
<1>9. Placed'
  BY <1>1 DEF BuildInv, Placed
<1>10. Summed(i)'
  <2>1. Summed(i)
    BY <1>1 DEF BuildInv
  <2>2. acc'[i + 1] = acc[i] + m /\ \A k \in 0 .. i : acc'[k] = acc[k]
    <3>1. acc \in [0 .. n -> Nat]
      BY DEF BuildInv, TypeOK
    <3>2. i + 1 \in 0 .. n /\ \A k \in 0 .. i : k \in 0 .. n /\ k # i + 1
      BY <1>2
    <3> QED BY <1>6, <3>1, <3>2
  <2>3. plen'[i + 1] = m /\ \A k \in 1 .. i : plen'[k] = plen[k]
    <3>1. plen \in [1 .. n -> Nat]
      BY DEF BuildInv, TypeOK
    <3>2. \A k \in 1 .. i : k \in 1 .. n /\ k # i + 1
      BY <1>2
    <3> QED BY <1>2, <1>4, <3>1, <3>2
  <2>4. acc'[0] = 0
    BY <1>2, <2>1, <2>2 DEF Summed
  <2>5. ASSUME NEW k \in 1 .. (i + 1)
        PROVE  acc'[k] = acc'[k - 1] + plen'[k]
    <3>1. CASE k = i + 1
      BY <1>2, <2>2, <2>3, <3>1
    <3>2. CASE k \in 1 .. i
      BY <1>2, <2>1, <2>2, <2>3, <3>2 DEF Summed
    <3> QED BY <1>2, <3>1, <3>2
  <2>6. ASSUME NEW j \in 0 .. (i + 1), NEW k \in 0 .. (i + 1), j <= k
        PROVE  acc'[j] <= acc'[k]
    <3>1. CASE k \in 0 .. i
      BY <1>2, <2>1, <2>2, <2>6, <3>1 DEF Summed
    <3>2. CASE k = i + 1 /\ j \in 0 .. i
      <4>1. acc[j] <= acc[i] /\ acc[j] \in Nat
        BY <1>2, <2>1, <3>2 DEF Summed, BuildInv, TypeOK
      <4> QED BY <1>7, <2>2, <3>2, <4>1
    <3>3. CASE k = i + 1 /\ j = i + 1
      BY <1>7, <2>2, <3>3
    <3>4. j \in Nat /\ k \in Nat /\ k <= i + 1 /\ j <= k
      BY <1>2, <2>6
    <3>5. \/ k \in 0 .. i
          \/ k = i + 1 /\ j \in 0 .. i
          \/ k = i + 1 /\ j = i + 1
      BY <1>2, <3>4
    <3> QED BY <3>1, <3>2, <3>3, <3>5
  <2> QED BY <1>1, <2>4, <2>5, <2>6 DEF Summed
<1>11. pnq' = 0 /\ poq' = 0 /\ high' = 0
  BY <1>1 DEF BuildInv
<1> QED BY <1>1, <1>8, <1>9, <1>10, <1>11 DEF BuildInv

\* Before the first byte is copied nothing is written.
LEMMA AllocateStep == BuildInv /\ Allocate => BuildInv'
<1> SUFFICES ASSUME BuildInv, Allocate PROVE BuildInv'
  OBVIOUS
<1>1. /\ stage = "serialize" /\ stage' = "build" /\ i = n /\ i' = 0
      /\ UNCHANGED <<n, len, po, pcl, pec, raw, plen, cmpBuf, acc, pnq, poq, high>>
  BY DEF Allocate, inputs
<1>2. TypeOK'
  <2>1. TypeOK
    BY DEF BuildInv
  <2>2. n \in Nat
    BY <2>1, Types
  <2>3. i' \in 0 .. n
    BY <1>1, <2>2
  <2> QED BY <1>1, <2>1, <2>3 DEF TypeOK
<1>3. Placed'
  BY <1>1 DEF BuildInv, Placed
<1>4. Summed(n) /\ Summed(n)'
  BY <1>1 DEF BuildInv, Summed
<1>5. Grown' /\ Consumed'
  BY <1>1, <1>4 DEF BuildInv, Grown, Consumed, Summed
<1> QED BY <1>1, <1>2, <1>3, <1>4, <1>5 DEF BuildInv

\* One round of the second loop: at most two bytes for each byte of the value
\* are written, and one for each byte of the old query.
LEMMA CopyOneStep == BuildInv /\ CopyOne => BuildInv'
<1> SUFFICES ASSUME BuildInv, CopyOne PROVE BuildInv'
  OBVIOUS
<1>1. /\ stage = "build" /\ stage' = "build" /\ i < n /\ i' = i + 1
      /\ poq' = pcl[i + 1] + 1
      /\ UNCHANGED <<n, len, po, pcl, pec, raw, plen, cmpBuf, acc>>
  BY DEF CopyOne, inputs
<1>2. i \in Nat /\ n \in Nat /\ i + 1 \in 1 .. n /\ i' \in 0 .. n
  BY <1>1, Types DEF BuildInv
<1>3. PICK escaped \in plen[i + 1] .. 2 * plen[i + 1] :
          pnq' = pnq + (po[i + 1] - poq) + escaped /\ Writes(pnq' + 1)
  BY DEF CopyOne
<1>4. /\ plen[i + 1] \in Nat /\ po[i + 1] \in Nat /\ pcl[i + 1] \in Nat
      /\ acc[i] \in Nat /\ acc[i + 1] \in Nat /\ len \in Nat
      /\ pnq \in Nat /\ poq \in Nat /\ high \in Nat
  BY <1>2, Types DEF BuildInv
<1>5. po[i + 1] < pcl[i + 1]
  BY <1>2 DEF BuildInv, Placed
<1>6. poq <= po[i + 1]
  <2>1. CASE i = 0
    BY <1>1, <1>4, <2>1 DEF BuildInv, Consumed
  <2>2. CASE i # 0
    <3>1. i \in 1 .. n - 1 /\ i \in 1 .. n
      BY <1>1, <1>2, <2>2
    <3>2. pcl[i] \in Nat
      BY <3>1, Types DEF BuildInv
    <3>3. poq = pcl[i] + 1 /\ pcl[i] < po[i + 1]
      BY <1>1, <2>2, <3>1 DEF BuildInv, Consumed, Placed
    <3> QED BY <1>4, <3>2, <3>3
  <2> QED BY <2>1, <2>2
<1>7. acc[i + 1] = acc[i] + plen[i + 1]
  <2>1. Summed(n)
    BY <1>1 DEF BuildInv
  <2>2. acc[i + 1] = acc[(i + 1) - 1] + plen[i + 1]
    BY <1>2, <2>1 DEF Summed
  <2> QED BY <1>2, <2>2
<1>8. pnq <= 2 * acc[i] + poq /\ high <= pnq + 1
  BY <1>1 DEF BuildInv, Grown
<1>9. pnq' \in Nat /\ pnq' >= pnq /\ pnq' <= 2 * acc[i + 1] + poq'
  BY <1>1, <1>3, <1>4, <1>5, <1>6, <1>7, <1>8
<1>10. high' \in Nat /\ high' <= pnq' + 1
  BY <1>3, <1>4, <1>8, <1>9 DEF Writes
<1>11. TypeOK'
  <2>1. poq' \in Nat
    BY <1>1, <1>4
  <2>2. TypeOK
    BY DEF BuildInv
  <2> QED BY <1>1, <1>2, <1>9, <1>10, <2>1, <2>2 DEF TypeOK
<1>12. Placed' /\ Summed(n)'
  BY <1>1 DEF BuildInv, Placed, Summed
<1>13. Grown'
  BY <1>1, <1>9, <1>10 DEF Grown
<1>14. Consumed'
  BY <1>1, <1>2 DEF Consumed
<1> QED BY <1>1, <1>11, <1>12, <1>13, <1>14 DEF BuildInv

\* The rest of the old query and its terminator still fit.
LEMMA CopyRestStep == BuildInv /\ CopyRest => BuildInv'
<1> SUFFICES ASSUME BuildInv, CopyRest PROVE BuildInv'
  OBVIOUS
<1>1. /\ stage = "build" /\ stage' = "done" /\ i = n
      /\ pnq' = pnq + (len - poq) + 1 /\ Writes(pnq')
      /\ UNCHANGED <<n, len, po, pcl, pec, i, raw, plen, cmpBuf, acc, poq>>
  BY DEF CopyRest, inputs
<1>2. /\ n \in Nat /\ n >= 1 /\ n \in 1 .. n /\ pcl[n] \in Nat /\ acc[n] \in Nat
      /\ len \in Nat /\ pnq \in Nat /\ poq \in Nat /\ high \in Nat
  BY Types DEF BuildInv
<1>3. poq = pcl[n] + 1 /\ pcl[n] < len
  BY <1>1, <1>2 DEF BuildInv, Consumed, Placed
<1>4. pnq <= 2 * acc[n] + poq /\ high <= pnq + 1
  BY <1>1 DEF BuildInv, Grown
<1>5. pnq' \in Nat /\ high' \in Nat /\ high' <= 2 * acc[n] + len + 1
  BY <1>1, <1>2, <1>3, <1>4 DEF Writes
<1>6. TypeOK'
  <2>1. TypeOK
    BY DEF BuildInv
  <2> QED BY <1>1, <1>5, <2>1 DEF TypeOK
<1>7. Placed' /\ Summed(n)'
  BY <1>1 DEF BuildInv, Placed, Summed
<1>8. (high <= Capacity)'
  BY <1>1, <1>5 DEF Capacity
<1> QED BY <1>1, <1>6, <1>7, <1>8 DEF BuildInv

\* The invariant holds at the start and every step keeps it.
THEOREM BuildInductive == Spec => []BuildInv
<1>1. BuildInv /\ UNCHANGED vars => BuildInv'
  BY DEF vars, inputs, BuildInv, TypeOK, Placed, Summed, Grown, Consumed, Capacity
<1>2. BuildInv /\ [Next]_vars => BuildInv'
  BY <1>1, SerializeStep, AllocateStep, CopyOneStep, CopyRestStep
     DEF Next, Finished
<1> QED BY StartsRight, <1>2, PTL DEF Spec

\* While the pieces are copied, the end of what was written stays within the
\* buffer: every value still to come has its two bytes per byte, and every
\* byte of the old query has one.
LEMMA GrownFits == BuildInv /\ stage = "build" => high <= Capacity
<1> SUFFICES ASSUME BuildInv, stage = "build" PROVE high <= Capacity
  OBVIOUS
<1>1. /\ i \in 0 .. n /\ n \in Nat /\ n \in 0 .. n /\ acc[i] \in Nat /\ acc[n] \in Nat
      /\ pnq \in Nat /\ poq \in Nat /\ high \in Nat /\ len \in Nat
  BY Types DEF BuildInv
<1>2. acc[i] <= acc[n]
  BY <1>1 DEF BuildInv, Summed
<1>3. poq <= len
  <2>1. CASE i = 0
    BY <1>1, <2>1 DEF BuildInv, Consumed
  <2>2. CASE i # 0
    <3>1. i \in 1 .. n /\ pcl[i] \in Nat
      BY <1>1, <2>2, Types DEF BuildInv
    <3> QED BY <1>1, <2>2, <3>1 DEF BuildInv, Consumed, Placed
  <2> QED BY <2>1, <2>2
<1>4. pnq <= 2 * acc[i] + poq /\ high <= pnq + 1
  BY DEF BuildInv, Grown
<1> QED BY <1>1, <1>2, <1>3, <1>4 DEF Capacity

\* No number of placeholders and no lengths make the copying loop write
\* behind the end of the buffer (mym.cpp:805-818).
THEOREM NeverOverrun == Spec => []FitsBuffer
<1>1. BuildInv => FitsBuffer
  BY GrownFits DEF BuildInv, TypeOK, FitsBuffer
<1> QED BY <1>1, BuildInductive, PTL

\* A round leaves the earlier values as they are, with a buffer that is no
\* smaller, and what it puts into the query is not longer than the value.
LEMMA PaysStep ==
    ASSUME BuildInv, CompressionPays, Serialize
    PROVE  CompressionPays'
<1>1. /\ stage = "serialize" /\ i \in Nat /\ i' = i + 1 /\ n \in Nat /\ i < n
      /\ UNCHANGED <<n, pec>> /\ cmpBuf \in Nat
  BY Types DEF BuildInv, Serialize, inputs
<1>2. PICK size \in 0 .. MaxData :
          /\ raw' = [raw EXCEPT ![i + 1] = size]
          /\ \/ Keep(size)
             \/ \E packed \in 0 .. compressBound(size) : Pack(size, packed)
  BY DEF Serialize
<1>3. size \in Nat /\ MinLenZlib \in Nat /\ Header \in Nat
  BY BuildAssumption
<1>4. GrownBuffer(size) \in Nat /\ GrownBuffer(size) >= cmpBuf
      /\ GrownBuffer(size) >= compressBound(size)
  BY <1>1, <1>3, BufferType
<1>5. PICK m \in Nat : plen' = [plen EXCEPT ![i + 1] = m] /\ m <= size
  <2>1. CASE Keep(size)
    <3>1. plen' = [plen EXCEPT ![i + 1] = size] /\ size <= size
      BY <1>3, <2>1 DEF Keep
    <3> QED BY <1>3, <3>1
  <2>2. ASSUME NEW packed \in 0 .. compressBound(size), Pack(size, packed)
        PROVE  \E m \in Nat : plen' = [plen EXCEPT ![i + 1] = m] /\ m <= size
    <3>1. packed \in Nat
      BY <1>3 DEF compressBound
    <3>2. Header + packed \in Nat /\ Header + packed <= size
      BY <1>3, <2>2, <3>1 DEF Pack
    <3> QED BY <2>2, <3>2 DEF Pack
  <2> QED BY <1>2, <2>1, <2>2
<1>6. /\ cmpBuf' \in Nat /\ cmpBuf' >= cmpBuf
      /\ pec[i + 1] /\ size > MinLenZlib => cmpBuf' >= compressBound(size)
  BY <1>1, <1>2, <1>4 DEF Keep, Pack, ToCompress
<1>7. /\ plen \in [1 .. n -> Nat] /\ raw \in [1 .. n -> 0 .. MaxData]
      /\ \A k \in 1 .. n : raw[k] \in Nat
  <2>1. plen \in [1 .. n -> Nat] /\ raw \in [1 .. n -> 0 .. MaxData]
    BY DEF BuildInv, TypeOK
  <2> QED BY <2>1, BuildAssumption
<1>8. ASSUME NEW k \in 1 .. i'
      PROVE  /\ plen'[k] <= raw'[k]
             /\ pec'[k] /\ raw'[k] > MinLenZlib => cmpBuf' >= compressBound(raw'[k])
  <2>1. CASE k = i + 1
    BY <1>1, <1>2, <1>5, <1>6, <1>7, <2>1
  <2>2. CASE k # i + 1
    <3>1. k \in 1 .. i /\ k \in 1 .. n
      BY <1>1, <2>2
    <3>2. plen[k] <= raw[k] /\ (pec[k] /\ raw[k] > MinLenZlib => cmpBuf >= compressBound(raw[k]))
      BY <1>1, <3>1 DEF CompressionPays
    <3>3. plen'[k] = plen[k] /\ raw'[k] = raw[k] /\ raw[k] \in Nat /\ pec'[k] = pec[k]
      BY <1>1, <1>2, <1>5, <1>7, <2>2, <3>1
    <3> QED BY <1>1, <1>6, <3>2, <3>3 DEF compressBound
  <2> QED BY <2>1, <2>2
<1> QED BY <1>8 DEF CompressionPays

\* A value is never made longer by compressing it, and compress() always has
\* the room it may need (mym.cpp:776-802).
THEOREM CompressingPays == Spec => []CompressionPays
<1>1. Init => CompressionPays
  BY DEF Init, CompressionPays
<1>2. BuildInv /\ CompressionPays /\ [Next]_vars => CompressionPays'
  <2>1. ASSUME CompressionPays, Allocate PROVE CompressionPays'
    BY <2>1 DEF Allocate, CompressionPays
  <2>2. ASSUME CompressionPays, CopyOne PROVE CompressionPays'
    BY <2>2 DEF CopyOne, CompressionPays
  <2>3. ASSUME CompressionPays, CopyRest PROVE CompressionPays'
    BY <2>3 DEF CopyRest, CompressionPays
  <2>4. ASSUME CompressionPays, UNCHANGED vars PROVE CompressionPays'
    BY <2>4 DEF vars, inputs, CompressionPays
  <2> QED BY <2>1, <2>2, <2>3, <2>4, PaysStep DEF Next, Finished
<1> QED BY <1>1, <1>2, BuildInductive, PTL DEF Spec
=============================================================================
