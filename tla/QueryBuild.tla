------------------------------ MODULE QueryBuild ------------------------------
(***************************************************************************)
(* The memory of the new query (mym.cpp, CMD): every argument is           *)
(* serialized, and compressed when that pays; the sizes are added up; one  *)
(* buffer of twice their sum plus the length of the old query is           *)
(* allocated; and the pieces of the old query and the escaped values are   *)
(* copied into it one after the other.  Nothing in the copying loop checks *)
(* the size of the buffer.                                                 *)
(*                                                                         *)
(* Only lengths are modelled.  Positions count from 0, as in the code;     *)
(* placeholders count from 1.  acc is a history variable: the value of nb  *)
(* after each round of the first loop.                                     *)
(***************************************************************************)
EXTENDS Integers

CONSTANTS
    MaxPlaceholders, MaxLength, MaxData,   \* bounds of the inputs
    MinLenZlib,     \* MIN_LEN_ZLIB
    Header,         \* LEN_ZLIB_ID + 1 + sizeof(_uint64)
    FirstBuffer     \* the first size of the compression buffer

ASSUME BuildAssumption ==
    /\ MaxPlaceholders \in Nat /\ MaxLength \in Nat /\ MaxData \in Nat
    /\ MinLenZlib \in Nat /\ Header \in Nat /\ FirstBuffer \in Nat

VARIABLES
    n, len,         \* nac and lengthOfQuery
    po, pcl,        \* where each placeholder opens and closes
    pec,            \* is its value to be compressed?
    stage, i,       \* the loop and the placeholders it is done with
    raw,            \* the length of each serialized value
    plen,           \* the length that is put into the query
    cmpBuf,         \* cmp_buf_len
    acc,            \* nb after each round
    pnq, poq,       \* how far the new query and the old one are done
    high            \* the end of what was written, the terminators included

inputs == <<n, len, po, pcl, pec>>
vars == <<inputs, stage, i, raw, plen, cmpBuf, acc, pnq, poq, high>>

\* Faulty variant: no room for the bytes that escaping adds.
CapacityUnescaped == acc[n] + len + 1

\* The size of the buffer for the new query: 2*nb+lengthOfQuery+1.
Capacity == 2 * acc[n] + len + 1

\* zlib's compressBound: never less than what it is given.
compressBound(k) == k + 1

Init ==
    /\ n \in 1 .. MaxPlaceholders
    /\ len \in 0 .. MaxLength
    /\ po \in [1 .. n -> 0 .. MaxLength]
    /\ pcl \in [1 .. n -> 0 .. MaxLength]
    /\ \A k \in 1 .. n : po[k] < pcl[k] /\ pcl[k] < len
    /\ \A k \in 1 .. n - 1 : pcl[k] < po[k + 1]
    /\ pec \in [1 .. n -> BOOLEAN]
    /\ stage = "serialize"
    /\ i = 0
    /\ raw = [k \in 1 .. n |-> 0]
    /\ plen = [k \in 1 .. n |-> 0]
    /\ cmpBuf = FirstBuffer
    /\ acc = [k \in 0 .. n |-> 0]
    /\ pnq = 0 /\ poq = 0 /\ high = 0

-----------------------------------------------------------------------------
(* the first loop *)

\* Room for what compress() may write when it is given size bytes.
GrownBuffer(size) ==
    IF compressBound(size) > cmpBuf THEN compressBound(size) ELSE cmpBuf

ToCompress(size) == pec[i + 1] /\ size > MinLenZlib

\* The serialized value stays as it is: it is not to be compressed, it is too
\* short, or what compress() gave does not make it a tenth shorter.
Keep(size) ==
    /\ cmpBuf' = IF ToCompress(size) THEN GrownBuffer(size) ELSE cmpBuf
    /\ plen' = [plen EXCEPT ![i + 1] = size]

\* Faulty variant: what compress() gave is taken, shorter or not.
PackAlways(size, packed) ==
    /\ ToCompress(size)
    /\ cmpBuf' = GrownBuffer(size)
    /\ packed <= cmpBuf'
    /\ plen' = [plen EXCEPT ![i + 1] = Header + packed]

\* It gives way to a header and the packed bytes: size / plen > 1.1.
Pack(size, packed) ==
    /\ ToCompress(size)
    /\ cmpBuf' = GrownBuffer(size)
    /\ packed <= cmpBuf'
    /\ 10 * size > 11 * (Header + packed)
    /\ plen' = [plen EXCEPT ![i + 1] = Header + packed]

\* Faulty variant: the sum is taken of what the last round gave.
AddsPrevious == acc' = [acc EXCEPT ![i + 1] = acc[i] + plen[i + 1]]

\* nb += plen[i]
Adds == acc' = [acc EXCEPT ![i + 1] = acc[i] + plen'[i + 1]]

Serialize ==
    /\ stage = "serialize"
    /\ i < n
    /\ \E size \in 0 .. MaxData :
          /\ raw' = [raw EXCEPT ![i + 1] = size]
          /\ \/ Keep(size)
             \/ \E packed \in 0 .. compressBound(size) : Pack(size, packed)
    /\ Adds
    /\ i' = i + 1
    /\ UNCHANGED <<inputs, stage, pnq, poq, high>>

\* The buffer of Capacity bytes is allocated.
Allocate ==
    /\ stage = "serialize"
    /\ i = n
    /\ stage' = "build"
    /\ i' = 0
    /\ UNCHANGED <<inputs, raw, plen, cmpBuf, acc, pnq, poq, high>>

-----------------------------------------------------------------------------
(* the second loop *)

\* The end of the bytes that were written, when some are written up to `to`.
Writes(to) == high' = IF to > high THEN to ELSE high

\* The piece of the old query before the placeholder is copied, then the
\* value: each byte becomes one or two, and mysql_real_escape_string ends
\* with a terminator that the next piece writes over.
CopyOne ==
    /\ stage = "build"
    /\ i < n
    /\ \E escaped \in plen[i + 1] .. 2 * plen[i + 1] :
          /\ pnq' = pnq + (po[i + 1] - poq) + escaped
          /\ Writes(pnq' + 1)
    /\ poq' = pcl[i + 1] + 1
    /\ i' = i + 1
    /\ UNCHANGED <<inputs, stage, raw, plen, cmpBuf, acc>>

\* The rest of the old query and its terminator.
CopyRest ==
    /\ stage = "build"
    /\ i = n
    /\ pnq' = pnq + (len - poq) + 1
    /\ Writes(pnq')
    /\ stage' = "done"
    /\ UNCHANGED <<inputs, i, raw, plen, cmpBuf, acc, poq>>

Finished == stage = "done" /\ UNCHANGED vars

Next == Serialize \/ Allocate \/ CopyOne \/ CopyRest \/ Finished

Spec == Init /\ [][Next]_vars

-----------------------------------------------------------------------------
(* Safety *)

TypeOK ==
    /\ n \in 1 .. MaxPlaceholders
    /\ len \in 0 .. MaxLength
    /\ po \in [1 .. n -> 0 .. MaxLength]
    /\ pcl \in [1 .. n -> 0 .. MaxLength]
    /\ pec \in [1 .. n -> BOOLEAN]
    /\ stage \in {"serialize", "build", "done"}
    /\ i \in 0 .. n
    /\ raw \in [1 .. n -> 0 .. MaxData]
    /\ plen \in [1 .. n -> Nat]
    /\ cmpBuf \in Nat
    /\ acc \in [0 .. n -> Nat]
    /\ pnq \in Nat /\ poq \in Nat /\ high \in Nat

\* Placeholders lie inside the query and do not overlap.
Placed ==
    /\ \A k \in 1 .. n : po[k] < pcl[k] /\ pcl[k] < len
    /\ \A k \in 1 .. n - 1 : pcl[k] < po[k + 1]

\* The sums grow from placeholder to placeholder.
Summed(m) ==
    /\ acc[0] = 0
    /\ \A k \in 1 .. m : acc[k] = acc[k - 1] + plen[k]
    /\ \A j, k \in 0 .. m : j <= k => acc[j] <= acc[k]

\* So far the new query has grown by at most two bytes for every byte of a
\* value, and by one for every byte of the old query.
Grown ==
    /\ pnq <= 2 * acc[i] + poq
    /\ high <= pnq + 1

\* The old query is done up to the last placeholder that was copied.
Consumed == IF i = 0 THEN poq = 0 ELSE poq = pcl[i] + 1

BuildInv ==
    /\ TypeOK
    /\ Placed
    /\ stage = "serialize" => Summed(i)
    /\ stage # "serialize" => Summed(n)
    /\ stage = "serialize" => pnq = 0 /\ poq = 0 /\ high = 0
    /\ stage = "build" => Grown /\ Consumed
    /\ stage = "done" => high <= Capacity

\* Nothing is written behind the end of the buffer for the new query, by
\* whatever the values are made of (mym.cpp:805-818).
FitsBuffer == stage # "serialize" => high <= Capacity

\* A value that is put into the query is never longer than it was serialized,
\* and compress() was given enough room (mym.cpp:776-802).
CompressionPays ==
    \A k \in 1 .. i :
        stage = "serialize" =>
            /\ plen[k] <= raw[k]
            /\ pec[k] /\ raw[k] > MinLenZlib => cmpBuf >= compressBound(raw[k])
=============================================================================
