--------------------------------- MODULE Blob ---------------------------------
(***************************************************************************)
(* MATLAB values as bytes and back (mym.cpp: getSerialFct, serializeArray, *)
(* serializeSparse, serializeStruct, serializeCell, serializeBinary,       *)
(* serializeFile, file_length, deserialize and its helpers).               *)
(*                                                                         *)
(* Bytes are a sequence of numbers, shorter than the real one: a 64-bit    *)
(* integer takes two places, of which the second is 0 and is not looked    *)
(* at, a 32-bit one, a class, a complexity, a number of fields, a          *)
(* character and an element of an array one, and so do the words "mYm",    *)
(* "ZL123" and "dj0", without the 0 that follows them.  What zlib makes of *)
(* bytes is Stream, for all that makes it valid, and those bytes.  What is *)
(* read behind the end is Unknown.  Bytes that claim to be a value and     *)
(* break off inside it, compressed or not, are not among the Vectors: what *)
(* reading them gives is not modelled.                                     *)
(*                                                                         *)
(* Arrays hold the real parts, then the imaginary ones.  An element of a   *)
(* cell or of a structure may be missing: MATLAB gives NULL for it.        *)
(*                                                                         *)
(* A file may be written to by another program at any time: it has one     *)
(* length when it is measured and may have another when it is read.        *)
(*                                                                         *)
(* Values are nested to any Depth: what is done to them is a function of   *)
(* the depth, whose value at d - 1 is used for the elements of a value of  *)
(* the depth d.                                                            *)
(***************************************************************************)
EXTENDS Integers, Sequences, SequencesExt

CONSTANTS Depth,      \* how often values are put into one another
          Matrices,   \* the values that are given to {M}
          Vectors,    \* the vectors of bytes that are given to {B}
          Files,      \* what the files hold whose names are given to {F}
          IntLimit,   \* an int of file_length is less than this: 2^31
          OldBlobs,   \* blobs are of a version that wrote 32-bit dimensions
          use32       \* MYM_USE_32BIT_DIMS

VARIABLES
    pc,        \* "put", "read", "get", "end", or "spoilt": what is not the
               \* program's has been freed, and no more is said of it
    mode,      \* the placeholder: "M", "B" or "F"
    arg,       \* the value, the vector, or what the file held when it was opened
    file,      \* what the file holds
    rnBytes,   \* how many bytes are allocated for what is stored
    stored,    \* the bytes before they are compressed
    blob,      \* what the table holds
    got        \* what is read

input == <<mode, arg>>
vars == <<input, pc, file, rnBytes, stored, blob, got>>

mYm == 77
ZL123 == 90
dj0 == 68
Stream == 120
Unknown == 99
DoubleClass == 6
ByteClass == 9

Array(dims, class, cplx, data) ==
    [t |-> "array", dims |-> dims, class |-> class, cplx |-> cplx, data |-> data]
Sparse(dims, class, cplx, jc, ir, data) ==
    [t |-> "sparse", dims |-> dims, class |-> class, cplx |-> cplx,
     jc |-> jc, ir |-> ir, data |-> data]
Cell(dims, elems) == [t |-> "cell", dims |-> dims, elems |-> elems]
Struct(dims, names, elems) ==
    [t |-> "struct", dims |-> dims, names |-> names, elems |-> elems]
NoFile == <<-1>>   \* what no file holds
Missing == [t |-> "missing"]
Object == [t |-> "object"]
Error == [t |-> "error"]

EmptyMatrix == Array(<<0, 0>>, DoubleClass, 0, << >>)

Elements(dims) ==
    LET f[k \in 0 .. Len(dims)] == IF k = 0 THEN 1 ELSE f[k - 1] * dims[k]
    IN  f[Len(dims)]

Total(ns) ==
    LET f[k \in 0 .. Len(ns)] == IF k = 0 THEN 0 ELSE f[k - 1] + ns[k]
    IN  f[Len(ns)]

\* MATLAB's values of one depth: those without elements, and cells and
\* structures with as many elements as their dimensions and names say.
Arrays ==
    {v \in [t : {"array"}, dims : Seq(Nat), class : Nat, cplx : {0, 1}, data : Seq(Nat)] :
        Len(v.data) = Elements(v.dims) * (1 + v.cplx)}
Sparses ==
    {v \in [t : {"sparse"}, dims : Seq(Nat), class : Nat, cplx : {0, 1},
            jc : Seq(Nat), ir : Seq(Nat), data : Seq(Nat)] :
        /\ Len(v.dims) = 2
        /\ Len(v.jc) = v.dims[2] + 1
        /\ Len(v.data) = Len(v.ir) * (1 + v.cplx)}
Cells(S) ==
    {v \in [t : {"cell"}, dims : Seq(Nat), elems : Seq(S)] :
        Len(v.elems) = Elements(v.dims)}
Structs(S) ==
    {v \in [t : {"struct"}, dims : Seq(Nat), names : Seq(Seq(Nat \ {0})), elems : Seq(S)] :
        Len(v.elems) = Elements(v.dims) * Len(v.names)}

Leaves == Arrays \cup Sparses \cup {Object}
Values ==
    LET V[d \in 0 .. Depth] ==
            IF d = 0 THEN Leaves
            ELSE Leaves \cup Cells(V[d - 1] \cup {Missing})
                        \cup Structs(V[d - 1] \cup {Missing})
    IN  V

ASSUME BlobAssumption ==
    /\ Depth \in Nat
    /\ Matrices \subseteq Values[Depth]
    /\ Vectors \subseteq Seq(Nat)
    /\ Files \subseteq Seq(Nat)
    /\ IntLimit \in Nat \ {0}
    /\ OldBlobs \in BOOLEAN
    /\ use32 \in BOOLEAN

-----------------------------------------------------------------------------
(* serialize *)

\* WRITE_UINT64, or how old versions wrote a dimension.
Uint(n) == IF OldBlobs THEN <<n>> ELSE <<n, 0>>
Uints(ns) == FlattenSeq([k \in DOMAIN ns |-> Uint(ns[k])])

Tag(t) == CASE t = "array" -> 65 [] t = "sparse" -> 80
            [] t = "cell" -> 67 [] t = "struct" -> 83

serializeArray(v) ==
    <<Tag("array")>> \o Uint(Len(v.dims)) \o Uints(v.dims)
        \o <<v.class, v.cplx>> \o v.data

serializeSparse(v) ==
    <<Tag("sparse")>> \o Uints(v.dims) \o Uint(Len(v.ir))
        \o <<v.class, v.cplx>> \o Uints(v.jc) \o Uints(v.ir) \o v.data

\* A missing element becomes an empty matrix.
Present(v) == IF v.t = "missing" THEN EmptyMatrix ELSE v

\* What serializeElements and its callers are given for every element are its
\* bytes and their size: they are written behind their length.
serializeElements(xs) ==
    FlattenSeq([k \in DOMAIN xs |-> Uint(xs[k].size) \o xs[k].bytes])
serializeCell(v, xs) ==
    <<Tag("cell")>> \o Uint(Len(v.dims)) \o Uints(v.dims) \o serializeElements(xs)
serializeStruct(v, xs) ==
    <<Tag("struct")>> \o Uint(Len(v.dims)) \o Uints(v.dims) \o <<Len(v.names)>>
        \o FlattenSeq([k \in DOMAIN v.names |-> Append(v.names[k], 0)])
        \o serializeElements(xs)

\* How much memory is allocated for the bytes before they are written.  The
\* numbers of bytes of an integer and of the rest are those of Uint and of one
\* place.
Width == Len(Uint(0))

\* Faulty variant: the length in front of each element is forgotten.
AllocatedBare(xs) == Total([k \in DOMAIN xs |-> xs[k].size])

AllocatedElements(xs) == Total([k \in DOMAIN xs |-> xs[k].size + Width])
Allocated(v, xs) ==
    CASE v.t = "array" -> 1 + Width + Len(v.dims) * Width + 2
                            + Elements(v.dims) * (1 + v.cplx)
      [] v.t = "sparse" -> 1 + 3 * Width + 2 + Width * (v.dims[2] + 1)
                             + Len(v.ir) * (Width + 1 + v.cplx)
      [] v.t = "cell" -> 1 + (1 + Len(v.dims)) * Width + AllocatedElements(xs)
      [] v.t = "struct" -> 1 + (1 + Len(v.dims)) * Width + 1
                             + Total([k \in DOMAIN v.names |-> Len(v.names[k]) + 1])
                             + AllocatedElements(xs)

\* The function is chosen by the type; an element of an unsupported one is an
\* error wherever it is.
serializeNested(v, xs) ==
    IF v.t = "object" \/ \E k \in DOMAIN xs : xs[k] = Error THEN Error
    ELSE [bytes |-> CASE v.t = "array" -> serializeArray(v)
                      [] v.t = "sparse" -> serializeSparse(v)
                      [] v.t = "cell" -> serializeCell(v, xs)
                      [] v.t = "struct" -> serializeStruct(v, xs),
          size |-> Allocated(v, xs)]

ElementsOf(v) == IF v.t \in {"cell", "struct"} THEN v.elems ELSE << >>

Serialized ==
    LET s[d \in 0 .. Depth] ==
            [v \in Values[d] |->
                serializeNested(v, [k \in DOMAIN ElementsOf(v) |->
                                       s[d - 1][Present(ElementsOf(v)[k])]])]
    IN  s

\* The partial serializations but the first are freed, one for each element,
\* though a structure has one for each field of each: without fields, what lies
\* behind an array of none is freed.
FreesOwn(v) ==
    /\ v.t \in {"cell", "struct"}
    /\ \E i \in 2 .. Elements(v.dims) : i \notin DOMAIN v.elems

\* The values of each depth in which that happens; to an element only when none
\* before it is an error.
FreesBehind ==
    LET f[d \in 0 .. Depth] ==
            {v \in Values[d] :
                \/ FreesOwn(v)
                \/ \E k \in DOMAIN ElementsOf(v) :
                       /\ Present(ElementsOf(v)[k]) \in f[d - 1]
                       /\ \A j \in 1 .. k - 1 :
                              Serialized[d - 1][Present(ElementsOf(v)[j])] # Error}
    IN  f

\* getSerialFct sends every numeric value to serializeArray, a sparse one too,
\* which then reads as many elements as a full matrix would have.
AsArray(v) ==
    IF v.t # "sparse" THEN v
    ELSE Array(v.dims, v.class, v.cplx,
               [k \in 1 .. Elements(v.dims) * (1 + v.cplx) |->
                   IF k <= Len(v.data) THEN v.data[k] ELSE Unknown])

serialize(v) ==
    LET x == Serialized[Depth][AsArray(v)]
    IN  IF x = Error THEN Error
        ELSE [bytes |-> <<mYm, 0>> \o x.bytes, size |-> 2 + x.size]

\* Bytes that are compressed have their length in front.
Zipped(bytes) == <<ZL123, 0>> \o Uint(Len(bytes)) \o <<Stream>> \o bytes

-----------------------------------------------------------------------------
(* deserialize *)

\* The client library ends every value with a 0.
Get(b, p) ==
    IF p \in DOMAIN b THEN b[p] ELSE IF p = Len(b) + 1 THEN 0 ELSE Unknown

Begins(b, word) == Get(b, 1) = word /\ Get(b, 2) = 0

\* Faulty variant: MYM_USE_32BIT_DIMS is not looked at.
ReadUints64(b, p, n) == [k \in 1 .. n |-> Get(b, p + (k - 1) * 2)]

\* READ_UINT and READ_UINTS: the numbers at p, each of Step places, as
\* MYM_USE_32BIT_DIMS says, however they were written.
Step == IF use32 THEN 1 ELSE 2
ReadUints(b, p, n) == [k \in 1 .. n |-> Get(b, p + (k - 1) * Step)]

deserializeArray(b, p) ==
    LET ndims == Get(b, p)
        dims  == ReadUints(b, p + Step, ndims)
        q     == p + (1 + ndims) * Step
        cplx  == Get(b, q + 1)
    IN  Array(dims, Get(b, q), cplx,
              [k \in 1 .. Elements(dims) * (1 + cplx) |-> Get(b, q + 1 + k)])

deserializeSparse(b, p) ==
    LET dims == ReadUints(b, p, 2)
        nz   == Get(b, p + 2 * Step)
        q    == p + 3 * Step
        cplx == Get(b, q + 1)
        jc   == q + 2
        ir   == jc + (dims[2] + 1) * Step
        pr   == ir + nz * Step
    IN  Sparse(dims, Get(b, q), cplx, ReadUints(b, jc, dims[2] + 1),
               ReadUints(b, ir, nz),
               [k \in 1 .. nz * (1 + cplx) |-> Get(b, pr + k - 1)])

\* Where each of n names ends that start at p; for the one before the first,
\* the place before p.
NameEnds(b, p, n) ==
    LET e[k \in 0 .. n] ==
            IF k = 0 THEN p - 1
            ELSE Min({i \in e[k - 1] + 1 .. Len(b) + 1 : Get(b, i) = 0})
    IN  e

\* Where each of n elements starts whose lengths and bytes start at p, and
\* where the last one ends.
ElementStarts(b, p, n) ==
    LET at[k \in 0 .. n] ==
            IF k = 0 THEN p ELSE at[k - 1] + Step + Get(b, at[k - 1])
    IN  at

\* Faulty variant: dimensions after the second are not counted.
NeltsOfMatrix(dims) == dims[1] * dims[2]

\* The number of elements of a cell or of a structure.
nelts(dims) == Elements(dims)

\* nested has what is read at every place of b.
deserializeElements(b, p, n, nested) ==
    LET at == ElementStarts(b, p, n)
    IN  [k \in 1 .. n |-> nested[at[k - 1] + Step]]

deserializeCell(b, p, nested) ==
    LET ndims == Get(b, p)
        dims  == ReadUints(b, p + Step, ndims)
    IN  Cell(dims, deserializeElements(b, p + (1 + ndims) * Step, nelts(dims), nested))

deserializeStruct(b, p, nested) ==
    LET ndims   == Get(b, p)
        dims    == ReadUints(b, p + Step, ndims)
        q       == p + (1 + ndims) * Step
        nfields == Get(b, q)
        end     == NameEnds(b, q + 1, nfields)
        names   == [k \in 1 .. nfields |-> SubSeq(b, end[k - 1] + 1, end[k] - 1)]
    IN  Struct(dims, names,
               deserializeElements(b, end[nfields] + 1, nelts(dims) * nfields, nested))

\* What is read at each place of b, of values of each depth.
Deserialized(b) ==
    LET r[d \in 0 .. Depth] ==
            [p \in Nat |->
                LET tag == Get(b, p)
                IN  IF tag = Tag("array") THEN deserializeArray(b, p + 1)
                    ELSE IF tag = Tag("sparse") THEN deserializeSparse(b, p + 1)
                    ELSE IF tag = Tag("struct") /\ d > 0
                         THEN deserializeStruct(b, p + 1, r[d - 1])
                    ELSE IF tag = Tag("cell") /\ d > 0
                         THEN deserializeCell(b, p + 1, r[d - 1])
                    ELSE Error]
    IN  r

\* What is not understood is returned as a column of bytes; behind the word
\* mYm the pointer has moved on, the length has not changed.
Dump(b, from) ==
    Array(<<Len(b), 1>>, ByteClass, 0, [k \in 1 .. Len(b) |-> Get(b, from + k - 1)])

\* Faulty variant: what is there is read, whatever length there is for it.
ReadAll(bytes, n) == bytes

\* fread, or uncompress, into a buffer of n zeros.
ReadInto(bytes, n) == [k \in 1 .. n |-> IF k <= Len(bytes) THEN bytes[k] ELSE 0]

\* Whether zlib finds its own behind the length of what begins like compressed
\* bytes, and no more in it than that length: what is longer cannot be
\* uncompressed.
Compressed(b) ==
    Begins(b, ZL123) /\ Get(b, 3 + Step) = Stream /\ Len(b) - (3 + Step) <= Get(b, 3)

\* The length says how much memory there is for what is uncompressed, and how
\* long that is.  What is not Compressed is taken as it is.
Unzipped(b) ==
    IF Compressed(b) THEN ReadInto(SubSeq(b, 4 + Step, Len(b)), Get(b, 3)) ELSE b

deserialize(rpSerial) ==
    LET b == Unzipped(rpSerial)
    IN  IF Begins(b, dj0) THEN Error
        ELSE IF Begins(b, mYm)
             THEN LET v == Deserialized(b)[Depth][3]
                  IN  IF v = Error THEN Dump(b, 3) ELSE v
        ELSE Dump(b, 1)

-----------------------------------------------------------------------------
(* files *)

\* file_length returns what ftell says as an int.
file_length(bytes) ==
    LET n == Len(bytes) % (2 * IntLimit)
    IN  IF n < IntLimit THEN n ELSE n - 2 * IntLimit

-----------------------------------------------------------------------------
(* a value on its way into a table and out of it *)

Init ==
    /\ pc = "put"
    /\ \/ mode = "M" /\ arg \in Matrices /\ file = NoFile
       \/ mode = "B" /\ arg \in Vectors /\ file = NoFile
       \/ mode = "F" /\ arg \in Files \cup {NoFile} /\ file = arg
    /\ rnBytes = 0
    /\ stored = << >>
    /\ blob = << >>
    /\ got = Missing

Refuse == pc' = "end" /\ got' = Error /\ UNCHANGED <<input, file, rnBytes, stored, blob>>

\* They are compressed or not, as their length, the rate and the placeholder
\* want it.
Stored(bytes, size) ==
    /\ pc' = "get"
    /\ stored' = bytes
    /\ blob' \in {bytes, Zipped(bytes)}
    /\ rnBytes' = size
    /\ UNCHANGED <<input, file, got>>

Put ==
    /\ pc = "put"
    /\ \/ mode = "B" /\ Stored(arg, Len(arg))
       \/ LET x == serialize(arg)
          IN  /\ mode = "M"
              /\ IF x = Error THEN Refuse ELSE Stored(x.bytes, x.size)

\* What lies behind the array and is freed may be anything: MATLAB ends, or
\* loses memory that it needs, unless there is nothing to free, as Put has it.
FreeBehind ==
    /\ pc = "put" /\ mode = "M" /\ arg \in FreesBehind[Depth]
    /\ pc' = "spoilt"
    /\ UNCHANGED <<input, file, rnBytes, stored, blob, got>>

\* A negative length is a size that mxCalloc cannot give.
Measure ==
    /\ pc = "put" /\ mode = "F"
    /\ IF arg = NoFile \/ file_length(arg) < 0 THEN Refuse
       ELSE /\ pc' = "read"
            /\ rnBytes' = file_length(arg)
            /\ UNCHANGED <<input, file, stored, blob, got>>

ReadFile ==
    /\ pc = "read"
    /\ Stored(ReadInto(file, rnBytes), rnBytes)

\* Another program writes the file; once is enough.
Overwrite ==
    /\ pc = "read" /\ file = arg
    /\ file' \in Files
    /\ UNCHANGED <<input, pc, rnBytes, stored, blob, got>>

\* What begins like compressed bytes asks for memory of the length that it
\* names: of bytes that are none, it is any, and there may not be as much.  As
\* much as the value had there is.
NoMemory ==
    /\ pc = "get" /\ Begins(blob, ZL123)
    /\ Len(blob) < 2 + Step \/ Get(blob, 3) > Len(stored)
    /\ pc' = "end"
    /\ got' = Error
    /\ UNCHANGED <<input, file, rnBytes, stored, blob>>

GetBack ==
    /\ pc = "get"
    /\ pc' = "end"
    /\ got' = deserialize(blob)
    /\ UNCHANGED <<input, file, rnBytes, stored, blob>>

Finished == pc \in {"end", "spoilt"} /\ UNCHANGED vars

Next ==
    \/ Put \/ FreeBehind \/ Measure \/ ReadFile \/ Overwrite
    \/ NoMemory \/ GetBack \/ Finished

Spec == Init /\ [][Next]_vars

-----------------------------------------------------------------------------
(* Safety *)

\* What a value is when it comes back: missing elements are empty matrices,
\* and what has an element that is not supported does not come back.
Canonical ==
    LET c[d \in 0 .. Depth] ==
            [v \in Values[d] |->
                IF v.t = "object" THEN Error
                ELSE IF v.t \notin {"cell", "struct"} THEN v
                ELSE LET elems == [k \in DOMAIN v.elems |-> c[d - 1][Present(v.elems[k])]]
                     IN  IF \E k \in DOMAIN elems : elems[k] = Error THEN Error
                         ELSE [v EXCEPT !.elems = elems]]
    IN  c

\* The values with an array of at least two structures without fields.
Fieldless ==
    LET f[d \in 0 .. Depth] ==
            {v \in Values[d] :
                \/ v.t = "struct" /\ v.names = << >> /\ Elements(v.dims) > 1
                \/ \E k \in DOMAIN ElementsOf(v) : Present(ElementsOf(v)[k]) \in f[d - 1]}
    IN  f

\* A value that {M} takes comes back as it was, compressed or not and however
\* cells and structures are nested, and any other is refused.  Sparse matrices
\* are an exception unless they are inside another value, and so are arrays of
\* two and more structures without fields: nothing else spoils MATLAB's memory
\* (mym.cpp:1260-1922).
RoundTrip ==
    mode = "M" =>
        /\ pc = "end" /\ arg.t # "sparse" => got = Canonical[Depth][arg]
        /\ pc = "spoilt" => arg \in Fieldless[Depth]

\* "Oops, I haven't allocated enough memory, BEWARE" never happens: the memory
\* that is allocated is as long as what is written (mym.cpp:1353, 1437, 1520,
\* 1616).
ExactlyAllocated == pc = "get" /\ mode = "M" => Len(stored) = rnBytes

\* What is not taken as it is: a value, a blob of DataJoint for Python, and
\* bytes that zlib can uncompress.
Meant(b) == Begins(b, mYm) \/ Begins(b, dj0) \/ Compressed(b)

\* The bytes of {B} and of {F} come back as a column unless they are Meant as
\* something else; if they begin like compressed ones and are none, and ask for
\* more than their own length, the call may end with an error instead.  A file
\* that is written to between its measurement and its reading comes back as
\* long as it was: cut off, or with zeros at its end, and never with a byte that
\* it did not hold.  Of a file that is longer than an int can say the first
\* bytes come back, or it is refused, as is one that cannot be opened
\* (mym.cpp:1708-1730, 1926-1934, 2022-2044, 2073-2079).
BytesSurvive ==
    pc = "end" /\ mode # "M" /\ ~Meant(stored) =>
        \/ /\ got = Error /\ Begins(stored, ZL123)
           /\ Len(stored) < 2 + Step \/ Get(stored, 3) > Len(stored)
        \/ CASE mode = "B" -> got = Dump(arg, 1)
             [] mode = "F" /\ arg = NoFile -> got = Error
             [] mode = "F" /\ arg # NoFile /\ Len(arg) < IntLimit ->
                    /\ got.dims = <<Len(arg), 1>>
                    /\ file = arg => got.data = arg
                    /\ \A k \in 1 .. Len(arg) :
                           got.data[k] # 0 => k <= Len(file) /\ got.data[k] = file[k]
             [] OTHER ->
                    \/ got = Error
                    \/ /\ Len(got.data) < Len(arg)
                       /\ file = arg => IsPrefix(got.data, arg)

-----------------------------------------------------------------------------
(* What documentation and comments say and the program does not do. *)

\* "{M}  is replaced by the binary representation of the corresponding argument
\* (it can be a scalar, cell, numeric or cell array, or a structure)"
\* (src/mym.m:107-109): a sparse matrix, too, is a numeric array.
SparseSurvives == pc = "end" /\ mode = "M" /\ arg.t = "sparse" => got = arg

\* "we don't know what to do with the stuff in the database / we return a
\* memory dump in UINT8 format" (mym.cpp:2074-2075): of what is there.
UnknownIsDumped ==
    pc = "end" /\ mode = "B" /\ ~Compressed(arg)
        /\ got.t = "array" /\ got.class = ByteClass => got.data = arg

\* "{F}  is the same as {B} but for the file whose name is given in the
\* corresponding argument" (src/mym.m:112-113): of a file of 2^32 bytes and
\* more only the rest is stored.
WholeFile == pc = "end" /\ mode = "F" /\ got.t = "array" => Len(got.data) = Len(arg)

\* "{M}  is replaced by the binary representation of the corresponding argument
\* (it can be a scalar, cell, numeric or cell array, or a structure)"
\* (src/mym.m:107-109): an array of structures without fields spoils memory.
StructSurvives == pc # "spoilt"
=============================================================================
