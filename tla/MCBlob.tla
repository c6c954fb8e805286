-------------------------------- MODULE MCBlob --------------------------------
(* Values that are nested in one another, up to Depth times. *)
EXTENDS Blob

CONSTANT MaxElements

\* Scalars, empty and complex arrays, arrays of other classes and of three
\* dimensions, sparse matrices, and what {M} does not take.
Simple == {EmptyMatrix, Array(<<1, 1>>, DoubleClass, 0, <<5>>),
           Array(<<1, 2>>, DoubleClass, 1, <<1, 2, 3, 4>>),
           Array(<<2, 1, 2>>, 4, 0, <<65, 0, 77, 67>>),
           Sparse(<<2, 2>>, DoubleClass, 0, <<0, 1, 1>>, <<1>>, <<5>>),
           Sparse(<<1, 2>>, DoubleClass, 1, <<0, 1, 2>>, <<0, 0>>, <<1, 2, 3, 4>>),
           Object}

Shapes == {<<0, 0>>, <<1, 1>>, <<1, 2>>, <<1, 1, 2>>}
Names == {<< >>, <<<<65>>>>, <<<<65, 83>>, <<66>>>>}

\* Lists of elements as long as they have to be.
Lists(S, n) == [1 .. n -> S]

Containers(S) ==
    UNION ({{Cell(d, e) : e \in Lists(S, Elements(d))} : d \in Shapes}
       \cup {{Struct(dn[1], dn[2], e) : e \in Lists(S, Elements(dn[1]) * Len(dn[2]))} :
               dn \in {dn \in Shapes \X Names :
                         Elements(dn[1]) * Len(dn[2]) <= MaxElements}})

Inner == Containers({Missing, Array(<<2, 1, 2>>, 4, 0, <<65, 0, 77, 67>>)})

MCMatrices ==
    IF Depth = 1 THEN Simple \cup Containers(Simple \cup {Missing})
    ELSE Simple \cup Containers({Missing, Object} \cup Inner)

\* Files of every content up to three bytes, and longer ones.
MCFiles == BoundedSeq({0, mYm, 7}, 3) \cup {[k \in 1 .. n |-> 7] : n \in 4 .. 10}

\* Bytes like compressed ones, with any length in front of them; what zlib can
\* uncompress begins with any word.
Compresseds ==
    {<<ZL123, 0>> \o ReadInto(<<n>>, Step) \o <<z>> \o c :
        n \in 0 .. 8, z \in {Stream, 7}, c \in BoundedSeq({0, mYm, ZL123, dj0, 7}, 2)}

MCVectors == BoundedSeq({0, mYm, ZL123, dj0, 7}, 4) \cup Compresseds
=============================================================================
