----------------------------- MODULE MCQueryText -----------------------------
(* Queries of a few pieces, with every short list of arguments. *)
EXTENDS QueryText

CONSTANTS MaxPieces,  \* the most pieces after the beginning of a query
          MaxArgs,    \* the most arguments
          Kinds       \* the kinds of arguments

\* Placeholders that are known, unknown or not closed, single braces and
\* escaped ones, and ordinary text.
Pieces == {<<PhOpen, "S", PhClose>>, <<PhOpen, Blank, PhClose>>, <<PhOpen>>, <<PhClose>>,
           <<Slash, PhOpen>>, <<Slash, PhClose>>, <<Slash>>, <<Blank>>, <<"S">>}

\* The word CREATE can be at the beginning, behind a blank or, with an empty
\* value, behind a placeholder.
Beginnings == {<< >>, <<"C">>, <<Blank, "C">>, <<PhOpen, "S", PhClose, "C">>}

MCTexts == {b \o FlattenSeq(p) :
               b \in Beginnings, p \in BoundedSeq(Pieces, MaxPieces)}
MCArgLists == BoundedSeq(Kinds, MaxArgs)
=============================================================================
