----------------------------- MODULE MCTextCodec -----------------------------
(* Strings of a few characters at the boundaries of the encodings, and every *)
(* number of few bits.                                                      *)
EXTENDS TextCodec

CONSTANTS Alphabet, MaxString

MCStrings == BoundedSeq(Alphabet, MaxString)

Argument(class, shape, complex, val) ==
    [class |-> class, shape |-> shape, complex |-> complex, val |-> val]

MCArguments ==
    UNION {{Argument(c, s, FALSE, v) : s \in {"scalar", "page"}, v \in Values(c)} :
              c \in Classes}
      \cup {Argument("double", "empty", FALSE, 0), Argument("double", "row", FALSE, 4),
            Argument("double", "scalar", TRUE, 4), Argument("int16", "scalar", FALSE, 4),
            Argument("cell", "empty", FALSE, 0), Argument("cell", "scalar", FALSE, 0),
            Argument("char", "matrix", FALSE, 0), Argument("char", "page", FALSE, 0)}

NoFormat == [u |-> FALSE, i |-> FALSE, n |-> 0]
MCFormats ==
    {[NoFormat EXCEPT !.u = p, !.i = TRUE] : p \in BOOLEAN}
      \cup {[NoFormat EXCEPT !.u = p, !.n = k] : p \in BOOLEAN, k \in {-2, 0, 1, 2}}
=============================================================================
