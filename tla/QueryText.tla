------------------------------ MODULE QueryText ------------------------------
(***************************************************************************)
(* What a plain SQL command goes through between mym(query, arg1, ...) and *)
(* the server (mym.cpp, CMD and SERIALIZE): the trailing arguments that    *)
(* are flags are counted, the placeholders {..} are looked for and matched *)
(* with the other arguments, the new query is put together, blanks at the  *)
(* beginning are meant to be removed, the braces of CREATE and ALTER are   *)
(* unescaped, and the text is sent.  mym('serialize {..}', arg1, ...)      *)
(* matches placeholders and arguments likewise, but gives the values back. *)
(*                                                                         *)
(* A text is a sequence of characters.  Only the characters this code      *)
(* looks at are told apart: the two braces, the backslash, the blank, S    *)
(* for the letter of a placeholder that is known, C for the word CREATE or *)
(* ALTER, and any other.  A value is the text that the placeholder's       *)
(* serialization function gives for the argument, before a cell of it is   *)
(* compressed.                                                             *)
(***************************************************************************)
EXTENDS Naturals, Sequences, SequencesExt

CONSTANTS Texts,     \* the queries
          ArgLists   \* the lists of arguments after the query

PhOpen == "open"               \* the braces of a placeholder
PhClose == "close"
Slash == "backslash"
Blank == "blank"
Chars == {PhOpen, PhClose, Slash, Blank, "S", "C", "d", "f", "q", "lost"}

Flag == "flag"                 \* the argument 'bigint_to_double'
Values == [plain |-> <<"d">>, flag |-> <<"f">>, quote |-> <<"q">>,
           slash |-> <<Slash, PhOpen>>, empty |-> << >>]
Lost == <<"lost">>                \* what is read through a pointer that was freed

ASSUME QueryAssumption ==
    Texts \subseteq Seq(Chars) /\ ArgLists \subseteq Seq(DOMAIN Values)

VARIABLES
    cmd,       \* "sql" or "serialize"
    text,      \* the query as given
    args,      \* the further arguments
    pc,        \* the next stage
    segs,      \* the placeholders found: pairs of positions in text
    flags,     \* how many of the last arguments are flags
    query,     \* what the variable query points to
    nq,        \* the new query, as far as it is put together
    used,      \* how many placeholders were replaced in it
    over,      \* bytes written behind the end of a buffer
    bigint,    \* FLAG_BIGINT_TO_DOUBLE of query_flags
    cells,     \* the vectors of bytes that serialize gives
    outcome    \* "none", "sent", "serialized" or what mexErrMsgTxt said

given == <<cmd, text, args>>
new == <<nq, used>>
result == <<over, bigint, cells>>
vars == <<given, pc, segs, flags, query, new, result, outcome>>

\* The placeholders lie one behind the other, and inside the text.
TypeOK ==
    /\ cmd \in {"sql", "serialize"}
    /\ text \in Seq(Chars) /\ args \in Seq(DOMAIN Values)
    /\ pc \in {"scan", "count", "read", "build", "trim", "braces", "send", "end"}
    /\ segs \in Seq((1 .. Len(text)) \X (1 .. Len(text)))
    /\ \A k \in DOMAIN segs :
          /\ segs[k][1] < segs[k][2]
          /\ k > 1 => segs[k - 1][2] < segs[k][1]
    /\ flags \in 0 .. Len(args)
    /\ query \in Seq(Chars) /\ nq \in Seq(Chars)
    /\ used \in 0 .. Len(segs)
    /\ over \in 0 .. 1
    /\ bigint \in BOOLEAN
    /\ cells \in Seq(Range(Values))
    /\ outcome \in {"none", "sent", "serialized", "not closed", "number differs",
                    "unknown placeholder", "no arguments"}

Init ==
    /\ cmd \in {"sql", "serialize"}
    /\ text \in Texts /\ args \in ArgLists
    /\ pc = "scan"
    /\ segs = << >>
    /\ flags = 0
    /\ query = text
    /\ nq = << >> /\ used = 0
    /\ over = 0
    /\ bigint = FALSE
    /\ cells = << >>
    /\ outcome = "none"

Fail(why) ==
    /\ pc' = "end"
    /\ outcome' = why
    /\ UNCHANGED <<given, segs, flags, query, new, result>>

-----------------------------------------------------------------------------
(* the placeholders *)

\* Without further arguments the text is not looked at.
NoArguments ==
    /\ pc = "scan" /\ args = << >>
    /\ IF cmd = "sql" THEN pc' = "trim" /\ UNCHANGED outcome
                      ELSE pc' = "end" /\ outcome' = "serialized"
    /\ UNCHANGED <<given, segs, flags, query, new, result>>

\* strstr(&text[from], ch) finds p, or nothing.
Finds(ch, from, p) ==
    /\ p \in from .. Len(text) /\ text[p] = ch
    /\ \A i \in from .. p - 1 : text[i] # ch
FindsNone(ch, from) == \A i \in from .. Len(text) : text[i] # ch

\* Faulty variant: the next placeholder is looked for inside this one.
BehindOpening(k) == IF k = 0 THEN 1 ELSE segs[k][1] + 1

\* The text behind the k-th placeholder.
Behind(k) == IF k = 0 THEN 1 ELSE segs[k][2] + 1

\* One round of the loop: the next placeholder.  The loop ends when there is
\* no other, or as many as arguments.
Scan ==
    /\ pc = "scan" /\ args # << >>
    /\ LET from == Behind(Len(segs))
       IN  \/ /\ Len(segs) = Len(args) \/ FindsNone(PhOpen, from)
              /\ pc' = "count"
              /\ UNCHANGED <<given, segs, flags, query, new, result, outcome>>
           \/ /\ Len(segs) < Len(args)
              /\ \E open, close \in DOMAIN text :
                    /\ Finds(PhOpen, from, open) /\ Finds(PhClose, open + 1, close)
                    /\ segs' = Append(segs, <<open, close>>)
              /\ UNCHANGED <<given, pc, flags, query, new, result, outcome>>
           \/ /\ Len(segs) < Len(args)
              /\ \E open \in DOMAIN text :
                    Finds(PhOpen, from, open) /\ FindsNone(PhClose, open + 1)
              /\ Fail("not closed")

\* How many of the last arguments are flags.
TrailingFlags ==
    LET last == SelectLastInSeq(args, LAMBDA a : a # Flag)
    IN  Len(args) - last

\* Faulty variant: too few placeholders are accepted without looking at
\* whether the arguments that are left over are flags.
AcceptFewer(n) ==
    IF n < Len(args) THEN Len(args) - n ELSE TrailingFlags

\* The number of flags once n placeholders were found: the arguments behind
\* the n-th, provided that all of them are flags; Len(args) + 1 for an error.
Accept(n) ==
    IF n < Len(args) /\ n + TrailingFlags >= Len(args) THEN Len(args) - n
    ELSE IF n = Len(args) THEN TrailingFlags ELSE Len(args) + 1

\* The number of placeholders and that of flags, for a command.
CountFlags ==
    /\ pc = "count" /\ cmd = "sql"
    /\ IF Accept(Len(segs)) > Len(args) THEN Fail("number differs")
       ELSE
           /\ pc' = "read"
           /\ flags' = Accept(Len(segs))
           /\ UNCHANGED <<given, segs, query, new, result, outcome>>

\* Faulty variant: flags may follow, as in a query.
AllUsedButFlags(n) == Accept(n) <= Len(args)

\* There is a placeholder for every argument; what follows the last one that
\* is needed is not looked at.
AllUsed(n) == n = Len(args)

\* serialize knows no flags.
CountAll ==
    /\ pc = "count" /\ cmd = "serialize"
    /\ IF ~ AllUsed(Len(segs)) THEN Fail("number differs")
       ELSE
           /\ pc' = "read"
           /\ UNCHANGED <<given, segs, flags, query, new, result, outcome>>

\* getSerialFct: the letter after the brace names the function.
Known(seg) == text[seg[1] + 1] = "S"

\* With the functions that are named a command is put together, serialize
\* gives one cell for each placeholder.
ReadTypes ==
    /\ pc = "read"
    /\ IF \E k \in DOMAIN segs : ~ Known(segs[k]) THEN Fail("unknown placeholder")
       ELSE
           /\ IF cmd = "sql" THEN pc' = "build" /\ UNCHANGED <<cells, outcome>>
              ELSE /\ pc' = "end"
                   /\ cells' = [k \in DOMAIN segs |-> Values[args[k]]]
                   /\ outcome' = "serialized"
           /\ UNCHANGED <<given, segs, flags, query, new, over, bigint>>

-----------------------------------------------------------------------------
(* the new query *)

\* mysql_real_escape_string, for the characters told apart here.
Escape(v) == FlattenSeq([k \in DOMAIN v |->
                 IF v[k] \in {"q", Slash} THEN <<Slash, v[k]>> ELSE <<v[k]>>])

\* Faulty variant: the closing brace is not skipped.
ExpandKeepsBrace(k) ==
    LET from == IF k = 1 THEN 1 ELSE segs[k - 1][2]
    IN  SubSeq(text, from, segs[k][1] - 1) \o Escape(Values[args[k]])

\* What the k-th round of the loop appends: the text up to the placeholder
\* and the escaped value in its place.
Expand(k) ==
    SubSeq(text, Behind(k - 1), segs[k][1] - 1) \o Escape(Values[args[k]])

Build ==
    /\ pc = "build" /\ used < Len(segs)
    /\ nq' = nq \o Expand(used + 1)
    /\ used' = used + 1
    /\ UNCHANGED <<given, pc, segs, flags, query, result, outcome>>

\* The rest of the text; the new query replaces the old one.
Built ==
    /\ pc = "build" /\ used = Len(segs)
    /\ pc' = "trim"
    /\ query' = nq \o SubSeq(text, Behind(used), Len(text))
    /\ UNCHANGED <<given, segs, flags, new, result, outcome>>

\* removeWhiteSpaceAtTheBeginning copies the rest of the string, frees the
\* string and changes its own copy of the pointer.  The caller's pointer is
\* left as it was: to freed memory, which may or may not still hold the text.
Trim ==
    /\ pc = "trim"
    /\ pc' = "braces"
    /\ IF query # << >> /\ Head(query) = Blank
       THEN query' \in {query, Lost}
       ELSE UNCHANGED query
    /\ UNCHANGED <<given, segs, flags, new, result, outcome>>

IsBrace(ch) == ch \in {PhOpen, PhClose}
IsCreate(q) == q # << >> /\ Head(q) = "C"

\* Faulty variant: any brace is let through.
EveryBraceEscaped(q) == TRUE

BracesEscaped(q) ==
    \A k \in 2 .. Len(q) : IsBrace(q[k]) => q[k - 1] = Slash

\* Every escaped brace takes the place of its backslash.
Unescape(q) ==
    LET out[i \in 0 .. Len(q)] ==
            IF i = 0 THEN << >>
            ELSE IF IsBrace(q[i]) /\ i > 1 THEN Append(Front(out[i - 1]), q[i])
            ELSE Append(out[i - 1], q[i])
    IN  out[Len(q)]

\* The buffer for the result is as long as the query, without room for the
\* terminator.
Braces ==
    /\ pc = "braces"
    /\ IF ~ IsCreate(query) THEN
           /\ pc' = "send"
           /\ UNCHANGED <<given, segs, flags, query, new, result, outcome>>
       ELSE IF ~ BracesEscaped(query) THEN Fail("no arguments")
       ELSE
           /\ pc' = "send"
           /\ query' = Unescape(query)
           /\ over' = IF Len(Unescape(query)) + 1 > Len(query) THEN 1 ELSE 0
           /\ UNCHANGED <<given, segs, flags, new, bigint, cells, outcome>>

\* query_flags come from the arguments that were counted as flags.
SendQuery ==
    /\ pc = "send"
    /\ pc' = "end"
    /\ bigint' = \E k \in (Len(args) - flags + 1) .. Len(args) : args[k] = Flag
    /\ outcome' = "sent"
    /\ UNCHANGED <<given, segs, flags, query, new, over, cells>>

Finished == pc = "end" /\ UNCHANGED vars

Next ==
    \/ NoArguments \/ Scan \/ CountFlags \/ CountAll \/ ReadTypes
    \/ Build \/ Built \/ Trim \/ Braces \/ SendQuery
    \/ Finished

Spec == Init /\ [][Next]_vars

-----------------------------------------------------------------------------
(* What the text that is sent has to be, character by character. *)

\* Outside a placeholder a character stands for itself; from the brace that
\* opens the k-th placeholder to the next closing brace all stand for the
\* k-th value; once every value has been used, braces are characters like the
\* others.
ReadChar(st, ch, vs) ==
    IF st.inside THEN
        IF ch # PhClose THEN st
        ELSE [inside |-> FALSE, k |-> st.k + 1, out |-> st.out \o vs[st.k + 1]]
    ELSE IF ch = PhOpen /\ st.k < Len(vs) THEN [st EXCEPT !.inside = TRUE]
    ELSE [st EXCEPT !.out = Append(@, ch)]

\* What has been read after i characters of q, with the values vs.
Reading(q, vs) ==
    LET r[i \in 0 .. Len(q)] ==
            IF i = 0 THEN [inside |-> FALSE, k |-> 0, out |-> << >>]
                     ELSE ReadChar(r[i - 1], q[i], vs)
    IN  r

\* How many placeholders there are from left to right, n at most, counted
\* until one is not closed; an opening brace inside a placeholder is none.
Placeholders(n) == Reading(text, [k \in 1 .. n |-> << >>])[Len(text)].k

Replacements == [k \in DOMAIN segs |-> Escape(Values[args[k]])]
Expected == Reading(text, Replacements)[Len(text)].out

\* The text without the backslashes that stand before a brace.
Unescaped(q) ==
    LET kept[i \in 0 .. Len(q)] ==
            IF i = 0 THEN << >>
            ELSE IF q[i] = Slash /\ i < Len(q) /\ IsBrace(q[i + 1]) THEN kept[i - 1]
            ELSE Append(kept[i - 1], q[i])
    IN  kept[Len(q)]

StartsWithBlank(q) == q # << >> /\ Head(q) = Blank

\* A command that is sent used every argument: each is the value of a
\* placeholder, or it is a flag and the flag is in force (mym.cpp:714-752).
NoArgumentLost ==
    outcome = "sent" =>
        \A k \in DOMAIN args :
            k > Len(segs) => args[k] = Flag /\ bigint

\* Unless it is a CREATE or an ALTER, what is sent is the text with the
\* escaped values in place of their placeholders, whatever braces the values
\* or the rest of the text hold (mym.cpp:805-818).
SentIsExpansion ==
    outcome = "sent" /\ ~ IsCreate(Expected) /\ ~ StartsWithBlank(Expected) =>
        query = Expected

\* A CREATE or ALTER is sent exactly when all the braces that are left in it,
\* those of the values included, are escaped, and then without the backslashes
\* before them (mym.cpp:839-876).
CreateUnescapes ==
    outcome \in {"sent", "no arguments"} /\ IsCreate(Expected) =>
        IF BracesEscaped(Expected)
        THEN outcome = "sent" /\ query = Unescaped(Expected)
        ELSE outcome = "no arguments"

\* mym('serialize ..') gives the value of every argument, in their order, also
\* of one that would be a flag of a query, or it fails because the text has
\* fewer placeholders, or unknown ones; nothing is sent (mym.cpp:1037-1143).
SerializesAll ==
    cmd = "serialize" /\ pc = "end" =>
        IF outcome = "serialized"
        THEN cells = [k \in DOMAIN args |-> Values[args[k]]]
        ELSE \/ outcome = "unknown placeholder" /\ segs # << >>
             \/ outcome \in {"not closed", "number differs"}
                    /\ Placeholders(Len(args)) < Len(args)

-----------------------------------------------------------------------------
(* What comments and documentation say and the program does not do. *)

\* "Remove any white spaces at the beginning" (mym.cpp:834).
LeadingBlanksRemoved == outcome = "sent" => ~ StartsWithBlank(query)

\* "The number of placeholders differs from that of additional arguments!"
\* (mym.cpp:1065) is said when it does: not of more placeholders.
NumbersAgree == outcome = "serialized" => Placeholders(Len(text)) = Len(args)

\* "Add ending character" (mym.cpp:868): there is room for it.
TerminatorFits == over = 0

\* "{S} is remplaced by a string given by the corresponding argument arg"
\* (src/mym.m:98): also in a CREATE whose own text has no other brace.
CreateKeepsValues ==
    outcome = "sent" /\ IsCreate(text) /\ Len(segs) > 0
        /\ Cardinality({k \in DOMAIN text : IsBrace(text[k])}) = 2 * Len(segs)
    => query = Expected
=============================================================================
