------------------------------- MODULE Dispatch -------------------------------
(***************************************************************************)
(* What mexFunction makes of its arguments before it does anything (mym.cpp *)
(* 394-476), and which of them each command then takes for what (490-538,  *)
(* 592-606, 1169-1197): the optional id, the command, the checks, the slot, *)
(* host and port, the encryption.                                          *)
(*                                                                         *)
(* An argument is a number or a text.  Of a text only what the code looks  *)
(* at is kept: the word it is (in any case), whether it begins with "use ", *)
(* which of the two words serialize and deserialize it has inside, and the *)
(* characters of what is given as a host.  A text that is a word or begins *)
(* with "use " is not asked what it has inside.                            *)
(***************************************************************************)
EXTENDS Integers, SequencesExt

CONSTANT IdLimit       \* MAXCONN

Words == {"open", "close", "closeall", "use", "status", "version"}

Number(v) == [type |-> "number", val |-> v]
Text(w, use, has) ==
    [type |-> "text", word |-> w, use |-> use, has |-> has, chars |-> <<w>>]
Word(w) == Text(w, FALSE, {})

IsNumber(a) == a.type = "number"
IsText(a) == a.type = "text"

\* jarg: the place of the command, from 1.
HasId(prhs) == prhs # << >> /\ IsNumber(prhs[1])
Jarg(prhs) == IF HasId(prhs) THEN 2 ELSE 1

ValidId(v) == v \in -1 .. IdLimit - 1

-----------------------------------------------------------------------------
\* Faulty variant: three letters are enough for use.
RecogniseLoosely(t) ==
    CASE t.word \in Words -> t.word
      [] t.use \/ t.word = "use-quoted" -> "use"
      [] "deserialize" \in t.has -> "deserialize"
      [] t.has = {"serialize"} -> "serialize"
      [] OTHER -> "cmd"

\* The command a text stands for.  A statement is whatever is left: a text
\* with the word serialize anywhere in it is none.
Recognise(t) ==
    CASE t.word \in Words -> t.word
      [] t.use -> "use"
      [] ~ t.use /\ "deserialize" \in t.has -> "deserialize"
      [] ~ t.use /\ t.has = {"serialize"} -> "serialize"
      [] OTHER -> "cmd"

\* Without a command the call is a status.
Command(prhs) ==
    IF Len(prhs) < Jarg(prhs) THEN "status" ELSE Recognise(prhs[Jarg(prhs)])

\* Faulty variant: the first argument of the command is not looked at.
TextsButOne(prhs) == \A k \in Jarg(prhs) + 2 .. Len(prhs) : IsText(prhs[k])

AllTexts(prhs) == \A k \in Jarg(prhs) .. Len(prhs) : IsText(prhs[k])

\* The checks.
IdAccepted(prhs) == HasId(prhs) => ValidId(prhs[1].val)
CommandPresent(prhs) == Len(prhs) >= Jarg(prhs) => IsText(prhs[Jarg(prhs)])
ArgumentsAccepted(prhs) ==
    Command(prhs) \in {"cmd", "serialize", "deserialize"} \/ AllTexts(prhs)
Automatic(prhs) == HasId(prhs) /\ prhs[1].val = -1

\* Faulty variant: connection -1 for any command.
AcceptedAnyAutomatic(prhs) ==
    IdAccepted(prhs) /\ CommandPresent(prhs) /\ ArgumentsAccepted(prhs)

Accepted(prhs) ==
    /\ IdAccepted(prhs)
    /\ CommandPresent(prhs)
    /\ ArgumentsAccepted(prhs)
    /\ Automatic(prhs) => Command(prhs) = "open"

\* cid of a call that is not automatic.
Cid(prhs) == IF HasId(prhs) THEN prhs[1].val ELSE 0

\* Faulty variant: the arguments are counted as if there were no id.
ArgumentFromFirst(prhs, k) ==
    IF Len(prhs) >= Jarg(prhs) + k THEN prhs[1 + k] ELSE Word("absent")

\* The k-th argument behind the command.
Argument(prhs, k) ==
    IF Len(prhs) >= Jarg(prhs) + k THEN prhs[Jarg(prhs) + k] ELSE Word("absent")

-----------------------------------------------------------------------------
(* open *)

Digits == <<"0", "1", "2", "3", "4", "5", "6", "7", "8", "9">>
DigitOf(c) == CHOOSE d \in 0 .. 9 : Digits[d + 1] = c

\* atoi: the digits at the beginning, 0 without any.
LeadingDigits(cs) ==
    SelectInSubSeq(cs, 1, Len(cs), LAMBDA c : c \notin ToSet(Digits))
atoi(cs) ==
    LET first == LeadingDigits(cs)
        n == IF first = 0 THEN Len(cs) ELSE first - 1
        v[i \in 0 .. n] == IF i = 0 THEN 0 ELSE 10 * v[i - 1] + DigitOf(cs[i])
    IN  v[n]

\* Faulty variant: the colon stays at the end of the host.
hostportKeepsColon(cs) ==
    LET sep == SelectInSeq(cs, LAMBDA c : c = ":")
    IN  IF sep = 0 THEN [host |-> cs, port |-> 0]
        ELSE [host |-> SubSeq(cs, 1, sep),
              port |-> atoi(SubSeq(cs, sep + 1, Len(cs)))]

\* The host ends at the first colon, the port is what follows.
hostport(cs) ==
    LET sep == SelectInSeq(cs, LAMBDA c : c = ":")
    IN  IF sep = 0 THEN [host |-> cs, port |-> 0]
        ELSE [host |-> SubSeq(cs, 1, sep - 1),
              port |-> atoi(SubSeq(cs, sep + 1, Len(cs)))]

\* The fourth argument.  A struct written as a text is refused; what is
\* neither true nor false is the default.
Tls(prhs) == Argument(prhs, 4).word
TlsRefused(prhs) == Tls(prhs) = "{}"
TlsMode(prhs) ==
    CASE Tls(prhs) = "true" -> "required"
      [] Tls(prhs) = "false" -> "disabled"
      [] OTHER -> "preferred"

\* What mysql_real_connect is given.
Dialled(prhs) == [to |-> hostport(Argument(prhs, 1).chars), tls |-> TlsMode(prhs)]

-----------------------------------------------------------------------------
(* use *)

\* The database is what follows "use ", or the argument behind "use".
\* Whether there is one is asked of all arguments, the id included: with an
\* id and without a database the code reads behind the last argument.
Database(prhs) ==
    CASE prhs[Jarg(prhs)].use -> "given"
      [] ~ prhs[Jarg(prhs)].use /\ Len(prhs) < 2 -> "missing"
      [] ~ prhs[Jarg(prhs)].use /\ Len(prhs) \in 2 .. Jarg(prhs) -> "behind the end"
      [] OTHER -> "given"

-----------------------------------------------------------------------------
(* deserialize, version *)

\* Exactly two arguments, of which the second is read, and one output.  With
\* an id the second argument is the command itself.
DeserializeAccepted(prhs, nlhs) == nlhs = 1 /\ Len(prhs) = 2
Deserialized(prhs) == prhs[2]

VersionAccepted(prhs, nlhs) == Len(prhs) <= Jarg(prhs) /\ nlhs \in {0, 1}
=============================================================================
