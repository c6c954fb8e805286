------------------------------ MODULE TextCodec ------------------------------
(***************************************************************************)
(* The argument of {S} on its way to the server and back (mym.cpp,         *)
(* serializeString, char2hex and hex2char).                                *)
(*                                                                         *)
(* MATLAB gives a string as UTF-8, char2hex makes one byte of every        *)
(* character, the server keeps the bytes, hex2char makes UTF-8 of each of  *)
(* them, and MATLAB makes a string of that.  A string is a sequence of     *)
(* code points; half of a surrogate pair may be among them, as MATLAB      *)
(* allows it.  The loops of the two functions are actions, one per round,  *)
(* since what they may not do is leave their buffers.                      *)
(*                                                                         *)
(* A number is printed (NumberText) and not fetched: what a text stands    *)
(* for is arithmetic.                                                      *)
(***************************************************************************)
EXTENDS Integers, Sequences, SequencesExt, NumberText

CONSTANTS Strings,     \* the strings, sequences of code points
          Arguments,   \* the other arguments
          Formats      \* what follows the S in the placeholder

\* Code points, and numbers in quarters.
CodePoint == {c \in Nat : c < 1114112}

\* Integers are whole, and only those of 32 bits without a sign are more than
\* an int can hold.
ASSUME TextAssumption ==
    /\ Strings \subseteq Seq(CodePoint)
    /\ \A x \in Arguments :
           /\ x.val \in Int
           /\ x.class \in Classes \ Floats =>
                  x.val % Unit = 0 /\ (x.class # "uint32" => InInt(x))
    /\ \A f \in Formats : f.n \in Int

Unset == 85           \* what a byte holds that nothing was written to

VARIABLES
    arg,      \* the argument, without its characters
    fmt,      \* the placeholder's in-string argument
    text,     \* the number that was printed
    str,      \* the characters of a string
    utf8,     \* what mxArrayToString gives, up to its terminator
    pc,       \* "serialize", "encode", "decode", "end" or "error"
    a, idx,   \* positions in the source and in the buffer, from 0
    buf,      \* the buffer of char2hex
    hex,      \* what hex2char has written
    fetched   \* the string that MATLAB makes of it

textVars == <<arg, fmt, str>>
loopVars == <<a, idx, buf, hex, fetched>>
vars == <<textVars, text, utf8, pc, loopVars>>

-----------------------------------------------------------------------------
(* MATLAB *)

UTF8(c) ==
    IF c < 128 THEN <<c>>
    ELSE IF c < 2048 THEN <<192 + c \div 64, 128 + (c % 64)>>
    ELSE IF c < 65536 THEN <<224 + c \div 4096, 128 + ((c \div 64) % 64), 128 + (c % 64)>>
    ELSE <<240 + c \div 262144, 128 + ((c \div 4096) % 64),
           128 + ((c \div 64) % 64), 128 + (c % 64)>>

\* MATLAB's characters have 16 bits.
Units(c) == IF c < 65536 THEN 1 ELSE 2

\* A C string ends at its first 0.
CString(s) == LET z == SelectInSeq(s, LAMBDA c : c = 0)
              IN  IF z = 0 THEN s ELSE SubSeq(s, 1, z - 1)

\* The bytes of the first characters of a string.  Only the character 0 has a
\* byte 0 in it.
Encoding(s) ==
    LET b[k \in 0 .. Len(s)] == IF k = 0 THEN << >> ELSE b[k - 1] \o UTF8(s[k])
    IN  b

mxArrayToString(s) == Encoding(CString(s))[Len(CString(s))]

\* max(dims) of the string.
length ==
    LET n[k \in 0 .. Len(str)] == IF k = 0 THEN 0 ELSE n[k - 1] + Units(str[k])
    IN  n[Len(str)]

\* A byte of those that hex2char writes begins a character or ends one.
TakeByte(s, b) ==
    IF b < 128 THEN Append(s, b)
    ELSE IF b >= 192 THEN Append(s, b - 192)
    ELSE Append(Front(s), 64 * Last(s) + b - 128)

\* What mxCreateString makes of them.
mxCreateString(bytes) ==
    LET cs == CString(bytes)
        s[i \in 0 .. Len(cs)] == IF i = 0 THEN << >> ELSE TakeByte(s[i - 1], cs[i])
    IN  s[Len(cs)]

-----------------------------------------------------------------------------
(* serializeString *)

Goto(p) == pc' = p

\* An empty argument, of whatever type, is no byte.  Of the others each type
\* has its conditions; what is fetched again are strings.
SerializeString ==
    /\ pc = "serialize"
    /\ IF arg.shape = "empty" \/ (arg.class = "char" /\ str = << >>)
       THEN Goto("decode") /\ UNCHANGED <<utf8, text>>
       ELSE IF arg.class = "char" /\ arg.shape = "row"
       THEN Goto("encode") /\ utf8' = mxArrayToString(str) /\ UNCHANGED text
       ELSE IF Printable(arg)
       THEN Goto("end") /\ text' \in Printed(arg, fmt) /\ UNCHANGED utf8
       ELSE Goto("error") /\ UNCHANGED <<utf8, text>>
    /\ UNCHANGED <<textVars, loopVars>>

-----------------------------------------------------------------------------
(* char2hex *)

\* Faulty variant: no room for the terminator.
BufferTight == length

\* char_length, the size of char2hex's buffer.
BufferSize == length + 1

\* An argument that is not a char array has no characters.
Init ==
    /\ fmt \in Formats
    /\ \/ arg = Row /\ str \in Strings
       \/ arg \in Arguments /\ str = << >>
    /\ text = NoText
    /\ utf8 = << >>
    /\ pc = "serialize"
    /\ a = 0 /\ idx = 0
    /\ buf = [k \in 0 .. length |-> Unset]
    /\ hex = << >>
    /\ fetched = << >>

\* How many bytes the character has whose first byte is u, if all are there.
Width(u) ==
    IF u >= 240 /\ u < 248 /\ a + 4 <= Len(utf8) THEN 4
    ELSE IF u >= 224 /\ u < 240 /\ a + 3 <= Len(utf8) THEN 3
    ELSE IF u >= 192 /\ u < 224 /\ a + 2 <= Len(utf8) THEN 2
    ELSE 1

\* Faulty variant: the second byte of a pair is taken as it is.
CharacterUnmasked(w) ==
    IF w = 2 THEN (utf8[a + 1] - 192) * 64 + utf8[a + 2] ELSE utf8[a + 1]

\* The character of w bytes at position a.
Character(w) ==
    LET u(k) == utf8[a + 1 + k] - 128
    IN  CASE w = 4 -> (u(0) - 112) * 262144 + u(1) * 4096 + u(2) * 64 + u(3)
          [] w = 3 -> (u(0) - 96) * 4096 + u(1) * 64 + u(2)
          [] w = 2 -> (u(0) - 64) * 64 + u(1)
          [] OTHER -> utf8[a + 1]

\* It is half of a surrogate pair: bits 7 and 5 of its second byte are looked at.
Surrogate(w) ==
    w = 3 /\ utf8[a + 1] = 237 /\ utf8[a + 2] \in (160 .. 191) \cup (224 .. 255)

\* One byte is left of a character, unless it is refused.
Encode ==
    /\ pc = "encode"
    /\ a < Len(utf8)
    /\ LET w == Width(utf8[a + 1])
       IN  IF Surrogate(w)
           THEN Goto("error") /\ UNCHANGED <<a, idx, buf>>
           ELSE /\ buf' = [buf EXCEPT ![idx] = Character(w) % 256]
                /\ a' = a + w
                /\ idx' = idx + 1
                /\ UNCHANGED pc
    /\ UNCHANGED <<textVars, text, utf8, hex, fetched>>

\* The terminator; what is sent and stored is as long as the string was.
EncodeEnd ==
    /\ pc = "encode"
    /\ a = Len(utf8)
    /\ buf' = [buf EXCEPT ![idx] = 0]
    /\ a' = 0
    /\ pc' = "decode"
    /\ UNCHANGED <<textVars, text, utf8, idx, hex, fetched>>

-----------------------------------------------------------------------------
(* hex2char *)

\* Faulty variant: no room for a second byte.
HexTight(n) == n + 1

\* The size of hex2char's buffer for n bytes.
HexSize(n) == 4 * n

\* A byte below 128 stays, any other becomes two.
Decode ==
    /\ pc = "decode"
    /\ a < length
    /\ hex' = hex \o IF buf[a] < 128 THEN <<buf[a]>>
                     ELSE <<192 + buf[a] \div 64, 128 + (buf[a] % 64)>>
    /\ a' = a + 1
    /\ UNCHANGED <<textVars, text, utf8, pc, idx, buf, fetched>>

DecodeEnd ==
    /\ pc = "decode"
    /\ a = length
    /\ fetched' = mxCreateString(hex)
    /\ pc' = "end"
    /\ UNCHANGED <<textVars, text, utf8, a, idx, buf, hex>>

Finished == pc \in {"end", "error"} /\ UNCHANGED vars

Next == SerializeString \/ Encode \/ EncodeEnd \/ Decode \/ DecodeEnd \/ Finished

Spec == Init /\ [][Next]_vars

-----------------------------------------------------------------------------
(* Safety *)

\* Strings of the characters of one byte are never refused and come back as
\* they were (mym.cpp:1641, 1020, 2139).
LatinSurvives ==
    arg = Row /\ (\A k \in DOMAIN str : str[k] \in 1 .. 255) =>
        pc # "error" /\ (pc = "end" => fetched = str)

\* char2hex stays within its buffer, terminator included, for any characters,
\* also for those that MATLAB counts as two (mym.cpp:2133-2156).  So does
\* hex2char, except for values of no bytes, whose buffer has no room for the
\* terminator (mym.cpp:2086, 2116).
BuffersSuffice ==
    /\ pc \in {"encode", "decode"} => idx < BufferSize
    /\ length > 0 => Len(hex) + 1 <= HexSize(length)

\* A number that is sent stands for the argument.  Integers of 8 bits, of 32
\* bits with a sign and logicals are exact, whatever the placeholder is; of a
\* uint32 this holds as far as an int goes, and so it does of the floor that
\* {Si} takes of a double.  Any other double has the n decimals of {Sn}, or 6
\* when there is no n or it is not the first thing behind the S, and is off by
\* half a unit of the last one at most (mym.cpp:1644-1701).
NumbersSurvive ==
    pc = "end" /\ text # NoText =>
        LET floor == text.decimals = 0 /\ Stands(text) = arg.val \div Unit
        IN  /\ arg.class \in {"int8", "uint8", "int32", "logical"} =>
                   text.decimals = 0 /\ Unit * Stands(text) = arg.val
            /\ arg.class = "uint32" /\ InInt(arg) => floor
            /\ arg.class \in Floats /\ fmt.i /\ ~ fmt.u /\ InInt(arg) => floor
            /\ arg.class \in Floats /\ (fmt.i => fmt.u) =>
                   /\ text.decimals = IF fmt.u \/ fmt.n <= 0 THEN 6 ELSE fmt.n
                   /\ 2 * Abs(Unit * Stands(text) - arg.val * 10^text.decimals) <= Unit

-----------------------------------------------------------------------------
(* What the documentation says and the program does not do. *)

\* "{S}  is remplaced by a string given by the corresponding argument arg"
\* (src/mym.m:98).
StringSurvives == pc = "end" /\ arg = Row /\ 0 \notin ToSet(str) => fetched = str

\* The same: every byte that is sent has been written by char2hex, which
\* leaves the bytes behind position idx as they were in memory.
OnlyTheStringSent == pc = "decode" => \A k \in 0 .. length - 1 : k <= idx

\* "for integers the format is [sign]dddddd" (src/mym.m:99-101): a uint32 is
\* cast to int.
UnsignedSurvives ==
    text # NoText /\ arg.class = "uint32" => Unit * Stands(text) = arg.val

\* "The format of the string for double scalars is [sign]d.ddddddEddd", and in
\* that of {Sn} "the number of decimal after the dot is given by n"
\* (src/mym.m:98-103): with an exponent, that is, so that small numbers have as
\* many digits as large ones.
SignificantDigits ==
    text # NoText /\ arg.class \in Floats /\ ~ fmt.i =>
        2 * Abs(Unit * Stands(text) - arg.val * 10^text.decimals) * 10^Decimals(fmt)
            <= Abs(arg.val) * 10^text.decimals

\* "Only scalars are accepted!" (src/src/mym.cpp:1648): only the first two
\* dimensions are looked at.
OnlyScalars == text # NoText => arg.shape = "scalar"

\* "{Si} ... is first converted to an integer (using floor)" (src/mym.m:104):
\* behind the preamble u the i is not seen.
IntegerPlaceholder == text # NoText /\ fmt.i => text.decimals = 0
=============================================================================
