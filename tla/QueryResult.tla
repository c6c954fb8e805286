----------------------------- MODULE QueryResult -----------------------------
(***************************************************************************)
(* What becomes of the result of a command (mym.cpp, CMD): it is stored    *)
(* by the client library, printed by fancyprint or turned into a structure *)
(* with a column per field, and released.                                  *)
(*                                                                         *)
(* A value is NULL, one that its conversion can read, or a broken one.     *)
(* Columns may have the same name, as those of a join do: name[c] is the   *)
(* first column of the name of c.  mexErrMsgTxt and MATLAB's allocation    *)
(* routines, when there is no memory, leave the MEX function at once; what *)
(* was allocated with mxCalloc is then released by MATLAB, the result set, *)
(* which belongs to the client library, is not.                            *)
(***************************************************************************)
EXTENDS Integers

CONSTANTS MaxColumns, MaxCells,     \* bounds of the result set
          NROWMAX, NHEAD, NTAIL     \* what fancyprint prints of many rows

\* "NROWMAX must be greater than NHEAD+NTAIL" (mym.cpp:136).
ASSUME PrintAssumption ==
    /\ NROWMAX \in Nat /\ NHEAD \in Nat /\ NTAIL \in Nat
    /\ NHEAD + NTAIL < NROWMAX
ASSUME SizeAssumption == MaxColumns \in Nat /\ MaxCells \in Nat

Kinds == {"bigint", "number", "blob", "binary", "text"}
Values == {"null", "good", "bad"}
Cells == {"zero", "int", "double", "NaN", "empty", "array", "bytes", "string", "pointer",
          "unset"}
Errors == {"no result", "one output", "null bigint", "blob", "no row", "no memory",
           "crash"}

VARIABLES
    nrow, nfield,   \* the size of the result set
    kind,           \* of each column
    name,           \* of each column
    cell,           \* its values: cell[row][column]
    nlhs,           \* how many outputs the caller asks for
    big,            \* FLAG_BIGINT_TO_DOUBLE
    pc,             \* the next stage
    res,            \* the result set: "none", "stored" or "freed"
    cursor,         \* the row that mysql_fetch_row returns next
    i, j,           \* rows and columns that are done with
    field,          \* the column whose array is the field of a name
    out,            \* the arrays that were created: out[column][row]
    printed,        \* the rows printed, in order: printed[1 .. count]
    count,
    outcome         \* "none", "ok", or what went wrong

input == <<nrow, nfield, kind, name, cell, nlhs, big>>
vars == <<input, pc, res, cursor, i, j, field, out, printed, count, outcome>>

Init ==
    /\ nfield \in 1 .. MaxColumns
    /\ nrow \in 0 .. MaxCells /\ nrow * nfield <= MaxCells
    /\ kind \in [1 .. nfield -> Kinds]
    /\ name \in [1 .. nfield -> 1 .. nfield]
    /\ \A c \in 1 .. nfield : name[c] <= c /\ name[name[c]] = name[c]
    /\ cell \in [1 .. nrow -> [1 .. nfield -> Values]]
    /\ nlhs \in 0 .. 2
    /\ big \in BOOLEAN
    /\ pc = "store"
    /\ res = "none"
    /\ cursor = 1
    /\ i = 0 /\ j = 0
    /\ field = [n \in 1 .. nfield |-> 0]
    /\ out = [c \in 1 .. nfield |-> [r \in 1 .. nrow |-> "unset"]]
    /\ printed = [r \in 1 .. nrow |-> 0]
    /\ count = 0
    /\ outcome = "none"

clip == nrow > NROWMAX

Return(how) == pc' = "end" /\ outcome' = how

\* Columns of 64-bit integers, unless the caller wants doubles.
IsInt(c) == kind[c] = "bigint" /\ ~ big
can_convert(c) == kind[c] \in {"bigint", "number"}

-----------------------------------------------------------------------------
(* the result as a whole *)

\* No result set: the command has none, or there was an error.
NoResult ==
    /\ pc = "store"
    /\ \/ Return("ok")
       \/ Return("no result")
    /\ UNCHANGED <<input, res, cursor, i, j, field, out, printed, count>>

\* Faulty variant: the error about the outputs leaves the result set behind.
StoreForgets ==
    /\ pc = "store"
    /\ IF nlhs > 1
       THEN Return("one output")
       ELSE pc' = (IF nlhs = 0 THEN "print" ELSE "create") /\ UNCHANGED outcome
    /\ res' = "stored"
    /\ UNCHANGED <<input, cursor, i, j, field, out, printed, count>>

\* A result set; without outputs it is printed, and more than one output is
\* an error.
Store ==
    /\ pc = "store"
    /\ IF nlhs > 1
       THEN Return("one output") /\ res' = "freed"
       ELSE /\ pc' = IF nlhs = 0 THEN "print" ELSE "create"
            /\ res' = "stored"
            /\ UNCHANGED outcome
    /\ UNCHANGED <<input, cursor, i, j, field, out, printed, count>>

\* An allocation fails.  When the routine reports it, the result set is
\* released first; MATLAB's routines rather do not return.
NoMemory ==
    /\ \/ pc = "create" /\ res' \in {res, "freed"}
       \/ pc = "print" /\ count = 0 /\ UNCHANGED res
       \/ pc = "cell" /\ j < nfield /\ ~ can_convert(j + 1) /\ UNCHANGED res
    /\ Return("no memory")
    /\ UNCHANGED <<input, cursor, i, j, field, out, printed, count>>

Release ==
    /\ pc = "release"
    /\ res' = "freed"
    /\ Return("ok")
    /\ UNCHANGED <<input, cursor, i, j, field, out, printed, count>>

-----------------------------------------------------------------------------
(* the structure that is returned *)

\* Numeric arrays are created with zeros, cell arrays with empty cells.
Blank(c) == IF can_convert(c) THEN "zero" ELSE "empty"

\* mxSetField by name: the field of that name holds the array, and no other
\* that was there before.
Create ==
    /\ pc = "create"
    /\ IF j < nfield
       THEN /\ out' = [out EXCEPT ![j + 1] = [r \in 1 .. nrow |-> Blank(j + 1)]]
            /\ field' = [field EXCEPT ![name[j + 1]] = j + 1]
            /\ j' = j + 1
            /\ UNCHANGED <<pc, cursor>>
       ELSE /\ cursor' = 1
            /\ j' = 0
            /\ pc' = "row"
            /\ UNCHANGED <<field, out>>
    /\ UNCHANGED <<input, res, i, printed, count, outcome>>

\* The conversions are field2num, field2int, deserialize, the bytes of a BINARY
\* and hex2char.  field2int refuses NULL and leaves the 0 of the new array when
\* it cannot read the value; deserialize refuses some values.
field2num(v) == IF v = "good" THEN "double" ELSE "NaN"

field2int(v) == IF v = "good" THEN "int" ELSE "zero"

Convert(c, v) ==
    IF can_convert(c) THEN IF IsInt(c) THEN field2int(v) ELSE field2num(v)
    ELSE IF v = "null" THEN "empty"
    ELSE CASE kind[c] = "blob" -> "array"
           [] kind[c] = "binary" -> "bytes"
           [] kind[c] = "text" -> "string"

Rejected(c, v) ==
    \/ IsInt(c) /\ v = "null"
    \/ kind[c] = "blob" /\ v = "bad"

FetchRow ==
    /\ pc = "row"
    /\ IF i = nrow THEN pc' = "release" /\ UNCHANGED <<cursor, outcome>>
       ELSE IF cursor > nrow THEN Return("no row") /\ UNCHANGED cursor
       ELSE pc' = "cell" /\ cursor' = cursor + 1 /\ UNCHANGED outcome
    /\ UNCHANGED <<input, res, i, j, field, out, printed, count>>

\* Numbers are put into the array of their column, other values into the one
\* that mxGetField finds by name.
Target(c) == IF can_convert(c) THEN c ELSE field[name[c]]

\* That is an array of numbers, but is used as one of cells.
Mistyped(c) == ~ can_convert(c) /\ can_convert(Target(c))

Fetched == cell[cursor - 1][j + 1]

\* Faulty variant: NULL leaves the column as it was created.
LoadCellSkipsNull ==
    /\ pc = "cell"
    /\ j < nfield
    /\ out' = IF Fetched = "null" THEN out
              ELSE [out EXCEPT ![j + 1][i + 1] = Convert(j + 1, Fetched)]
    /\ j' = j + 1
    /\ UNCHANGED <<input, res, pc, cursor, i, field, printed, count, outcome>>

\* Faulty variant: a value that is not accepted is tried again.
LoadCellRetries ==
    /\ pc = "cell"
    /\ j < nfield
    /\ IF Rejected(j + 1, Fetched) THEN UNCHANGED <<out, j>>
       ELSE /\ out' = [out EXCEPT ![j + 1][i + 1] = Convert(j + 1, Fetched)]
            /\ j' = j + 1
    /\ UNCHANGED <<input, res, pc, cursor, i, field, printed, count, outcome>>

\* The value is taken from the row that was fetched, and goes to row i.  What
\* mxSetCell writes into an array of numbers is a pointer.
LoadCell ==
    /\ pc = "cell"
    /\ j < nfield
    /\ IF Rejected(j + 1, Fetched)
       THEN /\ Return(IF IsInt(j + 1) THEN "null bigint" ELSE "blob")
            /\ UNCHANGED <<out, j>>
       ELSE /\ out' = [out EXCEPT ![Target(j + 1)][i + 1] =
                          IF Mistyped(j + 1) THEN "pointer"
                          ELSE Convert(j + 1, Fetched)]
            /\ j' = j + 1
            /\ UNCHANGED <<pc, outcome>>
    /\ UNCHANGED <<input, res, cursor, i, field, printed, count>>

\* Or it ends MATLAB.
LoadCrashes ==
    /\ pc = "cell"
    /\ j < nfield
    /\ ~ Rejected(j + 1, Fetched) /\ Mistyped(j + 1)
    /\ Return("crash")
    /\ UNCHANGED <<input, res, cursor, i, j, field, out, printed, count>>

\* Faulty variant: the next row starts at the column where this one ended.
NextRowKeepsColumn ==
    /\ pc = "cell"
    /\ j = nfield
    /\ i' = i + 1
    /\ pc' = "row"
    /\ UNCHANGED <<input, res, cursor, j, field, out, printed, count, outcome>>

NextRow ==
    /\ pc = "cell"
    /\ j = nfield
    /\ i' = i + 1
    /\ j' = 0
    /\ pc' = "row"
    /\ UNCHANGED <<input, res, cursor, field, out, printed, count, outcome>>

-----------------------------------------------------------------------------
(* fancyprint *)

\* Faulty variants: the tail starts one row late, or early.
TailStartsLate == nrow - NTAIL + 2
TailStartsEarly == nrow - NTAIL

\* The row that mysql_data_seek goes to after the head; it counts rows from 0,
\* the cursor from 1.
TailStart == nrow - NTAIL + 1

\* How many rows are printed.
RowsToPrint == IF clip THEN NHEAD + NTAIL ELSE nrow

\* Between head and tail the cursor moves to the tail.
Position == IF clip /\ count = NHEAD THEN TailStart ELSE cursor

PrintRow ==
    /\ pc = "print"
    /\ count < RowsToPrint
    /\ IF Position > nrow
       THEN /\ Return("no row")
            /\ UNCHANGED <<cursor, printed, count>>
       ELSE /\ printed' = [printed EXCEPT ![count + 1] = Position]
            /\ count' = count + 1
            /\ cursor' = Position + 1
            /\ UNCHANGED <<pc, outcome>>
    /\ UNCHANGED <<input, res, i, j, field, out>>

PrintEnd ==
    /\ pc = "print"
    /\ count = RowsToPrint
    /\ pc' = "release"
    /\ UNCHANGED <<input, res, cursor, i, j, field, out, printed, count, outcome>>

Finished == pc = "end" /\ UNCHANGED vars

Step == NoResult \/ Store \/ NoMemory \/ Release \/ Create \/ FetchRow
           \/ LoadCell \/ LoadCrashes \/ NextRow \/ PrintRow \/ PrintEnd

Next == Step \/ Finished

Spec == Init /\ [][Next]_vars

\* MATLAB waits for the MEX function; nothing else runs in its thread.
FairSpec == Spec /\ WF_vars(Step)

-----------------------------------------------------------------------------
(* Safety *)

TypeOK ==
    /\ nrow \in Nat /\ nfield \in Nat
    /\ kind \in [1 .. nfield -> Kinds]
    /\ name \in [1 .. nfield -> 1 .. nfield]
    /\ cell \in [1 .. nrow -> [1 .. nfield -> Values]]
    /\ nlhs \in 0 .. 2 /\ big \in BOOLEAN
    /\ pc \in {"store", "create", "row", "cell", "print", "release", "end"}
    /\ res \in {"none", "stored", "freed"}
    /\ cursor \in 1 .. nrow + 1
    /\ i \in 0 .. nrow /\ j \in 0 .. nfield
    /\ field \in [1 .. nfield -> 0 .. nfield]
    /\ out \in [1 .. nfield -> [1 .. nrow -> Cells]]
    /\ printed \in [1 .. nrow -> 0 .. nrow]
    /\ count \in 0 .. nrow
    /\ outcome \in Errors \cup {"none", "ok"}

\* The place where the value of row r and column c has already been put.
Loaded(r, c) == r <= i \/ (r = i + 1 /\ c <= j /\ pc = "cell")

\* A value was put in its own row and column, and was not one to reject.
Placed(r, c) ==
    ~ Rejected(c, cell[r][c]) /\ out[c][r] = Convert(c, cell[r][c])

\* The columns whose arrays have been created.
Created == IF pc = "create" THEN j ELSE nfield

\* The field of c's name holds the array of c, or of a later column of that
\* name.
Held(c) ==
    /\ field[name[c]] \in c .. nfield
    /\ name[field[name[c]]] = name[c]

\* Every field has the values of a column of its name: the last such column.
Complete ==
    \A c \in 1 .. nfield :
        Held(c) /\ \A r \in 1 .. nrow : Placed(r, field[name[c]])

\* The rows that have been printed: from the top as far as the head goes, or
\* to the end; then the last ones.
PrintedRow(k) == IF clip /\ k > NHEAD THEN nrow - NTAIL + (k - NHEAD) ELSE k

\* What holds at each stage.
Stages ==
    /\ pc = "store" => cursor = 1 /\ count = 0 /\ j = 0 /\ res = "none"
    /\ pc \notin {"store", "end"} => res = "stored"
    /\ pc \in {"store", "create", "print"} => i = 0
    /\ pc \in {"create", "row", "cell"} => nlhs = 1
    /\ pc = "row" => j = 0 /\ cursor = i + 1
    /\ pc = "cell" => i < nrow /\ cursor = i + 2
    /\ pc = "print" => nlhs = 0
    /\ pc = "release" => \/ nlhs = 1 /\ i = nrow
                         \/ nlhs = 0 /\ count = RowsToPrint

FieldsHold ==
    pc \in {"create", "row", "cell", "release"} /\ nlhs = 1 =>
        \A c \in 1 .. Created : Held(c)

LoadedWell ==
    pc \in {"row", "cell", "release"} /\ nlhs = 1 =>
        \A r \in 1 .. nrow, c \in 1 .. nfield :
            field[name[c]] = c /\ Loaded(r, c) => Placed(r, c)

PrintedWell ==
    /\ count <= RowsToPrint
    /\ \A k \in 1 .. count : printed[k] = PrintedRow(k)
    /\ pc = "print" => cursor = IF count = 0 THEN 1 ELSE PrintedRow(count) + 1

\* The results that are not loaded to the end: there is a NULL among 64-bit
\* integers, a blob that deserialize refuses, or a number in one column and
\* another thing in one of the same name.
Spoilt ==
    /\ nlhs = 1
    /\ \/ \E r \in 1 .. nrow, c \in 1 .. nfield :
              \/ kind[c] = "bigint" /\ ~ big /\ cell[r][c] = "null"
              \/ kind[c] = "blob" /\ cell[r][c] = "bad"
       \/ \E c, d \in 1 .. nfield :
              /\ name[c] = name[d] /\ nrow > 0
              /\ can_convert(c) /\ ~ can_convert(d)

\* How a call ends.
Ends ==
    /\ outcome = "none" <=> pc # "end"
    /\ outcome # "no row"
    /\ outcome = "ok" /\ res # "none" =>
           /\ res = "freed"
           /\ nlhs = 1 => Complete
           /\ nlhs = 0 => count = RowsToPrint
    /\ pc = "end" /\ res = "stored" => outcome = "no memory" \/ Spoilt

ResultInv == TypeOK /\ Stages /\ FieldsHold /\ LoadedWell /\ PrintedWell /\ Ends

\* A structure that is returned has for every column a field that holds all the
\* values of that column, or of the last one with its name, each in its own
\* row, also when values of other columns were written to the same array before
\* them; no NULL was taken for an integer (mym.cpp:989-1024).
StructComplete == outcome = "ok" /\ res # "none" /\ nlhs = 1 => Complete

\* fancyprint prints every row once and in order, or, of many rows, the first
\* NHEAD and the last NTAIL and none twice (mym.cpp:189-235).
PrintsHeadAndTail ==
    outcome = "ok" /\ res # "none" /\ nlhs = 0 =>
        LET shown == {r \in 1 .. nrow : ~ clip \/ r <= NHEAD \/ r > nrow - NTAIL}
        IN  /\ {printed[k] : k \in 1 .. count} = shown
            /\ \A k, l \in 1 .. count : k < l => printed[k] < printed[l]

\* "Internal error:  Failed to get a row" never happens: no loop fetches more
\* rows than the result has (mym.cpp:197, 211, 225, 995).
RowsSuffice == outcome # "no row"

\* However a call ends, with or without an error, it has released the result
\* set, unless there was no memory or the structure was to be loaded from a
\* result that is spoilt: no other value, and no number of rows, of columns or
\* of outputs makes a call leave the result set behind (mym.cpp:893-1027).
ReleasedUnlessSpoilt ==
    pc = "end" /\ res = "stored" => outcome = "no memory" \/ Spoilt

-----------------------------------------------------------------------------
(* Liveness *)

\* The call returns, whatever the result is.
Returns == <>(pc = "end")

-----------------------------------------------------------------------------
(* What a comment says and the program does not do. *)

\* "We need to be careful to deallocate res before returning" (mym.cpp:893);
\* the comment itself excepts the case that there is no memory.
DeallocatedBeforeReturning ==
    pc = "end" /\ outcome # "no memory" => res # "stored"

\* "If we are here, he wants output" (mym.cpp:930): of every column.
NoColumnLost ==
    outcome = "ok" /\ nlhs = 1 /\ res # "none" =>
        \A c \in 1 .. nfield : field[name[c]] = c
=============================================================================
