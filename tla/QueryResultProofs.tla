-------------------------- MODULE QueryResultProofs --------------------------
(***************************************************************************)
(* Proofs about QueryResult, for result sets of any size and any numbers   *)
(* of rows that fancyprint prints at the top and at the end.               *)
(***************************************************************************)
EXTENDS QueryResult, TLAPS

\* The sizes are natural numbers, and what is printed is not more than there
\* is: this is where NROWMAX > NHEAD + NTAIL is needed.
LEMMA Sizes ==
    ASSUME TypeOK
    PROVE  /\ nrow \in Nat /\ nfield \in Nat /\ i \in Nat /\ j \in Nat
           /\ count \in Nat /\ cursor \in Nat
           /\ RowsToPrint \in Nat /\ RowsToPrint <= nrow
<1>1. /\ nrow \in Nat /\ nfield \in Nat /\ i \in Nat /\ j \in Nat
      /\ count \in Nat /\ cursor \in Nat
  BY DEF TypeOK
<1>2. RowsToPrint \in Nat /\ RowsToPrint <= nrow
  BY <1>1, PrintAssumption DEF RowsToPrint, clip
<1> QED BY <1>1, <1>2

\* What Convert gives for a value that is not rejected is a cell.
LEMMA ConvertType ==
    ASSUME TypeOK, NEW c \in 1 .. nfield, NEW v
    PROVE  Convert(c, v) \in Cells
<1>1. kind[c] \in Kinds
  BY DEF TypeOK
<1> QED BY <1>1 DEF Convert, can_convert, IsInt, field2num, field2int, Kinds, Cells

\* Nothing that Placed looks at changes while out stays.
LEMMA PlacedFrame ==
    ASSUME UNCHANGED <<input, out>>
    PROVE  \A r, c : Placed(r, c)' <=> Placed(r, c)
  BY DEF input, Placed, Rejected, Convert, IsInt, can_convert, field2num, field2int

\* A result stays spoilt, or as good as it was.
LEMMA SpoiltFrame ==
    ASSUME UNCHANGED input
    PROVE  Spoilt' <=> Spoilt
  BY DEF input, Spoilt, can_convert

\* Nothing that the printed rows depend on changes.
LEMMA PrintFrame ==
    ASSUME UNCHANGED <<nrow, printed, count>>
    PROVE  /\ RowsToPrint' = RowsToPrint
           /\ \A k : PrintedRow(k)' = PrintedRow(k)
  BY DEF RowsToPrint, PrintedRow, clip

\* What the fields of the structure hold is not disturbed by the later stages.
LEMMA FieldsStay ==
    ASSUME ResultInv, UNCHANGED <<input, field>>,
           \/ pc' \in {"end", "print"}
           \/ nlhs = 0
           \/ pc' = "create" /\ j' = 0
           \/ pc \in {"row", "cell"} /\ pc' \in {"row", "cell", "release"}
    PROVE  FieldsHold'
  BY DEF ResultInv, FieldsHold, Held, Created, input

LEMMA StartsRight == Init => ResultInv
<1> SUFFICES ASSUME Init PROVE ResultInv
  OBVIOUS
<1>1. nrow \in Nat /\ nfield \in Nat
  BY SizeAssumption DEF Init
<1>2. TypeOK
  <2>1. out \in [1 .. nfield -> [1 .. nrow -> Cells]]
    BY DEF Init, Cells
  <2>2. printed \in [1 .. nrow -> 0 .. nrow]
    BY <1>1 DEF Init
  <2>3. cursor \in 1 .. nrow + 1 /\ i \in 0 .. nrow /\ j \in 0 .. nfield
        /\ count \in 0 .. nrow
    BY <1>1 DEF Init
  <2> QED BY <1>1, <2>1, <2>2, <2>3 DEF Init, TypeOK, Errors
<1>3. PrintedWell
  BY <1>1, <1>2, Sizes DEF Init, PrintedWell
<1>4. Stages /\ FieldsHold /\ LoadedWell /\ Ends
  BY DEF Init, Stages, FieldsHold, LoadedWell, Ends, Errors
<1> QED BY <1>2, <1>3, <1>4 DEF ResultInv

-----------------------------------------------------------------------------
(* the result as a whole *)

LEMMA NoResultStep == ResultInv /\ NoResult => ResultInv'
<1> SUFFICES ASSUME ResultInv, NoResult PROVE ResultInv'
  OBVIOUS
<1>1. /\ pc = "store" /\ pc' = "end" /\ outcome' \in {"ok", "no result"}
      /\ UNCHANGED <<nrow, nfield, kind, name, cell, nlhs, big>>
      /\ UNCHANGED <<res, cursor, i, j, field, out, printed, count>>
  BY DEF NoResult, Return, input
<1>2. TypeOK'
  BY <1>1 DEF ResultInv, TypeOK, Errors
<1>3. Stages' /\ LoadedWell' /\ Ends'
  BY <1>1 DEF ResultInv, Stages, LoadedWell, Ends
<1>4. PrintedWell'
  BY <1>1, PrintFrame DEF ResultInv, PrintedWell
<1>f. FieldsHold'
  BY <1>1, FieldsStay DEF input
<1> QED BY <1>f, <1>2, <1>3, <1>4 DEF ResultInv

LEMMA StoreStep == ResultInv /\ Store => ResultInv'
<1> SUFFICES ASSUME ResultInv, Store PROVE ResultInv'
  OBVIOUS
<1>1. /\ pc = "store"
      /\ UNCHANGED <<nrow, nfield, kind, name, cell, nlhs, big>>
      /\ UNCHANGED <<cursor, i, j, field, out, printed, count>>
  BY DEF Store, input
<1>2. \/ nlhs = 2 /\ pc' = "end" /\ outcome' = "one output" /\ res' = "freed"
      \/ nlhs = 0 /\ pc' = "print" /\ outcome' = outcome /\ res' = "stored"
      \/ nlhs = 1 /\ pc' = "create" /\ outcome' = outcome /\ res' = "stored"
  <2>1. nlhs \in {0, 1, 2}
    BY DEF ResultInv, TypeOK
  <2>2. CASE nlhs = 2
    <3>1. nlhs > 1
      BY <2>2
    <3>2. pc' = "end" /\ outcome' = "one output" /\ res' = "freed"
      BY <3>1 DEF Store, Return
    <3> QED BY <2>2, <3>2, Zenon
  <2>3. CASE nlhs \in {0, 1}
    <3>1. ~ (nlhs > 1)
      BY <2>3
    <3>2. /\ pc' = IF nlhs = 0 THEN "print" ELSE "create"
          /\ outcome' = outcome /\ res' = "stored"
      BY <3>1 DEF Store
    <3> QED BY <2>3, <3>2
  <2> QED BY <2>1, <2>2, <2>3
<1>3. TypeOK'
  BY <1>1, <1>2 DEF ResultInv, TypeOK, Errors
<1>4. cursor = 1 /\ count = 0 /\ i = 0 /\ j = 0 /\ outcome = "none"
  BY <1>1 DEF ResultInv, Stages, Ends
<1>5. Stages' /\ LoadedWell' /\ Ends'
  BY <1>1, <1>2, <1>4 DEF Stages, LoadedWell, Ends
<1>6. PrintedWell'
  BY <1>1, <1>4, PrintFrame DEF ResultInv, PrintedWell
<1>f. FieldsHold'
  BY <1>1, <1>2, <1>4, FieldsStay DEF input
<1> QED BY <1>f, <1>3, <1>5, <1>6 DEF ResultInv

LEMMA NoMemoryStep == ResultInv /\ NoMemory => ResultInv'
<1> SUFFICES ASSUME ResultInv, NoMemory PROVE ResultInv'
  OBVIOUS
<1>1. /\ pc' = "end" /\ outcome' = "no memory" /\ res' \in {res, "freed"}
      /\ UNCHANGED <<nrow, nfield, kind, name, cell, nlhs, big>>
      /\ UNCHANGED <<cursor, i, j, field, out, printed, count>>
  BY DEF NoMemory, Return, input
<1>2. TypeOK'
  BY <1>1 DEF ResultInv, TypeOK, Errors
<1>3. Stages' /\ LoadedWell' /\ Ends'
  BY <1>1 DEF ResultInv, Stages, LoadedWell, Ends
<1>4. PrintedWell'
  BY <1>1, PrintFrame DEF ResultInv, PrintedWell
<1>f. FieldsHold'
  BY <1>1, FieldsStay DEF input
<1> QED BY <1>f, <1>2, <1>3, <1>4 DEF ResultInv

\* By the time of the release every value has been loaded, or every row that
\* is to be printed has been.
LEMMA ReleaseStep == ResultInv /\ Release => ResultInv'
<1> SUFFICES ASSUME ResultInv, Release PROVE ResultInv'
  OBVIOUS
<1>1. /\ pc = "release" /\ pc' = "end" /\ outcome' = "ok" /\ res' = "freed"
      /\ UNCHANGED <<nrow, nfield, kind, name, cell, nlhs, big>>
      /\ UNCHANGED <<input, cursor, i, j, field, out, printed, count>>
  BY DEF Release, Return, input
<1>2. TypeOK'
  BY <1>1 DEF ResultInv, TypeOK, Errors
<1>3. \/ nlhs = 1 /\ i = nrow
      \/ nlhs = 0 /\ count = RowsToPrint
  BY <1>1 DEF ResultInv, Stages
<1>4. nlhs = 1 => Complete'
  <2> SUFFICES ASSUME nlhs = 1, NEW c \in 1 .. nfield
               PROVE  Held(c)' /\ \A r \in 1 .. nrow : Placed(r, field[name[c]])'
    BY <1>1 DEF Complete
  <2> DEFINE o == field[name[c]]
  <2>1. Held(c)
    BY <1>1 DEF ResultInv, FieldsHold, Created
  <2>2. o \in 1 .. nfield /\ field[name[o]] = o
    BY <2>1, Sizes DEF ResultInv, Held
  <2>3. ASSUME NEW r \in 1 .. nrow
        PROVE  Placed(r, o)
    <3>1. Loaded(r, o)
      BY <1>3, Sizes DEF ResultInv, Loaded
    <3> QED BY <1>1, <2>2, <3>1 DEF ResultInv, LoadedWell
  <2>4. Held(c)'
    BY <1>1, <2>1 DEF Held
  <2> QED BY <1>1, <2>3, <2>4, PlacedFrame
<1>5. nlhs = 0 => count = RowsToPrint'
  BY <1>1, <1>3, PrintFrame
<1>6. Stages' /\ LoadedWell'
  BY <1>1 DEF Stages, LoadedWell
<1>7. Ends'
  BY <1>1, <1>4, <1>5 DEF Ends
<1>8. PrintedWell'
  BY <1>1, PrintFrame DEF ResultInv, PrintedWell
<1>f. FieldsHold'
  BY <1>1, FieldsStay DEF input
<1> QED BY <1>f, <1>2, <1>6, <1>7, <1>8 DEF ResultInv

-----------------------------------------------------------------------------
(* the structure that is returned *)

LEMMA CreateStep == ResultInv /\ Create => ResultInv'
<1> SUFFICES ASSUME ResultInv, Create PROVE ResultInv'
  OBVIOUS
<1>1. /\ pc = "create"
      /\ UNCHANGED <<nrow, nfield, kind, name, cell, nlhs, big>>
      /\ UNCHANGED <<res, i, printed, count, outcome>>
  BY DEF Create, input
<1>2. i = 0 /\ nlhs = 1 /\ res = "stored" /\ outcome = "none"
  BY <1>1 DEF ResultInv, Stages, Ends
<1>3. \/ /\ j < nfield /\ j' = j + 1 /\ pc' = pc /\ cursor' = cursor
         /\ field' = [field EXCEPT ![name[j + 1]] = j + 1]
         /\ out' = [out EXCEPT ![j + 1] = [r \in 1 .. nrow |-> Blank(j + 1)]]
      \/ /\ j = nfield /\ j' = 0 /\ pc' = "row" /\ cursor' = 1
         /\ field' = field /\ out' = out
  BY Sizes DEF Create, ResultInv, TypeOK
<1>4. /\ name \in [1 .. nfield -> 1 .. nfield]
      /\ field \in [1 .. nfield -> 0 .. nfield]
      /\ nfield \in Nat /\ j \in 0 .. nfield
  BY Sizes DEF ResultInv, TypeOK
<1>5. TypeOK'
  <2>1. j' \in 0 .. nfield /\ cursor' \in 1 .. nrow + 1
    <3>1. cursor \in 1 .. nrow + 1 /\ nrow \in Nat
      BY DEF ResultInv, TypeOK
    <3>2. cursor' \in 1 .. nrow + 1
      BY <1>3, <3>1
    <3>3. (j < nfield /\ j' = j + 1) \/ j' = 0
      BY <1>3
    <3>4. nfield \in Nat /\ j \in Nat
      BY Sizes DEF ResultInv
    <3>5. j' \in 0 .. nfield
      BY <3>3, <3>4
    <3> QED BY <3>2, <3>5
  <2>2. [r \in 1 .. nrow |-> Blank(j + 1)] \in [1 .. nrow -> Cells]
    BY DEF Blank, Cells
  <2>3. out' \in [1 .. nfield -> [1 .. nrow -> Cells]]
    BY <1>3, <2>2 DEF ResultInv, TypeOK
  <2>4. field' \in [1 .. nfield -> 0 .. nfield]
    <3>1. CASE field' = field
      BY <1>4, <3>1
    <3>2. CASE j < nfield /\ field' = [field EXCEPT ![name[j + 1]] = j + 1]
      <4>1. j + 1 \in 0 .. nfield
        BY <1>4, <3>2
      <4> QED BY <1>4, <3>2, <4>1
    <3> QED BY <1>3, <3>1, <3>2
  <2>5. pc' \in {"create", "row"}
    BY <1>1, <1>3
  <2> QED BY <1>1, <2>1, <2>3, <2>4, <2>5 DEF ResultInv, TypeOK
<1>6. Stages' /\ Ends'
  BY <1>1, <1>2, <1>3 DEF Stages, Ends
<1>7. FieldsHold'
  <2>1. \A c \in 1 .. j : Held(c)
    BY <1>1, <1>2 DEF ResultInv, FieldsHold, Created
  <2>2. CASE j = nfield /\ pc' = "row" /\ field' = field
    BY <1>1, <2>1, <2>2 DEF FieldsHold, Created, Held
  <2>3. CASE /\ j < nfield /\ j' = j + 1 /\ pc' = pc
             /\ field' = [field EXCEPT ![name[j + 1]] = j + 1]
    <3>1. ASSUME NEW c \in 1 .. j + 1
          PROVE  field'[name[c]] \in c .. nfield /\ name[field'[name[c]]] = name[c]
      <4>1. c \in 1 .. nfield /\ j + 1 \in 1 .. nfield /\ j \in Nat /\ nfield \in Nat
        <5>1. j \in Nat /\ j + 1 <= nfield /\ nfield \in Nat
          BY <1>4, <2>3
        <5> QED BY <5>1
      <4>2. CASE name[c] = name[j + 1]
        <5>1. name[c] \in DOMAIN field
          BY <1>4, <4>1
        <5>2. field'[name[c]] = j + 1
          BY <2>3, <4>2, <5>1
        <5> QED BY <4>1, <4>2, <5>2
      <4>3. CASE name[c] # name[j + 1]
        <5>1. c \in 1 .. j /\ name[c] \in DOMAIN field
          <6>1. c # j + 1
            BY <4>3
          <6>2. c \in 1 .. j
            BY <4>1, <6>1
          <6> QED BY <1>4, <4>1, <6>2
        <5>2. field'[name[c]] = field[name[c]]
          BY <2>3, <4>3, <5>1
        <5> QED BY <2>1, <5>1, <5>2 DEF Held
      <4> QED BY <4>2, <4>3
    <3> QED BY <1>1, <2>3, <3>1 DEF FieldsHold, Created, Held
  <2> QED BY <1>3, <2>2, <2>3
<1>8. LoadedWell'
  BY <1>1, <1>2, <1>3, Sizes DEF ResultInv, LoadedWell, Loaded
<1>9. PrintedWell'
  BY <1>1, <1>3, PrintFrame DEF ResultInv, PrintedWell
<1> QED BY <1>5, <1>6, <1>7, <1>8, <1>9 DEF ResultInv

\* The loop over the rows and the cursor of the result set agree: there is
\* always a row to fetch.
LEMMA FetchRowStep == ResultInv /\ FetchRow => ResultInv'
<1> SUFFICES ASSUME ResultInv, FetchRow PROVE ResultInv'
  OBVIOUS
<1>1. /\ pc = "row"
      /\ UNCHANGED <<nrow, nfield, kind, name, cell, nlhs, big>>
      /\ UNCHANGED <<input, res, i, j, field, out, printed, count>>
  BY DEF FetchRow, input
<1>2. nlhs = 1 /\ j = 0 /\ cursor = i + 1 /\ res = "stored" /\ outcome = "none"
  BY <1>1 DEF ResultInv, Stages, Ends
<1>3. /\ outcome' = outcome
      /\ \/ i = nrow /\ pc' = "release" /\ cursor' = cursor
         \/ i < nrow /\ pc' = "cell" /\ cursor' = cursor + 1
  <2>1. i = nrow \/ i < nrow
    BY DEF ResultInv, TypeOK
  <2>2. ~ (i < nrow /\ cursor > nrow)
    BY <1>2, Sizes DEF ResultInv
  <2> QED BY <2>1, <2>2, Sizes DEF FetchRow, Return, ResultInv
<1>4. TypeOK'
  <2>1. cursor' \in 1 .. nrow + 1
    <3>1. nrow \in Nat /\ i \in 0 .. nrow
      BY DEF ResultInv, TypeOK
    <3> QED BY <1>2, <1>3, <3>1
  <2>2. pc' \in {"release", "cell"}
    BY <1>3
  <2> QED BY <1>1, <1>3, <2>1, <2>2 DEF ResultInv, TypeOK
<1>5. Stages' /\ Ends'
  BY <1>1, <1>2, <1>3, Sizes DEF ResultInv, Stages, Ends
<1>6. LoadedWell'
  <2> SUFFICES ASSUME NEW r \in 1 .. nrow, NEW c \in 1 .. nfield,
                      field'[name[c]] = c, Loaded(r, c)'
               PROVE  Placed(r, c)'
    BY <1>1 DEF LoadedWell
  <2>1. Loaded(r, c)
    BY <1>1, <1>2, Sizes DEF ResultInv, Loaded
  <2> QED BY <1>1, <1>2, <2>1, PlacedFrame DEF ResultInv, LoadedWell
<1>7. PrintedWell'
  BY <1>1, <1>3, PrintFrame DEF ResultInv, PrintedWell
<1>f. FieldsHold'
  BY <1>1, <1>3, FieldsStay DEF input
<1> QED BY <1>f, <1>4, <1>5, <1>6, <1>7 DEF ResultInv

\* A column whose array is the field of its name is loaded into that array.
LEMMA OwnTarget ==
    ASSUME NEW c, field[name[c]] = c
    PROVE  Target(c) = c /\ ~ Mistyped(c)
  BY DEF Target, Mistyped

\* A value goes to the array of its column or to that of a later one.
LEMMA TargetIsLater ==
    ASSUME ResultInv, pc = "cell", NEW c \in 1 .. nfield
    PROVE  Target(c) \in c .. nfield
<1>1. nlhs = 1 /\ nfield \in Nat
  BY Sizes DEF ResultInv, Stages
<1>2. field[name[c]] \in c .. nfield
  BY <1>1 DEF ResultInv, FieldsHold, Held, Created
<1> QED BY <1>1, <1>2 DEF Target

\* The value that is converted is the one of the row where it goes; what is
\* put into the array of another column is replaced by that one's own value
\* before the row ends.
LEMMA LoadCellStep == ResultInv /\ LoadCell => ResultInv'
<1> SUFFICES ASSUME ResultInv, LoadCell PROVE ResultInv'
  OBVIOUS
<1> DEFINE v == cell[i + 1][j + 1]
           t == Target(j + 1)
           w == IF Mistyped(j + 1) THEN "pointer" ELSE Convert(j + 1, v)
<1>1. /\ pc = "cell" /\ j < nfield
      /\ UNCHANGED <<nrow, nfield, kind, name, cell, nlhs, big>>
      /\ UNCHANGED <<input, res, cursor, i, field, printed, count>>
  BY DEF LoadCell, input
<1>2. nlhs = 1 /\ i < nrow /\ cursor - 1 = i + 1 /\ res = "stored" /\ outcome = "none"
  BY <1>1, Sizes DEF ResultInv, Stages, Ends
<1>3. i + 1 \in 1 .. nrow /\ j + 1 \in 1 .. nfield
  BY <1>1, <1>2, Sizes DEF ResultInv
<1>4. t \in j + 1 .. nfield
  BY <1>1, <1>3, TargetIsLater
<1>5. CASE Rejected(j + 1, v)
  <2>1. /\ pc' = "end" /\ outcome' \in {"null bigint", "blob"}
        /\ out' = out /\ j' = j
    BY <1>2, <1>5 DEF LoadCell, Return, Fetched
  <2>2. TypeOK'
    BY <1>1, <2>1 DEF ResultInv, TypeOK, Errors
  <2>3. Stages' /\ FieldsHold' /\ LoadedWell'
    BY <1>1, <1>2, <2>1 DEF Stages, FieldsHold, LoadedWell
  <2>4. PrintedWell'
    BY <1>1, <2>1, PrintFrame DEF ResultInv, PrintedWell
  <2>5. Spoilt
    BY <1>2, <1>3, <1>5 DEF Spoilt, Rejected, IsInt
  <2>6. Ends'
    BY <1>1, <2>1, <2>5, SpoiltFrame DEF Ends
  <2> QED BY <2>2, <2>3, <2>4, <2>6 DEF ResultInv
<1>6. CASE ~ Rejected(j + 1, v)
  <2>1. /\ pc' = pc /\ outcome' = outcome /\ j' = j + 1
        /\ out' = [out EXCEPT ![t][i + 1] = w]
    BY <1>2, <1>6 DEF LoadCell, Fetched
  <2>2. w \in Cells
    <3>1. Convert(j + 1, v) \in Cells
      BY <1>3, ConvertType DEF ResultInv
    <3> QED BY <3>1 DEF Cells
  <2>3. out \in [1 .. nfield -> [1 .. nrow -> Cells]] /\ t \in 1 .. nfield
    <3>1. out \in [1 .. nfield -> [1 .. nrow -> Cells]]
      BY DEF ResultInv, TypeOK
    <3>2. nfield \in Nat /\ j \in Nat
      BY Sizes DEF ResultInv
    <3>3. t \in 1 .. nfield
      BY <1>4, <3>2
    <3> QED BY <3>1, <3>3
  <2>4. out' \in [1 .. nfield -> [1 .. nrow -> Cells]]
    BY <1>3, <2>1, <2>2, <2>3
  <2>5. TypeOK'
    <3>1. j' \in 0 .. nfield
      BY <1>3, <2>1, Sizes DEF ResultInv
    <3> QED BY <1>1, <2>1, <2>4, <3>1 DEF ResultInv, TypeOK
  <2>6. Stages' /\ Ends'
    BY <1>1, <1>2, <2>1 DEF ResultInv, Stages, Ends
  <2>7. LoadedWell'
    <3> SUFFICES ASSUME NEW r \in 1 .. nrow, NEW c \in 1 .. nfield,
                        field[name[c]] = c, Loaded(r, c)'
                 PROVE  Placed(r, c)'
      BY <1>1 DEF LoadedWell
    <3>1. CASE r = i + 1 /\ c = j + 1
      <4>1. t = c /\ w = Convert(c, v)
        BY <3>1, OwnTarget
      <4>2. out'[c][r] = Convert(c, cell[r][c])
        BY <1>3, <2>1, <2>3, <3>1, <4>1
      <4>3. ~ Rejected(c, cell[r][c])
        BY <1>6, <3>1
      <4> QED BY <1>1, <4>2, <4>3
           DEF Placed, Rejected, Convert, IsInt, can_convert, field2num, field2int
    <3>2. CASE ~ (r = i + 1 /\ c = j + 1)
      <4>1. Loaded(r, c) /\ (r = i + 1 => c < j + 1)
        BY <1>1, <2>1, <3>2, Sizes DEF ResultInv, Loaded
      <4>2. Placed(r, c)
        BY <1>1, <1>2, <4>1 DEF ResultInv, LoadedWell
      <4>3. ~ (r = i + 1 /\ c = t)
        BY <1>4, <4>1, Sizes DEF ResultInv
      <4>4. out'[c][r] = out[c][r]
        BY <1>3, <2>1, <2>3, <4>3
      <4> QED BY <1>1, <4>2, <4>4
           DEF Placed, Rejected, Convert, IsInt, can_convert, field2num, field2int
    <3> QED BY <3>1, <3>2
  <2>8. PrintedWell'
    BY <1>1, <2>1, PrintFrame DEF ResultInv, PrintedWell
  <2>9. FieldsHold'
    BY <1>1, <2>1, FieldsStay
  <2> QED BY <2>5, <2>6, <2>7, <2>8, <2>9 DEF ResultInv
<1> QED BY <1>5, <1>6

LEMMA LoadCrashesStep == ResultInv /\ LoadCrashes => ResultInv'
<1> SUFFICES ASSUME ResultInv, LoadCrashes PROVE ResultInv'
  OBVIOUS
<1>1. /\ pc = "cell" /\ pc' = "end" /\ outcome' = "crash"
      /\ j < nfield /\ Mistyped(j + 1)
      /\ UNCHANGED <<nrow, nfield, kind, name, cell, nlhs, big>>
      /\ UNCHANGED <<input, res, cursor, i, j, field, out, printed, count>>
  BY DEF LoadCrashes, Return, input
<1>2. TypeOK'
  BY <1>1 DEF ResultInv, TypeOK, Errors
<1>3. Stages' /\ FieldsHold' /\ LoadedWell'
  BY <1>1 DEF ResultInv, Stages, FieldsHold, LoadedWell
<1>4. PrintedWell'
  BY <1>1, PrintFrame DEF ResultInv, PrintedWell
<1>5. Spoilt
  <2>1. nlhs = 1 /\ nrow > 0 /\ j + 1 \in 1 .. nfield
    BY <1>1, Sizes DEF ResultInv, Stages
  <2> DEFINE d == field[name[j + 1]]
  <2>2. d \in j + 1 .. nfield /\ name[d] = name[j + 1]
    BY <1>1, <2>1 DEF ResultInv, FieldsHold, Held, Created
  <2>3. d \in 1 .. nfield
    BY <2>1, <2>2, Sizes DEF ResultInv
  <2>4. can_convert(d) /\ ~ can_convert(j + 1)
    BY <1>1 DEF Mistyped, Target
  <2> QED BY <2>1, <2>2, <2>3, <2>4, Zenon DEF Spoilt
<1>6. Ends'
  BY <1>1, <1>5, SpoiltFrame DEF Ends
<1> QED BY <1>2, <1>3, <1>4, <1>6 DEF ResultInv

LEMMA NextRowStep == ResultInv /\ NextRow => ResultInv'
<1> SUFFICES ASSUME ResultInv, NextRow PROVE ResultInv'
  OBVIOUS
<1>1. /\ pc = "cell" /\ pc' = "row" /\ j = nfield /\ i' = i + 1 /\ j' = 0
      /\ UNCHANGED <<nrow, nfield, kind, name, cell, nlhs, big>>
      /\ UNCHANGED <<input, res, cursor, field, out, printed, count, outcome>>
  BY DEF NextRow, input
<1>2. nlhs = 1 /\ i < nrow /\ cursor = i + 2 /\ res = "stored" /\ outcome = "none"
  BY <1>1 DEF ResultInv, Stages, Ends
<1>3. TypeOK'
  <2>1. i' \in 0 .. nrow /\ j' \in 0 .. nfield
    BY <1>1, <1>2, Sizes DEF ResultInv
  <2> QED BY <1>1, <2>1 DEF ResultInv, TypeOK
<1>4. Stages' /\ Ends'
  BY <1>1, <1>2, Sizes DEF ResultInv, Stages, Ends
<1>5. LoadedWell'
  <2> SUFFICES ASSUME NEW r \in 1 .. nrow, NEW c \in 1 .. nfield,
                      field'[name[c]] = c, Loaded(r, c)'
               PROVE  Placed(r, c)'
    BY <1>1 DEF LoadedWell
  <2>1. Loaded(r, c)
    BY <1>1, Sizes DEF ResultInv, Loaded
  <2> QED BY <1>1, <1>2, <2>1, PlacedFrame DEF ResultInv, LoadedWell
<1>6. PrintedWell'
  BY <1>1, PrintFrame DEF ResultInv, PrintedWell
<1>f. FieldsHold'
  BY <1>1, FieldsStay DEF input
<1> QED BY <1>f, <1>3, <1>4, <1>5, <1>6 DEF ResultInv

-----------------------------------------------------------------------------
(* fancyprint *)

\* The next row to print is there, and it is the one that follows in the head
\* or in the tail.
LEMMA PositionIsNext ==
    ASSUME ResultInv, pc = "print", count < RowsToPrint
    PROVE  Position = PrintedRow(count + 1) /\ Position \in 1 .. nrow
<1>1. /\ nrow \in Nat /\ count \in Nat /\ cursor \in Nat
      /\ RowsToPrint \in Nat /\ RowsToPrint <= nrow
  BY Sizes DEF ResultInv
<1>2. cursor = IF count = 0 THEN 1 ELSE PrintedRow(count) + 1
  BY DEF ResultInv, PrintedWell
<1>3. CASE ~ clip
  BY <1>1, <1>2, <1>3 DEF Position, PrintedRow, RowsToPrint
<1>4. CASE clip /\ count < NHEAD
  BY <1>1, <1>2, <1>4, PrintAssumption DEF Position, PrintedRow, RowsToPrint
<1>5. CASE clip /\ count = NHEAD
  BY <1>1, <1>5, PrintAssumption
     DEF Position, PrintedRow, RowsToPrint, TailStart, clip
<1>6. CASE clip /\ count > NHEAD
  BY <1>1, <1>2, <1>6, PrintAssumption
     DEF Position, PrintedRow, RowsToPrint, clip
<1> QED BY <1>1, <1>3, <1>4, <1>5, <1>6, PrintAssumption

LEMMA PrintRowStep == ResultInv /\ PrintRow => ResultInv'
<1> SUFFICES ASSUME ResultInv, PrintRow PROVE ResultInv'
  OBVIOUS
<1>1. /\ pc = "print" /\ count < RowsToPrint
      /\ UNCHANGED <<nrow, nfield, kind, name, cell, nlhs, big>>
      /\ UNCHANGED <<input, res, i, j, field, out>>
  BY DEF PrintRow, input
<1>2. Position = PrintedRow(count + 1) /\ Position \in 1 .. nrow
  BY <1>1, PositionIsNext
<1>3. /\ nrow \in Nat /\ count \in Nat
      /\ RowsToPrint \in Nat /\ RowsToPrint <= nrow
  BY Sizes DEF ResultInv
<1>4. /\ printed' = [printed EXCEPT ![count + 1] = Position]
      /\ count' = count + 1 /\ cursor' = Position + 1
      /\ pc' = pc /\ outcome' = outcome
  <2>1. ~ (Position > nrow)
    BY <1>2, <1>3
  <2> QED BY <2>1 DEF PrintRow
<1>5. nlhs = 0 /\ i = 0 /\ res = "stored" /\ outcome = "none"
  BY <1>1 DEF ResultInv, Stages, Ends
<1>6. printed \in [1 .. nrow -> 0 .. nrow] /\ count + 1 \in 1 .. nrow
  BY <1>1, <1>3 DEF ResultInv, TypeOK
<1>7. TypeOK'
  <2>1. count' \in 0 .. nrow /\ cursor' \in 1 .. nrow + 1
    BY <1>1, <1>2, <1>3, <1>4
  <2>2. printed' \in [1 .. nrow -> 0 .. nrow]
    BY <1>2, <1>3, <1>4, <1>6
  <2> QED BY <1>1, <1>4, <2>1, <2>2 DEF ResultInv, TypeOK
<1>8. Stages' /\ LoadedWell' /\ Ends'
  BY <1>1, <1>4, <1>5 DEF Stages, LoadedWell, Ends
<1>9. RowsToPrint' = RowsToPrint /\ \A k : PrintedRow(k)' = PrintedRow(k)
  BY <1>1 DEF RowsToPrint, PrintedRow, clip
<1>10. PrintedWell'
  <2>1. count' <= RowsToPrint'
    BY <1>1, <1>3, <1>4, <1>9
  <2>2. ASSUME NEW k \in 1 .. count'
        PROVE  printed'[k] = PrintedRow(k)'
    <3>1. CASE k = count + 1
      BY <1>2, <1>4, <1>6, <1>9, <3>1
    <3>2. CASE k # count + 1
      <4>1. k \in 1 .. count /\ k \in 1 .. nrow
        BY <1>3, <1>4, <1>6, <3>2
      <4>2. printed[k] = PrintedRow(k)
        BY <4>1 DEF ResultInv, PrintedWell
      <4> QED BY <1>4, <1>6, <1>9, <3>2, <4>1, <4>2
    <3> QED BY <3>1, <3>2
  <2>3. count' # 0 /\ cursor' = PrintedRow(count)' + 1
    <3>1. PrintedRow(count)' = PrintedRow(count + 1)
      BY <1>1, <1>4 DEF PrintedRow, clip
    <3> QED BY <1>2, <1>3, <1>4, <3>1
  <2> QED BY <2>1, <2>2, <2>3 DEF PrintedWell
<1>f. FieldsHold'
  BY <1>1, <1>5, FieldsStay DEF input
<1> QED BY <1>f, <1>7, <1>8, <1>10 DEF ResultInv

LEMMA PrintEndStep == ResultInv /\ PrintEnd => ResultInv'
<1> SUFFICES ASSUME ResultInv, PrintEnd PROVE ResultInv'
  OBVIOUS
<1>1. /\ pc = "print" /\ pc' = "release" /\ count = RowsToPrint
      /\ UNCHANGED <<nrow, nfield, kind, name, cell, nlhs, big>>
      /\ UNCHANGED <<res, cursor, i, j, field, out, printed, count, outcome>>
  BY DEF PrintEnd, input
<1>2. nlhs = 0 /\ res = "stored" /\ outcome = "none"
  BY <1>1 DEF ResultInv, Stages, Ends
<1>3. TypeOK'
  BY <1>1 DEF ResultInv, TypeOK
<1>4. RowsToPrint' = RowsToPrint
  BY <1>1, PrintFrame
<1>5. Stages' /\ LoadedWell' /\ Ends'
  BY <1>1, <1>2, <1>4 DEF Stages, LoadedWell, Ends
<1>6. PrintedWell'
  BY <1>1, PrintFrame DEF ResultInv, PrintedWell
<1>f. FieldsHold'
  BY <1>1, <1>2, FieldsStay DEF input
<1> QED BY <1>f, <1>3, <1>5, <1>6 DEF ResultInv

-----------------------------------------------------------------------------
(* the theorems *)

\* The invariant holds at the start and every step keeps it.
THEOREM ResultInductive == Spec => []ResultInv
<1>1. ResultInv /\ UNCHANGED vars => ResultInv'
  <2> SUFFICES ASSUME ResultInv, UNCHANGED vars PROVE ResultInv'
    OBVIOUS
  <2>1. TypeOK'
    BY DEF vars, input, ResultInv, TypeOK
  <2>2. Stages' /\ PrintedWell'
    BY PrintFrame DEF vars, input, ResultInv, Stages, PrintedWell
  <2>3. FieldsHold'
    BY DEF vars, input, ResultInv, FieldsHold, Held, Created
  <2>4. LoadedWell'
    BY PlacedFrame DEF vars, input, ResultInv, LoadedWell, Loaded
  <2>5. Ends'
    <3>1. Complete => Complete'
      BY PlacedFrame DEF vars, input, Complete, Held
    <3> QED BY <3>1, PrintFrame, SpoiltFrame DEF vars, input, ResultInv, Ends
  <2> QED BY <2>1, <2>2, <2>3, <2>4, <2>5 DEF ResultInv
<1>2. ResultInv /\ [Next]_vars => ResultInv'
  BY <1>1, NoResultStep, StoreStep, NoMemoryStep, ReleaseStep, CreateStep,
     FetchRowStep, LoadCellStep, LoadCrashesStep, NextRowStep, PrintRowStep, PrintEndStep
     DEF Next, Step, Finished
<1> QED BY StartsRight, <1>2, PTL DEF Spec

\* Whatever the size of the result and whatever the names of its columns, a
\* structure that is returned has a field for every column, with the values of
\* the last column of that name, each in its row (mym.cpp:989-1024).
THEOREM StructIsComplete == Spec => []StructComplete
<1>1. ResultInv => StructComplete
  BY DEF ResultInv, Ends, StructComplete
<1> QED BY <1>1, ResultInductive, PTL

\* No loop over the rows fetches more of them than there are
\* (mym.cpp:189-235, 993-998).
THEOREM RowsAlwaysSuffice == Spec => []RowsSuffice
<1>1. ResultInv => RowsSuffice
  BY DEF ResultInv, Ends, RowsSuffice
<1> QED BY <1>1, ResultInductive, PTL

\* A call that ends with the result set still stored had no memory, or was
\* loading a result with a NULL, a blob or two columns that it cannot load
\* (mym.cpp:893-1027).
THEOREM AlwaysReleased == Spec => []ReleasedUnlessSpoilt
<1>1. ResultInv => ReleasedUnlessSpoilt
  BY DEF ResultInv, Ends, ReleasedUnlessSpoilt
<1> QED BY <1>1, ResultInductive, PTL

\* fancyprint prints every row once and in order, or the head and the tail of
\* many rows and none twice (mym.cpp:189-235).
THEOREM HeadAndTail == Spec => []PrintsHeadAndTail
<1>1. ResultInv => PrintsHeadAndTail
  <2> SUFFICES ASSUME ResultInv, outcome = "ok", res # "none", nlhs = 0
               PROVE  /\ {printed[k] : k \in 1 .. count} =
                           {r \in 1 .. nrow : ~ clip \/ r <= NHEAD \/ r > nrow - NTAIL}
                      /\ \A k, l \in 1 .. count : k < l => printed[k] < printed[l]
    BY DEF PrintsHeadAndTail
  <2>1. /\ count = RowsToPrint /\ nrow \in Nat /\ count \in Nat
        /\ \A k \in 1 .. count : printed[k] = PrintedRow(k)
    BY Sizes DEF ResultInv, Ends, PrintedWell
  <2>2. ASSUME NEW k \in 1 .. count, NEW l \in 1 .. count, k < l
        PROVE  printed[k] < printed[l]
    <3>1. PrintedRow(k) < PrintedRow(l)
      BY <2>1, <2>2, PrintAssumption DEF PrintedRow, RowsToPrint, clip
    <3> QED BY <2>1, <3>1
  <2>3. ASSUME NEW k \in 1 .. count
        PROVE  printed[k] \in {r \in 1 .. nrow : ~ clip \/ r <= NHEAD \/ r > nrow - NTAIL}
    <3>1. CASE ~ clip
      BY <2>1, <3>1 DEF PrintedRow, RowsToPrint
    <3>2. CASE clip
      BY <2>1, <3>2, PrintAssumption DEF PrintedRow, RowsToPrint, clip
    <3> QED BY <3>1, <3>2
  <2>4. ASSUME NEW r \in 1 .. nrow, ~ clip \/ r <= NHEAD \/ r > nrow - NTAIL
        PROVE  \E k \in 1 .. count : printed[k] = r
    <3>1. CASE ~ clip \/ r <= NHEAD
      <4>1. r \in 1 .. count /\ PrintedRow(r) = r
        BY <2>1, <3>1, PrintAssumption DEF PrintedRow, RowsToPrint
      <4> QED BY <2>1, <4>1
    <3>2. CASE clip /\ r > nrow - NTAIL
      <4> DEFINE k == r - (nrow - NTAIL) + NHEAD
      <4>1. k \in 1 .. count /\ PrintedRow(k) = r
        BY <2>1, <3>2, PrintAssumption DEF PrintedRow, RowsToPrint, clip
      <4> QED BY <2>1, <4>1
    <3> QED BY <2>4, <3>1, <3>2
  <2> QED BY <2>2, <2>3, <2>4
<1> QED BY <1>1, ResultInductive, PTL
=============================================================================
