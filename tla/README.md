# A verification development for mym

mym is one MEX function, `src/mym.cpp`, that MATLAB loads into its process and
calls as `mym([id], command, ...)`. It keeps up to 20 connections to MySQL
servers between the calls, puts MATLAB values into SQL text, and turns results
into MATLAB values. This directory holds TLA+ models of it, the configurations
with which TLC checks them, and proofs that TLAPS checks. Paths below are
relative to the root of the repository, so that `src/mym.m` is the help text and
`mym.m` the bootstrap; line numbers without a file are those of `src/mym.cpp`.

## 1. Inventory

### Components

| Component | State it keeps | Operations | Models |
|---|---|---|---|
| connection table (`mym.h:150-160`, 380-707) | `c[20]`: a pointer to a `MYSQL` structure and `isopen`, static, from call to call | open, open with an automatic id, close, closeall, use, status (report, value), a command | `MysqlClient`, `ConnTable`, `ConnPool` |
| query text (709-769, 805-891, 1029-1168, 1205-1256, 1961-2006) | per call: the query, placeholders, flags | count flags, find placeholders, expand, trim, unescape CREATE and ALTER, send; serialize | `QueryText` |
| query buffer and compression (770-832) | per call: one buffer and three running positions | serialize, compress, allocate, copy | `QueryBuild` |
| results (122-242, 246-312, 892-1028) | per call: the result set, its cursor, the structure that is built | store, create, fetch, convert, print, release | `QueryResult` |
| text codec (1626-1706, 2084-2158) | per call: two buffers | char2hex, hex2char, numbers as text | `TextCodec`, `NumberText` |
| blob codec (1260-1622, 1708-2083) | none; the environment variable `MYM_USE_32BIT_DIMS` | serialize and deserialize for each type, files, dump | `Blob` |
| dispatch (394-466, 1182-1202, `mym.h:129-139`) | none | recognise the command, check arguments, split host and port, TLS options of open, version | `Dispatch`, `MexFunction` |
| plugin directory (328-360) | `LIBMYSQL_PLUGIN_DIR` of the process | set it before each connection is made | `MexFunction` |
| bootstrap (`mym.m`) | MATLAB's path, `startup.m`, the current directory | first call: install, forward, delete itself | `Setup` |
| installer, build scripts, tests, vendored libraries | | | not modelled |

### How they interact

MATLAB runs one call at a time in one thread, so nothing inside mym runs
concurrently. What runs beside it are the servers: between any two steps a
server may end a session, and every call of the client library may find that
out. State that outlives a call is the table `c`, the structures of the client
library that it points to, the sessions at the servers and the blobs in the
tables. A call ends by returning or through `mexErrMsgTxt`, which leaves the
MEX function at once: MATLAB then releases what was allocated with `mxCalloc`,
and nothing else. Before all of that the arguments decide which command it is and which slot it is
about. Within a command the parts follow each other: table (ping),
query text, query buffer, blob and text codec for each value, table again
(query), result, codecs for each value.

### What is hard

* *Stale knowledge.* `isopen` is what mym believes; the server decides.
* *Long sequences.* Open, break-down, open again, close, in any order on
  several slots, must neither lose a session or a structure nor use one twice.
* *Partial failure.* open, status and commands fail between two steps of
  theirs; a conversion fails in the middle of a result.
* *Ordering.* Only one result of a command is read; braces are unescaped after
  values were put in; memory is released by a function that cannot tell its
  caller.
* *Limits.* One allocation for all escaped pieces; a compression rate near 1.1;
  50 rows and 51; buffers counted in characters and filled in bytes; sizes that
  are added up in one pass and written in another.
* *Process events.* The MEX file can be unloaded, and the process can end,
  while sessions are open.
* *Shared files.* `startup.m` is read, emptied and written again by the
  bootstrap, in every MATLAB session that makes its first call; a file of `{F}`
  is measured before it is read.
* *Counting arguments.* An id in front shifts all others; each command counts
  them on its own, and two of them count wrongly.

`PROJECT.json` lists these as hazards, each at its line.

### What makes each part correct

* Connection table: a structure is used only while it is allocated and by one
  slot only; a working session is never given up or silently replaced; calls on
  one slot leave the others alone; every session the servers keep can still be
  closed; what status says is so; every call returns.
* Query text: what is sent is the text with the escaped values in place of the
  placeholders; every argument has been used; CREATE and ALTER lose exactly the
  backslashes before braces.
* Query buffer: no write lies outside the buffer; compressing never costs.
* Results: a structure is complete, with every value in its place; what is
  printed is the whole table or its head and tail; result sets are released.
* Codecs: what goes in comes out; buffers have the size of what is written; a
  number's text stands for the number.
* Dispatch: a call touches the slots that it names and no other; an id in front
  changes nothing else; what is no command of mym reaches the server; the server
  that is dialled is the one that was written.
* Bootstrap: it goes away only when `startup.m` does its work; the line is there
  once, and the user's lines stay.

## 2. Modules

```
MysqlClient <- ConnTable <- MCConnTable       ConnPool (abstract)
                    ^---------- ConnTable implements ConnPool
Dispatch, ConnTable <- MexFunction <- MCMexFunction
QueryText   <- MCQueryText
QueryBuild  <- QueryBuildProofs
QueryResult <- QueryResultProofs
NumberText  <- TextCodec <- MCTextCodec
Blob        <- MCBlob
MexFunction, NatRecursion <- MexFunctionProofs
QueryText, NatRecursion <- QueryTextProofs
TextCodec, NatRecursion <- TextCodecProofs
Blob, NatRecursion      <- BlobProofs
Setup       <- SetupProofs
```

**`MysqlClient`** is external: the client library and the servers, modelled
from how mym uses them. A structure is allocated (`mem`), may be owed to
`mysql_close` (`freeMe`), and may belong to a session (`sess`), which is alive
at its server or not (`alive`); `more` are structures with results that nobody
read, on which any further command fails. The library's automatic reconnect is
off, which is its default and is never changed by mym. A failed command leaves
the session as it is or finds it dead; `mysql_stat` is such a command.

**`ConnTable`** has the table (`conn`, `isopen`) and the call in progress
(`op`, `cid`, `pc`, `todo`, `answer`). Each action runs from one answer of the
client library to the next, so that a server can act between any two of them:
`Open` with the close and the `mysql_init` it does first (481-541), `Connect`
(543), `Stat` (546), `Close`, `CloseAll`, `Use`, `SelectDb`, `StatusId`,
`StatusVal`, `StatusAll` with `ReportOne` for each slot (659-674), `Cmd`,
`Query`, `Store`. `Reject` is a call whose arguments are refused. `ClearMex`
unloads the MEX file (there is no exit function), `ProcessEnds` ends MATLAB,
`Drop` is a server ending a session. `ReportOneCrashes` is the undefined
behaviour of line 666, where `mexPrintf` is given one argument for two
conversions.

**`ConnPool`** is what the table promises, without structures and pings: a slot
in use belongs to one session from the moment it comes into use; it goes out of
use because the program says so or because the session has ended; and a session
the servers keep is that of a slot in use or the one a new slot is about to
get. `ConnTable` is shown to implement it: the slots in use are `isopen`, their
sessions are those of their structures, and the pending session is that of an
open between `mysql_real_connect` and `mysql_stat`.

**`Dispatch`** has no state: the arguments of a call, as numbers and texts of
which what the code looks at is kept, and what 394-476 and the commands make of
them: `Recognise`, `Accepted`, `Cid`, `Argument`, `hostport`, `TlsMode`,
`Database`.

**`MexFunction`** composes it with `ConnTable`. `CallMex` is MATLAB's call,
`DispatchCall` everything up to the first answer of the client library, `GoOn`
a step of `ConnTable` as far as it fits the arguments and outputs of the call.
`updateplugindir` gives the environment an array of its own stack frame; what
`LIBMYSQL_PLUGIN_DIR` reads as afterwards is a choice, unless putenv copies
(`PutenvCopies`). `Around` is what happens between two steps: a server ends a
session, the MEX file is unloaded, MATLAB ends. The refusals of `Dispatch` are
`Reject` of `ConnTable`, so that the composition is again a behaviour of it.

**`QueryText`** has texts as sequences of the characters that the code tells
apart. The loops of the code are actions, one per round: `Scan` is a round of
the search for the placeholders, `ReadTypes` of the reading of a placeholder's in-string argument,
`Build` of the loop that puts the query together; `NoArguments`, `CountFlags`
and `CountAll` are the ways to the number of flags, and `Built`, `Trim`, `Braces`
and `SendQuery` what follows. `Trim` leaves `query` pointing to freed memory,
which may or may not still hold the text, as `removeWhiteSpaceAtTheBeginning`
does. `Expected` states independently, by a reader that goes through the text
once from left to right (`Reading`), what has to be sent. The search that
mym('serialize ...') makes on its own, with the values in a cell array, is
another way through the same actions.

**`QueryBuild`** has only lengths. `Serialize` is a round of the loop 777-804,
`CopyOne` one of 809-816; `high` is the end of the furthest byte written.

**`QueryResult`** has a result set of NULL, good and broken values in columns of
five kinds, which may have equal names: `field` is the column whose array the
field of a name holds, and a column whose array was replaced goes on to write to
the one that took its place (`Target`), of another kind perhaps (`Mistyped`),
which may end the process (`LoadCrashes`). `Create`, `FetchRow`, `LoadCell`, `NextRow` are the loops that fill
the structure, `PrintRow` those of `fancyprint`, `Release` is
`mysql_free_result`. `NoMemory` is MATLAB's allocation leaving the function.

**`TextCodec`** runs `char2hex` and `hex2char` round by round, between
MATLAB's conversions to and from UTF-8 (external). `char2hex` refuses half of a
surrogate pair (2139-2142, `Surrogate`), which MATLAB's strings may hold.
**`NumberText`** is the other branch of `serializeString`: numbers in quarters,
an int of few bits, the floor of `{Si}`, the decimals of `{Sn}` with the ties of printf, and a cast that may
give anything outside of int.

**`Blob`** has serialization and deserialization as operators over MATLAB
values and sequences of bytes, and three steps: a value is put into a table and
got back. A file goes in by two steps, `Measure` and `ReadFile`, with
`Overwrite` by another program between them. Values are nested to any `Depth`
(`Values`), and what calls itself in the code, the choice of a function by the
type of an element, is a function of the depth that uses its own value at one
less: `Serialized` and `Deserialized`. What the code does with pointers into the
bytes, one element behind the other, are functions of the number of the element
(`NameEnds`, `ElementStarts`). The program writes dimensions, lengths and
indices with 64 bits, and `use32` (`MYM_USE_32BIT_DIMS`) says that it reads them
with 32; `OldBlobs` says that the blobs are of a version that wrote 32, so that
the two may agree or not. A blob is compressed or not (`Zipped`, `Unzipped`; what
zlib accepts is `Compressed`). Bytes that begin like compressed ones have a
length read out of them before zlib sees them (2027-2028), of which there may be
no memory: `NoMemory`. `FreeBehind` is what becomes of an array of two and more
structures without fields: the memory of its elements is freed by their number
and not by that of their fields (1362-1363), so that what is not the program's
is freed; after that nothing more is said (`spoilt`), unless what is found there
happens to be NULL, when the call goes on as usual.

**`Setup`** is the bootstrap, one action from one access to `startup.m` to the
next, in several MATLAB sessions (`MATLAB`) that share the two files. `Kill` is
the end of a session at any step, `Install` a new installation over the old one,
`Edit` the user writing into `startup.m`. `torn` marks the executions in which a
rewriting of the file overlapped with another or was cut off: nothing in the
code prevents either, and lines are then lost. A file that cannot be opened ends
the call with an error (`OpenFails`, `OpenToWrite`, `OpenToAppend`); an `fprintf`
that writes less than it should does so silently (`CutOff`).

## 3. Runs

| Run | Instance | What it shows |
|---|---|---|
| `conn_safety` | 2 slots, 3 structures, 3 sessions, results left unread, unloading of the MEX file | the inductive invariant `ConnInv` with the types in it, and: no structure is used after it was freed or by two slots (`NoUseAfterFree`); the code that status returns is so when it is returned, of the table and of the session at its server (`StatusCodeTruthful`); mym only marks a slot whose session it could not talk to (`HealthyStaysOpen`); a call on a slot leaves the others as they are (`SlotIndependence`); a session is never exchanged for another behind an open slot (`NoSilentReconnect`); the automatic scan takes a free slot (`AutoOpenDisturbsNothing`) |
| `conn_accounting` | 3 slots, 3 structures, 2 sessions, every result read, no unloading, fair | `NoOrphanSession`: every session at a server belongs to an open slot or to the open in progress; `LeaksOnlyReused`: structures are lost only when a slot that failed is opened again; `ImplementsPool`; `CallReturns`; `ReportFindsBroken` |
| `query_text` | 4 beginnings, up to 3 pieces out of 9, up to 3 arguments of 4 kinds | `NoArgumentLost`, `SentIsExpansion`, `CreateUnescapes`, `SerializesAll`, and that placeholders are disjoint and in order (`TypeOK`) |
| `query_build` | 2 placeholders, queries of 5 bytes, values of 3 | `FitsBuffer` with its inductive invariant `BuildInv`; `CompressionPays` |
| `query_result` | up to 5 values in up to 3 columns of any names; clipping above 4 rows with a head of 1 and a tail of 2; fair | `StructComplete`, `PrintsHeadAndTail`, `RowsSuffice`; that every call, also one that ends with an error, releases the result set unless memory ran out or a value was spoilt (`ReleasedUnlessSpoilt`); the inductive invariant `ResultInv`, and `Returns` |
| `text_codec` | strings of up to 3 of 16 characters at the boundaries of the encodings; every number of 7 classes with an int of 4 bits, 10 placeholders | `LatinSurvives`, `BuffersSuffice`, `NumbersSurvive` |
| `blob` | 7 kinds of leaves, cells and structures of 4 shapes in two levels, vectors of up to 4 bytes and longer ones that begin like compressed bytes, each blob compressed or not, files of up to 10 with an int that is less than 4 (`IntLimit`) | `RoundTrip`, `ExactlyAllocated`, `BytesSurvive` |
| `mex_function` | 2 slots, 2 structures, 2 sessions, about 130 calls with and without an id, with right and wrong arguments, with and without an output | `ImplementsTable`, `TouchesOnlyNamed`, `IdIsTransparent`, `StatementsReachServer`, `DialsAsAsked` |
| `setup` | 2 MATLAB sessions, 2 lines of the user | `GoneOnlyWhenPersisted`, `LineOnce`, `UserLinesKept` |
| `doc_closeall` | 2 slots | violated: a command of several statements leaves results, the next ping fails, the slot is marked closed, and closeall leaves its session alive |
| `doc_blanks` | 2 pieces | violated: a blank at the beginning is sent; the caller goes on with a freed pointer |
| `doc_plugin` | as `mex_function` | violated: when the connection is made, the environment refers to a stack frame that is gone |

Every property of a passing run has a faulty variant of the code, in the
modules beside the definition it changes, with which TLC finds it violated.

**Bounds.** The table has 20 slots; no action tells slots apart except by the
order of the automatic scan and of the report, so two suffice for interference
between slots and three for a slot between two others. As many structures as
slots, and one more where leaks matter, let every slot be held while others are
lost; when they run out, `mysql_init` fails, which the code checks. The pieces
of `query_text` are all kinds of placeholders and braces, so three of them
contain every neighbourhood of two placeholders; three arguments allow one
value, one flag and one too many. `query_build` and `query_result` depend on
sizes only through comparisons that already occur at 5, and their main
properties are proved for all sizes. In `blob` two levels contain every type
inside every container, and a container inside one; a third level would only
repeat the second. Dimensions have 64 bits there; the same values in old blobs,
with 32 bits, are checked with `BlobOld.cfg`, which passes and is not one of the
regular runs, and the theorems are about both widths. Vectors that begin like
compressed bytes name every length from 0 to more than they hold. `text_codec` has the first and the last character of every
length of UTF-8 and of one byte; a third character shows what follows a pair.
Numbers are taken in quarters, so that halves and ties are among them, and go
beyond the range of the int on both sides. Three columns let two of one name
have another before, between or behind them. The lengths of files go once around
the int: those it can say, those it says are negative, and those that begin
again at 0. In `mex_function` every command
occurs without arguments, with right ones and with one of a wrong type, with the
ids -1, 0, 1 and one behind the table. Two MATLAB sessions contain every overlap
of two rewritings; a third would have to overlap with one of them.
Constants of the code that are scaled down are `MAXCONN` (20), `NROWMAX`,
`NHEAD` and `NTAIL` (50, 10, 10), the bits of an int (32; in `Blob` `IntLimit`, 2^31), `MIN_LEN_ZLIB` (1000), the first compression
buffer (10000) and the header of a compressed value (14 bytes).

**Symmetry** of structures and sessions is used in `conn_safety` and
`mex_function`, which have no liveness property.

**Fairness.** `ConnTable!FairSpec` has weak fairness of the steps of a call
that has begun (`CallStep`), `QueryResult!FairSpec` of its steps: MATLAB waits
for a MEX function and cannot interrupt it, every call of the client library
returns (with an error in the end, by its time-outs), and the loops of the code
have no other way to go. Nothing is assumed of the servers, nor that a call is
ever made.

### Stated by comments and documentation, and not so

The findings in `PROJECT.json` belong to the `doc_` runs. The following are
stated in the modules with a configuration each, and TLC refutes them in the
same way; they are not part of the regular runs.

* `ConnTable!ReportSurvives` (`DocReport.cfg`): the report over broken
  connections gives `mexPrintf` one argument for two conversions (666), and may
  end the process.
* `QueryResult!DeallocatedBeforeReturning` (`DocDeallocate.cfg`): NULL in a
  BIGINT column ends the call with the result set allocated (893, 1002).
* `QueryResult!NoColumnLost` (`DocColumns.cfg`): of two columns of one name only
  the last is in the structure (989).
* `Blob!SparseSurvives` (`DocSparse.cfg`): a sparse matrix that is the argument
  of `{M}` itself is written as if it were a full one (1974).
* `Blob!StructSurvives` (`DocStruct.cfg`): an array of two or more structures
  without fields makes `serializeStruct` free what lies behind an array of no
  elements (1281, 1362-1363), although `src/mym.m:107-109` takes structures.
* `Blob!RoundTrip` with `use32` and blobs of today (`DocWidth.cfg`): with
  `MYM_USE_32BIT_DIMS` set, what this version wrote is not read back (62-66,
  366-368); the comment at 362 only speaks of reading.
* `TextCodec!SignificantDigits` (`DocNumber.cfg`): `src/mym.m:98-104` has doubles
  as `[sign]d.ddddddEddd`, with n decimals for `{Sn}`, which keeps the leading
  digits of a small number; the code prints `%.6f` and `%.nf` (1691, 1699), and
  such a number becomes 0.
* `Blob!WholeFile` (`DocFile.cfg`): a file whose length an int cannot hold is
  not stored whole (1925-1933).
* `MexFunction!AnyCommandTakesId` (`DocId.cfg`): deserialize with an id reads the
  command as the value (1171); use with an id and without a database reads
  behind the arguments (593).
* `QueryText!TerminatorFits` (`DocTerminator.cfg`): the buffer of a CREATE has
  no room for the terminator unless a brace was escaped (842, 869).
* `QueryText!CreateKeepsValues` (`DocValues.cfg`): in a CREATE the backslashes
  before braces are also taken out of values (856).
* `TextCodec!StringSurvives` (`DocString.cfg`): characters above 255 lose their
  upper bits (2133, 2143, 2148).
* `TextCodec!OnlyTheStringSent` (`DocStringSent.cfg`): behind a char(0), and for
  characters of two units, bytes that were never written are sent (1641-1642).
* `Blob!UnknownIsDumped` (`DocDump.cfg`): the dump of bytes that begin with the
  word mYm starts four bytes late and ends four bytes late (2049, 2078).

These are stated without a configuration of their own, and TLC refutes them when
they are added to the invariants of their module's run:

* `QueryText!NumbersAgree`: serialize takes a text with more placeholders than
  arguments (1045, 1065).
* `TextCodec!UnsignedSurvives`, `OnlyScalars`, `IntegerPlaceholder`: a uint32
  from 2^31 on is cast to int (1681); only the first two dimensions are asked for
  a scalar (1628, 1648); behind the flag u the i of `{uSi}` is not seen (1676).
* `Setup!StateRestored`, `PathPersists` (with `Commented = TRUE`),
  `EverySessionFindsMym`: an error of the forwarded call leaves the session in
  the directory of the MEX file; a comment in `startup.m` that has the line
  passes for it; a session that was running before another one's first call finds
  neither the bootstrap nor the MEX file (`mym.m:27, 36, 45`).

Read in the code and not modelled as properties: status with an id may return 3
(693), which `src/mym.m:77-79` does not list; open returns the id (559), not 0
as `src/mym.m:53` says; a command with braces and without arguments is sent as
it is (726), although `src/mym.m:122-124` says it is mistaken for a command of
mYm; values are compressed from a gain of 9.1 % on (791), not 10 %; `{S0}` prints six
decimals like `{S}` (1692); a number is printed into 512 bytes whatever n of
`{Sn}` is (1646); trailing values that read like a flag are counted as flags even
when placeholders are there for them (879).

## 4. Proofs

Proved by TLAPS for every value of the constants; the assumptions are those
named in the modules.

* **`MexFunctionProofs`** (2634 obligations) has two parts. The first is about
  the connection table, under `TableAssumption` (the table has a slot) and
  `NullAssumption` (NULL is neither a structure nor a session): `Inductive`,
  `Spec => []ConnInv`; `TypeCorrect`; `NeverUseAfterFree`. `NoUseAfterFree`
  (`HandlesAllocated` and `HandlesDistinct`) is not inductive: that a close
  frees only its own slot's structure, and that the rest of an open works on an
  allocated one, depends on where the call is. `ConnInv` therefore adds
  `CallState`, what each stage of a call may rely on, `FreedIsClean`, that what
  `mysql_init` hands out carries nothing of an earlier life, and
  `SessionsDistinct`. The proof has three parts, one for `TypeOK`, one for the
  table and one for `CallState`, each with a case for every action.
  The action properties `HealthyStaysOpen`, `SlotIndependence`,
  `NoSilentReconnect`, `AutoOpenDisturbsNothing`, and `StatusCodeTruthful` need
  one more fact than `ConnInv`: `CallOp`, that a stage of a call belongs to the
  command of that call, without which an answer could be counted for another
  command. `StepKinds` then sorts the steps into those that open a slot, ping
  one, close some, ask the server, wait, or end the process, each with what it
  may do to the table; the theorems go through these kinds and not through the
  actions, and each is about one pair of states.
  `NeverOrphansSession` and `TableImplementsPool` assume that the MEX file is
  not unloaded (`MexUnload = FALSE`) and that a command is one statement
  (`MultiStatement = FALSE`); `LeaksAreReused` assumes the first. Without them
  they are false: an unloaded file forgets the table, and a result that is left
  unread makes the next ping fail on a session that lives on. That no result is
  left unread (`more = {}`) is part of the invariant. `TableImplementsPool` is a
  step simulation: an open of a slot in use is `Shut` of that slot, `Connect` is
  `Grant`, `Stat` is `ComeUp` or `GiveUp`, a ping that fails is `Lose`, a close
  is `Shut`, a server's end of a session is `Drop`, the end of the process is
  `Restart`, and every other step changes nothing of the pool.
  The second part is about mexFunction, under `CallsAssumption` (a call has a
  list of arguments and a number of outputs), for any set of calls:
  `MexImplementsTable`, that every step behind the arguments is a step of
  `ConnTable`. A call that is accepted names a slot of the table (`CidIsSlot`),
  unless it is an automatic open. With it what is proved of the table holds for
  `mexFunction`; `MexNeverUsesAfterFree` is the example. `OnlyNamedAreTouched`
  needs the invariant `CallNamed`, what a call is about while it waits: the one
  slot its id names (`AboutOne`), the first free one, which nothing else takes
  meanwhile (`AboutFree`), or all in the report (`AboutAll`); and that what the
  checks let through is well-formed as the documentation has it
  (`AcceptedIsWellFormed`). `StatementsAlwaysReachServer` is the converse for
  statements: what is well-formed is let through and recognised.
  `IdNeverMatters` is about the arguments alone: with an id in front each is one
  place further back. `AlwaysDialsAsAsked` is about `hostport` and `atoi`, under
  `HostsAssumption` (a host has no colon, a port is a number below 65536): the
  digits of a number say that number (`DecimalSays`, by induction on it),
  `hostport` takes host and port apart where they were put together
  (`HostportReadsWritten`), and while a connection is being made `dialled` is
  what the arguments of this call say (`Dialling`).
* **`NatRecursion`** (242): what the proofs about texts and bytes share.
  `RecursionExists` says that a recursion over `0 .. n` has a function that
  satisfies it, so that a recursive definition has the value its equation gives.
  Induction is made with the least number of a non-empty set of numbers, since
  the library's induction theorems have an operator for a parameter.
  `FlattenSeqPrefixes` gives what the community module's `FlattenSeq` computes
  as the last of a sequence of prefixes, each of which is the one before it and
  one sequence more.
* **`QueryTextProofs`** (1832), under `QueryAssumption` (the texts are sequences
  of characters, the arguments lists of values): `QueryInductive`,
  `QueryTypeCorrect`, `NoArgumentIsEverLost`, `SentIsAlwaysExpansion`,
  `CreateAlwaysUnescapes`, `SerializesAllOrFails`, for queries of any length and
  any number of placeholders. The code goes through the text twice, to find the
  placeholders and to copy what is between them; the reader of `Expected` goes
  once. The invariants of the two loops (`Scanning`, `Building`) say that what
  has been found, or put together, is what the reader has at the same position,
  and the reader is followed there by induction on the position, over ordinary
  text (`OrdinaryText`), inside of a placeholder (`InsidePlaceholder`) and
  across one (`OnePlaceholder`). `UnescapeIsUnescaped` is about braces:
  overwriting in place is the same as leaving the backslashes out.
* **`TextCodecProofs`** (1790), under `TextAssumption` (strings of code points,
  numbers whose quarters are whole): `TextInductive`, `BuffersAlwaysSuffice`,
  `LatinAlwaysSurvives`, `NumbersAlwaysSurvive`. That `char2hex` stays in its
  buffer is not seen from a round alone, since a round takes one to four bytes
  and gives one: the invariant says that it has always read whole characters
  (`Encoded`), of which there are at most as many as MATLAB counts. For that the
  branches of `char2hex` must recognise each of the four encodings of UTF-8 and
  compute its character (`OneCharacter`). What `hex2char` has written of a
  string of one-byte characters is the encoding of as many characters
  (`Decoded`), and MATLAB's reading gives them back (`CreateReadsEncoding`, by
  induction). For numbers, `IntegerStands` is the floor and `DecimalsStand` the
  rounding, ties included.
* **`SetupProofs`** (801), for a `startup.m` that does not hold the line in a
  comment (`Commented = FALSE`): `PersistedBeforeGone`, `LineNeverTwice` and
  `UserLinesStay`. The properties are about executions in which rewritings do
  not overlap and none is cut off, so that the invariant says that one session at most is about to
  change the file (`AloneInWindow`), and what that session knows (`KnowsFile`):
  what it has read does not contain the line, the file is empty when it writes,
  and the bootstrap is still there, since a session that is in its call could
  delete it while the file is empty. `UserSafe` says where the lines of the user
  are meanwhile: in what that session has read.
* **`QueryBuildProofs`** (431), under `BuildAssumption`: `BuildInductive`,
  `NeverOverrun`, `CompressingPays` (by induction on its own, with the types).
  The copying loop is bounded by `pnq <= 2 * acc[i] + poq`: what has been
  written is at most twice the values that were copied plus the old text that
  was passed, placeholders included. With placeholders in order (`Placed`) and
  `acc` growing (`Summed`) that stays below the capacity.
* **`QueryResultProofs`** (792), under `PrintAssumption` (`NHEAD + NTAIL <
  NROWMAX`, which the comment at 136 demands) and `SizeAssumption`:
  `ResultInductive`, `StructIsComplete`, `HeadAndTail`, `RowsAlwaysSuffice`,
  `AlwaysReleased`. The invariant ties the cursor of the result set to
  the row index (`cursor = i + 2` inside a row), says which field holds the
  array of which column while fields are created (`FieldsHold`: the last one of
  its name so far), which values are in place, and which row was printed at each
  place. A value is only promised to be in place for the column that its field
  holds; what a column whose array was replaced writes is overwritten in the
  same row by the column that replaced it.

* **`BlobProofs`** (4677), under `BlobAssumption` (the values are MATLAB's, to
  any depth; vectors and files are sequences of bytes): `Invariance`,
  `RoundTrips`, `AllocatesExactly`, `BytesComeBack`, for arrays of any size and
  number of dimensions, structures of any fields, and values nested to any
  depth. The steps are few, and the invariant says that what is stored is what
  `serialize` makes of the value (or the vector, or what was read of the file)
  and that what is got is what `deserialize` makes of it. The work is in the
  operators. What is written of a value is found in the bytes at some place
  (`Holds`); what is read from there on is proved for each kind of content: a
  list of numbers (`UintsBack`), the names of a structure, of which none has a 0
  in it (`NameFound`, `NamesBack`), and the elements, which start where the
  lengths of those before them add up to (`ElementSums`, `ElementsBack`).
  `ArrayBack`, `SparseBack`, `CellBack` and `StructBack` put these together for
  one value whose elements are known to come back, and `ValueBack` is the
  induction on the depth. The number of bytes goes the same way (`ArrayWritten`
  and its like, and `SerializedCoded` by induction on the depth): the sum that
  the first pass of the code makes is the length that the second one writes. A
  sparse matrix that is the argument itself is excluded, as in the property;
  `AsArrayIsValue` shows that the memory fits even then. `RoundTrips` and
  `BytesComeBack` assume `use32 = OldBlobs`: without it they are false, as
  `DocWidth.cfg` shows. Between what is stored and what is deserialized lies the
  compression: what was compressed is uncompressed to what it was
  (`Unzipped` of `Zipped`), and what was not, and is not `Compressed`, is taken
  as it is. That memory is spoilt by structures without fields alone is another
  induction on the depth (`FreesBehind` within `Fieldless`). TLC checked the
  invariant on the instance of `blob`.

Every invariant and every action property of the runs is stated by one of these
theorems. Checked by TLC only: liveness (`CallReturns`, `ReportFindsBroken`,
`Returns`), which is out of the prover's reach, like ENABLED.

## 5. What is taken for granted

* `mysql_ping` and the other commands behave as in `MysqlClient`. In
  particular `mysql_stat` fails right after a connection was made only if the
  session has ended; if it could fail on a session that lives on, open would
  leave that session behind (546-552).
* Uncompressing undoes compressing, and fails on what was not compressed and on
  what is longer, when it is uncompressed, than the length in front of it says.
* The server gives back the bytes of a value, and the client library ends each
  with a 0.
* MATLAB's strings are UTF-8 in C, as `tests/Prep.m:19` sets it up.
* `mexErrMsgTxt` does not return, and MATLAB releases `mxCalloc`'s memory.
* `startup.m` is written a line at a time by its user, with the whole file read
  and written by whoever changes it; opening it for writing empties it at once.

## 6. Not modelled

* zlib (external: uncompressing undoes compressing), MATLAB's own conversions
  (external), column widths of `fancyprint`, and the Windows variants of the
  formatting calls, which do the same with a fixed locale.
* The installer (`mktbx.m`) and the build scripts (`mex_compilation/`) are
  sequences of calls of MATLAB and of command lines, without state of the
  program's own; the tests are read as documentation.
* `mysqlclient/`, `mysql-connector/`, `maria-plugin/`, `zlib/` and
  `distribution/` are headers and binaries of third parties, and copies of built
  toolboxes. They are more than nine tenths of the lines of the repository. The
  program's own code is `src/mym.cpp`, `src/mym.h` and `mym.m`, some 2400 lines;
  the lines of it that the models stand for are nearly all that hold code. What
  is left are licence texts, includes, declarations, and debug output (`debug`
  is a constant false). What the client library does is in `MysqlClient`, from
  how `mym.cpp` uses it, never from its headers.

## 7. Plan

1. Done: every component of the program's own code, composed where they
   interact; proved are the inductive invariants of every module with state, the
   action properties of the table and of `MexFunction`, the two refinements, and
   all safety properties that the runs check.
2. Left: `QueryText` in front of `Query` of `ConnTable`, so that what reaches the
   server is a text and not only a command.
