----------------------------- MODULE SetupProofs -----------------------------
(***************************************************************************)
(* Proofs about Setup, for any number of MATLAB sessions and of lines that *)
(* the user writes, provided that startup.m does not hold the line in a    *)
(* comment.                                                                *)
(***************************************************************************)
EXTENDS Setup, FiniteSetTheorems, FunctionTheorems, SequenceTheorems, TLAPS

\* What a line of startup.m can be.
Text == {Line, InComment, "", "user"}

Points == {"off", "idle", "forward"} \cup Window

Types ==
    /\ boot \in BOOLEAN /\ exists \in BOOLEAN /\ torn \in BOOLEAN
    /\ lines \in Seq(Text)
    /\ pc \in [MATLAB -> Points]
    /\ f \in [MATLAB -> Seq(Text)]
    /\ dir \in [MATLAB -> {"orig", "mym"}]

\* A file that is not there has no lines, and no session is writing to it; no
\* line is the one in a comment.
FileState ==
    /\ ~ exists => lines = << >>
    /\ \A m \in MATLAB : pc[m] \in Window \ {"append"} => exists
    /\ InComment \notin ToSet(lines)
    /\ \A m \in MATLAB : InComment \notin ToSet(f[m])

\* The line is in it once at most.
Once == \A j, k \in DOMAIN lines : lines[j] = Line /\ lines[k] = Line => j = k

\* What a session that is about to write knows, while no two of them are.
AloneInWindow ==
    \A m, n \in MATLAB : pc[m] \in Window /\ pc[n] \in Window => m = n
KnowsFile ==
    \A m \in MATLAB :
        /\ pc[m] \in {"rewrite", "write"} =>
               /\ Line \notin ToSet(f[m])
               /\ boot /\ \A n \in MATLAB : pc[n] # "forward"
        /\ pc[m] \in {"write", "append", "appending"} => lines = << >>

\* The line is there before the call is forwarded, and stays when the
\* bootstrap has gone.
Persisted ==
    /\ \A m \in MATLAB : pc[m] = "forward" => Line \in ToSet(lines)
    /\ ~ boot => Line \in ToSet(lines)

Whole == Once /\ AloneInWindow /\ KnowsFile /\ Persisted

SInv == Types /\ FileState /\ (~ torn => Whole)

-----------------------------------------------------------------------------
(* Lines *)

\* The lines of two pieces.
LEMMA ConcatLines ==
    ASSUME NEW s \in Seq(Text), NEW t \in Seq(Text)
    PROVE  /\ s \o t \in Seq(Text)
           /\ ToSet(s \o t) = ToSet(s) \cup ToSet(t)
<1>1. /\ s \o t \in Seq(Text) /\ Len(s \o t) = Len(s) + Len(t)
      /\ \A i \in 1 .. Len(s) + Len(t) :
            (s \o t)[i] = IF i <= Len(s) THEN s[i] ELSE t[i - Len(s)]
  OBVIOUS
<1>2. /\ DOMAIN s = 1 .. Len(s) /\ DOMAIN t = 1 .. Len(t)
      /\ DOMAIN (s \o t) = 1 .. Len(s) + Len(t)
      /\ Len(s) \in Nat /\ Len(t) \in Nat
  BY <1>1
<1>3. \A i \in DOMAIN s : (s \o t)[i] = s[i] /\ i \in DOMAIN (s \o t)
  BY <1>1, <1>2
<1>4. \A i \in DOMAIN t : (s \o t)[Len(s) + i] = t[i] /\ Len(s) + i \in DOMAIN (s \o t)
  BY <1>1, <1>2
<1>5. \A i \in DOMAIN (s \o t) :
         \/ i \in DOMAIN s /\ (s \o t)[i] = s[i]
         \/ i - Len(s) \in DOMAIN t /\ (s \o t)[i] = t[i - Len(s)]
  BY <1>1, <1>2
<1>6. ToSet(s) \cup ToSet(t) \subseteq ToSet(s \o t)
  <2>1. ToSet(s) \subseteq ToSet(s \o t)
    BY <1>3 DEF ToSet
  <2>2. ToSet(t) \subseteq ToSet(s \o t)
    BY <1>4 DEF ToSet
  <2> QED BY <2>1, <2>2
<1>7. ToSet(s \o t) \subseteq ToSet(s) \cup ToSet(t)
  BY <1>5 DEF ToSet
<1> QED BY <1>1, <1>6, <1>7

\* One element, and two.
LEMMA Singleton ==
    ASSUME NEW S, NEW e \in S
    PROVE  /\ <<e>> \in Seq(S) /\ Len(<<e>>) = 1 /\ <<e>>[1] = e
           /\ DOMAIN <<e>> = {1}
  OBVIOUS

LEMMA Pair ==
    ASSUME NEW S, NEW d \in S, NEW e \in S
    PROVE  /\ <<d, e>> \in Seq(S) /\ ToSet(<<d, e>>) = {d, e}
           /\ <<d, e>>[1] = d /\ <<d, e>>[2] = e /\ DOMAIN <<d, e>> = {1, 2}
<1>1. <<d, e>> \in Seq(S) /\ <<d, e>>[1] = d /\ <<d, e>>[2] = e
  OBVIOUS
<1>2. DOMAIN <<d, e>> = {1, 2}
  OBVIOUS
<1> QED BY <1>1, <1>2 DEF ToSet

\* A piece of one line.
LEMMA OneLine ==
    ASSUME NEW e \in Text
    PROVE  /\ <<e>> \in Seq(Text) /\ ToSet(<<e>>) = {e}
           /\ Len(<<e>>) = 1 /\ <<e>>[1] = e
<1> DEFINE S == Text
<1>1. e \in S
  OBVIOUS
<1> HIDE DEF S
<1>2. /\ <<e>> \in Seq(S) /\ Len(<<e>>) = 1 /\ <<e>>[1] = e
      /\ DOMAIN <<e>> = {1}
  BY <1>1, Singleton
<1>3. ToSet(<<e>>) = {e}
  BY <1>2 DEF ToSet
<1> QED BY <1>2, <1>3 DEF S

\* Writing over a file keeps no line that was not in one of the two.
LEMMA OverLines ==
    ASSUME NEW new \in Seq(Text), NEW old \in Seq(Text)
    PROVE  /\ Over(new, old) \in Seq(Text)
           /\ ToSet(new) \subseteq ToSet(Over(new, old))
           /\ ToSet(Over(new, old)) \subseteq ToSet(new) \cup ToSet(old)
           /\ old = << >> => Over(new, old) = new
<1> DEFINE rest == SubSeq(old, Len(new) + 1, Len(old))
<1>1. rest \in Seq(Text) /\ ToSet(rest) \subseteq ToSet(old)
  <2>1. Len(new) \in Nat /\ Len(old) \in Nat
    OBVIOUS
  <2>2. CASE Len(new) + 1 > Len(old)
    <3>1. rest = << >>
      BY <2>1, <2>2, SubSeqEmpty
    <3> QED BY <3>1 DEF ToSet
  <2>3. CASE Len(new) + 1 <= Len(old)
    <3>1. /\ rest \in Seq(Text) /\ Len(rest) = Len(old) - Len(new)
          /\ \A i \in 1 .. Len(old) - Len(new) : rest[i] = old[Len(new) + i]
      BY <2>1, <2>3
    <3>2. \A i \in DOMAIN rest : Len(new) + i \in DOMAIN old /\ rest[i] = old[Len(new) + i]
      BY <2>1, <3>1
    <3> QED BY <3>1, <3>2 DEF ToSet
  <2> QED BY <2>1, <2>2, <2>3
<1>2. old = << >> => rest = << >>
  BY <1>1 DEF ToSet
<1> HIDE DEF rest
<1>3. Over(new, old) = new \o rest
  BY DEF Over, rest
<1>4. new \o << >> = new
  OBVIOUS
<1> QED BY <1>1, <1>2, <1>3, <1>4, ConcatLines

\* The line in front of others, or behind them.
LEMMA LineFirst ==
    ASSUME NEW s \in Seq(Text)
    PROVE  /\ <<Line>> \o s \in Seq(Text)
           /\ ToSet(<<Line>> \o s) = {Line} \cup ToSet(s)
           /\ Line \notin ToSet(s) =>
                \A k \in DOMAIN (<<Line>> \o s) : (<<Line>> \o s)[k] = Line => k = 1
<1>1. Line \in Text
  BY DEF Text
<1>2. /\ <<Line>> \in Seq(Text) /\ ToSet(<<Line>>) = {Line}
      /\ Len(<<Line>>) = 1
  BY <1>1, OneLine
<1> DEFINE one == <<Line>>
<1> HIDE DEF one
<1>3. one \in Seq(Text) /\ Len(one) = 1
  BY <1>2 DEF one
<1>4. ASSUME NEW k \in DOMAIN (one \o s), k # 1
      PROVE  (one \o s)[k] \in ToSet(s)
  <2>1. k - 1 \in DOMAIN s /\ (one \o s)[k] = s[k - 1]
    <3>1. /\ one \o s \in Seq(Text) /\ Len(one \o s) = 1 + Len(s)
          /\ \A i \in 1 .. 1 + Len(s) :
                (one \o s)[i] = IF i <= 1 THEN one[i] ELSE s[i - 1]
      BY <1>3, ConcatProperties
    <3>2. DOMAIN (one \o s) = 1 .. 1 + Len(s) /\ DOMAIN s = 1 .. Len(s) /\ Len(s) \in Nat
      BY <3>1
    <3>3. k \in 1 .. 1 + Len(s)
      BY <3>2
    <3>4. ~ (k <= 1) /\ k - 1 \in 1 .. Len(s)
      BY <1>4, <3>2, <3>3
    <3> QED BY <3>1, <3>2, <3>3, <3>4
  <2> QED BY <2>1 DEF ToSet
<1> QED BY <1>2, <1>4, ConcatLines DEF one

LEMMA LineLast ==
    ASSUME NEW s \in Seq(Text)
    PROVE  /\ s \o <<"", Line>> \in Seq(Text)
           /\ ToSet(s \o <<"", Line>>) = ToSet(s) \cup {"", Line}
<1> DEFINE blank == ""
           T == Text
<1>1. Line \in T /\ blank \in T
  BY DEF Text
<1> HIDE DEF blank, T
<1>2. <<blank, Line>> \in Seq(T) /\ ToSet(<<blank, Line>>) = {blank, Line}
  BY <1>1, Pair
<1>3. /\ s \o <<blank, Line>> \in Seq(Text)
      /\ ToSet(s \o <<blank, Line>>) = ToSet(s) \cup {blank, Line}
  BY <1>2, ConcatLines DEF T
<1> QED BY <1>3 DEF blank

\* In a file that was empty, appending gives the line once.
LEMMA LineOnlySecond ==
    \A j, k \in DOMAIN (<< >> \o <<"", Line>>) :
        (<< >> \o <<"", Line>>)[j] = Line /\ (<< >> \o <<"", Line>>)[k] = Line => j = k
<1> DEFINE blank == ""
           T == Text
           two == <<blank, Line>>
<1>1. Line \in T /\ blank \in T /\ blank # Line
  BY DEF Text, Line
<1> HIDE DEF blank, T
<1>2. two \in Seq(T) /\ two[1] = blank /\ two[2] = Line /\ DOMAIN two = {1, 2}
  BY <1>1, Pair
<1> HIDE DEF two
<1>3. << >> \o two = two
  BY <1>2, ConcatEmptySeq
<1>4. \A j, k \in DOMAIN two : two[j] = Line /\ two[k] = Line => j = k
  BY <1>1, <1>2
<1> QED BY <1>3, <1>4 DEF two, blank

\* A line of the user.
LEMMA UserLast ==
    ASSUME NEW s \in Seq(Text)
    PROVE  /\ Append(s, "user") \in Seq(Text)
           /\ ToSet(Append(s, "user")) = ToSet(s) \cup {"user"}
<1> DEFINE user == "user"
<1>1. user \in Text
  BY DEF Text
<1> HIDE DEF user
<1>2. <<user>> \in Seq(Text) /\ ToSet(<<user>>) = {user}
  BY <1>1, OneLine
<1>3. Append(s, user) = s \o <<user>>
  BY <1>1, AppendIsConcat
<1>4. /\ Append(s, user) \in Seq(Text)
      /\ ToSet(Append(s, user)) = ToSet(s) \cup {user}
  BY <1>2, <1>3, ConcatLines
<1> QED BY <1>4 DEF user

-----------------------------------------------------------------------------
(* The invariant *)

\* An empty file.
LEMMA EmptySet == << >> \in Seq(Text) /\ ToSet(<< >>) = {}
  BY DEF ToSet

\* The invariant holds at the start.
LEMMA SetupInit ==
    ASSUME Commented = FALSE, Init
    PROVE  SInv
<1>1. lines = << >> /\ lines \in Seq(Text) /\ ToSet(lines) = {} /\ DOMAIN lines = {}
  BY DEF Init, ToSet
<1>2. \A m \in MATLAB : f[m] \in Seq(Text) /\ ToSet(f[m]) = {}
  BY <1>1 DEF Init
<1>3. Types
  BY <1>1, <1>2 DEF Init, Types, Points
<1>4. FileState
  BY <1>1, <1>2 DEF Init, FileState, Window
<1>5. Whole
  BY <1>1 DEF Init, Whole, Once, AloneInWindow, KnowsFile, Persisted, Window
<1> QED BY <1>3, <1>4, <1>5 DEF SInv

\* Actions of the sessions that do not touch startup.m.
LEMMA StartStep ==
    ASSUME SInv, NEW m \in MATLAB, Start(m)
    PROVE  SInv'
<1>1. Types'
  BY DEF SInv, Types, Points, Window, Start
<1>2. FileState'
  BY EmptySet DEF SInv, Types, FileState, Window, Start
<1>3. ASSUME ~ torn' PROVE Whole'
  <2>1. Once'
    BY <1>3 DEF SInv, Whole, Once, Start
  <2>2. AloneInWindow'
    BY <1>3 DEF SInv, Types, Whole, AloneInWindow, Window, Start
  <2>3. KnowsFile'
    BY <1>3 DEF SInv, Types, Whole, KnowsFile, Persisted, AloneInWindow, Window, Start
  <2>4. Persisted'
    BY <1>3 DEF SInv, Types, Whole, KnowsFile, Persisted, Start
  <2> QED BY <2>1, <2>2, <2>3, <2>4 DEF Whole
<1> QED BY <1>1, <1>2, <1>3 DEF SInv

LEMMA KillStep ==
    ASSUME SInv, NEW m \in MATLAB, Kill(m)
    PROVE  SInv'
<1>1. Types'
  BY DEF SInv, Types, Points, Window, Kill
<1>2. FileState'
  BY EmptySet DEF SInv, Types, FileState, Window, Kill
<1>3. ASSUME ~ torn' PROVE Whole'
  <2>1. Once'
    BY <1>3 DEF SInv, Whole, Once, Kill
  <2>2. AloneInWindow'
    BY <1>3 DEF SInv, Types, Whole, AloneInWindow, Window, Kill
  <2>3. KnowsFile'
    BY <1>3 DEF SInv, Types, Whole, KnowsFile, Persisted, AloneInWindow, Window, Kill
  <2>4. Persisted'
    BY <1>3 DEF SInv, Types, Whole, KnowsFile, Persisted, Kill
  <2> QED BY <2>1, <2>2, <2>3, <2>4 DEF Whole
<1> QED BY <1>1, <1>2, <1>3 DEF SInv

LEMMA InstallStep ==
    ASSUME SInv, NEW m \in MATLAB, Install(m)
    PROVE  SInv'
<1>1. Types'
  BY DEF SInv, Types, Points, Window, Install
<1>2. FileState'
  BY EmptySet DEF SInv, Types, FileState, Window, Install
<1>3. ASSUME ~ torn' PROVE Whole'
  <2>1. Once'
    BY <1>3 DEF SInv, Whole, Once, Install
  <2>2. AloneInWindow'
    BY <1>3 DEF SInv, Types, Whole, AloneInWindow, Window, Install
  <2>3. KnowsFile'
    BY <1>3 DEF SInv, Types, Whole, KnowsFile, Persisted, AloneInWindow, Window, Install
  <2>4. Persisted'
    BY <1>3 DEF SInv, Types, Whole, KnowsFile, Persisted, Install
  <2> QED BY <2>1, <2>2, <2>3, <2>4 DEF Whole
<1> QED BY <1>1, <1>2, <1>3 DEF SInv

\* The bootstrap: looking for startup.m, reading it, opening it.
LEMMA FirstStep ==
    ASSUME SInv, NEW m \in MATLAB, First(m)
    PROVE  SInv'
<1>1. Types'
  BY DEF SInv, Types, Points, Window, First, Rewriting
<1>2. FileState'
  BY EmptySet DEF SInv, Types, FileState, Window, First, Rewriting
<1>3. ASSUME ~ torn' PROVE Whole'
  <2>1. Once'
    BY <1>3 DEF SInv, Whole, Once, First, Rewriting
  <2>2. AloneInWindow'
    BY <1>3 DEF SInv, Types, Whole, AloneInWindow, Window, First, Rewriting
  <2>3. KnowsFile'
    <3>1. \A n \in MATLAB : pc[n] \notin Window
      BY <1>3 DEF SInv, Types, First, Rewriting
    <3>2. ~ exists => lines = << >>
      BY DEF SInv, FileState
    <3> QED BY <3>1, <3>2 DEF SInv, Types, KnowsFile, Window, First
  <2>4. Persisted'
    BY <1>3 DEF SInv, Types, Whole, KnowsFile, Persisted, First, Rewriting
  <2> QED BY <2>1, <2>2, <2>3, <2>4 DEF Whole
<1> QED BY <1>1, <1>2, <1>3 DEF SInv

LEMMA OpenFailsStep ==
    ASSUME SInv, NEW m \in MATLAB, OpenFails(m)
    PROVE  SInv'
<1>1. Types'
  BY DEF SInv, Types, Points, Window, OpenFails
<1>2. FileState'
  BY DEF SInv, Types, FileState, Window, OpenFails
<1>3. ASSUME ~ torn' PROVE Whole'
  <2>1. Once'
    BY <1>3 DEF SInv, Whole, Once, OpenFails
  <2>2. AloneInWindow'
    BY <1>3 DEF SInv, Types, Whole, AloneInWindow, Window, OpenFails
  <2>3. KnowsFile'
    BY <1>3 DEF SInv, Types, Whole, KnowsFile, Persisted, AloneInWindow, Window, OpenFails
  <2>4. Persisted'
    BY <1>3 DEF SInv, Types, Whole, KnowsFile, Persisted, OpenFails
  <2> QED BY <2>1, <2>2, <2>3, <2>4 DEF Whole
<1> QED BY <1>1, <1>2, <1>3 DEF SInv

LEMMA ReadStep ==
    ASSUME SInv, NEW m \in MATLAB, Read(m)
    PROVE  SInv'
<1>1. Types'
  BY DEF SInv, Types, Points, Window, Read, EnterMymPath, Line, InComment
<1>2. FileState'
  BY EmptySet DEF SInv, Types, FileState, Window, Read, EnterMymPath, Line, InComment
<1>3. ASSUME ~ torn' PROVE Whole'
  <2>1. Once'
    BY <1>3 DEF SInv, Whole, Once, Read, EnterMymPath, Line, InComment
  <2>2. AloneInWindow'
    <3>1. torn' = torn /\ pc \in [MATLAB -> Points] /\ pc[m] \in Window
      BY DEF SInv, Types, Window, Read
    <3>2. PICK p : pc' = [pc EXCEPT ![m] = p]
      BY DEF Read, EnterMymPath
    <3>3. AloneInWindow
      BY <1>3, <3>1 DEF SInv, Whole
    <3> QED BY <3>1, <3>2, <3>3 DEF AloneInWindow
  <2>3. /\ \A n \in MATLAB : pc[n] \in Window => n = m
        /\ Line \notin ToSet(lines) => boot /\ \A n \in MATLAB : pc[n] # "forward"
        /\ \/ pc' = [pc EXCEPT ![m] = "forward"] /\ Line \in ToSet(lines)
           \/ pc' = [pc EXCEPT ![m] = "rewrite"] /\ Line \notin ToSet(lines)
        /\ pc \in [MATLAB -> Points] /\ f' = [f EXCEPT ![m] = lines]
        /\ f \in [MATLAB -> Seq(Text)] /\ boot' = boot /\ lines' = lines
    BY <1>3 DEF SInv, Types, FileState, Whole, AloneInWindow, Persisted, Window,
                Read, EnterMymPath
  <2>4. KnowsFile'
    BY <2>3 DEF KnowsFile, Window
  <2>5. Persisted'
    BY <2>3, <1>3 DEF SInv, Whole, Persisted
  <2> QED BY <2>1, <2>2, <2>4, <2>5 DEF Whole
<1> QED BY <1>1, <1>2, <1>3 DEF SInv

LEMMA OpenToAppendStep ==
    ASSUME SInv, NEW m \in MATLAB, OpenToAppend(m)
    PROVE  SInv'
<1>1. Types'
  BY DEF SInv, Types, Points, Window, OpenToAppend
<1>2. FileState'
  BY EmptySet DEF SInv, Types, FileState, Window, OpenToAppend
<1>3. ASSUME ~ torn' PROVE Whole'
  <2>1. Once'
    BY <1>3 DEF SInv, Whole, Once, OpenToAppend
  <2>2. AloneInWindow'
    BY <1>3 DEF SInv, Types, Whole, AloneInWindow, Window, OpenToAppend
  <2>3. KnowsFile'
    BY <1>3 DEF SInv, Types, Whole, KnowsFile, Persisted, AloneInWindow, Window, OpenToAppend
  <2>4. Persisted'
    BY <1>3 DEF SInv, Types, Whole, KnowsFile, Persisted, OpenToAppend
  <2> QED BY <2>1, <2>2, <2>3, <2>4 DEF Whole
<1> QED BY <1>1, <1>2, <1>3 DEF SInv

LEMMA ForwardStep ==
    ASSUME SInv, NEW m \in MATLAB, Forward(m)
    PROVE  SInv'
<1>1. Types'
  BY EmptySet DEF SInv, Types, Points, Window, Forward
<1>2. FileState'
  BY EmptySet DEF SInv, Types, FileState, Window, Forward
<1>3. ASSUME ~ torn' PROVE Whole'
  <2>1. Once'
    BY <1>3 DEF SInv, Whole, Once, Forward
  <2>2. AloneInWindow'
    BY <1>3 DEF SInv, Types, Whole, AloneInWindow, Window, Forward
  <2>3. KnowsFile'
    BY <1>3 DEF SInv, Types, Whole, KnowsFile, Persisted, AloneInWindow, Window, Forward
  <2>4. Persisted'
    BY <1>3 DEF SInv, Types, Whole, KnowsFile, Persisted, Forward
  <2> QED BY <2>1, <2>2, <2>3, <2>4 DEF Whole
<1> QED BY <1>1, <1>2, <1>3 DEF SInv

\* Those that change it.
LEMMA OpenToWriteStep ==
    ASSUME SInv, NEW m \in MATLAB, OpenToWrite(m)
    PROVE  SInv'
<1>1. Types'
  BY EmptySet DEF SInv, Types, Points, Window, OpenToWrite
<1>2. FileState'
  BY EmptySet DEF SInv, Types, FileState, Window, OpenToWrite
<1>3. ASSUME ~ torn' PROVE Whole'
  <2>1. Once'
    BY <1>3 DEF SInv, Whole, Once, OpenToWrite
  <2>2. AloneInWindow'
    BY <1>3 DEF SInv, Types, Whole, AloneInWindow, Window, OpenToWrite
  <2>3. KnowsFile'
    BY <1>3 DEF SInv, Types, Whole, KnowsFile, AloneInWindow, Window, OpenToWrite
  <2>4. Persisted'
    BY <1>3 DEF SInv, Types, Whole, KnowsFile, Persisted, OpenToWrite
  <2> QED BY <2>1, <2>2, <2>3, <2>4 DEF Whole
<1> QED BY <1>1, <1>2, <1>3 DEF SInv

\* The line is written in front of what was read: it was not in there.
LEMMA WriteStep ==
    ASSUME SInv, NEW m \in MATLAB, Write(m)
    PROVE  SInv'
<1> DEFINE new == <<Line>> \o f[m]
<1>1. /\ f[m] \in Seq(Text) /\ lines \in Seq(Text) /\ InComment \notin ToSet(f[m])
      /\ InComment \notin ToSet(lines)
  BY DEF SInv, Types, FileState
<1>2. /\ new \in Seq(Text) /\ ToSet(new) = {Line} \cup ToSet(f[m])
      /\ Line \notin ToSet(f[m]) => \A k \in DOMAIN new : new[k] = Line => k = 1
  BY <1>1, LineFirst
<1> HIDE DEF new
<1>3. /\ lines' \in Seq(Text) /\ Line \in ToSet(lines')
      /\ InComment \notin ToSet(lines')
      /\ lines = << >> => lines' = new
  <2>1. lines' = Over(new, lines)
    BY DEF Write, new
  <2>2. Line # InComment
    BY DEF Line, InComment
  <2> QED BY <1>1, <1>2, <2>1, <2>2, OverLines
<1>4. /\ pc[m] = "write" /\ pc' = [pc EXCEPT ![m] = "forward"]
      /\ dir' = [dir EXCEPT ![m] = "mym"]
      /\ UNCHANGED <<boot, exists, f, torn>>
  BY DEF Write, EnterMymPath
<1>5. Types'
  BY <1>3, <1>4 DEF SInv, Types, Points, Window
<1>6. FileState'
  BY <1>3, <1>4 DEF SInv, Types, FileState, Window
<1>7. ASSUME ~ torn' PROVE Whole'
  <2>1. Line \notin ToSet(f[m]) /\ lines = << >>
    BY <1>4, <1>7 DEF SInv, Whole, KnowsFile
  <2>2. Once'
    BY <1>2, <1>3, <2>1 DEF Once
  <2>3. AloneInWindow' /\ \A n \in MATLAB : pc'[n] \notin Window
    BY <1>4, <1>7 DEF SInv, Types, Whole, AloneInWindow, Window
  <2>4. KnowsFile'
    BY <2>3 DEF KnowsFile, Window
  <2>5. Persisted'
    BY <1>3 DEF Persisted
  <2> QED BY <2>2, <2>3, <2>4, <2>5 DEF Whole
<1> QED BY <1>5, <1>6, <1>7 DEF SInv

\* The line is appended to a file that was not there.
LEMMA AppendLineStep ==
    ASSUME SInv, NEW m \in MATLAB, AppendLine(m)
    PROVE  SInv'
<1>1. lines \in Seq(Text) /\ InComment \notin ToSet(lines)
  BY DEF SInv, Types, FileState
<1>2. /\ lines' \in Seq(Text) /\ Line \in ToSet(lines')
      /\ InComment \notin ToSet(lines')
  <2> DEFINE blank == ""
  <2>1. lines' = lines \o <<blank, Line>>
    BY DEF AppendLine
  <2>2. Line # InComment /\ blank # InComment
    BY DEF Line, InComment
  <2>3. /\ lines \o <<blank, Line>> \in Seq(Text)
        /\ ToSet(lines \o <<blank, Line>>) = ToSet(lines) \cup {blank, Line}
    BY <1>1, LineLast
  <2> HIDE DEF blank
  <2> QED BY <1>1, <2>1, <2>2, <2>3
<1>3. /\ pc[m] = "appending" /\ pc' = [pc EXCEPT ![m] = "forward"]
      /\ dir' = [dir EXCEPT ![m] = "mym"]
      /\ UNCHANGED <<boot, exists, f, torn>>
  BY DEF AppendLine, EnterMymPath
<1>4. Types'
  BY <1>2, <1>3 DEF SInv, Types, Points, Window
<1>5. FileState'
  BY <1>2, <1>3 DEF SInv, Types, FileState, Window
<1>6. ASSUME ~ torn' PROVE Whole'
  <2>1. lines = << >>
    BY <1>3, <1>6 DEF SInv, Whole, KnowsFile
  <2>2. Once'
    BY <2>1, LineOnlySecond DEF AppendLine, Once
  <2>3. AloneInWindow' /\ \A n \in MATLAB : pc'[n] \notin Window
    BY <1>3, <1>6 DEF SInv, Types, Whole, AloneInWindow, Window
  <2>4. KnowsFile'
    BY <2>3 DEF KnowsFile, Window
  <2>5. Persisted'
    BY <1>2 DEF Persisted
  <2> QED BY <2>2, <2>3, <2>4, <2>5 DEF Whole
<1> QED BY <1>4, <1>5, <1>6 DEF SInv

\* What is left of a piece that is cut off.
LEMMA PrefixLines ==
    ASSUME NEW s \in Seq(Text), NEW k \in 0 .. Len(s)
    PROVE  SubSeq(s, 1, k) \in Seq(Text) /\ ToSet(SubSeq(s, 1, k)) \subseteq ToSet(s)
<1>1. /\ SubSeq(s, 1, k) \in Seq(Text) /\ Len(SubSeq(s, 1, k)) = k
      /\ \A i \in 1 .. k : SubSeq(s, 1, k)[i] = s[i]
  OBVIOUS
<1>2. DOMAIN SubSeq(s, 1, k) = 1 .. k /\ \A i \in 1 .. k : i \in DOMAIN s
  BY <1>1
<1> QED BY <1>1, <1>2 DEF ToSet

\* What is cut off spoils the file, but leaves it a file.
LEMMA CutOffStep ==
    ASSUME SInv, NEW m \in MATLAB, CutOff(m)
    PROVE  SInv'
<1>1. /\ f[m] \in Seq(Text) /\ lines \in Seq(Text) /\ InComment \notin ToSet(f[m])
      /\ InComment \notin ToSet(lines)
  BY DEF SInv, Types, FileState
<1>2. lines' \in Seq(Text) /\ InComment \notin ToSet(lines')
  <2>1. ASSUME NEW k \in 0 .. Len(f[m]), lines' = Over(SubSeq(<<Line>> \o f[m], 1, k), lines)
        PROVE  lines' \in Seq(Text) /\ InComment \notin ToSet(lines')
    <3>1. PICK new, cut : new = <<Line>> \o f[m] /\ cut = SubSeq(new, 1, k)
      OBVIOUS
    <3>2. new \in Seq(Text) /\ ToSet(new) = {Line} \cup ToSet(f[m])
      BY <1>1, <3>1, LineFirst
    <3>3. Len(new) = 1 + Len(f[m])
      BY <1>1, <3>1
    <3>4. k \in 0 .. Len(new)
      BY <1>1, <3>3
    <3>5. cut \in Seq(Text) /\ ToSet(cut) \subseteq ToSet(new)
      BY <3>1, <3>2, <3>4, PrefixLines
    <3>6. /\ Over(cut, lines) \in Seq(Text)
          /\ ToSet(Over(cut, lines)) \subseteq ToSet(cut) \cup ToSet(lines)
      BY <1>1, <3>5, OverLines
    <3>7. Line # InComment
      BY DEF Line, InComment
    <3> QED BY <1>1, <2>1, <3>1, <3>2, <3>5, <3>6, <3>7
  <2>2. ASSUME lines' = lines \o <<"">>
        PROVE  lines' \in Seq(Text) /\ InComment \notin ToSet(lines')
    <3> DEFINE blank == ""
    <3>1. blank \in Text /\ blank # InComment
      BY DEF Text, InComment
    <3>2. lines' = lines \o <<blank>>
      BY <2>2
    <3> HIDE DEF blank
    <3>3. <<blank>> \in Seq(Text) /\ ToSet(<<blank>>) = {blank}
      BY <3>1, OneLine
    <3>4. /\ lines \o <<blank>> \in Seq(Text)
          /\ ToSet(lines \o <<blank>>) = ToSet(lines) \cup {blank}
      BY <1>1, <3>3, ConcatLines
    <3> QED BY <1>1, <3>1, <3>2, <3>4
  <2> QED BY <1>1, <2>1, <2>2 DEF CutOff
<1>3. /\ pc[m] \in {"write", "appending"} /\ pc' = [pc EXCEPT ![m] = "forward"]
      /\ dir' = [dir EXCEPT ![m] = "mym"] /\ torn' = TRUE
      /\ UNCHANGED <<boot, exists, f>>
  BY DEF CutOff, EnterMymPath
<1>4. Types'
  BY <1>2, <1>3 DEF SInv, Types, Points, Window
<1>5. FileState'
  BY <1>2, <1>3 DEF SInv, Types, FileState, Window
<1> QED BY <1>3, <1>4, <1>5 DEF SInv

\* The user may add a line while nobody rewrites the file.
LEMMA EditStep ==
    ASSUME SInv, Edit
    PROVE  SInv'
<1>1. lines \in Seq(Text) /\ InComment \notin ToSet(lines)
  BY DEF SInv, Types, FileState
<1>2. /\ lines' \in Seq(Text) /\ ToSet(lines') = ToSet(lines) \cup {"user"}
      /\ InComment \notin ToSet(lines') /\ lines' = Append(lines, "user")
  <2>1. "user" # InComment
    BY DEF InComment
  <2> QED BY <1>1, <2>1, UserLast DEF Edit
<1>3. exists' = TRUE /\ torn' = (torn \/ Rewriting) /\ UNCHANGED <<boot, pc, dir, f>>
  BY DEF Edit
<1>4. Types'
  BY <1>2, <1>3 DEF SInv, Types
<1>5. FileState'
  BY <1>2, <1>3 DEF SInv, FileState
<1>6. ASSUME ~ torn' PROVE Whole'
  <2>1. Whole /\ \A n \in MATLAB : pc[n] \notin Window
    BY <1>3, <1>6 DEF SInv, Types, Rewriting
  <2>2. Once'
    <3>1. "user" # Line
      BY DEF Line
    <3> DEFINE user == "user"
    <3>2. user \in Text /\ user # Line /\ lines' = Append(lines, user)
      BY <1>2, <3>1 DEF Text
    <3> HIDE DEF user
    <3>3. /\ Len(lines') = Len(lines) + 1 /\ lines' \in Seq(Text)
          /\ \A k \in 1 .. Len(lines) : lines'[k] = lines[k]
          /\ lines'[Len(lines) + 1] = user
      BY <1>1, <1>2, <3>2, AppendProperties
    <3>4. /\ DOMAIN lines = 1 .. Len(lines) /\ DOMAIN lines' = 1 .. Len(lines')
          /\ Len(lines) \in Nat
      BY <1>1, <1>2
    <3>5. \A k \in DOMAIN lines' : lines'[k] = Line => k \in DOMAIN lines /\ lines[k] = Line
      BY <3>2, <3>3, <3>4
    <3> QED BY <3>5, <2>1 DEF Whole, Once
  <2>3. AloneInWindow'
    BY <1>3, <2>1 DEF AloneInWindow
  <2>4. KnowsFile'
    BY <1>3, <2>1 DEF KnowsFile, Window
  <2>5. Persisted'
    BY <1>2, <1>3, <2>1 DEF Whole, Persisted
  <2> QED BY <2>2, <2>3, <2>4, <2>5 DEF Whole
<1> QED BY <1>4, <1>5, <1>6 DEF SInv

-----------------------------------------------------------------------------
(* Theorems *)

\* Every step keeps the invariant.
LEMMA SetupStep ==
    ASSUME SInv, [Next]_vars
    PROVE  SInv'
<1>1. CASE Edit
  BY <1>1, EditStep
<1>2. CASE UNCHANGED vars
  BY <1>2 DEF vars, SInv, Types, FileState, Whole, Once, AloneInWindow, KnowsFile, Persisted
<1>3. ASSUME NEW m \in MATLAB,
             \/ Start(m) \/ Kill(m) \/ Install(m)
             \/ First(m) \/ OpenFails(m) \/ Read(m) \/ OpenToWrite(m) \/ Write(m)
             \/ OpenToAppend(m) \/ AppendLine(m) \/ CutOff(m) \/ Forward(m)
      PROVE  SInv'
  BY <1>3, StartStep, KillStep, InstallStep, FirstStep, OpenFailsStep, ReadStep,
     OpenToWriteStep, WriteStep, OpenToAppendStep, AppendLineStep, CutOffStep, ForwardStep
<1> QED BY <1>1, <1>2, <1>3 DEF Next

\* The invariant holds throughout.
LEMMA SetupInductive ==
    ASSUME Commented = FALSE
    PROVE  Spec => []SInv
<1>1. Init => SInv
  BY SetupInit
<1>2. SInv /\ [Next]_vars => SInv'
  BY SetupStep
<1> QED BY <1>1, <1>2, PTL DEF Spec

\* The bootstrap deletes itself only when startup.m has the path (mym.m:20-45),
\* for any number of sessions, installations, failures and kills.
THEOREM PersistedBeforeGone ==
    ASSUME Commented = FALSE
    PROVE  Spec => []GoneOnlyWhenPersisted
<1>1. SInv => GoneOnlyWhenPersisted
  BY DEF SInv, Whole, Persisted, GoneOnlyWhenPersisted
<1> QED BY <1>1, SetupInductive, PTL

\* Line is in startup.m at most once (mym.m:27), whatever is installed again.
THEOREM LineNeverTwice ==
    ASSUME Commented = FALSE
    PROVE  Spec => []LineOnce
<1>1. SInv => LineOnce
  <2> SUFFICES ASSUME SInv, ~ torn PROVE Count(Line) <= 1
    BY DEF LineOnce
  <2> DEFINE at == {k \in DOMAIN lines : lines[k] = Line}
  <2>1. \A j, k \in at : j = k
    BY DEF SInv, Whole, Once
  <2> HIDE DEF at
  <2>2. CASE at = {}
    BY <2>2, FS_EmptySet DEF Count, at
  <2>3. CASE at # {}
    <3>1. PICK k \in at : TRUE
      BY <2>3
    <3>2. at = {k}
      BY <2>1, <3>1
    <3>3. Cardinality({k}) = 1
      BY FS_Singleton
    <3> QED BY <3>2, <3>3 DEF Count, at
  <2> QED BY <2>2, <2>3
<1> QED BY <1>1, SetupInductive, PTL

-----------------------------------------------------------------------------
(* The user's lines *)

At(s, e) == {k \in DOMAIN s : s[k] = e}
Times(s, e) == Cardinality(At(s, e))

\* How often a line is in a piece.
LEMMA AtFinite ==
    ASSUME NEW S, NEW s \in Seq(S), NEW e
    PROVE  IsFiniteSet(At(s, e)) /\ Times(s, e) \in Nat
<1>1. DOMAIN s = 1 .. Len(s) /\ Len(s) \in Nat
  OBVIOUS
<1>2. IsFiniteSet(DOMAIN s)
  BY <1>1, FS_Interval
<1>3. At(s, e) \in SUBSET DOMAIN s
  BY DEF At
<1> QED BY <1>2, <1>3, FS_Subset, FS_CardinalityType DEF Times

LEMMA TimesEmpty == \A e : Times(<< >>, e) = 0
<1>1. \A e : At(<< >>, e) = {}
  BY DEF At
<1> QED BY <1>1, FS_EmptySet DEF Times

\* One more at the end.
LEMMA TimesAppend ==
    ASSUME NEW S, NEW s \in Seq(S), NEW e \in S
    PROVE  Times(Append(s, e), e) = Times(s, e) + 1
<1>1. Len(s) \in Nat /\ DOMAIN s = 1 .. Len(s)
  OBVIOUS
<1>2. /\ Append(s, e) \in Seq(S) /\ Len(Append(s, e)) = Len(s) + 1
      /\ \A k \in 1 .. Len(s) : Append(s, e)[k] = s[k]
      /\ Append(s, e)[Len(s) + 1] = e
  BY AppendProperties
<1>3. DOMAIN Append(s, e) = 1 .. Len(s) + 1
  BY <1>2
<1>4. 1 .. Len(s) + 1 = 1 .. Len(s) \cup {Len(s) + 1} /\ Len(s) + 1 \notin 1 .. Len(s)
  BY <1>1
<1>5. At(Append(s, e), e) = At(s, e) \cup {Len(s) + 1} /\ Len(s) + 1 \notin At(s, e)
  BY <1>1, <1>2, <1>3, <1>4 DEF At
<1>6. IsFiniteSet(At(s, e))
  BY AtFinite
<1> QED BY <1>5, <1>6, FS_AddElement DEF Times

\* Another line in front changes the places and not the number.
LEMMA TimesBehind ==
    ASSUME NEW S, NEW s \in Seq(S), NEW d \in S, NEW e, d # e
    PROVE  Times(<<d>> \o s, e) = Times(s, e)
<1> DEFINE t == <<d>> \o s
           shift == [k \in At(s, e) |-> k + 1]
<1>1. Len(s) \in Nat /\ DOMAIN s = 1 .. Len(s)
  OBVIOUS
<1>2. /\ t \in Seq(S) /\ Len(t) = 1 + Len(s) /\ t[1] = d
      /\ \A k \in 1 .. Len(s) : t[k + 1] = s[k]
  <2>1. <<d>> \in Seq(S) /\ Len(<<d>>) = 1 /\ <<d>>[1] = d
    BY Singleton
  <2> QED BY <2>1
<1>3. DOMAIN t = 1 .. 1 + Len(s)
  BY <1>2
<1> HIDE DEF t
<1>4. shift \in [At(s, e) -> At(t, e)]
  <2>1. ASSUME NEW k \in At(s, e) PROVE k + 1 \in At(t, e)
    <3>1. k \in 1 .. Len(s) /\ s[k] = e
      BY <1>1 DEF At
    <3> QED BY <1>1, <1>2, <1>3, <3>1 DEF At
  <2> QED BY <2>1
<1>5. \A j, k \in At(s, e) : shift[j] = shift[k] => j = k
  <2>1. At(s, e) \subseteq Nat
    BY <1>1 DEF At
  <2> QED BY <2>1
<1>6. \A k \in At(t, e) : \E j \in At(s, e) : shift[j] = k
  <2> SUFFICES ASSUME NEW k \in At(t, e) PROVE k - 1 \in At(s, e) /\ k \in Int
    OBVIOUS
  <2>1. k \in 1 .. 1 + Len(s) /\ t[k] = e /\ k # 1
    BY <1>2, <1>3 DEF At
  <2>2. k - 1 \in 1 .. Len(s) /\ t[(k - 1) + 1] = s[k - 1] /\ (k - 1) + 1 = k
    BY <1>1, <1>2, <2>1
  <2> QED BY <1>1, <2>1, <2>2 DEF At
<1> HIDE DEF shift
<1>7. shift \in Bijection(At(s, e), At(t, e))
  BY <1>4, <1>5, <1>6, Fun_IsBij
<1>8. IsFiniteSet(At(s, e))
  BY AtFinite
<1> QED BY <1>7, <1>8, FS_Bijection, Fun_ExistsBij DEF Times, t

\* The user's lines are in the file, or in what the session has read that is
\* about to write it.
UserSafe ==
    /\ mine \in Nat
    /\ ~ torn =>
          /\ (\A m \in MATLAB : pc[m] # "write") => Times(lines, "user") = mine
          /\ \A m \in MATLAB : pc[m] \in {"rewrite", "write"} => Times(f[m], "user") = mine

\* Rewriting the file: its lines go to the session and come back behind one.
LEMMA WriteKeepsUser ==
    ASSUME SInv, UserSafe, NEW m \in MATLAB, Write(m)
    PROVE  UserSafe'
<1>1. mine' = mine /\ torn' = torn /\ f' = f /\ pc[m] = "write"
      /\ pc' = [pc EXCEPT ![m] = "forward"] /\ pc \in [MATLAB -> Points]
  BY DEF Write, EnterMymPath, SInv, Types
<1>2. ASSUME ~ torn PROVE Times(lines', "user") = mine
  <2> DEFINE user == "user"
  <2>1. f[m] \in Seq(Text) /\ Line \in Text /\ Line # user
    BY DEF SInv, Types, Text, Line
  <2>2. lines = << >>
    BY <1>1, <1>2 DEF SInv, Whole, KnowsFile
  <2>3. lines' = Over(<<Line>> \o f[m], lines)
    BY DEF Write
  <2>4. lines' = <<Line>> \o f[m]
    <3>1. <<Line>> \o f[m] \in Seq(Text) /\ lines \in Seq(Text)
      BY <2>1, LineFirst DEF SInv, Types
    <3> QED BY <2>2, <2>3, <3>1, OverLines
  <2>5. Times(f[m], user) = mine
    BY <1>1, <1>2 DEF UserSafe
  <2> HIDE DEF user
  <2>6. Times(lines', user) = mine
    BY <2>1, <2>4, <2>5, TimesBehind
  <2> QED BY <2>6 DEF user
<1> QED BY <1>1, <1>2 DEF UserSafe

\* The line is appended to a file without lines.
LEMMA AppendLineKeepsUser ==
    ASSUME SInv, UserSafe, NEW m \in MATLAB, AppendLine(m)
    PROVE  UserSafe'
<1>1. mine' = mine /\ torn' = torn /\ f' = f /\ pc[m] = "appending"
      /\ pc' = [pc EXCEPT ![m] = "forward"] /\ pc \in [MATLAB -> Points]
  BY DEF AppendLine, EnterMymPath, SInv, Types
<1>2. ASSUME ~ torn PROVE Times(lines', "user") = mine
  <2> DEFINE user == "user"
             blank == ""
             T == Text
  <2>1. Line \in T /\ blank \in T /\ Line # user /\ blank # user
    BY DEF Text, Line
  <2>2. lines = << >> /\ \A n \in MATLAB : pc[n] # "write"
    BY <1>1, <1>2 DEF SInv, Whole, KnowsFile, AloneInWindow, Window
  <2>3. lines' = << >> \o <<blank, Line>>
    BY <2>2 DEF AppendLine
  <2>4. mine = 0
    BY <1>2, <2>2, TimesEmpty DEF UserSafe
  <2> HIDE DEF user, blank, T
  <2>5. <<blank, Line>> \in Seq(T) /\ <<blank, Line>>[1] = blank
        /\ <<blank, Line>>[2] = Line /\ DOMAIN <<blank, Line>> = {1, 2}
    BY <2>1, Pair
  <2>6. lines' = <<blank, Line>>
    BY <2>3, <2>5, ConcatEmptySeq
  <2>7. At(lines', user) = {}
    BY <2>1, <2>5, <2>6 DEF At
  <2>8. Times(lines', user) = 0
    BY <2>7, FS_EmptySet DEF Times
  <2> QED BY <2>4, <2>8 DEF user
<1> QED BY <1>1, <1>2 DEF UserSafe

\* The user adds one.
LEMMA EditKeepsUser ==
    ASSUME SInv, UserSafe, Edit
    PROVE  UserSafe'
<1>1. mine' = mine + 1 /\ mine' \in Nat /\ torn' = (torn \/ Rewriting) /\ pc' = pc /\ f' = f
  BY DEF Edit, UserSafe
<1>2. ASSUME ~ torn' PROVE /\ \A n \in MATLAB : pc[n] \notin Window
                           /\ Times(lines', "user") = mine'
  <2>1. ~ torn /\ \A n \in MATLAB : pc[n] \notin Window
    BY <1>1, <1>2 DEF SInv, Types, Rewriting
  <2> DEFINE user == "user"
  <2>2. Times(lines, user) = mine
    BY <2>1 DEF UserSafe, Window
  <2>3. user \in Text /\ lines \in Seq(Text) /\ lines' = Append(lines, user)
    BY DEF Text, SInv, Types, Edit
  <2> HIDE DEF user
  <2>4. Times(lines', user) = mine + 1
    BY <2>2, <2>3, TimesAppend
  <2> QED BY <1>1, <2>1, <2>4 DEF user
<1> QED BY <1>1, <1>2 DEF UserSafe, Window

\* Every step keeps the lines of the user.
LEMMA UserStep ==
    ASSUME SInv, UserSafe, [Next]_vars
    PROVE  UserSafe'
<1>1. pc \in [MATLAB -> Points] /\ f \in [MATLAB -> Seq(Text)]
  BY DEF SInv, Types
<1>2. ASSUME NEW m \in MATLAB, Start(m) \/ Kill(m) \/ Install(m) \/ Forward(m) PROVE UserSafe'
  BY <1>1, <1>2 DEF Start, Kill, Install, Forward, UserSafe
<1>3. ASSUME NEW m \in MATLAB, First(m) \/ OpenToAppend(m) PROVE UserSafe'
  BY <1>1, <1>3 DEF First, OpenToAppend, UserSafe
<1>4. ASSUME NEW m \in MATLAB, Read(m) PROVE UserSafe'
  <2>1. ~ torn => \A n \in MATLAB : pc[n] # "write"
    BY <1>4 DEF SInv, Whole, AloneInWindow, Window, Read
  <2> QED BY <1>1, <1>4, <2>1 DEF Read, EnterMymPath, UserSafe
<1>5. ASSUME NEW m \in MATLAB, OpenToWrite(m) \/ OpenFails(m) PROVE UserSafe'
  BY <1>1, <1>5 DEF OpenToWrite, OpenFails, UserSafe
<1>7. ASSUME NEW m \in MATLAB, CutOff(m) PROVE UserSafe'
  BY <1>1, <1>7 DEF CutOff, UserSafe
<1>6. CASE UNCHANGED vars
  BY <1>6 DEF vars, UserSafe
<1> QED
  BY <1>2, <1>3, <1>4, <1>5, <1>6, <1>7, WriteKeepsUser, AppendLineKeepsUser, EditKeepsUser
     DEF Next

\* The lines that the user wrote into startup.m are all there whenever it is
\* not just being rewritten (mym.m:20-34).
THEOREM UserLinesStay ==
    ASSUME Commented = FALSE
    PROVE  Spec => []UserLinesKept
<1>1. Init => UserSafe
  <2> SUFFICES ASSUME Init PROVE UserSafe
    OBVIOUS
  <2>1. lines = << >>
    BY DEF Init
  <2> QED BY <2>1, TimesEmpty DEF Init, UserSafe
<1>2. SInv /\ UserSafe /\ [Next]_vars => UserSafe'
  BY UserStep
<1>3. SInv /\ UserSafe => UserLinesKept
  BY DEF UserSafe, UserLinesKept, Rewriting, Window, Times, At, Count
<1> QED BY <1>1, <1>2, <1>3, SetupInductive, PTL DEF Spec
=============================================================================
