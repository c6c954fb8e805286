-------------------------------- MODULE Setup --------------------------------
(***************************************************************************)
(* The first call of mym after its installation: the bootstrap, mym.m in   *)
(* the root of the repository.                                             *)
(* It puts the directory of the MEX file on the path, writes that into the *)
(* startup.m that MATLAB runs when it starts, forwards the call to the MEX *)
(* file and deletes itself.  Several MATLAB sessions of one user share the *)
(* two files; each may be killed at any time, and the toolbox be installed *)
(* again.                                                                  *)
(*                                                                         *)
(* startup.m is a sequence of lines.  Reading it, opening it for writing   *)
(* (which empties it) and writing it are steps of their own.               *)
(***************************************************************************)
EXTENDS Integers, SequencesExt, FiniteSets

CONSTANTS MATLAB,       \* the sessions
          MaxUser,      \* how many lines the user may add to startup.m
          Commented     \* may startup.m hold the line behind a %?

VARIABLES
    boot,       \* the bootstrap is there
    exists,     \* startup.m is there
    lines,      \* what is in it
    pc,         \* pc[m]: where session m is
    path,       \* path[m]: where the MEX file's directory is in its path
    dir,        \* dir[m]: its current directory
    f,          \* f[m]: the lines it has read
    mine,       \* the number of lines the user wrote
    torn        \* writings of startup.m have overlapped or been cut off

vars == <<boot, exists, lines, pc, path, dir, f, mine, torn>>

Line == "addpath"            \* addpath('<mymPath>');
InComment == "% addpath"

\* The points at which a session is about to change startup.m.
Window == {"read", "rewrite", "write", "append", "appending"}
Rewriting == \E m \in MATLAB : pc[m] \in Window

Init ==
    /\ boot = TRUE
    /\ exists \in BOOLEAN
    /\ lines \in IF ~ exists THEN {<< >>}
                 ELSE {<< >>} \cup (IF Commented THEN {<<InComment>>} ELSE {})
    /\ pc = [m \in MATLAB |-> "off"]
    /\ path = [m \in MATLAB |-> "none"]
    /\ dir = [m \in MATLAB |-> "orig"]
    /\ f = [m \in MATLAB |-> << >>]
    /\ mine = 0
    /\ torn = FALSE

-----------------------------------------------------------------------------
(* Around the bootstrap. *)

\* MATLAB starts and runs startup.m.
Start(m) ==
    /\ pc[m] = "off"
    /\ pc' = [pc EXCEPT ![m] = "idle"]
    /\ path' = [path EXCEPT ![m] = IF Line \in ToSet(lines) THEN "front" ELSE "none"]
    /\ dir' = [dir EXCEPT ![m] = "orig"]
    /\ UNCHANGED <<boot, exists, lines, f, mine, torn>>

\* It ends or is killed.
Kill(m) ==
    /\ pc[m] # "off"
    /\ pc' = [pc EXCEPT ![m] = "off"]
    /\ f' = [f EXCEPT ![m] = << >>]
    /\ torn' = (torn \/ pc[m] = "write")
    /\ UNCHANGED <<boot, exists, lines, path, dir, mine>>

\* The toolbox is installed from session m: its directory goes in front.
Install(m) ==
    /\ pc[m] = "idle"
    /\ boot' = TRUE
    /\ path' = [path EXCEPT ![m] = IF @ = "none" THEN @ ELSE "behind"]
    /\ UNCHANGED <<exists, lines, pc, dir, f, mine, torn>>

\* The user adds a line.
Edit ==
    /\ mine < MaxUser
    /\ mine' = mine + 1
    /\ exists' = TRUE
    /\ lines' = Append(lines, "user")
    /\ torn' = (torn \/ Rewriting)
    /\ UNCHANGED <<boot, pc, path, dir, f>>

\* What a call of mym finds: the current directory comes first, then the path.
Resolves(m) ==
    CASE dir[m] = "mym" \/ path[m] = "front" -> "mex"
      [] dir[m] = "orig" /\ path[m] # "front" /\ boot -> "bootstrap"
      [] dir[m] = "orig" /\ path[m] = "behind" /\ ~ boot -> "mex"
      [] OTHER -> "nothing"

-----------------------------------------------------------------------------
(* The bootstrap *)

\* Faulty variant: the file is removed as soon as it runs.
FirstDeletes(m) ==
    /\ pc[m] = "idle"
    /\ Resolves(m) = "bootstrap"
    /\ boot' = FALSE
    /\ path' = [path EXCEPT ![m] = "front"]
    /\ pc' = [pc EXCEPT ![m] = IF exists THEN "read" ELSE "append"]
    /\ torn' = (torn \/ Rewriting)
    /\ UNCHANGED <<exists, lines, dir, f, mine>>

\* The directory is added to the path, and startup.m is looked for.
First(m) ==
    /\ pc[m] = "idle"
    /\ Resolves(m) = "bootstrap"
    /\ path' = [path EXCEPT ![m] = "front"]
    /\ pc' = [pc EXCEPT ![m] = IF exists THEN "read" ELSE "append"]
    /\ torn' = (torn \/ Rewriting)
    /\ UNCHANGED <<boot, exists, lines, dir, f, mine>>

\* The call is forwarded in the directory of the MEX file.
EnterMymPath(m) ==
    /\ pc' = [pc EXCEPT ![m] = "forward"]
    /\ dir' = [dir EXCEPT ![m] = "mym"]

\* Faulty variant: the line is added without looking for it.
ReadUnchecked(m) ==
    /\ pc[m] = "read"
    /\ f' = [f EXCEPT ![m] = lines]
    /\ pc' = [pc EXCEPT ![m] = "rewrite"]
    /\ UNCHANGED <<boot, exists, lines, path, dir, mine, torn>>

\* startup.m cannot be opened for reading: the next statement is an error, which
\* ends the call.
OpenFails(m) ==
    /\ pc[m] = "read"
    /\ pc' = [pc EXCEPT ![m] = "idle"]
    /\ UNCHANGED <<boot, exists, lines, path, dir, f, mine, torn>>

\* The line is searched for anywhere in the text, in a comment too.
Read(m) ==
    /\ pc[m] = "read"
    /\ f' = [f EXCEPT ![m] = lines]
    /\ IF ToSet(lines) \cap {Line, InComment} # {} THEN EnterMymPath(m)
       ELSE pc' = [pc EXCEPT ![m] = "rewrite"] /\ UNCHANGED dir
    /\ UNCHANGED <<boot, exists, lines, path, mine, torn>>

\* Opening startup.m for writing empties it, or fails as above.
OpenToWrite(m) ==
    /\ pc[m] = "rewrite"
    /\ \/ lines' = << >> /\ pc' = [pc EXCEPT ![m] = "write"]
       \/ pc' = [pc EXCEPT ![m] = "idle"] /\ UNCHANGED lines
    /\ UNCHANGED <<boot, exists, path, dir, f, mine, torn>>

\* What is written from the start of a file lies over what is there.
Over(new, old) ==
    new \o SubSeq(old, Len(new) + 1, Len(old))

\* Faulty variant: the text that was read is not written back.
WriteLineOnly(m) ==
    /\ pc[m] = "write"
    /\ lines' = Over(<<Line>>, lines)
    /\ EnterMymPath(m)
    /\ UNCHANGED <<boot, exists, path, f, mine, torn>>

Write(m) ==
    /\ pc[m] = "write"
    /\ lines' = Over(<<Line>> \o f[m], lines)
    /\ EnterMymPath(m)
    /\ UNCHANGED <<boot, exists, path, f, mine, torn>>

OpenToAppend(m) ==
    /\ pc[m] = "append"
    /\ \/ exists' = TRUE /\ pc' = [pc EXCEPT ![m] = "appending"]
       \/ pc' = [pc EXCEPT ![m] = "idle"] /\ UNCHANGED exists
    /\ UNCHANGED <<boot, lines, path, dir, f, mine, torn>>

AppendLine(m) ==
    /\ pc[m] = "appending"
    /\ lines' = lines \o <<"", Line>>
    /\ EnterMymPath(m)
    /\ UNCHANGED <<boot, exists, path, f, mine, torn>>

\* fprintf writes less than it should, which is not looked at.
CutOff(m) ==
    /\ \/ /\ pc[m] = "write"
          /\ \E k \in 0 .. Len(f[m]) :
                lines' = Over(SubSeq(<<Line>> \o f[m], 1, k), lines)
       \/ /\ pc[m] = "appending"
          /\ lines' \in {lines, lines \o <<"">>}
    /\ torn' = TRUE
    /\ EnterMymPath(m)
    /\ UNCHANGED <<boot, exists, path, f, mine>>

\* The MEX file returns: back to the directory, and the bootstrap is deleted.
\* An error of the call leaves both as they are.
Forward(m) ==
    /\ pc[m] = "forward"
    /\ pc' = [pc EXCEPT ![m] = "idle"]
    /\ f' = [f EXCEPT ![m] = << >>]
    /\ \/ dir' = [dir EXCEPT ![m] = "orig"] /\ boot' = FALSE
       \/ UNCHANGED <<dir, boot>>
    /\ UNCHANGED <<exists, lines, path, mine, torn>>

Next ==
    \/ \E m \in MATLAB :
          \/ Start(m) \/ Kill(m) \/ Install(m)
          \/ First(m) \/ OpenFails(m) \/ Read(m) \/ OpenToWrite(m) \/ Write(m)
          \/ OpenToAppend(m) \/ AppendLine(m) \/ CutOff(m) \/ Forward(m)
    \/ Edit

Spec == Init /\ [][Next]_vars

-----------------------------------------------------------------------------
(* Properties.  torn marks the executions in which startup.m was written   *)
(* by two at once, in which a session was killed while the file was empty, *)
(* or in which the disk did not take all that was written: nothing in the  *)
(* bootstrap keeps the file from that.                                     *)

Count(l) == Cardinality({k \in DOMAIN lines : lines[k] = l})

\* The bootstrap is only gone when startup.m has the path: the sessions that
\* start from then on find the MEX file, wherever earlier ones were killed
\* and whatever failed in them (mym.m:20-45).
GoneOnlyWhenPersisted == ~ torn /\ ~ boot => Line \in ToSet(lines)

\* However often the toolbox is installed and the bootstrap runs, also after
\* failures, the line is in startup.m at most once (mym.m:27).
LineOnce == ~ torn => Count(Line) <= 1

\* What the user wrote into startup.m stays, unless it is just being written.
UserLinesKept ==
    ~ torn /\ ~ Rewriting => Count("user") = mine

-----------------------------------------------------------------------------
(* What the comments say and the program does not do. *)

\* "determine proper mym response and restore state" (mym.m:36): an error
\* of the forwarded call leaves the session in the MEX file's directory.
StateRestored == \A m \in MATLAB : pc[m] = "idle" => dir[m] = "orig"

\* "add to mex-path as appropriate (persist)" (mym.m:11): not when the line
\* is there as a comment.
PathPersists ==
    (\E m \in MATLAB : pc[m] = "forward") => torn \/ Line \in ToSet(lines)

\* "invoked only first time to set path and removes itself" (mym.m:1): the
\* sessions that were running before have neither the path nor the bootstrap.
EverySessionFindsMym ==
    \A m \in MATLAB : pc[m] = "idle" /\ ~ torn => Resolves(m) # "nothing"
=============================================================================
