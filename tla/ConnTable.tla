------------------------------ MODULE ConnTable ------------------------------
(***************************************************************************)
(* The connection table of mym (src/src/mym.cpp, src/src/mym.h): the array *)
(* c[MAXCONN] of {conn, isopen} that survives from one call of the MEX     *)
(* function to the next, and every command of mexFunction that reads or    *)
(* writes it: open, close, closeall, use, status and a plain SQL command.  *)
(*                                                                         *)
(* MATLAB runs one call at a time, to its end.  What runs beside it is the *)
(* servers: a session may be dropped between any two calls of the client   *)
(* library.  A call is therefore cut where it waits for an answer; pc says *)
(* which answer it waits for:                                              *)
(*   "connect", "stat"   open, in mysql_real_connect and mysql_stat        *)
(*   "select"            use, in mysql_select_db                           *)
(*   "query", "store"    a command, in mysql_query and mysql_store_result  *)
(*   "report"            status without an id, in the loop over the table  *)
(*   "statval"           status with an output, in mysql_stat              *)
(* The mysql_ping that most calls begin with is part of their first step.  *)
(*                                                                         *)
(* Left out: host, user and password, what is printed, what a query says   *)
(* or returns.  A value that a call returns is kept in answer.             *)
(***************************************************************************)
EXTENDS MysqlClient

CONSTANTS MaxConn,          \* MAXCONN, the length of the table
          MultiStatement,   \* may a command leave further results unread?
          MexUnload         \* may the user unload the MEX file?

ASSUME TableAssumption ==
    /\ MaxConn \in Nat \ {0}
    /\ MultiStatement \in BOOLEAN
    /\ MexUnload \in BOOLEAN

Slot == 0 .. MaxConn - 1

VARIABLES
    conn,      \* c[i].conn
    isopen,    \* the slots i with c[i].isopen
    pc,        \* where the current call is; "idle" between calls
    op,        \* the current call, or the last one
    cid,       \* the slot it is about
    todo,      \* the open slots the status report has not reached
    answer     \* what the last call gave back

tableVars == <<conn, isopen>>
callVars == <<pc, op, cid, todo, answer>>
vars == <<clientVars, tableVars, callVars>>

Ops == {"open", "openauto", "close", "closeall", "use", "statusid",
        "statusall", "statusval", "cmd", "reject", "clear",
        "exit", "crash"}
Points == {"idle", "connect", "stat", "select", "query", "store", "report",
           "statval"}
Kinds == {"none", "done", "value", "error"}

TypeOK ==
    /\ ClientTypeOK
    /\ conn \in [Slot -> Handle \cup {NULL}]
    /\ isopen \subseteq Slot
    /\ pc \in Points
    /\ op \in Ops
    /\ cid \in Slot
    /\ todo \subseteq Slot
    /\ answer \in [kind : Kinds, val : Nat]

Init ==
    /\ ClientInit
    /\ conn = [i \in Slot |-> NULL]
    /\ isopen = {}
    /\ pc = "idle"
    /\ op = "exit"
    /\ cid = 0
    /\ todo = {}
    /\ answer = [kind |-> "done", val |-> 0]

-----------------------------------------------------------------------------
\* The ways a step ends.  Error is mexErrMsgTxt: it leaves mexFunction at
\* once, whatever was done so far stays done.
Enter(o, i) == op' = o /\ cid' = i
Stay == UNCHANGED <<op, cid>>
Wait(p) == pc' = p /\ answer' = [kind |-> "none", val |-> 0]
Done == pc' = "idle" /\ answer' = [kind |-> "done", val |-> 0]
Value(v) == pc' = "idle" /\ answer' = [kind |-> "value", val |-> v]
Error == pc' = "idle" /\ answer' = [kind |-> "error", val |-> 0]

\* Faulty variant: the ping reconnects (MYSQL_OPT_RECONNECT).
PingReconnects(i) ==
    /\ i \in isopen
    /\ \/ Talks(conn[i]) /\ UNCHANGED clientVars
       \/ /\ ~ Talks(conn[i])
          /\ conn[i] \notin more
          /\ \E s \in Session : Connected(conn[i], s)
    /\ UNCHANGED tableVars

\* The ping that a call about an open slot i starts with.  When it fails the
\* slot is marked as not open; its structure is kept.
PingOK(i) ==
    /\ i \in isopen
    /\ Talks(conn[i])
    /\ UNCHANGED <<clientVars, tableVars>>

\* Faulty variant: the structure is forgotten with the slot.
PingForgets(i) ==
    /\ i \in isopen
    /\ Unanswered(conn[i])
    /\ isopen' = isopen \ {i}
    /\ conn' = [conn EXCEPT ![i] = NULL]

PingFails(i) ==
    /\ i \in isopen
    /\ Unanswered(conn[i])
    /\ isopen' = isopen \ {i}
    /\ UNCHANGED conn

\* The MATLAB process ends ("exit") or dies in a call ("crash"), and another
\* one starts.
ProcessEnds(o) ==
    /\ ProcessEnd
    /\ conn' = [i \in Slot |-> NULL]
    /\ isopen' = {}
    /\ todo' = {}
    /\ Enter(o, 0)
    /\ Done

-----------------------------------------------------------------------------
(* open *)

Held(i) == IF i \in isopen THEN {conn[i]} ELSE {}

\* Faulty variant: an open slot is opened again without closing it first.
DialWithoutClose(i) ==
    /\ isopen' = isopen \ {i}
    /\ \E g \in Handle :
          /\ Renew({}, g)
          /\ conn' = [conn EXCEPT ![i] = g]
          /\ Wait("connect")

\* mysql_init either gives a structure, and the open goes on unless it finds
\* that the TLS argument is a struct; or the allocation fails.
DialNew(i) ==
    /\ i \in isopen \/ conn[i] = NULL
    /\ isopen' = isopen \ {i}
    /\ \/ \E g \in Handle :
            /\ Renew(Held(i), g)
            /\ conn' = [conn EXCEPT ![i] = g]
            /\ Wait("connect") \/ Error
       \/ /\ CloseHandles(Held(i))
          /\ conn' = [conn EXCEPT ![i] = NULL]
          /\ Error

\* Faulty variant: a structure left in the slot is used as it is.
DialAsItIs(i) ==
    /\ i \notin isopen
    /\ conn[i] # NULL
    /\ Wait("connect")
    /\ UNCHANGED <<clientVars, tableVars>>

\* A structure that an earlier failure left in the slot is initialised again.
DialAgain(i) ==
    /\ i \notin isopen
    /\ conn[i] # NULL
    /\ InitAgain(conn[i])
    /\ Wait("connect") \/ Error
    /\ UNCHANGED tableVars

OpenAt(i) ==
    /\ pc = "idle"
    /\ DialNew(i) \/ DialAgain(i)
    /\ UNCHANGED todo

Open(i) ==
    /\ Enter("open", i)
    /\ OpenAt(i)

\* Faulty variant: the scan does not look at the slot it stops at.
FirstSlot(i) ==
    /\ i \in Slot
    /\ \A j \in Slot \ isopen : i <= j

\* Connection -1: the first slot that is not open.
FirstFree(i) ==
    /\ i \in Slot \ isopen
    /\ \A j \in Slot \ isopen : i <= j

\* Faulty variant: the scan runs past the end of a full table.
OpenAutoUnchecked ==
    \/ \E i \in Slot :
        /\ FirstFree(i)
        /\ Enter("openauto", i)
        /\ OpenAt(i)
    \/ /\ isopen = Slot
       /\ pc = "idle"
       /\ Enter("openauto", MaxConn)
       /\ Error
       /\ UNCHANGED <<clientVars, tableVars, todo>>

OpenAuto ==
    \E i \in Slot :
        /\ FirstFree(i)
        /\ Enter("openauto", i)
        /\ OpenAt(i)

\* Faulty variant: a connection that fails is tried again for ever.
ConnectRetries ==
    /\ pc = "connect"
    /\ \/ /\ \E s \in Session : Connected(conn[cid], s)
          /\ Wait("stat")
       \/ UNCHANGED clientVars /\ Wait("connect")
    /\ Stay
    /\ UNCHANGED <<tableVars, todo>>

Connect ==
    /\ pc = "connect"
    /\ \/ /\ \E s \in Session : Connected(conn[cid], s)
          /\ Wait("stat")
       \/ /\ UNCHANGED clientVars
          /\ Error
    /\ Stay
    /\ UNCHANGED <<tableVars, todo>>

\* Faulty variant: the answer of mysql_stat is not looked at.
StatIgnored ==
    /\ pc = "stat"
    /\ \/ Talks(conn[cid]) /\ UNCHANGED clientVars
       \/ Unanswered(conn[cid])
    /\ isopen' = isopen \cup {cid}
    /\ Value(cid) \/ Done
    /\ Stay
    /\ UNCHANGED <<conn, todo>>

\* The id is given back to a caller that wants a value.
Stat ==
    /\ pc = "stat"
    /\ \/ /\ Talks(conn[cid])
          /\ isopen' = isopen \cup {cid}
          /\ Value(cid) \/ Done
          /\ UNCHANGED clientVars
       \/ /\ Unanswered(conn[cid])
          /\ Error
          /\ UNCHANGED isopen
    /\ Stay
    /\ UNCHANGED <<conn, todo>>

-----------------------------------------------------------------------------
(* close, closeall *)

\* Faulty variant: the slots keep the pointers that were closed.
ShutKeepsPointer(is) ==
    /\ CloseHandles({conn[i] : i \in is})
    /\ isopen' = isopen \ is
    /\ UNCHANGED conn

Shut(is) ==
    /\ CloseHandles({conn[i] : i \in is})
    /\ conn' = [i \in Slot |-> IF i \in is THEN NULL ELSE conn[i]]
    /\ isopen' = isopen \ is

Close(i) ==
    /\ pc = "idle"
    /\ Enter("close", i)
    /\ Shut(isopen \cap {i})
    /\ Done
    /\ UNCHANGED todo

CloseAll ==
    /\ pc = "idle"
    /\ Enter("closeall", 0)
    /\ Shut(isopen)
    /\ Done
    /\ UNCHANGED todo


-----------------------------------------------------------------------------
(* A call that ends before it changes the table: use or a command on a     *)
(* slot that is not open, a status of one, connection -1 with a full table *)
(* or with another command than open, arguments that are refused; and the  *)
(* commands that do not look at the table: serialize, deserialize, version. *)
Reject ==
    /\ pc = "idle"
    /\ Enter("reject", cid)
    /\ Error \/ Done \/ Value(1)
    /\ UNCHANGED <<clientVars, tableVars, todo>>

-----------------------------------------------------------------------------
(* use *)

\* Faulty variant: the ping is made on connection 0 whatever the id.
UsePingsZero(i) ==
    /\ pc = "idle"
    /\ Enter("use", i)
    /\ i \in isopen
    /\ \/ PingOK(0) /\ Wait("select")
       \/ PingFails(0) /\ Error
    /\ UNCHANGED todo

Use(i) ==
    /\ pc = "idle"
    /\ Enter("use", i)
    /\ \/ PingOK(i) /\ Wait("select")
       \/ PingFails(i) /\ Error
    /\ UNCHANGED todo

\* Without a database name the call fails before it asks the server.
SelectDb ==
    /\ pc = "select"
    /\ \/ /\ Talks(conn[cid])
          /\ UNCHANGED clientVars
          /\ Value(1) \/ Done \/ Error
       \/ UNCHANGED clientVars /\ Error
       \/ Unanswered(conn[cid]) /\ Error
    /\ Stay
    /\ UNCHANGED <<tableVars, todo>>

\* With an id and no database the name is read from behind the arguments
\* (mym.cpp:593).  One outcome is that the process does not survive.
SelectDbCrashes ==
    /\ pc = "select"
    /\ ProcessEnds("crash")

-----------------------------------------------------------------------------
(* status *)

StatusId(i) ==
    /\ pc = "idle"
    /\ Enter("statusid", i)
    /\ \/ PingOK(i) /\ Done
       \/ PingFails(i) /\ Error
    /\ UNCHANGED todo

\* Without an id: a single line when slot 0 alone is open, otherwise the
\* loop over the table.
StatusAll ==
    /\ pc = "idle"
    /\ Enter("statusall", 0)
    /\ \/ /\ isopen = {0}
          /\ \/ PingOK(0) /\ Done
             \/ PingFails(0) /\ Error
          /\ UNCHANGED todo
       \/ /\ isopen \notin {{}, {0}}
          /\ todo' = isopen
          /\ Wait("report")
          /\ UNCHANGED <<clientVars, tableVars>>

NextInReport(j) ==
    /\ j \in todo
    /\ \A k \in todo : j <= k

\* Faulty variant: the report ends at the first ping that fails.
ReportStopsAtError(j) ==
    /\ pc = "report"
    /\ NextInReport(j)
    /\ \/ /\ PingOK(j)
          /\ todo' = todo \ {j}
          /\ IF todo = {j} THEN Done ELSE Wait("report")
       \/ PingFails(j) /\ todo' = {} /\ Error
    /\ Stay

\* One round of the loop.  A failing ping is not an error here: the slot is
\* marked and the loop goes on.
ReportOne(j) ==
    /\ pc = "report"
    /\ NextInReport(j)
    /\ PingOK(j) \/ PingFails(j)
    /\ todo' = todo \ {j}
    /\ IF todo = {j} THEN Done ELSE Wait("report")
    /\ Stay

\* The line a failing ping prints is formatted from an argument that is not
\* passed (mym.cpp:666).  One outcome is that the process does not survive.
ReportOneCrashes(j) ==
    /\ pc = "report"
    /\ NextInReport(j)
    /\ ~ Talks(conn[j])
    /\ ProcessEnds("crash")

StatusVal(i) ==
    /\ pc = "idle"
    /\ Enter("statusval", i)
    /\ \/ PingOK(i) /\ Wait("statval")
       \/ PingFails(i) /\ Value(2)
    /\ UNCHANGED todo

\* Faulty variant: code 3 leaves the slot open.
StatValKeepsOpen ==
    /\ pc = "statval"
    /\ \/ Talks(conn[cid]) /\ Value(0) /\ UNCHANGED clientVars
       \/ Unanswered(conn[cid]) /\ Value(3)
    /\ Stay
    /\ UNCHANGED <<tableVars, todo>>

StatVal ==
    /\ pc = "statval"
    /\ \/ Talks(conn[cid]) /\ Value(0) /\ UNCHANGED <<clientVars, isopen>>
       \/ Unanswered(conn[cid]) /\ Value(3) /\ isopen' = isopen \ {cid}
    /\ Stay
    /\ UNCHANGED <<conn, todo>>

-----------------------------------------------------------------------------
(* a plain SQL command *)

Cmd(i) ==
    /\ pc = "idle"
    /\ Enter("cmd", i)
    /\ \/ PingOK(i) /\ Wait("query")
       \/ PingFails(i) /\ Error
    /\ UNCHANGED todo

\* Faulty variant: a query that fails marks its slot.
QueryMarksSlot ==
    /\ pc = "query"
    /\ \/ Talks(conn[cid]) /\ Wait("store") /\ UNCHANGED <<clientVars, isopen>>
       \/ Error /\ isopen' = isopen \ {cid} /\ UNCHANGED clientVars
    /\ Stay
    /\ UNCHANGED <<conn, todo>>

\* The arguments are put into the query, which may be an error; then the
\* query is sent, which the server may refuse.  Neither marks the slot.
Query ==
    /\ pc = "query"
    /\ \/ UNCHANGED clientVars /\ Error
       \/ Talks(conn[cid]) /\ UNCHANGED clientVars /\ Wait("store")
       \/ Unanswered(conn[cid]) /\ Error
    /\ Stay
    /\ UNCHANGED <<tableVars, todo>>

\* Exactly one result is read.  When the command was several statements, or
\* called a procedure, the others stay where they are.
LeaveResults ==
    /\ more' \in IF MultiStatement THEN {more, more \cup {conn[cid]}} ELSE {more}
    /\ UNCHANGED <<mem, freeMe, sess, alive>>

\* Without a result set there is nothing to ask the server for, and the number
\* of rows is the value; with one, turning it into MATLAB values may fail.
Store ==
    /\ pc = "store"
    /\ \/ LeaveResults /\ (Done \/ Value(0))
       \/ Talks(conn[cid]) /\ LeaveResults /\ Error
       \/ Unanswered(conn[cid]) /\ Error
    /\ Stay
    /\ UNCHANGED <<tableVars, todo>>

-----------------------------------------------------------------------------
(* what happens around the calls *)

\* `clear functions` unloads the MEX file between two calls: its static
\* variables start again, and no exit function closes what they held.
ClearMex ==
    /\ MexUnload
    /\ pc = "idle"
    /\ Enter("clear", 0)
    /\ conn' = [i \in Slot |-> NULL]
    /\ isopen' = {}
    /\ Done
    /\ UNCHANGED <<clientVars, todo>>

Drop ==
    /\ \E s \in Session : ServerDrop(s)
    /\ UNCHANGED <<tableVars, callVars>>

CallOn(i) == \/ Open(i) \/ Close(i) \/ Use(i) \/ StatusId(i)
             \/ StatusVal(i) \/ Cmd(i)

\* The rest of a call that has begun.
CallStep == \/ Connect \/ Stat \/ SelectDb \/ SelectDbCrashes
            \/ StatVal \/ Query \/ Store
            \/ \E j \in Slot : ReportOne(j) \/ ReportOneCrashes(j)

Next ==
    \/ \E i \in Slot : CallOn(i)
    \/ OpenAuto \/ CloseAll \/ StatusAll \/ Reject
    \/ CallStep
    \/ ClearMex \/ ProcessEnds("exit")
    \/ Drop

Spec == Init /\ [][Next]_vars

\* MATLAB does not abandon a call: every step of a call that has begun is
\* taken, whatever the servers do.
FairSpec == Spec /\ WF_vars(CallStep)

-----------------------------------------------------------------------------
(* The inductive invariant, in parts. *)

\* An open slot has a structure, and every structure a slot has is allocated:
\* neither mysql_ping nor mysql_close is ever given a freed pointer.
HandlesAllocated ==
    /\ \A i \in Slot : conn[i] \in mem \cup {NULL}
    /\ \A i \in isopen : conn[i] \in mem

\* Two slots never hold the same structure: a close cannot free it twice.
HandlesDistinct ==
    \A i, j \in Slot : conn[i] = conn[j] /\ conn[i] # NULL => i = j

\* Two structures are never at the other end of one session.
SessionsDistinct ==
    \A g, h \in Handle : sess[g] = sess[h] /\ sess[g] # NULL => g = h

\* A structure that is not allocated has no socket and no results.
FreedIsClean ==
    /\ \A h \in Handle \ mem : sess[h] = NULL
    /\ more \subseteq mem
    /\ freeMe \subseteq mem

\* Where a call is says what it may rely on.
CallState ==
    /\ pc \in {"connect", "stat"} => cid \notin isopen /\ conn[cid] \in mem \ more
    /\ pc = "connect" => sess[conn[cid]] = NULL
    /\ pc \in {"select", "statval", "query", "store"} => cid \in isopen
    /\ pc \in {"query", "store"} => conn[cid] \notin more
    /\ todo \subseteq isopen
    /\ pc # "report" => todo = {}
    /\ pc = "report" => todo # {}

ConnInv ==
    /\ TypeOK
    /\ HandlesAllocated
    /\ HandlesDistinct
    /\ SessionsDistinct
    /\ FreedIsClean
    /\ CallState

-----------------------------------------------------------------------------
(* Safety *)

\* No structure is used after it was freed and none is shared: what keeps a
\* ping, a close or a query of one slot out of the memory of another.
NoUseAfterFree == HandlesAllocated /\ HandlesDistinct

\* A live session can always be ended from MATLAB: an open slot leads to it,
\* or the open that is about to return does.  It takes that no results are
\* left unread and that the MEX file stays loaded (mym.cpp:485-569).
Reachable(s) ==
    \E i \in Slot :
        /\ conn[i] # NULL
        /\ sess[conn[i]] = s
        /\ i \in isopen \/ (pc = "stat" /\ cid = i)

NoOrphanSession == \A s \in alive : Reachable(s)

\* A structure that no slot holds any more is one that mysql_close() would
\* not have freed: memory is only lost when a failed slot is opened again.
LeaksOnlyReused ==
    \A h \in freeMe : \E i \in Slot : conn[i] = h

\* A session that works is only given up by a call that says so: a slot that
\* is open and whose server answers stays open through every other call, be
\* it on this slot or another, successful or not (mym.h:140-146).
HealthyStaysOpen ==
    [][\A i \in isopen \ isopen' :
          \/ ~ Talks(conn[i])
          \/ op' \in {"closeall", "clear", "exit", "crash"}
          \/ op' \in {"open", "close"} /\ cid' = i]_vars

\* A call about one slot leaves every other slot as it was.  Only closeall,
\* the report over all slots and the end of the program touch several.
SlotIndependence ==
    [][\A i \in Slot :
          \/ op' \in {"closeall", "statusall", "clear", "exit", "crash"}
          \/ cid' = i
          \/ /\ conn'[i] = conn[i]
             /\ (i \in isopen') = (i \in isopen)
             /\ conn[i] # NULL =>
                    /\ sess'[conn[i]] = sess[conn[i]]
                    /\ (conn[i] \in more') = (conn[i] \in more)]_vars

\* A slot that stays open never changes over to another session, and one
\* whose server no longer answers does not answer again: transactions,
\* temporary tables and locks are not lost without a trace (mym.cpp:541-542).
NoSilentReconnect ==
    [][\A i \in isopen \cap isopen' :
          /\ sess'[conn'[i]] \in {sess[conn[i]], NULL}
          /\ ~ Talks(conn[i]) => ~ (conn'[i] \notin more' /\ sess'[conn'[i]] \in alive')]_vars

\* Connection -1 takes a slot that nothing is open in: it closes no session
\* and takes no slot out of use, whatever becomes of the new connection.
AutoOpenDisturbsNothing ==
    [][op' = "openauto" =>
          /\ isopen \subseteq isopen'
          /\ conn' # conn => alive \subseteq alive']_vars

\* The code that status has for its slot is so, as far as mym's table and the
\* session go: with 0 the slot is open, its session is there and no results are
\* in the way of the next command; with another code there is no such session,
\* and the slot is not open.
CodeIsSo ==
    /\ answer.val = 0 <=> cid \in isopen
    /\ answer.val = 0 <=> Talks(conn[cid])

\* Whenever status returns a code it is so at that moment, also when the server
\* ended the session between two calls, or between the ping of this one and
\* mysql_stat (mym.cpp:677-697).
StatusCodeTruthful ==
    [][op' = "statusval" /\ answer'.kind = "value" /\ callVars' # callVars =>
          CodeIsSo']_vars

-----------------------------------------------------------------------------
(* What the table is for: ConnPool.  The session of an open that has         *)
(* connected and waits for mysql_stat is the one that has no slot yet.       *)

Pool == INSTANCE ConnPool WITH
    up   <- isopen,
    link <- [i \in Slot |-> IF i \in isopen THEN sess[conn[i]] ELSE NULL],
    pend <- IF pc = "stat" THEN sess[conn[cid]] ELSE NULL,
    live <- alive

\* The table implements the pool, provided that every result is read and the
\* MEX file stays loaded.
ImplementsPool == Pool!Spec

-----------------------------------------------------------------------------
(* What the documentation says and the program does not do. *)

\* "Use mym('closeall') to closes all open connections." (src/mym.m:67)
\* After a command whose further results were not read, the next ping fails,
\* the slot is taken for lost, and its session is out of closeall's reach.
CloseAllClosesAll == op = "closeall" => alive = {}

\* "mym status ... shows status of all open connections" (src/mym.m:39): the
\* report never ends the process that asked for it.
ReportSurvives == op # "crash"

-----------------------------------------------------------------------------
(* Liveness *)

\* Every call returns, whatever the servers do meanwhile.
CallReturns == pc # "idle" ~> pc = "idle"

\* A connection that has broken down before the report reaches it is marked
\* by the report, even when others broke down before it.
ReportFindsBroken ==
    \A i \in Slot : (i \in todo /\ ~ Talks(conn[i])) ~> i \notin isopen
=============================================================================
