--------------------------- MODULE MexFunctionProofs ---------------------------
(***************************************************************************)
(* Proofs about the connection table, for every length of it and any sets  *)
(* of structures and sessions, and then about mexFunction.                 *)
(*                                                                         *)
(* The first part is about ConnTable alone: the inductive invariant, what  *)
(* no step of the table does, what the table owes to the servers, and that *)
(* it implements ConnPool.  The second part is about MexFunction: whatever *)
(* arguments a call has, it does to the table what ConnTable says, so that *)
(* what was proved of the table holds for mexFunction.                     *)
(***************************************************************************)
EXTENDS MexFunction, NatRecursion

-----------------------------------------------------------------------------
(* The connection table *)

\* The slot of the first call is one of the table.
LEMMA SlotZero == 0 \in Slot
  BY TableAssumption DEF Slot

LEMMA SlotNat == Slot \subseteq Nat
  BY TableAssumption DEF Slot

LEMMA TypeInit == Init => TypeOK
  BY SlotZero DEF Init, ClientInit, TypeOK, ClientTypeOK, Ops, Points, Kinds

\* A command that gets no answer, or no command at all, keeps the types of
\* the library's state.
LEMMA UnansweredType ==
    ASSUME NEW h, ClientTypeOK, Unanswered(h)
    PROVE  ClientTypeOK'
  BY DEF ClientTypeOK, Unanswered

LEMMA NoCommandType ==
    ASSUME ClientTypeOK, UNCHANGED clientVars
    PROVE  ClientTypeOK'
  BY DEF ClientTypeOK, clientVars

LEMMA PingType ==
    ASSUME NEW i \in Slot, TypeOK, PingOK(i) \/ PingFails(i)
    PROVE  ClientTypeOK' /\ conn' = conn /\ isopen' \subseteq Slot
  BY UnansweredType, NoCommandType DEF TypeOK, PingOK, PingFails, tableVars

\* Every step keeps the types: the table only ever holds structures the
\* library returned, and the call's own variables stay in their ranges.
LEMMA TypeStep == ConnInv /\ [Next]_vars => TypeOK'
<1> SUFFICES ASSUME TypeOK, HandlesAllocated, CallState, [Next]_vars PROVE TypeOK'
  BY DEF ConnInv
<1> USE DEF TypeOK, Ops, Points, Kinds
<1>1. ASSUME NEW i \in Slot, OpenAt(i), op' \in {"open", "openauto"}, cid' = i
      PROVE  TypeOK'
  <2>1. CASE DialNew(i)
    BY <1>1, <2>1 DEF ClientTypeOK, OpenAt, DialNew, Held, Renew, CloseHandles, Wait, Error
  <2>2. CASE DialAgain(i)
    BY <1>1, <2>2 DEF ClientTypeOK, OpenAt, DialAgain, InitAgain, tableVars, Wait, Error
  <2> QED BY <1>1, <2>1, <2>2 DEF OpenAt
<1>2. ASSUME NEW i \in Slot, Open(i) PROVE TypeOK'
  BY <1>1, <1>2 DEF Open, Enter
<1>3. CASE OpenAuto
  BY <1>1, <1>3 DEF OpenAuto, Enter
<1>4. CASE Connect
  BY <1>4, NoCommandType
     DEF Connect, Connected, ClientTypeOK, tableVars, Stay, Wait, Error
<1>5. CASE Stat
  <2>1. ClientTypeOK'
    BY <1>5, UnansweredType, NoCommandType DEF Stat
  <2> QED
    <3>1. conn' = conn /\ isopen' \subseteq isopen \cup {cid} /\ todo' = todo
      BY <1>5 DEF Stat
    <3>2. /\ op' = op /\ cid' = cid /\ pc' = "idle"
          /\ answer' \in [kind : Kinds, val : Nat]
      BY <1>5, SlotNat DEF Stat, Stay, Value, Done, Error
    <3> QED BY <2>1, <3>1, <3>2
<1>6. ASSUME NEW i \in Slot, Close(i) PROVE TypeOK'
  BY <1>6 DEF ClientTypeOK, Close, Shut, CloseHandles, Enter, Done
<1>7. CASE CloseAll
  BY <1>7, SlotZero DEF ClientTypeOK, CloseAll, Shut, CloseHandles, Enter, Done
<1>8. CASE Reject
  BY <1>8 DEF ClientTypeOK, Reject, clientVars, tableVars, Enter, Error, Done, Value
<1>9. ASSUME NEW i \in Slot, Use(i) PROVE TypeOK'
  BY <1>9, PingType DEF Use, Enter, Wait, Error
<1>10. CASE SelectDb
  BY <1>10, UnansweredType, NoCommandType
     DEF SelectDb, tableVars, Stay, Value, Done, Error
<1>11. ASSUME NEW i \in Slot, StatusId(i) PROVE TypeOK'
  BY <1>11, PingType DEF StatusId, Enter, Done, Error
<1>12. CASE StatusAll
  <2>1. ClientTypeOK' /\ conn' = conn /\ isopen' \subseteq Slot
    BY <1>12, SlotZero, PingType, NoCommandType DEF StatusAll, tableVars
  <2>2. /\ op' = "statusall" /\ cid' = 0 /\ pc' \in {"idle", "report"}
        /\ answer' \in [kind : Kinds, val : Nat]
    BY <1>12 DEF StatusAll, Enter, Wait, Done, Error
  <2>3. todo' \in {todo, isopen}
    BY <1>12 DEF StatusAll
  <2> QED
    BY <2>1, <2>2, <2>3, SlotZero
<1>13. ASSUME NEW j \in Slot, ReportOne(j) PROVE TypeOK'
  BY <1>13, PingType DEF ReportOne, Stay, Done, Wait
<1>14. ASSUME NEW o \in {"exit", "crash"}, ProcessEnds(o) PROVE TypeOK'
  BY <1>14, SlotZero DEF ClientTypeOK, ProcessEnds, ProcessEnd, Enter, Done
<1>15. ASSUME NEW i \in Slot, StatusVal(i) PROVE TypeOK'
  BY <1>15, PingType DEF StatusVal, Enter, Wait, Value
<1>16. CASE StatVal
  <2>1. ClientTypeOK'
    BY <1>16, UnansweredType, NoCommandType DEF StatVal
  <2> QED
    BY <1>16, <2>1 DEF StatVal, Stay, Value
<1>17. ASSUME NEW i \in Slot, Cmd(i) PROVE TypeOK'
  BY <1>17, PingType DEF Cmd, Enter, Wait, Error
<1>18. CASE Query
  BY <1>18, UnansweredType, NoCommandType
     DEF Query, tableVars, Stay, Wait, Error
<1>19. CASE Store
  <2>1. LeaveResults => ClientTypeOK'
    <3>1. conn[cid] \in mem
      BY <1>19 DEF Store, CallState, HandlesAllocated
    <3> QED BY <3>1 DEF LeaveResults, ClientTypeOK
  <2>2. ClientTypeOK'
    BY <1>19, <2>1, UnansweredType DEF Store
  <2> QED
    <3>1. conn' = conn /\ isopen' = isopen /\ todo' = todo
      BY <1>19 DEF Store, tableVars
    <3>2. /\ op' = op /\ cid' = cid /\ pc' = "idle"
          /\ answer' \in [kind : Kinds, val : Nat]
      BY <1>19 DEF Store, Stay, Done, Value, Error
    <3> QED BY <2>2, <3>1, <3>2
<1>20. CASE ClearMex
  BY <1>20, SlotZero DEF ClientTypeOK, ClearMex, clientVars, Enter, Done
<1>21. CASE Drop
  BY <1>21 DEF ClientTypeOK, Drop, ServerDrop, tableVars, callVars
<1>22. CASE UNCHANGED vars
  BY <1>22 DEF ClientTypeOK, vars, clientVars, tableVars, callVars
<1> QED
  BY <1>2, <1>3, <1>4, <1>5, <1>6, <1>7, <1>8, <1>9, <1>10, <1>11, <1>12,
     <1>13, <1>14, <1>15, <1>16, <1>17, <1>18, <1>19, <1>20, <1>21, <1>22
     DEF Next, CallOn, CallStep, ReportOneCrashes, SelectDbCrashes

-----------------------------------------------------------------------------
(* The parts of the invariant that are about the table. *)

TableInv ==
    /\ HandlesAllocated
    /\ HandlesDistinct
    /\ SessionsDistinct
    /\ FreedIsClean

\* A step that does no more than ask a server, with or without an answer,
\* and takes no slot into use that has no structure.
LEMMA AskTable ==
    ASSUME TypeOK, TableInv,
           UNCHANGED clientVars \/ \E h \in Handle \cup {NULL} : Unanswered(h),
           conn' = conn,
           \A i \in isopen' : conn[i] \in mem
    PROVE  TableInv'
<1>1. mem' = mem /\ more' = more /\ freeMe' = freeMe
  BY DEF clientVars, Unanswered
<1>2. \A h \in Handle : sess'[h] \in {sess[h], NULL}
  BY DEF clientVars, Unanswered, TypeOK, ClientTypeOK
<1>3. SessionsDistinct'
  BY <1>2 DEF TableInv, SessionsDistinct
<1>4. FreedIsClean'
  BY <1>1, <1>2 DEF TableInv, FreedIsClean
<1> QED
  BY <1>1, <1>3, <1>4 DEF TableInv, HandlesAllocated, HandlesDistinct

LEMMA ShutTable ==
    ASSUME TypeOK, TableInv, NEW is \in SUBSET isopen, Shut(is)
    PROVE  TableInv'
<1> DEFINE hs == {conn[i] : i \in is}
<1>1. /\ mem' = mem \ (hs \cap freeMe)
      /\ more' = more \ hs
      /\ freeMe' = freeMe \ hs
      /\ sess' = [h \in Handle |-> IF h \in hs THEN NULL ELSE sess[h]]
  BY DEF Shut, CloseHandles
<1>2. /\ conn' = [i \in Slot |-> IF i \in is THEN NULL ELSE conn[i]]
      /\ isopen' = isopen \ is
  BY DEF Shut
<1>3. \A j \in Slot \ is : conn[j] # NULL => conn[j] \notin hs
  BY DEF TableInv, HandlesDistinct, TypeOK
<1> HIDE DEF hs
<1>4. HandlesAllocated'
  BY <1>1, <1>2, <1>3, NullAssumption
     DEF TableInv, HandlesAllocated, TypeOK, ClientTypeOK
<1>5. HandlesDistinct'
  BY <1>2 DEF TableInv, HandlesDistinct, TypeOK
<1>6. SessionsDistinct'
  BY <1>1 DEF TableInv, SessionsDistinct, TypeOK
<1>7. FreedIsClean'
  BY <1>1 DEF TableInv, FreedIsClean, TypeOK
<1> QED BY <1>4, <1>5, <1>6, <1>7 DEF TableInv

LEMMA DialNewTable ==
    ASSUME TypeOK, TableInv, NEW i \in Slot, DialNew(i)
    PROVE  TableInv'
<1>1. CASE CloseHandles(Held(i)) /\ conn' = [conn EXCEPT ![i] = NULL]
  <2>1. Shut(isopen \cap {i})
    <3>1. {conn[j] : j \in isopen \cap {i}} = Held(i)
      BY DEF Held
    <3>2. [j \in Slot |-> IF j \in isopen \cap {i} THEN NULL ELSE conn[j]] = conn'
      BY <1>1 DEF DialNew, TypeOK
    <3> QED BY <1>1, <3>1, <3>2 DEF Shut, DialNew
  <2> QED BY <2>1, ShutTable
<1>2. ASSUME NEW g \in Handle, Renew(Held(i), g), conn' = [conn EXCEPT ![i] = g]
      PROVE  TableInv'
  <2> DEFINE hs == Held(i)
  <2>1. /\ mem' = (mem \ (hs \cap freeMe)) \cup {g}
        /\ g \notin mem \ (hs \cap freeMe)
        /\ more' = more \ hs
        /\ freeMe' = (freeMe \ hs) \cup {g}
        /\ sess' = [h \in Handle |-> IF h \in hs THEN NULL ELSE sess[h]]
    BY <1>2 DEF Renew
  <2>2. \A j \in Slot \ {i} : conn[j] # NULL => conn[j] \notin hs
    BY DEF TableInv, HandlesDistinct, TypeOK, Held
  <2>3. \A j \in Slot \ {i} : conn[j] # NULL => conn[j] \in mem'
    BY <2>1, <2>2 DEF TableInv, HandlesAllocated
  <2>4. \A j \in Slot \ {i} : conn[j] # g
    BY <2>1, <2>2, NullAssumption DEF TableInv, HandlesAllocated
  <2>5. conn'[i] = g /\ \A j \in Slot \ {i} : conn'[j] = conn[j]
    BY <1>2 DEF TypeOK
  <2>6. isopen' = isopen \ {i}
    BY DEF DialNew
  <2>7. HandlesAllocated'
    <3>1. \A j \in Slot : conn'[j] \in mem' \cup {NULL}
      BY <2>1, <2>3, <2>5
    <3>2. \A j \in isopen' : conn[j] # NULL
      BY <2>6, NullAssumption DEF TableInv, HandlesAllocated, TypeOK, ClientTypeOK
    <3> QED BY <2>3, <2>5, <2>6, <3>1, <3>2 DEF HandlesAllocated, TypeOK
  <2>8. HandlesDistinct'
    BY <2>4, <2>5 DEF TableInv, HandlesDistinct
  <2> HIDE DEF hs
  <2>9. SessionsDistinct'
    BY <2>1 DEF TableInv, SessionsDistinct, TypeOK
  <2>10. FreedIsClean'
    BY <2>1 DEF TableInv, FreedIsClean, TypeOK
  <2> QED BY <2>7, <2>8, <2>9, <2>10 DEF TableInv
<1> QED BY <1>1, <1>2 DEF DialNew

LEMMA DialAgainTable ==
    ASSUME TypeOK, TableInv, NEW i \in Slot, DialAgain(i)
    PROVE  TableInv'
  BY DEF TypeOK, ClientTypeOK, TableInv, HandlesAllocated, HandlesDistinct,
         SessionsDistinct, FreedIsClean, DialAgain, InitAgain, tableVars

LEMMA ConnectTable ==
    ASSUME TypeOK, TableInv, CallState, Connect
    PROVE  TableInv'
<1>1. conn' = conn /\ isopen' = isopen
  BY DEF Connect, tableVars
<1>2. CASE UNCHANGED clientVars
  BY <1>1, <1>2, AskTable DEF TableInv, HandlesAllocated
<1>3. ASSUME NEW s \in Session, Connected(conn[cid], s) PROVE TableInv'
  <2>1. /\ mem' = mem /\ more' = more /\ freeMe' = freeMe
        /\ sess' = [sess EXCEPT ![conn[cid]] = s]
        /\ \A g \in Handle : sess[g] # s
    BY <1>3 DEF Connected
  <2>2. conn[cid] \in mem
    BY DEF Connect, CallState
  <2>3. SessionsDistinct'
    BY <2>1 DEF TableInv, SessionsDistinct, TypeOK, ClientTypeOK
  <2>4. FreedIsClean'
    BY <2>1, <2>2 DEF TableInv, FreedIsClean, TypeOK, ClientTypeOK
  <2> QED
    BY <1>1, <2>1, <2>3, <2>4 DEF TableInv, HandlesAllocated, HandlesDistinct
<1> QED BY <1>2, <1>3 DEF Connect

\* Results are only ever left on a structure that is allocated.
LEMMA StoreTable ==
    ASSUME TypeOK, TableInv, CallState, Store
    PROVE  TableInv'
<1>1. conn' = conn /\ isopen' = isopen /\ conn[cid] \in mem
  BY DEF Store, tableVars, CallState, TableInv, HandlesAllocated
<1>2. CASE LeaveResults
  BY <1>1, <1>2 DEF LeaveResults, TableInv, HandlesAllocated, HandlesDistinct,
                    SessionsDistinct, FreedIsClean
<1>3. CASE Unanswered(conn[cid])
  BY <1>1, <1>3, AskTable DEF TableInv, HandlesAllocated, TypeOK
<1> QED BY <1>2, <1>3 DEF Store

\* When the table is emptied the library's structures do not matter to it.
LEMMA EmptyTable ==
    ASSUME TypeOK, TableInv, ProcessEnd \/ UNCHANGED clientVars,
           conn' = [i \in Slot |-> NULL], isopen' = {}
    PROVE  TableInv'
  BY DEF ProcessEnd, clientVars, TypeOK, ClientTypeOK, TableInv,
         HandlesAllocated, HandlesDistinct, SessionsDistinct, FreedIsClean

LEMMA TableInit == Init => TableInv
  BY DEF Init, ClientInit, TableInv, HandlesAllocated, HandlesDistinct,
         SessionsDistinct, FreedIsClean

\* Every step keeps the table's structures allocated and distinct.
LEMMA TableStep == TypeOK /\ TableInv /\ CallState /\ [Next]_vars => TableInv'
<1> SUFFICES ASSUME TypeOK, TableInv, CallState, [Next]_vars PROVE TableInv'
  OBVIOUS
<1>1. \A i \in isopen : conn[i] \in mem
  BY DEF TableInv, HandlesAllocated
<1>2. ASSUME NEW i \in Slot, OpenAt(i) PROVE TableInv'
  BY <1>2, DialNewTable, DialAgainTable DEF OpenAt
<1>3. ASSUME NEW i \in Slot, PingOK(i) \/ PingFails(i) PROVE TableInv'
  <2>1. conn' = conn /\ isopen' \subseteq isopen /\ conn[i] \in Handle \cup {NULL}
    BY <1>3 DEF PingOK, PingFails, tableVars, TypeOK
  <2>2. UNCHANGED clientVars \/ Unanswered(conn[i])
    BY <1>3 DEF PingOK, PingFails
  <2> QED BY <1>1, <2>1, <2>2, AskTable
<1>4. ASSUME UNCHANGED tableVars,
             UNCHANGED clientVars \/ Unanswered(conn[cid])
      PROVE  TableInv'
  BY <1>1, <1>4, AskTable DEF tableVars, TypeOK
<1>5. ASSUME NEW i \in Slot, CallOn(i) PROVE TableInv'
  <2>1. CASE Close(i)
    BY <2>1, ShutTable DEF Close
  <2>2. CASE Open(i)
    BY <2>2, <1>2 DEF Open
  <2>3. CASE Use(i) \/ StatusId(i) \/ StatusVal(i) \/ Cmd(i)
    BY <2>3, <1>3 DEF Use, StatusId, StatusVal, Cmd
  <2> QED BY <1>5, <2>1, <2>2, <2>3 DEF CallOn
<1>6. CASE OpenAuto
  BY <1>2, <1>6 DEF OpenAuto
<1>7. CASE CloseAll
  BY <1>7, ShutTable DEF CloseAll
<1>8. CASE StatusAll
  BY <1>8, <1>3, <1>4, SlotZero DEF StatusAll
<1>9. CASE Reject
  BY <1>9, <1>4 DEF Reject
<1>10. CASE CallStep
  <2>1. CASE Stat
    <3>1. conn' = conn /\ isopen' \subseteq isopen \cup {cid} /\ conn[cid] \in mem
      BY <2>1 DEF Stat, CallState
    <3>2. UNCHANGED clientVars \/ Unanswered(conn[cid])
      BY <2>1 DEF Stat
    <3> QED BY <1>1, <3>1, <3>2, AskTable DEF TypeOK
  <2>2. CASE StatVal
    <3>1. conn' = conn /\ isopen' \subseteq isopen
      BY <2>2 DEF StatVal
    <3>2. UNCHANGED clientVars \/ Unanswered(conn[cid])
      BY <2>2 DEF StatVal
    <3> QED BY <1>1, <3>1, <3>2, AskTable DEF TypeOK
  <2>3. CASE SelectDb
    BY <2>3, <1>4 DEF SelectDb
  <2>4. CASE Query
    BY <2>4, <1>4 DEF Query
  <2>5. ASSUME NEW j \in Slot, ReportOne(j) PROVE TableInv'
    BY <2>5, <1>3 DEF ReportOne
  <2>6. ASSUME NEW j \in Slot, ReportOneCrashes(j) PROVE TableInv'
    BY <2>6, EmptyTable DEF ReportOneCrashes, ProcessEnds
  <2>7. CASE SelectDbCrashes
    BY <2>7, EmptyTable DEF SelectDbCrashes, ProcessEnds
  <2> QED
    BY <1>10, <2>1, <2>2, <2>3, <2>4, <2>5, <2>6, <2>7, ConnectTable, StoreTable
       DEF CallStep
<1>11. CASE ClearMex \/ ProcessEnds("exit")
  BY <1>11, EmptyTable DEF ClearMex, ProcessEnds
<1>12. CASE Drop
  BY <1>12 DEF Drop, ServerDrop, tableVars, TableInv, HandlesAllocated,
               HandlesDistinct, SessionsDistinct, FreedIsClean
<1>13. CASE UNCHANGED vars
  BY <1>13, <1>4 DEF vars
<1> QED
  BY <1>5, <1>6, <1>7, <1>8, <1>9, <1>10, <1>11, <1>12, <1>13 DEF Next

-----------------------------------------------------------------------------
(* The part of the invariant that is about the current call. *)

LEMMA CallInit == Init => CallState
  BY DEF Init, CallState

\* A call that has returned relies on nothing.
LEMMA IdleCall ==
    ASSUME pc' = "idle", todo' = {}
    PROVE  CallState'
  BY DEF CallState

\* A step that asks a server and waits for the next answer about a slot that
\* is open.
LEMMA WaitCall ==
    ASSUME pc' \in {"select", "statval", "query", "store"},
           todo' = {},
           cid' \in isopen',
           conn'[cid'] \notin more'
    PROVE  CallState'
  BY DEF CallState

\* The steps of open hand over a structure without unread results.
LEMMA DialCall ==
    ASSUME TypeOK, TableInv, CallState, NEW i \in Slot, OpenAt(i), cid' = i
    PROVE  CallState'
<1>1. pc' \in {"idle", "connect"} /\ todo' = {}
  BY DEF OpenAt, DialNew, DialAgain, Wait, Error, CallState
<1>2. CASE pc' = "idle"
  BY <1>1, <1>2, IdleCall
<1>3. CASE pc' = "connect"
  <2>1. i \notin isopen'
    BY DEF OpenAt, DialNew, DialAgain, tableVars
  <2>2. conn'[i] \in mem' \ more' /\ sess'[conn'[i]] = NULL
    <3>1. ASSUME NEW g \in Handle, Renew(Held(i), g),
                 conn' = [conn EXCEPT ![i] = g]
          PROVE  conn'[i] \in mem' \ more' /\ sess'[conn'[i]] = NULL
      <4>1. conn'[i] = g
        BY <3>1 DEF TypeOK
      <4>2. g \notin mem \ Held(i)
        BY <3>1 DEF Renew
      <4>3. g \in mem' \ more'
        BY <3>1, <4>2 DEF Renew, TableInv, FreedIsClean
      <4>4. sess'[g] = NULL
        BY <3>1, <4>2 DEF Renew, TableInv, FreedIsClean
      <4> QED BY <4>1, <4>3, <4>4
    <3>2. CASE DialAgain(i)
      BY <3>2 DEF DialAgain, InitAgain, tableVars, TypeOK, ClientTypeOK,
                  TableInv, HandlesAllocated
    <3> QED BY <1>3, <3>1, <3>2 DEF OpenAt, DialNew, Error
  <2> QED BY <1>1, <1>3, <2>1, <2>2 DEF CallState
<1> QED BY <1>1, <1>2, <1>3

\* One round of the report over the table: the slots it has not reached are
\* still open, and the last one ends the call.
LEMMA ReportCall ==
    ASSUME CallState, NEW j \in Slot, ReportOne(j)
    PROVE  CallState'
<1>1. todo' = todo \ {j} /\ todo \subseteq isopen /\ isopen \ {j} \subseteq isopen'
  BY DEF ReportOne, CallState, PingOK, PingFails, tableVars
<1>2. CASE todo = {j}
  BY <1>1, <1>2, IdleCall DEF ReportOne, Done
<1>3. CASE todo # {j}
  <2>1. pc' = "report" /\ j \in todo
    BY <1>3 DEF ReportOne, NextInReport, Wait
  <2> QED BY <1>1, <1>3, <2>1 DEF CallState
<1> QED BY <1>2, <1>3

\* Every step leaves the call where its next step may rely on the table.
LEMMA CallStateStep ==
    TypeOK /\ TableInv /\ CallState /\ [Next]_vars => CallState'
<1> SUFFICES ASSUME TypeOK, TableInv, CallState, [Next]_vars PROVE CallState'
  OBVIOUS
<1>1. ASSUME NEW i \in Slot, CallOn(i) PROVE CallState'
  <2>1. CASE Open(i)
    BY <2>1, DialCall DEF Open, Enter
  <2>2. CASE Close(i)
    BY <2>2, IdleCall DEF Close, Done, CallState
  <2>3. CASE Use(i) \/ StatusId(i) \/ StatusVal(i) \/ Cmd(i)
    <3>1. cid' = i /\ todo' = {}
      BY <2>3 DEF Use, StatusId, StatusVal, Cmd, Enter, CallState
    <3>2. CASE PingOK(i) /\ pc' # "idle"
      <4>1. pc' \in {"select", "statval", "query"}
        BY <2>3, <3>2 DEF Use, StatusId, StatusVal, Cmd, Wait, Done, Error, Value
      <4>2. i \in isopen' /\ conn'[i] \notin more'
        BY <3>2 DEF PingOK, Talks, clientVars, tableVars
      <4> QED BY <3>1, <4>1, <4>2, WaitCall
    <3>3. CASE pc' = "idle"
      BY <3>1, <3>3, IdleCall
    <3> QED
      BY <2>3, <3>2, <3>3
         DEF Use, StatusId, StatusVal, Cmd, Wait, Done, Error, Value
  <2> QED BY <1>1, <2>1, <2>2, <2>3 DEF CallOn
<1>2. CASE OpenAuto
  BY <1>2, DialCall DEF OpenAuto, Enter
<1>3. CASE CloseAll \/ ClearMex
  BY <1>3, IdleCall DEF CloseAll, ClearMex, Done, CallState
<1>4. CASE Reject
  BY <1>4, IdleCall DEF Reject, Done, Error, Value, CallState
<1>5. CASE StatusAll
  <2>1. CASE pc' = "idle" /\ todo' = todo
    BY <1>5, <2>1, IdleCall DEF StatusAll, CallState
  <2>2. CASE pc' = "report" /\ todo' = isopen /\ isopen' = isopen /\ isopen # {}
    BY <2>2 DEF CallState
  <2> QED
    BY <1>5, <2>1, <2>2 DEF StatusAll, Wait, Done, Error, tableVars
<1>6. CASE Connect
  <2>1. /\ pc = "connect" /\ cid' = cid /\ todo' = {}
        /\ conn' = conn /\ isopen' = isopen
    BY <1>6 DEF Connect, Stay, tableVars, CallState
  <2>2. mem' = mem /\ more' = more
    BY <1>6 DEF Connect, Connected, clientVars
  <2>3. pc' \in {"stat", "idle"}
    BY <1>6 DEF Connect, Wait, Error
  <2> QED BY <2>1, <2>2, <2>3 DEF CallState
<1>7. CASE Stat \/ SelectDb \/ StatVal \/ Store
  <2>1. pc' = "idle"
    BY <1>7 DEF Stat, SelectDb, StatVal, Store, Error, Value, Done
  <2>2. todo' = {}
    BY <1>7 DEF Stat, SelectDb, StatVal, Store, CallState
  <2> QED BY <2>1, <2>2, IdleCall
<1>8. CASE Query
  <2>1. cid' = cid /\ todo' = {} /\ pc' \in {"idle", "store"}
    BY <1>8 DEF Query, Stay, Wait, Error, CallState
  <2>2. cid \in isopen' /\ conn'[cid] \notin more'
    BY <1>8 DEF Query, CallState, tableVars, clientVars, Unanswered
  <2> QED BY <2>1, <2>2, IdleCall, WaitCall
<1>9. ASSUME NEW j \in Slot, ReportOne(j) PROVE CallState'
  BY <1>9, ReportCall
<1>10. ASSUME NEW o, ProcessEnds(o) PROVE CallState'
  BY <1>10, IdleCall DEF ProcessEnds, Done
<1>11. CASE Drop
  BY <1>11 DEF Drop, ServerDrop, tableVars, callVars, CallState
<1>12. CASE UNCHANGED vars
  BY <1>12 DEF vars, clientVars, tableVars, callVars, CallState
<1> QED
  BY <1>1, <1>2, <1>3, <1>4, <1>5, <1>6, <1>7, <1>8, <1>9, <1>10, <1>11, <1>12
     DEF Next, CallStep, ReportOneCrashes, SelectDbCrashes

-----------------------------------------------------------------------------
(* The theorems. *)

\* The invariant holds at the start and every step keeps it.
THEOREM Inductive == Spec => []ConnInv
<1>1. ConnInv <=> TypeOK /\ TableInv /\ CallState
  BY DEF ConnInv, TableInv
<1>2. Init => ConnInv
  BY <1>1, TypeInit, TableInit, CallInit
<1>3. ConnInv /\ [Next]_vars => ConnInv'
  <2>1. ConnInv /\ [Next]_vars => TypeOK' /\ TableInv' /\ CallState'
    BY <1>1, TypeStep, TableStep, CallStateStep
  <2>2. TypeOK' /\ TableInv' /\ CallState' => ConnInv'
    BY DEF ConnInv, TableInv
  <2> QED BY <2>1, <2>2
<1> QED BY <1>2, <1>3, PTL DEF Spec

\* The table, the calls and the library's state keep their types.
THEOREM TypeCorrect == Spec => []TypeOK
<1>1. ConnInv => TypeOK
  BY DEF ConnInv
<1> QED BY <1>1, Inductive, PTL

\* mym never hands the client library a structure that was freed, and no two
\* slots share one (mym.cpp:485-580).
THEOREM NeverUseAfterFree == Spec => []NoUseAfterFree
<1>1. ConnInv => NoUseAfterFree
  BY DEF ConnInv, NoUseAfterFree
<1> QED BY <1>1, Inductive, PTL

-----------------------------------------------------------------------------
(* What no step does. *)

\* The table and the structures in it, as the invariant has them.
LEMMA TableFacts ==
    ASSUME ConnInv
    PROVE  /\ \A i \in isopen : i \in Slot /\ conn[i] \in mem /\ conn[i] \in Handle
           /\ \A i \in Slot : conn[i] \in Handle \cup {NULL}
           /\ \A i, j \in Slot : conn[i] = conn[j] /\ conn[i] # NULL => i = j
           /\ NULL \notin Handle /\ NULL \notin alive /\ cid \in Slot
  BY NullAssumption
     DEF ConnInv, TypeOK, ClientTypeOK, HandlesAllocated, HandlesDistinct

\* What a call is while it waits for an answer.
CallOp ==
    /\ pc \in {"connect", "stat"} => op \in {"open", "openauto"}
    /\ pc = "select" => op = "use"
    /\ pc = "report" => op = "statusall"
    /\ pc = "statval" => op = "statusval"
    /\ pc \in {"query", "store"} => op = "cmd"

\* A call that is under way is of the command that its stage belongs to.
LEMMA CallOpStep == CallOp /\ [Next]_vars => CallOp'
<1> SUFFICES ASSUME CallOp, [Next]_vars PROVE CallOp'
  OBVIOUS
<1> USE DEF CallOp, Enter, Stay, Wait, Done, Value, Error
<1>1. ASSUME NEW i \in Slot, OpenAt(i) PROVE pc' \in {"idle", "connect"}
  BY <1>1 DEF OpenAt, DialNew, DialAgain
<1>2. ASSUME NEW i \in Slot, CallOn(i) PROVE CallOp'
  BY <1>1, <1>2 DEF CallOn, Open, Close, Use, StatusId, StatusVal, Cmd
<1>3. CASE OpenAuto
  BY <1>1, <1>3 DEF OpenAuto
<1>4. CASE CloseAll \/ StatusAll \/ Reject \/ ClearMex
  BY <1>4 DEF CloseAll, StatusAll, Reject, ClearMex
<1>5. CASE Connect \/ Stat \/ SelectDb \/ StatVal \/ Query \/ Store
  BY <1>5 DEF Connect, Stat, SelectDb, StatVal, Query, Store
<1>6. ASSUME NEW j \in Slot, ReportOne(j) PROVE CallOp'
  BY <1>6 DEF ReportOne
<1>7. ASSUME NEW o, ProcessEnds(o) PROVE CallOp'
  BY <1>7 DEF ProcessEnds
<1>8. CASE Drop \/ UNCHANGED vars
  BY <1>8 DEF Drop, vars, callVars
<1> QED
  BY <1>2, <1>3, <1>4, <1>5, <1>6, <1>7, <1>8
     DEF Next, CallStep, ReportOneCrashes, SelectDbCrashes

\* Both invariants together, for the theorems below.
LEMMA CallOpAlways == Spec => [](ConnInv /\ CallOp)
<1>1. Init => CallOp
  BY DEF Init, CallOp
<1> QED BY <1>1, CallOpStep, Inductive, PTL DEF Spec

-----------------------------------------------------------------------------
\* Every step, by what it does to the table.
Opens(i) == /\ i \in Slot
            /\ OpenAt(i)
            /\ cid' = i
            /\ op' = "open" \/ (op' = "openauto" /\ i \notin isopen)
Pings(i) == /\ PingOK(i) \/ PingFails(i)
            /\ i \in Slot
            /\ pc \in {"idle", "report"}
            /\ \/ cid' = i /\ op' \in {"use", "statusid", "statusval", "cmd"}
               \/ op' = "statusall"
Closes == /\ pc = "idle"
          /\ \/ op' = "close" /\ cid' \in Slot /\ Shut(isopen \cap {cid'})
             \/ op' = "closeall" /\ Shut(isopen)
Asks == /\ UNCHANGED tableVars
        /\ UNCHANGED clientVars \/ Unanswered(conn[cid])
        /\ pc \in {"select", "query"} /\ op' = op /\ cid' = cid
Rests == /\ UNCHANGED <<clientVars, tableVars>>
         /\ (pc = "idle" /\ pc' # "stat") \/ UNCHANGED <<pc, cid>>
Ends == /\ op' \in {"clear", "exit", "crash"}
        /\ pc' = "idle" /\ isopen' = {} /\ conn' = [i \in Slot |-> NULL]
        /\ ProcessEnd \/ (MexUnload /\ UNCHANGED clientVars)

\* What a step may do to the table, by the command that takes it.
LEMMA StepKinds ==
    ASSUME ConnInv, CallOp, [Next]_vars
    PROVE  \/ \E i \in Slot : Opens(i) \/ Pings(i)
           \/ Closes \/ Asks \/ Rests \/ Ends
           \/ Connect \/ Stat \/ StatVal \/ Store \/ Drop
<1> USE DEF Enter
<1>1. ASSUME NEW i \in Slot, CallOn(i)
      PROVE  Opens(i) \/ Pings(i) \/ Closes
  BY <1>1 DEF CallOn, Open, Close, Use, StatusId, StatusVal, Cmd, Opens, Pings, Closes
<1>2. CASE OpenAuto
  BY <1>2 DEF OpenAuto, FirstFree, Opens
<1>3. CASE CloseAll
  BY <1>3 DEF CloseAll, Closes
<1>4. CASE StatusAll
  BY <1>4, SlotZero DEF StatusAll, Pings, Rests, Wait
<1>5. CASE Reject
  BY <1>5 DEF Reject, Rests, Done, Error, Value
<1>6. CASE SelectDb \/ Query
  BY <1>6 DEF SelectDb, Query, Asks, Stay
<1>7. ASSUME NEW j \in Slot, ReportOne(j) PROVE Pings(j)
  BY <1>7 DEF ReportOne, CallOp, Stay, Pings
<1>8. ASSUME NEW o \in {"exit", "crash"}, ProcessEnds(o) PROVE Ends
  BY <1>8 DEF ProcessEnds, Ends, Done
<1>9. CASE ClearMex
  BY <1>9 DEF ClearMex, Ends, Done
<1>10. CASE UNCHANGED vars
  BY <1>10 DEF vars, callVars, Rests
<1> QED
  BY <1>1, <1>2, <1>3, <1>4, <1>5, <1>6, <1>7, <1>8, <1>9, <1>10
     DEF Next, CallStep, ReportOneCrashes, SelectDbCrashes

-----------------------------------------------------------------------------
\* The slots that a step takes out of use.
LEMMA HealthyStep ==
    ASSUME ConnInv, CallOp, [Next]_vars, NEW i \in isopen \ isopen'
    PROVE  \/ ~ Talks(conn[i])
           \/ op' \in {"closeall", "clear", "exit", "crash"}
           \/ op' \in {"open", "close"} /\ cid' = i
<1>1. ASSUME NEW k \in Slot, Opens(k)
      PROVE  k = i /\ op' = "open" /\ cid' = i
  <2>1. isopen' = isopen \ {k}
    BY <1>1 DEF Opens, OpenAt, DialNew, DialAgain, tableVars
  <2> QED BY <1>1, <2>1 DEF Opens
<1>2. ASSUME NEW k \in Slot, Pings(k)
      PROVE  ~ Talks(conn[i])
  BY <1>2 DEF Pings, PingOK, PingFails, tableVars, Unanswered
<1>3. CASE Closes
  BY <1>3 DEF Closes, Shut
<1>4. CASE Asks \/ Rests \/ Connect \/ Store \/ Drop
  BY <1>4 DEF Asks, Rests, Connect, Store, Drop, tableVars
<1>5. CASE Stat
  BY <1>5 DEF Stat
<1>6. CASE StatVal
  BY <1>6 DEF StatVal, Unanswered
<1> QED BY <1>1, <1>2, <1>3, <1>4, <1>5, <1>6, StepKinds DEF Ends

\* mym gives a session that works up only when it is told to.
THEOREM HealthyAlwaysStaysOpen == Spec => HealthyStaysOpen
<1>1. ConnInv /\ CallOp /\ [Next]_vars =>
        [\A i \in isopen \ isopen' :
          \/ ~ Talks(conn[i])
          \/ op' \in {"closeall", "clear", "exit", "crash"}
          \/ op' \in {"open", "close"} /\ cid' = i]_vars
  BY HealthyStep
<1> QED BY <1>1, CallOpAlways, PTL DEF Spec, HealthyStaysOpen

-----------------------------------------------------------------------------
\* What a slot is: its structure, whether it is open, its session and whether
\* results are waiting.
SameSlot(i) ==
    /\ conn'[i] = conn[i]
    /\ (i \in isopen') = (i \in isopen)
    /\ conn[i] # NULL =>
           /\ sess'[conn[i]] = sess[conn[i]]
           /\ (conn[i] \in more') = (conn[i] \in more)

\* The steps of open and of close leave the other slots alone.
LEMMA OpenOthers ==
    ASSUME ConnInv, NEW k \in Slot, Opens(k), NEW i \in Slot \ {k}
    PROVE  SameSlot(i) /\ alive' \subseteq alive
<1>1. conn[i] # NULL => conn[i] # conn[k] /\ conn[i] \notin Held(k) /\ conn[i] \in Handle
  BY TableFacts DEF Held
<1>2. CASE DialAgain(k)
  BY <1>1, <1>2 DEF DialAgain, InitAgain, tableVars, SameSlot, ConnInv, TypeOK, ClientTypeOK
<1>3. CASE DialNew(k)
  <2>1. isopen' = isopen \ {k} /\ conn'[i] = conn[i]
    BY <1>3 DEF DialNew, ConnInv, TypeOK
  <2>2. /\ more' = more \ Held(k)
        /\ sess' = [h \in Handle |-> IF h \in Held(k) THEN NULL ELSE sess[h]]
        /\ alive' \subseteq alive
    BY <1>3 DEF DialNew, Renew, CloseHandles
  <2> QED BY <1>1, <2>1, <2>2 DEF SameSlot
<1> QED BY <1>2, <1>3 DEF Opens, OpenAt

\* Asking the server of slot k, with or without an answer, is nothing to the
\* others.
LEMMA AskOthers ==
    ASSUME ConnInv, NEW k \in Slot, UNCHANGED clientVars \/ Unanswered(conn[k]),
           conn' = conn, NEW i \in Slot \ {k}, (i \in isopen') = (i \in isopen)
    PROVE  SameSlot(i)
<1>1. conn[i] # NULL => conn[i] # conn[k] /\ conn[i] \in Handle
  BY TableFacts
<1> QED BY <1>1 DEF SameSlot, clientVars, Unanswered, ConnInv, TypeOK, ClientTypeOK

\* Shutting the structure of one slot ends no session of another.
LEMMA ShutOthers ==
    ASSUME ConnInv, NEW is \in SUBSET isopen, Shut(is), NEW i \in Slot \ is
    PROVE  SameSlot(i) /\ alive' \subseteq alive
<1>1. conn[i] # NULL => conn[i] \notin {conn[k] : k \in is} /\ conn[i] \in Handle
  BY TableFacts
<1>2. conn'[i] = conn[i] /\ (i \in isopen') = (i \in isopen)
  BY DEF Shut
<1>3. /\ sess' = [h \in Handle |-> IF h \in {conn[k] : k \in is} THEN NULL ELSE sess[h]]
      /\ more' = more \ {conn[k] : k \in is}
      /\ alive' \subseteq alive
  BY DEF Shut, CloseHandles
<1> HIDE DEF Shut
<1> QED BY <1>1, <1>2, <1>3 DEF SameSlot

\* Every step is about one slot, but for closeall, the report and what
\* happens around a call.
LEMMA IndependenceStep ==
    ASSUME ConnInv, CallOp, [Next]_vars, NEW i \in Slot, cid' # i,
           op' \notin {"closeall", "statusall", "clear", "exit", "crash"}
    PROVE  SameSlot(i)
<1>1. ASSUME NEW k \in Slot, Opens(k) PROVE SameSlot(i)
  BY <1>1, OpenOthers DEF Opens
<1>2. ASSUME NEW k \in Slot, Pings(k) PROVE SameSlot(i)
  BY <1>2, AskOthers DEF Pings, PingOK, PingFails, tableVars
<1>3. CASE Closes
  <2>1. Shut(isopen \cap {cid'}) /\ i \notin isopen \cap {cid'}
    BY <1>3 DEF Closes
  <2> QED BY <2>1, ShutOthers
<1>4. CASE Asks
  BY <1>4, AskOthers, TableFacts DEF Asks, tableVars
<1>5. CASE Rests
  BY <1>5 DEF Rests, clientVars, tableVars, SameSlot
<1>6. CASE Connect
  <2>1. cid' = cid /\ conn[i] # NULL => conn[i] # conn[cid] /\ conn[i] \in Handle
    BY <1>6, TableFacts DEF Connect, Stay
  <2> QED
    BY <1>6, <2>1 DEF Connect, Connected, Stay, clientVars, tableVars, SameSlot,
                      ConnInv, TypeOK, ClientTypeOK
<1>7. CASE Stat \/ StatVal
  BY <1>7, AskOthers, TableFacts DEF Stat, StatVal, Stay
<1>8. CASE Store
  <2>1. cid' = cid /\ conn' = conn /\ isopen' = isopen
    BY <1>8 DEF Store, Stay, tableVars
  <2>2. CASE LeaveResults
    <3>1. conn[i] # NULL => conn[i] # conn[cid]
      BY <2>1, TableFacts
    <3> QED BY <2>1, <2>2, <3>1 DEF LeaveResults, SameSlot
  <2>3. CASE Unanswered(conn[cid])
    BY <2>1, <2>3, AskOthers, TableFacts
  <2> QED BY <1>8, <2>2, <2>3 DEF Store
<1>9. CASE Drop
  BY <1>9 DEF Drop, ServerDrop, tableVars, SameSlot
<1> QED BY <1>1, <1>2, <1>3, <1>4, <1>5, <1>6, <1>7, <1>8, <1>9, StepKinds DEF Ends

\* A call about one slot leaves the others as they were (mym.cpp:478-936).
THEOREM SlotsAreIndependent == Spec => SlotIndependence
<1>1. ConnInv /\ CallOp /\ [Next]_vars =>
        [\A i \in Slot :
          \/ op' \in {"closeall", "statusall", "clear", "exit", "crash"}
          \/ cid' = i
          \/ /\ conn'[i] = conn[i]
             /\ (i \in isopen') = (i \in isopen)
             /\ conn[i] # NULL =>
                    /\ sess'[conn[i]] = sess[conn[i]]
                    /\ (conn[i] \in more') = (conn[i] \in more)]_vars
  BY IndependenceStep DEF SameSlot
<1> QED BY <1>1, CallOpAlways, PTL DEF Spec, SlotIndependence

-----------------------------------------------------------------------------
\* A slot that stays in use gets no other session.
LEMMA ReconnectStep ==
    ASSUME ConnInv, CallOp, [Next]_vars, NEW i \in isopen \cap isopen'
    PROVE  /\ sess'[conn'[i]] \in {sess[conn[i]], NULL}
           /\ ~ Talks(conn[i]) => ~ (conn'[i] \notin more' /\ sess'[conn'[i]] \in alive')
<1> DEFINE Kept == /\ sess'[conn'[i]] \in {sess[conn[i]], NULL}
                   /\ ~ Talks(conn[i]) =>
                        ~ (conn'[i] \notin more' /\ sess'[conn'[i]] \in alive')
<1>1. /\ i \in Slot /\ conn[i] \in Handle /\ conn[i] # NULL
      /\ NULL \notin alive /\ alive \subseteq Session /\ NULL \notin Session
  BY TableFacts, NullAssumption DEF ConnInv, TypeOK, ClientTypeOK
<1>2. ASSUME SameSlot(i), alive' \subseteq alive PROVE Kept
  BY <1>1, <1>2 DEF SameSlot, Talks
<1>3. ASSUME NEW k \in Slot, UNCHANGED clientVars \/ Unanswered(conn[k]), conn' = conn
      PROVE  Kept
  <2>1. alive' = alive /\ more' = more
    BY <1>3 DEF clientVars, Unanswered
  <2>2. CASE UNCHANGED clientVars
    BY <1>3, <2>2 DEF clientVars, Talks
  <2>3. CASE Unanswered(conn[k])
    <3>1. sess'[conn[i]] \in {sess[conn[i]], NULL}
      BY <1>1, <2>3 DEF Unanswered, ConnInv, TypeOK, ClientTypeOK
    <3> QED BY <1>1, <1>3, <2>1, <3>1 DEF Talks
  <2> QED BY <1>3, <2>2, <2>3
<1>4. ASSUME NEW k \in Slot, Opens(k) PROVE Kept
  <2>1. isopen' = isopen \ {k}
    BY <1>4 DEF Opens, OpenAt, DialNew, DialAgain, tableVars
  <2> QED BY <1>1, <1>2, <1>4, <2>1, OpenOthers
<1>5. ASSUME NEW k \in Slot, Pings(k) PROVE Kept
  BY <1>3, <1>5 DEF Pings, PingOK, PingFails, tableVars
<1>6. CASE Closes
  <2>1. PICK is \in SUBSET isopen : Shut(is)
    BY <1>6 DEF Closes
  <2>2. i \notin is
    BY <2>1 DEF Shut
  <2> QED BY <1>1, <1>2, <2>1, <2>2, ShutOthers
<1>7. CASE Asks \/ Rests \/ Stat \/ StatVal
  BY <1>3, <1>7, TableFacts, <1>1 DEF Asks, Rests, Stat, StatVal, tableVars
<1>8. CASE Connect
  <2>1. conn' = conn /\ cid \notin isopen /\ i # cid /\ conn[i] # conn[cid]
    BY <1>1, <1>8, TableFacts DEF Connect, tableVars, ConnInv, CallState
  <2>2. CASE UNCHANGED clientVars
    BY <1>1, <1>3, <2>1, <2>2
  <2>3. ASSUME NEW s \in Session, Connected(conn[cid], s) PROVE Kept
    <3>1. /\ sess'[conn[i]] = sess[conn[i]] /\ sess[conn[i]] # s
          /\ more' = more /\ alive' = alive \cup {s}
      BY <1>1, <2>1, <2>3 DEF Connected, ConnInv, TypeOK, ClientTypeOK
    <3> QED BY <2>1, <3>1 DEF Talks
  <2> QED BY <1>8, <2>2, <2>3 DEF Connect
<1>9. CASE Store
  <2>1. conn' = conn
    BY <1>9 DEF Store, tableVars
  <2>2. CASE LeaveResults
    BY <2>1, <2>2 DEF LeaveResults, Talks
  <2>3. CASE Unanswered(conn[cid])
    BY <1>3, <2>1, <2>3, TableFacts
  <2> QED BY <1>9, <2>2, <2>3 DEF Store
<1>10. CASE Drop
  <2>1. /\ conn' = conn /\ sess' = sess /\ more' = more
        /\ alive' \subseteq alive
    BY <1>10 DEF Drop, ServerDrop, tableVars
  <2> QED BY <2>1 DEF Talks
<1> QED
  BY <1>4, <1>5, <1>6, <1>7, <1>8, <1>9, <1>10, StepKinds DEF Ends

\* A slot that stays open keeps its session, and gets no other once it has
\* lost it (mym.cpp:541-542).
THEOREM NeverReconnectsSilently == Spec => NoSilentReconnect
<1>1. ConnInv /\ CallOp /\ [Next]_vars =>
        [\A i \in isopen \cap isopen' :
          /\ sess'[conn'[i]] \in {sess[conn[i]], NULL}
          /\ ~ Talks(conn[i]) => ~ (conn'[i] \notin more' /\ sess'[conn'[i]] \in alive')]_vars
  BY ReconnectStep
<1> QED BY <1>1, CallOpAlways, PTL DEF Spec, NoSilentReconnect

-----------------------------------------------------------------------------
\* An automatic open only looks at slots that are closed.
LEMMA AutoOpenStep ==
    ASSUME ConnInv, CallOp, [Next]_vars, op' = "openauto"
    PROVE  /\ isopen \subseteq isopen'
           /\ conn' # conn => alive \subseteq alive'
<1>1. ASSUME NEW k \in Slot, Opens(k)
      PROVE  isopen \subseteq isopen' /\ alive \subseteq alive'
  <2>1. k \notin isopen /\ Held(k) = {}
    BY <1>1 DEF Opens, Held
  <2> QED
    BY <1>1, <2>1 DEF Opens, OpenAt, DialNew, DialAgain, Renew, CloseHandles,
                      InitAgain, tableVars
<1>2. CASE Stat
  BY <1>2 DEF Stat
<1>3. CASE Asks \/ Rests \/ Connect \/ Store \/ Drop
  BY <1>3 DEF Asks, Rests, Connect, Store, Drop, tableVars
<1> QED
  BY <1>1, <1>2, <1>3, StepKinds DEF Pings, Closes, Ends, StatVal, CallOp, Stay

\* Connection -1 ends no session and takes no slot out of use
\* (mym.cpp:468-476).
THEOREM AutoOpenNeverDisturbs == Spec => AutoOpenDisturbsNothing
<1>1. ConnInv /\ CallOp /\ [Next]_vars =>
        [op' = "openauto" =>
          /\ isopen \subseteq isopen'
          /\ conn' # conn => alive \subseteq alive']_vars
  BY AutoOpenStep
<1> QED BY <1>1, CallOpAlways, PTL DEF Spec, AutoOpenDisturbsNothing

-----------------------------------------------------------------------------
\* A structure that did not answer will not answer.
LEMMA UnansweredStays ==
    ASSUME ConnInv, NEW h \in Handle, Unanswered(h)
    PROVE  ~ (h \notin more' /\ sess'[h] \in alive')
<1>1. /\ more' = more /\ alive' = alive /\ sess \in [Handle -> Session \cup {NULL}]
      /\ sess' = [sess EXCEPT ![h] = IF h \in more THEN @ ELSE NULL]
      /\ ~ Talks(h) /\ alive \subseteq Session
  BY DEF Unanswered, ConnInv, TypeOK, ClientTypeOK
<1>2. CASE h \in more
  BY <1>1, <1>2
<1>3. CASE h \notin more
  <2>1. sess'[h] = NULL
    BY <1>1, <1>3
  <2> QED BY <1>1, <2>1, NullAssumption
<1> QED BY <1>2, <1>3

\* An answer of status is given in the step that decides it: by a ping that
\* fails, or by mysql_stat.
LEMMA StatusStep ==
    ASSUME ConnInv, CallOp, [Next]_vars,
           op' = "statusval", answer'.kind = "value", callVars' # callVars
    PROVE  CodeIsSo'
<1> USE DEF Enter, Stay, Wait, Done, Value, Error
<1>1. ASSUME NEW i \in Slot, StatusVal(i) PROVE CodeIsSo'
  <2>1. /\ cid' = i /\ answer'.val = 2 /\ isopen' = isopen \ {i}
        /\ conn' = conn /\ Unanswered(conn[i]) /\ i \in isopen
    BY <1>1 DEF StatusVal, PingFails
  <2>2. ~ Talks(conn[cid])'
    BY <2>1, UnansweredStays, TableFacts DEF Talks
  <2> QED BY <2>1, <2>2 DEF CodeIsSo
<1>2. CASE StatVal
  <2>1. cid' = cid /\ conn' = conn /\ cid \in isopen
    BY <1>2 DEF StatVal, ConnInv, CallState
  <2>2. CASE Talks(conn[cid]) /\ answer'.val = 0 /\ UNCHANGED <<clientVars, isopen>>
    BY <2>1, <2>2 DEF CodeIsSo, Talks, clientVars
  <2>3. CASE Unanswered(conn[cid]) /\ answer'.val = 3 /\ isopen' = isopen \ {cid}
    <3>1. ~ Talks(conn[cid])'
      BY <2>1, <2>3, UnansweredStays, TableFacts DEF Talks
    <3> QED BY <2>1, <2>3, <3>1 DEF CodeIsSo
  <2> QED BY <1>2, <2>2, <2>3 DEF StatVal
<1>3. ASSUME NEW i \in Slot, Open(i) \/ Close(i) \/ Use(i) \/ StatusId(i) \/ Cmd(i)
      PROVE  FALSE
  BY <1>3 DEF Open, Close, Use, StatusId, Cmd
<1>4. CASE OpenAuto \/ CloseAll \/ StatusAll \/ Reject \/ ClearMex
  BY <1>4 DEF OpenAuto, CloseAll, StatusAll, Reject, ClearMex
<1>5. CASE Connect \/ Stat \/ SelectDb \/ Query \/ Store
  BY <1>5 DEF Connect, Stat, SelectDb, Query, Store, CallOp
<1>6. ASSUME NEW j \in Slot, ReportOne(j) PROVE FALSE
  BY <1>6 DEF ReportOne, CallOp
<1>7. ASSUME NEW o \in {"exit", "crash"}, ProcessEnds(o) PROVE FALSE
  BY <1>7 DEF ProcessEnds
<1>8. CASE Drop \/ UNCHANGED vars
  BY <1>8 DEF Drop, vars, callVars, tableVars
<1> QED
  BY <1>1, <1>2, <1>3, <1>4, <1>5, <1>6, <1>7, <1>8
     DEF Next, CallOn, CallStep, ReportOneCrashes, SelectDbCrashes

\* The code that status returns is true of the slot, of its session and of the
\* results that are left, at the moment it is returned (mym.cpp:677-697).
THEOREM StatusIsTruthful == Spec => StatusCodeTruthful
<1>1. ConnInv /\ CallOp /\ [Next]_vars =>
        [op' = "statusval" /\ answer'.kind = "value" /\ callVars' # callVars =>
          CodeIsSo']_vars
  BY StatusStep
<1> QED BY <1>1, CallOpAlways, PTL DEF Spec, StatusCodeTruthful

-----------------------------------------------------------------------------
(* What the table owes to the servers and to the memory of the process, as  *)
(* long as every result is read and the MEX file stays loaded: no session   *)
(* is out of reach, no structure is lost that mysql_close would have freed, *)
(* and the table implements ConnPool.                                       *)

\* Without commands of several statements no results are left.
LEMMA NoResultsStep ==
    ASSUME MultiStatement = FALSE, ConnInv, CallOp, more = {}, [Next]_vars
    PROVE  more' = {}
<1>1. ASSUME NEW i \in Slot, Opens(i) \/ Pings(i) PROVE more' = {}
  BY <1>1 DEF Opens, OpenAt, DialNew, DialAgain, Renew, CloseHandles, InitAgain,
              Pings, PingOK, PingFails, Unanswered, clientVars
<1>2. CASE Closes
  BY <1>2 DEF Closes, Shut, CloseHandles
<1>3. CASE Asks \/ Rests \/ Connect \/ Stat \/ StatVal
  BY <1>3 DEF Asks, Rests, Connect, Stat, StatVal, Connected, Unanswered, clientVars
<1>4. CASE Store
  BY <1>4 DEF Store, LeaveResults, Unanswered
<1>5. CASE Drop
  BY <1>5 DEF Drop, ServerDrop
<1>6. CASE Ends
  BY <1>6 DEF Ends, ProcessEnd, clientVars
<1> QED BY <1>1, <1>2, <1>3, <1>4, <1>5, <1>6, StepKinds

-----------------------------------------------------------------------------
\* mysql_close on the structures of some open slots, and nothing else, keeps
\* the sessions of the others in reach.
LEMMA ReachKept ==
    ASSUME ConnInv, NEW s, NEW i \in isopen, sess[conn[i]] = s, SameSlot(i)
    PROVE  Reachable(s)'
  BY TableFacts DEF SameSlot, Reachable

\* A server that does not answer although no results are left has ended its
\* session.
LEMMA AskReach ==
    ASSUME ConnInv, more = {}, NoOrphanSession, pc # "stat", NEW k \in Slot,
           UNCHANGED clientVars \/ Unanswered(conn[k]), conn' = conn,
           isopen' \in {isopen, IF Talks(conn[k]) THEN isopen ELSE isopen \ {k}}
    PROVE  NoOrphanSession'
<1> SUFFICES ASSUME NEW s \in alive' PROVE Reachable(s)'
  BY DEF NoOrphanSession
<1>1. alive' = alive
  BY DEF clientVars, Unanswered
<1>2. PICK i \in isopen : sess[conn[i]] = s
  BY <1>1, TableFacts DEF NoOrphanSession, Reachable
<1>3. CASE i = k
  BY <1>1, <1>2, <1>3, TableFacts
     DEF Talks, Unanswered, clientVars, Reachable
<1>4. CASE i # k
  BY <1>2, <1>4, AskOthers, ReachKept, TableFacts
<1> QED BY <1>3, <1>4

\* A session that no slot holds has been ended, as long as the MEX file stays
\* loaded and a command is one statement.
LEMMA OrphanStep ==
    ASSUME MexUnload = FALSE, MultiStatement = FALSE, ConnInv, CallOp, more = {},
           NoOrphanSession, [Next]_vars
    PROVE  NoOrphanSession'
<1>1. ASSUME NEW k \in Slot, Opens(k) PROVE NoOrphanSession'
  <2> SUFFICES ASSUME NEW s \in alive' PROVE Reachable(s)'
    BY DEF NoOrphanSession
  <2>1. s \in alive /\ pc = "idle"
    BY <1>1, TableFacts
       DEF Opens, OpenAt, DialNew, DialAgain, Renew, CloseHandles, InitAgain
  <2>2. PICK i \in isopen : sess[conn[i]] = s
    BY <2>1, TableFacts DEF NoOrphanSession, Reachable
  <2>3. CASE i = k
    BY <1>1, <2>2, <2>3 DEF Opens, OpenAt, DialNew, DialAgain, Renew, CloseHandles, Held
  <2>4. CASE i # k
    BY <1>1, <2>2, <2>4, OpenOthers, ReachKept, TableFacts
  <2> QED BY <2>3, <2>4
<1>2. ASSUME NEW k \in Slot, Pings(k) PROVE NoOrphanSession'
  <2>1. /\ conn' = conn /\ pc # "stat"
        /\ UNCHANGED clientVars \/ Unanswered(conn[k])
        /\ isopen' \in {isopen, IF Talks(conn[k]) THEN isopen ELSE isopen \ {k}}
    BY <1>2 DEF Pings, PingOK, PingFails, Unanswered, tableVars
  <2> QED BY <2>1, AskReach
<1>3. CASE Closes
  <2> SUFFICES ASSUME NEW s \in alive' PROVE Reachable(s)'
    BY DEF NoOrphanSession
  <2>1. PICK is \in SUBSET isopen : Shut(is)
    BY <1>3 DEF Closes
  <2>2. s \in alive /\ s \notin {sess[h] : h \in {conn[k] : k \in is}}
    BY <2>1 DEF Shut, CloseHandles
  <2>3. PICK i \in isopen : sess[conn[i]] = s
    BY <1>3, <2>2, TableFacts DEF NoOrphanSession, Reachable, Closes
  <2>4. i \notin is
    BY <2>2, <2>3
  <2> QED BY <2>1, <2>3, <2>4, ShutOthers, ReachKept, TableFacts
<1>4. CASE Asks
  BY <1>4, AskReach, TableFacts DEF Asks, tableVars
<1>5. CASE Rests
  <2>1. /\ conn' = conn /\ isopen' = isopen /\ sess' = sess /\ alive' = alive
        /\ pc = "idle" \/ (pc' = pc /\ cid' = cid)
    BY <1>5 DEF Rests, clientVars, tableVars
  <2> QED BY <2>1 DEF NoOrphanSession, Reachable
<1>6. CASE Connect
  <2> SUFFICES ASSUME NEW s \in alive' PROVE Reachable(s)'
    BY DEF NoOrphanSession
  <2>1. /\ conn' = conn /\ isopen' = isopen /\ cid' = cid /\ pc = "connect"
        /\ cid \notin isopen /\ conn[cid] \in Handle /\ conn[cid] # NULL
        /\ sess[conn[cid]] = NULL
    BY <1>6, TableFacts
       DEF Connect, Stay, tableVars, ConnInv, CallState, TypeOK, ClientTypeOK
  <2>2. CASE s \in alive
    <3>1. PICK i \in isopen : sess[conn[i]] = s
      BY <2>1, <2>2, TableFacts DEF NoOrphanSession, Reachable
    <3>2. conn[i] # conn[cid]
      BY <2>1, <3>1, TableFacts
    <3>3. sess'[conn[i]] = s
      BY <1>6, <3>1, <3>2, TableFacts
         DEF Connect, Connected, clientVars, ConnInv, TypeOK, ClientTypeOK
    <3> QED BY <2>1, <3>1, <3>3, TableFacts DEF Reachable
  <2>3. CASE s \notin alive
    <3>1. Connected(conn[cid], s) /\ pc' = "stat"
      BY <1>6, <2>3 DEF Connect, Connected, clientVars, Wait
    <3>2. sess'[conn[cid]] = s
      BY <2>1, <3>1 DEF Connected, ConnInv, TypeOK, ClientTypeOK
    <3> QED BY <2>1, <3>1, <3>2, TableFacts DEF Reachable
  <2> QED BY <2>2, <2>3
<1>7. CASE Stat
  <2> SUFFICES ASSUME NEW s \in alive' PROVE Reachable(s)'
    BY DEF NoOrphanSession
  <2>1. conn' = conn /\ alive' = alive /\ cid' = cid
    BY <1>7 DEF Stat, Stay, Unanswered, clientVars
  <2>2. PICK i \in Slot : conn[i] # NULL /\ sess[conn[i]] = s
                           /\ (i \in isopen \/ cid = i)
    BY <2>1 DEF NoOrphanSession, Reachable
  <2>3. CASE Talks(conn[cid])
    <3>1. isopen' = isopen \cup {cid} /\ sess' = sess
      BY <1>7, <2>3 DEF Stat, Unanswered, clientVars
    <3> QED BY <2>1, <2>2, <3>1 DEF Reachable
  <2>4. CASE ~ Talks(conn[cid])
    <3>1. Unanswered(conn[cid]) /\ isopen' = isopen
      BY <1>7, <2>4 DEF Stat
    <3>2. i # cid
      BY <2>1, <2>2, <2>4 DEF Talks
    <3> QED BY <2>1, <2>2, <3>1, <3>2, AskOthers, ReachKept, TableFacts
  <2> QED BY <2>3, <2>4
<1>8. CASE StatVal
  <2>1. /\ conn' = conn /\ pc # "stat"
        /\ UNCHANGED clientVars \/ Unanswered(conn[cid])
        /\ isopen' \in {isopen, IF Talks(conn[cid]) THEN isopen ELSE isopen \ {cid}}
    BY <1>8 DEF StatVal, Unanswered
  <2> QED BY <2>1, AskReach, TableFacts
<1>9. CASE Store
  <2>1. /\ conn' = conn /\ pc # "stat" /\ isopen' = isopen
        /\ UNCHANGED clientVars \/ Unanswered(conn[cid])
    BY <1>9 DEF Store, LeaveResults, tableVars, clientVars
  <2> QED BY <2>1, AskReach, TableFacts
<1>10. CASE Drop
  BY <1>10 DEF Drop, ServerDrop, tableVars, callVars, NoOrphanSession, Reachable
<1>11. CASE Ends
  BY <1>11 DEF Ends, ProcessEnd, NoOrphanSession
<1> QED
  BY <1>1, <1>2, <1>3, <1>4, <1>5, <1>6, <1>7, <1>8, <1>9, <1>10, <1>11, StepKinds

\* A session that the servers keep can always be ended from MATLAB, provided
\* that every result is read and the MEX file stays loaded (mym.cpp:485-569).
THEOREM NeverOrphansSession ==
    ASSUME MexUnload = FALSE, MultiStatement = FALSE
    PROVE  Spec => []NoOrphanSession
<1> DEFINE Inv == more = {} /\ NoOrphanSession
<1>1. Init => Inv
  BY DEF Init, ClientInit, NoOrphanSession
<1>2. ConnInv /\ CallOp /\ Inv /\ [Next]_vars => Inv'
  BY NoResultsStep, OrphanStep
<1>3. Inv => NoOrphanSession
  OBVIOUS
<1> QED BY <1>1, <1>2, <1>3, CallOpAlways, PTL DEF Spec

-----------------------------------------------------------------------------
\* A structure is only lost with a slot that is opened again.
LEMMA LeakStep ==
    ASSUME MexUnload = FALSE, ConnInv, CallOp, LeaksOnlyReused, [Next]_vars
    PROVE  LeaksOnlyReused'
<1> USE DEF LeaksOnlyReused
<1>1. ASSUME freeMe' \subseteq freeMe, conn' = conn PROVE LeaksOnlyReused'
  BY <1>1
<1>2. ASSUME NEW is \in SUBSET isopen, Shut(is) PROVE LeaksOnlyReused'
  <2>1. freeMe' = freeMe \ {conn[i] : i \in is}
    BY <1>2 DEF Shut, CloseHandles
  <2>2. \A i \in Slot \ is : conn'[i] = conn[i]
    BY <1>2 DEF Shut
  <2> QED BY <2>1, <2>2
<1>3. ASSUME NEW k \in Slot, Opens(k) PROVE LeaksOnlyReused'
  <2>1. CASE DialAgain(k)
    BY <1>1, <2>1 DEF DialAgain, InitAgain, tableVars
  <2>2. CASE DialNew(k)
    <3>1. freeMe \subseteq Handle /\ conn \in [Slot -> Handle \cup {NULL}]
      BY DEF ConnInv, TypeOK, ClientTypeOK
    <3>2. \A h \in freeMe \ Held(k) : \E i \in Slot \ {k} : conn[i] = h
      BY <2>2, <3>1, NullAssumption DEF DialNew, Held
    <3>3. \A i \in Slot \ {k} : conn'[i] = conn[i]
      BY <2>2, <3>1 DEF DialNew
    <3>4. \A h \in freeMe' : h \in freeMe \ Held(k) \/ conn'[k] = h
      BY <2>2, <3>1 DEF DialNew, Renew, CloseHandles
    <3> QED BY <3>2, <3>3, <3>4
  <2> QED BY <1>3, <2>1, <2>2 DEF Opens, OpenAt
<1>4. ASSUME NEW k \in Slot, Pings(k) PROVE LeaksOnlyReused'
  BY <1>1, <1>4 DEF Pings, PingOK, PingFails, Unanswered, clientVars, tableVars
<1>5. CASE Closes
  BY <1>2, <1>5 DEF Closes
<1>6. CASE Asks \/ Rests \/ Connect \/ Stat \/ StatVal \/ Store
  BY <1>1, <1>6 DEF Asks, Rests, Connect, Stat, StatVal, Store, Connected,
                    LeaveResults, Unanswered, clientVars, tableVars
<1>7. CASE Drop
  BY <1>1, <1>7 DEF Drop, ServerDrop, tableVars
<1>8. CASE Ends
  BY <1>8 DEF Ends, ProcessEnd
<1> QED BY <1>3, <1>4, <1>5, <1>6, <1>7, <1>8, StepKinds

\* Memory of the client library is only lost when a slot whose call failed is
\* opened again, provided that the MEX file stays loaded (mym.cpp:485-505).
THEOREM LeaksAreReused ==
    ASSUME MexUnload = FALSE
    PROVE  Spec => []LeaksOnlyReused
<1>1. Init => LeaksOnlyReused
  BY DEF Init, ClientInit, LeaksOnlyReused
<1> QED BY <1>1, LeakStep, CallOpAlways, PTL DEF Spec

-----------------------------------------------------------------------------
(* The table implements the pool. *)

\* The session of a slot, as the pool has it.
Link == [i \in Slot |-> IF i \in isopen THEN sess[conn[i]] ELSE NULL]
Pend == IF pc = "stat" THEN sess[conn[cid]] ELSE NULL

\* A slot whose server does not answer loses its session.
LEMMA AskPool ==
    ASSUME ConnInv, more = {}, pc # "stat", pc' # "stat", NEW k \in isopen,
           UNCHANGED clientVars \/ Unanswered(conn[k]), conn' = conn,
           isopen' \in {isopen, IF Talks(conn[k]) THEN isopen ELSE isopen \ {k}}
    PROVE  [Pool!Next]_(Pool!vars)
<1>1. alive' = alive /\ Pend' = NULL /\ Pend = NULL
  BY DEF clientVars, Unanswered, Pend
<1>2. \A i \in Slot \ {k} : Link'[i] = Link[i]
  <2> SUFFICES ASSUME NEW i \in Slot \ {k} PROVE Link'[i] = Link[i]
    OBVIOUS
  <2>1. k \in Slot /\ SameSlot(i)
    BY AskOthers, TableFacts
  <2> QED BY <2>1, TableFacts DEF SameSlot, Link
<1>3. CASE Talks(conn[k])
  <2>1. isopen' = isopen /\ UNCHANGED clientVars
    BY <1>3 DEF Unanswered
  <2> QED BY <1>1, <2>1 DEF Pool!vars, Pend, clientVars
<1>4. CASE ~ Talks(conn[k]) /\ UNCHANGED clientVars /\ isopen' = isopen
  BY <1>1, <1>4 DEF Pool!vars, Pend, clientVars
<1>5. CASE ~ Talks(conn[k]) /\ (Unanswered(conn[k]) \/ isopen' = isopen \ {k})
  <2>1. sess[conn[k]] \notin alive /\ k \in Slot /\ conn[k] \in Handle
    BY <1>5, TableFacts DEF Talks
  <2>2. k \in isopen' => sess'[conn[k]] = NULL
    BY <1>5, <2>1 DEF Unanswered, ConnInv, TypeOK, ClientTypeOK
  <2>3. Link' = [Link EXCEPT ![k] = NULL]
    BY <1>2, <2>1, <2>2 DEF Link
  <2>4. isopen' \in {isopen, isopen \ {k}}
    OBVIOUS
  <2>5. Pool!Lose(k)
    BY <1>1, <2>1, <2>3, <2>4 DEF Pool!Lose, Link, Pend
  <2> QED BY <2>1, <2>5 DEF Pool!Next
<1> QED BY <1>3, <1>4, <1>5

\* What closes the open slots of is, and perhaps gives one of them a new
\* structure, is a close of the pool.
LEMMA ShutPool ==
    ASSUME ConnInv, pc # "stat", pc' # "stat", NEW is \in SUBSET isopen,
           is = isopen \/ (\E i \in isopen : is = {i}),
           isopen' = isopen \ is,
           sess' = [h \in Handle |-> IF h \in {conn[i] : i \in is} THEN NULL ELSE sess[h]],
           alive' = alive \ {sess[h] : h \in {conn[i] : i \in is}},
           \A i \in Slot \ is : conn'[i] = conn[i]
    PROVE  [Pool!Next]_(Pool!vars)
<1>1. Pend' = NULL /\ Pend = NULL
  BY DEF Pend
<1>2. is \subseteq Slot /\ is \in SUBSET Slot
  BY TableFacts
<1>3. \A i \in Slot \ is : i \in isopen => sess'[conn'[i]] = sess[conn[i]]
  BY TableFacts
<1>4. Link' = [i \in Slot |-> IF i \in is THEN NULL ELSE Link[i]]
  BY <1>2, <1>3 DEF Link
<1>5. {Link[i] : i \in is} = {sess[h] : h \in {conn[i] : i \in is}}
  BY <1>2 DEF Link
<1>6. alive' = alive \ {Link[i] : i \in is}
  BY <1>5
<1>7. Pool!Shut(is)
  BY <1>1, <1>4, <1>6 DEF Pool!Shut, Link, Pend
<1> QED BY <1>2, <1>7 DEF Pool!Next

\* Opening a slot that is in use gives its session up, in the pool as well.
LEMMA OpenPool ==
    ASSUME ConnInv, NEW k \in Slot, Opens(k)
    PROVE  [Pool!Next]_(Pool!vars)
<1>1. pc = "idle" /\ pc' # "stat"
  BY DEF Opens, OpenAt, DialNew, DialAgain, Wait, Error
<1>2. CASE k \in isopen
  <2>1. DialNew(k)
    BY <1>2 DEF Opens, OpenAt, DialAgain
  <2>2. {conn[i] : i \in {k}} = Held(k)
    BY <1>2 DEF Held
  <2>3. \A i \in Slot \ {k} : conn'[i] = conn[i]
    BY <2>1 DEF DialNew, ConnInv, TypeOK
  <2>4. /\ isopen' = isopen \ {k}
        /\ sess' = [h \in Handle |-> IF h \in Held(k) THEN NULL ELSE sess[h]]
        /\ alive' = alive \ {sess[h] : h \in Held(k)}
    BY <2>1 DEF DialNew, Renew, CloseHandles
  <2>5. \E i \in isopen : {k} = {i}
    BY <1>2
  <2> QED BY <1>1, <1>2, <2>2, <2>3, <2>4, <2>5, ShutPool
<1>3. CASE k \notin isopen
  <2>1. isopen' = isopen
    BY <1>3 DEF Opens, OpenAt, DialNew, DialAgain, tableVars
  <2>2. alive' = alive
    BY <1>3 DEF Opens, OpenAt, DialNew, DialAgain, Renew, CloseHandles, InitAgain, Held
  <2>3. \A i \in isopen : i \in Slot \ {k} /\ conn[i] # NULL
    BY <1>3, TableFacts
  <2>4. \A i \in isopen : conn'[i] = conn[i] /\ sess'[conn[i]] = sess[conn[i]]
    BY <2>3, OpenOthers DEF SameSlot
  <2>5. Link' = Link
    BY <2>1, <2>4 DEF Link
  <2> QED BY <1>1, <2>1, <2>2, <2>5 DEF Pool!vars, Link, Pend
<1> QED BY <1>2, <1>3

\* A new connection is granted to the open that waits for it.
LEMMA ConnectPool ==
    ASSUME ConnInv, Connect
    PROVE  [Pool!Next]_(Pool!vars)
<1>1. /\ conn' = conn /\ isopen' = isopen /\ cid' = cid /\ pc = "connect"
      /\ cid \notin isopen /\ conn[cid] \in Handle /\ conn[cid] # NULL
  BY TableFacts
     DEF Connect, Stay, tableVars, ConnInv, CallState, TypeOK, ClientTypeOK
<1>2. CASE UNCHANGED clientVars /\ pc' # "stat"
  BY <1>1, <1>2 DEF Pool!vars, clientVars
<1>3. ASSUME NEW s \in Session, Connected(conn[cid], s), pc' = "stat"
      PROVE  [Pool!Next]_(Pool!vars)
  <2>1. /\ sess' = [sess EXCEPT ![conn[cid]] = s] /\ sess \in [Handle -> Session \cup {NULL}]
        /\ s \notin alive /\ alive' = alive \cup {s}
        /\ \A g \in Handle : sess[g] # s
    BY <1>3 DEF Connected, ConnInv, TypeOK, ClientTypeOK
  <2>2. Pend = NULL /\ Pend' = s
    BY <1>1, <1>3, <2>1 DEF Pend
  <2>3. \A i \in isopen : conn[i] \in Handle /\ conn[i] # conn[cid]
    BY <1>1, TableFacts
  <2>4. Link' = Link
    BY <1>1, <2>1, <2>3 DEF Link
  <2>5. \A i \in Slot : Link[i] # s
    BY <2>1, <2>3, NullAssumption DEF Link
  <2>6. Pool!Grant(s)
    BY <1>1, <2>1, <2>2, <2>4, <2>5 DEF Pool!Grant, Link, Pend
  <2> QED BY <2>6 DEF Pool!Next
<1> QED BY <1>2, <1>3 DEF Connect, Wait, Error

\* Its slot comes up, or the session has ended before.
LEMMA StatPool ==
    ASSUME ConnInv, more = {}, Stat
    PROVE  [Pool!Next]_(Pool!vars)
<1>1. /\ conn' = conn /\ cid' = cid /\ pc = "stat" /\ pc' = "idle" /\ alive' = alive
      /\ cid \notin isopen /\ conn[cid] \in Handle /\ conn[cid] # NULL /\ cid \in Slot
  BY TableFacts
     DEF Stat, Stay, Value, Done, Error, Unanswered, clientVars, ConnInv, CallState,
         TypeOK, ClientTypeOK
<1>2. Pend = sess[conn[cid]] /\ Pend' = NULL
  BY <1>1 DEF Pend
<1>3. CASE Talks(conn[cid])
  <2>1. isopen' = isopen \cup {cid} /\ sess' = sess
    BY <1>3 DEF Stat, Unanswered, clientVars
  <2>2. Link' = [Link EXCEPT ![cid] = Pend]
    BY <1>1, <1>2, <2>1 DEF Link
  <2>3. Pend \in alive
    BY <1>2, <1>3 DEF Talks
  <2>4. ASSUME NEW i \in Slot, i = cid PROVE Pool!ComeUp(i)
    BY <1>1, <1>2, <2>1, <2>2, <2>3, <2>4 DEF Pool!ComeUp, Link, Pend
  <2> QED BY <1>1, <2>4 DEF Pool!Next
<1>4. CASE ~ Talks(conn[cid])
  <2>1. isopen' = isopen /\ Unanswered(conn[cid])
    BY <1>4 DEF Stat
  <2>2. \A i \in isopen : SameSlot(i)
    <3> SUFFICES ASSUME NEW i \in isopen PROVE SameSlot(i)
      OBVIOUS
    <3>1. i \in Slot \ {cid}
      BY <1>1, TableFacts
    <3> QED BY <1>1, <2>1, <3>1, AskOthers
  <2>3. Link' = Link
    BY <1>1, <2>1, <2>2, TableFacts DEF SameSlot, Link
  <2>4. Pend \notin alive
    BY <1>2, <1>4 DEF Talks
  <2>5. CASE Pend = NULL
    BY <1>1, <1>2, <2>1, <2>3, <2>5 DEF Pool!vars, Link, Pend
  <2>6. CASE Pend # NULL
    <3>1. Pool!GiveUp
      BY <1>1, <1>2, <2>1, <2>3, <2>4, <2>6 DEF Pool!GiveUp, Link, Pend
    <3> QED BY <3>1 DEF Pool!Next
  <2> QED BY <2>5, <2>6
<1> QED BY <1>3, <1>4

\* Every step of the table is a step of the pool, or none.
LEMMA PoolStep ==
    ASSUME MexUnload = FALSE, MultiStatement = FALSE, ConnInv, CallOp, more = {},
           [Next]_vars
    PROVE  [Pool!Next]_(Pool!vars)
<1>1. ASSUME NEW k \in Slot, Pings(k) PROVE [Pool!Next]_(Pool!vars)
  <2>1. /\ conn' = conn /\ pc # "stat" /\ k \in isopen
        /\ UNCHANGED clientVars \/ Unanswered(conn[k])
        /\ isopen' \in {isopen, IF Talks(conn[k]) THEN isopen ELSE isopen \ {k}}
    BY <1>1 DEF Pings, PingOK, PingFails, Unanswered, tableVars
  <2>2. pc' # "stat"
    BY <1>1, CallOpStep DEF Pings, CallOp
  <2> QED BY <2>1, <2>2, AskPool
<1>2. CASE Closes
  <2>1. PICK is \in SUBSET isopen :
            Shut(is) /\ (is = {} \/ is = isopen \/ \E i \in isopen : is = {i})
    BY <1>2 DEF Closes
  <2>2. pc # "stat" /\ pc' # "stat"
    BY <1>2, CallOpStep DEF Closes, CallOp
  <2>3. /\ isopen' = isopen \ is
        /\ sess' = [h \in Handle |-> IF h \in {conn[i] : i \in is} THEN NULL ELSE sess[h]]
        /\ alive' = alive \ {sess[h] : h \in {conn[i] : i \in is}}
        /\ \A i \in Slot \ is : conn'[i] = conn[i]
    BY <2>1 DEF Shut, CloseHandles
  <2>4. CASE is = {}
    <3>1. isopen' = isopen /\ alive' = alive /\ \A i \in Slot : conn'[i] = conn[i]
      BY <2>3, <2>4
    <3>2. \A h \in Handle : sess'[h] = sess[h]
      BY <2>3, <2>4
    <3>3. Link' = Link
      BY <3>1, <3>2, TableFacts DEF Link
    <3> QED BY <2>2, <3>1, <3>3 DEF Pool!vars, Link, Pend
  <2> QED BY <2>1, <2>2, <2>3, <2>4, ShutPool
<1>3. CASE Asks
  <2>1. /\ conn' = conn /\ isopen' = isopen /\ pc # "stat" /\ cid \in isopen
        /\ UNCHANGED clientVars \/ Unanswered(conn[cid])
    BY <1>3 DEF Asks, tableVars, ConnInv, CallState
  <2>2. pc' # "stat"
    BY <1>3, CallOpStep DEF Asks, CallOp
  <2>3. PICK k \in isopen : k = cid
    BY <2>1
  <2> QED BY <2>1, <2>2, <2>3, AskPool
<1>4. CASE Rests
  BY <1>4 DEF Rests, clientVars, tableVars, Pool!vars
<1>5. CASE StatVal \/ Store
  <2>1. /\ conn' = conn /\ pc # "stat" /\ pc' # "stat" /\ cid \in isopen
        /\ UNCHANGED clientVars \/ Unanswered(conn[cid])
        /\ isopen' \in {isopen, IF Talks(conn[cid]) THEN isopen ELSE isopen \ {cid}}
    BY <1>5 DEF StatVal, Store, LeaveResults, Unanswered, clientVars, tableVars,
                Value, Done, Error, ConnInv, CallState
  <2>2. PICK k \in isopen : k = cid
    BY <2>1
  <2> QED BY <2>1, <2>2, AskPool
<1>6. CASE Drop
  <2>1. PICK s \in Session : ServerDrop(s)
    BY <1>6 DEF Drop
  <2>2. Pool!Drop(s)
    BY <1>6, <2>1 DEF Drop, ServerDrop, tableVars, callVars, Pool!Drop
  <2> QED BY <2>2 DEF Pool!Next
<1>7. CASE Ends
  <2>1. alive' = {} /\ isopen' = {} /\ pc' = "idle"
    BY <1>7 DEF Ends, ProcessEnd
  <2>2. Pool!Restart
    BY <2>1 DEF Pool!Restart
  <2> QED BY <2>2 DEF Pool!Next
<1> QED
  BY <1>1, <1>2, <1>3, <1>4, <1>5, <1>6, <1>7, StepKinds, OpenPool, ConnectPool, StatPool

\* The table is what ConnPool promises, provided that every result is read and
\* the MEX file stays loaded: a slot in use keeps its session until the program
\* gives it up or the session ends, and no session is left behind
\* (mym.cpp:478-936).
THEOREM TableImplementsPool ==
    ASSUME MexUnload = FALSE, MultiStatement = FALSE
    PROVE  Spec => ImplementsPool
<1> DEFINE Inv == more = {}
<1>1. Init => Inv
  BY DEF Init, ClientInit
<1>2. ConnInv /\ CallOp /\ Inv /\ [Next]_vars => Inv'
  BY NoResultsStep
<1>3. Init => Pool!Init
  BY DEF Init, ClientInit, Pool!Init
<1>4. ConnInv /\ CallOp /\ Inv /\ [Next]_vars => [Pool!Next]_(Pool!vars)
  BY PoolStep
<1>5. Spec => [](ConnInv /\ CallOp /\ Inv)
  BY <1>1, <1>2, CallOpAlways, PTL DEF Spec
<1>6. Spec => [][Pool!Next]_(Pool!vars)
  BY <1>4, <1>5, PTL DEF Spec
<1>7. Spec => Pool!Spec
  BY <1>3, <1>6, PTL DEF Spec, Pool!Spec
<1> QED BY <1>7 DEF ImplementsPool

-----------------------------------------------------------------------------
(* mexFunction *)

\* The arguments that are accepted name a slot, unless the scan chooses one.
LEMMA CidIsSlot ==
    ASSUME Accepted(prhs), ~ Automatic(prhs)
    PROVE  Cid(prhs) \in Slot
<1>1. 0 \in Slot
  BY SlotZero
<1>2. CASE HasId(prhs)
  <2>1. prhs[1].val \in -1 .. MaxConn - 1 /\ prhs[1].val # -1
    BY <1>2 DEF Accepted, IdAccepted, ValidId, Automatic
  <2>2. prhs[1].val \in Slot
    BY <2>1, TableAssumption DEF Slot
  <2> QED BY <1>2, <2>2 DEF Cid
<1>3. CASE ~ HasId(prhs)
  BY <1>1, <1>3 DEF Cid
<1> QED BY <1>2, <1>3

\* Only open is automatic.
LEMMA NamedUnlessOpen ==
    ASSUME Accepted(prhs), Command(prhs) # "open"
    PROVE  Cid(prhs) \in Slot
  BY CidIsSlot DEF Accepted

\* What the dispatch does is the first step of an operation of the table.
LEMMA DispatchImplements == DispatchCall => Next
<1> SUFFICES ASSUME DispatchCall PROVE Next
  OBVIOUS
<1>1. ASSUME NEW kind, Aside(kind) PROVE Next
  BY <1>1 DEF Aside, Next
<1>2. ASSUME Accepted(prhs), DoOpen PROVE Next
  <2>1. CASE Automatic(prhs)
    BY <1>1, <1>2, <2>1 DEF DoOpen, Next
  <2>2. CASE ~ Automatic(prhs)
    <3>1. PICK i \in Slot : i = Cid(prhs)
      BY <1>2, <2>2, CidIsSlot
    <3>2. Open(i)
      BY <1>2, <2>2, <3>1 DEF DoOpen
    <3> QED BY <3>2 DEF Next, CallOn
  <2> QED BY <2>1, <2>2
<1>3. ASSUME Accepted(prhs), DoClose \/ DoUse \/ DoStatus \/ DoCmd PROVE Next
  <2>1. Command(prhs) # "open"
    BY <1>3 DEF DoClose, DoUse, DoStatus, DoCmd
  <2>2. PICK i \in Slot : i = Cid(prhs)
    BY <1>3, <2>1, NamedUnlessOpen
  <2>3. \/ Close(i) \/ CloseAll \/ Use(i) \/ StatusVal(i) \/ StatusId(i)
        \/ StatusAll \/ Cmd(i) \/ \E kind \in Kinds : Aside(kind)
    BY <1>3, <2>2 DEF DoClose, DoUse, DoStatus, DoCmd, NotOpen, Kinds
  <2> QED BY <1>1, <2>3 DEF Next, CallOn
<1>4. ASSUME DoWithoutTable PROVE Next
  BY <1>1, <1>4 DEF DoWithoutTable
<1> QED BY <1>1, <1>2, <1>3, <1>4 DEF DispatchCall

\* A step of mexFunction is a step of the table, or leaves it as it is.
LEMMA MexStep == [MexNext]_allVars => [Next]_vars
<1>1. ASSUME NEW call \in Calls, CallMex(call) PROVE UNCHANGED vars
  BY <1>1 DEF CallMex
<1>2. CASE GoOn
  BY <1>2 DEF GoOn, Next
<1>3. CASE Around
  BY <1>3 DEF Around, Next
<1>4. CASE UNCHANGED allVars
  BY <1>4 DEF allVars
<1> QED BY <1>1, <1>2, <1>3, <1>4, DispatchImplements DEF MexNext

\* Whatever its arguments are, mexFunction does to the table what ConnTable
\* says (mym.cpp:380-936).
THEOREM MexImplementsTable == MexSpec => ImplementsTable
<1>1. MexInit => Init
  BY DEF MexInit
<1> QED BY <1>1, MexStep, PTL DEF MexSpec, Spec, ImplementsTable

\* So no call, with whatever arguments, uses a structure that was freed, or one
\* of another slot (mym.cpp:485-580).
THEOREM MexNeverUsesAfterFree == MexSpec => []NoUseAfterFree
  BY MexImplementsTable, NeverUseAfterFree, PTL DEF ImplementsTable

-----------------------------------------------------------------------------
(* What a call names *)

\* The arguments behind the id, and those that the code counts from the
\* command on.
LEMMA BehindFacts ==
    ASSUME NEW S, prhs \in Seq(S)
    PROVE  /\ Behind(prhs) # << >> <=> Len(prhs) >= Jarg(prhs)
           /\ Behind(prhs) # << >> => Behind(prhs)[1] = prhs[Jarg(prhs)]
           /\ \A k \in DOMAIN Behind(prhs) :
                 /\ k + Jarg(prhs) - 1 \in Jarg(prhs) .. Len(prhs)
                 /\ Behind(prhs)[k] = prhs[k + Jarg(prhs) - 1]
<1>1. CASE HasId(prhs)
  <2>1. prhs # << >> /\ Len(prhs) \in Nat /\ Len(prhs) >= 1
    BY <1>1 DEF HasId
  <2>2. /\ Behind(prhs) \in Seq(S) /\ Len(Behind(prhs)) = Len(prhs) - 1
        /\ \A k \in 1 .. Len(prhs) - 1 : Behind(prhs)[k] = prhs[k + 1]
    BY <1>1, <2>1 DEF Behind
  <2>3. Behind(prhs) # << >> <=> Len(prhs) >= 2
    BY <2>1, <2>2
  <2>4. DOMAIN Behind(prhs) = 1 .. Len(prhs) - 1
    BY <2>2
  <2> QED BY <1>1, <2>1, <2>2, <2>3, <2>4 DEF Jarg
<1>2. CASE ~ HasId(prhs)
  <2>1. Behind(prhs) = prhs /\ Jarg(prhs) = 1
    BY <1>2 DEF Behind, Jarg
  <2>2. Len(prhs) \in Nat /\ DOMAIN prhs = 1 .. Len(prhs)
        /\ (prhs # << >> <=> Len(prhs) >= 1)
    OBVIOUS
  <2> QED BY <2>1, <2>2
<1> QED BY <1>1, <1>2

\* What a text is when it is recognised as a command.
LEMMA RecogniseFacts ==
    ASSUME NEW t
    PROVE  /\ Recognise(t) = "open" => t.word = "open"
           /\ Recognise(t) = "closeall" => t.word = "closeall"
           /\ Recognise(t) = "status" => t.word = "status"
           /\ Recognise(t) \in {"serialize", "deserialize"} => t.has # {}
           /\ Recognise(t) = "cmd" => t.word \notin Words /\ t.use = FALSE
<1> QED BY DEF Recognise, Words

\* The number of arguments.
LEMMA LenIsNat ==
    ASSUME NEW S, prhs \in Seq(S)
    PROVE  Len(prhs) \in Nat
  OBVIOUS

\* What the checks let through is a call of the documentation.
LEMMA AcceptedIsWellFormed ==
    ASSUME NEW S, prhs \in Seq(S), Accepted(prhs)
    PROVE  WellFormed(prhs)
<1> DEFINE rest == Behind(prhs)
<1>1. IdOf(prhs) \in -1 .. MaxConn - 1
  BY TableAssumption DEF IdOf, Accepted, IdAccepted, ValidId
<1>2. rest # << >> => IsText(rest[1])
  BY BehindFacts DEF Accepted, CommandPresent
<1>3. \/ IsStatement(rest)
      \/ rest # << >> /\ rest[1].has # {}
      \/ \A k \in DOMAIN rest : IsText(rest[k])
  <2>1. CASE Command(prhs) \in {"cmd", "serialize", "deserialize"}
    <3>1. Len(prhs) >= Jarg(prhs)
      BY <2>1, LenIsNat DEF Command, Jarg
    <3>2. rest # << >> /\ Recognise(rest[1]) = Command(prhs)
      BY <3>1, BehindFacts, LenIsNat DEF Command, Jarg
    <3>3. \/ rest[1].has # {}
          \/ rest[1].word \notin Words /\ rest[1].use = FALSE /\ rest[1].has = {}
      BY <2>1, <3>2, RecogniseFacts
    <3> QED BY <1>2, <3>2, <3>3 DEF IsStatement
  <2>2. CASE AllTexts(prhs)
    BY <2>2, BehindFacts DEF AllTexts
  <2> QED BY <2>1, <2>2 DEF Accepted, ArgumentsAccepted
<1>4. IdOf(prhs) = -1 => rest # << >> /\ rest[1].word = "open"
  <2> SUFFICES ASSUME IdOf(prhs) = -1 PROVE rest # << >> /\ rest[1].word = "open"
    OBVIOUS
  <2>1. Automatic(prhs)
    BY DEF IdOf, Automatic
  <2>2. Command(prhs) = "open"
    BY <2>1 DEF Accepted
  <2>3. rest # << >> /\ Recognise(rest[1]) = "open"
    BY <2>2, BehindFacts, LenIsNat DEF Command, Jarg
  <2> QED BY <2>3, RecogniseFacts
<1> QED BY <1>1, <1>2, <1>3, <1>4 DEF WellFormed

\* A call about one slot names it; so does an automatic open that has chosen
\* its slot; closeall and the report name all of them.
AboutOne == Accepted(prhs) /\ ~ Automatic(prhs) /\ cid = Cid(prhs)
AboutFree == Accepted(prhs) /\ Automatic(prhs) /\ FirstFree(cid)
AboutAll == /\ Accepted(prhs)
            /\ \/ Command(prhs) = "closeall"
               \/ Command(prhs) = "status" /\ ~ HasId(prhs) /\ nlhs = 0

\* A call with a slot of its own names that slot.
LEMMA OneIsNamed ==
    ASSUME NEW S, prhs \in Seq(S), Accepted(prhs), ~ Automatic(prhs)
    PROVE  Cid(prhs) \in Named(prhs, nlhs)
<1>1. WellFormed(prhs)
  BY AcceptedIsWellFormed
<1>2. Cid(prhs) \in Slot
  BY CidIsSlot
<1>3. IdOf(prhs) = Cid(prhs) /\ IdOf(prhs) # -1
  BY DEF IdOf, Cid, Automatic
<1> QED BY <1>1, <1>2, <1>3 DEF Named

\* Connection -1 names the first free slot.
LEMMA FreeIsNamed ==
    ASSUME NEW S, prhs \in Seq(S), Accepted(prhs), Automatic(prhs),
           NEW i, FirstFree(i)
    PROVE  i \in Named(prhs, nlhs)
<1>1. WellFormed(prhs)
  BY AcceptedIsWellFormed
<1>2. IdOf(prhs) = -1
  BY DEF IdOf, Automatic
<1> QED BY <1>1, <1>2 DEF Named, FirstFree

\* closeall and the report name all slots.
LEMMA AllAreNamed ==
    ASSUME NEW S, prhs \in Seq(S), AboutAll
    PROVE  Named(prhs, nlhs) = Slot
<1> DEFINE rest == Behind(prhs)
<1>1. WellFormed(prhs)
  BY AcceptedIsWellFormed DEF AboutAll
<1>2. CASE Command(prhs) = "closeall"
  <2>1. rest # << >> /\ Recognise(rest[1]) = "closeall"
    BY <1>2, BehindFacts, LenIsNat DEF Command, Jarg
  <2>2. rest # << >> /\ rest[1].word = "closeall"
    BY <2>1, RecogniseFacts
  <2> QED BY <1>1, <2>2 DEF Named
<1>3. CASE Command(prhs) = "status" /\ ~ HasId(prhs) /\ nlhs = 0
  <2>1. rest = << >> \/ Recognise(rest[1]) = "status"
    BY <1>3, BehindFacts, LenIsNat DEF Command, Jarg
  <2>2. rest = << >> \/ rest[1].word = "status"
    BY <2>1, RecogniseFacts
  <2> QED BY <1>1, <1>3, <2>2 DEF Named
<1> QED BY <1>2, <1>3 DEF AboutAll

-----------------------------------------------------------------------------
(* A call and the slots it names *)

\* What a call that waits for an answer is about.
CallNamed ==
    /\ prhs \in Seq(ToSet(prhs)) /\ nlhs \in Nat
    /\ entered => pc = "idle"
    /\ pc \in {"connect", "stat"} => AboutOne \/ AboutFree
    /\ pc = "statval" => AboutOne
    /\ pc = "report" => AboutAll

\* The step changes no other slot than those of is.
Touches(is) ==
    \A i \in Slot \ is : conn'[i] = conn[i] /\ (i \in isopen') = (i \in isopen)

\* What the steps of the table change.
LEMMA OpenTouches ==
    ASSUME TypeOK, NEW i \in Slot, OpenAt(i)
    PROVE  Touches({i}) /\ isopen' = isopen \ {i} /\ pc' \in {"idle", "connect"}
<1>1. conn \in [Slot -> Handle \cup {NULL}]
  BY DEF TypeOK
<1> QED BY <1>1 DEF OpenAt, DialNew, DialAgain, Touches, tableVars, Wait, Error

LEMMA ShutTouches ==
    ASSUME NEW is, Shut(is)
    PROVE  Touches(is)
  BY DEF Shut, Touches

LEMMA PingTouches ==
    ASSUME NEW i, PingOK(i) \/ PingFails(i)
    PROVE  Touches({i})
  BY DEF PingOK, PingFails, Touches, tableVars

\* What the dispatch begins, and what the call is about when it goes on.
LEMMA DispatchTouches ==
    ASSUME TypeOK, CallNamed, DispatchCall
    PROVE  /\ Touches(Named(prhs, nlhs))
           /\ pc' \in {"connect", "stat"} => AboutOne' \/ AboutFree'
           /\ pc' = "statval" => AboutOne'
           /\ pc' = "report" => AboutAll'
<1> DEFINE Going == /\ pc' \in {"connect", "stat"} => AboutOne' \/ AboutFree'
                    /\ pc' = "statval" => AboutOne'
                    /\ pc' = "report" => AboutAll'
           Goal == Touches(Named(prhs, nlhs)) /\ Going
<1> USE DEF Enter, Wait, Done, Value, Error
<1>1. pc' # "idle" => prhs' = prhs /\ nlhs' = nlhs
  BY DEF DispatchCall, Locals
<1>2. prhs \in Seq(ToSet(prhs)) /\ nlhs \in Nat /\ pc = "idle"
  BY DEF DispatchCall, CallNamed
<1>3. ASSUME NEW i, Touches({i}), i \in Named(prhs, nlhs)
      PROVE  Touches(Named(prhs, nlhs))
  BY <1>3 DEF Touches
<1>4. ASSUME NEW kind, Aside(kind) PROVE Goal
  BY <1>4 DEF Aside, Reject, Touches, tableVars
<1>5. ASSUME Accepted(prhs), ~ Automatic(prhs), NEW i \in Slot, i = Cid(prhs)
      PROVE  /\ i \in Named(prhs, nlhs)
             /\ pc' # "idle" /\ cid' = i => AboutOne'
  <2>1. i \in Named(prhs, nlhs)
    BY <1>2, <1>5, OneIsNamed
  <2>2. ASSUME pc' # "idle", cid' = i PROVE AboutOne'
    BY <1>1, <1>5, <2>2 DEF AboutOne
  <2> QED BY <2>1, <2>2
<1>6. ASSUME Accepted(prhs), DoOpen PROVE Goal
  <2>1. CASE ~ Automatic(prhs) /\ Open(Cid(prhs))
    <3>1. PICK i \in Slot : i = Cid(prhs)
      BY <1>6, <2>1, CidIsSlot
    <3>2. OpenAt(i) /\ cid' = i
      BY <2>1, <3>1 DEF Open
    <3>3. Touches({i}) /\ pc' \in {"idle", "connect"}
      BY <3>2, OpenTouches
    <3> QED BY <1>3, <1>5, <1>6, <2>1, <3>1, <3>2, <3>3
  <2>2. CASE Automatic(prhs) /\ OpenAuto
    <3>1. PICK i \in Slot : FirstFree(i) /\ cid' = i /\ OpenAt(i)
      BY <2>2 DEF OpenAuto
    <3>2. Touches({i}) /\ pc' \in {"idle", "connect"} /\ isopen' = isopen \ {i}
      BY <3>1, OpenTouches
    <3>3. i \in Named(prhs, nlhs)
      BY <1>2, <1>6, <2>2, <3>1, FreeIsNamed
    <3>4. isopen' = isopen
      BY <3>1, <3>2 DEF FirstFree
    <3>5. pc' # "idle" => AboutFree'
      BY <1>1, <1>6, <2>2, <3>1, <3>4 DEF AboutFree, FirstFree
    <3> QED BY <1>3, <3>2, <3>3, <3>5
  <2>3. CASE Aside("error")
    BY <1>4, <2>3
  <2> QED BY <1>6, <2>1, <2>2, <2>3 DEF DoOpen
<1>7. ASSUME Accepted(prhs), NEW i \in Slot, i = Cid(prhs), ~ Automatic(prhs),
             Close(i) \/ Use(i) \/ StatusId(i) \/ StatusVal(i) \/ Cmd(i)
      PROVE  Goal
  <2>1. CASE Close(i)
    <3>1. PICK is \in SUBSET {i} : Shut(is)
      BY <2>1 DEF Close
    <3>2. Touches(is)
      BY <3>1, ShutTouches
    <3>3. is \subseteq Named(prhs, nlhs)
      BY <1>5, <1>7, <3>1
    <3>4. pc' = "idle"
      BY <2>1 DEF Close
    <3> QED BY <3>2, <3>3, <3>4 DEF Touches
  <2>2. CASE Use(i) \/ StatusId(i) \/ StatusVal(i) \/ Cmd(i)
    <3>1. /\ PingOK(i) \/ PingFails(i)
          /\ pc' \in {"idle", "select", "statval", "query"} /\ cid' = i
      BY <2>2 DEF Use, StatusId, StatusVal, Cmd
    <3>2. Touches({i})
      BY <3>1, PingTouches
    <3> QED BY <1>3, <1>5, <1>7, <3>1, <3>2
  <2> QED BY <1>7, <2>1, <2>2
<1>8. ASSUME Accepted(prhs), CloseAll, Command(prhs) = "closeall" PROVE Goal
  <2>1. Named(prhs, nlhs) = Slot
    BY <1>2, <1>8, AllAreNamed DEF AboutAll
  <2>2. pc' = "idle"
    BY <1>8 DEF CloseAll
  <2> QED BY <2>1, <2>2 DEF Touches
<1>9. ASSUME Accepted(prhs), StatusAll, Command(prhs) = "status", ~ HasId(prhs), nlhs < 1
      PROVE  Goal
  <2>1. nlhs = 0
    BY <1>2, <1>9
  <2>2. Named(prhs, nlhs) = Slot
    BY <1>2, <1>9, <2>1, AllAreNamed DEF AboutAll
  <2>3. pc' \in {"idle", "report"}
    BY <1>9 DEF StatusAll
  <2>4. pc' = "report" => AboutAll'
    BY <1>1, <1>9, <2>1 DEF AboutAll
  <2> QED BY <2>2, <2>3, <2>4 DEF Touches
<1>10. ASSUME Accepted(prhs), DoClose \/ DoUse \/ DoStatus \/ DoCmd PROVE Goal
  <2>1. Command(prhs) # "open"
    BY <1>10 DEF DoClose, DoUse, DoStatus, DoCmd
  <2>2. ~ Automatic(prhs)
    BY <1>10, <2>1 DEF Accepted
  <2>3. PICK i \in Slot : i = Cid(prhs)
    BY <1>10, <2>2, CidIsSlot
  <2>4. \/ Close(i) \/ Use(i) \/ StatusId(i) \/ StatusVal(i) \/ Cmd(i)
        \/ CloseAll /\ Command(prhs) = "closeall"
        \/ StatusAll /\ Command(prhs) = "status" /\ ~ HasId(prhs) /\ nlhs < 1
        \/ \E kind \in Kinds : Aside(kind)
    BY <1>10, <2>3 DEF DoClose, DoUse, DoStatus, DoCmd, NotOpen, Kinds
  <2> QED BY <1>4, <1>7, <1>8, <1>9, <1>10, <2>2, <2>3, <2>4
<1>11. ASSUME DoWithoutTable PROVE Goal
  BY <1>4, <1>11 DEF DoWithoutTable
<1> QED BY <1>4, <1>6, <1>10, <1>11 DEF DispatchCall

\* The rest of a call changes the slot it is about, or any in the report.
LEMMA RestTouches ==
    ASSUME TypeOK, CallNamed, CallStep, op' \notin {"exit", "crash"}
    PROVE  Touches(Named(prhs, nlhs))
<1> USE DEF Enter, Stay, Wait, Done, Value, Error
<1>1. prhs \in Seq(ToSet(prhs))
  BY DEF CallNamed
<1>2. AboutOne => cid \in Named(prhs, nlhs)
  BY <1>1, OneIsNamed DEF AboutOne
<1>3. AboutFree => cid \in Named(prhs, nlhs)
  <2> SUFFICES ASSUME AboutFree PROVE cid \in Named(prhs, nlhs)
    OBVIOUS
  <2>1. PICK i \in Slot : i = cid
    BY DEF TypeOK
  <2> QED BY <1>1, <2>1, FreeIsNamed DEF AboutFree
<1>4. CASE Connect \/ SelectDb \/ Query \/ Store
  BY <1>4 DEF Connect, SelectDb, Query, Store, Touches, tableVars
<1>5. CASE Stat
  <2>1. cid \in Named(prhs, nlhs)
    BY <1>2, <1>3, <1>5 DEF CallNamed, Stat
  <2> QED BY <1>5, <2>1 DEF Stat, Touches
<1>6. CASE StatVal
  <2>1. cid \in Named(prhs, nlhs)
    BY <1>2, <1>6 DEF CallNamed, StatVal
  <2> QED BY <1>6, <2>1 DEF StatVal, Touches
<1>7. ASSUME NEW j \in Slot, ReportOne(j) PROVE Touches(Named(prhs, nlhs))
  <2>1. Named(prhs, nlhs) = Slot
    BY <1>1, <1>7, AllAreNamed DEF CallNamed, ReportOne
  <2> QED BY <2>1 DEF Touches
<1>8. ASSUME NEW o \in {"crash"}, ProcessEnds(o) PROVE FALSE
  BY <1>8 DEF ProcessEnds
<1> QED BY <1>4, <1>5, <1>6, <1>7, <1>8 DEF CallStep, SelectDbCrashes, ReportOneCrashes

\* What a call is about stays so while it waits.
LEMMA CallNamedStep ==
    ASSUME TypeOK, CallNamed, [MexNext]_allVars
    PROVE  CallNamed'
<1> USE DEF Enter, Stay, Wait, Done, Value, Error
<1> DEFINE ListOK == prhs \in Seq(ToSet(prhs)) /\ nlhs \in Nat
<1>1. ASSUME Locals PROVE ListOK'
  <2>1. << >> \in Seq(ToSet(<< >>)) /\ 0 \in Nat
    OBVIOUS
  <2> QED BY <1>1, <2>1 DEF Locals, CallNamed
<1>2. ASSUME NEW call \in Calls, CallMex(call) PROVE CallNamed'
  BY <1>2, CallsAssumption DEF CallMex, CallNamed, vars, callVars
<1>3. CASE DispatchCall
  <2>1. ListOK' /\ entered' = FALSE
    BY <1>1, <1>3 DEF DispatchCall
  <2> QED BY <1>3, <2>1, DispatchTouches DEF CallNamed
<1>4. CASE GoOn
  <2>1. ListOK' /\ entered' = entered
    BY <1>1, <1>4 DEF GoOn
  <2>2. CASE Connect
    <3>1. /\ pc = "connect" /\ pc' \in {"idle", "stat"} /\ cid' = cid /\ isopen' = isopen
      BY <2>2 DEF Connect, tableVars
    <3>2. pc' # "idle" => prhs' = prhs
      BY <1>4 DEF GoOn, Locals
    <3>3. AboutOne \/ AboutFree
      BY <3>1 DEF CallNamed
    <3>4. pc' = "stat" => AboutOne' \/ AboutFree'
      BY <3>1, <3>2, <3>3 DEF AboutOne, AboutFree, FirstFree
    <3> QED BY <2>1, <3>1, <3>4 DEF CallNamed
  <2>3. CASE Stat \/ SelectDb \/ StatVal \/ Query \/ Store
    <3>1. pc' \in {"idle", "store"} /\ pc # "idle" /\ (pc' = "idle" \/ ~ entered)
      BY <2>3 DEF Stat, SelectDb, StatVal, Query, Store, CallNamed
    <3> QED BY <2>1, <3>1 DEF CallNamed
  <2>4. ASSUME NEW j \in Slot, ReportOne(j) PROVE CallNamed'
    <3>1. pc' \in {"idle", "report"} /\ pc = "report" /\ AboutAll
      BY <2>4 DEF ReportOne, CallNamed
    <3>2. pc' # "idle" => prhs' = prhs /\ nlhs' = nlhs
      BY <1>4 DEF GoOn, Locals
    <3> QED BY <2>1, <3>1, <3>2 DEF CallNamed, AboutAll
  <2>5. ASSUME NEW o \in {"crash"}, ProcessEnds(o) PROVE CallNamed'
    BY <2>1, <2>5 DEF ProcessEnds, CallNamed
  <2> QED
    BY <1>4, <2>2, <2>3, <2>4, <2>5
       DEF GoOn, CallStep, SelectDbCrashes, ReportOneCrashes
<1>5. CASE Around
  <2>1. CASE Drop /\ UNCHANGED mexVars
    BY <2>1 DEF Drop, tableVars, callVars, mexVars, CallNamed, AboutOne, AboutFree,
                AboutAll, FirstFree
  <2>2. CASE ~ entered /\ ClearMex /\ UNCHANGED mexVars
    BY <2>2 DEF ClearMex, mexVars, CallNamed
  <2>3. CASE ProcessEnds("exit") /\ entered' = FALSE /\ Locals
    BY <1>1, <2>3 DEF ProcessEnds, CallNamed
  <2> QED BY <1>5, <2>1, <2>2, <2>3 DEF Around
<1>6. CASE UNCHANGED allVars
  BY <1>6 DEF allVars, mexVars, vars, tableVars, callVars, CallNamed, AboutOne,
              AboutFree, AboutAll, FirstFree
<1> QED BY <1>2, <1>3, <1>4, <1>5, <1>6 DEF MexNext

\* The table's invariant and this one, for the theorems below.
LEMMA CallNamedAlways == MexSpec => [](ConnInv /\ CallNamed)
<1>1. MexInit => CallNamed
  <2>1. << >> \in Seq(ToSet(<< >>)) /\ 0 \in Nat
    OBVIOUS
  <2> QED BY <2>1 DEF MexInit, Init, CallNamed
<1>2. ConnInv /\ CallNamed /\ [MexNext]_allVars => CallNamed'
  BY CallNamedStep DEF ConnInv
<1>3. MexSpec => []ConnInv
  BY MexImplementsTable, Inductive, PTL DEF ImplementsTable
<1> QED BY <1>1, <1>2, <1>3, PTL DEF MexSpec

\* Every step of a call.
LEMMA NamedStep ==
    ASSUME ConnInv, CallNamed, [MexNext]_allVars, InCall, op' \notin {"exit", "crash"},
           NEW i \in Slot, conn'[i] # conn[i] \/ (i \in isopen) # (i \in isopen')
    PROVE  i \in Named(prhs, nlhs)
<1>1. TypeOK
  BY DEF ConnInv
<1>2. ASSUME Touches(Named(prhs, nlhs)) PROVE i \in Named(prhs, nlhs)
  BY <1>2 DEF Touches
<1>3. ASSUME NEW call \in Calls, CallMex(call) PROVE FALSE
  BY <1>3 DEF CallMex, InCall
<1>4. CASE DispatchCall
  BY <1>1, <1>2, <1>4, DispatchTouches
<1>5. CASE GoOn
  BY <1>1, <1>2, <1>5, RestTouches DEF GoOn
<1>6. CASE Around
  BY <1>6 DEF Around, Drop, ClearMex, ProcessEnds, Enter, tableVars, InCall
<1>7. CASE UNCHANGED allVars
  BY <1>7 DEF allVars, vars, tableVars
<1> QED BY <1>3, <1>4, <1>5, <1>6, <1>7 DEF MexNext

\* A call changes only the slots that its arguments name, whatever calls there
\* are (mym.cpp:394-480).
THEOREM OnlyNamedAreTouched == MexSpec => TouchesOnlyNamed
<1>1. ConnInv /\ CallNamed /\ [MexNext]_allVars =>
        [InCall /\ op' \notin {"exit", "crash"} =>
          \A i \in Slot :
             conn'[i] # conn[i] \/ (i \in isopen) # (i \in isopen') =>
                i \in Named(prhs, nlhs)]_allVars
  BY NamedStep
<1> QED BY <1>1, CallNamedAlways, PTL DEF MexSpec, TouchesOnlyNamed

-----------------------------------------------------------------------------
(* Statements *)

\* The dispatch of a statement.
LEMMA StatementStep ==
    ASSUME CallNamed, [MexNext]_allVars, entered, ~ entered', op' # "exit",
           WellFormed(prhs), IsStatement(Behind(prhs)), IdOf(prhs) \in isopen,
           isopen \subseteq Slot, Talks(conn[IdOf(prhs)])
    PROVE  pc' = "query" /\ cid' = IdOf(prhs)
<1>1. prhs \in Seq(ToSet(prhs)) /\ pc = "idle"
  BY DEF CallNamed
<1>2. DispatchCall
  <2>1. ~ CallStep
    BY <1>1 DEF CallStep, Connect, Stat, SelectDb, SelectDbCrashes, StatVal, Query,
                Store, ReportOne, ReportOneCrashes
  <2> QED BY <2>1 DEF MexNext, CallMex, GoOn, Around, ProcessEnds, Enter, allVars, mexVars
<1>3. Command(prhs) = "cmd"
  <2>1. /\ Behind(prhs) # << >> /\ Behind(prhs)[1].word \notin Words
        /\ ~ Behind(prhs)[1].use /\ Behind(prhs)[1].has = {}
    BY DEF IsStatement
  <2>2. Behind(prhs)[1] = prhs[Jarg(prhs)] /\ ~ (Len(prhs) < Jarg(prhs))
    BY <1>1, <2>1, BehindFacts, LenIsNat DEF Jarg
  <2>3. Recognise(Behind(prhs)[1]) = "cmd"
    BY <2>1 DEF Recognise
  <2> QED BY <2>2, <2>3 DEF Command
<1>4. Cid(prhs) = IdOf(prhs) /\ Cid(prhs) \in isopen
  BY DEF Cid, IdOf
<1>5. Accepted(prhs)
  <2>1. IdAccepted(prhs)
    BY TableAssumption DEF IdAccepted, WellFormed, IdOf, ValidId
  <2>2. CommandPresent(prhs)
    BY <1>1, BehindFacts DEF CommandPresent, WellFormed
  <2>3. ~ Automatic(prhs)
    <3>1. IdOf(prhs) # -1
      BY TableAssumption DEF Slot
    <3> QED BY <3>1 DEF Automatic, IdOf
  <2> QED BY <1>3, <2>1, <2>2, <2>3 DEF Accepted, ArgumentsAccepted
<1>6. DoCmd
  BY <1>2, <1>3, <1>5
     DEF DispatchCall, DoOpen, DoClose, DoUse, DoStatus, DoCmd, DoWithoutTable
<1>7. Cmd(Cid(prhs))
  BY <1>4, <1>6 DEF DoCmd, NotOpen
<1> QED BY <1>4, <1>7 DEF Cmd, PingFails, Unanswered, Enter, Wait

\* What is no command of mym is sent to the connection it names, if that
\* answers, whatever calls there are (mym.cpp:421-437).
THEOREM StatementsAlwaysReachServer == MexSpec => StatementsReachServer
<1>1. ConnInv /\ CallNamed /\ [MexNext]_allVars =>
        [entered /\ ~ entered' /\ op' # "exit" /\ WellFormed(prhs)
         /\ IsStatement(Behind(prhs)) /\ IdOf(prhs) \in isopen
         /\ Talks(conn[IdOf(prhs)])
         => pc' = "query" /\ cid' = IdOf(prhs)]_allVars
  BY StatementStep DEF ConnInv, TypeOK
<1> QED BY <1>1, CallNamedAlways, PTL DEF MexSpec, StatementsReachServer

-----------------------------------------------------------------------------
(* The id *)

\* With an id in front every argument is one place further back.
LEMMA WithId ==
    ASSUME NEW S, prhs \in Seq(S), NEW with, with = <<Number(0)>> \o prhs
    PROVE  /\ Len(prhs) \in Nat /\ Len(with) = Len(prhs) + 1
           /\ with # << >> /\ with[1] = Number(0)
           /\ \A k \in 1 .. Len(prhs) : with[k + 1] = prhs[k]
<1> DEFINE T == S \cup {Number(0)}
           id == Number(0)
<1>1. prhs \in Seq(T) /\ id \in T
  OBVIOUS
<1> HIDE DEF T, id
<1>2. <<id>> \in Seq(T) /\ Len(<<id>>) = 1 /\ <<id>>[1] = id
  BY <1>1
<1>3. /\ Len(<<id>> \o prhs) = 1 + Len(prhs) /\ <<id>> \o prhs \in Seq(T)
      /\ (<<id>> \o prhs)[1] = id
      /\ \A k \in 1 .. Len(prhs) : (<<id>> \o prhs)[k + 1] = prhs[k]
  BY <1>1, <1>2
<1>4. with = <<id>> \o prhs
  BY DEF id
<1>5. Len(prhs) \in Nat /\ Len(with) = Len(prhs) + 1 /\ with \in Seq(T)
  BY <1>1, <1>3, <1>4
<1>6. with # << >>
  BY <1>5
<1> QED BY <1>3, <1>4, <1>5, <1>6 DEF id

\* What the dispatch makes of a call with the id 0 in front.
LEMMA IdTransparent ==
    ASSUME NEW S, prhs \in Seq(S), ~ HasId(prhs),
           NEW with, with = <<Number(0)>> \o prhs
    PROVE  /\ Accepted(with) <=> Accepted(prhs)
           /\ Command(with) = Command(prhs)
           /\ Cid(with) = Cid(prhs)
           /\ \A k \in 1 .. 4 : Argument(with, k) = Argument(prhs, k)
           /\ Dialled(with) = Dialled(prhs)
           /\ Command(prhs) = "use" /\ Database(prhs) # "missing" =>
                 Database(with) = Database(prhs)
           /\ VersionAccepted(with, nlhs) <=> VersionAccepted(prhs, nlhs)
<1>1. /\ Len(prhs) \in Nat /\ Len(with) = Len(prhs) + 1
      /\ with # << >> /\ with[1] = Number(0)
      /\ \A k \in 1 .. Len(prhs) : with[k + 1] = prhs[k]
  BY WithId
<1>2. HasId(with) /\ Jarg(with) = 2 /\ Jarg(prhs) = 1 /\ with[1].val = 0
  BY <1>1 DEF HasId, Jarg, Number, IsNumber
<1>3. Command(with) = Command(prhs)
  BY <1>1, <1>2 DEF Command
<1>4. \A k \in 1 .. 4 : Argument(with, k) = Argument(prhs, k)
  <2> SUFFICES ASSUME NEW k \in 1 .. 4 PROVE Argument(with, k) = Argument(prhs, k)
    OBVIOUS
  <2>1. CASE Len(prhs) >= 1 + k
    <3>1. with[2 + k] = prhs[1 + k]
      BY <1>1, <2>1
    <3> QED BY <1>1, <1>2, <2>1, <3>1 DEF Argument
  <2>2. CASE ~ (Len(prhs) >= 1 + k)
    BY <1>1, <1>2, <2>2 DEF Argument
  <2> QED BY <2>1, <2>2
<1>5. Accepted(with) <=> Accepted(prhs)
  <2>1. IdAccepted(with) /\ IdAccepted(prhs)
    BY <1>2, TableAssumption DEF IdAccepted, ValidId
  <2>2. CommandPresent(with) <=> CommandPresent(prhs)
    BY <1>1, <1>2 DEF CommandPresent
  <2>3. AllTexts(with) <=> AllTexts(prhs)
    <3>1. ASSUME AllTexts(prhs), NEW k \in 2 .. Len(with) PROVE IsText(with[k])
      <4>1. k - 1 \in 1 .. Len(prhs) /\ with[(k - 1) + 1] = prhs[k - 1] /\ (k - 1) + 1 = k
        BY <1>1
      <4> QED BY <1>2, <3>1, <4>1 DEF AllTexts
    <3>2. ASSUME AllTexts(with), NEW k \in 1 .. Len(prhs) PROVE IsText(prhs[k])
      <4>1. k + 1 \in 2 .. Len(with) /\ with[k + 1] = prhs[k]
        BY <1>1
      <4>2. IsText(with[k + 1])
        BY <1>2, <3>2, <4>1 DEF AllTexts
      <4> QED BY <4>1, <4>2
    <3> QED BY <1>2, <3>1, <3>2 DEF AllTexts
  <2>4. ~ Automatic(with) /\ ~ Automatic(prhs)
    BY <1>2 DEF Automatic
  <2> QED BY <1>3, <2>1, <2>2, <2>3, <2>4 DEF Accepted, ArgumentsAccepted
<1>6. Cid(with) = Cid(prhs)
  BY <1>2 DEF Cid
<1>7. Dialled(with) = Dialled(prhs)
  BY <1>4 DEF Dialled, TlsMode, Tls
<1>8. ASSUME Command(prhs) = "use", Database(prhs) # "missing"
      PROVE  Database(with) = Database(prhs)
  <2>1. Len(prhs) >= 1 /\ with[2] = prhs[1]
    BY <1>1, <1>2, <1>8 DEF Command
  <2>2. CASE prhs[1].use
    BY <1>1, <1>2, <2>1, <2>2 DEF Database
  <2>3. CASE ~ prhs[1].use
    <3>1. Len(prhs) >= 2
      BY <1>1, <1>2, <1>8, <2>1, <2>3 DEF Database
    <3>2. /\ ~ (Len(prhs) < 2) /\ Len(prhs) \notin 2 .. 1
          /\ ~ (Len(with) < 2) /\ Len(with) \notin 2 .. 2
      BY <1>1, <3>1
    <3>3. Database(prhs) = "given"
      BY <1>2, <2>3, <3>2 DEF Database
    <3>4. Database(with) = "given"
      BY <1>2, <2>1, <2>3, <3>2 DEF Database
    <3> QED BY <3>3, <3>4
  <2> QED BY <2>2, <2>3
<1>9. VersionAccepted(with, nlhs) <=> VersionAccepted(prhs, nlhs)
  BY <1>1, <1>2 DEF VersionAccepted
<1> QED BY <1>3, <1>4, <1>5, <1>6, <1>7, <1>8, <1>9

\* The id 0 in front of a call makes no difference (src/mym.m:57), but for use
\* without a database, deserialize and status; for any calls.
THEOREM IdNeverMatters == MexSpec => []IdIsTransparent
<1>1. CallNamed => IdIsTransparent
  <2> SUFFICES ASSUME CallNamed, ~ HasId(prhs) PROVE IdIsTransparent
    BY DEF IdIsTransparent
  <2> DEFINE with == <<Number(0)>> \o prhs
  <2>1. prhs \in Seq(ToSet(prhs))
    BY DEF CallNamed
  <2>2. /\ Accepted(with) <=> Accepted(prhs)
        /\ Command(with) = Command(prhs)
        /\ Cid(with) = Cid(prhs)
        /\ \A k \in 1 .. 4 : Argument(with, k) = Argument(prhs, k)
        /\ Dialled(with) = Dialled(prhs)
        /\ Command(prhs) = "use" /\ Database(prhs) # "missing" =>
              Database(with) = Database(prhs)
        /\ VersionAccepted(with, nlhs) <=> VersionAccepted(prhs, nlhs)
    BY <2>1, IdTransparent
  <2>3. Accepted(with) \in BOOLEAN /\ Accepted(prhs) \in BOOLEAN
    BY DEF Accepted
  <2>4. /\ VersionAccepted(with, nlhs) \in BOOLEAN
        /\ VersionAccepted(prhs, nlhs) \in BOOLEAN
    BY DEF VersionAccepted
  <2> HIDE DEF with
  <2>5. /\ Accepted(with) = Accepted(prhs)
        /\ VersionAccepted(with, nlhs) = VersionAccepted(prhs, nlhs)
    BY <2>2, <2>3, <2>4
  <2> QED BY <2>2, <2>5 DEF IdIsTransparent, with
<1> QED BY <1>1, CallNamedAlways, PTL

-----------------------------------------------------------------------------
(* The server that is dialled *)

\* The digits as characters.
DigitChars == ToSet(Digits)

\* What the digits say, and that the colon is none.
LEMMA DigitFacts ==
    /\ \A d \in 0 .. 9 : Digits[d + 1] \in DigitChars /\ DigitOf(Digits[d + 1]) = d
    /\ ":" \notin DigitChars
<1>1. /\ Len(Digits) = 10 /\ DOMAIN Digits = 1 .. 10
      /\ DigitChars = {Digits[d] : d \in 1 .. 10}
  BY DEF Digits, DigitChars, ToSet
<1>2. \A d \in 0 .. 9 : d + 1 \in 1 .. 10
  OBVIOUS
<1>3. \A d, e \in 0 .. 9 : Digits[d + 1] = Digits[e + 1] => d = e
  BY DEF Digits
<1>4. ASSUME NEW d \in 0 .. 9 PROVE DigitOf(Digits[d + 1]) = d
  BY <1>3 DEF DigitOf
<1>5. ":" \notin DigitChars
  <2>1. \A d \in 1 .. 10 : Digits[d] # ":"
    BY DEF Digits
  <2> QED BY <1>1, <2>1
<1> QED BY <1>1, <1>2, <1>4, <1>5

\* g is the number after each of the digits of s.
Reads(g, s) ==
    /\ g \in [0 .. Len(s) -> Nat]
    /\ g[0] = 0
    /\ \A i \in 1 .. Len(s) : g[i] = 10 * g[i - 1] + DigitOf(s[i])

\* atoi of a text of digits.
LEMMA AtoiReads ==
    ASSUME NEW s \in Seq(DigitChars), NEW g, Reads(g, s)
    PROVE  atoi(s) = g[Len(s)]
<1>a. PICK n : n = Len(s)
  OBVIOUS
<1>1. n \in Nat /\ g \in [0 .. n -> Nat] /\ g[0] = 0
      /\ \A i \in 1 .. n : g[i] = 10 * g[i - 1] + DigitOf(s[i])
  BY <1>a DEF Reads
<1>2. LeadingDigits(s) = 0
  <2>1. {i \in 1 .. Len(s) : s[i] \notin ToSet(Digits)} = {}
    BY DEF DigitChars
  <2> QED BY <2>1 DEF LeadingDigits, SelectInSubSeq
<1> DEFINE G(v) == [i \in 0 .. n |-> IF i = 0 THEN 0 ELSE 10 * v[i - 1] + DigitOf(s[i])]
           f == CHOOSE v : v = G(v)
<1>3. atoi(s) = f[n]
  BY <1>a, <1>2 DEF atoi
<1>4. g = G(g)
  BY <1>1
<1>5. f = G(f)
  <2> HIDE DEF G
  <2> QED BY <1>4
<1> HIDE DEF f
<1> DEFINE T == {i \in Nat : i <= n => f[i] = g[i]}
<1>6. 0 \in T
  <2>1. 0 \in 0 .. n
    BY <1>1
  <2>2. f[0] = 0
    BY <1>5, <2>1
  <2> QED BY <1>1, <2>2
<1>7. ASSUME NEW i \in Nat, i \in T PROVE i + 1 \in T
  <2> SUFFICES ASSUME i + 1 <= n PROVE f[i + 1] = g[i + 1]
    OBVIOUS
  <2>1. i + 1 \in 0 .. n /\ i + 1 \in 1 .. n /\ i + 1 # 0 /\ (i + 1) - 1 = i /\ f[i] = g[i]
    BY <1>1, <1>7
  <2>2. f[i + 1] = 10 * f[i] + DigitOf(s[i + 1])
    BY <1>5, <2>1
  <2> QED BY <1>1, <2>1, <2>2
<1>8. n \in T
  <2> HIDE DEF T
  <2> QED BY <1>1, <1>6, <1>7, Induction
<1> QED BY <1>1, <1>3, <1>8, <1>a

\* A text of digits that says q.
Says(s, q) ==
    s \in Seq(DigitChars) /\ \E g : Reads(g, s) /\ g[Len(s)] = q

\* One digit says itself.
LEMMA OneDigitSays ==
    ASSUME NEW q \in 0 .. 9
    PROVE  Says(<<Digits[q + 1]>>, q)
<1>1. PICK s : s = <<Digits[q + 1]>>
  OBVIOUS
<1>2. s \in Seq(DigitChars) /\ Len(s) = 1 /\ DigitOf(s[1]) = q
  BY <1>1, DigitFacts
<1>3. PICK g : g = [i \in 0 .. 1 |-> IF i = 0 THEN 0 ELSE q]
  OBVIOUS
<1>4. Reads(g, s)
  <2>1. g \in [0 .. Len(s) -> Nat] /\ g[0] = 0
    BY <1>2, <1>3
  <2>2. ASSUME NEW i \in 1 .. Len(s) PROVE g[i] = 10 * g[i - 1] + DigitOf(s[i])
    <3>1. i = 1
      BY <1>2
    <3>2. g[1] = q /\ g[0] = 0
      BY <1>3
    <3> QED BY <1>2, <3>1, <3>2
  <2> QED BY <2>1, <2>2 DEF Reads
<1> QED BY <1>1, <1>2, <1>3, <1>4 DEF Says

\* One more digit says ten times as much and the digit.
LEMMA NextDigitSays ==
    ASSUME NEW q \in Nat, NEW s, Says(s, q), NEW d \in 0 .. 9
    PROVE  Says(Append(s, Digits[d + 1]), 10 * q + d)
<1>1. PICK g : Reads(g, s) /\ g[Len(s)] = q
  BY DEF Says
<1>a. PICK n : n = Len(s)
  OBVIOUS
<1>b. PICK t : t = Append(s, Digits[d + 1])
  OBVIOUS
<1>2. s \in Seq(DigitChars) /\ n \in Nat
  BY <1>a DEF Says
<1>3. /\ t \in Seq(DigitChars) /\ Len(t) = n + 1 /\ t[n + 1] = Digits[d + 1]
      /\ \A i \in 1 .. n : t[i] = s[i]
  BY <1>2, <1>a, <1>b, DigitFacts
<1>4. PICK h : h = [i \in 0 .. n + 1 |-> IF i <= n THEN g[i] ELSE 10 * q + d]
  OBVIOUS
<1>5. g \in [0 .. n -> Nat] /\ g[0] = 0 /\ g[n] = q
      /\ \A i \in 1 .. n : g[i] = 10 * g[i - 1] + DigitOf(s[i])
  BY <1>1, <1>a DEF Reads
<1>6. h \in [0 .. n + 1 -> Nat] /\ h[0] = 0 /\ h[n + 1] = 10 * q + d
  <2>1. ASSUME NEW i \in 0 .. n + 1 PROVE h[i] \in Nat
    BY <1>2, <1>4, <1>5
  <2>2. h[0] = 0 /\ h[n + 1] = 10 * q + d
    BY <1>2, <1>4, <1>5
  <2> QED BY <1>4, <2>1, <2>2
<1>7. ASSUME NEW i \in 1 .. n + 1 PROVE h[i] = 10 * h[i - 1] + DigitOf(t[i])
  <2>1. CASE i <= n
    <3>1. i \in 1 .. n /\ i - 1 \in 0 .. n
      BY <1>2, <2>1
    <3>2. h[i] = g[i] /\ h[i - 1] = g[i - 1]
      BY <1>2, <1>4, <3>1
    <3> QED BY <1>3, <1>5, <3>1, <3>2
  <2>2. CASE i = n + 1
    <3>1. h[i] = 10 * q + d /\ h[i - 1] = q
      BY <1>2, <1>4, <1>5, <2>2
    <3>2. DigitOf(t[i]) = d
      BY <1>3, <2>2, DigitFacts
    <3> QED BY <3>1, <3>2
  <2> QED BY <1>2, <2>1, <2>2
<1>8. Reads(h, t)
  BY <1>3, <1>6, <1>7 DEF Reads
<1>9. h[Len(t)] = 10 * q + d
  BY <1>3, <1>6
<1> QED BY <1>3, <1>8, <1>9, <1>b DEF Says

\* The recursive definition of Decimal has a value, and it is what it says.
Writes(f, m) ==
    f = [q \in 0 .. m |-> IF q < 10 THEN <<Digits[q + 1]>>
                          ELSE Append(f[q \div 10], Digits[(q % 10) + 1])]

LEMMA DecimalExists ==
    ASSUME NEW p \in Nat
    PROVE  \E f : Writes(f, p)
<1> DEFINE T == {m \in Nat : \E f : Writes(f, m)}
<1>1. 0 \in T
  <2>1. PICK f : f = [q \in 0 .. 0 |-> <<Digits[q + 1]>>]
    OBVIOUS
  <2>2. f = [q \in 0 .. 0 |-> IF q < 10 THEN <<Digits[q + 1]>>
                              ELSE Append(f[q \div 10], Digits[(q % 10) + 1])]
    BY <2>1
  <2> QED BY <2>2 DEF Writes
<1>2. ASSUME NEW m \in Nat, m \in T PROVE m + 1 \in T
  <2>1. PICK f : Writes(f, m)
    BY <1>2
  <2>2. PICK v : v = IF m + 1 < 10 THEN <<Digits[(m + 1) + 1]>>
                     ELSE Append(f[(m + 1) \div 10], Digits[((m + 1) % 10) + 1])
    OBVIOUS
  <2>3. PICK h : h = [q \in 0 .. m + 1 |-> IF q <= m THEN f[q] ELSE v]
    OBVIOUS
  <2>4. ASSUME NEW q \in 0 .. m + 1
        PROVE  h[q] = IF q < 10 THEN <<Digits[q + 1]>>
                      ELSE Append(h[q \div 10], Digits[(q % 10) + 1])
    <3>1. q >= 10 => q \div 10 \in 0 .. m /\ h[q \div 10] = f[q \div 10]
      <4>1. q >= 10 => q \div 10 \in 0 .. m
        OBVIOUS
      <4> QED BY <2>3, <4>1
    <3>2. CASE q <= m
      <4>1. q \in 0 .. m /\ h[q] = f[q]
        BY <2>3, <3>2
      <4>2. f[q] = IF q < 10 THEN <<Digits[q + 1]>>
                   ELSE Append(f[q \div 10], Digits[(q % 10) + 1])
        BY <2>1, <4>1 DEF Writes
      <4> QED BY <3>1, <4>1, <4>2
    <3>3. CASE q = m + 1
      <4>1. h[q] = v
        BY <2>3, <3>3
      <4> QED BY <2>2, <3>1, <3>3, <4>1
    <3> QED BY <3>2, <3>3
  <2>5. h = [q \in 0 .. m + 1 |-> h[q]]
    BY <2>3
  <2>6. Writes(h, m + 1)
    <3> HIDE <2>3
    <3> QED BY <2>4, <2>5 DEF Writes
  <2> QED BY <2>6
<1>3. p \in T
  <2> HIDE DEF T
  <2> QED BY <1>1, <1>2, Induction
<1> QED BY <1>3

\* A number is written with the digits that say it.
LEMMA DecimalSays ==
    ASSUME NEW p \in Nat
    PROVE  Says(Decimal(p), p)
<1> DEFINE W(f) == [q \in 0 .. p |-> IF q < 10 THEN <<Digits[q + 1]>>
                          ELSE Append(f[q \div 10], Digits[(q % 10) + 1])]
           d == CHOOSE f : f = W(f)
<1>1. Decimal(p) = d[p]
  BY DEF Decimal
<1>2. d = W(d)
  <2>1. \E f : f = W(f)
    BY DecimalExists DEF Writes
  <2> HIDE DEF W
  <2> QED BY <2>1
<1> HIDE DEF d
<1> DEFINE T == {m \in Nat : \A q \in 0 .. m : q <= p => Says(d[q], q)}
<1>3. ASSUME NEW q \in 0 .. 9, q <= p PROVE Says(d[q], q)
  <2>1. q \in 0 .. p
    BY <1>3
  <2>2. d[q] = <<Digits[q + 1]>>
    BY <1>2, <2>1
  <2> QED BY <2>2, OneDigitSays
<1>4. 0 \in T
  BY <1>3
<1>5. ASSUME NEW m \in Nat, m \in T PROVE m + 1 \in T
  <2> SUFFICES ASSUME m + 1 <= p PROVE Says(d[m + 1], m + 1)
    BY <1>5
  <2>1. CASE m + 1 < 10
    BY <1>3, <2>1
  <2>2. CASE m + 1 >= 10
    <3>1. PICK k : k = (m + 1) \div 10
      OBVIOUS
    <3>2. PICK c : c = (m + 1) % 10
      OBVIOUS
    <3>3. k \in 0 .. m /\ k <= p /\ c \in 0 .. 9 /\ 10 * k + c = m + 1
      BY <2>2, <3>1, <3>2
    <3>4. Says(d[k], k)
      BY <1>5, <3>3
    <3>5. Says(Append(d[k], Digits[c + 1]), 10 * k + c)
      <4>1. k \in Nat /\ c \in 0 .. 9
        BY <3>3
      <4>2. PICK s : s = d[k]
        OBVIOUS
      <4>3. Says(s, k)
        BY <3>4, <4>2
      <4>4. Says(Append(s, Digits[c + 1]), 10 * k + c)
        BY <4>1, <4>3, NextDigitSays
      <4> QED BY <4>2, <4>4
    <3>6. m + 1 \in 0 .. p /\ ~ (m + 1 < 10)
      BY <2>2
    <3>7. d[m + 1] = Append(d[k], Digits[c + 1])
      <4>1. d[m + 1] = IF m + 1 < 10 THEN <<Digits[(m + 1) + 1]>>
                       ELSE Append(d[(m + 1) \div 10], Digits[((m + 1) % 10) + 1])
        BY <1>2, <3>6
      <4>2. d[m + 1] = Append(d[(m + 1) \div 10], Digits[((m + 1) % 10) + 1])
        <5> HIDE <1>2
        <5> QED BY <3>6, <4>1
      <4> QED BY <3>1, <3>2, <4>2
    <3> QED BY <3>3, <3>5, <3>7
  <2> QED BY <2>1, <2>2
<1>6. p \in T
  <2> HIDE DEF T
  <2> QED BY <1>4, <1>5, Induction
<1> QED BY <1>1, <1>6

\* What was written is read again: the host up to the colon, the port behind it.
LEMMA HostportReadsWritten ==
    ASSUME NEW h \in Hosts, NEW p \in Ports
    PROVE  hostport(Written(h, p)) = [host |-> h, port |-> p]
<1>1. h \in Seq(ToSet(h)) /\ ":" \notin ToSet(h) /\ p \in Nat
  BY HostsAssumption
<1>a. PICK n : n = Len(h)
  OBVIOUS
<1>2. n \in Nat /\ \A i \in 1 .. n : h[i] # ":"
  BY <1>1, <1>a
<1>3. CASE p = 0
  <2>1. Written(h, p) = h
    BY <1>1, <1>3 DEF Written
  <2>2. {i \in 1 .. Len(h) : h[i] = ":"} = {}
    BY <1>2, <1>a
  <2>3. SelectInSeq(h, LAMBDA c : c = ":") = 0
    BY <2>2 DEF SelectInSeq
  <2> QED BY <1>3, <2>1, <2>3 DEF hostport
<1>4. CASE p # 0
  <2>1. PICK s : s = Decimal(p)
    OBVIOUS
  <2>2. PICK g : s \in Seq(DigitChars) /\ Reads(g, s) /\ g[Len(s)] = p
    BY <1>1, <2>1, DecimalSays DEF Says
  <2>3. atoi(s) = p
    BY <2>2, AtoiReads
  <2>4. PICK S : S = ToSet(h) \cup {":"} \cup DigitChars
    OBVIOUS
  <2>b. PICK cs : cs = h \o (<<":">> \o s)
    OBVIOUS
  <2>5. h \in Seq(S) /\ s \in Seq(S) /\ <<":">> \in Seq(S)
    BY <1>1, <2>2, <2>4
  <2>6. /\ cs \in Seq(S) /\ Len(cs) = n + 1 + Len(s) /\ Len(s) \in Nat
        /\ \A i \in 1 .. n : cs[i] = h[i]
        /\ cs[n + 1] = ":"
        /\ \A i \in 1 .. Len(s) : cs[n + 1 + i] = s[i]
    BY <1>2, <1>a, <2>5, <2>b
  <2>7. SelectInSeq(cs, LAMBDA c : c = ":") = n + 1
    <3> DEFINE I == {i \in 1 .. Len(cs) : cs[i] = ":"}
    <3>1. n + 1 \in I
      BY <1>2, <2>6
    <3>2. \A i \in I : n + 1 <= i /\ i \in Nat
      BY <1>2, <2>6
    <3>3. Min(I) = n + 1
      <4> HIDE DEF I
      <4>1. \A x \in I : (\A y \in I : x =< y) <=> x = n + 1
        BY <1>2, <3>1, <3>2
      <4> QED BY <3>1, <4>1 DEF Min
    <3>4. I # {}
      BY <3>1
    <3> QED BY <3>3, <3>4 DEF SelectInSeq
  <2>8. SubSeq(cs, 1, n) = h
    BY <1>2, <1>a, <2>5, <2>6
  <2>9. SubSeq(cs, n + 2, Len(cs)) = s
    BY <1>2, <2>5, <2>6
  <2>10. hostport(cs) = [host |-> SubSeq(cs, 1, (n + 1) - 1),
                         port |-> atoi(SubSeq(cs, (n + 1) + 1, Len(cs)))]
    BY <1>2, <2>7 DEF hostport
  <2>11. (n + 1) - 1 = n /\ (n + 1) + 1 = n + 2
    BY <1>2
  <2>12. Written(h, p) = cs
    BY <1>4, <2>1, <2>b DEF Written
  <2> QED BY <2>3, <2>8, <2>9, <2>10, <2>11, <2>12
<1> QED BY <1>3, <1>4

\* While an open waits it has dialled what its arguments say.
Dialling == pc \in {"connect", "stat"} => dialled = Dialled(prhs)

\* No other command begins with asking for the state of the server.
LEMMA DispatchNeverStat == DispatchCall => pc' # "stat"
<1> SUFFICES ASSUME DispatchCall PROVE pc' # "stat"
  OBVIOUS
<1> USE DEF Wait, Done, Value, Error
<1>1. ASSUME NEW kind, Aside(kind) PROVE pc' = "idle"
  BY <1>1 DEF Aside, Reject
<1>2. ASSUME NEW i, OpenAt(i) PROVE pc' \in {"idle", "connect"}
  BY <1>2 DEF OpenAt, DialNew, DialAgain
<1>3. DoOpen => pc' # "stat"
  BY <1>1, <1>2 DEF DoOpen, OpenAuto, Open
<1>4. DoClose \/ DoUse \/ DoStatus \/ DoCmd => pc' # "stat"
  BY <1>1 DEF DoClose, DoUse, DoStatus, DoCmd, NotOpen, Close, CloseAll, Use,
              StatusVal, StatusId, StatusAll, Cmd
<1>5. DoWithoutTable => pc' # "stat"
  BY <1>1 DEF DoWithoutTable
<1> QED BY <1>1, <1>3, <1>4, <1>5 DEF DispatchCall

LEMMA DiallingStep ==
    ASSUME CallNamed, Dialling, [MexNext]_allVars
    PROVE  Dialling'
<1>1. ASSUME NEW call \in Calls, CallMex(call) PROVE Dialling'
  BY <1>1 DEF CallMex, Dialling, vars, callVars
<1>2. CASE DispatchCall
  <2>1. pc' # "stat" /\ Locals
    BY <1>2, DispatchNeverStat DEF DispatchCall
  <2>2. pc' = "connect" => dialled' = Dialled(prhs) /\ prhs' = prhs
    BY <2>1 DEF Locals
  <2>3. prhs' = prhs => Dialled(prhs)' = Dialled(prhs)
    BY DEF Dialled, Argument, TlsMode, Tls, Jarg, HasId
  <2> QED BY <2>1, <2>2, <2>3 DEF Dialling
<1>3. CASE GoOn
  <2>1. CallStep /\ Locals
    BY <1>3 DEF GoOn
  <2>2. pc' \in {"connect", "stat"} => pc = "connect" /\ pc' = "stat"
    BY <2>1 DEF CallStep, Connect, Stat, SelectDb, SelectDbCrashes, StatVal, Query,
                Store, ReportOne, ReportOneCrashes, ProcessEnds, Wait, Done, Value, Error
  <2>3. pc' = "stat" => dialled' = dialled /\ prhs' = prhs
    BY <2>1 DEF Locals
  <2>4. prhs' = prhs => Dialled(prhs)' = Dialled(prhs)
    BY DEF Dialled, Argument, TlsMode, Tls, Jarg, HasId
  <2> QED BY <2>2, <2>3, <2>4 DEF Dialling
<1>4. CASE Around \/ UNCHANGED allVars
  <2>1. \/ pc' = "idle"
        \/ pc' = pc /\ prhs' = prhs /\ dialled' = dialled
    BY <1>4 DEF Around, Drop, ClearMex, ProcessEnds, Done, callVars, mexVars, allVars, vars
  <2>2. prhs' = prhs => Dialled(prhs)' = Dialled(prhs)
    BY DEF Dialled, Argument, TlsMode, Tls, Jarg, HasId
  <2> QED BY <2>1, <2>2 DEF Dialling
<1> QED BY <1>1, <1>2, <1>3, <1>4 DEF MexNext

\* What was dialled is what the arguments ask for.
LEMMA DialledAsAsked ==
    ASSUME CallNamed, Dialling
    PROVE  DialsAsAsked
<1> SUFFICES ASSUME pc \in {"connect", "stat"} PROVE DialsAsAsked
  BY DEF DialsAsAsked
<1> DEFINE rest == Behind(prhs)
<1>1. prhs \in Seq(ToSet(prhs)) /\ dialled = Dialled(prhs)
  BY DEF CallNamed, Dialling
<1>2. /\ Len(rest) \in Nat
      /\ \A k \in 1 .. 4 :
            Argument(prhs, k) = IF Len(rest) >= k + 1 THEN rest[k + 1] ELSE Word("absent")
  <2>1. CASE HasId(prhs)
    <3>1. prhs # << >> /\ rest = Tail(prhs) /\ Jarg(prhs) = 2
      BY <2>1 DEF HasId, Behind, Jarg
    <3>2. /\ Len(rest) = Len(prhs) - 1 /\ Len(rest) \in Nat
          /\ \A k \in 1 .. Len(prhs) - 1 : rest[k] = prhs[k + 1]
      BY <1>1, <3>1
    <3>3. ASSUME NEW k \in 1 .. 4
          PROVE  Argument(prhs, k) = IF Len(rest) >= k + 1 THEN rest[k + 1] ELSE Word("absent")
      <4>1. Len(prhs) >= 2 + k <=> Len(rest) >= k + 1
        BY <3>2
      <4>2. Len(rest) >= k + 1 => rest[k + 1] = prhs[2 + k]
        <5> SUFFICES ASSUME Len(rest) >= k + 1 PROVE rest[k + 1] = prhs[2 + k]
          OBVIOUS
        <5>1. k + 1 \in 1 .. Len(prhs) - 1 /\ (k + 1) + 1 = 2 + k
          BY <3>2
        <5> QED BY <3>2, <5>1
      <4> QED BY <3>1, <4>1, <4>2 DEF Argument
    <3> QED BY <3>2, <3>3
  <2>2. CASE ~ HasId(prhs)
    BY <1>1, <2>2 DEF Behind, Jarg, Argument
  <2> QED BY <2>1, <2>2
<1>3. ASSUME NEW h \in Hosts, NEW p \in Ports, Len(rest) >= 2, rest[2].chars = Written(h, p)
      PROVE  dialled.to = [host |-> h, port |-> p]
  <2>1. Argument(prhs, 1) = rest[2]
    BY <1>2, <1>3
  <2>2. dialled.to = hostport(Written(h, p))
    BY <1>1, <1>3, <2>1 DEF Dialled
  <2> QED BY <2>2, HostportReadsWritten
<1>4. dialled.tls =
         IF Len(rest) >= 5 /\ rest[5].word = "true" THEN "required"
         ELSE IF Len(rest) >= 5 /\ rest[5].word = "false" THEN "disabled"
         ELSE "preferred"
  <2>1. Tls(prhs) = IF Len(rest) >= 5 THEN rest[5].word ELSE "absent"
    <3>1. Argument(prhs, 4) = IF Len(rest) >= 5 THEN rest[5] ELSE Word("absent")
      BY <1>2
    <3> QED BY <3>1 DEF Tls, Word, Text
  <2>2. dialled.tls = TlsMode(prhs)
    BY <1>1 DEF Dialled
  <2> QED BY <2>1, <2>2 DEF TlsMode
<1> QED BY <1>3, <1>4 DEF DialsAsAsked

\* The server that is dialled is the one that was asked for, with the encryption
\* that was asked for, whatever the host and the port are, and still is when the
\* answer comes (mym.cpp:490-529, mym.h:131-139).
THEOREM AlwaysDialsAsAsked == MexSpec => []DialsAsAsked
<1>1. MexInit => Dialling
  BY DEF MexInit, Init, Dialling
<1>2. CallNamed /\ Dialling /\ [MexNext]_allVars => Dialling'
  BY DiallingStep
<1>3. CallNamed /\ Dialling => DialsAsAsked
  BY DialledAsAsked
<1> QED BY <1>1, <1>2, <1>3, CallNamedAlways, PTL DEF MexSpec
=============================================================================
