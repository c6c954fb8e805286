----------------------------- MODULE MysqlClient -----------------------------
(***************************************************************************)
(* The MySQL client library and the servers behind it, as far as mym.cpp   *)
(* uses them.  None of this code is in the repository's own sources: it is *)
(* modelled from the calls mym.cpp makes and from what it does with their  *)
(* results.                                                                *)
(*                                                                         *)
(* A handle is a MYSQL structure.  mysql_init(NULL) allocates one and      *)
(* remembers that mysql_close() has to free it; mysql_init(p) with a p     *)
(* that is not NULL clears the structure in place, forgetting whatever     *)
(* socket it held and that it has to be freed.  A session is the server's  *)
(* end of one connection.  No automatic reconnection is requested          *)
(* (mym.cpp:541-542 has it commented out), so a handle that lost its       *)
(* session never gets another one by itself.                               *)
(***************************************************************************)
EXTENDS Naturals, FiniteSets

CONSTANTS Handle,    \* the MYSQL structures an allocation can return
          Session,   \* the sessions the servers can grant
          NULL       \* no structure, no session

ASSUME NullAssumption == NULL \notin Handle \cup Session

VARIABLES
    mem,       \* the structures that are allocated
    freeMe,    \* those of them mysql_close() will also free
    sess,      \* sess[h]: the session at the other end of h's socket
    more,      \* the structures with results that were not read
    alive      \* the sessions the servers keep

clientVars == <<mem, freeMe, sess, more, alive>>

ClientTypeOK ==
    /\ mem \subseteq Handle
    /\ freeMe \subseteq Handle
    /\ sess \in [Handle -> Session \cup {NULL}]
    /\ more \subseteq Handle
    /\ alive \subseteq Session

ClientInit ==
    /\ mem = {}
    /\ freeMe = {}
    /\ sess = [h \in Handle |-> NULL]
    /\ more = {}
    /\ alive = {}

-----------------------------------------------------------------------------
\* mysql_init(h): the structure is cleared, not released.  A session that
\* was at the other end of its socket is neither ended nor remembered.
InitAgain(h) ==
    /\ freeMe' = freeMe \ {h}
    /\ sess' = [sess EXCEPT ![h] = NULL]
    /\ more' = more \ {h}
    /\ UNCHANGED <<mem, alive>>

\* mysql_close() on every structure of hs: the sessions end, and the
\* structures that mysql_init() allocated are freed.
CloseHandles(hs) ==
    /\ mem' = mem \ (hs \cap freeMe)
    /\ freeMe' = freeMe \ hs
    /\ sess' = [h \in Handle |-> IF h \in hs THEN NULL ELSE sess[h]]
    /\ more' = more \ hs
    /\ alive' = alive \ {sess[h] : h \in hs}

\* The same, and then mysql_init(NULL) returned the new structure g.  With
\* hs empty it is mysql_init(NULL) alone.
Renew(hs, g) ==
    LET left == mem \ (hs \cap freeMe)
    IN  /\ g \in Handle \ left
        /\ mem' = left \cup {g}
        /\ freeMe' = (freeMe \ hs) \cup {g}
        /\ sess' = [h \in Handle |-> IF h \in hs THEN NULL ELSE sess[h]]
        /\ more' = more \ hs
        /\ alive' = alive \ {sess[h] : h \in hs}

\* mysql_real_connect(h) got session s, one that nothing else refers to.
Connected(h, s) ==
    /\ s \in Session \ alive
    /\ \A g \in Handle : sess[g] # s
    /\ sess' = [sess EXCEPT ![h] = s]
    /\ alive' = alive \cup {s}
    /\ UNCHANGED <<mem, freeMe, more>>

\* A command sent on h would be answered: its session is there and no
\* result of an earlier command is waiting to be read.
Talks(h) ==
    /\ h \notin more
    /\ sess[h] \in alive

\* A command on h was not answered.  With results pending the library
\* refuses ("Commands out of sync") and keeps the socket; when the session
\* is gone it closes its own end.
Unanswered(h) ==
    /\ ~ Talks(h)
    /\ sess' = [sess EXCEPT ![h] = IF h \in more THEN @ ELSE NULL]
    /\ UNCHANGED <<mem, freeMe, more, alive>>

\* The session s ends on the server's side: a timeout, KILL, a restart.
ServerDrop(s) ==
    /\ s \in alive
    /\ alive' = alive \ {s}
    /\ UNCHANGED <<mem, freeMe, sess, more>>

\* The process that holds the library ends: so do its sessions.
ProcessEnd ==
    /\ mem' = {}
    /\ freeMe' = {}
    /\ sess' = [h \in Handle |-> NULL]
    /\ more' = {}
    /\ alive' = {}
=============================================================================
