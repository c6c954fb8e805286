------------------------------ MODULE MexFunction ------------------------------
(***************************************************************************)
(* mexFunction as MATLAB calls it: the arguments and the number of outputs *)
(* of a call (Dispatch) decide what the call does to the connection table  *)
(* (ConnTable).  A call comes in, is dispatched, goes on with the steps of *)
(* ConnTable and returns; a server may act in between.                     *)
(*                                                                         *)
(* The arguments live as long as the call.  What outlives it is the table. *)
(***************************************************************************)
EXTENDS ConnTable

INSTANCE Dispatch WITH IdLimit <- MaxConn

CONSTANTS PutenvCopies,   \* does putenv keep a copy (Windows)?
          Calls,       \* the arguments and outputs a call may have
          Hosts,       \* the names of hosts in them
          Ports        \* and the ports

\* MATLAB gives a list of arguments and a number of outputs.
ASSUME CallsAssumption ==
    \A call \in Calls :
        call.prhs \in Seq(ToSet(call.prhs)) /\ call.nlhs \in Nat

\* The name of a host has no colon in it, and a port has 16 bits.
ASSUME HostsAssumption ==
    /\ \A h \in Hosts : h \in Seq(ToSet(h)) /\ ":" \notin ToSet(h)
    /\ \A p \in Ports : p \in Nat /\ p < 65536

VARIABLES
    entered,   \* a call has come in and is not yet dispatched
    prhs,      \* its arguments
    nlhs,      \* the number of its outputs
    plugindir, \* what LIBMYSQL_PLUGIN_DIR reads as in this process
    dialled    \* the host, the port and the encryption an open asks for

mexVars == <<entered, prhs, nlhs, plugindir, dialled>>
allVars == <<vars, mexVars>>

Nowhere == [to |-> [host |-> << >>, port |-> 0], tls |-> "none"]

MexInit ==
    /\ Init
    /\ entered = FALSE
    /\ prhs = << >>
    /\ nlhs = 0
    /\ plugindir = "unset"
    /\ dialled = Nowhere

-----------------------------------------------------------------------------
\* MATLAB makes a call.
CallMex(call) ==
    /\ pc = "idle"
    /\ ~ entered
    /\ entered' = TRUE
    /\ prhs' = call.prhs
    /\ nlhs' = call.nlhs
    /\ UNCHANGED <<vars, plugindir, dialled>>

\* The variables of the function: a call that returns forgets them.
Locals ==
    IF pc' = "idle" THEN prhs' = << >> /\ nlhs' = 0 /\ dialled' = Nowhere
    ELSE /\ UNCHANGED <<prhs, nlhs>>
         /\ dialled' = IF pc' = "connect" THEN Dialled(prhs) ELSE dialled

\* A call that changes nothing and gives an error, a value or nothing.
Aside(kind) == Reject /\ answer'.kind = kind

\* A call about a connection that is not open, and what it gives.
NotOpen(kind) == Cid(prhs) \notin isopen /\ Aside(kind)

-----------------------------------------------------------------------------
\* The environment is given an array of the function, which is gone when the
\* function returns: what it then reads as is what is on the stack.
updateplugindir ==
    plugindir' \in IF PutenvCopies THEN {"dir"} ELSE {"dir", "garbage"}

\* The encryption is looked at between mysql_init and mysql_real_connect.
DoOpen ==
    /\ Command(prhs) = "open"
    /\ \/ /\ IF Automatic(prhs) THEN OpenAuto ELSE Open(Cid(prhs))
          /\ conn'[cid'] # NULL => (TlsRefused(prhs) <=> pc' = "idle")
          /\ IF pc' = "connect" THEN updateplugindir ELSE UNCHANGED plugindir
       \/ /\ Automatic(prhs) /\ isopen = Slot /\ Aside("error")
          /\ UNCHANGED plugindir

DoClose ==
    \/ Command(prhs) = "close" /\ Close(Cid(prhs))
    \/ Command(prhs) = "closeall" /\ CloseAll

DoUse == Command(prhs) = "use" /\ (NotOpen("error") \/ Use(Cid(prhs)))

DoStatus ==
    /\ Command(prhs) = "status"
    /\ \/ nlhs >= 1 /\ (NotOpen("value") \/ StatusVal(Cid(prhs)))
       \/ nlhs < 1 /\ HasId(prhs) /\ (NotOpen("done") \/ StatusId(Cid(prhs)))
       \/ /\ nlhs < 1 /\ ~ HasId(prhs)
          /\ (isopen = {} /\ Aside("done")) \/ StatusAll

DoCmd == Command(prhs) = "cmd" /\ (NotOpen("error") \/ Cmd(Cid(prhs)))

\* The commands that need no connection.  A serialization may fail, and gives
\* nothing unless an output is asked for.
DoWithoutTable ==
    \/ /\ Command(prhs) = "serialize"
       /\ Aside("error") \/ Aside(IF nlhs > 0 /\ Len(prhs) > Jarg(prhs) THEN "value" ELSE "done")
    \/ /\ Command(prhs) = "deserialize"
       /\ Aside("error") \/ (DeserializeAccepted(prhs, nlhs) /\ Aside("value"))
    \/ /\ Command(prhs) = "version"
       /\ Aside(IF ~ VersionAccepted(prhs, nlhs) THEN "error"
                ELSE IF nlhs = 0 THEN "done" ELSE "value")

DispatchCall ==
    /\ entered
    /\ entered' = FALSE
    /\ \/ ~ Accepted(prhs) /\ Aside("error") /\ UNCHANGED plugindir
       \/ Accepted(prhs) /\ DoOpen
       \/ /\ Accepted(prhs)
          /\ DoClose \/ DoUse \/ DoStatus \/ DoCmd \/ DoWithoutTable
          /\ UNCHANGED plugindir
    /\ Locals

-----------------------------------------------------------------------------
\* A value is given to a caller that wants one, and to no other.
FitsOutputs ==
    /\ answer'.kind = "value" => nlhs >= 1
    /\ pc \in {"stat", "select", "store"} /\ answer'.kind = "done" => nlhs < 1

\* use asks the server when it has found a database; without one it is an
\* error, and with what is read behind the arguments it may be anything.
SelectFits ==
    CASE Database(prhs) = "given" ->
           op' # "crash" /\ (Talks(conn[cid]) \/ Unanswered(conn[cid]))
      [] Database(prhs) = "missing" ->
           sess' = sess /\ answer'.kind = "error"
      [] OTHER -> TRUE

\* The rest of a call.
GoOn ==
    /\ CallStep
    /\ FitsOutputs
    /\ pc = "select" => SelectFits
    /\ Locals
    /\ UNCHANGED entered
    /\ plugindir' = IF op' = "crash" THEN "unset" ELSE plugindir

\* A server drops a session; MATLAB unloads the MEX file between two calls,
\* or ends.
Around ==
    \/ Drop /\ UNCHANGED mexVars
    \/ ~ entered /\ ClearMex /\ UNCHANGED mexVars
    \/ /\ ProcessEnds("exit")
       /\ entered' = FALSE /\ plugindir' = "unset"
       /\ Locals

MexNext ==
    \/ \E call \in Calls : CallMex(call)
    \/ DispatchCall \/ GoOn \/ Around

MexSpec == MexInit /\ [][MexNext]_allVars

-----------------------------------------------------------------------------
(* What a call asks for, from the documentation. *)

Behind(a) == IF HasId(a) THEN Tail(a) ELSE a
IdOf(a) == IF HasId(a) THEN a[1].val ELSE 0
IsStatement(a) ==
    /\ a # << >> /\ IsText(a[1])
    /\ a[1].word \notin Words /\ ~ a[1].use /\ a[1].has = {}

\* The calls that are not errors of their own.
WellFormed(a) ==
    LET rest == Behind(a)
    IN  /\ IdOf(a) \in -1 .. MaxConn - 1
        /\ rest # << >> => IsText(rest[1])
        /\ \/ IsStatement(rest)
           \/ rest # << >> /\ rest[1].has # {}
           \/ \A k \in DOMAIN rest : IsText(rest[k])
        /\ IdOf(a) = -1 => rest # << >> /\ rest[1].word = "open"

\* The slots a call is about.
Named(a, n) ==
    LET rest == Behind(a)
        all  == \/ rest # << >> /\ rest[1].word = "closeall"
                \/ ~ HasId(a) /\ n = 0 /\ (rest = << >> \/ rest[1].word = "status")
    IN  IF ~ WellFormed(a) THEN {}
        ELSE IF all THEN Slot
        ELSE IF IdOf(a) = -1
             THEN {i \in Slot \ isopen : \A j \in Slot \ isopen : i <= j}
             ELSE {IdOf(a)}

InCall == entered \/ pc # "idle"

-----------------------------------------------------------------------------
(* Properties *)

\* However it is called, mexFunction does to the table only what ConnTable
\* says: what holds of the table holds behind the arguments (mym.cpp:380).
ImplementsTable == Spec

\* A call only changes the slots that its arguments name: the id, 0 without
\* one, the first free with -1, all with closeall and the report; and a call
\* that is refused, none, wherever the refusal comes (mym.cpp:394-480).
TouchesOnlyNamed ==
    [][InCall /\ op' \notin {"exit", "crash"} =>
          \A i \in Slot :
             conn'[i] # conn[i] \/ (i \in isopen) # (i \in isopen') =>
                i \in Named(prhs, nlhs)]_allVars

\* "Any command may be preceded by a connection handle" (src/mym.m:57): with
\* the id 0 in front a call is the same call.  Not so for use without a
\* database and for deserialize (AnyCommandTakesId below), and a status is that
\* of one connection then.
IdIsTransparent ==
    LET with == <<Number(0)>> \o prhs
    IN  entered /\ ~ HasId(prhs) =>
            /\ Accepted(with) = Accepted(prhs)
            /\ Accepted(prhs) =>
                  /\ Command(with) = Command(prhs)
                  /\ Cid(with) = Cid(prhs)
                  /\ \A k \in 1 .. 4 : Argument(with, k) = Argument(prhs, k)
                  /\ Command(prhs) = "open" => Dialled(with) = Dialled(prhs)
                  /\ Command(prhs) = "use" /\ Database(prhs) # "missing" =>
                        Database(with) = Database(prhs)
                  /\ VersionAccepted(with, nlhs) = VersionAccepted(prhs, nlhs)

\* "Send the given query or command to the MySQL server" (src/mym.m:83): what
\* is no command of mym goes to the query of the named connection, if that
\* answers, be it ever so like a command (mym.cpp:421-437).
StatementsReachServer ==
    [][entered /\ ~ entered' /\ op' # "exit" /\ WellFormed(prhs)
       /\ IsStatement(Behind(prhs)) /\ IdOf(prhs) \in isopen
       /\ Talks(conn[IdOf(prhs)])
       => pc' = "query" /\ cid' = IdOf(prhs)]_allVars

\* The digits of a number, as it is written.
Decimal(p) ==
    LET d[q \in 0 .. p] ==
            IF q < 10 THEN <<Digits[q + 1]>>
            ELSE Append(d[q \div 10], Digits[(q % 10) + 1])
    IN  d[p]

\* A host with its port, as it is written.
Written(h, p) == h \o (IF p = 0 THEN << >> ELSE <<":">> \o Decimal(p))

\* The server that is dialled is the one that was asked for, with the
\* encryption that was asked for, and still is when the answer comes
\* (mym.cpp:490-529, mym.h:131-139).
DialsAsAsked ==
    pc \in {"connect", "stat"} =>
        LET rest == Behind(prhs)
        IN  /\ \A h \in Hosts, p \in Ports :
                  Len(rest) >= 2 /\ rest[2].chars = Written(h, p) =>
                      dialled.to = [host |-> h, port |-> p]
            /\ dialled.tls =
                  IF Len(rest) >= 5 /\ rest[5].word = "true" THEN "required"
                  ELSE IF Len(rest) >= 5 /\ rest[5].word = "false" THEN "disabled"
                  ELSE "preferred"

-----------------------------------------------------------------------------
(* What the documentation says and the program does not do. *)

\* "Set LIBMYSQL_PLUGIN_DIR environment variable" (mym.cpp:327), for
\* the connection that is made next: the array that putenv was given is gone.
PluginDirSet == pc = "connect" => plugindir = "dir"

\* "Any command may be preceded by a connection handle" (src/mym.m:57), which
\* deserialize does not take: it wants two arguments and reads the second.
\* use without a database reads behind the arguments when there is one.
AnyCommandTakesId ==
    LET with == <<Number(0)>> \o prhs
    IN  entered /\ ~ HasId(prhs) /\ Accepted(prhs) =>
            /\ Command(prhs) = "deserialize" /\ DeserializeAccepted(prhs, nlhs) =>
                  /\ DeserializeAccepted(with, nlhs)
                  /\ Deserialized(with) = Deserialized(prhs)
            /\ Command(prhs) = "use" => Database(with) = Database(prhs)
=============================================================================
