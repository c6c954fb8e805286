---------------------------- MODULE MCMexFunction ----------------------------
(* A small instance of MexFunction for TLC. *)
EXTENDS MexFunction, TLC

MCHosts == {<< >>, <<"a">>}
MCPorts == {0, 7, 33, 3306}

HostText(cs) == [Word("host") EXCEPT !.chars = cs]
Statement == Word("select")

\* The arguments of open.
Opens ==
    LET hosts == {Written(h, p) : h \in MCHosts, p \in MCPorts}
                     \cup {<<"a", ":", "b">>, <<"a", ":", "7", ":", "3">>}
        tls4(t) == <<HostText(<<"a">>), Word("user"), Word("password"), Word(t)>>
    IN  {<<Word("open")>> \o t :
            t \in {<< >>} \cup {<<HostText(cs)>> : cs \in hosts}
                   \cup {tls4(t) : t \in {"true", "false", "nan", "{}"}}}

\* The commands whose outputs make a difference.
Outputs == {<< >>, <<Word("status")>>, <<Word("open")>>,
            <<Word("use"), Word("db")>>, <<Word("version")>>,
            <<Text("deserialize", FALSE, {"serialize", "deserialize"}), Number(3)>>}

Others == {
    <<Word("close")>>, <<Word("closeall")>>,
    <<Word("use")>>, <<Text("use db", TRUE, {})>>, <<Word("use-quoted")>>,
    <<Word("version"), Word("x")>>,
    <<Statement>>, <<Statement, Number(3)>>,
    <<Text("insert", FALSE, {"serialize"}), Number(3)>>,
    <<Text("deserialize", FALSE, {"serialize", "deserialize"})>>,
    <<Word("close"), Number(3)>>}

With(ids, lists) == {<<Number(i)>> \o a : i \in ids, a \in lists}

\* One number in front is an id, two are an id and no command.
MCCalls ==
    LET long == Opens \cup Others \cup Outputs
        short == Others \cup Outputs \cup {<<Number(3)>>}
                    \cup {o \in Opens : Len(o) = 5}
        edge == {<< >>, <<Word("open")>>, <<Word("close")>>, <<Statement>>}
        lists == long \cup With({1}, short) \cup With({-1, MaxConn}, edge)
    IN  [prhs : lists, nlhs : {0}]
          \cup [prhs : Outputs \cup With({1}, Outputs), nlhs : {1}]

Symm == Permutations(Handle) \cup Permutations(Session)
=============================================================================
