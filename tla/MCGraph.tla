------------------------------- MODULE MCGraph -------------------------------
(* Two repositories for CodeGraph, each in two versions: a caller whose topic   *)
(* is named by a configuration key and whose gRPC stub and local call resolve   *)
(* in it or in the other one, and a callee whose key and methods change.        *)
EXTENDS CodeGraph, GraphWalk

U(k, t, n, p) == [kind |-> k, name |-> [tag |-> t, n |-> n, path |-> p]]
Ed(u, k, t, n, p) == [src |-> u, kind |-> k, name |-> [tag |-> t, n |-> n, path |-> p], base |-> 90]
Fn == U("function", "fn", 1, <<>>)
Rpc == U("rpc", "rpc", 1, <<1, 2>>)
Handler == U("function", "fn", 4, <<>>)
MCSources ==
  <<{[units |-> {Fn},
      edges |-> {Ed(Fn, "produces", "ref", 0, <<2>>), Ed(Fn, "consumes", "topic", 1, <<>>),
                  Ed(Fn, "rpc_call", "rpc", 1, <<2>>), Ed(Fn, "call", "fn", 1, <<>>)}],
     [units |-> {Fn}, edges |-> {Ed(Fn, "produces", "topic", 1, <<>>)}]},
    {[units |-> {U("config", "config", 1, <<1, 2>>), Rpc, Handler},
      edges |-> {Ed(Handler, "consumes", "topic", 1, <<>>)}],
     [units |-> {U("config", "config", 2, <<1, 2>>), Rpc, U("rpc", "rpc", 1, <<3, 2>>), Handler},
      edges |-> {Ed(Handler, "consumes", "ref", 0, <<2>>)}]}>>

(* A pool of edges over five units of four services for GraphWalk: a cycle of   *)
(* calls, a parameter that changes its name on the way, a table with two        *)
(* writers, a contract with two implementations and a flow between services.    *)
E1(n, s, d, k, a, b) == [no |-> n, src |-> s, dst |-> d, kind |-> k, arg |-> a, as |-> b, conf |-> n % 3]
MCEdgePool ==
  <<E1(1, 1, 3, "call", "x", "q"), E1(2, 1, 2, "rpc_call", "p", "p"), E1(3, 3, 2, "implements_rpc", "", ""),
    E1(4, 3, 4, "writes_to", "q", "q"), E1(5, 3, 4, "writes_to", "p", "p"), E1(6, 1, 4, "reads_from", "", ""),
    E1(7, 3, 1, "call", "q", "p"), E1(8, 3, 5, "kafka_flow", "q", "q"), E1(9, 5, 3, "call", "z", "p"), E1(10, 1, 4, "writes_to", "p", "p"), E1(11, 5, 2, "implements_rpc", "", "")>>
MCKind == <<"function", "rpc_method", "function", "db_table", "function">>
MCServiceOf == <<"a", "d", "b", "b", "c">>
MCAliases == [x |-> "y", y |-> "p", z |-> "z"]
==============================================================================
