--------------------------- MODULE MCPageScripts ---------------------------
(***************************************************************************)
(* Instance of PageScripts for model checking.                             *)
(***************************************************************************)
EXTENDS PageScripts

MCPaths == {"home", "decodetx", "nodes", "error"}
MCRoot == [p \in MCPaths |->
             CASE p = "home" -> "" [] p = "error" -> "error" [] OTHER -> "explorer"]

MCNodeLists ==
    LET Item(country, count) == [country |-> country, count |-> count]
    IN {<<Item("A", 2)>>, <<Item("A", 3), Item("B", 1)>>}

\* Around the borders of the units, and everything small.
MCSizes ==
    0..130 \union 990..1010 \union 9940..9960 \union 12445..12455
      \union 99940..99960 \union 999940..1000060 \union {393216, 1250000, 2999999}
MCAges ==
    -5..130 \union 3590..3670 \union UNION {
      {n * u + d : d \in {-61, -60, -59, -1, 0, 1, 59, 60, 3600}} :
        n \in {1, 2, 11, 12, 13}, u \in {86400, 2592000, 31536000}}
\* Of the ties, 1.2345, 1.005 and 1.0005 have a double below them, 8.345 and 0.00005
\* one above, and 1.25 is a double.
MCAmounts == 0..12 \union {99999999, 100000000, 100000001, 123450000, 150000000,
                           109999999, 1000000000, 100500000, 100050000, 834500000,
                           125000000, 5000}

\* Queries of up to three parameters.
MCQueries ==
    LET P(k, v) == [key |-> k, value |-> v]
        Params == {P("__ECDIST__", v) : v \in {NoValue, "", "webpack-req-ec", "4.9.0", "x"}}
                    \union {P("__RENDERER__", "svg"), P("", NoValue)}
    IN UNION {[1..n -> Params] : n \in 1..3}

MCCalls ==
    {[name |-> "bytes", arg |-> s] : s \in MCSizes}
      \union {[name |-> "timeSince", arg |-> s] : s \in MCAges}
      \union {[name |-> "decimalParts", arg |-> a, precision |-> p] :
                a \in MCAmounts, p \in 0..9}
      \union {[name |-> "config", query |-> q] : q \in MCQueries}
=============================================================================
