------------------------------ MODULE NodeMap ------------------------------
(***************************************************************************)
(* The map of the network's nodes (public/js/node.js, views/node.tmpl).    *)
(* Each visit of its page asks the server for the nodes and then for the   *)
(* map of the world.  The answers come when they come: in any order        *)
(* between two visits, or when another page is shown.                      *)
(***************************************************************************)
EXTENDS Naturals, Sequences, SequencesExt

CONSTANTS
    NodeLists,    \* what the server may answer: sequences of [country, count]
    Nothing,      \* the answer null of a database without nodes; nothing shown
    MaxVisits     \* bound: visits of the page

VARIABLES
    mapPage,      \* the page shown has #nodestable and #main_chart
    visits,       \* how often it was visited
    requests,     \* the $.get calls that wait for their answers
    lost,         \* a request of the last visit failed, or there was nothing to show
    table,        \* the nodes in the table's body
    chart         \* the data and the scale of the chart

mapVars == <<mapPage, visits, requests, lost, table, chart>>

\* A request remembers the closure of its callback.
Request(visit, kind, nodes, maxNum) ==
    [visit |-> visit, kind |-> kind, nodes |-> nodes, maxNum |-> maxNum]

\* The first page of the tab.
MapInit(isMap) ==
    /\ mapPage = isMap
    /\ visits = IF isMap THEN 1 ELSE 0
    /\ requests = IF isMap THEN {Request(1, "nodes", <<>>, 0)} ELSE {}
    /\ lost = FALSE /\ table = Nothing /\ chart = Nothing

\* A page replaces the one before; if it is the map's, its script runs.
PageShown(isMap) ==
    /\ mapPage' = isMap
    /\ table' = Nothing /\ chart' = Nothing
    /\ \/ /\ isMap /\ visits < MaxVisits
          /\ visits' = visits + 1
          /\ requests' = requests \union {Request(visits + 1, "nodes", <<>>, 0)}
          /\ lost' = FALSE
       \/ ~isMap /\ UNCHANGED <<visits, requests, lost>>

\* Faulty: the last count instead of the largest.
LastNum(nodes) == IF nodes = <<>> THEN 0 ELSE nodes[Len(nodes)].count

\* The loop over the nodes: the largest count scales the colours.
MaxNum(nodes) ==
    FoldLeft(LAMBDA max, item : IF item.count > max THEN item.count ELSE max, 0, nodes)

\* The server counts nodes.
ASSUME NodeListsAssumption ==
    \A nodes \in NodeLists :
        nodes \in Seq(Range(nodes)) /\ \A i \in DOMAIN nodes : nodes[i].count \in Nat

\* Nothing is neither a list of nodes nor what is drawn from one.
ASSUME NothingAssumption ==
    \A nodes \in NodeLists :
        Nothing # nodes /\ Nothing # [data |-> nodes, max |-> MaxNum(nodes)]

LostNow(r) == lost \/ r.visit = visits

\* The answer with the nodes fills the table, if the page has one, and asks for the
\* world; null has no length, and the callback throws.
NodesAnswered(r) ==
    /\ r.kind = "nodes"
    /\ \/ \E nodes \in NodeLists :
            /\ table' = IF mapPage THEN nodes ELSE table
            /\ requests' = (requests \ {r}) \union
                             {Request(r.visit, "world", nodes, MaxNum(nodes))}
            /\ UNCHANGED lost
       \/ requests' = requests \ {r} /\ lost' = LostNow(r) /\ UNCHANGED table
    /\ UNCHANGED <<mapPage, visits, chart>>

\* The world arrives: the chart is drawn on the page shown now, whichever visit
\* asked.  Without #main_chart the initialization throws.
WorldAnswered(r) ==
    /\ r.kind = "world"
    /\ requests' = requests \ {r}
    /\ chart' = IF mapPage THEN [data |-> r.nodes, max |-> r.maxNum] ELSE chart
    /\ UNCHANGED <<mapPage, visits, lost, table>>

\* A request fails, or is redirected to the error page: no callback.
RequestFails(r) ==
    /\ requests' = requests \ {r}
    /\ lost' = LostNow(r)
    /\ UNCHANGED <<mapPage, visits, table, chart>>

MapNext == \E r \in requests : NodesAnswered(r) \/ WorldAnswered(r) \/ RequestFails(r)

-----------------------------------------------------------------------------
\* No count is above max, which is one of them, or 0.
ScaledTo(nodes, max) ==
    /\ \A i \in DOMAIN nodes : nodes[i].count <= max
    /\ max # 0 => \E i \in DOMAIN nodes : nodes[i].count = max

\* When the answers have come and none of the last visit's was lost, table and map
\* are there, whatever earlier visits left under way; and a map is scaled to its own
\* data.  The code: the callbacks draw on the page they find, not on their own.
MapShown ==
    /\ (mapPage /\ requests = {} /\ ~lost) => table # Nothing /\ chart # Nothing
    /\ chart # Nothing => ScaledTo(chart.data, chart.max)
=============================================================================
