---------------------------- MODULE PageScripts ----------------------------
(***************************************************************************)
(* The scripts of one browser tab: the socket and the map of the nodes     *)
(* share the page that Turbolinks shows; the conversions and the loader of *)
(* the charts are called with any input, and keep no state.                *)
(***************************************************************************)
EXTENDS MessageSocket, NodeMap, Humanize, ChartLoader

CONSTANTS
    NodesPage,    \* the path of the map's page
    Calls         \* calls of the conversions and of the loader

VARIABLES
    call,         \* the call made, NoValue in a tab with pages
    result        \* what it returned

vars == <<socketVars, mapVars, call, result>>

ASSUME NodesPageAssumption == NodesPage \in Paths

\* The calls made: sizes where the code's floating point is exact, whole seconds,
\* amounts whose digits a double has, and any query.
ASSUME CallsAssumption ==
    \A c \in Calls :
        \/ c.name = "bytes" /\ c.arg \in Nat /\ c.arg <= LargestExact
        \/ c.name = "timeSince" /\ c.arg \in Int
        \/ c.name = "decimalParts" /\ c.arg \in Nat /\ Representable(c.arg)
                                     /\ c.precision \in Nat
        \/ c.name = "config" /\ c.query \in Seq(Range(c.query))

\* The result of a call.
Evaluate(c) ==
    CASE c.name = "bytes" -> Bytes(c.arg)
      [] c.name = "timeSince" -> TimeSince(c.arg)
      [] c.name = "decimalParts" -> DecimalParts(c.arg, c.precision)
      [] c.name = "config" -> Load(c.query, NoValue, NoValue)

PageInit ==
    /\ Init
    /\ MapInit(page = NodesPage)
    /\ \/ call = NoValue /\ result = NoValue
       \/ /\ page = Home
          /\ \E c \in Calls : call = c /\ result = Evaluate(c)

Visit(loc) == VisitPage(loc) /\ PageShown(loc = NodesPage)

PageNext ==
    /\ call = NoValue
    /\ UNCHANGED <<call, result>>
    /\ \/ \E loc \in Paths : Visit(loc)
       \/ (SendRequest \/ SendNothing \/ EventLoop \/ Server) /\ UNCHANGED mapVars
       \/ MapNext /\ UNCHANGED socketVars

PageSpec == PageInit /\ [][PageNext]_vars

\* What a reader takes from a text is the value it was made from, to the last digit
\* shown: sizes, ages and amounts of humanize.js at their borders, where a unit is
\* full or a digit carries.  And the page loads the build that its URL asks for last,
\* the default one for anything else: config.js overwrites parameters, and falls back
\* twice.
ReadsBack ==
    call # NoValue =>
      CASE call.name = "bytes" -> BytesReadBack(call.arg, result)
        [] call.name = "timeSince" -> AgeReadBack(call.arg, result)
        [] call.name = "decimalParts" -> PartsReadBack(call.arg, call.precision, result)
        [] call.name = "config" -> LoadReadBack(call.query, result)
=============================================================================
