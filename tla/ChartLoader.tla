---------------------------- MODULE ChartLoader ----------------------------
(***************************************************************************)
(* public/js/config.js: which build of echarts a page loads, and with      *)
(* which defaults, according to the parameters of its URL.                 *)
(***************************************************************************)
EXTENDS Naturals, Sequences

CONSTANTS
    Boilerplates,   \* the names in the script's table of builds
    Versions,       \* values with a digit or a point in them
    NoValue         \* undefined, also for a parameter without a value

\* A parameter without a value names no build.
ASSUME NoValueAssumption == NoValue \notin Boilerplates \union Versions

\* Neither undefined nor empty.
Truthy(value) == value \notin {NoValue, ""}

\* Faulty: the first parameter of a name counts.
FirstParam(query, key) ==
    LET given == {i \in DOMAIN query : query[i].key = key}
    IN IF given = {} THEN NoValue
       ELSE query[CHOOSE i \in given : \A j \in given : i <= j].value

\* params[key]: a later parameter of the same name overwrites an earlier one.
Param(query, key) ==
    LET given == {i \in DOMAIN query : query[i].key = key}
    IN IF given = {} THEN NoValue
       ELSE query[CHOOSE i \in given : \A j \in given : i >= j].value

\* The path of echarts for a value of __ECDIST__ (names that every JavaScript object
\* has, as "constructor", are left out).
EcDistPath(dist) ==
    CASE dist \in Boilerplates -> <<"boilerplate", dist>>
      [] dist \in Versions \ Boilerplates -> <<"version", dist>>
      [] OTHER -> <<"dist">>

\* What require and requireES are given; the latter takes the sources as they are.
Load(query, amdBaseUrl, amdSourceMap) ==
    [renderer |-> IF Truthy(Param(query, "__RENDERER__"))
                  THEN Param(query, "__RENDERER__") ELSE NoValue,
     echarts |-> EcDistPath(Param(query, "__ECDIST__")),
     esEcharts |-> <<"./">>,
     baseUrl |-> IF Truthy(amdBaseUrl) THEN amdBaseUrl ELSE "../",
     sourceMap |-> IF amdSourceMap = NoValue THEN TRUE ELSE amdSourceMap]

\* What a URL means: of the parameters of one name the last counts, and a build that
\* is not known, or none, is the default one.
LoadReadBack(query, loaded) ==
    LET last[i \in 0..Len(query)] ==
            IF i = 0 THEN <<"dist">>
            ELSE IF query[i].key # "__ECDIST__" THEN last[i - 1]
            ELSE IF query[i].value \in Boilerplates THEN <<"boilerplate", query[i].value>>
            ELSE IF query[i].value \in Versions THEN <<"version", query[i].value>>
            ELSE <<"dist">>
    IN loaded.echarts = last[Len(query)]
=============================================================================
