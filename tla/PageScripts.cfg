SPECIFICATION PageSpec
CONSTANTS
    Nothing = Nothing
    NoValue = NoValue
    Paths <- MCPaths
    Root <- MCRoot
    Home = "home"
    WithSocket = {"home", "decodetx", "nodes"}
    WithFooter = {"home", "decodetx", "error"}
    DecodePage = "decodetx"
    NodesPage = "nodes"
    MaxSockets = 3
    MaxRequests = 2
    MaxDown = 2
    NodeLists <- MCNodeLists
    MaxVisits = 2
    Boilerplates = {"webpack-req-ec"}
    Versions = {"4.9.0"}
    Calls <- MCCalls
INVARIANTS TypeOK OnlyCurrentActs StatusOfCurrent LastAnswerShown
    MapShown ReadsBack
CHECK_DEADLOCK FALSE
