CONSTANTS
    Null = Null
    NoError = NoError
    ProtocolError = ProtocolError
    ObjIds <- MCObjIds
    Remote <- MCRemote
    NodeProperties <- MCNodeProperties
    Modes = {"Properties", "API"}
    GetterValues = {"Arr", "Coll"}
    GetterThrows = {"Plain"}
    NameOrder <- MCNameOrder
    PageSize = 3
    MaxRefresh = 2
    MaxClicks = 2

SPECIFICATION Spec

INVARIANT TypeOK
INVARIANT FetchBudget
INVARIANT AtMostOnePlaceholder
INVARIANT ArrayIndicesAscending
PROPERTY ExpandedShowsContent

\* An idle inspector waits for the user: a node with nothing left to do
\* (bounds on refreshes and clicks used up) is a legitimate final state.
CHECK_DEADLOCK FALSE
