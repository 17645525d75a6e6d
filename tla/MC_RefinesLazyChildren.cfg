\* The property node against the abstract LazyChildren specification, with
\* one getter click: two clicks let a late error answer clear the value
\* under a callback (see MC_NoCallbackThrows.cfg), which the abstraction
\* does not allow.
CONSTANTS
    Null = Null
    NoError = NoError
    ProtocolError = ProtocolError
    ObjIds <- MCObjIds
    Remote <- MCRemote
    NodeProperties <- MCNodeProperties
    Modes = {"Properties", "API"}
    GetterValues = {"Arr", "Coll"}
    GetterThrows = {"Plain"}
    NameOrder <- MCNameOrder
    PageSize = 3
    MaxRefresh = 2
    MaxClicks = 1

SPECIFICATION Spec

PROPERTY RefinesLazyChildren

\* An idle inspector waits for the user: a node with nothing left to do
\* (bounds on refreshes and clicks used up) is a legitimate final state.
CHECK_DEADLOCK FALSE
