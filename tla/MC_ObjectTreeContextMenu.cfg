\* The context menu and its two asynchronous item callbacks, composed with
\* the property node.  The getter may return an element node (Plain), so a
\* menu can offer "Reveal in DOM Tree" for a value a later answer replaces.
CONSTANTS
    Null = Null
    NoError = NoError
    ProtocolError = ProtocolError
    ObjIds <- MCObjIds
    Remote <- MCRemote
    NodeProperties <- MCNodeProperties
    Modes = {"Properties", "API"}
    GetterValues = {"Arr", "Plain"}
    GetterThrows = {"Plain"}
    NameOrder <- MCNameOrder
    PageSize = 3
    MaxRefresh = 1
    MaxClicks = 2
    ImpossiblePaths = {"items"}
    MaxMenus = 2

SPECIFICATION MenuSpec

INVARIANT MenuTypeOK

\* An idle inspector waits for the user: a node with nothing left to do
\* (bounds on refreshes, clicks and menus used up) is a legitimate final state.
CHECK_DEADLOCK FALSE
