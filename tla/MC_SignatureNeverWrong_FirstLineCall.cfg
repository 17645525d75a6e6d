CONSTANTS
    Null = Null
    NoError = NoError
    ProtocolError = ProtocolError
    Undefined = Undefined
    ObjIds <- MCObjIds
    Remote <- MCRemote
    Description <- MCDescription
    PrototypeParams <- MCPrototypeParams
    ConstructorParams <- MCConstructorParams
    ClassOf <- MCClassOf
    Home <- MCHome
    Contexts <- MCContextsWithFirstLineCall
    NodeProperties <- MCNodePropertiesWithFirstLineCall
    IndexTokens = {"[0]"}
    Modes = {"Properties", "API"}
    GetterValues = {"push", "noArgs", "ArrayProto"}
    GetterThrows = {"ObjectProto"}
    NameOrder <- MCNameOrder
    PageSize = 3
    MaxRefresh = 1
    MaxClicks = 2

SPECIFICATION SigSpec

INVARIANT SignatureNeverWrong

\* An idle inspector waits for the user: a node with nothing left to do
\* (bounds on refreshes and clicks used up) is a legitimate final state.
CHECK_DEADLOCK FALSE
