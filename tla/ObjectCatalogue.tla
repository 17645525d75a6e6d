-------------------------- MODULE ObjectCatalogue --------------------------
(***************************************************************************)
(* The remote objects and node descriptors the model checker runs over.   *)
(*   Coll  a collection (map/set) with four entries, one keyed            *)
(*   Arr   an array whose descriptors arrive out of display order         *)
(*   Plain an element node with a native-binding getter and a __proto__   *)
(*   Fn    a function defined in a script; NFn a native-code function     *)
(*   Bare  an object with no properties at all (Object.create(null))      *)
(***************************************************************************)
EXTENDS Integers

CONSTANT Null

D(n, i, e, g) == [name |-> n, index |-> i, enumerable |-> e, nativeGetter |-> g]
ProtoD == D("__proto__", -1, FALSE, FALSE)

MCObjIds == {"Coll", "Arr", "Plain", "Bare", "Fn", "NFn"}

Function(native) ==
    [type |-> "function", subtype |-> "none", nativeCode |-> native,
     collection |-> FALSE, array |-> FALSE, hasChildren |-> TRUE, entries |-> <<>>,
     own |-> <<D("length", -1, FALSE, FALSE), ProtoD>>,
     displayable |-> <<D("length", -1, FALSE, FALSE), ProtoD>>]

MCRemote ==
    [o \in MCObjIds |->
        CASE o = "Coll" ->
               [type |-> "object", subtype |-> "none", nativeCode |-> FALSE,
                collection |-> TRUE, array |-> FALSE,
                hasChildren |-> TRUE,
                entries |-> <<[key |-> FALSE, value |-> "Arr"], [key |-> TRUE, value |-> "Plain"],
                             [key |-> FALSE, value |-> "Bare"], [key |-> FALSE, value |-> "Plain"]>>,
                own |-> <<ProtoD>>, displayable |-> <<D("b", -1, TRUE, FALSE), ProtoD>>]
          [] o = "Arr" ->
               [type |-> "object", subtype |-> "none", nativeCode |-> FALSE,
                collection |-> FALSE, array |-> TRUE,
                hasChildren |-> TRUE, entries |-> <<>>,
                own |-> <<D("1", 1, TRUE, FALSE), D("length", -1, FALSE, FALSE),
                          D("0", 0, TRUE, FALSE), ProtoD>>,
                displayable |-> <<D("1", 1, TRUE, FALSE), D("length", -1, FALSE, FALSE),
                                  D("0", 0, TRUE, FALSE), ProtoD>>]
          [] o = "Plain" ->
               [type |-> "object", subtype |-> "node", nativeCode |-> FALSE,
                collection |-> FALSE, array |-> FALSE,
                hasChildren |-> TRUE, entries |-> <<>>,
                own |-> <<D("b", -1, TRUE, FALSE), D("a", -1, FALSE, TRUE), ProtoD>>,
                displayable |-> <<D("b", -1, TRUE, FALSE), D("a", -1, FALSE, TRUE), ProtoD>>]
          [] o = "Fn" -> Function(FALSE)
          [] o = "NFn" -> Function(TRUE)
          [] o = "Bare" ->
               [type |-> "object", subtype |-> "none", nativeCode |-> FALSE,
                collection |-> FALSE, array |-> FALSE,
                hasChildren |-> TRUE, entries |-> <<>>, own |-> <<>>,
                displayable |-> <<>>]]

P(n, v, g) == [name |-> n, value |-> v, get |-> g, set |-> FALSE, wasThrown |-> FALSE]

MCNodeProperties ==
    { P("x", Null, TRUE),          \* getter-only accessor
      P("items", "Coll", FALSE),
      P("list", "Arr", FALSE),
      P("__proto__", "Plain", FALSE),
      P("bare", "Bare", FALSE),
      P("fn", "Fn", FALSE),
      P("nfn", "NFn", FALSE) }

MCNameOrder == <<"a", "b", "length">>
=============================================================================
