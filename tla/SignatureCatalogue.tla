------------------------- MODULE SignatureCatalogue -------------------------
(***************************************************************************)
(* The prototypes, native and script functions, native tables and parents *)
(* the signature heuristics are checked over.                             *)
(*   ArrayProto    Array.prototype, described "Array[0]"                  *)
(*   ElementProto  HTMLElement.prototype, described "HTMLElementPrototype" *)
(*   DateProto     Date.prototype, a date described "Invalid Date"        *)
(*   FunctionProto Function.prototype, the native "function () {...}"    *)
(*   ObjectProto   Object.prototype, described "Object"                   *)
(*   ArrayCtor     the native constructor "function Array() {...}"        *)
(*   push, isArray, click, call, toISOString  native methods              *)
(*   userPush      a script "function push(item) {...}"                   *)
(*   noArgs        a script "function reset() {...}"                      *)
(*   firstLineCall a script "function log() { console.log(message); }"    *)
(***************************************************************************)
EXTENDS Integers

CONSTANT Null

SigObjIds == {"ArrayProto", "ElementProto", "DateProto", "FunctionProto",
              "ObjectProto", "ArrayCtor", "push", "isArray", "click", "call",
              "toISOString", "userPush", "noArgs", "firstLineCall"}

Natives == {"FunctionProto", "ArrayCtor", "push", "isArray", "click", "call",
            "toISOString"}
Scripts == {"userPush", "noArgs", "firstLineCall"}

Object(subtype) ==
    [type |-> "object", subtype |-> subtype, nativeCode |-> FALSE,
     collection |-> FALSE, array |-> FALSE, hasChildren |-> TRUE,
     entries |-> <<>>, own |-> <<>>, displayable |-> <<>>]

Function(native) ==
    [type |-> "function", subtype |-> "none", nativeCode |-> native,
     collection |-> FALSE, array |-> FALSE, hasChildren |-> FALSE,
     entries |-> <<>>, own |-> <<>>, displayable |-> <<>>]

SigRemote ==
    [o \in SigObjIds |->
        CASE o = "DateProto"  -> Object("date")
          [] o \in Natives    -> Function(TRUE)
          [] o \in Scripts    -> Function(FALSE)
          [] OTHER            -> Object("none")]

O(base, tail) == [base |-> base, tail |-> tail, name |-> "", params |-> "", firstLine |-> ""]
F(name, params, firstLine) ==
    [base |-> "function", tail |-> <<>>, name |-> name, params |-> params, firstLine |-> firstLine]

SigDescription ==
    [o \in SigObjIds |->
        CASE o = "ArrayProto"    -> O("Array", <<"[0]">>)
          [] o = "ElementProto"  -> O("HTMLElement", <<"Prototype">>)
          [] o = "DateProto"     -> O("Invalid Date", <<>>)
          [] o = "ObjectProto"   -> O("Object", <<>>)
          [] o = "FunctionProto" -> F("", "", "")
          [] o = "ArrayCtor"     -> F("Array", "", "")
          [] o = "userPush"      -> F("push", "item", "")
          [] o = "noArgs"        -> F("reset", "", "")
          [] o = "firstLineCall" -> F("log", "", "message")
          [] OTHER               -> F(o, "", "")]

SigPrototypeParams ==
    [Array |-> [push |-> "...items", concat |-> "...values"],
     HTMLElement |-> [click |-> ""],
     Function |-> [call |-> "thisArg, ...args"]]

SigConstructorParams ==
    [Array |-> [isArray |-> "value", from |-> "arrayLike, mapFn, thisArg"]]

SigClassOf ==
    [o \in SigObjIds |->
        CASE o = "ArrayProto"    -> "Array"
          [] o = "ElementProto"  -> "HTMLElement"
          [] o = "DateProto"     -> "Date"
          [] o = "FunctionProto" -> "Function"
          [] o = "ObjectProto"   -> "Object"
          [] OTHER               -> ""]

H(table, cls, method) == [table |-> table, cls |-> cls, method |-> method]

SigHome ==
    [o \in SigObjIds |->
        CASE o = "push"        -> H("prototype", "Array", "push")
          [] o = "click"       -> H("prototype", "HTMLElement", "click")
          [] o = "call"        -> H("prototype", "Function", "call")
          [] o = "toISOString" -> H("prototype", "Date", "toISOString")
          [] o = "isArray"     -> H("constructor", "Array", "isArray")
          [] OTHER             -> H("none", "", "")]

P(n, v) == [name |-> n, value |-> v, get |-> FALSE, set |-> FALSE, wasThrown |-> FALSE]
Getter(n) == [name |-> n, value |-> Null, get |-> TRUE, set |-> FALSE, wasThrown |-> FALSE]

C(obj, name, props) == [obj |-> obj, name |-> name, props |-> props]

SigContexts ==
    { C("ArrayProto", "__proto__",
        {P("push", "push"), P("push", "userPush"), P("__proto__", "ObjectProto")}),
      C("ElementProto", "__proto__", {P("click", "click"), Getter("x")}),
      C("DateProto", "__proto__", {P("toISOString", "toISOString")}),
      C("FunctionProto", "__proto__", {P("call", "call"), P("__proto__", "ObjectProto")}),
      C("ObjectProto", "__proto__", {P("__proto__", "DateProto")}),
      C("ArrayCtor", "Array",
        {P("isArray", "isArray"), P("reset", "noArgs"), P("__proto__", "FunctionProto")}) }

(* The same, with an accessor named "concat" on Array.prototype (a page *)
(* may define one with Object.defineProperty).                           *)
SigContextsWithAccessorOverride ==
    SigContexts \cup {C("ArrayProto", "__proto__", {Getter("concat")})}

(* The same, with a script function whose first line calls something.   *)
SigContextsWithFirstLineCall ==
    SigContexts \cup {C("ArrayCtor", "Array", {P("log", "firstLineCall")})}

PropsOf(cs) == UNION {c.props : c \in cs}
=============================================================================
