------------------------- MODULE ObjectTreeSignatures -------------------------
(***************************************************************************)
(* The native-signature and prototype-name heuristics of                   *)
(* ObjectTreePropertyTreeElement (_functionPropertyString,                *)
(* _functionParameterString, _sanitizedPrototypeString), composed with the *)
(* property node whose title they write.  The node is built by its parent *)
(* (_updateProperties), which hands it a property path ending at the      *)
(* parent's resolved value and, when the parent is a __proto__ node, a    *)
(* prototype name read off the parent value's description.  The title of  *)
(* a function value shows a parameter list taken from the native tables   *)
(* (WebInspector.NativePrototypeFunctionParameters and                     *)
(* NativeConstructorFunctionParameters) or matched in the function's      *)
(* source text; a getter answer can change which function that is.        *)
(*                                                                         *)
(* Descriptions are abstracted.  An object's description is a class name  *)
(* followed by suffix tokens ("Prototype", an array length "[n]").  A     *)
(* function's is its source: the declared name and parameter text, and   *)
(* the first non-empty parenthesised text on the rest of its first line   *)
(* ("" when there is none).  Parameter lists are shown by their text     *)
(* between the parentheses, "" standing for "()".                         *)
(***************************************************************************)
EXTENDS ObjectTreePropertyTreeElement

CONSTANTS
    Description,          \* [ObjIds -> description record], see Desc
    IndexTokens,          \* suffix tokens of the form "[n]"
    PrototypeParams,      \* NativePrototypeFunctionParameters: class -> method -> text
    ConstructorParams,    \* NativeConstructorFunctionParameters: class -> method -> text
    Undefined,            \* model value: undefined
    Contexts,             \* the parents the node may be built under
    ClassOf,              \* reference: the class each prototype object belongs to
    Home                  \* reference: where each native function is defined

Desc == [base: STRING, tail: Seq(STRING), name: STRING, params: STRING,
         firstLine: STRING]

(* A parent: its resolved value, its property name, and the descriptors  *)
(* of that value the node may be built from.                             *)
Context == [obj: ObjIds, name: STRING, props: SUBSET NodeProperty]

ASSUME /\ Description \in [ObjIds -> Desc]
       /\ Contexts \subseteq Context
       /\ NodeProperties = UNION {c.props : c \in Contexts}

VARIABLES
    context,        \* the parent that built the node (fixed)
    prototypeName   \* this._prototypeName (fixed)

sigVars == <<context, prototypeName>>

-----------------------------------------------------------------------------
(* RemoteObject.description as text. *)
DescriptionText(d) == FoldLeft(LAMBDA acc, t : acc \o t, d.base, d.tail)

(* String.replace with a regular expression anchored at the end: the    *)
(* last suffix token goes when it matches.                               *)
StripSuffix(d, tokens) ==
    IF d.tail # <<>> /\ Last(d.tail) \in tokens
    THEN [d EXCEPT !.tail = Front(@)] ELSE d

(* Variant that keeps an array length suffix. *)
SanitizedPrototypeStringKeepingIndex(v) ==
    CASE Remote[v].type = "function" -> "Function"
      [] Remote[v].subtype = "date"   -> "Date"
      [] Remote[v].subtype = "regexp" -> "RegExp"
      [] OTHER -> DescriptionText(StripSuffix(Description[v], {"Prototype"}))

(* _sanitizedPrototypeString: fixed names for functions, dates and       *)
(* regular expressions; otherwise the description without "[n]", then    *)
(* without "Prototype", at its end.                                     *)
SanitizedPrototypeString(v) ==
    CASE Remote[v].type = "function" -> "Function"
      [] Remote[v].subtype = "date"   -> "Date"
      [] Remote[v].subtype = "regexp" -> "RegExp"
      [] OTHER -> DescriptionText(StripSuffix(StripSuffix(Description[v], IndexTokens),
                                              {"Prototype"}))

(* _updateProperties: the prototype name a __proto__ node gives each of  *)
(* its children, when its value has a description.                      *)
PrototypeNameFor(c) ==
    IF c.name = "__proto__" /\ DescriptionText(Description[c.obj]) # ""
    THEN SanitizedPrototypeString(c.obj) ELSE Undefined

(* table[key] on the tables: an own entry, else undefined.  (The tables  *)
(* are declared outside the modelled sources; what an inherited key such  *)
(* as "constructor" yields there is not modelled, and the catalogues use  *)
(* no such key.)                                                          *)
Lookup(table, key) == IF key \in DOMAIN table THEN table[key] ELSE Undefined

(* params ? "(" + params + ")" : "()" *)
ParamsText(p) == IF p \in {Undefined, ""} THEN "" ELSE p

(* description.match(/^function.*?(\([^)]+?\))/): the declared           *)
(* parameters when there are some, else the first non-empty              *)
(* parenthesised text further on the first line, else "()".              *)
FirstParenthesized(d) == IF d.params # "" THEN d.params ELSE d.firstLine

(* Variant that consults the prototype table for any function. *)
FunctionParameterStringAnyCode(rv) ==
    LET parent == context.obj
        protoTable == Lookup(PrototypeParams, prototypeName)
        ctorTable == Lookup(ConstructorParams, Description[parent].name)
    IN  CASE prototypeName \notin {Undefined, ""} /\ protoTable # Undefined ->
                 ParamsText(Lookup(protoTable, property.name))
          [] /\ Remote[rv].nativeCode
             /\ Remote[parent].type = "function" /\ Remote[parent].nativeCode
             /\ Description[parent].name # "" /\ ctorTable # Undefined ->
                 ParamsText(Lookup(ctorTable, property.name))
          [] OTHER -> FirstParenthesized(Description[rv])

(* _functionParameterString: for native code, the prototype table of the *)
(* prototype name, else the constructor table of the class the parent   *)
(* (a native function "function Name(") names; otherwise, or when        *)
(* neither table has the class, the source text.                        *)
FunctionParameterString(rv) ==
    LET parent == context.obj
        protoTable == Lookup(PrototypeParams, prototypeName)
        ctorTable == Lookup(ConstructorParams, Description[parent].name)
    IN  CASE /\ Remote[rv].nativeCode
             /\ prototypeName \notin {Undefined, ""} /\ protoTable # Undefined ->
                 ParamsText(Lookup(protoTable, property.name))
          [] /\ Remote[rv].nativeCode
             /\ Remote[parent].type = "function" /\ Remote[parent].nativeCode
             /\ Description[parent].name # "" /\ ctorTable # Undefined ->
                 ParamsText(Lookup(ctorTable, property.name))
          [] OTHER -> FirstParenthesized(Description[rv])

(* The parameter list the current title shows (_createTitlePropertyStyle *)
(* through _functionPropertyString, or _createTitleAPIStyle), for the    *)
(* value resolved now; Null when the title shows no function.           *)
ShownParameters ==
    IF TitleFragment(getterValue, getterHadError).value = "function"
    THEN FunctionParameterString(Resolved(getterValue)) ELSE Null

(* _createTitlePrototype: "<name> Prototype". *)
PrototypeTitleName == SanitizedPrototypeString(property.value)

-----------------------------------------------------------------------------
(* The node is constructed with the prototype name its parent computed,  *)
(* and in API mode when the parent is a __proto__ node (its descriptors   *)
(* are listed with Mode.API); every later step is one of the node's.     *)
SigInit ==
    /\ context \in Contexts
    /\ Init
    /\ property \in context.props
    /\ context.name = "__proto__" => mode = API
    /\ prototypeName = PrototypeNameFor(context)

SigNext == Next /\ UNCHANGED sigVars

SigSpec == SigInit /\ [][SigNext]_<<vars, sigVars>> /\ WF_<<vars, sigVars>>(ServiceReply)

-----------------------------------------------------------------------------
(* Reference: the parameters a function really has.  A script function   *)
(* declares them; a native one has those its table entry lists, or none  *)
(* known.                                                                *)
TrueParams(f) ==
    IF ~Remote[f].nativeCode THEN Description[f].params
    ELSE LET h == Home[f]
             t == IF h.table = "prototype" THEN PrototypeParams ELSE ConstructorParams
         IN  IF h.cls \in DOMAIN t /\ h.method \in DOMAIN t[h.cls]
             THEN ParamsText(t[h.cls][h.method]) ELSE ""

(* Properties                                                              *)

(* A prototype is named by its class: the "<name> Prototype" title of a  *)
(* __proto__ node and the prototype name it hands its children (the key *)
(* into the native tables) both come from _sanitizedPrototypeString of  *)
(* the prototype's description, whatever suffixes the description has.  *)
PrototypesNamedByClass ==
    /\ context.name = "__proto__" => prototypeName = ClassOf[context.obj]
    /\ property.name = "__proto__" => PrototypeTitleName = ClassOf[property.value]

(* A function's title never shows parameters that are not its own: the   *)
(* list _functionParameterString finds for the node's current value      *)
(* (the property's value, or a getter's answer) is that function's, or  *)
(* the generic "()".  The tables are keyed by the property's name and   *)
(* the parent's class, not by the function itself.                      *)
SignatureNeverWrong ==
    ShownParameters # Null =>
        ShownParameters \in {"", TrueParams(Resolved(getterValue))}

=============================================================================
