------------------- MODULE ObjectTreePropertyTreeElement -------------------
(***************************************************************************)
(* One WebInspector.ObjectTreePropertyTreeElement                          *)
(* (Views/ObjectTreePropertyTreeElement.js): a tree node for one property  *)
(* descriptor of a remote object, whose children are fetched lazily from   *)
(* the object-inspection service when the tree first populates it, and     *)
(* whose getter, when the property has one, is invoked on a click.         *)
(*                                                                         *)
(* The inspection service (RemoteObject over the inspector protocol) is    *)
(* modelled as one FIFO channel `net` of outstanding requests: the         *)
(* frontend dispatches protocol replies in the order the requests were     *)
(* sent.  Each callback of the code is the action that takes the head of   *)
(* the channel.  Remote objects are a fixed catalogue `Remote`; a fetch    *)
(* may also fail (the object no longer exists), which the code receives    *)
(* as a missing list.                                                      *)
(***************************************************************************)
EXTENDS Naturals, Sequences, SequencesExt, FiniteSets

CONSTANTS
    ObjIds,          \* remote objects the node may show
    Remote,          \* [ObjIds -> object record], see ObjectRec
    Null,            \* model value: no object (null / undefined)
    NoError,         \* model value: invokeGetter callback with no error
    ProtocolError,   \* model value: the error argument of a failed call
    NodeProperties,  \* property descriptors the node may be built from
    Modes,           \* display modes the node may be built with
    GetterValues,    \* objects a getter may return
    GetterThrows,    \* exception objects a getter may throw
    NameOrder,       \* sequence of non-index property names, in comparator order
    PageSize,        \* getCollectionEntries limit (100 in the code)
    MaxRefresh,      \* bound on explicit refresh requests
    MaxClicks        \* bound on clicks on the getter icon

Properties == "Properties"
API == "API"

(* A property descriptor as the service returns it.  index is the array  *)
(* index of an index-shaped name and -1 otherwise.                       *)
Descriptor == [name: {"__proto__"} \cup ToSet(NameOrder) \cup {"0", "1", "2"},
               index: -1..2, enumerable: BOOLEAN, nativeGetter: BOOLEAN]

ObjectRec == [type: {"object", "function"}, subtype: {"none", "node", "date", "regexp"},
              nativeCode: BOOLEAN, collection: BOOLEAN,
              array: BOOLEAN, hasChildren: BOOLEAN,
              entries: Seq([key: BOOLEAN, value: ObjIds]),
              own: Seq(Descriptor), displayable: Seq(Descriptor)]

NodeProperty == [name: STRING, value: ObjIds \cup {Null}, get: BOOLEAN,
                 set: BOOLEAN, wasThrown: BOOLEAN]

ASSUME /\ Remote \in [ObjIds -> ObjectRec]
       /\ NodeProperties \subseteq NodeProperty
       /\ Modes \subseteq {Properties, API}
       /\ GetterValues \cup GetterThrows \subseteq ObjIds
       /\ PageSize \in Nat \ {0}
       /\ MaxRefresh \in Nat /\ MaxClicks \in Nat

(* A child tree element.  kind "key"/"value"/"setIndex" are the map and  *)
(* set wrappers (pos = entry position), "arrayIndex" an                  *)
(* ObjectTreeArrayIndexTreeElement (pos = index), "property" a nested     *)
(* ObjectTreePropertyTreeElement, the others the placeholder messages.   *)
(* obj is the value a set-index wrapper resolves to; via is the object   *)
(* the property path handed to the child ends at (its parent's resolved  *)
(* value as the path records it), Null for a message or a null path.     *)
ChildKinds == {"key", "value", "setIndex", "arrayIndex", "property",
               "error", "noEntries", "noProperties"}
Placeholders == {"error", "noEntries", "noProperties"}
Child == [kind: ChildKinds, name: STRING, pos: Nat,
          obj: ObjIds \cup {Null}, via: ObjIds \cup {Null}]

(* Requests on the channel: the three child fetches, the __proto__       *)
(* lookup of _updateEntries, and invokeGetter.                           *)
Request == [op: {"entries", "own", "displayable", "proto", "getter"},
            obj: ObjIds \cup {Null}, mode: Modes \cup {API}]

VARIABLES
    property,        \* this._property (fixed for the node's life)
    mode,            \* this._mode
    getterValue,     \* this._getterValue
    getterHadError,  \* this._getterHadError
    hasChildren,     \* TreeElement.hasChildren, set by _updateHasChildren
    expanded,        \* TreeElement.expanded
    listCreated,     \* TreeElement._childrenListNode exists (populated once)
    shouldRefresh,   \* TreeElement.shouldRefreshChildren
    children,        \* TreeElement.children
    net,             \* outstanding service requests, oldest first
    threw,           \* a callback of this node raised a TypeError
    fetches,         \* child fetches issued so far
    refreshes,       \* refresh requests so far
    clicks,          \* getter clicks so far
    listedFrom,      \* the request whose callback last rebuilt the children
    classNames       \* the element's class names that show the value's kind

vars == <<property, mode, getterValue, getterHadError, hasChildren, expanded,
          listCreated, shouldRefresh, children, net, threw, fetches,
          refreshes, clicks, listedFrom, classNames>>

-----------------------------------------------------------------------------
(* Helpers: the node's derived state                                       *)

HasValue == property.value # Null

(* _resolvedValue: the getter's result if there is one, else the value.  *)
Resolved(gv) == IF gv # Null THEN gv ELSE property.value

(* _resolvedValuePropertyPath: the path extended with the getter's value *)
(* or the property's value, recorded by that value; null without one.   *)
ResolvedValuePropertyPath(gv) == Resolved(gv)

(* _alwaysDisplayAsProperty *)
AlwaysDisplayAsProperty(gv) ==
    \/ property.name = "constructor"
    \/ HasValue /\ Remote[property.value].type # "function"
    \/ gv # Null

(* JavaScript truthiness of a flag that may hold an error value. *)
Truthy(x) == x \notin {FALSE, Null, NoError}

(* _updateHasChildren, for a getter value and getter error flag *)
HasChildrenFor(gv, err) ==
    LET rv == Resolved(gv)
        valueHasChildren == rv # Null /\ Remote[rv].hasChildren
        wasThrown == property.wasThrown \/ Truthy(err)
    IN  /\ ~wasThrown
        /\ valueHasChildren
        /\ mode = API => property.name = "__proto__" \/ AlwaysDisplayAsProperty(gv)

(* The invokeGetter callback's error flag: !!(error || wasThrown). *)
GetterHadErrorMutant(error, wasThrown) ==
    IF error # NoError THEN error ELSE wasThrown
GetterHadError(error, wasThrown) == error # NoError \/ wasThrown

-----------------------------------------------------------------------------
(* The title (_titleFragment), reduced to what it shows: its style, the   *)
(* kind of value element, the getter and read-only icons, error styling.  *)
(* It is rebuilt at construction and on each getter answer, the only      *)
(* steps that change what it reads, so it is a function of the state.     *)

(* _propertyPathType *)
PropertyPathType(gv) ==
    CASE gv # Null \/ HasValue -> "Value"
      [] property.get          -> "Getter"
      [] property.set          -> "Setter"
      [] OTHER                 -> "Value"

Title(style, value, getterIcon, readOnlyIcon, error) ==
    [style |-> style, value |-> value, getterIcon |-> getterIcon,
     readOnlyIcon |-> readOnlyIcon, error |-> error,
     pathType |-> PropertyPathType(getterValue)]

NoTitle == Title("none", "none", FALSE, FALSE, FALSE)

(* _createTitlePrototype *)
TitlePrototype == Title("prototype", "prototype", FALSE, FALSE, FALSE)

(* _createTitlePropertyStyle: the value (a function string, a preview or  *)
(* a formatted value), or for an accessor not yet read the getter icon    *)
(* and, without a setter, the read-only icon.  A setter-only accessor     *)
(* shows neither (the FIXME of the code).                                 *)
TitlePropertyStyle(gv, err) ==
    LET rv == Resolved(gv) IN
    Title("property",
          CASE rv = Null                      -> "accessor"
            [] Remote[rv].type = "function"   -> "function"
            [] OTHER                          -> "value",
          rv = Null /\ property.get,
          rv = Null /\ ~property.set,
          property.wasThrown \/ Truthy(err))

(* _createTitleAPIStyle *)
TitleAPIStyle(gv, err) ==
    LET isFunction == HasValue /\ Remote[property.value].type = "function" IN
    CASE AlwaysDisplayAsProperty(gv) -> TitlePropertyStyle(gv, err)
      [] ~isFunction /\ ~property.get /\ ~property.set -> NoTitle
      [] OTHER ->
           Title("api", IF isFunction THEN "function" ELSE "accessor",
                 ~isFunction /\ property.get, ~isFunction /\ ~property.set,
                 FALSE)

(* _titleFragment *)
TitleFragment(gv, err) ==
    CASE property.name = "__proto__" -> TitlePrototype
      [] mode = Properties           -> TitlePropertyStyle(gv, err)
      [] OTHER                       -> TitleAPIStyle(gv, err)

(* The clickable getter icon is in the current title. *)
GetterIconShown == TitleFragment(getterValue, getterHadError).getterIcon

-----------------------------------------------------------------------------
(* The class names that show the kind of value in the node's icon.  The  *)
(* fixed "object-tree-property" class is left out.                        *)

ValueClasses(o) ==
    {Remote[o].type} \cup (IF Remote[o].subtype # "none" THEN {Remote[o].subtype} ELSE {})

(* The constructor's classNames. *)
ConstructorClassNames ==
    (IF HasValue THEN ValueClasses(property.value) ELSE {"accessor"})
    \cup (IF property.wasThrown THEN {"had-error"} ELSE {})
    \cup (IF property.name = "__proto__" THEN {"prototype-property"} ELSE {})

(* _updateTitleAndIcon's class changes for a getter answer: only with a  *)
(* value, and only ever adding, except "accessor".                       *)
UpdateIconClasses(classes, gv, err) ==
    IF gv = Null THEN classes
    ELSE (classes \cup ValueClasses(gv) \cup (IF err THEN {"had-error"} ELSE {}))
         \ {"accessor"}

-----------------------------------------------------------------------------
(* The display comparator, ObjectTreeView.ComparePropertyDescriptors:      *)
(* index properties first in ascending index order, then enumerable        *)
(* before non-enumerable, then by name.                                    *)

NameRank(n) == IF n = "__proto__" THEN Len(NameOrder) + 1
               ELSE CHOOSE i \in DOMAIN NameOrder : NameOrder[i] = n

(* PropertyDescriptor.isIndexProperty *)
IsIndexProperty(d) == d.index >= 0

ComparePropertyDescriptors(a, b) ==
    CASE IsIndexProperty(a) /\ IsIndexProperty(b) -> a.index < b.index
      [] IsIndexProperty(a) # IsIndexProperty(b)  -> IsIndexProperty(a)
      [] a.enumerable # b.enumerable   -> a.enumerable
      [] OTHER                         -> NameRank(a.name) < NameRank(b.name)

UnsortedDescriptors(list) == list
SortedDescriptors(list) == SortSeq(list, ComparePropertyDescriptors)

-----------------------------------------------------------------------------
(* Building the child list                                                 *)

SetIndex == INSTANCE ObjectTreeSetIndexTreeElement

Placeholder(kind) ==
    [kind |-> kind, name |-> "", pos |-> 0, obj |-> Null, via |-> Null]
PropertyChild(d, path) ==
    [kind |-> "property", name |-> d.name, pos |-> 0, obj |-> Null, via |-> path]

KeepChildren(kids) == kids
RemoveChildren(kids) == <<>>

NoPlaceholder(kids, kind) == kids
WithPlaceholder(kids, kind) ==
    IF kids = <<>> THEN <<Placeholder(kind)>> ELSE kids

(* The children the loop of _updateEntries appends: a key and a value     *)
(* wrapper for a map entry, one ObjectTreeSetIndexTreeElement otherwise,  *)
(* each given the property path of the node's resolved value.            *)
EntryChildren(entries, path) ==
    LET wrapper(kind, i) ==
            [kind |-> kind, name |-> "", pos |-> i, obj |-> Null, via |-> path]
        setIndex(i) ==
            LET node == SetIndex!ObjectTreeSetIndexTreeElement(entries[i].value, path)
            IN  [kind |-> "setIndex", name |-> "", pos |-> i,
                 obj |-> SetIndex!ResolvedValue(node), via |-> node.propertyPath]
    IN  FlattenSeq([i \in DOMAIN entries |->
            IF entries[i].key THEN << wrapper("key", i), wrapper("value", i) >>
            ELSE << setIndex(i) >>])

(* getCollectionEntries(0, 100, ...): the service lists the entries from  *)
(* offset 0, at most PageSize of them.                                   *)
CollectionOffset == 0
EntryPage(entries) ==
    SubSeq(entries, CollectionOffset + 1,
           IF Len(entries) < CollectionOffset + PageSize
           THEN Len(entries) ELSE CollectionOffset + PageSize)

(* The children _updateProperties appends for the sorted list, given the  *)
(* value resolved when the callback runs, the path through it, and the   *)
(* mode the callback was bound with.                                     *)
PropertyChildren(sorted, rv, path, reqMode) ==
    LET isArray == Remote[rv].array
        isPropertyMode == reqMode = Properties \/ getterValue # Null
        isAPI == reqMode = API
        shown(d) == /\ ~(isAPI /\ d.nativeGetter)
                    /\ isArray /\ isPropertyMode =>
                           IsIndexProperty(d) \/ d.name = "__proto__"
        kept == SelectSeq(sorted, shown)
        child(d) == IF isArray /\ isPropertyMode /\ IsIndexProperty(d)
                    THEN [kind |-> "arrayIndex", name |-> "", pos |-> d.index,
                          obj |-> Null, via |-> path]
                    ELSE PropertyChild(d, path)
    IN  [i \in DOMAIN kept |-> child(kept[i])]

-----------------------------------------------------------------------------
(* Actions                                                                 *)

Init ==
    /\ property \in NodeProperties
    /\ mode \in Modes
    /\ getterValue = Null
    /\ getterHadError = FALSE
    /\ hasChildren = HasChildrenFor(Null, FALSE)
    /\ expanded = FALSE
    /\ listCreated = FALSE
    /\ shouldRefresh = FALSE
    /\ children = <<>>
    /\ net = <<>>
    /\ threw = FALSE
    /\ fetches = 0
    /\ refreshes = 0
    /\ clicks = 0
    /\ listedFrom = Null
    /\ classNames = ConstructorClassNames

(* The request _updateChildren sends for the resolved value. *)
FetchRequest ==
    LET rv == Resolved(getterValue) IN
    CASE Remote[rv].collection /\ mode = Properties ->
             [op |-> "entries", obj |-> rv, mode |-> mode]
      [] property.name = "__proto__" ->
             [op |-> "own", obj |-> rv, mode |-> API]
      [] OTHER ->
             [op |-> "displayable", obj |-> rv, mode |-> mode]

(* onpopulate -> _updateChildren: nothing to do when there are children   *)
(* and no refresh was asked for; otherwise one fetch.                     *)
UpdateChildren ==
    IF Len(children) > 0 /\ ~shouldRefresh
    THEN UNCHANGED <<net, fetches>>
    ELSE /\ net' = Append(net, FetchRequest)
         /\ fetches' = fetches + 1

(* TreeElement.expand populates when the child list was never built or a *)
(* refresh was requested.                                                *)
NeedsPopulate == ~listCreated \/ shouldRefresh

(* Variant in which onexpand also calls _updateChildren, relying on its   *)
(* children.length short-circuit to avoid a second fetch.                *)
ExpandRepopulating ==
    /\ hasChildren
    /\ ~expanded \/ shouldRefresh
    /\ expanded' = TRUE
    /\ UpdateChildren
    /\ listCreated' = TRUE
    /\ shouldRefresh' = FALSE
    /\ UNCHANGED <<property, mode, getterValue, getterHadError, hasChildren,
                   children, threw, refreshes, clicks, listedFrom, classNames>>

(* TreeElement.expand: a node without children does not expand. *)
Expand ==
    /\ hasChildren
    /\ ~expanded \/ shouldRefresh
    /\ expanded' = TRUE
    /\ IF NeedsPopulate
       THEN /\ UpdateChildren
            /\ listCreated' = TRUE
            /\ shouldRefresh' = FALSE
       ELSE UNCHANGED <<net, fetches, listCreated, shouldRefresh>>
    /\ UNCHANGED <<property, mode, getterValue, getterHadError, hasChildren,
                   children, threw, refreshes, clicks, listedFrom, classNames>>

(* oncollapse only swaps the preview back in. *)
Collapse ==
    /\ expanded
    /\ expanded' = FALSE
    /\ UNCHANGED <<property, mode, getterValue, getterHadError, hasChildren,
                   listCreated, shouldRefresh, children, net, threw, fetches,
                   refreshes, clicks, listedFrom, classNames>>

(* An explicit refresh: shouldRefreshChildren = true. *)
RequestRefresh ==
    /\ refreshes < MaxRefresh
    /\ shouldRefresh' = TRUE
    /\ refreshes' = refreshes + 1
    /\ UNCHANGED <<property, mode, getterValue, getterHadError, hasChildren,
                   expanded, listCreated, children, net, threw, fetches, clicks,
                   listedFrom, classNames>>

(* Click on the getter icon: invokeGetter on the path's last non-prototype *)
(* object.  Nothing stops a second click before the first answer.         *)
ClickGetter ==
    /\ GetterIconShown
    /\ clicks < MaxClicks
    /\ net' = Append(net, [op |-> "getter", obj |-> Null, mode |-> mode])
    /\ clicks' = clicks + 1
    /\ UNCHANGED <<property, mode, getterValue, getterHadError, hasChildren,
                   expanded, listCreated, shouldRefresh, children, threw,
                   fetches, refreshes, listedFrom, classNames>>

(* The invokeGetter callback: record result and error flag, then          *)
(* _updateTitleAndIcon, which ends in _updateHasChildren.  The callback   *)
(* gets (error, result, wasThrown): a value, a thrown exception object,   *)
(* or a protocol error with no result.                                    *)
GetterReply ==
    /\ net # <<>>
    /\ Head(net).op = "getter"
    /\ \E r \in {[error |-> NoError, result |-> v, wasThrown |-> FALSE] : v \in GetterValues}
              \cup {[error |-> NoError, result |-> x, wasThrown |-> TRUE] : x \in GetterThrows}
              \cup {[error |-> ProtocolError, result |-> Null, wasThrown |-> FALSE]} :
         LET err == GetterHadError(r.error, r.wasThrown) IN
         /\ getterHadError' = err
         /\ getterValue' = r.result
         /\ classNames' = UpdateIconClasses(classNames, r.result, err)
         /\ hasChildren' = HasChildrenFor(r.result, err)
    /\ net' = Tail(net)
    /\ UNCHANGED <<property, mode, expanded, listCreated, shouldRefresh,
                   children, threw, fetches, refreshes, clicks, listedFrom>>

(* Variant that shows nothing when the fetch failed. *)
ErrorChildrenDropped(kids) == kids

(* _updateChildrenInternal without a list: the "Could not fetch           *)
(* properties" message, and nothing more.                                 *)
ErrorChildren(kids) == Append(kids, Placeholder("error"))

(* _updateChildrenInternal with handler _updateEntries or                 *)
(* _updateProperties.  The list is the object's entries (first PageSize)   *)
(* or descriptors, or missing when the fetch failed.  Both handlers call   *)
(* _resolvedValue() when the callback runs, not when it was requested;    *)
(* a null there is a TypeError that ends the callback.                    *)
FetchReply ==
    /\ net # <<>>
    /\ Head(net).op \in {"entries", "own", "displayable"}
    /\ LET req == Head(net)
           o == Remote[req.obj]
           rv == Resolved(getterValue)
           path == ResolvedValuePropertyPath(getterValue)
           base == RemoveChildren(children)
       IN \E fetched \in BOOLEAN :
          CASE ~fetched ->
                 /\ children' = ErrorChildren(base)
                 /\ net' = Tail(net)
                 /\ UNCHANGED threw
            [] req.op = "entries" /\ rv = Null ->
                 \* The first entry's element throws building its title from
                 \* the null path; with no entries, "No Entries." is appended
                 \* and the __proto__ lookup on the null value throws.
                 /\ children' = IF /\ EntryPage(o.entries) # <<>>
                                   /\ SetIndex!ConstructionThrows(path)
                                THEN base ELSE base \o <<Placeholder("noEntries")>>
                 /\ threw' = TRUE
                 /\ net' = Tail(net)
            [] req.op = "entries" ->
                 /\ children' = base \o WithPlaceholder(
                        EntryChildren(EntryPage(o.entries), path), "noEntries")
                 /\ net' = Append(Tail(net),
                        [op |-> "proto", obj |-> rv, mode |-> req.mode])
                 /\ UNCHANGED threw
            [] OTHER ->
                 /\ IF rv = Null
                    THEN /\ children' = base
                         /\ threw' = TRUE
                    ELSE /\ children' = base \o WithPlaceholder(
                                PropertyChildren(SortedDescriptors(
                                    IF req.op = "own" THEN o.own
                                    ELSE o.displayable), rv, path, req.mode),
                                "noProperties")
                         /\ UNCHANGED threw
                 /\ net' = Tail(net)
    /\ UNCHANGED <<property, mode, getterValue, getterHadError, hasChildren,
                   expanded, listCreated, shouldRefresh, fetches, refreshes,
                   clicks, classNames>>
    /\ listedFrom' = Head(net)

(* The getOwnPropertyDescriptor("__proto__") callback of _updateEntries:  *)
(* appends the prototype when the object has one and it still exists.    *)
ProtoReply ==
    /\ net # <<>>
    /\ Head(net).op = "proto"
    /\ \E found \in IF \E i \in DOMAIN Remote[Head(net).obj].own :
                         Remote[Head(net).obj].own[i].name = "__proto__"
                    THEN BOOLEAN ELSE {FALSE} :
         children' = IF found
                     THEN Append(children, PropertyChild(
                              [name |-> "__proto__", index |-> -1,
                               enumerable |-> FALSE, nativeGetter |-> FALSE],
                              Head(net).obj))
                     ELSE children
    /\ net' = Tail(net)
    /\ UNCHANGED <<property, mode, getterValue, getterHadError, hasChildren,
                   expanded, listCreated, shouldRefresh, threw, fetches,
                   refreshes, clicks, listedFrom, classNames>>

(* The service answers; the user's actions are not forced to happen. *)
ServiceReply == GetterReply \/ FetchReply \/ ProtoReply

Next ==
    \/ Expand
    \/ Collapse
    \/ RequestRefresh
    \/ ClickGetter
    \/ ServiceReply

Spec == Init /\ [][Next]_vars /\ WF_vars(ServiceReply)

-----------------------------------------------------------------------------
(* Refinement mapping onto LazyChildren: the value is the resolved value, *)
(* the pending requests are the fetches in the channel (not the getter or *)
(* __proto__ lookups), and what is shown is read off the child list.     *)

FetchOps == {"entries", "own", "displayable"}

PendingFetches == Len(SelectSeq(net, LAMBDA r : r.op \in FetchOps))

ShownKind ==
    CASE children = <<>> -> "nothing"
      [] \A i \in DOMAIN children : children[i].kind \in Placeholders -> "message"
      [] OTHER -> "content"

LC == INSTANCE LazyChildren
        WITH Values <- ObjIds, value <- Resolved(getterValue),
             pending <- PendingFetches, shown <- ShownKind

-----------------------------------------------------------------------------
(* Properties                                                              *)

TypeOK ==
    /\ property \in NodeProperties
    /\ mode \in Modes
    /\ getterValue \in ObjIds \cup {Null}
    /\ getterHadError \in BOOLEAN
    /\ hasChildren \in BOOLEAN
    /\ expanded \in BOOLEAN
    /\ listCreated \in BOOLEAN
    /\ shouldRefresh \in BOOLEAN
    /\ children \in Seq(Child)
    /\ net \in Seq(Request)
    /\ threw \in BOOLEAN
    /\ listedFrom \in Request \cup {Null}
    /\ classNames \subseteq {"object", "function", "node", "date", "regexp",
                              "accessor", "had-error", "prototype-property"}
    /\ fetches \in Nat /\ refreshes \in Nat /\ clicks \in Nat

(* Expanding, collapsing and expanding again never fetches the children  *)
(* twice: apart from the first population, only an explicit refresh       *)
(* makes TreeElement.expand / _updateChildren issue a fetch, even while   *)
(* an earlier fetch is still unanswered and the node has no children.    *)
FetchBudget == fetches <= 1 + refreshes

(* Every reply of _updateChildrenInternal replaces the previous children  *)
(* (removeChildren), so however many fetches and refreshes overlap, the  *)
(* node never shows two placeholder messages.                            *)
AtMostOnePlaceholder ==
    Cardinality({i \in DOMAIN children : children[i].kind \in Placeholders}) <= 1

(* The array-index children that _updateProperties builds for an array   *)
(* are in strictly ascending index order, each index once, whatever       *)
(* order the service lists the descriptors in and however replies of     *)
(* refreshes overlap.                                                    *)
ArrayIndicesAscending ==
    LET idx == SelectSeq(children, LAMBDA c : c.kind = "arrayIndex") IN
    \A i, j \in DOMAIN idx : i < j => idx[i].pos < idx[j].pos

(* An expanded node that has been populated and shows nothing eventually  *)
(* shows something: children, or a "No Entries." / "No Properties." /     *)
(* error placeholder; it is never left empty unless a callback threw.    *)
ExpandedShowsContent ==
    (expanded /\ listCreated /\ children = <<>> /\ ~threw)
        ~> (children # <<>> \/ threw)

(* The __proto__ child appears at most once: _updateEntries appends it    *)
(* from a second callback, after the entries.                           *)
ProtoChildAtMostOnce ==
    Cardinality({i \in DOMAIN children : children[i].name = "__proto__"}) <= 1

(* The node implements LazyChildren: it fetches only for a value, each   *)
(* fetch callback leaves content or a message, a shown list never becomes *)
(* empty again, and every fetch is eventually answered.                   *)
RefinesLazyChildren == LC!Spec

(* Spec: the property path is the chain from the root to the node.  Every *)
(* child of the node (not a message) is given a path through the object   *)
(* whose list it was built from; _updateChildrenInternal builds that path *)
(* from _getterValue when the callback runs, not when it was requested.   *)
ChildPathsNameListedObject ==
    \A i \in DOMAIN children :
        children[i].kind \notin Placeholders => children[i].via = listedFrom.obj

(* The icon shows the kind of the node's current value: at most one type  *)
(* class (object, function, or accessor for no value) and the error class *)
(* only while the property or the last getter answer is an error.  The   *)
(* constructor sets these classes, and _updateTitleAndIcon adds to them on *)
(* each getter answer.                                                    *)
IconNotStale ==
    /\ Cardinality(classNames \cap {"object", "function", "accessor"}) <= 1
    /\ "had-error" \in classNames => property.wasThrown \/ getterHadError

(* No callback of the node runs into a null resolved value: the fetch     *)
(* callbacks call _resolvedValue() again when they run.                  *)
NoCallbackThrows == ~threw

=============================================================================
