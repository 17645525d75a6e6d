# TLA+ models of the Web Inspector object-tree property node

This directory models `WebInspector.ObjectTreePropertyTreeElement`
(`src/Source/WebInspectorUI/UserInterface/Views/ObjectTreePropertyTreeElement.js`)
and its set-entry wrapper `ObjectTreeSetIndexTreeElement`
(`.../Views/ObjectTreeSetIndexTreeElement.js`): the tree node that shows one
property of a remote object in the inspector and fetches the property's
children lazily, on demand, from the object-inspection service.

## 1. Inventory

### Components and their state

| Component | State it keeps | Operations |
|---|---|---|
| **Property node** (`ObjectTreePropertyTreeElement`) | `_property` (descriptor: name, value, getter/setter, `wasThrown`), `_mode` (Properties / API), `_propertyPath`, `_prototypeName`, `_getterValue`, `_getterHadError`, `_previewView`; inherited from TreeElement: `hasChildren`, `children`, `expanded`, `shouldRefreshChildren` | constructor; `onpopulate` → `_updateChildren`; fetch callbacks `_updateChildrenInternal` → `_updateEntries` / `_updateProperties`; the `__proto__` lookup callback; getter click and `invokeGetter` callback → `_updateTitleAndIcon` → `_updateHasChildren`; `onexpand` / `oncollapse`; `oncontextmenu` |
| **Title rendering** | none of its own (reads the above) | `_titleFragment`, `_createTitle*`, `_createInteractiveGetterElement`, `_createReadOnlyIconElement`, `_updateTooltips` |
| **Path helpers** | none | `_propertyPathType`, `_resolvedValuePropertyPath`, `_thisPropertyPath`, `_propertyPathString` |
| **Signature heuristics** | none | `_functionPropertyString`, `_functionParameterString`, `_sanitizedPrototypeString` |
| **Context menu** | the open menu (its items capture the resolved value) | `_contextMenuHandler`, `_appendMenusItemsForObject` (Jump to Definition → `getFunctionDetails`, Reveal in DOM Tree → `pushNodeToFrontend`) |
| **Set index node** (`ObjectTreeSetIndexTreeElement`) | `_object`, its property path | constructor, `resolvedValue`, `resolvedValuePropertyPath`, `_titleFragment` |
| *TreeElement / TreeOutline* (not under `src/`) | expanded, child list built, refresh flag | `expand` (populates once, or again when `shouldRefreshChildren`), `collapse` |
| *RemoteObject service* (not under `src/`) | the inspected objects | `getCollectionEntries`, `getOwnPropertyDescriptors`, `getDisplayablePropertyDescriptors`, `getOwnPropertyDescriptor`, `invokeGetter`: all asynchronous, one callback each |

### How they interact

Everything runs on one UI thread; the concurrency is in the callbacks. The
tree calls `onpopulate` when a node is first expanded (and again after a
refresh). `_updateChildren` picks one of three service requests from the
*resolved value* (the getter's result if the getter was invoked, else the
descriptor's value): collection entries (first 100) in Properties mode, all
own descriptors for a `__proto__` node (shown in API mode), displayable
descriptors otherwise. The callback removes the old children and appends new
ones. After entries, `_updateEntries` sends a second request, the
`__proto__` lookup, whose callback appends the prototype. A click on the
getter icon sends `invokeGetter`; its callback stores the result and error
flag and recomputes `hasChildren`. Nothing cancels a request, and nothing
ties a callback to the population or click that sent it.

### What is hard

* **Callbacks against changed state.** Fetch callbacks call `_resolvedValue()`
  when they run, so a getter answer arriving between request and reply changes
  what the reply is interpreted against, or makes it null.
* **Overlapping populations.** A refresh while a reply or the `__proto__`
  lookup is outstanding gives two callbacks writing the same child list.
* **Repeated clicks.** The getter icon is not disabled while `invokeGetter`
  is outstanding; answers overwrite one another.
* **Failure.** A fetch may return no list (object released); the node must
  show an error message and stay retriable.

### What makes each component correct

* Property node: fetches once per population; each reply replaces the
  previous children; exactly one `__proto__`; at most one placeholder message;
  array indices once each, ascending; an expanded node always shows something;
  no callback dereferences a null value; expandable only with a value and no
  error (spec §8).
* Getter: the last answer decides the value; an error never makes the node
  expandable.
* Set index node: its value and path never change (constant after construction);
  its construction throws when the collection node has no value (null path).
* The node as a whole (spec, "Lazy Property Node"): it fetches only for a
  value; every fetch is answered with content or a message; once something
  is shown it never goes back to nothing; children and their paths belong to
  the value they were listed from.

## 2. Modules

| Module | Models |
|---|---|
| `ObjectTreePropertyTreeElement.tla` | One property node, the getter, TreeElement's expand/collapse/refresh as far as they drive it, and the service as a FIFO channel `net` of requests. |
| `ObjectTreeSetIndexTreeElement.tla` | The set-entry wrapper as operators (it never changes after construction): the constructor (`ConstructionThrows`: its title build throws on a null path, lines 35 → 68 → 59), `resolvedValue`, `resolvedValuePropertyPath`, `_titleFragment`. The property node instantiates it (`SetIndex`) to build set-index children. |
| `LazyChildren.tla` | The abstract contract of a lazily populated node: a value, a count of unanswered requests, and whether nothing, content or a message is shown. `Populate`, `Answer` (weakly fair), `Amend`, `Resolve`. |
| `ObjectTreeContextMenu.tla` | The context menu composed with the node (it EXTENDS the node module): `OpenContextMenu` (`_contextMenuHandler` with its early return and the items of `_appendMenusItemsForObject`), `ChooseMenuItem`, `DismissContextMenu`, and `NavigationReply` (the `getFunctionDetails` and `pushNodeToFrontend` callbacks with their early returns). Its requests share the node's channel. `MenuSpec` is the node's `Next` (menu state unchanged) or a menu action. |
| `ObjectTreeSignatures.tla` | The signature and prototype-name heuristics composed with the node (it EXTENDS the node module): the parent that builds the node (`context`) and the prototype name it hands over (`prototypeName`, `_updateProperties` lines 448–452), `SanitizedPrototypeString`, the native-table `Lookup`, `FunctionParameterString`, and `ShownParameters`, the parameter list the title shows for the value resolved now. `SigSpec` is the node's `Spec` with these fixed. |
| `SignatureCatalogue.tla` | Its catalogue: Array, HTMLElement, Date, Function and Object prototypes (described `Array[0]`, `HTMLElementPrototype`, `Invalid Date`, a native function, `Object`), the native `Array` constructor, five native methods, three script functions, small native tables, and the parents each node may be built under. |
| `ObjectCatalogue.tla` | The catalogue TLC checks: a collection with four entries (one keyed, three set members), an array whose descriptors arrive out of display order, an element node with a native-binding getter, a script function and a native function, an object with no properties; seven node descriptors (a getter-only accessor, and properties whose value is each object, one named `__proto__`). |
| `MC_ObjectTreePropertyTreeElement.tla`, `MC_ObjectTreeContextMenu.tla`, `MC_ObjectTreeSignatures.tla` | Give each specification the catalogue's values, through `INSTANCE ObjectCatalogue` or `INSTANCE SignatureCatalogue`. |

Correspondence with the code: each variable names the field it models
(`getterValue` is `_getterValue`, `children` is `TreeElement.children`, ...).
`Expand` is `TreeElement.expand` calling `onpopulate` → `_updateChildren`
(`UpdateChildren`, `FetchRequest`); `FetchReply` is the fetch callback
`_updateChildrenInternal` with either handler (the handlers' child lists are
`EntryChildren` and `PropertyChildren`, the sort `SortedDescriptors`);
`ProtoReply` is the `getOwnPropertyDescriptor("__proto__")` callback;
`ClickGetter` and `GetterReply` are the getter icon's click handler and the
`invokeGetter` callback followed by `_updateTitleAndIcon`, including the
class names it adds to the element (`classNames`: the value's type and
subtype, `had-error`, minus `accessor`; set first by the constructor). Children are
records `[kind, name, pos]`: the kind of tree element (key, value, set index,
array index, property, or one of the three placeholder messages), the
property name, the entry position or array index, the object a set-index
child resolves to (`obj`) and the object its property path goes through
(`via`, i.e. `_resolvedValuePropertyPath()` at callback time). `threw`
records that a callback raised a TypeError; `listedFrom` is a history
variable, the request whose callback last rebuilt the children.

The title (`TitleFragment` and the three `Title*` styles, `PropertyPathType`)
is an operator over the state: it is rebuilt at construction and on each
getter answer, the only steps that change what it reads. `GetterIconShown`,
the guard of `ClickGetter`, is read from it.

Refinement: `LC == INSTANCE LazyChildren WITH value <- Resolved(getterValue),
pending <- PendingFetches, shown <- ShownKind` (fetch requests in the
channel; "nothing", "message" when every child is a placeholder, else
"content"). Getter clicks and answers, refreshes, collapse and expansions
that do not populate are stutter steps or `Resolve`; a fetch reply is
`Answer`; the `__proto__` lookup reply is `Amend`.

Context menu: `menu` is the set of items of the open menu, each with the
object its callback captured; `navs` is a history
variable, the navigations performed (an object, or
`Failed` for an early return). Copy Path's clipboard write is not recorded.
Whether the node's path can be rebuilt (`PropertyPath.isFullPathImpossible`,
not under `src/`) is the constant `ImpossiblePaths`.

Signatures: a description is abstracted to what the regular expressions
read. For an object it is a class name followed by suffix tokens
(`Prototype`, an array length `[0]`); `StripSuffix` is `replace(/...$/, "")`.
For a function it is the declared name, the declared parameter text, and the
first non-empty parenthesised text later on its first line;
`FirstParenthesized` is `match(/^function.*?(\([^)]+?\))/)`, whose `.`
does not cross a line break. A parameter list is its text between the
parentheses, `""` standing for `()`. The native tables are not under `src/`.
They are constants, looked up by `Lookup`: an own entry, else `Undefined`.
What an inherited key such as `constructor` would yield depends on how the
tables are declared, which is outside `src/`; the catalogues use no such key.
`TrueParams`, `ClassOf` and `Home` are reference data that say what the
right answer is. They are not code.

Abstractions: remote objects are a fixed catalogue (their contents do not
change); descriptors keep name, index-ness, enumerable and nativeGetter;
titles keep their structure but not their text, except the parameter list
and prototype name of `ObjectTreeSignatures`; tooltips and path strings are
left out (they change no state the properties are about). `ComparePropertyDescriptors`,
`PropertyDescriptor.isIndexProperty/hasValue` and TreeElement's expand and
refresh are not under `src/` and are modelled from the spec. The service is
FIFO because the inspector frontend dispatches protocol replies in the order
the requests were sent; each callback is the action that consumes the
channel's head. A fetch may fail; a `__proto__` lookup may find nothing.

## 3. Runs

| Run | cfg | Expect | Shows |
|---|---|---|---|
| `materialization_safety` | `MC_ObjectTreePropertyTreeElement.cfg` | pass | `TypeOK`; `FetchBudget` (fetches ≤ 1 + refreshes, though `_updateChildren`'s own short-circuit cannot see a fetch in flight); `AtMostOnePlaceholder` and `ArrayIndicesAscending` under overlapping refresh replies; `ExpandedShowsContent` (liveness). |
| `lazy_children_refinement` | `MC_RefinesLazyChildren.cfg` | pass | `RefinesLazyChildren`: with one getter click, the node implements `LazyChildren`, liveness included. With two clicks it does not (the late error answer below). |
| `stale_proto_lookup` | `MC_ProtoChildAtMostOnce.cfg` | violation | Expand a collection, refresh, expand: two entries replies, then two `__proto__` lookups each append `__proto__`. |
| `getter_reply_after_expand` | `MC_NoCallbackThrows.cfg` | violation | Click the getter twice; first answer an array, expand; second answer a protocol error sets `_getterValue` to undefined; the fetch callback's `resolvedValue.isArray()` throws and the expanded node is left empty. |
| `stale_child_paths` | `MC_ChildPathsNameListedObject.cfg` | violation | Click twice; answers an array then a collection around an expand: the array's descriptors are rendered with the collection's rules and with paths through the collection; no error is raised. |
| `menu_navigation` | `MC_ObjectTreeContextMenu.cfg` | pass | `MenuTypeOK`: a Jump to Definition / Reveal in DOM Tree answer navigates to an object or stops at an early return, never to a missing value, though getter answers (and failed ones) change the node's value between the menu and the answer. That the navigation goes to the captured object holds by the closures' construction and is not checked as a property. |
| `stale_icon_classes` | `MC_IconNotStale.cfg` | violation | Click twice; a thrown exception (an element) then an array: the icon keeps `had-error` and `node`, because `_updateTitleAndIcon` only adds classes. |
| `signature_heuristics` | `MC_ObjectTreeSignatures.cfg` | pass | `PrototypesNamedByClass` (a `__proto__` node's title and the prototype name it hands its children are the prototype's class, for array-length and `Prototype` suffixes, dates and functions); `SignatureNeverWrong` (a function's title shows its own parameters or `()`, never another function's, for native methods under prototypes, static methods under a native constructor, user scripts overriding native names, and getters that answer with functions). |
| `accessor_override_parameters` | `MC_SignatureNeverWrong_AccessorOverride.cfg` | violation | An accessor `concat` on `Array.prototype` whose getter returns the native `push`: after the answer the title shows `function(...values)`, `concat`'s entry in the prototype table. |
| `first_line_call_parameters` | `MC_SignatureNeverWrong_FirstLineCall.cfg` | violation | `function log() { console.log(message); }` is titled `function(message)`. |

Bounds: `MaxRefresh = 2` (one refresh already gives two overlapping
populations; two let a third overlap a reply), `MaxClicks = 2` (the smallest number that lets
two getter answers race; 1 in the refinement run, see above), `PageSize = 3`
with a four-entry collection whose first entry is a set member (so the page
truncates, and an offset or limit off by one changes which set members are
shown). Every node kind and both modes are initial states of each run. The
menu run has `MaxMenus = 2` (two navigations can be in flight at once),
`MaxRefresh = 1`, and a getter that may return the element node, so a menu
can offer Reveal in DOM Tree for a value a later answer replaces. The
pass runs explore 3,770, 1,388 and 15,112 distinct states. The signature
run explores 402 distinct states. Each function in its catalogue meets
each branch of `_functionParameterString`: prototype table, constructor
table, a class with no table, and source text. It also includes the two
`__proto__` nodes whose prototype titles need the suffix rules, and a
getter that answers with a native method under a prototype that has a
table.

Fairness: weak fairness on `ServiceReply` only (and, in the menu run, on
`NavigationReply`, the same service answering the menu's requests). The service answers every
request (a failure is also an answer); user actions (expand, collapse,
refresh, click) are not forced. `CHECK_DEADLOCK FALSE`: an idle inspector
with no user action left is a legitimate final state.

Each property of the pass runs has a mutant (PROJECT.json `mutants`): the
getter flag without `!!`, `onexpand` also calling `_updateChildren`, dropping
`removeChildren`, dropping the sort, dropping the "No Properties" message,
a failed fetch that shows no error message, menu callbacks that read the
node's value when they run instead of capturing it (`MenuTypeOK` breaks when
that value has become null), `_sanitizedPrototypeString` without the
array-length `replace`, and `_functionParameterString` consulting the
prototype table for script functions too (a user `push(item)` on
`Array.prototype` would show `...items`).
Each makes TLC report the property violated.

## 4. Findings

1. `__proto__` shown twice (`_updateEntries`, line 433). See `stale_proto_lookup`.
2. TypeError in the fetch callback after a second getter answer
   (`_updateProperties`, line 444; same at line 433 for entries). See
   `getter_reply_after_expand`.
3. Children built from one object's list but interpreted, and given paths,
   through another (`_updateChildrenInternal`, line 413; `isArray` at 444).
   Silent. See `stale_child_paths`.
4. Stale icon classes after a second getter answer (`_updateTitleAndIcon`,
   lines 162–167). See `stale_icon_classes`.
5. After a getter answers with a function, the native tables are read
   with the accessor's name, so the title shows the parameters of the method
   of that name, not of the function returned (`_functionParameterString`,
   line 346). See `accessor_override_parameters`.
6. A function with no parameters whose first line contains a call is shown
   with that call's arguments (`_functionParameterString`, line 364). See
   `first_line_call_parameters`.

## 5. Plan

Done: items 1–3, 6, 8, and 5's set index node. Remaining, in order:

1. **Property node core** (`ObjectTreePropertyTreeElement`): done.
2. **Getter invocation**: done in the same module.
3. **Abstract specification** `LazyChildren.tla` and its refinement: done.
4. **Path helpers**: `_propertyPathType` and `_resolvedValuePropertyPath`
   are operators and each child
   records the object its path goes through. Still open: `_thisPropertyPath`
   and the path type checked against the spec's Value / Getter / Setter
   rules over all descriptor shapes.
5. **Set index node**: done. Still open: a two-level
   composition `ObjectTree.tla` in which children are themselves nodes with
   their own fetches, to check that a callback of a detached child cannot
   touch its former parent's children.
6. **Context menu**: done (`ObjectTreeContextMenu.tla`).
7. TreeElement's reaction to `hasChildren = false` (collapse or not), to
   say what the user sees when a later getter answer leaves no value.
8. **Signature heuristics**: done (`ObjectTreeSignatures.tla`).

## 6. Not modelled

Title text and tooltip DOM (`_updateTooltips`: the attribute names joined
into the icon's tooltip), the preview swap of `onexpand`/`oncollapse`,
`_thisPropertyPath` and `_propertyPathString` (the path type they use is
`PropertyPathType`; the text comes from `PropertyPath.displayPath`, not
under `src/`), the constant class names (`object-tree-property`),
localisation, and `InspectorFrontendHost.copyText`. They are display only
and hold no state a property distinguishes. The contents of the native
parameter tables are not under `src/`, so the catalogue holds a few
entries of the same shape. The description text outside what the regular
expressions read is not modelled.
