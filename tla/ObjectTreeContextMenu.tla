------------------------ MODULE ObjectTreeContextMenu ------------------------
(***************************************************************************)
(* The context menu of an ObjectTreePropertyTreeElement                    *)
(* (_contextMenuHandler, _appendMenusItemsForObject), composed with the    *)
(* property node it belongs to.  The menu is built from the node's        *)
(* resolved value when it opens; each item's callback captures that value *)
(* (and the path) in a closure.  "Jump to Definition" and "Reveal in DOM   *)
(* Tree" send one more protocol request (getFunctionDetails,              *)
(* pushNodeToFrontend) on the same inspector connection as the node's     *)
(* fetches and getter calls, so they share the FIFO channel `net`, and    *)
(* navigate when the answer arrives.  Meanwhile the node goes on: getter  *)
(* answers, fetches, refreshes.                                           *)
(***************************************************************************)
EXTENDS ObjectTreePropertyTreeElement

CONSTANTS
    ImpossiblePaths, \* names of nodes whose property path cannot be rebuilt
    MaxMenus         \* bound on context-menu events

Failed == "failed"   \* a navigation that ended at an early return

VARIABLES
    menu,        \* items of the open context menu, {} when none is shown
    menus,       \* context-menu events so far
    navs         \* navigations performed (an object, or Failed), in order

menuVars == <<menu, menus, navs>>
allVars == <<vars, menuVars>>

MenuItem == [item: {"copyPath", "jumpToDefinition", "revealInDOMTree"}, obj: ObjIds]

(* PropertyPath.isFullPathImpossible of _resolvedValuePropertyPath(). *)
FullPathPossible == property.name \notin ImpossiblePaths

(* "Copy Path to Property" when there is a path and it can be rebuilt. *)
CopyPathItems(rv) ==
    IF FullPathPossible THEN {[item |-> "copyPath", obj |-> rv]} ELSE {}

(* _appendMenusItemsForObject: a function not in native code gets "Jump  *)
(* to Definition"; a DOM node gets "Reveal in DOM Tree".                 *)
ObjectItems(rv) ==
    CASE Remote[rv].type = "function" ->
             IF ~Remote[rv].nativeCode
             THEN {[item |-> "jumpToDefinition", obj |-> rv]} ELSE {}
      [] Remote[rv].subtype = "node" ->
             {[item |-> "revealInDOMTree", obj |-> rv]}
      [] OTHER -> {}

(* _contextMenuHandler: nothing without a resolved value; otherwise the  *)
(* items, and the menu is shown only when it is not empty.  One menu is  *)
(* open at a time.                                                       *)
OpenContextMenu ==
    /\ menu = {}
    /\ menus < MaxMenus
    /\ Resolved(getterValue) # Null
    /\ menu' = CopyPathItems(Resolved(getterValue)) \cup ObjectItems(Resolved(getterValue))
    /\ menus' = menus + 1
    /\ UNCHANGED <<vars, navs>>

(* The menu closes without a choice. *)
DismissContextMenu ==
    /\ menu # {}
    /\ menu' = {}
    /\ UNCHANGED <<vars, menus, navs>>

(* The request an item's callback sends, for the object it captured. *)
NavigationRequest(it) ==
    [op |-> IF it.item = "jumpToDefinition" THEN "functionDetails" ELSE "pushNode",
     obj |-> it.obj, mode |-> mode]

(* An item is chosen.  Copy Path writes the clipboard at once            *)
(* (InspectorFrontendHost.copyText); the other two send their request.   *)
ChooseMenuItem ==
    /\ \E it \in menu :
         IF it.item = "copyPath"
         THEN UNCHANGED net
         ELSE net' = Append(net, NavigationRequest(it))
    /\ menu' = {}
    /\ UNCHANGED <<property, mode, getterValue, getterHadError, hasChildren,
                   expanded, listCreated, shouldRefresh, children, threw,
                   fetches, refreshes, clicks, listedFrom, classNames, menus, navs>>

(* Variant whose callback asks the node for its value when it runs. *)
NavigationTargetNow(req) == Resolved(getterValue)

(* The object the answer navigates to: the value captured by the item. *)
NavigationTarget(req) == req.obj

(* The getFunctionDetails callback: return on an error or when the       *)
(* script is unknown to the debugger; otherwise show the location.      *)
(* The pushNodeToFrontend callback: inspect the node.                   *)
NavigationReply ==
    /\ net # <<>>
    /\ Head(net).op \in {"functionDetails", "pushNode"}
    /\ \E outcome \in IF Head(net).op = "functionDetails"
                      THEN {"error", "noScript", "shown"} ELSE {"shown"} :
         navs' = Append(navs, IF outcome = "shown"
                              THEN NavigationTarget(Head(net)) ELSE Failed)
    /\ net' = Tail(net)
    /\ UNCHANGED <<property, mode, getterValue, getterHadError, hasChildren,
                   expanded, listCreated, shouldRefresh, children, threw,
                   fetches, refreshes, clicks, listedFrom, classNames, menu, menus>>

MenuInit ==
    /\ Init
    /\ menu = {}
    /\ menus = 0
    /\ navs = <<>>

MenuNext ==
    \/ Next /\ UNCHANGED menuVars
    \/ OpenContextMenu
    \/ DismissContextMenu
    \/ ChooseMenuItem
    \/ NavigationReply

MenuSpec ==
    /\ MenuInit /\ [][MenuNext]_allVars
    /\ WF_allVars(ServiceReply /\ UNCHANGED menuVars)
    /\ WF_allVars(NavigationReply)

-----------------------------------------------------------------------------
(* Properties                                                              *)

(* Type invariant: a navigation ends at an object or at an early return, *)
(* never at a missing value (the item callbacks act on the value the     *)
(* menu was built for, which _contextMenuHandler checked).              *)
MenuTypeOK ==
    /\ menu \subseteq MenuItem
    /\ menus \in 0..MaxMenus
    /\ navs \in Seq(ObjIds \cup {Failed})

=============================================================================
