------------------- MODULE ObjectTreeSetIndexTreeElement -------------------
(***************************************************************************)
(* WebInspector.ObjectTreeSetIndexTreeElement                              *)
(* (Views/ObjectTreeSetIndexTreeElement.js): the child a collection node   *)
(* shows for a set entry (an entry with no key).  It keeps the entry's     *)
(* value and the property path it was given; nothing of it changes after   *)
(* construction, so it is a value built by operators, used by the         *)
(* property node when it materialises entries.                            *)
(*                                                                         *)
(* A property path (WebInspector.PropertyPath, not in this directory of    *)
(* the sources) is reduced to the sequence of objects it goes through,     *)
(* each step tagged with how it was taken.                                 *)
(***************************************************************************)
EXTENDS Sequences

CONSTANT Null    \* no object

(* PropertyPath.appendSetIndex: one more step, to a set member. *)
AppendSetIndex(path, object) ==
    Append(path, [step |-> "setIndex", object |-> object])

(* The constructor sets mainTitle to _titleFragment(), which calls        *)
(* resolvedValuePropertyPath() and so propertyPath.appendSetIndex: with a *)
(* null path that is a TypeError, before the element exists.             *)
ConstructionThrows(propertyPath) == propertyPath = Null

(* The constructor: the element keeping the entry value with the path of *)
(* its collection.                                                       *)
ObjectTreeSetIndexTreeElement(object, propertyPath) ==
    [object |-> object, propertyPath |-> propertyPath]

(* resolvedValue *)
ResolvedValue(node) == node.object

(* resolvedValuePropertyPath *)
ResolvedValuePropertyPath(node) == AppendSetIndex(node.propertyPath, node.object)

(* _titleFragment: a bullet whose tooltip says the path cannot be built, *)
(* and the value shown as an object tree or a formatted value with its   *)
(* resolved-value path.                                                  *)
TitleFragment(node) ==
    [name |-> "bullet", nameTooltip |-> "pathImpossible",
     value |-> node.object, valuePath |-> ResolvedValuePropertyPath(node)]

=============================================================================
