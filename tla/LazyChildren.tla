---------------------------- MODULE LazyChildren ----------------------------
(***************************************************************************)
(* What a lazily populated inspector tree node promises, without the     *)
(* service, the child kinds or the getter mechanics: the node has a       *)
(* value (possibly none yet), asks for the children of its value any      *)
(* number of times, and every request is eventually answered, each        *)
(* answer leaving the node showing either content or a message.  Once    *)
(* something is shown the node never goes back to showing nothing, and   *)
(* it only asks when it has a value.                                     *)
(***************************************************************************)
EXTENDS Naturals

CONSTANTS Values, Null

VARIABLES
    value,    \* the value whose children the node shows, or Null
    pending,  \* requests for children not yet answered
    shown     \* "nothing", "content" or "message"

vars == <<value, pending, shown>>

Shown == {"nothing", "content", "message"}

Init ==
    /\ value \in Values \cup {Null}
    /\ pending = 0
    /\ shown = "nothing"

(* The node asks for the children of its current value. *)
Populate ==
    /\ value # Null
    /\ pending' = pending + 1
    /\ UNCHANGED <<value, shown>>

(* An answer replaces what is shown by content or by a message. *)
Answer ==
    /\ pending > 0
    /\ pending' = pending - 1
    /\ shown' \in {"content", "message"}
    /\ UNCHANGED value

(* A late addition to a list already shown. *)
Amend ==
    /\ shown # "nothing"
    /\ shown' = "content"
    /\ UNCHANGED <<value, pending>>

(* The value changes (a getter is answered). *)
Resolve ==
    /\ value' \in Values \cup {Null}
    /\ UNCHANGED <<pending, shown>>

Next == Populate \/ Answer \/ Amend \/ Resolve

Spec == Init /\ [][Next]_vars /\ WF_vars(Answer)

=============================================================================
