---------------------------- MODULE ObjectMarker ----------------------------
(***************************************************************************)
(* BindingTargetObjectMarker: how a Secret or a ServiceAccount remembers   *)
(* the bindings that use it.  An object is [links, manager]: the names in  *)
(* the link annotation, which is missing when there are none, and the      *)
(* managed-by-binding label, "" when it is missing.  A marking operation   *)
(* yields [changed, obj]; the caller writes obj to the cluster only if     *)
(* changed is TRUE.                                                        *)
(***************************************************************************)
CONSTANT Names  \* the names of the bindings of a namespace

Objects == [links : SUBSET Names, manager : Names \cup {""}]

IsReferencedBy(b, o) == b \in o.links
IsManagedBy(b, o) == IsReferencedBy(b, o) /\ o.manager = b
IsManagedByOther(b, o) == o.manager \notin {"", b}

GetReferencingTargets(o) == o.links

MarkReferenced(b, o) ==
  [changed |-> b \notin o.links, obj |-> [o EXCEPT !.links = @ \cup {b}]]

MarkManaged(b, o) ==
  LET m == MarkReferenced(b, o)
  IN [changed |-> m.changed \/ o.manager # b, obj |-> [m.obj EXCEPT !.manager = b]]

UnmarkReferenced(b, o) ==
  [changed |-> b \in o.links, obj |-> [o EXCEPT !.links = @ \ {b}]]

\* The label of another binding is left alone, and yet reported as changed.
UnmarkManaged(b, o) ==
  [changed |-> o.manager # "", obj |-> [o EXCEPT !.manager = IF @ = b THEN "" ELSE @]]

\* What the operations for one binding return.
Marks(b, o) == {MarkReferenced(b, o), MarkManaged(b, o), UnmarkReferenced(b, o), UnmarkManaged(b, o)}
=============================================================================
