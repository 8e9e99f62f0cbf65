--------------------------- MODULE MCTaskDispatch ---------------------------
(* TaskDispatch on small instances: which tasks are bound to which node.   *)
EXTENDS TaskDispatch, TLC

CONSTANT n1  \* the node the bound tasks belong to

OneNode == [t \in Tasks |-> n1]
AnyNode == [t \in Tasks |-> NoNode]

RunSymmetry == Permutations(Runs)
=============================================================================
