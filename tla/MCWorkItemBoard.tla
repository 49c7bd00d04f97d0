--------------------------- MODULE MCWorkItemBoard ---------------------------
(* Instances of WorkItemBoard for TLC. *)
EXTENDS WorkItemBoard, TLC

\* Requests have no identity but their name.
RequestSymmetry == Permutations(Requests)

=============================================================================
