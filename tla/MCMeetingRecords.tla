--------------------------- MODULE MCMeetingRecords ---------------------------
(* Instances of MeetingRecords for TLC. *)
EXTENDS MeetingRecords, TLC

\* Requests have no identity but their name.
RequestSymmetry == Permutations(Requests)

=============================================================================
