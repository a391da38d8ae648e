------------------------- MODULE MCReleaseOperations -------------------------
(***************************************************************************)
(* One run of the operator's tool beside one drill and one smoke, from the *)
(* three states in which the tools find a release: both surfaces paused,   *)
(* registrations open, both open.                                          *)
(***************************************************************************)
EXTENDS ReleaseOperations

CONSTANTS a1, d

MCInitialPauses ==
  {[s \in Surfaces |-> TRUE], PausedOnly("marketplace"), BothOpen}

=============================================================================
