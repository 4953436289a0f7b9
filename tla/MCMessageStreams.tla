-------------------------- MODULE MCMessageStreams --------------------------
(* An instance of MessageStreams for TLC, with enough messages and connections
   for one resync to overtake another. *)
EXTENDS MessageStreams

\* Nothing is claimed of a page behind a gap.
NoGap == "gap" \notin excused
=============================================================================
