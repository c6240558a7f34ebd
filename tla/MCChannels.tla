---------------------------- MODULE MCChannels ------------------------------
(* A finite instance of Channels. *)
EXTENDS Channels

CONSTANTS d1, d2, d3, r1

\* The drafts are alike: call them by the order in which they are numbered.
InOrder ==
  /\ draft[d2] # "new" => draft[d1] # "new"
  /\ draft[d3] # "new" => draft[d2] # "new"
=============================================================================
