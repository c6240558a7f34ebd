----------------------------- MODULE MCScreen -------------------------------
(* A finite instance of Screen. *)
EXTENDS Screen, TLC

CONSTANTS m1, h1, p1, q1, v1

\* Two chunks, an empty file, one chunk; p1 and v1 do not fit together.
TheBytes == (p1 :> 3) @@ (q1 :> 0) @@ (v1 :> 2)

Alike == Permutations(Activities)

\* Texts or files.  A text of a handshake: in the first moment, no fault.
\* Files: two of the three, one fault, one Activity.
Scope ==
  \/ /\ \A t \in Transfers : toSend[t] = 0 /\ mediaClock = 0
     /\ own[h1] = "none" \/ (clock = 1 /\ faults = 0)
  \/ /\ \A x \in Messages : own[x] = "none"
     /\ clock = 1 /\ faults <= 1 /\ Cardinality({x \in Activities : screen[x] # "none"}) <= 1
     /\ \E t \in Transfers : toSend[t] = 0
=============================================================================
