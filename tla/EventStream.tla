---------------------------- MODULE EventStream -----------------------------
(***************************************************************************)
(* What the numbering of game events promises: for each receiver of each   *)
(* game a stream into which the peer puts events, one at a time, and out of *)
(* which the receiver's board takes some of the next ones, in order.       *)
(***************************************************************************)
EXTENDS Sequences, SequencesExt, Naturals

CONSTANTS Streams, Events

VARIABLES put, taken

vars == <<put, taken>>

Init ==
  /\ put = [s \in Streams |-> <<>>]
  /\ taken = [s \in Streams |-> <<>>]

Put(s) ==
  /\ put' # put
  /\ \E e \in Events : put' = [put EXCEPT ![s] = Append(@, e)]
  /\ UNCHANGED taken

Take(s) ==
  /\ \E n \in Len(taken[s]) + 1 .. Len(put[s]) :
       taken' = [taken EXCEPT ![s] = SubSeq(put[s], 1, n)]
  /\ UNCHANGED put

Next == \E s \in Streams : Put(s) \/ Take(s)

Spec == Init /\ [][Next]_vars

=============================================================================
