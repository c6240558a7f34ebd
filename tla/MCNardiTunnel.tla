---------------------------- MODULE MCNardiTunnel ---------------------------
(* NardiGame over two tunnels: one that keeps the order of frames, with the  *)
(* constants of the configuration, and one in which a frame may pass two     *)
(* earlier ones and one frame comes twice, with a window of one early event. *)
EXTENDS NardiGame, TLC

CONSTANTS a, b

VARIABLE tunnel

TwoPlayers == {a, b}
Loose == INSTANCE NardiGame WITH
  MAX_BUFFERED <- 1, Overtakes <- 2, QuickScreen <- TRUE,
  MaxGames <- 1, MaxEvents <- 3, MaxRepeats <- 1

MCInit == \/ tunnel = "fifo" /\ Init
          \/ tunnel = "loose" /\ Loose!Init
MCNext == \/ tunnel = "fifo" /\ Next /\ UNCHANGED tunnel
          \/ tunnel = "loose" /\ Loose!Next /\ UNCHANGED tunnel
MCSpec == MCInit /\ [][MCNext]_<<vars, tunnel>>

\* Over a tunnel that keeps the order of frames an opening roll goes on while
\* both players are in it.
FifoNeverStalls == tunnel = "fifo" => OpeningNeverStalls
\* Over that tunnel the game of a player ends only by his own doing or by an
\* END of that game: late frames of the game before leave it alone.
FifoUndisturbed == [][tunnel = "fifo" => LeftAlone]_vars
\* Over the loose tunnel, too, the board gets the peer's events in the order
\* in which they were made (EventStream).
HeardInOrderLoose == Loose!HeardInOrder
=============================================================================
