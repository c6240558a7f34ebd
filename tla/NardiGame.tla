----------------------------- MODULE NardiGame ------------------------------
(***************************************************************************)
(* The online game of LibCryptSafe: GameManager of every player (invitation,*)
(* commit-reveal roll for the first turn, numbered rolls and moves), the   *)
(* board that GameActivity shows, and the tunnel between the players.      *)
(*                                                                         *)
(* sendGameEvent starts a coroutine per frame, so frames may overtake each *)
(* other: Overtakes bounds how many earlier frames of its sender a frame   *)
(* may pass (0 is a FIFO tunnel).  GameManager and the board run on the    *)
(* main thread: a handler is one step, written as operators on the record  *)
(* of its player.  The hash is ideal: a commitment is <<player, number,    *)
(* die>>, and only its own reveal matches it.  The rules are abstract: the *)
(* engine of the mover decides whether an event ends the turn, and the     *)
(* peer's engine, fed the same events, decides the same.                   *)
(***************************************************************************)
EXTENDS Integers, Sequences, FiniteSets, SequencesExt

CONSTANTS
  Players,
  Faces,           \* faces of the die of the opening roll (6)
  MAX_BUFFERED,    \* window of early events (32)
  Overtakes,       \* frames of the same sender that a frame may pass
  QuickScreen,     \* TRUE: the game screen comes up before the next frame is read and
                   \* closes before the next game
  MaxGames, MaxRolls, MaxEvents, MaxRepeats   \* bounds

Nobody == "nobody"

ASSUME ConstantsAssumption ==
  /\ Nobody \notin Players
  /\ Faces \in Nat /\ Faces > 1 /\ MAX_BUFFERED \in Nat /\ Overtakes \in Nat
  /\ QuickScreen \in BOOLEAN
  /\ {MaxGames, MaxRolls, MaxEvents, MaxRepeats} \subseteq Nat

VARIABLES
  gm,         \* GameManager and board of every player
  net,        \* net[p][q]: frames from p to q, in the order of sending
  games,      \* games proposed so far
  played,     \* played[g][p]: events sent to p in game g
  heard,      \* heard[g][p]: events that GameManager of p handed to his board in g
  accused,    \* players who found that the reveal of their peer does not match
  repeats     \* frames delivered twice

vars == <<gm, net, games, played, heard, accused, repeats>>

-----------------------------------------------------------------------------
\* No commitment: the empty string.
NoRoll == <<>>
Games == 1..MaxGames

Frame(type, g) == [type |-> type, game |-> g]
RollFrame(type, g, roll) == [type |-> type, game |-> g, roll |-> roll]
PlayFrame(g, n, kind, last) ==
  [type |-> "PLAY", game |-> g, seq |-> n, kind |-> kind, last |-> last]

\* out and given collect what a handler sends and hands to the board; base is
\* the number of rolls before this game (history).
Idle(p) ==
  [me |-> p, state |-> "IDLE", peer |-> Nobody, game |-> 0, white |-> TRUE,
   rollNo |-> 0, base |-> 0, myRoll |-> NoRoll, peerCommit |-> NoRoll, earlyReveal |-> NoRoll,
   openingQueue |-> <<>>, outSeq |-> 0, expectedSeq |-> 0, eventBuffer |-> {},
   screen |-> "none", closing |-> FALSE, turn |-> Nobody, dice |-> FALSE,
   first |-> Nobody, out |-> <<>>, given |-> <<>>, accuses |-> FALSE]

Init ==
  /\ gm = [p \in Players |-> Idle(p)]
  /\ net = [p \in Players |-> [q \in Players |-> <<>>]]
  /\ games = 0
  /\ played = [g \in Games |-> [p \in Players |-> <<>>]]
  /\ heard = [g \in Games |-> [p \in Players |-> <<>>]]
  /\ accused = {} /\ repeats = 0

-----------------------------------------------------------------------------
(* What GameManager and the board do, on the record m of a player.          *)

Send(m, f) == [m EXCEPT !.out = Append(@, f)]

\* Mutant: the number awaited from the peer goes on from the last game.
ResetKeepingExpected(m) ==
  [m EXCEPT !.state = "IDLE", !.peer = Nobody, !.game = 0, !.outSeq = 0,
            !.eventBuffer = {}, !.earlyReveal = NoRoll, !.openingQueue = <<>>,
            !.peerCommit = NoRoll, !.first = Nobody]
\* Mutant: the peer is kept.
ResetKeepingPeer(m) ==
  [m EXCEPT !.state = "IDLE", !.game = 0, !.outSeq = 0, !.expectedSeq = 0,
            !.eventBuffer = {}, !.earlyReveal = NoRoll,
            !.openingQueue = <<>>, !.peerCommit = NoRoll, !.first = Nobody]
\* Mutant: the peer's commitment of the last game is kept.
ResetKeepingCommit(m) ==
  [m EXCEPT !.state = "IDLE", !.peer = Nobody, !.game = 0, !.outSeq = 0,
            !.expectedSeq = 0, !.eventBuffer = {}, !.earlyReveal = NoRoll,
            !.openingQueue = <<>>, !.first = Nobody]

\* resetToIdle: colour, own roll and the screen stay.
ResetToIdle(m) ==
  [m EXCEPT !.state = "IDLE", !.peer = Nobody, !.game = 0, !.outSeq = 0,
            !.expectedSeq = 0, !.eventBuffer = {}, !.earlyReveal = NoRoll,
            !.openingQueue = <<>>, !.peerCommit = NoRoll, !.first = Nobody]

StartOpeningRoll(m, die) ==
  LET roll == <<m.me, m.rollNo + 1, die>> IN
  Send([m EXCEPT !.rollNo = @ + 1, !.myRoll = roll], RollFrame("COMMIT", m.game, roll))

\* startActivity: a new board in its opening phase comes up later.
StartGame(m, die) ==
  StartOpeningRoll([m EXCEPT !.state = "OPENING", !.base = m.rollNo, !.turn = Nobody,
                             !.dice = FALSE, !.screen = "starting"], die)

\* NardiRemote.applyRoll and applyMove: only in the peer's turn, a roll before
\* the moves; without a screen the callback reaches nobody.
OnBoard(m, e) ==
  IF m.screen # "open" \/ m.turn # m.peer \/ m.dice # (e.kind = "MOVE") THEN m
  ELSE [m EXCEPT !.dice = ~e.last, !.turn = IF e.last THEN m.me ELSE @]

ApplyEvent(m, e) ==
  [OnBoard(m, e) EXCEPT !.given = Append(@, e), !.expectedSeq = @ + 1]

\* One round of the loop in drainBuffer: the awaited event, if it is there.
DrainOne(m) ==
  LET e == CHOOSE b \in m.eventBuffer : b.seq = m.expectedSeq IN
  IF \E b \in m.eventBuffer : b.seq = m.expectedSeq
  THEN ApplyEvent([m EXCEPT !.eventBuffer = @ \ {e}], e) ELSE m

\* drainBuffer: the window has room for no more than MAX_BUFFERED rounds.
DrainBuffer(m) ==
  LET drained[k \in 0..MAX_BUFFERED] == IF k = 0 THEN m ELSE DrainOne(drained[k - 1])
  IN  drained[MAX_BUFFERED]

\* Mutant: events are applied as they come.
ProcessAtOnce(m, e) == IF e.seq < m.expectedSeq THEN m ELSE ApplyEvent(m, e)

\* An early event waits for its number, a repeated one is dropped.
ProcessIncomingEvent(m, e) ==
  CASE e.seq > m.expectedSeq + MAX_BUFFERED -> m
    [] e.seq < m.expectedSeq -> m
    [] e.seq = m.expectedSeq -> DrainBuffer(ApplyEvent(m, e))
    [] OTHER -> [m EXCEPT !.eventBuffer =
                   IF \E b \in @ : b.seq = e.seq THEN @ ELSE @ \cup {e}]

\* The events of openingQueue, one after the other.
Feed(m, queue) ==
  LET fed[k \in 0..Len(queue)] ==
        IF k = 0 THEN m ELSE ProcessIncomingEvent(fed[k - 1], queue[k])
  IN  fed[Len(queue)]

\* finishOpening sets the state and empties openingQueue.
Begun(m, first) == [m EXCEPT !.state = "ACTIVE", !.first = first, !.openingQueue = <<>>]

\* Mutant: the early events come before the board knows the first turn.
FinishLate(m, first) ==
  [Feed(Begun(m, first), m.openingQueue) EXCEPT
     !.turn = IF m.screen = "open" THEN first ELSE @]

\* finishOpening: the board learns the first turn, then the early events.
FinishOpening(m, first) ==
  Feed([Begun(m, first) EXCEPT !.turn = IF m.screen = "open" THEN first ELSE @],
       m.openingQueue)

\* endGame: also when a reveal does not match.
EndGame(m) == ResetToIdle(Send(m, Frame("END", m.game)))

\* Mutant: white wins a tie instead of a new roll.
OnRevealNoTie(m, roll, die) ==
  CASE m.peerCommit = NoRoll ->
         [m EXCEPT !.earlyReveal = IF @ = NoRoll THEN roll ELSE @]
    [] m.peerCommit # NoRoll /\ m.peerCommit # roll ->
         [EndGame(m) EXCEPT !.accuses = TRUE]
    [] OTHER -> FinishOpening(m, IF m.myRoll[3] >= roll[3] THEN m.me ELSE m.peer)
\* Mutant: after a tie only white rolls again.
OnRevealOneRerolls(m, roll, die) ==
  CASE m.peerCommit = NoRoll ->
         [m EXCEPT !.earlyReveal = IF @ = NoRoll THEN roll ELSE @]
    [] m.peerCommit # NoRoll /\ m.peerCommit # roll ->
         [EndGame(m) EXCEPT !.accuses = TRUE]
    [] m.peerCommit = roll /\ m.myRoll[3] # roll[3] ->
         FinishOpening(m, IF m.myRoll[3] > roll[3] THEN m.me ELSE m.peer)
    [] m.peerCommit = roll /\ m.myRoll[3] = roll[3] /\ ~m.white -> m
    [] OTHER ->
         StartOpeningRoll([m EXCEPT !.peerCommit = NoRoll, !.earlyReveal = NoRoll], die)

OnReveal(m, roll, die) ==
  CASE m.peerCommit = NoRoll ->
         [m EXCEPT !.earlyReveal = IF @ = NoRoll THEN roll ELSE @]
    [] m.peerCommit # NoRoll /\ m.peerCommit # roll ->
         [EndGame(m) EXCEPT !.accuses = TRUE]
    [] m.peerCommit = roll /\ m.myRoll[3] # roll[3] ->
         FinishOpening(m, IF m.myRoll[3] > roll[3] THEN m.me ELSE m.peer)
    [] OTHER ->
         StartOpeningRoll([m EXCEPT !.peerCommit = NoRoll, !.earlyReveal = NoRoll], die)

\* sendOpenReveal, then the reveal that came before the commit.
OnCommit(m, roll, die) ==
  LET told == Send([m EXCEPT !.peerCommit = roll], RollFrame("REVEAL", m.game, m.myRoll)) IN
  IF m.earlyReveal = NoRoll THEN told
  ELSE OnReveal([told EXCEPT !.earlyReveal = NoRoll], m.earlyReveal, die)

\* acceptPlayEvent.
OnPlay(m, f) ==
  CASE m.state = "ACTIVE" -> ProcessIncomingEvent(m, f)
    [] m.state = "OPENING" ->
         IF Len(m.openingQueue) >= MAX_BUFFERED THEN m
         ELSE [m EXCEPT !.openingQueue = Append(@, f)]
    [] OTHER -> m

\* The game screen closes two seconds after onOpponentLeft.
OnEnd(m) == [ResetToIdle(m) EXCEPT !.closing = TRUE]

OnInvite(m, q, g) ==
  IF m.state # "IDLE" THEN m
  ELSE [m EXCEPT !.state = "INVITED", !.peer = q, !.game = g, !.white = FALSE]

\* Mutant: the game id is not compared.
MineAnyGame(m, q, f) == m.peer = q

\* A frame of the peer in the game at hand.
Mine(m, q, f) == m.peer = q /\ m.game = f.game

\* handleGameEvent.
HandleGameEvent(m, q, f, die) ==
  CASE f.type = "INVITE" -> OnInvite(m, q, f.game)
    [] f.type = "ACCEPT" /\ Mine(m, q, f) /\ m.state = "INVITING" -> StartGame(m, die)
    [] f.type = "COMMIT" /\ Mine(m, q, f) /\ m.state = "OPENING" -> OnCommit(m, f.roll, die)
    [] f.type = "REVEAL" /\ Mine(m, q, f) /\ m.state = "OPENING" -> OnReveal(m, f.roll, die)
    [] f.type = "PLAY" /\ Mine(m, q, f) -> OnPlay(m, f)
    [] f.type = "END" /\ Mine(m, q, f) -> OnEnd(m)
    [] OTHER -> m

-----------------------------------------------------------------------------
\* The bound on rolls: the last one cannot be a tie.
Dice(m) == IF m.rollNo + 1 < MaxRolls THEN 1..Faces ELSE IF m.white THEN {1} ELSE {2}

\* Player p, who was talking to q, ends a handler with record m.
Becomes(p, q, m, frames) ==
  /\ gm' = [gm EXCEPT ![p] = [m EXCEPT !.out = <<>>, !.given = <<>>, !.accuses = FALSE]]
  /\ net' = IF q = Nobody THEN frames ELSE [frames EXCEPT ![p][q] = @ \o m.out]
  /\ heard' = IF m.given = <<>> THEN heard
              ELSE [heard EXCEPT ![gm[p].game][p] = @ \o m.given]
  /\ accused' = IF m.accuses THEN accused \cup {p} ELSE accused

\* sendInvite.
SendInvite(p, q) ==
  /\ gm[p].state = "IDLE" /\ p # q /\ games < MaxGames
  /\ games' = games + 1
  /\ Becomes(p, q, Send([gm[p] EXCEPT !.state = "INVITING", !.peer = q,
                           !.game = games + 1, !.white = TRUE],
                        Frame("INVITE", games + 1)), net)
  /\ UNCHANGED <<played, repeats>>

\* The dialog of onInviteReceived.
AcceptInvite(p) ==
  /\ gm[p].state = "INVITED"
  /\ \E die \in Dice(gm[p]) :
       Becomes(p, gm[p].peer, StartGame(Send(gm[p], Frame("ACCEPT", gm[p].game)), die), net)
  /\ UNCHANGED <<games, played, repeats>>

DeclineInvite(p) ==
  /\ gm[p].state = "INVITED"
  /\ Becomes(p, Nobody, ResetToIdle(gm[p]), net)
  /\ UNCHANGED <<games, played, repeats>>

\* The exit button of a game screen, also of an offline one.
Leave(p) ==
  /\ gm[p].state # "IDLE"
  /\ gm[p].screen = "open" \/ gm[p].state \in {"INVITING", "INVITED"}
  /\ Becomes(p, gm[p].peer, [EndGame(gm[p]) EXCEPT !.screen = "none"], net)
  /\ UNCHANGED <<games, played, repeats>>

\* A tap on the board in one's own turn: sendRoll or sendMove.
Tap(p) ==
  LET m == gm[p] IN
  /\ m.state = "ACTIVE" /\ m.screen = "open" /\ m.turn = p
  /\ m.outSeq < MaxEvents
  /\ \E last \in BOOLEAN :
       LET f == PlayFrame(m.game, m.outSeq, IF m.dice THEN "MOVE" ELSE "ROLL", last) IN
       /\ Becomes(p, m.peer, Send([m EXCEPT !.outSeq = @ + 1, !.dice = ~last,
                                            !.turn = IF last THEN m.peer ELSE p], f), net)
       /\ played' = [played EXCEPT ![m.game][m.peer] = Append(@, f)]
  /\ UNCHANGED <<games, repeats>>

\* A frame of q reaches p; it may pass earlier ones, and may come again.
Receive(p, q) ==
  \E i \in 1..Len(net[q][p]), again \in BOOLEAN, die \in Dice(gm[p]) :
    /\ QuickScreen => gm[p].screen # "starting"
    /\ i <= Overtakes + 1
    /\ again => repeats < MaxRepeats
    /\ repeats' = IF again THEN repeats + 1 ELSE repeats
    /\ LET frames == IF again THEN net ELSE [net EXCEPT ![q][p] = RemoveAt(@, i)] IN
       Becomes(p, gm[p].peer, HandleGameEvent(gm[p], q, net[q][p][i], die), frames)
    /\ UNCHANGED <<games, played>>

\* GameActivity.onCreate: the board is set up, its first turn still unknown.
ScreenOpens(p) ==
  /\ gm[p].screen = "starting"
  /\ gm' = [gm EXCEPT ![p].screen = "open"]
  /\ UNCHANGED <<net, games, played, heard, accused, repeats>>

\* The delayed GameActivity.CURRENT?.finish() of onOpponentLeft.
ScreenCloses(p) ==
  /\ gm[p].closing
  /\ QuickScreen => gm[p].state = "IDLE"
  /\ gm' = [gm EXCEPT ![p].closing = FALSE,
              ![p].screen = IF @ = "open" THEN "none" ELSE @]
  /\ UNCHANGED <<net, games, played, heard, accused, repeats>>

Next ==
  \E p \in Players :
    \/ AcceptInvite(p) \/ DeclineInvite(p) \/ Leave(p) \/ Tap(p)
    \/ ScreenOpens(p) \/ ScreenCloses(p)
    \/ \E q \in Players : SendInvite(p, q) \/ Receive(p, q)

Spec == Init /\ [][Next]_vars
-----------------------------------------------------------------------------
(* Properties.                                                             *)

Opponents(p, q) == gm[p].peer = q /\ gm[q].peer = p /\ gm[p].game = gm[q].game
Quiet(p, q) == net[p][q] = <<>> /\ net[q][p] = <<>>

\* Records stay in their sets; only a player with a peer has a game.
TypeOK ==
  \A p \in Players :
    /\ gm[p].state \in {"IDLE", "INVITING", "INVITED", "OPENING", "ACTIVE"}
    /\ gm[p].game \in 0..games /\ (gm[p].game = 0 <=> gm[p].state = "IDLE")
    /\ gm[p].peer \in (Players \ {p}) \cup {Nobody}
    /\ gm[p].peer = Nobody <=> gm[p].state = "IDLE"
    /\ Cardinality(gm[p].eventBuffer) <= MAX_BUFFERED
    /\ Len(gm[p].openingQueue) <= MAX_BUFFERED
    /\ gm[p].turn \in Players \cup {Nobody} /\ gm[p].dice \in BOOLEAN

\* "Strict order of events by seq": the board gets the peer's events in the
\* order in which they were made, without gap or repetition, however the
\* tunnel reorders and repeats frames, and whichever games came before.
Stream == INSTANCE EventStream WITH
  Streams <- Games \X Players,
  Events <- [type : {"PLAY"}, game : Games, seq : 0..MaxEvents-1,
             kind : {"ROLL", "MOVE"}, last : BOOLEAN],
  put <- [s \in Games \X Players |-> played[s[1]][s[2]]],
  taken <- [s \in Games \X Players |-> heard[s[1]][s[2]]]
HeardInOrder == Stream!Spec

\* Nothing is lost either: two players of a game who have no frame under way
\* have heard everything.
HeardAll ==
  \A p, q \in Players :
    Opponents(p, q) /\ gm[p].state = "ACTIVE" /\ gm[q].state = "ACTIVE" /\ Quiet(p, q)
      => heard[gm[p].game][p] = played[gm[p].game][p]

\* Both sides of a game agree on who won the opening roll.
OpeningAgrees ==
  \A p, q \in Players :
    Opponents(p, q) /\ gm[p].first # Nobody /\ gm[q].first # Nobody
      => gm[p].first = gm[q].first

\* When no frame is under way the two boards show the same turn.
BoardsAgree ==
  \A p, q \in Players :
    Opponents(p, q) /\ gm[p].state = "ACTIVE" /\ gm[q].state = "ACTIVE" /\ Quiet(p, q)
      => gm[p].turn = gm[q].turn /\ gm[p].dice = gm[q].dice

\* The game of a player ends only by his own doing or by an END of that game:
\* late frames of former games and of third players leave it alone.
LeftAlone ==
  \A p \in Players :
    LET q == gm[p].peer IN
    gm[p].state \in {"OPENING", "ACTIVE"} /\ gm'[p].game # gm[p].game
      => gm[q].peer # p \/ gm[q].game # gm[p].game \/ p \in accused' \/ net'[p][q] # net[p][q]

\* An early frame waits for its condition and is not thrown away: an opening
\* roll goes on while both players are in it.
OpeningNeverStalls ==
  \A p, q \in Players :
    Opponents(p, q) /\ Quiet(p, q) => gm[p].state # "OPENING"

\* Reordered frames do not weaken the fairness of commit and reveal: no
\* honest player is taken for a cheat.
NoFalseAccusation == accused = {}
=============================================================================
