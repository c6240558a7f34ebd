------------------------ MODULE NardiOpeningProofs --------------------------
(***************************************************************************)
(* NardiGame over a tunnel that repeats no frame (MaxRepeats = 0), however  *)
(* it delays and reorders them: an invitation is fresh, a game ends only by *)
(* its players, both sides agree on the opening roll, without a tie nobody  *)
(* is taken for a cheat, and while a turn's events fit the receive window   *)
(* no event is lost and the two boards show the same game.                  *)
(***************************************************************************)
EXTENDS NardiGameProofs
-----------------------------------------------------------------------------
(* Over a tunnel that repeats no frame, an invitation, a roll or an event is  *)
(* under way at most once.                                                  *)

Twins(f, e) ==
  /\ f.type = e.type
  /\ \/ f.type = "INVITE" /\ f.game = e.game
     \/ f.type = "COMMIT" /\ f.roll[2] = e.roll[2]
     \/ f.type = "PLAY" /\ f.game = e.game /\ f.seq = e.seq
Single(s) == \A i, j \in 1..Len(s) : Twins(s[i], s[j]) => i = j

Once ==
  /\ repeats \in Nat
  /\ \A p, q \in Players :
       /\ Single(net[p][q])
       /\ \A i \in 1..Len(net[p][q]) :
            net[p][q][i].type = "COMMIT" => net[p][q][i].roll[2] <= gm[p].rollNo

LEMMA SingleRemoved ==
  ASSUME NEW s \in Seq(Frames), Single(s), NEW i \in 1..Len(s)
  PROVE  /\ Single(RemoveAt(s, i))
         /\ \A j \in 1..Len(RemoveAt(s, i)) : ~Twins(s[i], RemoveAt(s, i)[j])
         /\ \A j \in 1..Len(RemoveAt(s, i)) : \E k \in 1..Len(s) : RemoveAt(s, i)[j] = s[k]
<1>1. PICK t : t = RemoveAt(s, i)
  OBVIOUS
<1>2. Len(t) = Len(s) - 1 /\ \A j \in 1..Len(t) : t[j] = IF j < i THEN s[j] ELSE s[j + 1]
  BY <1>1, Removed
<1>3. PICK at : at = [j \in 1..Len(t) |-> IF j < i THEN j ELSE j + 1]
  OBVIOUS
<1>4. \A j \in 1..Len(t) : at[j] \in 1..Len(s) /\ at[j] # i /\ t[j] = s[at[j]]
  BY <1>2, <1>3
<1>5. \A j, k \in 1..Len(t) : at[j] = at[k] => j = k
  BY <1>2, <1>3
<1>6. Single(t)
  BY <1>4, <1>5 DEF Single
<1>7. \A j \in 1..Len(t) : ~Twins(s[i], t[j])
  BY <1>4 DEF Single
<1> QED
  BY <1>1, <1>4, <1>6, <1>7

LEMMA SingleConcat ==
  ASSUME NEW s \in Seq(Frames), NEW o \in Seq(Frames), Single(s), Single(o),
         \A i \in 1..Len(s), j \in 1..Len(o) : ~Twins(s[i], o[j])
  PROVE  Single(s \o o)
<1>1. PICK t : t = s \o o
  OBVIOUS
<1>2. /\ t \in Seq(Frames) /\ Len(t) = Len(s) + Len(o) /\ Len(s) \in Nat /\ Len(o) \in Nat
      /\ \A i \in 1..Len(s) : t[i] = s[i]
      /\ \A i \in 1..Len(o) : t[Len(s) + i] = o[i]
  BY <1>1
<1>3. ASSUME NEW i \in 1..Len(t) PROVE i \in 1..Len(s) \/ \E j \in 1..Len(o) : i = Len(s) + j
  <2>1. CASE i <= Len(s)
    BY <2>1
  <2>2. CASE i > Len(s)
    <3>1. i - Len(s) \in 1..Len(o) /\ i = Len(s) + (i - Len(s))
      BY <1>2, <2>2
    <3> QED
      BY <3>1
  <2> QED
    BY <1>2, <2>1, <2>2
<1>4. ASSUME NEW i \in 1..Len(t), NEW j \in 1..Len(t), Twins(t[i], t[j]) PROVE i = j
  <2>0. \A f, e : Twins(f, e) => Twins(e, f)
    BY DEF Twins
  <2>1. CASE i \in 1..Len(s) /\ j \in 1..Len(s)
    BY <1>2, <1>4, <2>1 DEF Single
  <2>2. CASE i \in 1..Len(s) /\ \E k \in 1..Len(o) : j = Len(s) + k
    BY <1>2, <1>4, <2>2
  <2>3. CASE (\E k \in 1..Len(o) : i = Len(s) + k) /\ j \in 1..Len(s)
    BY <1>2, <1>4, <2>0, <2>3
  <2>4. CASE (\E k \in 1..Len(o) : i = Len(s) + k) /\ (\E k \in 1..Len(o) : j = Len(s) + k)
    BY <1>2, <1>4, <2>4 DEF Single
  <2> QED
    BY <1>3, <2>1, <2>2, <2>3, <2>4
<1> QED
  BY <1>1, <1>4 DEF Single

\* What the record r sends holds no invitation and no event, and its rolls are
\* new ones, numbered after k.
NewRolls(k, r) ==
  /\ r.out \in Seq(Frames) /\ k <= r.rollNo /\ Single(r.out)
  /\ \A i \in 1..Len(r.out) :
       /\ r.out[i].type \notin {"INVITE", "PLAY"}
       /\ r.out[i].type = "COMMIT" => k < r.out[i].roll[2] /\ r.out[i].roll[2] <= r.rollNo

LEMMA NewNone ==
  ASSUME NEW r, r.out = <<>>, r.rollNo \in Nat
  PROVE  NewRolls(r.rollNo, r)
<1>1. r.out \in Seq(Frames) /\ Len(r.out) = 0
  OBVIOUS
<1> QED
  BY <1>1 DEF NewRolls, Single

LEMMA NewSame ==
  ASSUME NEW k, NEW s, NewRolls(k, s), NEW r, r.out = s.out, r.rollNo = s.rollNo
  PROVE  NewRolls(k, r)
BY DEF NewRolls

LEMMA NewFrame ==
  ASSUME NEW k \in Nat, NEW s, NewRolls(k, s), s.rollNo \in Nat,
         NEW f \in Frames, f.type \notin {"INVITE", "PLAY"},
         NEW r, r.out = Append(s.out, f), r.rollNo \in Nat, s.rollNo <= r.rollNo,
         f.type = "COMMIT" => f.roll[2] = r.rollNo /\ s.rollNo < r.rollNo
  PROVE  NewRolls(k, r)
<1>1. PICK o, t : o = s.out /\ t = r.out
  OBVIOUS
<1>0. o \in Seq(Frames) /\ t = Append(o, f)
  BY <1>1 DEF NewRolls
<1>2. /\ t \in Seq(Frames) /\ Len(t) = Len(o) + 1 /\ Len(o) \in Nat /\ t[Len(o) + 1] = f
      /\ \A i \in 1..Len(o) : t[i] = o[i]
  BY <1>0
<1>3. \A i \in 1..Len(t) : i \in 1..Len(o) \/ i = Len(o) + 1
  BY <1>2
<1>4. ASSUME NEW i \in 1..Len(o), o[i].type = "COMMIT"
      PROVE  o[i].roll[2] \in Nat /\ k < o[i].roll[2] /\ o[i].roll[2] <= s.rollNo
  <2>1. o[i] \in Frames
    BY <1>0
  <2>2. o[i] \in [type : {"COMMIT", "REVEAL"}, game : Nat, roll : Rolls]
    BY <1>4, <2>1 DEF Frames, Plays
  <2> QED
    BY <1>1, <1>4, <2>2 DEF NewRolls, Rolls
<1>5. ASSUME NEW i \in 1..Len(t)
      PROVE  /\ t[i].type \notin {"INVITE", "PLAY"}
             /\ t[i].type = "COMMIT" => k < t[i].roll[2] /\ t[i].roll[2] <= r.rollNo
  <2>1. CASE i \in 1..Len(o)
    BY <1>1, <1>2, <1>4, <2>1 DEF NewRolls
  <2>2. CASE i = Len(o) + 1
    BY <1>2, <2>2 DEF NewRolls
  <2> QED
    BY <1>3, <2>1, <2>2
<1>6. \A i \in 1..Len(o) : ~Twins(t[i], f) /\ ~Twins(f, t[i])
  <2>1. \A i \in 1..Len(o) : o[i].type \notin {"INVITE", "PLAY"}
    BY <1>1 DEF NewRolls
  <2> QED
    BY <1>2, <1>4, <2>1 DEF Twins
<1>7. Single(t)
  <2> SUFFICES ASSUME NEW i \in 1..Len(t), NEW j \in 1..Len(t), Twins(t[i], t[j]) PROVE i = j
    BY DEF Single
  <2>1. CASE i \in 1..Len(o) /\ j \in 1..Len(o)
    BY <1>1, <1>2, <2>1 DEF NewRolls, Single
  <2>2. CASE i = Len(o) + 1 \/ j = Len(o) + 1
    BY <1>2, <1>3, <1>6, <2>2
  <2> QED
    BY <1>3, <2>1, <2>2
<1>8. k <= r.rollNo
  BY DEF NewRolls
<1> QED
  BY <1>1, <1>2, <1>5, <1>7, <1>8 DEF NewRolls

LEMMA NewRolled ==
  ASSUME NEW k \in Nat, NEW s, NewRolls(k, s), s.rollNo \in Nat, s.me \in Players, s.game \in Nat,
         NEW die \in Nat, NEW r, Rolled(s, r, die)
  PROVE  NewRolls(k, r)
<1>1. r.rollNo = s.rollNo + 1 /\ r.myRoll = <<s.me, s.rollNo + 1, die>>
      /\ r.out = Append(s.out, RollFrame("COMMIT", s.game, r.myRoll))
  BY DEF Rolled
<1>2. r.myRoll \in Rolls
  BY <1>1 DEF Rolls
<1>3. PICK f : f = RollFrame("COMMIT", s.game, r.myRoll)
  OBVIOUS
<1>4. f \in Frames /\ f.type = "COMMIT" /\ f.roll = r.myRoll
  BY <1>2, <1>3, FramesAre
<1>5. f.roll[2] = r.rollNo /\ s.rollNo < r.rollNo /\ r.rollNo \in Nat
  BY <1>1, <1>4
<1>6. f.type \notin {"INVITE", "PLAY"} /\ s.rollNo <= r.rollNo /\ r.out = Append(s.out, f)
  BY <1>1, <1>3, <1>4
<1> QED
  BY <1>4, <1>5, <1>6, NewFrame

LEMMA NewRevealed ==
  ASSUME NEW k \in Nat, NEW m, NewRolls(k, m), m.rollNo \in Nat, m.me \in Players, m.game \in Nat,
         NEW roll, NEW die \in Nat, NEW E, NEW r, Revealed(m, r, roll, die, E)
  PROVE  NewRolls(k, r)
<1>1. CASE Early(m, r, roll)
  <2>1. r.out = m.out /\ r.rollNo = m.rollNo
    BY <1>1 DEF Early, Only, Fields
  <2> QED
    BY <2>1, NewSame
<1>2. CASE Accuses(m, r, roll)
  <2>1. r.rollNo = m.rollNo /\ r.out = Append(m.out, Frame("END", m.game))
    BY <1>2 DEF Accuses, Only, Fields, GameFields
  <2>2. PICK f : f = Frame("END", m.game)
    OBVIOUS
  <2>3. f \in Frames /\ f.type = "END"
    BY <2>2, FramesAre
  <2> QED
    BY <2>1, <2>2, <2>3, NewFrame
<1>3. CASE Tied(m, r, roll, die)
  BY <1>3, NewRolled DEF Tied
<1>4. CASE Finished(m, r, roll, E)
  <2>1. PICK s, first : BegunWith(m, s, first) /\ Heeds(s, r, E)
    BY <1>4 DEF Finished
  <2>2. s.out = m.out /\ s.rollNo = m.rollNo
    BY <2>1 DEF BegunWith, Only, Fields, BegunFields
  <2>3. r.out = s.out /\ r.rollNo = s.rollNo
    BY <2>1 DEF Heeds, Only, Fields, EventFields
  <2> QED
    BY <2>2, <2>3, NewSame
<1> QED
  BY <1>1, <1>2, <1>3, <1>4 DEF Revealed

LEMMA NewAnswered ==
  ASSUME NEW k \in Nat, NEW m, NewRolls(k, m), m.rollNo \in Nat, m.game \in Nat, m.myRoll \in Rolls,
         NEW roll, NEW r, Answered(m, r, roll)
  PROVE  NewRolls(k, r) /\ r.rollNo = m.rollNo /\ r.me = m.me /\ r.game = m.game
<1>1. /\ r.rollNo = m.rollNo /\ r.me = m.me /\ r.game = m.game
      /\ r.out = Append(m.out, RollFrame("REVEAL", m.game, m.myRoll))
  BY DEF Answered, Only, Fields
<1>2. PICK f : f = RollFrame("REVEAL", m.game, m.myRoll)
  OBVIOUS
<1>3. f \in Frames /\ f.type = "REVEAL"
  BY <1>2, FramesAre
<1> QED
  BY <1>1, <1>2, <1>3, NewFrame

LEMMA NewHandled ==
  ASSUME NEW p \in Players, NEW G \in SUBSET (Nat \ {0}), NEW m, Sound(p, m, G), m.out = <<>>,
         NEW q, NEW f, NEW die \in Nat, NEW E, NEW r, Handled(m, r, q, f, die, E)
  PROVE  NewRolls(m.rollNo, r)
<1>1. m.rollNo \in Nat /\ m.game \in Nat /\ m.me \in Players /\ NewRolls(m.rollNo, m)
  BY NewNone DEF Sound, Typed
<1>2. CASE Ignored(m, r, q, f)
  BY <1>1, <1>2 DEF Ignored
<1>3. CASE Invited(m, r, q, f.game)
  <2>1. r.out = m.out /\ r.rollNo = m.rollNo
    BY <1>3 DEF Invited, Only, Fields
  <2> QED
    BY <1>1, <2>1, NewSame
<1>4. CASE Started(m, r, die)
  BY <1>1, <1>4, NewRolled DEF Started
<1>5. CASE m.state = "OPENING" /\ Committed(m, r, f.roll, die, E)
  <2>1. m.myRoll \in Rolls
    BY <1>5 DEF Sound, Coherent, Typed
  <2>2. CASE Answered(m, r, f.roll)
    BY <1>1, <2>1, <2>2, NewAnswered
  <2>3. ASSUME NEW s, NEW t, Answered(m, s, f.roll),
               Only(s, t, {"earlyReveal"}), Revealed(t, r, m.earlyReveal, die, E)
        PROVE  NewRolls(m.rollNo, r)
    <3>1. NewRolls(m.rollNo, s) /\ s.rollNo = m.rollNo /\ s.me = m.me /\ s.game = m.game
      BY <1>1, <2>1, <2>3, NewAnswered
    <3>2. t.rollNo = s.rollNo /\ t.me = s.me /\ t.game = s.game /\ t.out = s.out
      BY <2>3 DEF Only, Fields
    <3>3. NewRolls(m.rollNo, t)
      BY <3>1, <3>2, NewSame
    <3> QED
      BY <1>1, <2>3, <3>1, <3>2, <3>3, NewRevealed
  <2> QED
    BY <1>5, <2>2, <2>3 DEF Committed
<1>6. CASE Revealed(m, r, f.roll, die, E)
  BY <1>1, <1>6, NewRevealed
<1>7. CASE Queued(m, r, f)
  <2>1. r.out = m.out /\ r.rollNo = m.rollNo
    BY <1>7 DEF Queued, Only, Fields
  <2> QED
    BY <1>1, <2>1, NewSame
<1>8. CASE Heeds(m, r, E)
  <2>1. r.out = m.out /\ r.rollNo = m.rollNo
    BY <1>8 DEF Heeds, Only, Fields, EventFields
  <2> QED
    BY <1>1, <2>1, NewSame
<1>9. CASE Over(m, r)
  <2>1. r.out = m.out /\ r.rollNo = m.rollNo
    BY <1>9 DEF Over, Only, Fields, GameFields
  <2> QED
    BY <1>1, <2>1, NewSame
<1> QED
  BY <1>2, <1>3, <1>4, <1>5, <1>6, <1>7, <1>8, <1>9 DEF Handled

\* Player p, who was talking to d, has made a record r of his own: in a handler
\* of a frame f from q, which is not under way any more, or of his own accord.
Reading(p, d, r, q, f, die) ==
  /\ d = gm[p].peer /\ UNCHANGED <<games, played>>
  /\ f \in Frames /\ f.game \in 1..games /\ f \in Under(net, q, p) /\ die \in Dice(gm[p])
  /\ \A e \in Under(net', q, p) : ~Twins(f, e)
  /\ \A x, y \in Players : \A e \in Under(net, x, y) :
       e \in Under(net', x, y) \/ (x = q /\ y = p /\ e = f)
  /\ QuickScreen => gm[p].screen # "starting"
  /\ Handled(gm[p], r, q, f, die, Plays)
Step(p, d, r) ==
  /\ Sound(p, r, 1..games') /\ Rested(r, gm'[p]) /\ \A x \in Players \ {p} : gm'[x] = gm[x]
  /\ heard' = IF r.given = <<>> THEN heard ELSE Hearing(heard, gm[p].game, p, r.given)
  /\ accused' = IF r.accuses THEN accused \cup {p} ELSE accused
  /\ \A x, y \in Players : \A f \in Under(net', x, y) :
       f \in Under(net, x, y) \/ (x = p /\ y = d /\ f \in ToSet(r.out))
  /\ \/ /\ Alone(p, d, r) /\ (d \in Players => net'[p][d] = net[p][d] \o r.out)
        /\ \A x, y \in Players : Under(net, x, y) \subseteq Under(net', x, y)
     \/ \E q \in Players \ {p} : \E f, die : Reading(p, d, r, q, f, die)

\* What is sent alone: no INVITE, no roll and no event but a new one.
LEMMA NewAlone ==
  ASSUME NEW p \in Players, Sane, NEW d, NEW r, Alone(p, d, r), Sound(p, r, 1..games')
  PROVE  /\ gm[p].rollNo <= r.rollNo /\ Single(r.out)
         /\ \A i \in 1..Len(r.out) :
              /\ r.out[i].type = "INVITE" => r.out[i].game > games
              /\ r.out[i].type = "COMMIT" =>
                   gm[p].rollNo < r.out[i].roll[2] /\ r.out[i].roll[2] <= r.rollNo
              /\ r.out[i].type = "PLAY" =>
                   /\ r.out[i].game = gm[p].game /\ r.out[i].seq = gm[p].outSeq
                   /\ d = gm[p].peer /\ gm[p].state = "ACTIVE"
<1>1. PICK m : m = gm[p]
  OBVIOUS
<1>2. Sound(p, m, 1..games) /\ m.out = <<>> /\ games \in Nat
  BY <1>1 DEF Sane, Resting
<1>3. m.rollNo \in Nat /\ r.rollNo \in Nat /\ m.game \in Nat /\ m.me \in Players /\ r.out \in Seq(Frames)
  BY <1>2 DEF Sound, Typed
<1>4. NewRolls(m.rollNo, m)
  BY <1>2, <1>3, NewNone
<1>5. CASE Proposes(m, r, d, games + 1)
  <2>1. r.out = <<Frame("INVITE", games + 1)>> /\ r.rollNo = m.rollNo
    BY <1>2, <1>5 DEF Proposes, Only, Fields
  <2>2. PICK o, f : o = r.out /\ f = Frame("INVITE", games + 1)
    OBVIOUS
  <2>3. Len(o) = 1 /\ o[1] = f /\ f.type = "INVITE" /\ f.game > games
    BY <1>2, <2>1, <2>2 DEF Frame
  <2>4. \A i \in 1..Len(o) : i = 1
    BY <2>3
  <2> QED
    BY <1>1, <1>3, <2>1, <2>2, <2>3, <2>4 DEF Single
<1>6. ASSUME NewRolls(m.rollNo, r)
      PROVE  /\ gm[p].rollNo <= r.rollNo /\ Single(r.out)
             /\ \A i \in 1..Len(r.out) :
                  /\ r.out[i].type = "INVITE" => r.out[i].game > games
                  /\ r.out[i].type = "COMMIT" =>
                       gm[p].rollNo < r.out[i].roll[2] /\ r.out[i].roll[2] <= r.rollNo
                  /\ r.out[i].type = "PLAY" =>
                       /\ r.out[i].game = gm[p].game /\ r.out[i].seq = gm[p].outSeq
                       /\ d = gm[p].peer /\ gm[p].state = "ACTIVE"
  BY <1>1, <1>6 DEF NewRolls
<1>7. CASE \E die \in Dice(m) : Accepts(m, r, die)
  <2>1. PICK die \in Nat : Accepts(m, r, die)
    BY <1>7, DiceNat
  <2>2. PICK s : /\ Only(m, s, {"out"}) /\ s.out = Append(m.out, Frame("ACCEPT", m.game))
                 /\ Started(s, r, die)
    BY <2>1 DEF Accepts
  <2>3. s.rollNo = m.rollNo /\ s.me = m.me /\ s.game = m.game
    BY <2>2 DEF Only, Fields
  <2>4. PICK f : f = Frame("ACCEPT", m.game)
    OBVIOUS
  <2>5. f \in Frames /\ f.type = "ACCEPT" /\ s.out = Append(m.out, f)
    BY <1>3, <2>2, <2>4, FramesAre
  <2>6. NewRolls(m.rollNo, s)
    <3>1. m.rollNo \in Nat /\ m.rollNo <= m.rollNo
      BY <1>3
    <3>2. f.type \notin {"INVITE", "PLAY"} /\ f.type # "COMMIT"
      BY <2>5
    <3>3. NewRolls(m.rollNo, m)
      BY <1>3, <1>4
    <3> QED
      BY <2>3, <2>5, <3>1, <3>2, <3>3, NewFrame
  <2>7. NewRolls(m.rollNo, r)
    BY <1>3, <2>2, <2>3, <2>6, NewRolled DEF Started
  <2> QED
    BY <1>6, <2>7
<1>8. CASE Declines(m, r) \/ Shows(m, r)
  <2>1. r.out = m.out /\ r.rollNo = m.rollNo
    BY <1>8 DEF Declines, Shows, Only, Fields, GameFields
  <2> QED
    BY <1>4, <1>6, <2>1, NewSame
<1>9. CASE Leaves(m, r)
  <2>1. r.rollNo = m.rollNo
    BY <1>9 DEF Leaves, Only, Fields, GameFields
  <2>2. PICK f : f = Frame("END", m.game)
    OBVIOUS
  <2>3. f \in Frames /\ f.type = "END" /\ r.out = Append(m.out, f)
    BY <1>3, <1>9, <2>2, FramesAre DEF Leaves
  <2>4. NewRolls(m.rollNo, r)
    BY <1>3, <1>4, <2>1, <2>3, NewFrame
  <2> QED
    BY <1>6, <2>4
<1>10. CASE d = gm[p].peer /\ \E last \in BOOLEAN : \E f : Taps(m, r, f, last)
  <2>1. PICK last \in BOOLEAN : \E f : Taps(m, r, f, last)
    BY <1>10
  <2>2. PICK f : Taps(m, r, f, last)
    BY <2>1
  <2>3. r.rollNo = m.rollNo /\ r.out = Append(m.out, f)
    BY <2>2 DEF Taps, Only, Fields
  <2>4. f.type = "PLAY" /\ f.game = m.game /\ f.seq = m.outSeq
    BY <2>2 DEF Taps, PlayFrame
  <2>5. PICK o : o = r.out
    OBVIOUS
  <2>6. Len(o) = 1 /\ o[1] = f /\ \A i \in 1..Len(o) : i = 1
    <3>1. o = <<f>>
      BY <1>2, <2>3, <2>5
    <3> QED
      BY <3>1
  <2>7. d = m.peer /\ m.state = "ACTIVE"
    BY <1>1, <1>10, <2>2 DEF Taps
  <2> QED
    BY <1>1, <1>3, <2>3, <2>4, <2>5, <2>6, <2>7 DEF Single
<1> QED
  BY <1>1, <1>5, <1>7, <1>8, <1>9, <1>10 DEF Alone

\* The frame f, the i-th from q to p, is read and gone.
ReadsOnce(p, d, r, N, q, i, f, die) ==
  /\ d = gm[p].peer /\ UNCHANGED <<games, played>> /\ f.game \in 1..games
  /\ f = net[q][p][i] /\ N = Taking(net, q, p, i)
  /\ QuickScreen => gm[p].screen # "starting"
  /\ Handled(gm[p], r, q, f, die, Plays)

LEMMA TakingIs ==
  ASSUME NEW G, NEW N, NetOk(N, G), NEW p \in Players, NEW q \in Players, NEW i
  PROVE  /\ Taking(N, p, q, i)[p][q] = RemoveAt(N[p][q], i)
         /\ \A x, y \in Players : <<x, y>> # <<p, q>> => Taking(N, p, q, i)[x][y] = N[x][y]
<1>1. PICK t : t = RemoveAt(N[p][q], i)
  OBVIOUS
<1>2. PICK M : M = Taking(N, p, q, i)
  OBVIOUS
<1>3. M = [N EXCEPT ![p][q] = t]
  BY <1>1, <1>2 DEF Taking
<1>4. M[p][q] = t /\ \A x, y \in Players : <<x, y>> # <<p, q>> => M[x][y] = N[x][y]
  BY <1>3 DEF NetOk
<1> QED
  BY <1>1, <1>2, <1>4

\* Of what a player sends nothing was under way, and of what he has read nothing
\* is.
LEMMA Steps ==
  ASSUME MaxRepeats = 0, Sane, StreamInv, Once, Next
  PROVE  Once' /\ \E p \in Players : \E d \in People \ {p} : \E r : Step(p, d, r)
<1>1. PICK p \in Players : \E d \in People \ {p} : \E r, N : Turn(p, d, r, N)
  BY Turns
<1>2. PICK d \in People \ {p} : \E r, N : Turn(p, d, r, N)
  BY <1>1
<1>3. PICK r, N : Turn(p, d, r, N)
  BY <1>2
<1>4. /\ Sound(p, r, 1..games') /\ Record(r) /\ r.out \in Seq(Frames) /\ NetOk(N, 1..games')
      /\ Becomes(p, d, r, N)
  BY <1>3 DEF Turn, Sound
<1>5. /\ PerPlayer(gm') /\ Rested(r, gm'[p]) /\ \A x \in Players \ {p} : gm'[x] = gm[x]
      /\ d = Nobody => net' = N
      /\ d # Nobody => d \in Players /\ net' = Sending(N, p, d, r.out)
  BY <1>4, BecomesIs DEF Sane
<1>6. /\ NetOk(net, 1..games) /\ games \in Nat
      /\ \A x \in Players : Sound(x, gm[x], 1..games) /\ gm[x].rollNo \in Nat
  BY DEF Sane, Sound, Typed
<1>7. /\ repeats' \in Nat
      /\ \/ N = net /\ Alone(p, d, r)
         \/ \E q \in Players \ {p} : \E i \in 1..Len(net[q][p]), die \in Dice(gm[p]), f \in Frames :
              ReadsOnce(p, d, r, N, q, i, f, die)
  <2>1. repeats \in Nat /\ ~(repeats < MaxRepeats)
    BY DEF Once
  <2>2. CASE N = net /\ repeats' = repeats /\ Alone(p, d, r)
    BY <2>1, <2>2
  <2>3. ASSUME NEW q \in Players \ {p}, NEW i \in 1..Len(net[q][p]), NEW again \in BOOLEAN,
               NEW die \in Dice(gm[p]), NEW f \in Frames, Reads(p, d, r, N, q, i, again, die, f)
        PROVE  repeats' \in Nat /\ ReadsOnce(p, d, r, N, q, i, f, die)
    BY <2>1, <2>3 DEF Reads, Receives, ReadsOnce
  <2> QED
    BY <1>3, <2>2, <2>3 DEF Turn
<1>8. /\ gm[p].rollNo <= r.rollNo /\ Single(r.out)
      /\ \A i \in 1..Len(r.out) :
           /\ r.out[i].type = "INVITE" => r.out[i].game > games
           /\ r.out[i].type = "COMMIT" =>
                gm[p].rollNo < r.out[i].roll[2] /\ r.out[i].roll[2] <= r.rollNo
           /\ r.out[i].type = "PLAY" =>
                /\ r.out[i].game = gm[p].game /\ r.out[i].seq = gm[p].outSeq
                /\ d = gm[p].peer /\ gm[p].state = "ACTIVE"
  <2>1. CASE Alone(p, d, r)
    BY <1>4, <2>1, NewAlone
  <2>2. ASSUME NEW q \in Players \ {p}, NEW i \in 1..Len(net[q][p]), NEW die \in Dice(gm[p]),
               NEW f \in Frames, ReadsOnce(p, d, r, N, q, i, f, die)
        PROVE  NewRolls(gm[p].rollNo, r)
    <3>1. PICK m, G : m = gm[p] /\ G = 1..games
      OBVIOUS
    <3>2. G \in SUBSET (Nat \ {0}) /\ Sound(p, m, G) /\ m.out = <<>>
      BY <1>6, <3>1 DEF Sane, Resting
    <3>3. die \in Nat /\ Handled(m, r, q, f, die, Plays)
      BY <2>2, <3>1, DiceNat DEF ReadsOnce
    <3>4. NewRolls(m.rollNo, r)
      BY <3>2, <3>3, NewHandled
    <3> QED
      BY <3>1, <3>4
  <2> QED
    BY <1>7, <2>1, <2>2 DEF NewRolls
<1>9. ASSUME NEW x \in Players, NEW y \in Players
      PROVE  /\ N[x][y] \in Seq(Frames) /\ Single(N[x][y]) /\ Under(N, x, y) \subseteq Under(net, x, y)
             /\ \A j \in 1..Len(N[x][y]) : \E k \in 1..Len(net[x][y]) : N[x][y][j] = net[x][y][k]
  <2>0. N[x][y] \in Seq(Frames)
    BY <1>4 DEF NetOk
  <2>1. CASE N = net
    BY <2>0, <2>1 DEF Once
  <2>2. ASSUME NEW q \in Players \ {p}, NEW i \in 1..Len(net[q][p]), N = Taking(net, q, p, i)
        PROVE  /\ Single(N[x][y]) /\ Under(N, x, y) \subseteq Under(net, x, y)
               /\ \A j \in 1..Len(N[x][y]) : \E k \in 1..Len(net[x][y]) : N[x][y][j] = net[x][y][k]
    <3>1. PICK s \in Seq(Frames) : s = net[q][p]
      BY <1>6 DEF NetOk
    <3>2. CASE <<x, y>> = <<q, p>>
      <4>1. N[x][y] = RemoveAt(s, i)
        BY <1>6, <2>2, <3>1, <3>2, TakingIs
      <4>2. Single(s) /\ i \in 1..Len(s)
        BY <3>1 DEF Once
      <4>3. Under(N, x, y) \subseteq Under(net, x, y)
        BY <1>6, <2>2, <3>2, UnderTaking
      <4> QED
        <5>1. PICK t : t = RemoveAt(s, i)
          OBVIOUS
        <5>2. Single(t) /\ \A j \in 1..Len(t) : \E k \in 1..Len(s) : t[j] = s[k]
          BY <3>1, <4>2, <5>1, SingleRemoved
        <5>3. N[x][y] = t /\ net[x][y] = s
          BY <3>1, <3>2, <4>1, <5>1
        <5> QED
          BY <4>3, <5>2, <5>3
    <3>3. CASE <<x, y>> # <<q, p>>
      <4>1. N[x][y] = net[x][y]
        BY <1>6, <2>2, <3>3, TakingIs
      <4> QED
        BY <2>0, <4>1 DEF Once, Under
    <3> QED
      BY <3>2, <3>3
  <2> QED
    BY <1>7, <2>0, <2>1, <2>2 DEF ReadsOnce
<1>10. ASSUME NEW x \in Players, NEW y \in Players
       PROVE  /\ d # Nobody /\ x = p /\ y = d => net'[x][y] = N[x][y] \o r.out
              /\ ~(d # Nobody /\ x = p /\ y = d) => net'[x][y] = N[x][y]
  <2>1. CASE d = Nobody
    BY <1>5, <2>1
  <2>2. CASE d # Nobody
    <3>1. d \in Players /\ net' = Sending(N, p, d, r.out)
      BY <1>5, <2>2
    <3>2. PICK M : M = Sending(N, p, d, r.out)
      OBVIOUS
    <3>3. /\ M[p][d] = N[p][d] \o r.out
          /\ \A a, b \in Players : <<a, b>> # <<p, d>> => M[a][b] = N[a][b]
      <4>1. PICK t : t = N[p][d] \o r.out
        OBVIOUS
      <4>2. M = [N EXCEPT ![p][d] = t]
        BY <3>2, <4>1 DEF Sending
      <4>3. M[p][d] = t /\ \A a, b \in Players : <<a, b>> # <<p, d>> => M[a][b] = N[a][b]
        BY <1>4, <3>1, <4>2 DEF NetOk
      <4> QED
        BY <4>1, <4>3
    <3> QED
      BY <2>2, <3>1, <3>2, <3>3
  <2> QED
    BY <2>1, <2>2
<1>11. ASSUME NEW x \in Players, NEW y \in Players
       PROVE  /\ Single(net'[x][y])
              /\ \A i \in 1..Len(net'[x][y]) :
                   net'[x][y][i].type = "COMMIT" => net'[x][y][i].roll[2] <= gm'[x].rollNo
              /\ \A f \in Under(net', x, y) :
                   f \in Under(N, x, y) \/ (x = p /\ y = d /\ f \in ToSet(r.out))
              /\ Under(N, x, y) \subseteq Under(net', x, y)
  <2>1. PICK s \in Seq(Frames) : s = N[x][y]
    BY <1>9
  <2>2. gm[x].rollNo <= gm'[x].rollNo /\ gm'[x].rollNo \in Nat
    <3>1. CASE x = p
      <4>1. gm'[p].rollNo = r.rollNo /\ r.rollNo \in Nat
        BY <1>4, <1>5 DEF Rested, Only, Fields, Sound, Typed
      <4> QED
        BY <1>8, <3>1, <4>1
    <3>2. CASE x # p
      BY <1>5, <1>6, <3>2
    <3> QED
      BY <3>1, <3>2
  <2>3. ASSUME NEW i \in 1..Len(s)
        PROVE  /\ s[i] \in Frames
               /\ s[i].type = "INVITE" => s[i].game \in 1..games
               /\ s[i].type = "COMMIT" =>
                    s[i].roll[2] \in Nat /\ s[i].roll[2] <= gm[x].rollNo /\ s[i].roll[2] <= gm'[x].rollNo
    <3>1. s[i] \in Frames
      OBVIOUS
    <3>2. PICK k \in 1..Len(net[x][y]) : s[i] = net[x][y][k]
      BY <1>9, <2>1
    <3>3. s[i].game \in 1..games /\ (s[i].type = "COMMIT" => s[i].roll[2] <= gm[x].rollNo)
      BY <1>6, <3>2 DEF NetOk, Once
    <3>4. s[i].type = "COMMIT" => s[i] \in [type : {"COMMIT", "REVEAL"}, game : Nat, roll : Rolls]
      BY <3>1 DEF Frames, Plays
    <3>5. s[i].type = "COMMIT" => s[i].roll[2] \in Nat
      BY <3>4 DEF Rolls
    <3> QED
      BY <1>6, <2>2, <3>1, <3>3, <3>5
  <2>4. CASE d # Nobody /\ x = p /\ y = d
    <3>1. net'[x][y] = s \o r.out
      BY <1>10, <2>1, <2>4
    <3>2. PICK o \in Seq(Frames) : o = r.out
      BY <1>4
    <3>3. \A i \in 1..Len(s), j \in 1..Len(o) : ~Twins(s[i], o[j])
      <4> SUFFICES ASSUME NEW i \in 1..Len(s), NEW j \in 1..Len(o), Twins(s[i], o[j]) PROVE FALSE
        OBVIOUS
      <4>1. o[j] \in Frames
        OBVIOUS
      <4>2. o[j].type = "COMMIT" => o[j] \in [type : {"COMMIT", "REVEAL"}, game : Nat, roll : Rolls]
        BY <4>1 DEF Frames, Plays
      <4>3. CASE s[i].type = "INVITE" /\ o[j].type = "INVITE" /\ s[i].game = o[j].game
        BY <1>6, <1>8, <2>3, <3>2, <4>3
      <4>4. CASE s[i].type = "COMMIT" /\ o[j].type = "COMMIT" /\ s[i].roll[2] = o[j].roll[2]
        <5>1. s[i].roll[2] \in Nat /\ s[i].roll[2] <= gm[p].rollNo
          BY <2>3, <2>4, <4>4
        <5>2. gm[p].rollNo < o[j].roll[2]
          BY <1>8, <3>2, <4>4
        <5>3. gm[p].rollNo \in Nat
          BY <1>6
        <5> QED
          BY <4>4, <5>1, <5>2, <5>3
      <4>5. CASE s[i].type = "PLAY" /\ o[j].type = "PLAY" /\ s[i].game = o[j].game /\ s[i].seq = o[j].seq
        <5>1. /\ o[j].game = gm[p].game /\ o[j].seq = gm[p].outSeq
              /\ d = gm[p].peer /\ gm[p].state = "ACTIVE"
          BY <1>8, <3>2, <4>5
        <5>2. PICK e, g : e = s[i] /\ g = gm[p].game
          OBVIOUS
        <5>3. e \in Under(net, p, d)
          <6>1. e \in ToSet(s)
            BY <5>2, SetOf
          <6>2. ToSet(s) = Under(N, p, d)
            BY <2>1, <2>4 DEF Under
          <6>3. Under(N, p, d) \subseteq Under(net, p, d)
            BY <1>9, <2>4
          <6> QED
            BY <6>1, <6>2, <6>3
        <5>4. d \in Players
          BY <2>4
        <5>5. e \in Played(played, e.game, d)
          BY <4>5, <5>2, <5>3, <5>4 DEF StreamInv, PlaysUnderWay
        <5>6. e.seq < Len(played[g][d]) /\ e.game = g /\ e.seq = gm[p].outSeq
          BY <4>5, <5>1, <5>2, <5>5 DEF Played
        <5>7. gm[p].game # 0
          BY <1>6, <5>1 DEF Sound, Coherent
        <5>8. gm[p].outSeq = Len(played[g][d])
          BY <5>1, <5>2, <5>7 DEF StreamInv, Follows
        <5>9. gm[p].outSeq \in Nat
          BY <1>6 DEF Sound, Typed
        <5> QED
          BY <5>6, <5>8, <5>9
      <4> QED
        BY <4>3, <4>4, <4>5 DEF Twins
    <3>4. Single(s \o o)
      BY <1>8, <1>9, <2>1, <3>2, <3>3, SingleConcat
    <3>5. PICK t : t = s \o o
      OBVIOUS
    <3>6. ToSet(t) = ToSet(s) \cup ToSet(o) /\ t \in Seq(Frames)
      BY <3>5, SetOfConcat
    <3>7. ASSUME NEW i \in 1..Len(t), t[i].type = "COMMIT" PROVE t[i].roll[2] <= gm'[x].rollNo
      <4>1. t[i] \in ToSet(t)
        BY <3>6, SetOf
      <4>2. CASE t[i] \in ToSet(s)
        <5>0. ToSet(s) = {s[k] : k \in 1..Len(s)}
          BY SetOf
        <5>1. PICK k \in 1..Len(s) : t[i] = s[k]
          BY <4>2, <5>0
        <5> QED
          BY <2>3, <3>7, <5>1
      <4>3. CASE t[i] \in ToSet(o)
        <5>0. ToSet(o) = {o[k] : k \in 1..Len(o)}
          BY SetOf
        <5>1. PICK k \in 1..Len(o) : t[i] = o[k]
          BY <4>3, <5>0
        <5>2. gm'[p].rollNo = r.rollNo
          BY <1>5 DEF Rested, Only, Fields
        <5> QED
          BY <1>8, <2>4, <3>2, <3>7, <5>1, <5>2
      <4> QED
        BY <3>6, <4>1, <4>2, <4>3
    <3> QED
      BY <2>1, <2>4, <3>1, <3>2, <3>4, <3>5, <3>6, <3>7 DEF Under
  <2>5. CASE ~(d # Nobody /\ x = p /\ y = d)
    <3>1. net'[x][y] = s
      BY <1>10, <2>1, <2>5
    <3> QED
      BY <1>9, <2>1, <2>3, <3>1 DEF Under
  <2> QED
    BY <2>4, <2>5
<1>12. Once'
  BY <1>7, <1>11 DEF Once, Single, Twins
<1>13. \A x, y \in Players : \A f \in Under(net', x, y) :
         f \in Under(net, x, y) \/ (x = p /\ y = d /\ f \in ToSet(r.out))
  BY <1>9, <1>11
<1>14. ASSUME NEW q \in Players \ {p}, NEW i \in 1..Len(net[q][p]), NEW die \in Dice(gm[p]),
              NEW f \in Frames, ReadsOnce(p, d, r, N, q, i, f, die)
       PROVE  Reading(p, d, r, q, f, die)
  <2>1. PICK s \in Seq(Frames) : s = net[q][p]
    BY <1>6 DEF NetOk
  <2>2. net'[q][p] = RemoveAt(s, i)
    <3>1. N = Taking(net, q, p, i)
      BY <1>14 DEF ReadsOnce
    <3>2. N[q][p] = RemoveAt(s, i)
      BY <1>6, <2>1, <3>1, TakingIs
    <3>3. net'[q][p] = N[q][p]
      BY <1>10
    <3> QED
      BY <3>2, <3>3
  <2>3. f = s[i] /\ Single(s) /\ i \in 1..Len(s)
    BY <1>14, <2>1 DEF ReadsOnce, Once
  <2>8. ASSUME NEW x \in Players, NEW y \in Players, NEW e \in Under(net, x, y)
        PROVE  e \in Under(net', x, y) \/ (x = q /\ y = p /\ e = f)
    <3>1. N = Taking(net, q, p, i)
      BY <1>14 DEF ReadsOnce
    <3>2. CASE <<x, y>> # <<q, p>>
      <4>1. Under(N, x, y) = Under(net, x, y)
        BY <1>6, <3>1, <3>2, UnderTaking
      <4> QED
        BY <1>11, <2>8, <4>1
    <3>3. CASE x = q /\ y = p
      <4>1. Under(N, q, p) = {s[j] : j \in (1..Len(s)) \ {i}}
        BY <1>6, <2>1, <3>1, UnderTaking
      <4>2. Under(net, q, p) = {s[j] : j \in 1..Len(s)}
        BY <2>1, SetOf DEF Under
      <4>3. e \in Under(N, q, p) \/ e = f
        BY <2>3, <2>8, <3>3, <4>1, <4>2
      <4> QED
        BY <1>11, <3>3, <4>3
    <3> QED
      BY <3>2, <3>3
  <2>4. PICK t : t = RemoveAt(s, i)
    OBVIOUS
  <2>5. t \in Seq(Frames) /\ \A j \in 1..Len(t) : ~Twins(f, t[j])
    BY <2>3, <2>4, SingleRemoved, SetOfRemoved
  <2>6. \A e \in ToSet(t) : ~Twins(f, e)
    BY <2>5, SetOf
  <2>7. f \in ToSet(s)
    BY <2>3, SetOf
  <2> QED
    BY <1>14, <2>1, <2>2, <2>4, <2>6, <2>7, <2>8 DEF ReadsOnce, Reading, Under
<1>15. /\ heard' = IF r.given = <<>> THEN heard ELSE Hearing(heard, gm[p].game, p, r.given)
       /\ accused' = IF r.accuses THEN accused \cup {p} ELSE accused
  BY <1>4 DEF Becomes, Hearing
<1>16. \/ /\ Alone(p, d, r) /\ (d \in Players => net'[p][d] = net[p][d] \o r.out)
          /\ \A x, y \in Players : Under(net, x, y) \subseteq Under(net', x, y)
       \/ \E q \in Players \ {p} : \E f, die : Reading(p, d, r, q, f, die)
  <2>1. CASE N = net /\ Alone(p, d, r)
    <3>1. d \in Players => d # Nobody
      BY ConstantsAssumption
    <3>2. \A x, y \in Players : Under(net, x, y) \subseteq Under(net', x, y)
      BY <1>11, <2>1
    <3> QED
      BY <1>10, <2>1, <3>1, <3>2
  <2> QED
    BY <1>7, <1>14, <2>1
<1> QED
  BY <1>4, <1>5, <1>12, <1>13, <1>15, <1>16 DEF Step

-----------------------------------------------------------------------------
(* Over such a tunnel an invitation comes to a player who knows nothing of   *)
(* its game, and what its sender has sent in it before is at most its end.  *)

Asks(N, q, p, g) == \E f \in Under(N, q, p) : f.type = "INVITE" /\ f.game = g

Fresh ==
  \A p, q \in Players, g \in Games : Asks(net, q, p, g) =>
    /\ gm[p].game # g /\ (gm[q].game = g => gm[q].state = "INVITING")
    /\ \A e \in Under(net, p, q) : e.game # g
    /\ \A e \in Under(net, q, p) : e.game = g => e.type \in {"INVITE", "END"}
    /\ heard[g][p] = <<>> /\ played[g][q] = <<>>

\* Who has sent the end of a game is not in it.
Quit ==
  \A p, q \in Players : \A f \in Under(net, q, p) :
    f.type = "END" => ~(gm[q].game = f.game /\ gm[q].peer = p)

LEMMA UnderIs ==
  ASSUME Sane, NEW p \in Players, NEW q \in Players, NEW f \in Under(net, q, p)
  PROVE  f \in Frames /\ f.game \in 1..games /\ f.game \in Games /\ f.game # 0
<1>1. PICK s \in Seq(Frames) : s = net[q][p]
  BY DEF Sane, NetOk
<1>2. PICK i \in 1..Len(s) : f = s[i]
  BY <1>1, SetOf DEF Under
<1>3. i \in 1..Len(net[q][p]) /\ net[q][p][i] = f
  BY <1>1, <1>2
<1>4. f \in Frames /\ f.game \in 1..games
  <2>1. NetOk(net, 1..games)
    BY DEF Sane
  <2>2. net[q][p][i].game \in 1..games
    BY <1>3, <2>1 DEF NetOk
  <2> QED
    BY <1>2, <1>3, <2>2
<1>5. games \in Nat /\ games <= MaxGames /\ MaxGames \in Nat
  BY ConstantsAssumption DEF Sane
<1> QED
  BY <1>4, <1>5 DEF Games

LEMMA StepOut ==
  ASSUME Sane, NEW p \in Players, NEW d, NEW r, Step(p, d, r), NEW f \in ToSet(r.out)
  PROVE  f \in Frames /\ f.game \in 1..games' /\ f.game # 0
<1>1. PICK s \in Seq(Frames) : s = r.out
  BY DEF Step, Sound
<1>2. PICK i \in 1..Len(s) : f = s[i]
  BY <1>1, SetOf
<1> QED
  BY <1>1, <1>2 DEF Step, Sound

\* Nobody asks for the game in which p hears from its peer.
LEMMA Unasked ==
  ASSUME Sane, StreamInv, Fresh, NEW p \in Players, NEW d, d = gm[p].peer, gm[p].state # "IDLE",
         gm[p].state # "INVITING" \/ \E e \in Under(net, d, p) : e.game = gm[p].game /\ e.type # "INVITE" /\ e.type # "END"
  PROVE  \A x, y \in Players : ~Asks(net, x, y, gm[p].game)
<1>1. PICK h : h = gm[p].game
  OBVIOUS
<1>2. Sound(p, gm[p], 1..games) /\ games \in Nat /\ games <= MaxGames /\ MaxGames \in Nat
  BY ConstantsAssumption DEF Sane
<1>3. d \in Players /\ h \in Games
  <2>1. gm[p].peer \in People /\ gm[p].peer # Nobody /\ h # 0 /\ h \in 1..games \cup {0}
    BY <1>1, <1>2 DEF Sound, Typed, Coherent
  <2> QED
    BY <1>2, <2>1 DEF People, Games
<1> SUFFICES ASSUME NEW x \in Players, NEW y \in Players, Asks(net, x, y, h) PROVE FALSE
  BY <1>1
<1>4. Claim(gm, net, h, x, y) /\ Claim(gm, net, h, p, d)
  BY <1>1 DEF Claim, Asks
<1>5. <<x, y>> = <<p, d>> \/ <<x, y>> = <<d, p>>
  BY <1>3, <1>4 DEF StreamInv, Paired
<1>6. /\ gm[y].game # h /\ (gm[x].game = h => gm[x].state = "INVITING")
      /\ \A e \in Under(net, y, x) : e.game # h
  BY <1>3 DEF Fresh
<1> QED
  BY <1>1, <1>5, <1>6

\* p handles a frame or a tap in a game that nobody asks for.
LEMMA FreshBusy ==
  ASSUME Sane, Fresh, Quit, NEW p \in Players, NEW d \in People \ {p}, NEW r, Step(p, d, r),
         \A x, y \in Players : ~Asks(net, x, y, gm[p].game),
         r.game \in {gm[p].game, 0}, r.game # 0 => r.peer = gm[p].peer,
         \A f \in ToSet(r.out) : /\ f.game = gm[p].game /\ f.type # "INVITE"
                                 /\ f.type = "END" => r.game = 0,
         \A g \in Games \ {gm[p].game} : heard'[g] = heard[g] /\ played'[g] = played[g]
  PROVE  Fresh' /\ Quit'
<1>1. PICK m, y, h : m = gm[p] /\ y = gm'[p] /\ h = gm[p].game
  OBVIOUS
<1>2. y.game = r.game /\ y.peer = r.peer /\ y.state = r.state
      /\ \A x \in Players \ {p} : gm'[x] = gm[x]
  BY <1>1 DEF Step, Rested, Only, Fields
<1>3. \A a, b \in Players : \A f \in Under(net', a, b) :
         f \in Under(net, a, b) \/ (a = p /\ b = d /\ f \in ToSet(r.out))
  BY DEF Step
<1>4. ASSUME NEW a \in Players, NEW b \in Players, NEW g \in Games, Asks(net', a, b, g)
      PROVE  Asks(net, a, b, g) /\ g # h
  BY <1>1, <1>3, <1>4 DEF Asks
<1>5. ASSUME NEW a \in Players, NEW b \in Players, NEW g \in Games, Asks(net', a, b, g)
      PROVE  /\ gm'[b].game # g /\ (gm'[a].game = g => gm'[a].state = "INVITING")
             /\ \A e \in Under(net', b, a) : e.game # g
             /\ \A e \in Under(net', a, b) : e.game = g => e.type \in {"INVITE", "END"}
             /\ heard'[g][b] = <<>> /\ played'[g][a] = <<>>
  <2>1. /\ gm[b].game # g /\ (gm[a].game = g => gm[a].state = "INVITING")
        /\ \A e \in Under(net, b, a) : e.game # g
        /\ \A e \in Under(net, a, b) : e.game = g => e.type \in {"INVITE", "END"}
        /\ heard[g][b] = <<>> /\ played[g][a] = <<>>
    BY <1>4, <1>5 DEF Fresh
  <2>2. g # h /\ g # 0
    BY <1>4, <1>5, ConstantsAssumption DEF Games
  <2>3. gm'[b].game # g /\ (gm'[a].game = g => gm'[a].state = "INVITING")
    BY <1>1, <1>2, <2>1, <2>2
  <2>4. heard'[g] = heard[g] /\ played'[g] = played[g]
    BY <1>1, <2>2
  <2> QED
    BY <1>1, <1>3, <2>1, <2>2, <2>3, <2>4
<1>6. Fresh'
  BY <1>5 DEF Fresh, Asks, Games, Under
<1>7. ASSUME NEW a \in Players, NEW b \in Players, NEW f \in Under(net', a, b), f.type = "END",
             gm'[a].game = f.game, gm'[a].peer = b
      PROVE  FALSE
  <2>1. CASE f \in Under(net, a, b)
    <3>1. ~(gm[a].game = f.game /\ gm[a].peer = b)
      BY <1>7, <2>1 DEF Quit
    <3>2. f.game # 0
      BY <2>1, UnderIs
    <3> QED
      BY <1>1, <1>2, <1>7, <3>1, <3>2
  <2>2. CASE a = p /\ b = d /\ f \in ToSet(r.out)
    <3>1. f.game = h /\ r.game = 0
      BY <1>1, <1>7, <2>2
    <3>2. h = 0
      BY <1>1, <1>2, <1>7, <2>2, <3>1
    <3>3. f.game \in 1..games'
      BY <2>2, StepOut
    <3> QED
      BY <3>1, <3>2, <3>3
  <2> QED
    BY <1>3, <2>1, <2>2
<1>8. Quit'
  BY <1>7 DEF Quit, Under
<1> QED
  BY <1>6, <1>8

\* p leaves its game, or stays as it is.
LEMMA FreshCalm ==
  ASSUME Sane, Fresh, Quit, NEW p \in Players, NEW d \in People \ {p}, NEW r, Step(p, d, r),
         r.game = 0 \/ (r.game = gm[p].game /\ r.peer = gm[p].peer /\ r.state = gm[p].state),
         \A f \in ToSet(r.out) : f.type = "END" /\ f.game = gm[p].game /\ r.game = 0,
         heard' = heard, played' = played
  PROVE  Fresh' /\ Quit'
<1>1. PICK m, y, h : m = gm[p] /\ y = gm'[p] /\ h = gm[p].game
  OBVIOUS
<1>2. y.game = r.game /\ y.peer = r.peer /\ y.state = r.state
      /\ \A x \in Players \ {p} : gm'[x] = gm[x]
  BY <1>1 DEF Step, Rested, Only, Fields
<1>3. \A a, b \in Players : \A f \in Under(net', a, b) :
         f \in Under(net, a, b) \/ (a = p /\ b = d /\ f \in ToSet(r.out))
  BY DEF Step
<1>4. ASSUME NEW a \in Players, NEW b \in Players, NEW g \in Games, Asks(net', a, b, g)
      PROVE  Asks(net, a, b, g)
  BY <1>1, <1>3, <1>4 DEF Asks
<1>5. ASSUME NEW a \in Players, NEW b \in Players, NEW g \in Games, Asks(net', a, b, g)
      PROVE  /\ gm'[b].game # g /\ (gm'[a].game = g => gm'[a].state = "INVITING")
             /\ \A e \in Under(net', b, a) : e.game # g
             /\ \A e \in Under(net', a, b) : e.game = g => e.type \in {"INVITE", "END"}
             /\ heard'[g][b] = <<>> /\ played'[g][a] = <<>>
  <2>1. /\ gm[b].game # g /\ (gm[a].game = g => gm[a].state = "INVITING")
        /\ \A e \in Under(net, b, a) : e.game # g
        /\ \A e \in Under(net, a, b) : e.game = g => e.type \in {"INVITE", "END"}
        /\ heard[g][b] = <<>> /\ played[g][a] = <<>>
    BY <1>4, <1>5 DEF Fresh
  <2>2. g # 0
    BY <1>5, ConstantsAssumption DEF Games
  <2>3. gm'[b].game # g /\ (gm'[a].game = g => gm'[a].state = "INVITING")
    BY <1>1, <1>2, <2>1, <2>2
  <2>4. \A e \in Under(net', b, a) : e.game # g
    BY <1>1, <1>3, <2>1
  <2> QED
    BY <1>1, <1>3, <2>1, <2>3, <2>4
<1>6. Fresh'
  BY <1>5 DEF Fresh, Asks, Games, Under
<1>7. ASSUME NEW a \in Players, NEW b \in Players, NEW f \in Under(net', a, b), f.type = "END",
             gm'[a].game = f.game, gm'[a].peer = b
      PROVE  FALSE
  <2>1. CASE f \in Under(net, a, b)
    <3>1. ~(gm[a].game = f.game /\ gm[a].peer = b)
      BY <1>7, <2>1 DEF Quit
    <3>2. f.game # 0
      BY <2>1, UnderIs
    <3> QED
      BY <1>1, <1>2, <1>7, <3>1, <3>2
  <2>2. CASE a = p /\ b = d /\ f \in ToSet(r.out)
    <3>1. f.game = 0
      BY <1>1, <1>2, <1>7, <2>2
    <3> QED
      BY <2>2, <3>1, StepOut
  <2> QED
    BY <1>3, <2>1, <2>2
<1>8. Quit'
  BY <1>7 DEF Quit, Under
<1> QED
  BY <1>6, <1>8

\* p proposes a game of a new number.
LEMMA FreshProposes ==
  ASSUME Sane, StreamInv, Fresh, Quit, NEW p \in Players, NEW d \in Players \ {p}, NEW r,
         Step(p, d, r), games' = games + 1, played' = played, Proposes(gm[p], r, d, games + 1)
  PROVE  Fresh' /\ Quit'
<1>1. PICK m, y, n : m = gm[p] /\ y = gm'[p] /\ n = games + 1
  OBVIOUS
<1>2. y.game = n /\ y.peer = d /\ y.state = "INVITING"
      /\ \A x \in Players \ {p} : gm'[x] = gm[x]
  BY <1>1 DEF Step, Rested, Only, Fields, Proposes
<1>3. games \in Nat /\ \A x \in Players : gm[x].game \in 1..games \cup {0}
  BY DEF Sane, Sound
<1>4. PICK k : k = Frame("INVITE", n)
  OBVIOUS
<1>5. k.type = "INVITE" /\ k.game = n /\ ToSet(r.out) = {k}
  <2>1. k \in Frames /\ k.type = "INVITE" /\ k.game = n
    BY <1>1, <1>3, <1>4, FramesAre
  <2>2. r.out = Append(m.out, k) /\ m.out = <<>>
    BY <1>1, <1>4 DEF Proposes, Sane, Resting
  <2>3. m.out \in Seq(Frames) /\ ToSet(m.out) = {}
    BY <2>2, EmptySet
  <2> QED
    <3>1. PICK o \in Seq(Frames) : o = m.out
      BY <2>3
    <3>2. ToSet(Append(o, k)) = ToSet(o) \cup {k}
      BY <2>1, SetOfAppend
    <3> QED
      BY <2>1, <2>2, <2>3, <3>1, <3>2
<1>6. \A a, b \in Players : \A f \in Under(net', a, b) :
         f \in Under(net, a, b) \/ (a = p /\ b = d /\ f = k)
  BY <1>5 DEF Step
<1>7. \A a, b \in Players : \A f \in Under(net, a, b) : f.game # n /\ f.game # 0
  BY <1>1, <1>3, UnderIs
<1>8. heard' = heard
  BY DEF Step, Proposes, Only, Fields, Sane, Resting
<1>9. ASSUME NEW a \in Players, NEW b \in Players, NEW g \in Games, Asks(net', a, b, g)
      PROVE  /\ gm'[b].game # g /\ (gm'[a].game = g => gm'[a].state = "INVITING")
             /\ \A e \in Under(net', b, a) : e.game # g
             /\ \A e \in Under(net', a, b) : e.game = g => e.type \in {"INVITE", "END"}
             /\ heard'[g][b] = <<>> /\ played'[g][a] = <<>>
  <2>1. CASE g # n
    <3>1. Asks(net, a, b, g)
      BY <1>5, <1>6, <1>9, <2>1 DEF Asks
    <3>2. /\ gm[b].game # g /\ (gm[a].game = g => gm[a].state = "INVITING")
          /\ \A e \in Under(net, b, a) : e.game # g
          /\ \A e \in Under(net, a, b) : e.game = g => e.type \in {"INVITE", "END"}
          /\ heard[g][b] = <<>> /\ played[g][a] = <<>>
      BY <3>1 DEF Fresh
    <3> QED
      BY <1>1, <1>2, <1>5, <1>6, <1>8, <2>1, <3>2
  <2>2. CASE g = n
    <3>1. a = p /\ b = d
      BY <1>6, <1>7, <1>9, <2>2 DEF Asks
    <3>2. gm'[b].game # g /\ gm'[a].state = "INVITING"
      BY <1>1, <1>2, <1>3, <2>2, <3>1
    <3>3. heard[g][b] = <<>> /\ played[g][a] = <<>>
      <4>1. played[g][b] = <<>> /\ played[g][a] = <<>> /\ Begins(heard[g][b], played[g][b]) /\ g > games
            /\ heard[g][b] \in Seq(Plays)
        BY <1>1, <1>3, <2>2 DEF StreamInv, Story, Histories
      <4>2. Len(heard[g][b]) = 0
        BY <4>1 DEF Begins
      <4> QED
        BY <4>1, <4>2
    <3>4. \A e \in Under(net', b, a) : e.game # g
      BY <1>6, <1>7, <2>2, <3>1
    <3>5. \A e \in Under(net', a, b) : e.game = g => e.type \in {"INVITE", "END"}
      BY <1>5, <1>6, <1>7, <2>2
    <3> QED
      BY <1>8, <3>2, <3>3, <3>4, <3>5
  <2> QED
    BY <2>1, <2>2
<1>10. Fresh'
  BY <1>9 DEF Fresh, Asks, Games, Under
<1>11. ASSUME NEW a \in Players, NEW b \in Players, NEW f \in Under(net', a, b), f.type = "END",
              gm'[a].game = f.game, gm'[a].peer = b
       PROVE  FALSE
  <2>1. f \in Under(net, a, b)
    BY <1>5, <1>6, <1>11
  <2>2. ~(gm[a].game = f.game /\ gm[a].peer = b)
    BY <1>11, <2>1 DEF Quit
  <2> QED
    BY <1>1, <1>2, <1>7, <1>11, <2>1, <2>2
<1>12. Quit'
  BY <1>11 DEF Quit, Under
<1> QED
  BY <1>10, <1>12

\* The invitation of q comes to p.
LEMMA FreshInvited ==
  ASSUME Sane, StreamInv, Fresh, Quit, NEW p \in Players, NEW d, NEW r, Step(p, d, r),
         played' = played, NEW q \in Players \ {p}, NEW f \in Under(net, q, p), f.type = "INVITE",
         \A e \in Under(net', q, p) : ~Twins(f, e), Invited(gm[p], r, q, f.game)
  PROVE  Fresh' /\ Quit' /\ FreshInvites
<1>1. PICK m, y, n : m = gm[p] /\ y = gm'[p] /\ n = f.game
  OBVIOUS
<1>2. y.game = n /\ y.peer = q /\ y.state = "INVITED" /\ m.state = "IDLE" /\ r.out = <<>>
      /\ \A x \in Players \ {p} : gm'[x] = gm[x]
  BY <1>1 DEF Step, Rested, Only, Fields, Invited, Sane, Resting
<1>3. heard' = heard
  BY DEF Step, Invited, Only, Fields, Sane, Resting
<1>4. ToSet(r.out) = {}
  BY <1>2, EmptySet
<1>5. \A a, b \in Players : \A e \in Under(net', a, b) : e \in Under(net, a, b)
  BY <1>4 DEF Step
<1>6. n \in Games /\ Asks(net, q, p, n)
  BY <1>1, UnderIs DEF Asks
<1>7. /\ gm[p].game # n /\ (gm[q].game = n => gm[q].state = "INVITING")
      /\ \A e \in Under(net, p, q) : e.game # n
      /\ heard[n][p] = <<>> /\ played[n][q] = <<>>
  BY <1>6 DEF Fresh
<1>8. ASSUME NEW a \in Players, NEW b \in Players, NEW g \in Games, Asks(net', a, b, g)
      PROVE  /\ gm'[b].game # g /\ (gm'[a].game = g => gm'[a].state = "INVITING")
             /\ \A e \in Under(net', b, a) : e.game # g
             /\ \A e \in Under(net', a, b) : e.game = g => e.type \in {"INVITE", "END"}
             /\ heard'[g][b] = <<>> /\ played'[g][a] = <<>>
  <2>1. Asks(net, a, b, g)
    BY <1>5, <1>8 DEF Asks
  <2>2. /\ gm[b].game # g /\ (gm[a].game = g => gm[a].state = "INVITING")
        /\ \A e \in Under(net, b, a) : e.game # g
        /\ \A e \in Under(net, a, b) : e.game = g => e.type \in {"INVITE", "END"}
        /\ heard[g][b] = <<>> /\ played[g][a] = <<>>
    BY <2>1 DEF Fresh
  <2>3. g # n
    <3> SUFFICES ASSUME g = n PROVE FALSE
      OBVIOUS
    <3>1. Claim(gm, net, n, a, b) /\ Claim(gm, net, n, q, p)
      BY <1>6, <2>1 DEF Claim, Asks
    <3>2. <<a, b>> = <<q, p>> \/ <<a, b>> = <<p, q>>
      BY <1>6, <3>1 DEF StreamInv, Paired
    <3>3. <<a, b>> = <<p, q>>
      <4>1. PICK e \in Under(net', a, b) : e.type = "INVITE" /\ e.game = n
        BY <1>8 DEF Asks
      <4> QED
        BY <1>1, <3>2, <4>1 DEF Twins
    <3> QED
      BY <1>1, <2>2, <3>3
  <2>4. gm'[b].game # g /\ (gm'[a].game = g => gm'[a].state = "INVITING")
    BY <1>1, <1>2, <2>2, <2>3
  <2> QED
    BY <1>3, <1>5, <2>2, <2>4
<1>9. Fresh'
  BY <1>8 DEF Fresh, Asks, Games, Under
<1>10. ASSUME NEW a \in Players, NEW b \in Players, NEW e \in Under(net', a, b), e.type = "END",
              gm'[a].game = e.game, gm'[a].peer = b
       PROVE  FALSE
  <2>1. e \in Under(net, a, b)
    BY <1>5, <1>10
  <2>2. ~(gm[a].game = e.game /\ gm[a].peer = b)
    BY <1>10, <2>1 DEF Quit
  <2>3. a = p /\ b = q /\ e.game = n
    BY <1>1, <1>2, <1>10, <2>2
  <2> QED
    BY <1>7, <2>1, <2>3
<1>11. Quit'
  BY <1>10 DEF Quit, Under
<1>12. FreshInvites
  <2> SUFFICES ASSUME NEW x \in Players, gm[x].state = "IDLE", gm'[x].state = "INVITED"
               PROVE  heard[gm'[x].game][x] = <<>> /\ played[gm'[x].game][gm'[x].peer] = <<>>
    BY DEF FreshInvites
  <2>1. x = p
    BY <1>2
  <2> QED
    BY <1>1, <1>2, <1>7, <2>1
<1> QED
  BY <1>9, <1>11, <1>12

\* A player in game h with q goes on or leaves; what he sends is of this game, and
\* its end only when he leaves.
Tame(h, q, r) ==
  /\ r.game \in {h, 0} /\ (r.game # 0 => r.peer = q)
  /\ \A f \in ToSet(r.out) :
       /\ f.game = h /\ f.type # "INVITE"
       /\ f.type = "END" => r.game = 0

LEMMA TameSame ==
  ASSUME NEW h, NEW q, NEW m, Tame(h, q, m), NEW r,
         r.game = m.game, r.peer = m.peer, r.out = m.out
  PROVE  Tame(h, q, r)
BY DEF Tame

LEMMA TameSends ==
  ASSUME NEW h, NEW q, NEW m, Tame(h, q, m), m.out \in Seq(Frames),
         NEW f \in Frames, f.game = h, f.type \notin {"INVITE", "END"},
         NEW r, r.game = m.game, r.peer = m.peer, r.out = Append(m.out, f)
  PROVE  Tame(h, q, r) /\ r.out \in Seq(Frames)
<1>1. r.out \in Seq(Frames) /\ ToSet(r.out) = ToSet(m.out) \cup {f}
  BY SetOfAppend
<1> QED
  BY <1>1 DEF Tame

LEMMA TameEnds ==
  ASSUME NEW h \in Nat, NEW q, NEW m, Tame(h, q, m), m.out \in Seq(Frames),
         NEW r, r.game = 0, r.out = m.out \/ r.out = Append(m.out, Frame("END", h))
  PROVE  Tame(h, q, r)
<1>1. CASE r.out = m.out
  BY <1>1 DEF Tame
<1>2. CASE r.out = Append(m.out, Frame("END", h))
  <2>1. PICK f : f = Frame("END", h)
    OBVIOUS
  <2>2. f \in Frames /\ f.type = "END" /\ f.game = h
    BY <2>1, FramesAre
  <2>3. ToSet(r.out) = ToSet(m.out) \cup {f}
    BY <1>2, <2>1, <2>2, SetOfAppend
  <2> QED
    BY <2>2, <2>3 DEF Tame
<1> QED
  BY <1>1, <1>2

LEMMA TameRolled ==
  ASSUME NEW q, NEW m, Tame(m.game, q, m), m.out \in Seq(Frames), m.game \in Nat,
         m.me \in Players, m.rollNo \in Nat,
         NEW die \in Nat, NEW r, Rolled(m, r, die), r.game = m.game, r.peer = m.peer
  PROVE  Tame(m.game, q, r)
<1>1. r.myRoll \in Rolls
  BY DEF Rolled, Rolls
<1>2. PICK c : c = RollFrame("COMMIT", m.game, r.myRoll)
  OBVIOUS
<1>3. c \in Frames /\ c.game = m.game /\ c.type = "COMMIT"
  BY <1>1, <1>2, FramesAre
<1>4. r.out = Append(m.out, c)
  BY <1>2 DEF Rolled
<1> QED
  BY <1>3, <1>4, TameSends

LEMMA TameRevealed ==
  ASSUME NEW h \in Nat, NEW q, NEW m, m.game = h, Tame(h, q, m), m.out \in Seq(Frames),
         m.me \in Players, m.rollNo \in Nat,
         NEW roll, NEW die \in Nat, NEW E, NEW r, Revealed(m, r, roll, die, E)
  PROVE  Tame(h, q, r)
<1>1. CASE Early(m, r, roll)
  <2>1. r.game = m.game /\ r.peer = m.peer /\ r.out = m.out
    BY <1>1 DEF Early, Only, Fields
  <2> QED
    BY <2>1, TameSame
<1>2. CASE Accuses(m, r, roll)
  BY <1>2, TameEnds DEF Accuses, Cleared
<1>3. CASE Tied(m, r, roll, die)
  <2>1. r.game = m.game /\ r.peer = m.peer /\ Rolled(m, r, die)
    BY <1>3 DEF Tied, Only, Fields, RollFields
  <2> QED
    BY <2>1, TameRolled
<1>4. CASE Finished(m, r, roll, E)
  <2>1. PICK s, first : BegunWith(m, s, first) /\ Heeds(s, r, E)
    BY <1>4 DEF Finished
  <2>2. s.game = m.game /\ s.peer = m.peer /\ s.out = m.out
    BY <2>1 DEF BegunWith, Only, Fields, BegunFields
  <2>3. r.game = s.game /\ r.peer = s.peer /\ r.out = s.out
    BY <2>1 DEF Heeds, Only, Fields, EventFields
  <2> QED
    BY <2>2, <2>3, TameSame
<1> QED
  BY <1>1, <1>2, <1>3, <1>4 DEF Revealed

LEMMA TameHandled ==
  ASSUME NEW p \in Players, NEW G \in SUBSET (Nat \ {0}), NEW m, Sound(p, m, G), m.out = <<>>,
         NEW q, NEW f, NEW die \in Nat, NEW E, NEW r, Handled(m, r, q, f, die, E)
  PROVE  Tame(m.game, m.peer, r) \/ (f.type = "INVITE" /\ Invited(m, r, q, f.game))
<1>1. PICK h : h = m.game
  OBVIOUS
<1>2. h \in Nat /\ m.rollNo \in Nat /\ m.me \in Players /\ m.out \in Seq(Frames) /\ Tame(h, m.peer, m)
  BY <1>1, EmptySet DEF Sound, Typed, Tame
<1>3. CASE Ignored(m, r, q, f)
  BY <1>1, <1>2, <1>3 DEF Ignored
<1>4. CASE Started(m, r, die)
  <2>1. r.game = m.game /\ r.peer = m.peer /\ Rolled(m, r, die)
    BY <1>4 DEF Started, Only, Fields, RollFields
  <2> QED
    BY <1>1, <1>2, <2>1, TameRolled
<1>5. CASE m.state = "OPENING" /\ Committed(m, r, f.roll, die, E)
  <2>1. ASSUME NEW s, Answered(m, s, f.roll)
        PROVE  /\ Tame(h, m.peer, s) /\ s.out \in Seq(Frames) /\ s.game = h
               /\ s.me \in Players /\ s.rollNo \in Nat
    <3>1. m.myRoll \in Rolls
      BY <1>5 DEF Sound, Coherent, Typed
    <3>2. PICK c : c = RollFrame("REVEAL", m.game, m.myRoll)
      OBVIOUS
    <3>3. c \in Frames /\ c.game = h /\ c.type = "REVEAL" /\ s.out = Append(m.out, c)
      BY <1>1, <1>2, <2>1, <3>1, <3>2, FramesAre DEF Answered
    <3>4. s.game = m.game /\ s.peer = m.peer /\ s.me = m.me /\ s.rollNo = m.rollNo
      BY <2>1 DEF Answered, Only, Fields
    <3> QED
      BY <1>1, <1>2, <3>3, <3>4, TameSends
  <2>2. CASE Answered(m, r, f.roll)
    BY <1>1, <2>1, <2>2
  <2>3. ASSUME NEW s, NEW t, Answered(m, s, f.roll), Only(s, t, {"earlyReveal"}),
               Revealed(t, r, m.earlyReveal, die, E)
        PROVE  Tame(h, m.peer, r)
    <3>1. /\ Tame(h, m.peer, s) /\ s.out \in Seq(Frames) /\ s.game = h
          /\ s.me \in Players /\ s.rollNo \in Nat
      BY <2>1, <2>3
    <3>2. t.game = s.game /\ t.peer = s.peer /\ t.out = s.out /\ t.me = s.me /\ t.rollNo = s.rollNo
      BY <2>3 DEF Only, Fields
    <3>3. Tame(h, m.peer, t)
      BY <3>1, <3>2, TameSame
    <3> QED
      BY <1>2, <2>3, <3>1, <3>2, <3>3, TameRevealed
  <2> QED
    BY <1>1, <1>5, <2>2, <2>3 DEF Committed
<1>6. CASE Revealed(m, r, f.roll, die, E)
  BY <1>1, <1>2, <1>6, TameRevealed
<1>7. CASE Queued(m, r, f)
  <2>1. r.game = m.game /\ r.peer = m.peer /\ r.out = m.out
    BY <1>7 DEF Queued, Only, Fields
  <2> QED
    BY <1>1, <1>2, <2>1, TameSame
<1>8. CASE Heeds(m, r, E)
  <2>1. r.game = m.game /\ r.peer = m.peer /\ r.out = m.out
    BY <1>8 DEF Heeds, Only, Fields, EventFields
  <2> QED
    BY <1>1, <1>2, <2>1, TameSame
<1>9. CASE Over(m, r)
  <2>1. r.game = 0 /\ r.out = m.out
    BY <1>9 DEF Over, Only, Fields, GameFields, Cleared
  <2> QED
    BY <1>1, <1>2, <2>1, TameEnds
<1> QED
  BY <1>3, <1>4, <1>5, <1>6, <1>7, <1>8, <1>9 DEF Handled

LEMMA TameAlone ==
  ASSUME Sane, NEW p \in Players, NEW d, NEW r, Alone(p, d, r), ~Proposes(gm[p], r, d, games + 1)
  PROVE  Tame(gm[p].game, gm[p].peer, r)
<1>1. PICK m, h : m = gm[p] /\ h = m.game
  OBVIOUS
<1>2. /\ h \in Nat /\ m.rollNo \in Nat /\ m.me \in Players /\ m.out \in Seq(Frames)
      /\ Tame(h, m.peer, m) /\ m.out = <<>> /\ m.outSeq \in Nat
  BY <1>1, EmptySet DEF Sane, Resting, Sound, Typed, Tame
<1>3. CASE \E die \in Dice(m) : Accepts(m, r, die)
  <2>1. PICK die \in Nat : Accepts(m, r, die)
    BY <1>3, DiceNat
  <2>2. PICK s : /\ Only(m, s, {"out"}) /\ s.out = Append(m.out, Frame("ACCEPT", m.game))
                 /\ Started(s, r, die)
    BY <2>1 DEF Accepts
  <2>3. s.rollNo = m.rollNo /\ s.me = m.me /\ s.game = m.game /\ s.peer = m.peer
    BY <2>2 DEF Only, Fields
  <2>4. PICK f : f = Frame("ACCEPT", m.game)
    OBVIOUS
  <2>5. f \in Frames /\ f.type = "ACCEPT" /\ f.game = h /\ s.out = Append(m.out, f)
    BY <1>1, <1>2, <2>2, <2>4, FramesAre
  <2>6. Tame(h, m.peer, s) /\ s.out \in Seq(Frames)
    BY <1>2, <2>3, <2>5, TameSends
  <2>7. r.game = s.game /\ r.peer = s.peer /\ Rolled(s, r, die)
    BY <2>2 DEF Started, Only, Fields, RollFields
  <2>8. s.game = h /\ s.game \in Nat /\ s.me \in Players /\ s.rollNo \in Nat
    BY <1>1, <1>2, <2>3
  <2>9. Tame(h, m.peer, r)
    BY <2>6, <2>7, <2>8, TameRolled
  <2> QED
    BY <1>1, <2>9
<1>4. CASE Declines(m, r)
  <2>1. r.game = 0 /\ r.out = m.out
    BY <1>4 DEF Declines, Only, Fields, GameFields, Cleared
  <2> QED
    BY <1>1, <1>2, <2>1, TameEnds
<1>5. CASE Leaves(m, r)
  <2>1. r.game = 0 /\ r.out = Append(m.out, Frame("END", h))
    BY <1>1, <1>5 DEF Leaves, Cleared
  <2>2. Tame(h, m.peer, r)
    BY <1>2, <2>1, TameEnds
  <2> QED
    BY <1>1, <2>2
<1>6. CASE Shows(m, r)
  <2>1. r.game = m.game /\ r.peer = m.peer /\ r.out = m.out
    BY <1>6 DEF Shows, Only, Fields
  <2> QED
    BY <1>1, <1>2, <2>1, TameSame
<1>7. CASE \E last \in BOOLEAN : \E f : Taps(m, r, f, last)
  <2>1. PICK last \in BOOLEAN : \E f : Taps(m, r, f, last)
    BY <1>7
  <2>2. PICK f : Taps(m, r, f, last)
    BY <2>1
  <2>3. r.game = m.game /\ r.peer = m.peer /\ r.out = Append(m.out, f)
    BY <2>2 DEF Taps, Only, Fields
  <2>4. PICK kind \in {"ROLL", "MOVE"} : f = PlayFrame(m.game, m.outSeq, kind, last)
    BY <2>2 DEF Taps
  <2>5. f \in Frames /\ f.type = "PLAY" /\ f.game = h
    BY <1>1, <1>2, <2>4 DEF PlayFrame, Frames, Plays
  <2> QED
    BY <1>1, <1>2, <2>3, <2>5, TameSends
<1> QED
  BY <1>1, <1>3, <1>4, <1>5, <1>6, <1>7 DEF Alone

\* What a step that proposes nothing and is not invited does.
Goes(p, d, r) ==
  /\ Tame(gm[p].game, gm[p].peer, r) /\ games' = games
  /\ \/ \A x, y \in Players : ~Asks(net, x, y, gm[p].game)
     \/ /\ r.game = 0 \/ (r.game = gm[p].game /\ r.peer = gm[p].peer /\ r.state = gm[p].state)
        /\ \A f \in ToSet(r.out) : f.type = "END" /\ r.game = 0
        /\ r.given = <<>> /\ played' = played

LEMMA GoesAlone ==
  ASSUME Sane, StreamInv, Fresh, NEW p \in Players, NEW d, NEW r, Step(p, d, r),
         Alone(p, d, r), ~Proposes(gm[p], r, d, games + 1)
  PROVE  Goes(p, d, r)
<1>1. PICK m : m = gm[p]
  OBVIOUS
<1>2. Tame(m.game, m.peer, r) /\ games' = games /\ m.out = <<>> /\ m.given = <<>>
  BY <1>1, TameAlone DEF Alone, Sane, Resting
<1>3. CASE m.state \in {"INVITED", "ACTIVE"} /\ ~Declines(m, r) /\ ~Leaves(m, r)
  BY <1>1, <1>2, <1>3, Unasked DEF Goes
<1>4. CASE Shows(m, r)
  <2>1. r.game = m.game /\ r.peer = m.peer /\ r.state = m.state /\ r.out = <<>> /\ r.given = <<>>
        /\ ToSet(r.out) = {}
    BY <1>2, <1>4, EmptySet DEF Shows, Only, Fields
  <2>2. played' = played \/ (m.state = "ACTIVE")
    BY <1>1 DEF Alone, Taps
  <2> QED
    BY <1>1, <1>2, <2>1, <2>2, Unasked DEF Goes
<1>5. CASE Declines(m, r)
  <2>1. r.game = 0 /\ r.out = <<>> /\ r.given = <<>> /\ ToSet(r.out) = {}
    BY <1>2, <1>5, EmptySet DEF Declines, Cleared, Only, Fields, GameFields
  <2>2. played' = played \/ (m.state = "ACTIVE")
    BY <1>1 DEF Alone, Taps
  <2> QED
    BY <1>1, <1>2, <2>1, <2>2, Unasked DEF Goes
<1>6. CASE Leaves(m, r)
  <2>1. r.game = 0 /\ r.given = <<>> /\ r.out = Append(m.out, Frame("END", m.game))
    BY <1>2, <1>6 DEF Leaves, Cleared, Only, Fields, GameFields
  <2>2. played' = played \/ (m.state = "ACTIVE")
    BY <1>1 DEF Alone, Taps
  <2>3. PICK f : f = Frame("END", m.game)
    OBVIOUS
  <2>4. f \in Frames /\ f.type = "END"
    BY <1>1, <2>3, FramesAre DEF Sane, Sound, Typed
  <2>5. ToSet(r.out) = {f}
    <3>1. m.out \in Seq(Frames) /\ ToSet(m.out) = {}
      BY <1>2, EmptySet
    <3>2. ToSet(Append(m.out, f)) = ToSet(m.out) \cup {f}
      BY <2>4, <3>1, SetOfAppend
    <3> QED
      BY <2>1, <2>3, <3>1, <3>2
  <2> QED
    BY <1>1, <1>2, <2>1, <2>2, <2>4, <2>5, Unasked DEF Goes
<1> QED
  BY <1>1, <1>3, <1>4, <1>5, <1>6 DEF Alone, Accepts, Taps

LEMMA GoesReading ==
  ASSUME Sane, StreamInv, Fresh, NEW p \in Players, NEW d, NEW r,
         NEW q \in Players \ {p}, NEW f, NEW die, Reading(p, d, r, q, f, die)
  PROVE  Goes(p, d, r) \/ (f.type = "INVITE" /\ Invited(gm[p], r, q, f.game))
<1>1. PICK m, G : m = gm[p] /\ G = 1..games
  OBVIOUS
<1>2. /\ Sound(p, m, G) /\ m.out = <<>> /\ m.given = <<>> /\ die \in Nat
      /\ G \in SUBSET (Nat \ {0}) /\ Handled(m, r, q, f, die, Plays)
      /\ games' = games /\ played' = played
  BY <1>1, DiceNat DEF Sane, Resting, Reading
<1>3. CASE f.type = "INVITE" /\ Invited(m, r, q, f.game)
  BY <1>1, <1>3
<1>4. ASSUME ~(f.type = "INVITE" /\ Invited(m, r, q, f.game)) PROVE Tame(m.game, m.peer, r)
  BY <1>2, <1>4, TameHandled
<1>5. CASE m.state \in {"OPENING", "ACTIVE"}
  BY <1>1, <1>2, <1>4, <1>5, Unasked DEF Goes
<1>6. CASE Ignored(m, r, q, f)
  <2>1. r = m /\ ToSet(r.out) = {}
    BY <1>2, <1>6, EmptySet DEF Ignored
  <2> QED
    BY <1>1, <1>2, <1>4, <2>1 DEF Goes
<1>7. CASE Over(m, r)
  <2>1. r.game = 0 /\ r.given = <<>> /\ r.out = <<>> /\ ToSet(r.out) = {}
    BY <1>2, <1>7, EmptySet DEF Over, Cleared, Only, Fields, GameFields
  <2> QED
    BY <1>1, <1>2, <1>4, <2>1 DEF Goes
<1>8. CASE f.type = "ACCEPT" /\ Mine(m, q, f) /\ m.state = "INVITING"
  <2>1. \E e \in Under(net, m.peer, p) : e.game = m.game /\ e.type # "INVITE" /\ e.type # "END"
    BY <1>1, <1>8 DEF Reading, Mine
  <2>2. \A x, y \in Players : ~Asks(net, x, y, m.game)
    BY <1>1, <1>8, <2>1, Unasked
  <2> QED
    BY <1>1, <1>2, <1>4, <1>8, <2>2 DEF Goes
<1>9. CASE m.state \notin {"OPENING", "ACTIVE"}
  <2>1. \/ Ignored(m, r, q, f) \/ (f.type = "INVITE" /\ Invited(m, r, q, f.game)) \/ Over(m, r)
        \/ (f.type = "ACCEPT" /\ Mine(m, q, f) /\ m.state = "INVITING")
    BY <1>2, <1>9 DEF Handled, Queued
  <2> QED
    BY <1>3, <1>6, <1>7, <1>8, <2>1
<1> QED
  BY <1>5, <1>9

LEMMA FreshStep ==
  ASSUME Sane, StreamInv, Fresh, Quit, NEW p \in Players, NEW d \in People \ {p}, NEW r, Step(p, d, r)
  PROVE  Fresh' /\ Quit' /\ FreshInvites
<1>1. ASSUME Goes(p, d, r), \A g \in Games \ {gm[p].game} : played'[g] = played[g]
      PROVE  Fresh' /\ Quit' /\ FreshInvites
  <2>1. PICK h : h = gm[p].game
    OBVIOUS
  <2>2. ASSUME \A x, y \in Players : ~Asks(net, x, y, h) PROVE Fresh' /\ Quit'
    <3>1. \A g \in Games \ {h} : heard'[g] = heard[g]
      <4>1. CASE r.given = <<>>
        BY <4>1 DEF Step
      <4>2. CASE r.given # <<>>
        <5>1. PICK w : w = [heard[h] EXCEPT ![p] = heard[h][p] \o r.given]
          OBVIOUS
        <5>2. heard' = [heard EXCEPT ![h] = w]
          BY <2>1, <4>2, <5>1 DEF Step, Hearing
        <5>3. heard \in [Games -> [Players -> Seq(Plays)]]
          BY DEF StreamInv, Story, Histories
        <5> QED
          BY <5>2, <5>3
      <4> QED
        BY <4>1, <4>2
    <3>2. Fresh' /\ Quit'
      BY <1>1, <2>1, <2>2, <3>1, FreshBusy DEF Goes, Tame
    <3> QED
      BY <3>2
  <2>3. ASSUME ~\A x, y \in Players : ~Asks(net, x, y, h) PROVE Fresh' /\ Quit'
    <3>1. /\ r.game = 0 \/ (r.game = gm[p].game /\ r.peer = gm[p].peer /\ r.state = gm[p].state)
          /\ \A f \in ToSet(r.out) : f.type = "END" /\ r.game = 0 /\ f.game = gm[p].game
          /\ r.given = <<>> /\ played' = played
      BY <1>1, <2>1, <2>3 DEF Goes, Tame
    <3>2. heard' = heard
      BY <3>1 DEF Step
    <3> QED
      BY <3>1, <3>2, FreshCalm
  <2>4. FreshInvites
    <3> SUFFICES ASSUME NEW x \in Players, gm[x].state = "IDLE", gm'[x].state = "INVITED" PROVE FALSE
      BY DEF FreshInvites
    <3>1. x = p
      BY DEF Step
    <3>2. gm[p].game = 0 /\ gm'[p].state = r.state
      BY <3>1 DEF Sane, Sound, Coherent, Step, Rested, Only, Fields
    <3>3. r.game = 0
      BY <1>1, <3>2 DEF Goes, Tame
    <3>4. r.state = "IDLE"
      BY <3>3 DEF Step, Sound, Coherent
    <3> QED
      BY <3>1, <3>2, <3>4
  <2> QED
    BY <2>1, <2>2, <2>3, <2>4
<1>2. CASE Alone(p, d, r) /\ Proposes(gm[p], r, d, games + 1) /\ d \in Players
  <2>1. games' = games + 1 /\ played' = played
    BY <1>2 DEF Alone, Proposes, Accepts, Declines, Leaves, Taps, Shows, Only, Fields
  <2>2. Fresh' /\ Quit'
    BY <1>2, <2>1, FreshProposes
  <2>3. FreshInvites
    <3>1. gm'[p].state = "INVITING" /\ \A x \in Players \ {p} : gm'[x] = gm[x]
      BY <1>2 DEF Step, Rested, Only, Fields, Proposes
    <3> QED
      BY <3>1 DEF FreshInvites
  <2> QED
    BY <2>2, <2>3
<1>3. CASE Alone(p, d, r) /\ ~Proposes(gm[p], r, d, games + 1)
  <2>1. Goes(p, d, r)
    BY <1>3, GoesAlone
  <2>2. \A g \in Games \ {gm[p].game} : played'[g] = played[g]
    <3>1. CASE played' = played
      BY <3>1
    <3>2. ASSUME NEW f, played' = [played EXCEPT ![gm[p].game][gm[p].peer] = Append(@, f)]
          PROVE  \A g \in Games \ {gm[p].game} : played'[g] = played[g]
      <4>1. PICK w : w = [played[gm[p].game] EXCEPT ![gm[p].peer] = Append(@, f)]
        OBVIOUS
      <4>2. played' = [played EXCEPT ![gm[p].game] = w]
        BY <3>2, <4>1
      <4>3. played \in [Games -> [Players -> Seq(Plays)]]
        BY DEF StreamInv, Story, Histories
      <4> QED
        BY <4>2, <4>3
    <3> QED
      BY <1>3, <3>1, <3>2 DEF Alone
  <2> QED
    BY <1>1, <2>1, <2>2
<1>4. ASSUME NEW q \in Players \ {p}, NEW f, NEW die, Reading(p, d, r, q, f, die)
      PROVE  Fresh' /\ Quit' /\ FreshInvites
  <2>1. played' = played
    BY <1>4 DEF Reading
  <2>2. CASE Goes(p, d, r)
    BY <1>1, <2>1, <2>2
  <2>3. CASE f.type = "INVITE" /\ Invited(gm[p], r, q, f.game)
    BY <1>4, <2>1, <2>3, FreshInvited DEF Reading
  <2> QED
    BY <1>4, <2>2, <2>3, GoesReading
<1>5. d \notin Players => d = Nobody
  BY DEF People
<1>6. Alone(p, d, r) /\ Proposes(gm[p], r, d, games + 1) => d \in Players
  <2> SUFFICES ASSUME Alone(p, d, r), Proposes(gm[p], r, d, games + 1) PROVE d \in Players
    OBVIOUS
  <2>1. gm[p].state = "IDLE" /\ r.state = "INVITING"
    BY DEF Proposes
  <2> QED
    BY <2>1 DEF Alone, Accepts, Declines, Leaves, Taps, Shows, Only, Fields
<1> QED
  BY <1>2, <1>3, <1>4, <1>6 DEF Step

OnceInv == Sane /\ StreamInv /\ Once /\ Fresh /\ Quit

LEMMA OnceInit == Init => OnceInv
<1> SUFFICES ASSUME Init PROVE OnceInv
  OBVIOUS
<1>1. Sane /\ StreamInv
  BY SaneInit, StreamInit
<1>2. ASSUME NEW p \in Players, NEW q \in Players
      PROVE  net[p][q] = <<>> /\ Under(net, p, q) = {} /\ Len(net[p][q]) = 0
  <2>1. net[p][q] = <<>>
    BY DEF Init
  <2> QED
    BY <2>1, EmptySet DEF Under
<1>3. Once
  BY <1>2 DEF Init, Once, Single
<1>4. Fresh /\ Quit
  BY <1>2 DEF Fresh, Quit, Asks
<1> QED
  BY <1>1, <1>3, <1>4 DEF OnceInv

LEMMA OnceStep ==
  ASSUME MaxRepeats = 0, OnceInv, Next
  PROVE  /\ OnceInv' /\ FreshInvites
         /\ \E p \in Players : \E d \in People \ {p} : \E r : Step(p, d, r)
<1>0. Sane /\ StreamInv /\ Once /\ Fresh /\ Quit
  BY DEF OnceInv
<1>1. Once' /\ \E p \in Players : \E d \in People \ {p} : \E r : Step(p, d, r)
  BY <1>0, Steps
<1>2. Fresh' /\ Quit' /\ FreshInvites
  BY <1>0, <1>1, FreshStep
<1>3. StreamInv'
  BY <1>0, <1>2, StreamStep
<1>4. Sane'
  BY <1>0, SaneStep
<1> QED
  BY <1>1, <1>2, <1>3, <1>4 DEF OnceInv

LEMMA OnceStays ==
  ASSUME OnceInv, UNCHANGED vars
  PROVE  OnceInv'
<1>1. Sane'
  BY SaneStep DEF OnceInv
<1>2. gm' = gm /\ net' = net /\ heard' = heard /\ played' = played /\ repeats' = repeats
      /\ games' = games
  BY DEF vars
<1>3. StreamInv'
  <2>1. Story(played, heard, games) /\ PlaysUnderWay(played, net) /\ Paired(gm, net)
        /\ \A p \in Players : Follows(played, heard, p, gm[p])
    BY DEF OnceInv, StreamInv
  <2>2. Story(played', heard', games') /\ PlaysUnderWay(played', net') /\ Paired(gm', net')
    BY <1>2, <2>1
  <2>3. \A p \in Players : Follows(played', heard', p, gm'[p])
    BY <1>2, <2>1
  <2> QED
    BY <2>2, <2>3 DEF StreamInv
<1>4. Once'
  BY <1>2 DEF OnceInv, Once, Single
<1>5. Fresh' /\ Quit'
  BY <1>2 DEF OnceInv, Fresh, Quit, Asks, Under
<1> QED
  BY <1>1, <1>3, <1>4, <1>5 DEF OnceInv

LEMMA OnceAlways ==
  ASSUME MaxRepeats = 0
  PROVE  Spec => []OnceInv /\ [][FreshInvites]_vars
<1>1. Init => OnceInv
  BY OnceInit
<1>2. ASSUME OnceInv, [Next]_vars PROVE OnceInv' /\ [FreshInvites]_vars
  <2>1. CASE Next
    BY <1>2, <2>1, OnceStep
  <2>2. CASE UNCHANGED vars
    BY <1>2, <2>2, OnceStays
  <2> QED
    BY <1>2, <2>1, <2>2
<1> QED
  BY <1>1, <1>2, PTL DEF Spec

\* Over a tunnel that repeats nothing, the board gets the events of its peer in
\* their order, whatever is delayed and passes other frames: no game is played
\* under the number of an invitation that is still under way.
THEOREM EventsInOrderOnce == MaxRepeats = 0 => (Spec => HeardInOrder)
<1> SUFFICES ASSUME MaxRepeats = 0 PROVE Spec => HeardInOrder
  OBVIOUS
<1>1. Spec => [][FreshInvites]_vars
  BY OnceAlways, PTL
<1> QED
  BY <1>1, EventsInOrder, PTL

LEMMA OnceLeaves ==
  ASSUME MaxRepeats = 0, OnceInv, Next
  PROVE  LeftAlone
<1>1. PICK p \in Players : \E d \in People \ {p} : \E r : Step(p, d, r)
  BY OnceStep
<1>2. PICK d \in People \ {p} : \E r : Step(p, d, r)
  BY <1>1
<1>3. PICK r : Step(p, d, r)
  BY <1>2
<1>4. PICK m, q : m = gm[p] /\ q = gm[p].peer
  OBVIOUS
<1>5. gm'[p].game = r.game /\ \A x \in Players \ {p} : gm'[x] = gm[x]
  BY <1>3 DEF Step, Rested, Only, Fields
<1>6. SUFFICES ASSUME m.state \in {"OPENING", "ACTIVE"}, r.game # m.game,
                      gm[q].peer = p, gm[q].game = m.game, p \notin accused'
               PROVE  net'[p][q] # net[p][q]
  BY <1>4, <1>5 DEF LeftAlone
<1>7. q \in Players \ {p} /\ m.out = <<>> /\ NetOk(net, 1..games) /\ m.game \in Nat
  BY <1>4, <1>6 DEF OnceInv, Sane, Resting, Sound, Coherent, Typed, People
<1>8. ~r.accuses
  BY <1>3, <1>6 DEF Step
<1>9. CASE Alone(p, d, r) /\ (d \in Players => net'[p][d] = net[p][d] \o r.out)
  <2>1. d = q /\ Leaves(m, r)
    BY <1>4, <1>6, <1>9 DEF Alone, Proposes, Accepts, Declines, Taps, Shows, Only, Fields
  <2>2. PICK o, f, s : o = r.out /\ f = Frame("END", m.game) /\ s = net[p][q]
    OBVIOUS
  <2>3. f \in Frames /\ o = <<f>> /\ s \in Seq(Frames)
    BY <1>7, <2>1, <2>2, FramesAre DEF Leaves, NetOk
  <2>4. s \o o # s
    BY <2>3
  <2> QED
    BY <1>7, <1>9, <2>1, <2>2, <2>4
<1>10. ASSUME NEW x \in Players \ {p}, NEW f, NEW die, Reading(p, d, r, x, f, die)
       PROVE  FALSE
  <2>1. Handled(m, r, x, f, die, Plays)
    BY <1>4, <1>10 DEF Reading
  <2>2. CASE f.type = "END" /\ Mine(m, x, f)
    BY <1>4, <1>6, <1>10, <2>2 DEF OnceInv, Quit, Reading, Mine
  <2>3. ASSUME NEW s, s.game = m.game, NEW roll, Revealed(s, r, roll, die, Plays) PROVE FALSE
    <3>1. CASE Accuses(s, r, roll)
      BY <1>8, <3>1 DEF Accuses
    <3>2. CASE Finished(s, r, roll, Plays)
      <4>1. PICK t, first : BegunWith(s, t, first) /\ Heeds(t, r, Plays)
        BY <3>2 DEF Finished
      <4>2. t.game = s.game /\ r.game = t.game
        BY <4>1 DEF BegunWith, Heeds, Only, Fields, BegunFields, EventFields
      <4> QED
        BY <1>6, <2>3, <4>2
    <3>3. CASE Early(s, r, roll) \/ Tied(s, r, roll, die)
      BY <1>6, <2>3, <3>3 DEF Early, Tied, Only, Fields, RollFields
    <3> QED
      BY <2>3, <3>1, <3>2, <3>3 DEF Revealed
  <2>4. CASE Committed(m, r, f.roll, die, Plays)
    <3>1. \A s : Answered(m, s, f.roll) => s.game = m.game
      BY DEF Answered, Only, Fields
    <3>2. \A s, t : Only(s, t, {"earlyReveal"}) => t.game = s.game
      BY DEF Only, Fields
    <3> QED
      BY <1>6, <2>3, <2>4, <3>1, <3>2 DEF Committed
  <2>5. Started(m, r, die) \/ Queued(m, r, f) \/ Heeds(m, r, Plays) => r.game = m.game
    BY DEF Started, Queued, Heeds, Only, Fields, RollFields, EventFields
  <2> QED
    BY <1>6, <2>1, <2>2, <2>3, <2>4, <2>5 DEF Handled, Ignored, Invited
<1> QED
  BY <1>3, <1>9, <1>10 DEF Step

\* The game of a player ends only by his own doing or by an END of that game:
\* over a tunnel that repeats nothing, late frames of former games and of third
\* players leave it alone, also those that pass other frames.
THEOREM GamesLeftAlone == MaxRepeats = 0 => (Spec => [][LeftAlone]_vars)
<1> SUFFICES ASSUME MaxRepeats = 0 PROVE Spec => [][LeftAlone]_vars
  OBVIOUS
<1>1. ASSUME OnceInv, [Next]_vars PROVE [LeftAlone]_vars
  BY <1>1, OnceLeaves
<1>2. Spec => []OnceInv
  BY OnceAlways, PTL
<1> QED
  BY <1>1, <1>2, PTL DEF Spec

-----------------------------------------------------------------------------
(* The opening roll of two opponents, m and n, round by round: what m knows  *)
(* of the rolls of n, by the frames U under way to m and by its record.     *)

InRound(m) == m.state \in {"OPENING", "ACTIVE"}
Round(m) == IF InRound(m) THEN m.rollNo - m.base ELSE 0

\* A roll of n in this game.
Known(n, roll) ==
  /\ InRound(n) /\ n.base < roll[2] /\ roll[2] <= n.rollNo
  /\ roll[2] = n.rollNo => roll = n.myRoll
\* A commitment that m still has use for, and a roll that answers one of m.
Said(m, n, roll) == Known(n, roll) /\ n.base + Round(m) <= roll[2]
Shown(m, n, roll) == Known(n, roll) /\ roll[2] <= n.base + Round(m)

Side(m, n, U) ==
  /\ Round(m) <= Round(n) + 1
  /\ \A f \in U : f.type = "COMMIT" /\ f.game = m.game =>
       Said(m, n, f.roll) /\ (m.peerCommit # NoRoll => m.peerCommit[2] # f.roll[2])
  /\ \A f \in U : f.type = "REVEAL" /\ f.game = m.game => Shown(m, n, f.roll)
  /\ m.earlyReveal # NoRoll => Shown(m, n, m.earlyReveal)
  /\ m.peerCommit # NoRoll => Said(m, n, m.peerCommit)
  /\ m.state = "ACTIVE" =>
       /\ m.peerCommit # NoRoll /\ m.peerCommit[2] = n.base + Round(m)
       /\ m.myRoll[3] # m.peerCommit[3]
       /\ m.first = IF m.myRoll[3] > m.peerCommit[3] THEN m.me ELSE m.peer

\* Records that look the same to the opening roll.
Alike(m, r) ==
  /\ r.me = m.me /\ r.peer = m.peer /\ r.state = m.state /\ r.game = m.game
  /\ r.rollNo = m.rollNo /\ r.base = m.base /\ r.myRoll = m.myRoll
  /\ r.peerCommit = m.peerCommit /\ r.earlyReveal = m.earlyReveal /\ r.first = m.first

\* The numbers of a record are numbers.
Counted(m) ==
  /\ m.rollNo \in Nat /\ m.base \in Nat /\ (InRound(m) => m.base < m.rollNo)
  /\ m.myRoll \in Rolls \cup {NoRoll} /\ m.peerCommit \in Rolls \cup {NoRoll}
  /\ m.earlyReveal \in Rolls \cup {NoRoll}
  /\ InRound(m) => m.myRoll \in Rolls /\ m.myRoll[2] = m.rollNo
  /\ ~InRound(m) => m.peerCommit = NoRoll /\ m.earlyReveal = NoRoll

LEMMA SoundCounted ==
  ASSUME NEW p, NEW G, NEW m, Sound(p, m, G)
  PROVE  Counted(m)
BY DEF Sound, Typed, Coherent, Counted, InRound

LEMMA RollIs ==
  ASSUME NEW roll \in Rolls
  PROVE  roll[1] \in Players /\ roll[2] \in Nat /\ roll[3] \in Nat /\ roll # NoRoll
<1>1. PICK a \in Players, b \in Nat, c \in Nat : roll = <<a, b, c>>
  BY DEF Rolls
<1>2. <<a, b, c>> # <<>>
  OBVIOUS
<1> QED
  BY <1>1, <1>2 DEF NoRoll

LEMMA RollOf ==
  ASSUME NEW f \in Frames, f.type \in {"COMMIT", "REVEAL"}
  PROVE  f.roll \in Rolls /\ f.roll[2] \in Nat /\ f.roll # NoRoll
<1>1. f \in [type : {"COMMIT", "REVEAL"}, game : Nat, roll : Rolls]
  BY DEF Frames, Plays
<1>2. f.roll \in Rolls
  BY <1>1
<1> QED
  BY <1>2, RollIs

\* Only rolls matter, and fewer frames do no harm.
LEMMA SideLess ==
  ASSUME NEW m, NEW n, NEW U, Side(m, n, U), NEW V,
         \A f \in V : f \in U \/ f.type \notin {"COMMIT", "REVEAL"}
  PROVE  Side(m, n, V)
BY DEF Side

LEMMA SideAlike ==
  ASSUME NEW m, NEW n, NEW U, Side(m, n, U), NEW r, NEW k, Alike(m, r), Alike(n, k)
  PROVE  Side(r, k, U)
<1>1. Round(r) = Round(m) /\ Round(k) = Round(n)
  BY DEF Alike, Round, InRound
<1>2. \A roll : Known(k, roll) <=> Known(n, roll)
  BY DEF Alike, Known, InRound
<1>3. \A roll : /\ Said(r, k, roll) <=> Said(m, n, roll)
                /\ Shown(r, k, roll) <=> Shown(m, n, roll)
  BY <1>1, <1>2 DEF Alike, Said, Shown
<1> QED
  BY <1>1, <1>3 DEF Side, Alike

\* m rolls for the first time: nothing of this game is known to n.
LEMMA SideStarts ==
  ASSUME NEW m, NEW n, NEW U \in SUBSET Frames, NEW W, Side(m, n, U), Side(n, m, W), Counted(m), Counted(n),
         ~InRound(m), NEW r, r.state = "OPENING", r.base = m.rollNo, r.rollNo = m.rollNo + 1,
         Counted(r), r.me = m.me, r.peer = m.peer, r.game = m.game, r.peerCommit = m.peerCommit,
         r.earlyReveal = m.earlyReveal,
         NEW V, \A f \in V : f \in W \/ f.type \notin {"COMMIT", "REVEAL"}
                              \/ (f.type = "COMMIT" /\ f.roll = r.myRoll)
  PROVE  Side(r, n, U) /\ Side(n, r, V)
<1>1. Round(m) = 0 /\ Round(r) = 1 /\ Round(n) \in Nat /\ Round(n) <= 1
      /\ InRound(r) /\ (InRound(n) => Round(n) >= 1)
  BY DEF Round, InRound, Counted, Side
<1>2. m.peerCommit = NoRoll /\ m.earlyReveal = NoRoll
  BY DEF Counted
<1>3. \A roll : ~Known(m, roll)
  BY DEF Known
<1>4. n.peerCommit = NoRoll /\ n.earlyReveal = NoRoll /\ n.state # "ACTIVE"
  BY <1>3 DEF Side, Said, Shown
<1>5. \A f \in W : ~(f.type \in {"COMMIT", "REVEAL"} /\ f.game = n.game)
  BY <1>3 DEF Side, Said, Shown
<1>6. Side(r, n, U)
  <2>1. ASSUME NEW f \in U, f.type = "COMMIT", f.game = r.game PROVE Said(r, n, f.roll)
    <3>1. Known(n, f.roll)
      BY <2>1 DEF Side, Said
    <3>2. n.base + 1 <= f.roll[2]
      BY <2>1, <3>1, RollOf DEF Known, Counted
    <3> QED
      BY <1>1, <3>1, <3>2 DEF Said
  <2>2. ASSUME NEW f \in U, f.type = "REVEAL", f.game = r.game PROVE FALSE
    <3>1. Known(n, f.roll) /\ f.roll[2] <= n.base + 0
      BY <1>1, <2>2 DEF Side, Shown
    <3> QED
      BY <2>2, <3>1, RollOf DEF Known, Counted
  <2> QED
    BY <1>1, <1>2, <2>1, <2>2 DEF Side
<1>7. Side(n, r, V)
  <2>1. Said(n, r, r.myRoll)
    <3>1. Known(r, r.myRoll)
      BY <1>1 DEF Known, Counted
    <3>2. r.base + Round(n) <= r.myRoll[2]
      BY <1>1 DEF Counted
    <3> QED
      BY <3>1, <3>2 DEF Said
  <2> QED
    BY <1>1, <1>4, <1>5, <2>1 DEF Side
<1> QED
  BY <1>6, <1>7

\* The commitment f of n is answered; no other of its number is under way.
LEMMA SideAnswered ==
  ASSUME NEW m, NEW n, NEW U \in SUBSET Frames, NEW W, Side(m, n, U), Side(n, m, W),
         Counted(m), Counted(n), m.state = "OPENING",
         NEW f \in U, f.type = "COMMIT", f.game = m.game,
         NEW r, Answered(m, r, f.roll)
  PROVE  /\ \A T \in SUBSET U : (\A e \in T : ~Twins(f, e)) => Side(r, n, T)
         /\ \A V : V \subseteq W \cup {RollFrame("REVEAL", m.game, m.myRoll)} => Side(n, r, V)
<1>1. /\ r.me = m.me /\ r.peer = m.peer /\ r.state = m.state /\ r.game = m.game
      /\ r.rollNo = m.rollNo /\ r.base = m.base /\ r.myRoll = m.myRoll
      /\ r.earlyReveal = m.earlyReveal /\ r.first = m.first /\ r.peerCommit = f.roll
  BY DEF Answered, Only, Fields
<1>2. Round(r) = Round(m) /\ InRound(m) /\ InRound(r)
  BY <1>1 DEF Round, InRound
<1>3. Said(m, n, f.roll) /\ f.roll \in Rolls /\ f.roll[2] \in Nat /\ f.roll # NoRoll
  BY RollOf DEF Side
<1>4. \A roll : /\ Said(r, n, roll) <=> Said(m, n, roll)
                /\ Shown(r, n, roll) <=> Shown(m, n, roll)
  BY <1>2 DEF Said, Shown
<1>5. ASSUME NEW T \in SUBSET U, \A e \in T : ~Twins(f, e) PROVE Side(r, n, T)
  <2>1. \A e \in T : e.type = "COMMIT" => e.roll[2] # f.roll[2]
    BY <1>5 DEF Twins
  <2> QED
    BY <1>1, <1>2, <1>3, <1>4, <2>1 DEF Side
<1>6. ASSUME NEW V, V \subseteq W \cup {RollFrame("REVEAL", m.game, m.myRoll)} PROVE Side(n, r, V)
  <2>1. Round(m) <= Round(n)
    <3>1. n.base + Round(m) <= f.roll[2] /\ f.roll[2] <= n.rollNo /\ InRound(n)
      BY <1>3 DEF Said, Known
    <3> QED
      BY <1>2, <1>3, <3>1 DEF Round, Counted
  <2>2. Shown(n, m, m.myRoll)
    <3>1. Known(m, m.myRoll)
      BY <1>2 DEF Known, Counted
    <3>2. m.rollNo <= m.base + Round(n)
      <4>1. Round(m) = m.rollNo - m.base
        BY <1>2 DEF Round
      <4>2. Round(n) \in Int /\ m.rollNo \in Nat /\ m.base \in Nat
        BY DEF Round, Counted
      <4> QED
        BY <2>1, <4>1, <4>2
    <3> QED
      BY <1>2, <3>1, <3>2 DEF Shown, Counted
  <2>3. \A roll : /\ Said(n, r, roll) <=> Said(n, m, roll)
                  /\ Shown(n, r, roll) <=> Shown(n, m, roll)
    BY <1>1 DEF Said, Shown, Known, InRound
  <2>4. PICK k : k = RollFrame("REVEAL", m.game, m.myRoll)
    OBVIOUS
  <2>5. k.type = "REVEAL" /\ k.roll = m.myRoll
    BY <2>4 DEF RollFrame
  <2>6. ASSUME NEW e \in V, e.type = "COMMIT", e.game = n.game
        PROVE  Said(n, r, e.roll) /\ (n.peerCommit # NoRoll => n.peerCommit[2] # e.roll[2])
    <3>1. e \in W
      BY <1>6, <2>4, <2>5, <2>6
    <3> QED
      BY <2>3, <2>6, <3>1 DEF Side
  <2>7. ASSUME NEW e \in V, e.type = "REVEAL", e.game = n.game PROVE Shown(n, r, e.roll)
    <3>1. CASE e \in W
      BY <2>3, <2>7, <3>1 DEF Side
    <3>2. CASE e = k
      BY <2>2, <2>3, <2>5, <3>2
    <3> QED
      BY <1>6, <2>4, <2>7, <3>1, <3>2
  <2> QED
    BY <1>1, <1>2, <2>3, <2>6, <2>7 DEF Side
<1> QED
  BY <1>5, <1>6

\* m rolls again: the roll of this round is known from both its frames.
LEMMA SideTied ==
  ASSUME NEW m, NEW n, NEW U \in SUBSET Frames, NEW W \in SUBSET Frames, Side(m, n, U), Side(n, m, W),
         Counted(m), Counted(n), m.state = "OPENING",
         NEW roll \in Rolls, Shown(m, n, roll), NEW die, NEW r, Tied(m, r, roll, die), Counted(r),
         NEW V, \A e \in V : e \in W \/ (e.type = "COMMIT" /\ e.roll = r.myRoll)
  PROVE  Side(r, n, U) /\ Side(n, r, V)
<1>1. /\ r.me = m.me /\ r.peer = m.peer /\ r.state = m.state /\ r.game = m.game
      /\ r.rollNo = m.rollNo + 1 /\ r.base = m.base
      /\ r.peerCommit = NoRoll /\ r.earlyReveal = NoRoll /\ m.peerCommit = roll
  BY DEF Tied, Rolled, Only, Fields, RollFields
<1>2. Round(r) = Round(m) + 1 /\ InRound(m) /\ InRound(r) /\ Round(m) \in Nat /\ Round(n) \in Nat
      /\ Round(m) = m.rollNo - m.base /\ Round(r) = r.rollNo - r.base
  BY <1>1 DEF Round, InRound, Counted
<1>3. roll[2] \in Nat /\ roll # NoRoll
  BY RollIs
<1>4. Said(m, n, roll) /\ roll[2] = n.base + Round(m) /\ InRound(n)
  <2>1. Said(m, n, roll)
    BY <1>1, <1>3 DEF Side
  <2> QED
    BY <1>2, <1>3, <2>1 DEF Said, Shown, Known, Counted
<1>5. Round(m) <= Round(n)
  BY <1>2, <1>3, <1>4 DEF Said, Known, Round, Counted
<1>6. Side(r, n, U)
  <2>1. ASSUME NEW f \in U, f.type = "COMMIT", f.game = r.game PROVE Said(r, n, f.roll)
    <3>1. Said(m, n, f.roll) /\ f.roll[2] # roll[2]
      BY <1>1, <1>3, <2>1 DEF Side
    <3>2. f.roll[2] \in Nat
      BY <2>1, RollOf
    <3> QED
      BY <1>2, <1>4, <3>1, <3>2 DEF Said, Counted
  <2>2. ASSUME NEW f \in U, f.type = "REVEAL", f.game = r.game PROVE Shown(r, n, f.roll)
    <3>1. Shown(m, n, f.roll)
      BY <1>1, <2>2 DEF Side
    <3>2. f.roll[2] \in Nat
      BY <2>2, RollOf
    <3> QED
      BY <1>2, <3>1, <3>2 DEF Shown, Counted
  <2> QED
    BY <1>1, <1>2, <1>5, <2>1, <2>2 DEF Side
<1>7. Side(n, r, V)
  <2>1. ASSUME NEW k, k[2] \in Nat, Known(m, k) PROVE Known(r, k) /\ k[2] < r.rollNo
    BY <1>1, <1>2, <2>1 DEF Known, Counted
  <2>2. /\ \A k : k[2] \in Nat /\ Said(n, m, k) => Said(n, r, k) /\ k[2] < r.rollNo
        /\ \A k : k[2] \in Nat /\ Shown(n, m, k) => Shown(n, r, k)
    BY <1>1, <2>1 DEF Said, Shown
  <2>3. Said(n, r, r.myRoll) /\ r.myRoll[2] = r.rollNo
    <3>1. Known(r, r.myRoll) /\ r.myRoll[2] = r.rollNo
      BY <1>2 DEF Known, Counted
    <3>2. Round(n) <= Round(m) + 1
      BY DEF Side
    <3> QED
      BY <1>1, <1>2, <3>1, <3>2 DEF Said, Counted
  <2>4. n.peerCommit # NoRoll => n.peerCommit[2] \in Nat /\ Said(n, r, n.peerCommit) /\ n.peerCommit[2] < r.rollNo
    BY <2>2, RollIs DEF Side, Counted
  <2>5. n.earlyReveal # NoRoll => Shown(n, r, n.earlyReveal)
    BY <2>2, RollIs DEF Side, Counted
  <2>6. ASSUME NEW f \in V, f.type = "COMMIT", f.game = n.game
        PROVE  Said(n, r, f.roll) /\ (n.peerCommit # NoRoll => n.peerCommit[2] # f.roll[2])
    <3>1. CASE f \in W
      BY <2>2, <2>6, <3>1, RollOf DEF Side
    <3>2. CASE f.roll = r.myRoll
      BY <2>3, <2>4, <3>2 DEF Counted
    <3> QED
      BY <2>6, <3>1, <3>2
  <2>7. ASSUME NEW f \in V, f.type = "REVEAL", f.game = n.game PROVE Shown(n, r, f.roll)
    BY <2>2, <2>7, RollOf DEF Side
  <2>8. Round(n) <= Round(r) + 1
    BY <1>2 DEF Side
  <2>9. n.state = "ACTIVE" => /\ n.peerCommit # NoRoll /\ n.peerCommit[2] = r.base + Round(n)
                              /\ n.myRoll[3] # n.peerCommit[3]
                              /\ n.first = IF n.myRoll[3] > n.peerCommit[3] THEN n.me ELSE n.peer
    BY <1>1 DEF Side
  <2> QED
    BY <2>4, <2>5, <2>6, <2>7, <2>8, <2>9 DEF Side
<1> QED
  BY <1>6, <1>7

\* The rolls of k are those of n, and he is in the same round.
LEMMA SideSeen ==
  ASSUME NEW m, NEW n, NEW U, Side(n, m, U), NEW r, InRound(m) <=> InRound(r),
         r.rollNo = m.rollNo, r.base = m.base, r.myRoll = m.myRoll
  PROVE  Side(n, r, U)
<1>1. Round(r) = Round(m)
  BY DEF Round
<1>2. \A roll : /\ Said(n, r, roll) <=> Said(n, m, roll)
                /\ Shown(n, r, roll) <=> Shown(n, m, roll)
  BY DEF Said, Shown, Known
<1> QED
  BY <1>1, <1>2 DEF Side

\* A roll of n becomes known to m: before its commitment, against a different
\* commitment (the game is over), with the same die or with another one.
LEMMA SideRevealed ==
  ASSUME NEW m, NEW n, NEW U \in SUBSET Frames, NEW W \in SUBSET Frames, Side(m, n, U), Side(n, m, W),
         Counted(m), Counted(n), m.state = "OPENING", m.game \in Nat, m.me \in Players,
         m.out \in Seq(Frames), ToSet(m.out) \subseteq W,
         NEW roll \in Rolls, Shown(m, n, roll), NEW die \in Nat, NEW E,
         NEW r, Revealed(m, r, roll, die, E), Counted(r), r.game # 0
  PROVE  Side(r, n, U) /\ Side(n, r, W \cup ToSet(r.out))
<1> SUFFICES ASSUME NEW V, V = W \cup ToSet(r.out) PROVE Side(r, n, U) /\ Side(n, r, V)
  OBVIOUS
<1>0. InRound(m) /\ roll # NoRoll /\ roll[2] \in Nat
  BY RollIs DEF InRound
<1>1. CASE Early(m, r, roll)
  <2>1. /\ r.me = m.me /\ r.peer = m.peer /\ r.state = m.state /\ r.game = m.game
        /\ r.rollNo = m.rollNo /\ r.base = m.base /\ r.myRoll = m.myRoll /\ r.out = m.out
        /\ r.peerCommit = m.peerCommit /\ r.earlyReveal \in {m.earlyReveal, roll}
    BY <1>1 DEF Early, Only, Fields
  <2>2. InRound(r) /\ Round(r) = Round(m) /\ r.state # "ACTIVE"
    BY <1>0, <2>1 DEF Round, InRound
  <2>3. \A k : (Said(r, n, k) <=> Said(m, n, k)) /\ (Shown(r, n, k) <=> Shown(m, n, k))
    BY <2>2 DEF Said, Shown
  <2>4. r.earlyReveal # NoRoll => Shown(m, n, r.earlyReveal)
    BY <2>1 DEF Side
  <2>5. Side(r, n, U)
    BY <2>1, <2>2, <2>3, <2>4 DEF Side
  <2>6. Side(n, r, W)
    BY <1>0, <2>1, <2>2, SideSeen
  <2> QED
    BY <2>1, <2>5, <2>6, SideLess
<1>2. CASE Accuses(m, r, roll)
  BY <1>2 DEF Accuses, Cleared
<1>3. CASE Tied(m, r, roll, die)
  <2>1. r.myRoll \in Rolls /\ r.out = Append(m.out, RollFrame("COMMIT", m.game, r.myRoll))
    <3>1. r.myRoll = <<m.me, m.rollNo + 1, die>> /\ m.rollNo \in Nat
      BY <1>3 DEF Tied, Rolled, Counted
    <3> QED
      BY <1>3, <3>1 DEF Tied, Rolled, Rolls
  <2>2. PICK c : c = RollFrame("COMMIT", m.game, r.myRoll)
    OBVIOUS
  <2>3. c \in Frames /\ c.type = "COMMIT" /\ c.roll = r.myRoll
    BY <2>1, <2>2, FramesAre
  <2>4. ToSet(r.out) = ToSet(m.out) \cup {c}
    BY <2>1, <2>2, <2>3, SetOfAppend
  <2> QED
    <3>1. \A e \in V : e \in W \/ (e.type = "COMMIT" /\ e.roll = r.myRoll)
      BY <2>3, <2>4
    <3> QED
      BY <1>3, <3>1, SideTied
<1>4. CASE Finished(m, r, roll, E)
  <2>1. PICK first : first = IF m.myRoll[3] > roll[3] THEN m.me ELSE m.peer
    OBVIOUS
  <2>2. PICK s : BegunWith(m, s, first) /\ Heeds(s, r, E)
    BY <1>4, <2>1 DEF Finished
  <2>3. /\ s.me = m.me /\ s.peer = m.peer /\ s.state = "ACTIVE" /\ s.game = m.game
        /\ s.rollNo = m.rollNo /\ s.base = m.base /\ s.myRoll = m.myRoll /\ s.out = m.out
        /\ s.peerCommit = m.peerCommit /\ s.earlyReveal = m.earlyReveal /\ s.first = first
    BY <2>2 DEF BegunWith, Only, Fields, BegunFields
  <2>4. /\ r.me = s.me /\ r.peer = s.peer /\ r.state = s.state /\ r.game = s.game
        /\ r.rollNo = s.rollNo /\ r.base = s.base /\ r.myRoll = s.myRoll /\ r.out = s.out
        /\ r.peerCommit = s.peerCommit /\ r.earlyReveal = s.earlyReveal /\ r.first = s.first
    BY <2>2 DEF Heeds, Only, Fields, EventFields
  <2>5. InRound(r) /\ Round(r) = Round(m)
    BY <1>0, <2>3, <2>4 DEF Round, InRound
  <2>6. \A k : (Said(r, n, k) <=> Said(m, n, k)) /\ (Shown(r, n, k) <=> Shown(m, n, k))
    BY <2>5 DEF Said, Shown
  <2>7. m.peerCommit = roll /\ m.myRoll[3] # roll[3] /\ Said(m, n, roll)
    BY <1>0, <1>4 DEF Finished, Side
  <2>8. roll[2] = n.base + Round(m)
    <3>1. n.base + Round(m) <= roll[2] /\ roll[2] <= n.base + Round(m)
      BY <2>7 DEF Said, Shown
    <3>2. n.base + Round(m) \in Int
      BY DEF Round, Counted
    <3> QED
      BY <1>0, <3>1, <3>2
  <2>9. Side(r, n, U)
    BY <1>0, <2>1, <2>3, <2>4, <2>5, <2>6, <2>7, <2>8 DEF Side
  <2>10. Side(n, r, W)
    BY <1>0, <2>3, <2>4, <2>5, SideSeen
  <2> QED
    BY <2>3, <2>4, <2>9, <2>10, SideLess
<1> QED
  BY <1>1, <1>2, <1>3, <1>4 DEF Revealed

\* m gets a commitment of n, and perhaps had its reveal already.
LEMMA SideCommitted ==
  ASSUME NEW m, NEW n, NEW U \in SUBSET Frames, NEW W \in SUBSET Frames, Side(m, n, U), Side(n, m, W),
         Counted(m), Counted(n), m.state = "OPENING", m.game \in Nat, m.me \in Players, m.out = <<>>,
         NEW f \in U, f.type = "COMMIT", f.game = m.game,
         NEW die \in Nat, NEW E, NEW r, Committed(m, r, f.roll, die, E), Counted(r), r.game # 0,
         NEW T \in SUBSET U, \A e \in T : ~Twins(f, e)
  PROVE  Side(r, n, T) /\ Side(n, r, W \cup ToSet(r.out))
<1> SUFFICES ASSUME NEW V, V = W \cup ToSet(r.out) PROVE Side(r, n, T) /\ Side(n, r, V)
  OBVIOUS
<1>1. PICK c : c = RollFrame("REVEAL", m.game, m.myRoll)
  OBVIOUS
<1>2. m.myRoll \in Rolls /\ m.out \in Seq(Frames) /\ ToSet(m.out) = {}
  BY EmptySet DEF Counted, InRound
<1>3. c \in Frames
  BY <1>1, <1>2, FramesAre
<1>4. PICK Z : Z = W \cup {c}
  OBVIOUS
<1>5. ASSUME NEW s, Answered(m, s, f.roll)
      PROVE  /\ Side(s, n, T) /\ Side(n, s, Z) /\ ToSet(s.out) = {c} /\ s.out \in Seq(Frames)
             /\ s.state = m.state /\ s.game = m.game /\ s.me = m.me /\ s.peerCommit = f.roll
             /\ s.rollNo = m.rollNo /\ s.base = m.base /\ s.myRoll = m.myRoll
             /\ s.earlyReveal = m.earlyReveal /\ s.peer = m.peer
  <2>1. Z = W \cup {RollFrame("REVEAL", m.game, m.myRoll)}
    BY <1>1, <1>4
  <2>2. Side(s, n, T) /\ Side(n, s, Z)
    <3>1. /\ \A X \in SUBSET U : (\A e \in X : ~Twins(f, e)) => Side(s, n, X)
          /\ \A X : X \subseteq W \cup {RollFrame("REVEAL", m.game, m.myRoll)} => Side(n, s, X)
      BY <1>5, SideAnswered
    <3> QED
      BY <2>1, <3>1
  <2>3. s.out = Append(m.out, c)
    BY <1>1, <1>5 DEF Answered
  <2>4. ToSet(s.out) = {c} /\ s.out \in Seq(Frames)
    <3>1. PICK o \in Seq(Frames) : o = m.out
      BY <1>2
    <3>2. Append(o, c) \in Seq(Frames) /\ ToSet(Append(o, c)) = ToSet(o) \cup {c}
      BY <1>3, SetOfAppend
    <3> QED
      BY <1>2, <2>3, <3>1, <3>2
  <2> QED
    BY <1>5, <2>2, <2>4 DEF Answered, Only, Fields
<1>6. CASE m.earlyReveal = NoRoll /\ Answered(m, r, f.roll)
  <2>1. Side(r, n, T) /\ Side(n, r, Z) /\ ToSet(r.out) = {c}
    BY <1>5, <1>6
  <2>2. \A e \in V : e \in Z
    BY <1>4, <2>1
  <2> QED
    BY <2>1, <2>2, SideLess
<1>7. ASSUME m.earlyReveal # NoRoll, NEW s, NEW t, Answered(m, s, f.roll),
             Only(s, t, {"earlyReveal"}), t.earlyReveal = NoRoll,
             Revealed(t, r, m.earlyReveal, die, E)
      PROVE  Side(r, n, T) /\ Side(n, r, V)
  <2>1. PICK roll \in Rolls : roll = m.earlyReveal
    BY <1>7 DEF Counted
  <2>2. Shown(m, n, roll)
    BY <1>7, <2>1 DEF Side
  <2>3. /\ Side(s, n, T) /\ Side(n, s, Z) /\ ToSet(s.out) = {c} /\ s.out \in Seq(Frames)
        /\ s.state = m.state /\ s.game = m.game /\ s.me = m.me /\ s.peerCommit = f.roll
        /\ s.rollNo = m.rollNo /\ s.base = m.base /\ s.myRoll = m.myRoll
        /\ s.earlyReveal = m.earlyReveal /\ s.peer = m.peer
    BY <1>5, <1>7
  <2>4. /\ t.state = s.state /\ t.game = s.game /\ t.me = s.me /\ t.peerCommit = s.peerCommit
        /\ t.rollNo = s.rollNo /\ t.base = s.base /\ t.myRoll = s.myRoll /\ t.peer = s.peer
        /\ t.out = s.out
    BY <1>7 DEF Only, Fields
  <2>5. InRound(m) /\ InRound(t) /\ InRound(s) /\ Round(t) = Round(s) /\ Round(t) = Round(m)
        /\ t.state = "OPENING"
    BY <2>3, <2>4 DEF InRound, Round
  <2>6. Side(n, t, Z)
    BY <2>3, <2>4, <2>5, SideSeen
  <2>7. \A k : /\ (Said(t, n, k) <=> Said(s, n, k)) /\ (Shown(t, n, k) <=> Shown(s, n, k))
               /\ (Shown(t, n, k) <=> Shown(m, n, k))
    BY <2>5 DEF Said, Shown
  <2>8. Side(t, n, T)
    BY <1>7, <2>3, <2>4, <2>5, <2>7 DEF Side
  <2>9. Counted(t)
    <3>1. f.roll \in Rolls
      BY RollOf
    <3> QED
      BY <1>7, <2>3, <2>4, <2>5, <3>1 DEF Counted
  <2>10. Shown(t, n, roll) /\ Revealed(t, r, roll, die, E) /\ Z \in SUBSET Frames /\ T \in SUBSET Frames
    BY <1>3, <1>4, <1>7, <2>1, <2>2, <2>7
  <2>11. t.game \in Nat /\ t.me \in Players /\ t.out \in Seq(Frames) /\ ToSet(t.out) \subseteq Z
    BY <1>4, <2>3, <2>4
  <2>12. \A e \in V : e \in Z \/ e \in ToSet(r.out)
    BY <1>4
  <2>13. Side(r, n, T) /\ Side(n, r, V)
    <3>1. t.state = "OPENING" /\ Shown(t, n, roll) /\ Counted(t)
      BY <2>5, <2>9, <2>10
    <3>2. Revealed(t, r, roll, die, E) /\ r.game # 0 /\ Counted(r)
      BY <2>10
    <3>3. T \in SUBSET Frames /\ Z \in SUBSET Frames
      BY <2>10
    <3> QED
      <4>1. Side(r, n, T) /\ Side(n, r, Z \cup ToSet(r.out))
        BY <2>6, <2>8, <2>11, <3>1, <3>2, <3>3, SideRevealed
      <4> QED
        BY <2>12, <4>1, SideLess
  <2> QED
    BY <2>13
<1> QED
  BY <1>6, <1>7 DEF Committed

OpeningInv ==
  \A p, q \in Players : Opponents(p, q) => Side(gm[p], gm[q], Under(net, q, p))

LEMMA SentOne ==
  ASSUME NEW o \in Seq(Frames), NEW f \in Frames, NEW s, s = Append(o, f)
  PROVE  s \in Seq(Frames) /\ ToSet(s) = ToSet(o) \cup {f}
BY SetOfAppend

\* m and n look the same, and no roll is sent.
LEMMA SideSame ==
  ASSUME NEW m, NEW n, NEW U, NEW W, Side(m, n, U), Side(n, m, W), NEW r, Alike(m, r),
         NEW T, T \subseteq U,
         NEW V, \A f \in V : f \in W \/ f.type \notin {"COMMIT", "REVEAL"}
  PROVE  Side(r, n, T) /\ Side(n, r, V)
<1>1. Alike(n, n)
  BY DEF Alike
<1>2. Side(r, n, U) /\ Side(n, r, W)
  BY <1>1, SideAlike
<1> QED
  BY <1>2, SideLess

\* The first roll of m, with the frames O sent before its commitment.
LEMMA SideStarted ==
  ASSUME NEW m, NEW n, NEW U \in SUBSET Frames, NEW W, Side(m, n, U), Side(n, m, W), Counted(m), Counted(n),
         ~InRound(m), m.me \in Players, m.game \in Nat, m.out \in Seq(Frames),
         \A f \in ToSet(m.out) : f.type \notin {"COMMIT", "REVEAL"},
         NEW die \in Nat, NEW r, Started(m, r, die), Counted(r)
  PROVE  /\ \A T \in SUBSET U : Side(r, n, T)
         /\ \A V \in SUBSET (W \cup ToSet(r.out)) : Side(n, r, V)
<1>1. /\ r.me = m.me /\ r.peer = m.peer /\ r.game = m.game /\ r.state = "OPENING"
      /\ r.base = m.rollNo /\ r.rollNo = m.rollNo + 1
      /\ r.peerCommit = m.peerCommit /\ r.earlyReveal = m.earlyReveal
      /\ r.myRoll = <<m.me, m.rollNo + 1, die>>
      /\ r.out = Append(m.out, RollFrame("COMMIT", m.game, r.myRoll))
  BY DEF Started, Rolled, Only, Fields, RollFields
<1>2. r.myRoll \in Rolls
  <2>1. InRound(r)
    BY <1>1 DEF InRound
  <2> QED
    BY <2>1 DEF Counted
<1>3. PICK c : c = RollFrame("COMMIT", m.game, r.myRoll)
  OBVIOUS
<1>4. c \in Frames /\ c.type = "COMMIT" /\ c.roll = r.myRoll
  BY <1>2, <1>3, FramesAre
<1>5. ToSet(r.out) = ToSet(m.out) \cup {c}
  BY <1>1, <1>3, <1>4, SentOne
<1>6. PICK Z : Z = W \cup ToSet(r.out)
  OBVIOUS
<1>7. Side(r, n, U) /\ Side(n, r, Z)
  <2>1. \A f \in Z : f \in W \/ f.type \notin {"COMMIT", "REVEAL"}
                      \/ (f.type = "COMMIT" /\ f.roll = r.myRoll)
    BY <1>4, <1>5, <1>6
  <2> QED
    BY <1>1, <2>1, SideStarts
<1>8. ASSUME NEW T \in SUBSET U PROVE Side(r, n, T)
  BY <1>7, SideLess
<1>9. ASSUME NEW V \in SUBSET Z PROVE Side(n, r, V)
  BY <1>7, SideLess
<1> QED
  BY <1>6, <1>8, <1>9

LEMMA SideAlone ==
  ASSUME Sane, OpeningInv, NEW p \in Players, NEW d, NEW r, Alone(p, d, r),
         ~Proposes(gm[p], r, d, games + 1), Counted(r),
         NEW q \in Players, r.peer = q, gm[q].peer = p, r.game = gm[q].game, r.game # 0,
         NEW T, T \subseteq Under(net, q, p), NEW V, V \subseteq Under(net, p, q) \cup ToSet(r.out)
  PROVE  Side(r, gm[q], T) /\ Side(gm[q], r, V)
<1>1. PICK m, n, U, W : m = gm[p] /\ n = gm[q] /\ U = Under(net, q, p) /\ W = Under(net, p, q)
  OBVIOUS
<1>2. /\ Counted(m) /\ Counted(n) /\ m.game \in Nat /\ m.me = p /\ m.peer \in People
      /\ m.out \in Seq(Frames) /\ ToSet(m.out) = {} /\ m.outSeq \in Nat
  <2>1. Sound(p, m, 1..games) /\ Sound(q, n, 1..games) /\ m.out = <<>>
    BY <1>1 DEF Sane, Resting
  <2>2. Counted(m) /\ Counted(n)
    BY <2>1, SoundCounted
  <2> QED
    BY <2>1, <2>2, EmptySet DEF Sound, Typed
<1>3. U \in SUBSET Frames
  BY <1>1, UnderIs
<1>4. Side(m, n, U) /\ Side(n, m, W)
  <2>1. r.game = m.game /\ r.peer = m.peer
    BY <1>1, TameAlone DEF Tame
  <2>2. Opponents(p, q) /\ Opponents(q, p)
    BY <1>1, <2>1 DEF Opponents
  <2> QED
    BY <1>1, <2>2 DEF OpeningInv
<1>5. CASE \E die \in Dice(m) : Accepts(m, r, die)
  <2>1. PICK die \in Nat : Accepts(m, r, die)
    BY <1>5, DiceNat
  <2>2. PICK s : /\ Only(m, s, {"out"}) /\ s.out = Append(m.out, Frame("ACCEPT", m.game))
                 /\ Started(s, r, die)
    BY <2>1 DEF Accepts
  <2>3. Alike(m, s)
    BY <2>2 DEF Alike, Only, Fields
  <2>4. PICK f : f = Frame("ACCEPT", m.game)
    OBVIOUS
  <2>5. f \in Frames /\ f.type = "ACCEPT"
    BY <1>2, <2>4, FramesAre
  <2>6. s.out \in Seq(Frames) /\ ToSet(s.out) = {f}
    <3>1. PICK o, s0 : o = m.out /\ s0 = s.out
      OBVIOUS
    <3>2. o \in Seq(Frames) /\ s0 = Append(o, f) /\ ToSet(o) = {}
      BY <1>2, <2>2, <2>4, <2>5, <3>1
    <3>3. s0 \in Seq(Frames) /\ ToSet(s0) = ToSet(o) \cup {f}
      BY <2>5, <3>2, SentOne
    <3> QED
      BY <3>1, <3>2, <3>3
  <2>7. m.state = "INVITED" /\ ~InRound(m)
    BY <2>1 DEF Accepts, InRound
  <2>8. ~InRound(s) /\ Counted(s) /\ s.me \in Players /\ s.game \in Nat
    BY <1>2, <2>3, <2>7 DEF Alike, InRound, Counted
  <2>9. Side(s, n, U) /\ Side(n, s, W)
    BY <1>4, <2>3, SideSame
  <2>10. T \subseteq U /\ V \subseteq W \cup ToSet(r.out)
    BY <1>1
  <2>11. Side(r, n, T) /\ Side(n, r, V)
    <3>1. \A e \in ToSet(s.out) : e.type \notin {"COMMIT", "REVEAL"}
      BY <2>5, <2>6
    <3>2. (\A Y \in SUBSET U : Side(r, n, Y)) /\ \A Y \in SUBSET (W \cup ToSet(r.out)) : Side(n, r, Y)
      BY <1>2, <1>3, <2>2, <2>6, <2>8, <2>9, <3>1, SideStarted
    <3> QED
      BY <2>10, <3>2
  <2> QED
    BY <1>1, <2>11
<1>6. CASE Declines(m, r) \/ Leaves(m, r)
  BY <1>6 DEF Declines, Leaves, Cleared
<1>7. CASE Shows(m, r)
  <2>1. Alike(m, r) /\ r.out = m.out
    BY <1>7 DEF Shows, Alike, Only, Fields
  <2>2. ToSet(r.out) = {}
    BY <1>2, <2>1
  <2>3. T \subseteq U /\ \A e \in V : e \in W
    BY <1>1, <2>2
  <2> QED
    <3>1. \A e \in V : e \in W \/ e.type \notin {"COMMIT", "REVEAL"}
      BY <2>3
    <3>2. Side(r, n, T) /\ Side(n, r, V)
      BY <1>4, <2>1, <2>3, <3>1, SideSame
    <3> QED
      BY <1>1, <3>2
<1>8. CASE \E last \in BOOLEAN : \E f : Taps(m, r, f, last)
  <2>1. PICK last \in BOOLEAN : \E f : Taps(m, r, f, last)
    BY <1>8
  <2>2. PICK f : Taps(m, r, f, last)
    BY <2>1
  <2>3. Alike(m, r) /\ r.out = Append(m.out, f)
    BY <2>2 DEF Taps, Alike, Only, Fields
  <2>4. f \in Frames /\ f.type = "PLAY"
    <3>1. PICK kind \in {"ROLL", "MOVE"} : f = PlayFrame(m.game, m.outSeq, kind, last)
      BY <2>2 DEF Taps
    <3> QED
      BY <1>2, <3>1 DEF PlayFrame, Frames, Plays
  <2>5. ToSet(r.out) = {f}
    <3>1. PICK o, s0 : o = m.out /\ s0 = r.out
      OBVIOUS
    <3>2. o \in Seq(Frames) /\ s0 = Append(o, f) /\ ToSet(o) = {}
      BY <1>2, <2>3, <2>4, <3>1
    <3>3. s0 \in Seq(Frames) /\ ToSet(s0) = ToSet(o) \cup {f}
      BY <2>4, <3>2, SentOne
    <3> QED
      BY <3>1, <3>2, <3>3
  <2>6. \A e \in V : e \in W \/ e.type \notin {"COMMIT", "REVEAL"}
    BY <1>1, <2>4, <2>5
  <2> QED
    <3>1. Alike(m, r) /\ T \subseteq U
      BY <1>1, <2>3
    <3>2. Side(r, n, T) /\ Side(n, r, V)
      BY <1>4, <2>6, <3>1, SideSame
    <3> QED
      BY <1>1, <3>2
<1> QED
  BY <1>1, <1>5, <1>6, <1>7, <1>8 DEF Alone

\* Who is invited, and the player who invites him, know of no roll of their game.
LEMMA SideInvited ==
  ASSUME Sane, Fresh, NEW p \in Players, NEW q \in Players, NEW f \in Under(net, q, p),
         f.type = "INVITE", NEW r, Invited(gm[p], r, q, f.game), gm[q].game = f.game,
         NEW T, T \subseteq Under(net, q, p), NEW V, V \subseteq Under(net, p, q) \cup ToSet(r.out)
  PROVE  Side(r, gm[q], T) /\ Side(gm[q], r, V)
<1>1. PICK m, n, g : m = gm[p] /\ n = gm[q] /\ g = f.game
  OBVIOUS
<1>2. g \in Games /\ Asks(net, q, p, g)
  BY <1>1, UnderIs DEF Asks
<1>3. /\ n.state = "INVITING" /\ n.game = g
      /\ \A e \in Under(net, p, q) : e.game # g
      /\ \A e \in Under(net, q, p) : e.game = g => e.type \in {"INVITE", "END"}
  BY <1>1, <1>2 DEF Fresh
<1>4. /\ r.state = "INVITED" /\ r.game = g /\ m.state = "IDLE" /\ r.out = m.out
      /\ r.peerCommit = m.peerCommit /\ r.earlyReveal = m.earlyReveal
  BY <1>1 DEF Invited, Only, Fields
<1>5. /\ m.peerCommit = NoRoll /\ m.earlyReveal = NoRoll
      /\ n.peerCommit = NoRoll /\ n.earlyReveal = NoRoll /\ m.out = <<>>
  BY <1>1, <1>3, <1>4 DEF Sane, Sound, Coherent, Resting
<1>6. ToSet(r.out) = {}
  BY <1>4, <1>5, EmptySet
<1>7. Round(r) = 0 /\ Round(n) = 0 /\ r.state # "ACTIVE" /\ n.state # "ACTIVE"
  BY <1>3, <1>4 DEF Round, InRound
<1>8. Side(r, n, T)
  BY <1>3, <1>4, <1>5, <1>7 DEF Side
<1>9. Side(n, r, V)
  BY <1>3, <1>5, <1>6, <1>7 DEF Side
<1> QED
  BY <1>1, <1>8, <1>9

LEMMA SideReading ==
  ASSUME Sane, Fresh, OpeningInv, NEW p \in Players, NEW d, NEW r,
         NEW x \in Players \ {p}, NEW f, NEW die, Reading(p, d, r, x, f, die), Counted(r),
         NEW q \in Players, r.peer = q, gm[q].peer = p, r.game = gm[q].game, r.game # 0,
         NEW V, V \subseteq Under(net, p, q) \cup ToSet(r.out), Under(net', q, p) \subseteq Under(net, q, p)
  PROVE  Side(r, gm[q], Under(net', q, p)) /\ Side(gm[q], r, V)
<1>1. PICK m, n, U, W, T : /\ m = gm[p] /\ n = gm[q] /\ U = Under(net, q, p) /\ W = Under(net, p, q)
                           /\ T = Under(net', q, p)
  OBVIOUS
<1>2. /\ Counted(m) /\ Counted(n) /\ m.game \in Nat /\ m.me \in Players /\ die \in Nat
      /\ Sound(p, m, 1..games) /\ 1..games \in SUBSET (Nat \ {0})
  <2>1. Sound(p, m, 1..games) /\ Sound(q, n, 1..games) /\ die \in Nat /\ games \in Nat
    BY <1>1, DiceNat DEF Sane, Reading
  <2>2. Counted(m) /\ Counted(n)
    BY <2>1, SoundCounted
  <2>3. m.game \in Nat /\ m.me \in Players
    BY <2>1 DEF Sound, Typed
  <2>4. 1..games \in SUBSET (Nat \ {0})
    BY <2>1
  <2> QED
    BY <2>1, <2>2, <2>3, <2>4
<1>3. m.out = <<>>
  BY <1>1 DEF Sane, Resting
<1>4. ToSet(m.out) = {} /\ m.out \in Seq(Frames)
  BY <1>3, EmptySet
<1>5. U \in SUBSET Frames /\ W \in SUBSET Frames /\ T \subseteq U /\ T \in SUBSET Frames
  BY <1>1, UnderIs
<1>6. Handled(m, r, x, f, die, Plays) /\ f \in Under(net, x, p) /\ f \in Frames
  BY <1>1 DEF Reading
<1>7. CASE f.type = "INVITE" /\ Invited(m, r, x, f.game)
  <2>1. x = q /\ gm[q].game = f.game
    BY <1>7 DEF Invited
  <2> QED
    BY <1>1, <1>6, <1>7, <2>1, SideInvited
<1>8. CASE ~(f.type = "INVITE" /\ Invited(m, r, x, f.game))
  <2>1. r.game = m.game /\ m.peer = q
    <3>1. Tame(m.game, m.peer, r)
      BY <1>2, <1>3, <1>6, <1>8, TameHandled
    <3> QED
      BY <3>1 DEF Tame
  <2>2. Side(m, n, U) /\ Side(n, m, W)
    <3>1. Opponents(p, q) /\ Opponents(q, p)
      BY <1>1, <2>1 DEF Opponents
    <3> QED
      BY <1>1, <3>1 DEF OpeningInv
  <2>3. ASSUME Alike(m, r), r.out = m.out PROVE Side(r, n, T) /\ Side(n, r, V)
    <3>1. T \subseteq U /\ \A e \in V : e \in W
      BY <1>1, <1>4, <1>5, <2>3
    <3> QED
      BY <2>2, <2>3, <3>1, SideSame
  <2>4. CASE Ignored(m, r, x, f)
    BY <1>1, <2>3, <2>4 DEF Ignored, Alike
  <2>5. Mine(m, x, f) => x = q /\ f.game = m.game /\ f \in U
    BY <1>1, <1>6, <2>1 DEF Mine
  <2>6. CASE m.state = "INVITING" /\ Started(m, r, die)
    <3>1. ~InRound(m) /\ \A e \in ToSet(m.out) : e.type \notin {"COMMIT", "REVEAL"}
      BY <1>4, <2>6 DEF InRound
    <3>2. /\ \A Y \in SUBSET U : Side(r, n, Y)
          /\ \A Y \in SUBSET (W \cup ToSet(r.out)) : Side(n, r, Y)
      BY <1>2, <1>4, <1>5, <2>2, <2>6, <3>1, SideStarted
    <3> QED
      BY <1>1, <1>5, <3>2
  <2>7. CASE Mine(m, x, f) /\ f.type = "COMMIT" /\ m.state = "OPENING"
             /\ Committed(m, r, f.roll, die, Plays)
    <3>1. \A e \in T : ~Twins(f, e)
      BY <1>1, <2>5, <2>7 DEF Reading
    <3>2. Side(r, n, T) /\ Side(n, r, W \cup ToSet(r.out))
      BY <1>2, <1>3, <1>5, <2>2, <2>5, <2>7, <3>1, SideCommitted
    <3>3. Side(r, n, T) /\ Side(n, r, V)
      BY <1>1, <3>2, SideLess
    <3> QED
      BY <1>1, <3>3
  <2>8. CASE Mine(m, x, f) /\ f.type = "REVEAL" /\ m.state = "OPENING"
             /\ Revealed(m, r, f.roll, die, Plays)
    <3>1. f.roll \in Rolls /\ Shown(m, n, f.roll)
      BY <1>6, <2>2, <2>5, <2>8, RollOf DEF Side
    <3>2. Side(m, n, T) /\ ToSet(m.out) \subseteq W
      BY <1>4, <1>5, <2>2, SideLess
    <3>3. Side(r, n, T) /\ Side(n, r, W \cup ToSet(r.out))
      BY <1>2, <1>4, <1>5, <2>2, <2>8, <3>1, <3>2, SideRevealed
    <3>4. Side(r, n, T) /\ Side(n, r, V)
      BY <1>1, <3>3, SideLess
    <3> QED
      BY <1>1, <3>4
  <2>9. CASE Queued(m, r, f) \/ Heeds(m, r, Plays)
    <3>1. Alike(m, r)
      BY <2>9 DEF Queued, Heeds, Alike, Only, Fields, EventFields
    <3>2. r.out = m.out
      BY <2>9 DEF Queued, Heeds, Only, Fields, EventFields
    <3> QED
      BY <1>1, <2>3, <3>1, <3>2
  <2>10. CASE Over(m, r)
    BY <2>10 DEF Over, Cleared
  <2> QED
    BY <1>1, <1>6, <1>8, <2>3, <2>4, <2>6, <2>7, <2>8, <2>9, <2>10 DEF Handled
<1> QED
  BY <1>7, <1>8

LEMMA OpeningStep ==
  ASSUME Sane, Fresh, OpeningInv, NEW p \in Players, NEW d, NEW r, Step(p, d, r)
  PROVE  OpeningInv'
<1>1. PICK y : y = gm'[p]
  OBVIOUS
<1>2. /\ Alike(r, y) /\ y.peer = r.peer /\ y.game = r.game
      /\ \A x \in Players \ {p} : gm'[x] = gm[x]
      /\ Sound(p, r, 1..games')
  BY <1>1 DEF Step, Rested, Only, Fields, Alike
<1>3. Counted(r) /\ r.peer # p
  <2>1. Counted(r)
    BY <1>2, SoundCounted
  <2> QED
    BY <1>2, <2>1 DEF Sound, Typed
<1>4. \A a, b \in Players : \A f \in Under(net', a, b) :
         f \in Under(net, a, b) \/ (a = p /\ b = d /\ f \in ToSet(r.out))
  BY DEF Step
<1>5. ASSUME NEW q \in Players \ {p}, r.peer = q, gm[q].peer = p, r.game = gm[q].game
      PROVE  Side(r, gm[q], Under(net', q, p)) /\ Side(gm[q], r, Under(net', p, q))
  <2>1. PICK T, V : T = Under(net', q, p) /\ V = Under(net', p, q)
    OBVIOUS
  <2>2. T \subseteq Under(net, q, p) /\ V \subseteq Under(net, p, q) \cup ToSet(r.out)
    BY <1>4, <2>1
  <2>3. gm[q].game # 0 /\ gm[q].game <= games /\ games \in Nat
    BY <1>5, ConstantsAssumption DEF Sane, Sound, Typed, Coherent
  <2>4. CASE Alone(p, d, r)
    <3>1. ~Proposes(gm[p], r, d, games + 1)
      BY <1>5, <2>3 DEF Proposes
    <3> QED
      BY <1>3, <1>5, <2>1, <2>2, <2>3, <2>4, <3>1, SideAlone
  <2>5. ASSUME NEW x \in Players \ {p}, NEW f, NEW die, Reading(p, d, r, x, f, die)
        PROVE  Side(r, gm[q], T) /\ Side(gm[q], r, V)
    BY <1>3, <1>5, <2>1, <2>2, <2>3, <2>5, SideReading
  <2> QED
    BY <2>1, <2>4, <2>5 DEF Step
<1>6. ASSUME NEW a \in Players, NEW b \in Players, Opponents(a, b)'
      PROVE  Side(gm'[a], gm'[b], Under(net', b, a))
  <2>1. gm'[a].peer = b /\ gm'[b].peer = a /\ gm'[a].game = gm'[b].game
    BY <1>6 DEF Opponents
  <2>2. CASE a = p
    <3>1. b # p /\ gm'[b] = gm[b] /\ r.peer = b /\ gm[b].peer = p /\ r.game = gm[b].game
      BY <1>1, <1>2, <1>3, <2>1, <2>2
    <3>2. Side(r, gm[b], Under(net', b, p))
      BY <1>5, <3>1
    <3> QED
      BY <1>1, <1>2, <2>2, <3>1, <3>2, SideAlike DEF Alike
  <2>3. CASE b = p
    <3>1. a # p /\ gm'[a] = gm[a] /\ r.peer = a /\ gm[a].peer = p /\ r.game = gm[a].game
      BY <1>1, <1>2, <1>3, <2>1, <2>3
    <3>2. Side(gm[a], r, Under(net', p, a))
      BY <1>5, <3>1
    <3> QED
      BY <1>1, <1>2, <2>3, <3>1, <3>2, SideAlike DEF Alike
  <2>4. CASE a # p /\ b # p
    <3>1. gm'[a] = gm[a] /\ gm'[b] = gm[b] /\ Side(gm[a], gm[b], Under(net, b, a))
      BY <1>2, <2>1, <2>4 DEF OpeningInv, Opponents
    <3>2. \A f \in Under(net', b, a) : f \in Under(net, b, a)
      BY <1>4, <2>4
    <3> QED
      BY <3>1, <3>2, SideLess
  <2> QED
    BY <2>2, <2>3, <2>4
<1> QED
  BY <1>6 DEF OpeningInv

LEMMA OpeningInit == Init => OpeningInv
<1> SUFFICES ASSUME Init PROVE OpeningInv
  OBVIOUS
<1>1. \A x \in Players : gm[x].peer = Nobody
  BY DEF Init, Idle
<1>2. \A x, y \in Players : ~Opponents(x, y)
  BY <1>1, ConstantsAssumption DEF Opponents
<1> QED
  BY <1>2 DEF OpeningInv

LEMMA OpeningKept ==
  ASSUME MaxRepeats = 0, OnceInv, OpeningInv, [Next]_vars
  PROVE  OnceInv' /\ OpeningInv'
<1>1. CASE UNCHANGED vars
  <2>1. OpeningInv'
    BY <1>1 DEF vars, OpeningInv, Opponents, Under
  <2> QED
    BY <1>1, <2>1, OnceStays
<1>2. CASE Next
  <2>1. OnceInv' /\ \E p \in Players : \E d \in People \ {p} : \E r : Step(p, d, r)
    BY <1>2, OnceStep
  <2> QED
    BY <2>1, OpeningStep DEF OnceInv
<1> QED
  BY <1>1, <1>2

LEMMA OpeningAlways ==
  ASSUME MaxRepeats = 0
  PROVE  Spec => [](OnceInv /\ OpeningInv)
<1>1. Init => OnceInv /\ OpeningInv
  BY OnceInit, OpeningInit
<1>2. OnceInv /\ OpeningInv /\ [Next]_vars => (OnceInv /\ OpeningInv)'
  BY OpeningKept
<1> QED
  BY <1>1, <1>2, PTL DEF Spec

\* Two opponents who both know who begins know the same: each has, of the last
\* round, its own die and that of its peer.
LEMMA SidesAgree ==
  ASSUME NEW m, NEW n, NEW U, NEW W, Side(m, n, U), Side(n, m, W), Counted(m), Counted(n),
         m.state = "ACTIVE", n.state = "ACTIVE", m.me = n.peer, m.peer = n.me
  PROVE  m.first = n.first
<1>1. /\ Said(m, n, m.peerCommit) /\ m.peerCommit[2] = n.base + Round(m)
      /\ Said(n, m, n.peerCommit) /\ n.peerCommit[2] = m.base + Round(n)
      /\ m.peerCommit \in Rolls /\ n.peerCommit \in Rolls /\ m.myRoll \in Rolls /\ n.myRoll \in Rolls
  BY DEF Side, Counted, InRound
<1>2. Round(m) = m.rollNo - m.base /\ Round(n) = n.rollNo - n.base
      /\ m.rollNo \in Nat /\ n.rollNo \in Nat /\ m.base \in Nat /\ n.base \in Nat
  BY DEF Round, InRound, Counted
<1>3. Round(m) = Round(n)
  BY <1>1, <1>2 DEF Said, Known
<1>4. m.peerCommit = n.myRoll /\ n.peerCommit = m.myRoll
  BY <1>1, <1>2, <1>3 DEF Said, Known
<1>5. m.myRoll[3] \in Nat /\ n.myRoll[3] \in Nat
  BY <1>1, RollIs
<1>6. /\ m.myRoll[3] # n.myRoll[3]
      /\ m.first = IF m.myRoll[3] > n.myRoll[3] THEN m.me ELSE m.peer
      /\ n.first = IF n.myRoll[3] > m.myRoll[3] THEN n.me ELSE n.peer
  BY <1>4 DEF Side
<1> QED
  BY <1>5, <1>6

\* Both sides of a game agree on who won the opening roll, however many rounds
\* it took and in whatever order its frames came, each of them once.
THEOREM SameFirstTurn == MaxRepeats = 0 => (Spec => []OpeningAgrees)
<1> SUFFICES ASSUME MaxRepeats = 0 PROVE Spec => []OpeningAgrees
  OBVIOUS
<1>1. ASSUME OnceInv, OpeningInv PROVE OpeningAgrees
  <2> SUFFICES ASSUME NEW p \in Players, NEW q \in Players, Opponents(p, q),
                      gm[p].first # Nobody, gm[q].first # Nobody
               PROVE  gm[p].first = gm[q].first
    BY DEF OpeningAgrees
  <2>1. PICK m, n : m = gm[p] /\ n = gm[q]
    OBVIOUS
  <2>2. Sound(p, m, 1..games) /\ Sound(q, n, 1..games)
    BY <1>1, <2>1 DEF OnceInv, Sane
  <2>3. Counted(m) /\ Counted(n)
    BY <2>2, SoundCounted
  <2>4. m.state = "ACTIVE" /\ n.state = "ACTIVE" /\ m.me = p /\ n.me = q
    BY <2>1, <2>2 DEF Sound, Typed, Coherent
  <2>5. m.peer = q /\ n.peer = p /\ Opponents(q, p)
    BY <2>1 DEF Opponents
  <2>6. Side(m, n, Under(net, q, p)) /\ Side(n, m, Under(net, p, q))
    BY <1>1, <2>1, <2>5 DEF OpeningInv
  <2> QED
    BY <2>1, <2>3, <2>4, <2>5, <2>6, SidesAgree
<1> QED
  BY <1>1, OpeningAlways, PTL

-----------------------------------------------------------------------------
(* Without a second round, a player knows of one roll of its peer in a game. *)

\* A tie: a player in the opening of a game rolls again.
RollsAgain ==
  \E p \in Players :
    gm[p].state = "OPENING" /\ gm'[p].game = gm[p].game /\ gm'[p].rollNo # gm[p].rollNo

IsRoll(f, g) == f.type \in {"COMMIT", "REVEAL"} /\ f.game = g

\* The rolls that m has heard of or, by the frames U, will hear of.
RollsOf(m, U) ==
  {f.roll : f \in {e \in U : IsRoll(e, m.game)}} \cup ({m.peerCommit, m.earlyReveal} \ {NoRoll})

OneRound == \A p \in Players : InRound(gm[p]) => gm[p].rollNo = gm[p].base + 1
OneRoll ==
  \A p, q \in Players : gm[p].peer = q =>
    \A k, l \in RollsOf(gm[p], Under(net, q, p)) : k = l
CalmInv == OneRound /\ OneRoll /\ accused = {}

\* What a handler that accuses nobody makes of the rolls of m, K the new ones:
\* it learns no others, it sends none in another game, and it rolls once a game.
Deals(m, r, K) ==
  /\ r.game # 0 => {r.peerCommit, r.earlyReveal} \subseteq {NoRoll, m.peerCommit, m.earlyReveal} \cup K
  /\ \A e \in ToSet(r.out) : e.type \in {"COMMIT", "REVEAL"} => r.game = m.game /\ r.peer = m.peer
  /\ InRound(r) => \/ r.rollNo = r.base + 1
                   \/ InRound(m) /\ r.rollNo = m.rollNo /\ r.base = m.base
                   \/ m.state = "OPENING" /\ r.game = m.game /\ r.rollNo # m.rollNo

LEMMA DealsSame ==
  ASSUME NEW m, NEW r, Alike(m, r), NEW K,
         \A e \in ToSet(r.out) : e.type \notin {"COMMIT", "REVEAL"}
  PROVE  Deals(m, r, K)
BY DEF Deals, Alike, InRound

LEMMA DealsEnds ==
  ASSUME NEW m, NEW r, Cleared(r), NEW K,
         \A e \in ToSet(r.out) : e.type \notin {"COMMIT", "REVEAL"}
  PROVE  Deals(m, r, K)
BY DEF Deals, Cleared, InRound

LEMMA DealsStarted ==
  ASSUME NEW m, NEW r, NEW die, Started(m, r, die), NEW K
  PROVE  Deals(m, r, K)
BY DEF Deals, Started, Rolled, Only, Fields, RollFields

\* The same of a handler after which the game goes on.
GoesOn(m, r, K) ==
  /\ r.game = m.game /\ r.peer = m.peer
  /\ {r.peerCommit, r.earlyReveal} \subseteq {NoRoll, m.peerCommit, m.earlyReveal} \cup K
  /\ (r.rollNo = m.rollNo /\ r.base = m.base) \/ r.rollNo # m.rollNo

LEMMA GoesOnRevealed ==
  ASSUME NEW m, m.rollNo \in Nat, NEW roll, NEW die, NEW E,
         NEW r, Revealed(m, r, roll, die, E), ~Accuses(m, r, roll)
  PROVE  GoesOn(m, r, {roll})
<1>1. CASE Early(m, r, roll)
  BY <1>1 DEF Early, GoesOn, Only, Fields
<1>2. CASE Tied(m, r, roll, die)
  BY <1>2 DEF Tied, Rolled, GoesOn, Only, Fields, RollFields
<1>3. CASE Finished(m, r, roll, E)
  <2>1. PICK s, first : BegunWith(m, s, first) /\ Heeds(s, r, E)
    BY <1>3 DEF Finished
  <2>2. /\ s.game = m.game /\ s.peer = m.peer /\ s.rollNo = m.rollNo /\ s.base = m.base
        /\ s.peerCommit = m.peerCommit /\ s.earlyReveal = m.earlyReveal
    BY <2>1 DEF BegunWith, Only, Fields, BegunFields
  <2>3. /\ r.game = s.game /\ r.peer = s.peer /\ r.rollNo = s.rollNo /\ r.base = s.base
        /\ r.peerCommit = s.peerCommit /\ r.earlyReveal = s.earlyReveal
    BY <2>1 DEF Heeds, Only, Fields, EventFields
  <2> QED
    BY <2>2, <2>3 DEF GoesOn
<1> QED
  BY <1>1, <1>2, <1>3 DEF Revealed

LEMMA GoesOnDeals ==
  ASSUME NEW m, m.state = "OPENING", NEW r, NEW K, GoesOn(m, r, K)
  PROVE  Deals(m, r, K)
BY DEF GoesOn, Deals, InRound

LEMMA DealsCommitted ==
  ASSUME NEW m, m.state = "OPENING", m.rollNo \in Nat, NEW roll, NEW die, NEW E,
         NEW r, Committed(m, r, roll, die, E), r.accuses = FALSE
  PROVE  Deals(m, r, {roll})
<1>1. ASSUME NEW s, Answered(m, s, roll)
      PROVE  /\ s.game = m.game /\ s.peer = m.peer /\ s.rollNo = m.rollNo /\ s.base = m.base
             /\ s.peerCommit = roll /\ s.earlyReveal = m.earlyReveal
  BY <1>1 DEF Answered, Only, Fields
<1>2. CASE m.earlyReveal = NoRoll /\ Answered(m, r, roll)
  <2>1. GoesOn(m, r, {roll})
    BY <1>1, <1>2 DEF GoesOn
  <2> QED
    BY <2>1, GoesOnDeals
<1>3. ASSUME NEW s, NEW t, Answered(m, s, roll), Only(s, t, {"earlyReveal"}), t.earlyReveal = NoRoll,
             Revealed(t, r, m.earlyReveal, die, E)
      PROVE  Deals(m, r, {roll})
  <2>1. PICK k : k = m.earlyReveal
    OBVIOUS
  <2>2. /\ t.game = m.game /\ t.peer = m.peer /\ t.rollNo = m.rollNo /\ t.base = m.base
        /\ t.peerCommit = roll /\ t.earlyReveal = NoRoll
    <3>1. /\ t.game = s.game /\ t.peer = s.peer /\ t.rollNo = s.rollNo /\ t.base = s.base
          /\ t.peerCommit = s.peerCommit
      BY <1>3 DEF Only, Fields
    <3> QED
      BY <1>1, <1>3, <3>1
  <2>3. GoesOn(t, r, {k})
    <3>1. Revealed(t, r, k, die, E) /\ ~Accuses(t, r, k) /\ t.rollNo \in Nat
      BY <1>3, <2>1, <2>2 DEF Accuses
    <3> QED
      BY <3>1, GoesOnRevealed
  <2>4. GoesOn(m, r, {roll})
    BY <2>1, <2>2, <2>3 DEF GoesOn
  <2> QED
    BY <2>4, GoesOnDeals
<1> QED
  BY <1>2, <1>3 DEF Committed

LEMMA DealsMore ==
  ASSUME NEW m, NEW r, NEW K, Deals(m, r, K), NEW L, K \subseteq L
  PROVE  Deals(m, r, L)
BY DEF Deals

\* Only a player who has two rolls of its peer to compare accuses it.
LEMMA SuspectsReveal ==
  ASSUME NEW m, m.accuses = FALSE, NEW roll, NEW die, NEW E, NEW r, Revealed(m, r, roll, die, E)
  PROVE  r.accuses = FALSE \/ (m.peerCommit # NoRoll /\ m.peerCommit # roll)
<1>1. CASE Early(m, r, roll) \/ Tied(m, r, roll, die)
  BY <1>1 DEF Early, Tied, Only, Fields, RollFields
<1>2. CASE Accuses(m, r, roll)
  BY <1>2 DEF Accuses
<1>3. CASE Finished(m, r, roll, E)
  <2>1. PICK s, first : BegunWith(m, s, first) /\ Heeds(s, r, E)
    BY <1>3 DEF Finished
  <2>2. s.accuses = m.accuses
    BY <2>1 DEF BegunWith, Only, Fields, BegunFields
  <2>3. r.accuses = s.accuses
    BY <2>1 DEF Heeds, Only, Fields, EventFields
  <2> QED
    BY <2>2, <2>3
<1> QED
  BY <1>1, <1>2, <1>3 DEF Revealed

LEMMA Suspects ==
  ASSUME NEW m, m.accuses = FALSE, NEW q, NEW f, NEW die, NEW E, NEW r, Handled(m, r, q, f, die, E)
  PROVE  \/ r.accuses = FALSE
         \/ Mine(m, q, f) /\ f.type = "REVEAL" /\ m.peerCommit # NoRoll /\ m.peerCommit # f.roll
         \/ Mine(m, q, f) /\ f.type = "COMMIT" /\ m.earlyReveal # NoRoll /\ m.earlyReveal # f.roll
<1>1. CASE Mine(m, q, f) /\ f.type = "REVEAL" /\ Revealed(m, r, f.roll, die, E)
  <2>1. PICK roll : roll = f.roll
    OBVIOUS
  <2>2. r.accuses = FALSE \/ (m.peerCommit # NoRoll /\ m.peerCommit # roll)
    BY <1>1, <2>1, SuspectsReveal
  <2> QED
    BY <1>1, <2>1, <2>2
<1>2. CASE Mine(m, q, f) /\ f.type = "COMMIT" /\ Committed(m, r, f.roll, die, E)
  <2>1. \A s : Answered(m, s, f.roll) => s.accuses = FALSE /\ s.peerCommit = f.roll
    BY DEF Answered, Only, Fields
  <2>2. CASE Answered(m, r, f.roll)
    BY <2>1, <2>2
  <2>3. ASSUME m.earlyReveal # NoRoll, NEW s, NEW t, Answered(m, s, f.roll), Only(s, t, {"earlyReveal"}),
               Revealed(t, r, m.earlyReveal, die, E)
        PROVE  r.accuses = FALSE \/ m.earlyReveal # f.roll
    <3>1. PICK k : k = m.earlyReveal
      OBVIOUS
    <3>2. t.accuses = FALSE /\ t.peerCommit = f.roll
      <4>1. t.accuses = s.accuses /\ t.peerCommit = s.peerCommit
        BY <2>3 DEF Only, Fields
      <4> QED
        BY <2>1, <2>3, <4>1
    <3>3. Revealed(t, r, k, die, E)
      BY <2>3, <3>1
    <3>4. r.accuses = FALSE \/ (t.peerCommit # NoRoll /\ t.peerCommit # k)
      BY <3>2, <3>3, SuspectsReveal
    <3> QED
      BY <3>1, <3>2, <3>4
  <2> QED
    BY <1>2, <2>2, <2>3 DEF Committed
<1>3. Invited(m, r, q, f.game) => r.accuses = FALSE
  BY DEF Invited, Only, Fields
<1>4. Started(m, r, die) => r.accuses = FALSE
  BY DEF Started, Only, Fields, RollFields
<1>5. Queued(m, r, f) \/ Over(m, r) => r.accuses = FALSE
  BY DEF Queued, Over, Only, Fields, GameFields
<1>6. Heeds(m, r, E) => r.accuses = FALSE
  BY DEF Heeds, Only, Fields, EventFields
<1>7. Ignored(m, r, q, f) => r.accuses = FALSE
  BY DEF Ignored
<1> QED
  BY <1>1, <1>2, <1>3, <1>4, <1>5, <1>6, <1>7 DEF Handled

LEMMA DealsHandled ==
  ASSUME NEW m, m.rollNo \in Nat, ToSet(m.out) = {}, NEW q, NEW f, NEW die, NEW E,
         NEW r, Handled(m, r, q, f, die, E), r.accuses = FALSE,
         ~(f.type = "INVITE" /\ Invited(m, r, q, f.game)),
         NEW K, Mine(m, q, f) /\ f.type \in {"COMMIT", "REVEAL"} => f.roll \in K
  PROVE  Deals(m, r, K)
<1>1. CASE Ignored(m, r, q, f)
  <2>1. Alike(m, r) /\ ToSet(r.out) = {}
    BY <1>1 DEF Ignored, Alike
  <2> QED
    BY <2>1, DealsSame
<1>2. CASE Started(m, r, die)
  BY <1>2, DealsStarted
<1>3. CASE Mine(m, q, f) /\ f.type = "COMMIT" /\ m.state = "OPENING" /\ Committed(m, r, f.roll, die, E)
  <2>1. PICK roll : roll = f.roll
    OBVIOUS
  <2>2. Deals(m, r, {roll})
    BY <1>3, <2>1, DealsCommitted
  <2>3. {roll} \subseteq K
    BY <1>3, <2>1
  <2> QED
    BY <2>2, <2>3, DealsMore
<1>4. CASE Mine(m, q, f) /\ f.type = "REVEAL" /\ m.state = "OPENING" /\ Revealed(m, r, f.roll, die, E)
  <2>1. PICK roll : roll = f.roll
    OBVIOUS
  <2>2. ~Accuses(m, r, roll) /\ Revealed(m, r, roll, die, E)
    BY <1>4, <2>1 DEF Accuses
  <2>3. GoesOn(m, r, {roll})
    BY <2>2, GoesOnRevealed
  <2>4. Deals(m, r, {roll}) /\ {roll} \subseteq K
    BY <1>4, <2>1, <2>3, GoesOnDeals
  <2> QED
    BY <2>4, DealsMore
<1>5. CASE Queued(m, r, f) \/ Heeds(m, r, E)
  <2>1. Alike(m, r)
    BY <1>5 DEF Queued, Heeds, Alike, Only, Fields, EventFields
  <2>2. r.out = m.out
    BY <1>5 DEF Queued, Heeds, Only, Fields, EventFields
  <2> QED
    BY <2>1, <2>2, DealsSame
<1>6. CASE Over(m, r)
  <2>1. Cleared(r) /\ r.out = m.out
    BY <1>6 DEF Over, Only, Fields, GameFields
  <2> QED
    BY <2>1, DealsEnds
<1> QED
  BY <1>1, <1>2, <1>3, <1>4, <1>5, <1>6 DEF Handled

LEMMA DealsAlone ==
  ASSUME Sane, NEW p \in Players, NEW d, NEW r, Alone(p, d, r), ~Proposes(gm[p], r, d, games + 1), NEW K
  PROVE  Deals(gm[p], r, K) /\ r.accuses = FALSE
<1>1. PICK m : m = gm[p]
  OBVIOUS
<1>2. m.accuses = FALSE /\ m.game \in Nat /\ m.outSeq \in Nat /\ m.out = <<>>
  BY <1>1 DEF Sane, Resting, Sound, Typed
<1>3. PICK o : o = m.out
  OBVIOUS
<1>4. o \in Seq(Frames) /\ ToSet(o) = {}
  BY <1>2, <1>3, EmptySet
<1>5. CASE \E die \in Dice(m) : Accepts(m, r, die)
  <2>1. PICK die, s : Only(m, s, {"out"}) /\ Started(s, r, die)
    BY <1>5 DEF Accepts
  <2>2. Deals(s, r, K)
    BY <2>1, DealsStarted
  <2>3. Alike(m, s) /\ s.accuses = m.accuses
    BY <2>1 DEF Alike, Only, Fields
  <2>4. r.accuses = s.accuses
    BY <2>1 DEF Started, Only, Fields, RollFields
  <2>5. Deals(m, r, K)
    BY <2>2, <2>3 DEF Deals, Alike, InRound
  <2> QED
    BY <1>1, <1>2, <2>3, <2>4, <2>5
<1>6. CASE Declines(m, r)
  <2>1. Cleared(r) /\ r.out = o /\ r.accuses = m.accuses
    BY <1>3, <1>6 DEF Declines, Only, Fields, GameFields
  <2>2. Deals(m, r, K)
    BY <1>4, <2>1, DealsEnds
  <2> QED
    BY <1>1, <1>2, <2>1, <2>2
<1>7. CASE Leaves(m, r)
  <2>1. Cleared(r) /\ r.out = Append(o, Frame("END", m.game)) /\ r.accuses = m.accuses
    BY <1>3, <1>7 DEF Leaves, Only, Fields, GameFields
  <2>2. PICK f : f = Frame("END", m.game)
    OBVIOUS
  <2>3. f \in Frames /\ f.type = "END"
    BY <1>2, <2>2, FramesAre
  <2>4. ToSet(r.out) = ToSet(o) \cup {f}
    BY <1>4, <2>1, <2>2, <2>3, SentOne
  <2>5. Deals(m, r, K)
    BY <1>4, <2>1, <2>3, <2>4, DealsEnds
  <2> QED
    BY <1>1, <1>2, <2>1, <2>5
<1>8. CASE Shows(m, r)
  <2>1. Alike(m, r) /\ r.out = o /\ r.accuses = m.accuses
    BY <1>3, <1>8 DEF Shows, Alike, Only, Fields
  <2>2. Deals(m, r, K)
    BY <1>4, <2>1, DealsSame
  <2> QED
    BY <1>1, <1>2, <2>1, <2>2
<1>9. CASE \E last \in BOOLEAN : \E f : Taps(m, r, f, last)
  <2>1. PICK last \in BOOLEAN : \E f : Taps(m, r, f, last)
    BY <1>9
  <2>2. PICK f : Taps(m, r, f, last)
    BY <2>1
  <2>3. Alike(m, r) /\ r.out = Append(o, f) /\ r.accuses = m.accuses
    BY <1>3, <2>2 DEF Taps, Alike, Only, Fields
  <2>4. f \in Frames /\ f.type = "PLAY"
    <3>1. PICK kind \in {"ROLL", "MOVE"} : f = PlayFrame(m.game, m.outSeq, kind, last)
      BY <2>2 DEF Taps
    <3> QED
      BY <1>2, <3>1 DEF PlayFrame, Frames, Plays
  <2>5. ToSet(r.out) = ToSet(o) \cup {f}
    BY <1>4, <2>3, <2>4, SentOne
  <2>6. Deals(m, r, K)
    BY <1>4, <2>3, <2>4, <2>5, DealsSame
  <2> QED
    BY <1>1, <1>2, <2>3, <2>6
<1> QED
  BY <1>1, <1>5, <1>6, <1>7, <1>8, <1>9 DEF Alone

LEMMA RollsLess ==
  ASSUME NEW m, NEW r, r.game = m.game, NEW U, NEW V, \A f \in V : IsRoll(f, m.game) => f \in U,
         {r.peerCommit, r.earlyReveal} \subseteq {NoRoll} \cup RollsOf(m, U)
  PROVE  RollsOf(r, V) \subseteq RollsOf(m, U)
BY DEF RollsOf

LEMMA RollsNone ==
  ASSUME NEW r, NEW V, \A f \in V : ~IsRoll(f, r.game), r.peerCommit = NoRoll, r.earlyReveal = NoRoll
  PROVE  RollsOf(r, V) = {}
BY DEF RollsOf

\* The only roll that is known of an opponent in his first round is his roll.
LEMMA OneKnown ==
  ASSUME NEW m, NEW n, NEW U \in SUBSET Frames, Side(m, n, U), Counted(m), Counted(n),
         InRound(n) => n.rollNo = n.base + 1
  PROVE  \A k \in RollsOf(m, U) : k = n.myRoll
<1>1. ASSUME NEW k \in Rolls, Known(n, k) PROVE k = n.myRoll
  BY <1>1, RollIs DEF Known, Counted
<1>2. ASSUME NEW f \in U, IsRoll(f, m.game) PROVE f.roll = n.myRoll
  <2>1. f.roll \in Rolls /\ Known(n, f.roll)
    BY <1>2, RollOf DEF IsRoll, Side, Said, Shown
  <2> QED
    BY <1>1, <2>1
<1>3. m.peerCommit # NoRoll => m.peerCommit = n.myRoll
  BY <1>1 DEF Side, Said, Counted
<1>4. m.earlyReveal # NoRoll => m.earlyReveal = n.myRoll
  BY <1>1 DEF Side, Shown, Counted
<1> QED
  BY <1>2, <1>3, <1>4 DEF RollsOf

LEMMA NobodyAccused ==
  ASSUME Sane, OneRoll, NEW p \in Players, NEW d, NEW r, Step(p, d, r)
  PROVE  r.accuses = FALSE
<1>1. PICK m : m = gm[p]
  OBVIOUS
<1>2. m.accuses = FALSE
  BY <1>1 DEF Sane, Resting
<1>3. CASE Alone(p, d, r)
  <2>1. CASE Proposes(m, r, d, games + 1)
    BY <1>2, <2>1 DEF Proposes, Only, Fields
  <2> QED
    BY <1>1, <1>3, <2>1, DealsAlone
<1>4. ASSUME NEW q \in Players \ {p}, NEW f, NEW die, Reading(p, d, r, q, f, die)
      PROVE  r.accuses = FALSE
  <2>1. Handled(m, r, q, f, die, Plays) /\ f \in Under(net, q, p)
    BY <1>1, <1>4 DEF Reading
  <2>2. ASSUME Mine(m, q, f), f.type \in {"COMMIT", "REVEAL"}
        PROVE  \A k \in {m.peerCommit, m.earlyReveal} : k # NoRoll => k = f.roll
    <3>1. PICK K : K = RollsOf(m, Under(net, q, p))
      OBVIOUS
    <3>2. f.roll \in K /\ \A k \in {m.peerCommit, m.earlyReveal} : k # NoRoll => k \in K
      BY <2>1, <2>2, <3>1 DEF RollsOf, IsRoll, Mine
    <3>3. \A k, l \in K : k = l
      BY <1>1, <2>2, <3>1 DEF OneRoll, Mine
    <3> QED
      BY <3>2, <3>3
  <2> QED
    BY <1>2, <2>1, <2>2, Suspects
<1> QED
  BY <1>3, <1>4 DEF Step

\* A step proposes a game, joins one, or goes on with what is known.
LEMMA CalmKinds ==
  ASSUME Sane, StreamInv, Fresh, OneRoll, NEW p \in Players, NEW d, NEW r, Step(p, d, r)
  PROVE  \/ Proposes(gm[p], r, d, games + 1) /\ d \in Players
         \/ \E q \in Players \ {p} : \E f \in Under(net, q, p) :
              f.type = "INVITE" /\ Invited(gm[p], r, q, f.game)
         \/ /\ Tame(gm[p].game, gm[p].peer, r) /\ d \in {gm[p].peer, Nobody}
            /\ Deals(gm[p], r, RollsOf(gm[p], Under(net, gm[p].peer, p)))
<1>1. PICK m, K : m = gm[p] /\ K = RollsOf(m, Under(net, m.peer, p))
  OBVIOUS
<1>2. r.accuses = FALSE
  BY NobodyAccused
<1>3. CASE Alone(p, d, r) /\ ~Proposes(m, r, d, games + 1)
  <2>1. Tame(m.game, m.peer, r)
    BY <1>1, <1>3, TameAlone
  <2>2. Deals(m, r, K)
    BY <1>1, <1>3, DealsAlone
  <2>3. d \in {m.peer, Nobody}
    BY <1>1, <1>3 DEF Alone
  <2> QED
    BY <1>1, <2>1, <2>2, <2>3
<1>4. CASE Alone(p, d, r) /\ Proposes(m, r, d, games + 1)
  <2>1. m.state = "IDLE" /\ r.state = "INVITING"
    BY <1>4 DEF Proposes
  <2>2. d \in Players
    BY <1>1, <1>4, <2>1 DEF Alone, Accepts, Declines, Leaves, Taps, Shows, Only, Fields
  <2> QED
    BY <1>1, <1>4, <2>2
<1>5. ASSUME NEW q \in Players \ {p}, NEW f, NEW die, Reading(p, d, r, q, f, die),
             ~(f.type = "INVITE" /\ Invited(m, r, q, f.game))
      PROVE  Tame(m.game, m.peer, r) /\ d = m.peer /\ Deals(m, r, K)
  <2>1. Handled(m, r, q, f, die, Plays) /\ f \in Under(net, q, p) /\ d = m.peer /\ die \in Nat
    BY <1>1, <1>5, DiceNat DEF Reading
  <2>2. Sound(p, m, 1..games) /\ m.out = <<>> /\ m.rollNo \in Nat /\ games \in Nat
        /\ 1..games \in SUBSET (Nat \ {0})
    BY <1>1 DEF Sane, Sound, Typed, Resting
  <2>3. Tame(m.game, m.peer, r)
    BY <1>5, <2>1, <2>2, TameHandled
  <2>4. ToSet(m.out) = {}
    BY <2>2, EmptySet
  <2>5. Mine(m, q, f) /\ f.type \in {"COMMIT", "REVEAL"} => f.roll \in K
    BY <1>1, <2>1 DEF Mine, RollsOf, IsRoll
  <2>6. m.rollNo \in Nat
    BY <2>2
  <2>7. Deals(m, r, K)
    BY <1>2, <1>5, <2>1, <2>4, <2>5, <2>6, DealsHandled
  <2> QED
    BY <2>1, <2>3, <2>7
<1>6. ASSUME NEW q \in Players \ {p}, NEW f, NEW die, Reading(p, d, r, q, f, die)
      PROVE  f \in Under(net, q, p)
  BY <1>6 DEF Reading
<1> QED
  BY <1>1, <1>3, <1>4, <1>5, <1>6 DEF Step

LEMMA CalmRounds ==
  ASSUME Sane, StreamInv, Fresh, CalmInv, NEW p \in Players, NEW d, NEW r, Step(p, d, r), ~RollsAgain
  PROVE  OneRound'
<1>1. PICK m, y : m = gm[p] /\ y = gm'[p]
  OBVIOUS
<1>2. /\ y.game = r.game /\ y.state = r.state /\ y.rollNo = r.rollNo /\ y.base = r.base
      /\ \A x \in Players \ {p} : gm'[x] = gm[x]
  BY <1>1 DEF Step, Rested, Only, Fields
<1>3. ASSUME InRound(r) PROVE r.rollNo = r.base + 1
  <2>1. CASE \/ Proposes(m, r, d, games + 1)
             \/ \E q \in Players \ {p} : \E f \in Under(net, q, p) : Invited(m, r, q, f.game)
    BY <1>3, <2>1 DEF Proposes, Invited, InRound
  <2>2. ASSUME NEW K, Deals(m, r, K) PROVE r.rollNo = r.base + 1
    <3>1. ~(m.state = "OPENING" /\ r.game = m.game /\ r.rollNo # m.rollNo)
      BY <1>1, <1>2 DEF RollsAgain
    <3>2. InRound(m) => m.rollNo = m.base + 1
      BY <1>1 DEF CalmInv, OneRound
    <3> QED
      BY <1>3, <2>2, <3>1, <3>2 DEF Deals
  <2> QED
    BY <1>1, <2>1, <2>2, CalmKinds DEF CalmInv
<1>4. InRound(y) => y.rollNo = y.base + 1
  BY <1>2, <1>3 DEF InRound
<1> QED
  BY <1>1, <1>2, <1>4 DEF OneRound, CalmInv

\* What p knows of the rolls of b, after his own step.
LEMMA CalmMine ==
  ASSUME Sane, StreamInv, Fresh, CalmInv, NEW p \in Players, NEW d, NEW r, Step(p, d, r),
         NEW b \in Players \ {p}, r.peer = b, NEW V, V \subseteq Under(net, b, p)
  PROVE  \A k, l \in RollsOf(r, V) : k = l
<1>1. PICK m, U : m = gm[p] /\ U = Under(net, b, p)
  OBVIOUS
<1>2. r.game # 0 /\ m.game \in Nat /\ games \in Nat
      /\ (m.state = "IDLE" => m.peerCommit = NoRoll /\ m.earlyReveal = NoRoll)
  <2>1. Sound(p, m, 1..games) /\ games \in Nat
    BY <1>1 DEF Sane
  <2>2. r.game # 0
    <3>1. r.peer # Nobody
      BY ConstantsAssumption
    <3> QED
      BY <3>1 DEF Step, Sound, Coherent
  <2> QED
    BY <2>1, <2>2 DEF Sound, Typed, Coherent
<1>3. CASE Proposes(m, r, d, games + 1)
  <2>1. r.game = games + 1 /\ r.peerCommit = NoRoll /\ r.earlyReveal = NoRoll
    BY <1>2, <1>3 DEF Proposes, Only, Fields
  <2>2. \A f \in V : f.game # r.game
    BY <1>2, <2>1, UnderIs
  <2>3. RollsOf(r, V) = {}
    BY <2>1, <2>2, RollsNone DEF IsRoll
  <2> QED
    BY <2>3
<1>4. ASSUME NEW q \in Players \ {p}, NEW f \in Under(net, q, p), f.type = "INVITE",
             Invited(m, r, q, f.game)
      PROVE  RollsOf(r, V) = {}
  <2>1. q = b /\ r.game = f.game /\ r.peerCommit = NoRoll /\ r.earlyReveal = NoRoll
    BY <1>2, <1>4 DEF Invited, Only, Fields
  <2>2. f.game \in Games /\ Asks(net, b, p, f.game)
    BY <1>4, <2>1, UnderIs DEF Asks
  <2>3. \A e \in Under(net, b, p) : e.game = f.game => e.type \in {"INVITE", "END"}
    BY <2>2 DEF Fresh
  <2> QED
    BY <2>1, <2>3, RollsNone DEF IsRoll
<1>5. CASE Tame(m.game, m.peer, r) /\ Deals(m, r, RollsOf(m, Under(net, m.peer, p)))
  <2>1. r.game = m.game /\ m.peer = b
    BY <1>2, <1>5 DEF Tame
  <2>2. PICK K : K = RollsOf(m, U)
    OBVIOUS
  <2>3. {r.peerCommit, r.earlyReveal} \subseteq {NoRoll} \cup K
    <3>1. {r.peerCommit, r.earlyReveal} \subseteq {NoRoll, m.peerCommit, m.earlyReveal} \cup K
      BY <1>1, <1>2, <1>5, <2>1, <2>2 DEF Deals
    <3>2. {m.peerCommit, m.earlyReveal} \subseteq {NoRoll} \cup K
      BY <2>2 DEF RollsOf
    <3> QED
      BY <3>1, <3>2
  <2>4. RollsOf(r, V) \subseteq K
    BY <1>1, <2>1, <2>2, <2>3, RollsLess
  <2>5. \A k, l \in K : k = l
    BY <1>1, <2>1, <2>2 DEF CalmInv, OneRoll
  <2> QED
    BY <2>4, <2>5
<1> QED
  BY <1>1, <1>3, <1>4, <1>5, CalmKinds DEF CalmInv

\* What a does not learn from p: only an opponent of his sends him a roll.
LEMMA CalmTheirs ==
  ASSUME Sane, StreamInv, Fresh, CalmInv, NEW p \in Players, NEW d, NEW r, Step(p, d, r),
         NEW a \in Players \ {p}, gm[a].peer = p, ~(r.peer = a /\ r.game = gm[a].game)
  PROVE  \A f \in Under(net', p, a) : IsRoll(f, gm[a].game) => f \in Under(net, p, a)
<1> SUFFICES ASSUME d = a, NEW f \in ToSet(r.out), IsRoll(f, gm[a].game) PROVE FALSE
  BY DEF Step
<1>1. PICK m : m = gm[p]
  OBVIOUS
<1>2. m.out = <<>> /\ games \in Nat
  BY <1>1 DEF Sane, Resting
<1>3. PICK o : o = m.out
  OBVIOUS
<1>4. o \in Seq(Frames) /\ ToSet(o) = {}
  BY <1>2, <1>3, EmptySet
<1>5. CASE Proposes(m, r, d, games + 1)
  <2>1. PICK e : e = Frame("INVITE", games + 1)
    OBVIOUS
  <2>2. e \in Frames /\ e.type = "INVITE"
    BY <1>2, <2>1, FramesAre
  <2>3. ToSet(r.out) = ToSet(o) \cup {e}
    <3>1. r.out = Append(o, e)
      BY <1>3, <1>5, <2>1 DEF Proposes
    <3> QED
      BY <1>4, <2>2, <3>1, SentOne
  <2> QED
    BY <1>4, <2>2, <2>3 DEF IsRoll
<1>6. ASSUME NEW q, NEW g, Invited(m, r, q, g) PROVE FALSE
  <2>1. r.out = o
    BY <1>3, <1>6 DEF Invited, Only, Fields
  <2> QED
    BY <1>4, <2>1
<1>7. ASSUME NEW K, Deals(m, r, K), Tame(m.game, m.peer, r), d \in {m.peer, Nobody} PROVE FALSE
  <2>1. d = m.peer
    BY <1>7, ConstantsAssumption
  <2>2. r.game = m.game /\ r.peer = m.peer /\ f.game = m.game
    BY <1>7 DEF Deals, Tame, IsRoll
  <2> QED
    BY <2>1, <2>2 DEF IsRoll
<1> QED
  BY <1>1, <1>5, <1>6, <1>7, CalmKinds DEF CalmInv

LEMMA CalmStep ==
  ASSUME Sane, StreamInv, Fresh, Sane', OpeningInv', CalmInv,
         NEW p \in Players, NEW d, NEW r, Step(p, d, r), ~RollsAgain
  PROVE  CalmInv'
<1>1. /\ gm'[p].peer = r.peer /\ gm'[p].game = r.game
      /\ gm'[p].peerCommit = r.peerCommit /\ gm'[p].earlyReveal = r.earlyReveal
      /\ \A x \in Players \ {p} : gm'[x] = gm[x]
  BY DEF Step, Rested, Only, Fields
<1>2. OneRound'
  BY CalmRounds
<1>3. accused' = {}
  <2>1. r.accuses = FALSE
    BY NobodyAccused DEF CalmInv
  <2> QED
    BY <2>1 DEF Step, CalmInv
<1>4. ASSUME NEW a \in Players, NEW b \in Players, gm'[a].peer = b
      PROVE  \A k, l \in RollsOf(gm'[a], Under(net', b, a)) : k = l
  <2>1. PICK x, z, V : x = gm'[a] /\ z = gm'[b] /\ V = Under(net', b, a)
    OBVIOUS
  <2>2. a # b
    BY <1>4 DEF Sane, Sound, Typed
  <2>3. CASE Opponents(a, b)'
    <3>1. Counted(x) /\ Counted(z)
      <4>1. Sound(a, x, 1..games') /\ Sound(b, z, 1..games')
        BY <2>1 DEF Sane
      <4> QED
        BY <4>1, SoundCounted
    <3>2. Side(x, z, V)
      BY <2>1, <2>3 DEF OpeningInv
    <3>3. InRound(z) => z.rollNo = z.base + 1
      BY <1>2, <2>1 DEF OneRound
    <3>4. V \in SUBSET Frames
      <4>1. PICK s \in Seq(Frames) : s = net'[b][a]
        BY DEF Sane, NetOk
      <4> QED
        BY <2>1, <4>1, SetOf DEF Under
    <3>5. \A k \in RollsOf(x, V) : k = z.myRoll
      BY <3>1, <3>2, <3>3, <3>4, OneKnown
    <3> QED
      BY <2>1, <3>5
  <2>4. CASE a = p
    <3>1. b \in Players \ {p} /\ r.peer = b /\ V \subseteq Under(net, b, p)
      BY <1>1, <1>4, <2>1, <2>2, <2>4 DEF Step
    <3>2. \A k, l \in RollsOf(r, V) : k = l
      BY <3>1, CalmMine
    <3>3. RollsOf(x, V) = RollsOf(r, V)
      BY <1>1, <2>1, <2>4 DEF RollsOf
    <3> QED
      BY <2>1, <3>2, <3>3
  <2>5. CASE a # p /\ ~Opponents(a, b)'
    <3>1. x = gm[a] /\ gm[a].peer = b
      BY <1>1, <1>4, <2>1, <2>5
    <3>2. PICK U : U = Under(net, b, a)
      OBVIOUS
    <3>3. \A f \in V : IsRoll(f, x.game) => f \in U
      <4>1. CASE b = p
        <5>1. ~(r.peer = a /\ r.game = gm[a].game)
          BY <1>1, <1>4, <2>1, <2>5, <3>1, <4>1 DEF Opponents
        <5> QED
          BY <2>1, <2>5, <3>1, <3>2, <4>1, <5>1, CalmTheirs
      <4>2. CASE b # p
        BY <2>1, <3>2, <4>2 DEF Step
      <4> QED
        BY <4>1, <4>2
    <3>4. {x.peerCommit, x.earlyReveal} \subseteq {NoRoll} \cup RollsOf(x, U)
      BY DEF RollsOf
    <3>5. RollsOf(x, V) \subseteq RollsOf(x, U)
      BY <3>3, <3>4, RollsLess
    <3>6. \A k, l \in RollsOf(x, U) : k = l
      BY <3>1, <3>2 DEF CalmInv, OneRoll
    <3> QED
      BY <2>1, <3>5, <3>6
  <2> QED
    BY <2>3, <2>4, <2>5
<1> QED
  BY <1>2, <1>3, <1>4 DEF CalmInv, OneRoll

\* Reordered frames do not make an honest player a cheat: as long as no opening
\* roll is a tie, nobody is accused, whatever overtakes what.  (After a tie
\* somebody may be: the reveal of one round meets the commitment of the other.)
THEOREM NobodyCheats ==
  MaxRepeats = 0 => (Spec /\ [][~RollsAgain]_vars => []NoFalseAccusation)
<1> SUFFICES ASSUME MaxRepeats = 0
             PROVE  Spec /\ [][~RollsAgain]_vars => []NoFalseAccusation
  OBVIOUS
<1>1. Init => CalmInv
  <2> SUFFICES ASSUME Init PROVE CalmInv
    OBVIOUS
  <2>1. \A p \in Players : gm[p].state = "IDLE"
    BY DEF Init, Idle
  <2>2. OneRound
    BY <2>1 DEF OneRound, InRound
  <2>3. \A p \in Players : gm[p].peer = Nobody
    BY DEF Init, Idle
  <2>4. OneRoll
    BY <2>3, ConstantsAssumption DEF OneRoll
  <2> QED
    BY <2>2, <2>4 DEF CalmInv, Init
<1>2. ASSUME CalmInv, UNCHANGED vars PROVE CalmInv'
  <2>1. OneRound' /\ accused' = {}
    BY <1>2 DEF vars, CalmInv, OneRound
  <2>2. OneRoll'
    BY <1>2 DEF vars, CalmInv, OneRoll, Under
  <2> QED
    BY <2>1, <2>2 DEF CalmInv
<1>3. ASSUME OnceInv, OnceInv', OpeningInv', CalmInv, Next, ~RollsAgain PROVE CalmInv'
  <2>1. \E p \in Players : \E d \in People \ {p} : \E r : Step(p, d, r)
    BY <1>3, OnceStep
  <2> QED
    BY <1>3, <2>1, CalmStep DEF OnceInv
<1>4. OnceInv /\ OnceInv' /\ OpeningInv' /\ CalmInv /\ [Next]_vars /\ [~RollsAgain]_vars => CalmInv'
  BY <1>2, <1>3
<1>5. Spec => [](OnceInv /\ OpeningInv)
  BY OpeningAlways
<1>6. CalmInv => NoFalseAccusation
  BY DEF CalmInv, NoFalseAccusation
<1> QED
  BY <1>1, <1>4, <1>5, <1>6, PTL DEF Spec


-----------------------------------------------------------------------------
(* Over such a tunnel nothing is lost: while no player is further ahead of    *)
(* his peer than the window, each event is under way, waits or was heard.    *)

\* No player is more events ahead of his peer than the window holds.
WithinWindow ==
  \A p, q \in Players : Opponents(p, q) => gm[q].outSeq <= gm[p].expectedSeq + MAX_BUFFERED

Waits(m, e) ==
  e.seq < m.expectedSeq \/ e \in m.eventBuffer \/ e \in ToSet(m.openingQueue)
\* T are the events that were sent to m, U the frames that are under way to it.
Listens(m, U, T) ==
  /\ \A e \in T : e \in U \/ Waits(m, e)
  /\ \A i, j \in 1..Len(m.openingQueue) :
       m.openingQueue[i].seq = m.openingQueue[j].seq => i = j
  /\ \A f \in U \cap T : \A i \in 1..Len(m.openingQueue) : m.openingQueue[i].seq # f.seq
KeptInv ==
  \A p, q \in Players : Opponents(p, q) =>
    Listens(gm[p], Under(net, q, p), Played(played, gm[p].game, p))

\* Events at hand: each has its own number, none is beyond the window.
AtHand(m, T) ==
  /\ T \subseteq Plays /\ m.expectedSeq \in Nat
  /\ \A e, f \in T : e.seq = f.seq => e = f
  /\ \A e \in T : e.seq <= m.expectedSeq + MAX_BUFFERED
\* The queue and buffer of m hold events of T.
Stores(m, T) ==
  m.eventBuffer \subseteq T /\ m.openingQueue \in Seq(T)

\* A queue of events that leaves out a number has room.
LEMMA RoomLeft ==
  ASSUME NEW s \in Seq(Plays), NEW n \in Nat, NEW k \in 0..n-1,
         \A i, j \in 1..Len(s) : s[i].seq = s[j].seq => i = j,
         \A i \in 1..Len(s) : s[i].seq < n /\ s[i].seq # k
  PROVE  Len(s) < n
<1>1. PICK hi : hi = n - 1
  OBVIOUS
<1> hi \in Int /\ 0 \in Int /\ Len(s) \in Nat /\ 1 \in Int
  BY <1>1
<1>2. IsFiniteSet(0..hi) /\ Cardinality(0..hi) = n
  <2>1. IsFiniteSet(0..hi) /\ Cardinality(0..hi) = IF 0 > hi THEN 0 ELSE hi - 0 + 1
    BY FS_Interval
  <2> QED
    BY <1>1, <2>1
<1>3. PICK S : S = (0..hi) \ {k}
  OBVIOUS
<1>4. IsFiniteSet(S) /\ Cardinality(S) = n - 1
  <2>1. k \in 0..hi
    BY <1>1
  <2>2. IsFiniteSet((0..hi) \ {k}) /\ Cardinality((0..hi) \ {k}) = Cardinality(0..hi) - 1
    BY <1>2, <2>1, FS_RemoveElement
  <2> QED
    BY <1>2, <1>3, <2>2
<1>5. PICK N : N = 1..Len(s)
  OBVIOUS
<1>6. IsFiniteSet(N) /\ Cardinality(N) = Len(s)
  <2>1. IsFiniteSet(1..Len(s)) /\ Cardinality(1..Len(s)) = IF 1 > Len(s) THEN 0 ELSE Len(s) - 1 + 1
    BY FS_Interval
  <2> QED
    BY <1>5, <2>1
<1>7. PICK f : f = [i \in N |-> s[i].seq]
  OBVIOUS
<1>8. \A i \in N : s[i].seq \in S
  <2> SUFFICES ASSUME NEW i \in 1..Len(s) PROVE s[i].seq \in 0..hi /\ s[i].seq # k
    BY <1>3, <1>5
  <2>1. s[i] \in Plays
    OBVIOUS
  <2>2. s[i].seq \in Nat /\ s[i].seq < n
    BY <2>1 DEF Plays
  <2> QED
    BY <1>1, <2>2
<1>9. f \in Injection(N, S)
  BY <1>5, <1>7, <1>8 DEF Injection, IsInjective
<1>10. Cardinality(N) <= Cardinality(S)
  BY <1>4, <1>6, <1>9, FS_Injection
<1> QED
  BY <1>4, <1>6, <1>10

LEMMA WaitsSame ==
  ASSUME NEW m, NEW r, r.expectedSeq = m.expectedSeq, r.eventBuffer = m.eventBuffer,
         r.openingQueue = m.openingQueue, NEW e, Waits(m, e)
  PROVE  Waits(r, e)
BY DEF Waits

\* What finishOpening makes of the events of the queue.
LEMMA WaitsFinished ==
  ASSUME NEW m, NEW T, AtHand(m, T), Stores(m, T), NEW roll, NEW E,
         NEW r, Finished(m, r, roll, E), r.eventBuffer \subseteq T, NEW e \in T, Waits(m, e)
  PROVE  Waits(r, e)
<1>1. PICK s, first : /\ BegunWith(m, s, first) /\ Heeds(s, r, E)
                      /\ \A i \in 1..Len(m.openingQueue) : Reaches(m.expectedSeq, r, m.openingQueue[i])
  BY DEF Finished
<1>2. s.expectedSeq = m.expectedSeq /\ s.eventBuffer = m.eventBuffer
  BY <1>1 DEF BegunWith, Only, Fields, BegunFields
<1>3. /\ r.expectedSeq = s.expectedSeq + Len(r.given) /\ Len(r.given) \in Nat
      /\ \A b \in s.eventBuffer : b \in r.eventBuffer \/ b.seq < r.expectedSeq
  BY <1>1 DEF Heeds
<1>4. e.seq \in Nat /\ m.expectedSeq \in Nat /\ r.expectedSeq \in Nat /\ m.expectedSeq <= r.expectedSeq
  BY <1>2, <1>3 DEF AtHand, Plays
<1>5. CASE e.seq < m.expectedSeq
  BY <1>4, <1>5 DEF Waits
<1>6. CASE e \in m.eventBuffer
  BY <1>2, <1>3, <1>6 DEF Waits
<1>7. CASE e \in ToSet(m.openingQueue)
  <2>1. ToSet(m.openingQueue) = {m.openingQueue[i] : i \in 1..Len(m.openingQueue)}
    BY SetOf DEF Stores
  <2>2. Reaches(m.expectedSeq, r, e)
    BY <1>1, <1>7, <2>1
  <2>3. ~(e.seq > m.expectedSeq + MAX_BUFFERED)
    BY <1>4, ConstantsAssumption DEF AtHand
  <2>4. \A b \in r.eventBuffer : b.seq = e.seq => b = e
    BY DEF AtHand
  <2> QED
    BY <2>2, <2>3, <2>4 DEF Reaches, Waits
<1> QED
  BY <1>5, <1>6, <1>7 DEF Waits

\* What is known of the queue after a reveal.
LEMMA WaitsRevealed ==
  ASSUME NEW m, NEW T, AtHand(m, T), Stores(m, T), NEW roll, NEW die, NEW E,
         NEW r, Revealed(m, r, roll, die, E), r.eventBuffer \subseteq T, r.game # 0
  PROVE  /\ \A e \in T : Waits(m, e) => Waits(r, e)
         /\ r.openingQueue \in {m.openingQueue, <<>>}
<1>1. CASE Early(m, r, roll) \/ Tied(m, r, roll, die)
  <2>1. /\ r.expectedSeq = m.expectedSeq /\ r.eventBuffer = m.eventBuffer
        /\ r.openingQueue = m.openingQueue
    BY <1>1 DEF Early, Tied, Only, Fields, RollFields
  <2> QED
    BY <2>1, WaitsSame
<1>2. CASE Accuses(m, r, roll)
  BY <1>2 DEF Accuses, Cleared
<1>3. CASE Finished(m, r, roll, E)
  <2>1. PICK s, first : BegunWith(m, s, first) /\ Heeds(s, r, E)
    BY <1>3 DEF Finished
  <2>2. r.openingQueue = <<>>
    BY <2>1 DEF BegunWith, Heeds, Only, Fields, EventFields
  <2> QED
    BY <1>3, <2>2, WaitsFinished
<1> QED
  BY <1>1, <1>2, <1>3 DEF Revealed

LEMMA WaitsCommitted ==
  ASSUME NEW m, NEW T, AtHand(m, T), Stores(m, T), NEW roll, NEW die, NEW E,
         NEW r, Committed(m, r, roll, die, E), r.eventBuffer \subseteq T, r.game # 0
  PROVE  /\ \A e \in T : Waits(m, e) => Waits(r, e)
         /\ r.openingQueue \in {m.openingQueue, <<>>}
<1>1. CASE Answered(m, r, roll)
  <2>1. /\ r.expectedSeq = m.expectedSeq /\ r.eventBuffer = m.eventBuffer
        /\ r.openingQueue = m.openingQueue
    BY <1>1 DEF Answered, Only, Fields
  <2> QED
    BY <2>1, WaitsSame
<1>2. ASSUME NEW s, NEW t, Answered(m, s, roll), Only(s, t, {"earlyReveal"}),
             Revealed(t, r, m.earlyReveal, die, E)
      PROVE  /\ \A e \in T : Waits(m, e) => Waits(r, e)
             /\ r.openingQueue \in {m.openingQueue, <<>>}
  <2>1. /\ t.expectedSeq = m.expectedSeq /\ t.eventBuffer = m.eventBuffer
        /\ t.openingQueue = m.openingQueue
    BY <1>2 DEF Answered, Only, Fields
  <2>2. AtHand(t, T) /\ Stores(t, T)
    BY <2>1 DEF AtHand, Stores
  <2>3. /\ \A e \in T : Waits(t, e) => Waits(r, e)
        /\ r.openingQueue \in {t.openingQueue, <<>>}
    BY <1>2, <2>2, WaitsRevealed
  <2>4. \A e \in T : Waits(m, e) => Waits(t, e)
    BY <2>1, WaitsSame
  <2> QED
    BY <2>1, <2>3, <2>4
<1> QED
  BY <1>1, <1>2 DEF Committed

\* A handler loses no event that waits, and an event that comes waits then.
LEMMA WaitsHandled ==
  ASSUME NEW m, NEW T, AtHand(m, T), Stores(m, T), m.state = "IDLE" => m.game = 0,
         NEW q, NEW f, NEW die, NEW E, NEW r, Handled(m, r, q, f, die, E),
         r.eventBuffer \subseteq T, r.game # 0, r.game = m.game
  PROVE  /\ \A e \in T : Waits(m, e) => Waits(r, e)
         /\ r.openingQueue \in {m.openingQueue, <<>>} \/ (Queued(m, r, f) /\ Mine(m, q, f) /\ f.type = "PLAY")
         /\ /\ f \in T /\ Mine(m, q, f) /\ m.state \in {"OPENING", "ACTIVE"}
            /\ m.state = "OPENING" => Len(m.openingQueue) < MAX_BUFFERED
            => Waits(r, f)
<1> DEFINE Goal ==
      /\ \A e \in T : Waits(m, e) => Waits(r, e)
      /\ r.openingQueue \in {m.openingQueue, <<>>} \/ (Queued(m, r, f) /\ Mine(m, q, f) /\ f.type = "PLAY")
      /\ /\ f \in T /\ Mine(m, q, f) /\ m.state \in {"OPENING", "ACTIVE"}
         /\ m.state = "OPENING" => Len(m.openingQueue) < MAX_BUFFERED
         => Waits(r, f)
<1>0. /\ f \in T => f.type = "PLAY" /\ f.seq \in Nat
      /\ \A e \in T : e.seq \in Nat
      /\ m.expectedSeq \in Nat /\ MAX_BUFFERED \in Nat
  BY ConstantsAssumption DEF AtHand, Plays
<1>1. CASE Ignored(m, r, q, f)
  <2>1. Len(m.openingQueue) \in Nat
    BY DEF Stores
  <2>2. f \in T /\ Mine(m, q, f) =>
          m.state # "ACTIVE" /\ (m.state = "OPENING" => Len(m.openingQueue) >= MAX_BUFFERED)
    BY <1>0, <1>1 DEF Ignored
  <2>3. r = m
    BY <1>1 DEF Ignored
  <2> QED
    BY <1>0, <2>1, <2>2, <2>3
<1>2. CASE f.type = "INVITE" /\ Invited(m, r, q, f.game)
  <2>1. m.game = 0
    BY <1>2 DEF Invited
  <2> QED
    BY <2>1
<1>3. CASE f.type = "ACCEPT" /\ Started(m, r, die)
  <2>1. /\ r.expectedSeq = m.expectedSeq /\ r.eventBuffer = m.eventBuffer
        /\ r.openingQueue = m.openingQueue
    BY <1>3 DEF Started, Only, Fields, RollFields
  <2> QED
    BY <1>0, <1>3, <2>1, WaitsSame
<1>4. CASE f.type = "COMMIT" /\ Committed(m, r, f.roll, die, E)
  <2>1. /\ \A e \in T : Waits(m, e) => Waits(r, e)
        /\ r.openingQueue \in {m.openingQueue, <<>>}
    BY <1>4, WaitsCommitted
  <2> QED
    BY <1>0, <1>4, <2>1
<1>5. CASE f.type = "REVEAL" /\ Revealed(m, r, f.roll, die, E)
  <2>1. /\ \A e \in T : Waits(m, e) => Waits(r, e)
        /\ r.openingQueue \in {m.openingQueue, <<>>}
    BY <1>5, WaitsRevealed
  <2> QED
    BY <1>0, <1>5, <2>1
<1>6. CASE Mine(m, q, f) /\ f.type = "PLAY" /\ Queued(m, r, f)
  <2>1. PICK s : s = m.openingQueue
    OBVIOUS
  <2>2. /\ r.expectedSeq = m.expectedSeq /\ r.eventBuffer = m.eventBuffer
        /\ r.openingQueue = Append(s, f)
    BY <1>6, <2>1 DEF Queued, Only, Fields
  <2>3. f \in T => ToSet(Append(s, f)) = ToSet(s) \cup {f}
    BY <2>1, SetOfAppend DEF Stores
  <2>4. ToSet(s) \subseteq ToSet(Append(s, f)) /\ f \in ToSet(Append(s, f))
    <3>1. /\ s \in Seq(T) /\ s \in Seq(T \cup {f}) /\ f \in T \cup {f}
      BY <2>1 DEF Stores
    <3>2. ToSet(Append(s, f)) = ToSet(s) \cup {f}
      BY <3>1, SetOfAppend
    <3> QED
      BY <3>2
  <2> QED
    BY <1>6, <2>1, <2>2, <2>4 DEF Waits
<1>7. CASE /\ Heeds(m, r, E) /\ Keeps(m, r) /\ Reaches(m.expectedSeq, r, f)
  <2>1. r.openingQueue = m.openingQueue
    BY <1>7 DEF Heeds, Only, Fields, EventFields
  <2>2. r.expectedSeq \in Nat
    BY <1>0, <1>7 DEF Heeds
  <2>3. \A e \in T : Waits(m, e) => Waits(r, e)
    BY <1>0, <1>7, <2>1, <2>2 DEF Keeps, Waits
  <2>4. f \in T => Waits(r, f)
    <3>1. f \in T => f.seq <= m.expectedSeq + MAX_BUFFERED /\ \A b \in T : b.seq = f.seq => b = f
      BY DEF AtHand
    <3>2. f \in T => ~(f.seq > m.expectedSeq + MAX_BUFFERED)
      BY <1>0, <3>1
    <3> QED
      BY <1>7, <3>1, <3>2 DEF Reaches, Waits
  <2> QED
    BY <2>1, <2>3, <2>4
<1>8. CASE Over(m, r)
  BY <1>8 DEF Over, Cleared
<1> QED
  BY <1>1, <1>2, <1>3, <1>4, <1>5, <1>6, <1>7, <1>8 DEF Handled

\* What a player does of his own accord leaves the events of his peer alone.
LEMMA WaitsAlone ==
  ASSUME NEW p, NEW d, NEW r, Alone(p, d, r), ~Proposes(gm[p], r, d, games + 1), r.game # 0
  PROVE  /\ r.expectedSeq = gm[p].expectedSeq /\ r.eventBuffer = gm[p].eventBuffer
         /\ r.openingQueue = gm[p].openingQueue
<1>1. CASE \E die \in Dice(gm[p]) : Accepts(gm[p], r, die)
  <2>1. PICK die, s : Only(gm[p], s, {"out"}) /\ Started(s, r, die)
    BY <1>1 DEF Accepts
  <2> QED
    BY <2>1 DEF Started, Only, Fields, RollFields
<1>2. CASE Declines(gm[p], r) \/ Leaves(gm[p], r)
  BY <1>2 DEF Declines, Leaves, Cleared
<1>3. CASE \E last \in BOOLEAN : \E f : Taps(gm[p], r, f, last)
  BY <1>3 DEF Taps, Only, Fields
<1>4. CASE Shows(gm[p], r)
  BY <1>4 DEF Shows, Only, Fields
<1> QED
  BY <1>1, <1>2, <1>3, <1>4 DEF Alone


\* What is newly under way is the next event of its sender.
LEMMA SentPlays ==
  ASSUME Sane, NEW p \in Players, NEW d, NEW r, Step(p, d, r), NEW a \in Players,
         NEW f \in Under(net', p, a), f \notin Under(net, p, a), f.type = "PLAY"
  PROVE  a = gm[p].peer /\ f.game = gm[p].game /\ f.seq = gm[p].outSeq /\ gm[p].state = "ACTIVE"
<1>1. a = d /\ f \in ToSet(r.out)
  BY DEF Step
<1>2. PICK o \in Seq(Frames) : o = r.out
  BY DEF Step, Sound
<1>3. PICK i \in 1..Len(o) : f = o[i]
  <2>1. ToSet(o) = {o[i] : i \in 1..Len(o)}
    BY SetOf
  <2> QED
    BY <1>1, <1>2, <2>1
<1>4. CASE Alone(p, d, r)
  <2>1. Sound(p, r, 1..games')
    BY DEF Step
  <2>2. \A j \in 1..Len(r.out) : r.out[j].type = "PLAY" =>
          /\ r.out[j].game = gm[p].game /\ r.out[j].seq = gm[p].outSeq
          /\ d = gm[p].peer /\ gm[p].state = "ACTIVE"
    BY <1>4, <2>1, NewAlone
  <2> QED
    BY <1>1, <1>2, <1>3, <2>2
<1>5. ASSUME NEW q \in Players \ {p}, NEW e, NEW die, Reading(p, d, r, q, e, die)
      PROVE  FALSE
  <2>1. PICK m, G : m = gm[p] /\ G = 1..games
    OBVIOUS
  <2>2. G \in SUBSET (Nat \ {0}) /\ Sound(p, m, G) /\ m.out = <<>>
    BY <2>1 DEF Sane, Resting
  <2>3. die \in Nat /\ Handled(m, r, q, e, die, Plays)
    BY <1>5, <2>1, DiceNat DEF Reading
  <2>4. NewRolls(m.rollNo, r)
    BY <2>2, <2>3, NewHandled
  <2> QED
    BY <1>2, <1>3, <2>4 DEF NewRolls
<1> QED
  BY <1>4, <1>5 DEF Step

\* An event that was made is under way.
LEMMA PlayedMore ==
  ASSUME Sane, StreamInv, NEW p \in Players, NEW d, NEW r, Step(p, d, r),
         NEW g \in Games, NEW a \in Players, NEW e \in Played(played', g, a)
  PROVE  \/ e \in Played(played, g, a)
         \/ g = gm[p].game /\ a = gm[p].peer /\ e \in Under(net', p, a)
<1>1. CASE played' = played
  BY <1>1
<1>2. ASSUME NEW last \in BOOLEAN, NEW f, Taps(gm[p], r, f, last), d = gm[p].peer,
             d \in Players => net'[p][d] = net[p][d] \o r.out,
             played' = [played EXCEPT ![gm[p].game][gm[p].peer] = Append(@, f)]
      PROVE  \/ e \in Played(played, g, a)
             \/ g = gm[p].game /\ a = gm[p].peer /\ e \in Under(net', p, a)
  <2>1. PICK h, b : h = gm[p].game /\ b = gm[p].peer
    OBVIOUS
  <2>2. PICK P, W : P = played /\ W = played'
    OBVIOUS
  <2>3. P \in Histories
    BY <2>2 DEF StreamInv, Story
  <2>4. W = [P EXCEPT ![h][b] = Append(P[h][b], f)]
    BY <1>2, <2>1, <2>2
  <2>5. P[g][a] \in Seq(Plays)
    BY <2>3 DEF Histories
  <2>6. CASE ~(g = h /\ a = b)
    <3>1. W[g][a] = P[g][a]
      BY <2>3, <2>4, <2>6 DEF Histories
    <3> QED
      BY <2>2, <3>1 DEF Played
  <2>7. CASE g = h /\ a = b
    <3>1. PICK s, t : s = P[g][a] /\ t = Append(s, f)
      OBVIOUS
    <3>2. W[g][a] = t
      BY <2>3, <2>4, <2>7, <3>1 DEF Histories
    <3>3. /\ Len(t) = Len(s) + 1 /\ t[Len(s) + 1] = f /\ Len(s) \in Nat
          /\ \A i \in 1..Len(s) : t[i] = s[i]
      BY <2>5, <3>1
    <3>4. e \in Plays /\ e.game = g /\ e.seq < Len(t) /\ t[e.seq + 1] = e
      BY <2>2, <3>2 DEF Played
    <3>5. e.seq \in Nat
      BY <3>4 DEF Plays
    <3>6. CASE e.seq < Len(s)
      <4>1. s[e.seq + 1] = e
        BY <3>3, <3>4, <3>5, <3>6
      <4> QED
        BY <2>2, <3>1, <3>4, <3>6, <4>1 DEF Played
    <3>7. CASE e.seq = Len(s)
      <4>1. e = f
        BY <3>3, <3>4, <3>7
      <4>2. PICK o, n : o = r.out /\ n = net[p][a]
        OBVIOUS
      <4>3. o = Append(gm[p].out, f) /\ gm[p].out = <<>> /\ o \in Seq(Frames) /\ n \in Seq(Frames)
        BY <1>2, <4>2 DEF Taps, Sane, Resting, Step, Sound, NetOk
      <4>4. f \in ToSet(o)
        <5>1. o = <<f>>
          BY <4>3
        <5>2. 1 \in 1..Len(o) /\ o[1] = f
          BY <5>1
        <5> o \in Seq(Frames)
          BY <4>3
        <5>3. ToSet(o) = {o[i] : i \in 1..Len(o)}
          BY SetOf
        <5> QED
          BY <5>2, <5>3
      <4>5. net'[p][a] = n \o o
        BY <1>2, <2>1, <2>7, <4>2
      <4>6. PICK v : v = n \o o
        OBVIOUS
      <4>7. f \in ToSet(v)
        <5>1. ToSet(n \o o) = ToSet(n) \cup ToSet(o)
          BY <4>3, SetOfConcat
        <5> QED
          BY <4>4, <4>6, <5>1
      <4> QED
        BY <2>1, <2>7, <4>1, <4>5, <4>6, <4>7 DEF Under
    <3> QED
      BY <3>3, <3>4, <3>5, <3>6, <3>7
  <2> QED
    BY <2>6, <2>7, <2>1
<1>3. CASE Alone(p, d, r) /\ (d \in Players => net'[p][d] = net[p][d] \o r.out)
  BY <1>1, <1>2, <1>3 DEF Alone
<1> QED
  BY <1>1, <1>3 DEF Step, Reading

\* Events at hand of p, who plays with b.
LEMMA AtHandOf ==
  ASSUME Sane, StreamInv, WithinWindow, NEW p \in Players, NEW b \in Players, Opponents(p, b)
  PROVE  /\ AtHand(gm[p], Played(played, gm[p].game, p))
         /\ Stores(gm[p], Played(played, gm[p].game, p))
         /\ \A e \in Played(played, gm[p].game, p) : e.seq \in Nat /\ e.seq < gm[b].outSeq
         /\ gm[p].game \in Games
<1>1. PICK m, n, g, T : m = gm[p] /\ n = gm[b] /\ g = gm[p].game /\ T = Played(played, g, p)
  OBVIOUS
<1>2. n.game = g /\ n.peer = p /\ m.peer = b /\ g # 0 /\ g \in 1..games /\ g \in Games
  BY <1>1, ConstantsAssumption DEF Opponents, Sane, Sound, Typed, Coherent, Games
<1>3. n.outSeq = Len(played[g][p]) /\ Stores(m, T)
  BY <1>1, <1>2 DEF StreamInv, Follows, Stores
<1>4. n.outSeq <= m.expectedSeq + MAX_BUFFERED
  BY <1>1 DEF WithinWindow
<1>5. m.expectedSeq \in Nat /\ n.outSeq \in Nat /\ MAX_BUFFERED \in Nat
  BY <1>1, ConstantsAssumption DEF Sane, Sound, Typed
<1>6. T \subseteq Plays /\ \A e \in T : e.seq \in Nat /\ e.seq < n.outSeq /\ played[g][p][e.seq + 1] = e
  BY <1>1, <1>3 DEF Played, Plays
<1>7. AtHand(m, T)
  BY <1>4, <1>5, <1>6 DEF AtHand
<1> QED
  BY <1>1, <1>2, <1>3, <1>6, <1>7

\* What the peer b of p sends is listened to.
LEMMA KeptTheirs ==
  ASSUME Sane, StreamInv, KeptInv, WithinWindow, NEW p \in Players, NEW d, NEW r, Step(p, d, r),
         NEW a \in Players \ {p}, Opponents(a, p)
  PROVE  Listens(gm[a], Under(net', p, a), Played(played', gm[a].game, a))
<1>1. PICK m, g, T, S, U, V : /\ m = gm[a] /\ g = gm[a].game
                              /\ T = Played(played, g, a) /\ S = Played(played', g, a)
                              /\ U = Under(net, p, a) /\ V = Under(net', p, a)
  OBVIOUS
<1>2. /\ Listens(m, U, T) /\ AtHand(m, T) /\ Stores(m, T) /\ g \in Games
      /\ \A e \in T : e.seq \in Nat /\ e.seq < gm[p].outSeq
  BY <1>1, AtHandOf DEF KeptInv
<1>3. U \subseteq V
  <2>1. CASE \A x, y \in Players : Under(net, x, y) \subseteq Under(net', x, y)
    BY <1>1, <2>1
  <2>2. ASSUME NEW q \in Players \ {p}, NEW f, NEW die, Reading(p, d, r, q, f, die)
        PROVE  U \subseteq V
    BY <1>1, <2>2 DEF Reading
  <2> QED
    BY <2>1, <2>2 DEF Step
<1>4. \A e \in S : e \in T \/ e \in V
  BY <1>1, <1>2, PlayedMore
<1>5. ASSUME NEW f \in V \cap S, NEW i \in 1..Len(m.openingQueue)
      PROVE  m.openingQueue[i].seq # f.seq
  <2>1. f.type = "PLAY" /\ f \in Plays /\ f.game = g /\ gm[p].outSeq \in Nat
    BY <1>1, <1>5 DEF Played, Plays, Sane, Sound, Typed
  <2>2. PICK e \in T : e = m.openingQueue[i]
    BY <1>2 DEF Stores
  <2>3. CASE f \notin U
    <3>1. f.seq = gm[p].outSeq
      BY <1>1, <1>5, <2>1, <2>3, SentPlays
    <3> QED
      BY <1>2, <2>1, <2>2, <3>1
  <2>4. CASE f \in U /\ f \in T
    BY <1>2, <2>4 DEF Listens
  <2>5. CASE f \in U /\ f \notin T
    <3>1. f \in Played(played, f.game, a)
      BY <1>1, <2>1, <2>5 DEF StreamInv, PlaysUnderWay
    <3> QED
      BY <1>1, <2>1, <2>5, <3>1
  <2> QED
    BY <2>3, <2>4, <2>5
<1>6. Listens(m, V, S)
  BY <1>2, <1>3, <1>4, <1>5 DEF Listens
<1> QED
  BY <1>1, <1>6

\* What p makes of the events of his peer b.
LEMMA KeptMine ==
  ASSUME Sane, StreamInv, StreamInv', OpeningInv, KeptInv, WithinWindow, NEW p \in Players, NEW d \in People \ {p}, NEW r,
         Step(p, d, r), NEW b \in Players \ {p}, Opponents(p, b), r.peer = b, r.game = gm[p].game
  PROVE  Listens(r, Under(net', b, p), Played(played', r.game, p))
<1>1. PICK m, g, T, S, U, V : /\ m = gm[p] /\ g = gm[p].game
                              /\ T = Played(played, g, p) /\ S = Played(played', g, p)
                              /\ U = Under(net, b, p) /\ V = Under(net', b, p)
  OBVIOUS
<1>2. /\ Listens(m, U, T) /\ AtHand(m, T) /\ Stores(m, T) /\ g \in Games /\ g # 0
      /\ \A e \in T : e.seq \in Nat /\ e.seq < gm[b].outSeq
      /\ m.state = "IDLE" => m.game = 0
  BY <1>1, AtHandOf DEF KeptInv, Sane, Sound, Coherent, Games
<1>3. V \subseteq U
  BY <1>1 DEF Step
<1>4. S \subseteq T
  <2>1. gm[p].peer # p
    BY DEF Opponents
  <2> QED
    BY <1>1, <1>2, <2>1, PlayedMore
<1>5. r.eventBuffer \subseteq T /\ r.openingQueue \in Seq(T)
  <2>1. PICK y : y = gm'[p]
    OBVIOUS
  <2>2. y.eventBuffer = r.eventBuffer /\ y.openingQueue = r.openingQueue /\ y.game = g
    BY <1>1, <2>1 DEF Step, Rested, Only, Fields
  <2>3. Follows(played', heard', p, y)
    BY <2>1 DEF StreamInv
  <2>4. r.eventBuffer \subseteq S /\ r.openingQueue \in Seq(S)
    BY <1>1, <2>2, <2>3 DEF Follows
  <2> QED
    BY <1>4, <2>4
<1>6. CASE Alone(p, d, r) /\ U \subseteq V
  <2>1. ~Proposes(gm[p], r, d, games + 1)
    BY <1>1, <1>2 DEF Proposes, Sane, Sound, Coherent
  <2>2. r.game # 0
    BY <1>1, <1>2
  <2>3. /\ r.expectedSeq = m.expectedSeq /\ r.eventBuffer = m.eventBuffer
        /\ r.openingQueue = m.openingQueue
    BY <1>1, <1>6, <2>1, <2>2, WaitsAlone
  <2>4. Listens(r, V, S)
    BY <1>2, <1>3, <1>4, <1>6, <2>3 DEF Listens, Waits
  <2> QED
    BY <1>1, <2>4
<1>7. ASSUME NEW q \in Players \ {p}, NEW f, NEW die, Reading(p, d, r, q, f, die)
      PROVE  Listens(r, V, S)
  <2>1. /\ f \in Under(net, q, p) /\ Handled(m, r, q, f, die, Plays)
        /\ \A e \in Under(net', q, p) : ~Twins(f, e)
        /\ \A e \in U : e \in V \/ (b = q /\ e = f)
    BY <1>1, <1>7 DEF Reading
  <2>2. /\ \A e \in T : Waits(m, e) => Waits(r, e)
        /\ \/ r.openingQueue \in {m.openingQueue, <<>>}
           \/ Queued(m, r, f) /\ Mine(m, q, f) /\ f.type = "PLAY"
        /\ /\ f \in T /\ Mine(m, q, f) /\ m.state \in {"OPENING", "ACTIVE"}
           /\ m.state = "OPENING" => Len(m.openingQueue) < MAX_BUFFERED
           => Waits(r, f)
    BY <1>1, <1>2, <1>5, <2>1, WaitsHandled
  <2>3. ASSUME b = q, f \in T PROVE Waits(r, f)
    <3>1. Mine(m, q, f)
      BY <1>1, <2>3 DEF Mine, Played, Opponents
    <3>2. gm[b].state = "ACTIVE"
      <4>1. gm[b].outSeq # 0
        BY <1>2, <2>3
      <4> QED
        BY <4>1 DEF Sane, Sound, Coherent
    <3>3. m.state \in {"OPENING", "ACTIVE"}
      <4>1. Opponents(b, p)
        BY DEF Opponents
      <4>2. Side(gm[b], gm[p], Under(net, p, b))
        BY <4>1 DEF OpeningInv
      <4> QED
        BY <1>1, <3>2, <4>2 DEF Side, Said, Known, InRound
    <3>4. ASSUME m.state = "OPENING" PROVE Len(m.openingQueue) < MAX_BUFFERED
      <4>1. m.expectedSeq = 0
        BY <1>1, <3>4 DEF Sane, Sound, Coherent
      <4>2. PICK n : n = gm[b].outSeq
        OBVIOUS
      <4>3. n \in Nat /\ n <= MAX_BUFFERED /\ MAX_BUFFERED \in Nat
        BY <1>1, <4>1, <4>2, ConstantsAssumption DEF WithinWindow, Sane, Sound, Typed
      <4>4. PICK s : s = m.openingQueue
        OBVIOUS
      <4>5. PICK k : k = f.seq
        OBVIOUS
      <4>6. s \in Seq(T) /\ s \in Seq(Plays) /\ T \subseteq Plays
        BY <1>2, <4>4 DEF Stores, AtHand
      <4>7. \A i, j \in 1..Len(s) : s[i].seq = s[j].seq => i = j
        BY <1>2, <4>4 DEF Listens
      <4>8. \A i \in 1..Len(s) : s[i].seq < n /\ s[i].seq # k
        <5>1. f \in U \cap T
          BY <1>1, <2>1, <2>3
        <5> QED
          BY <1>2, <4>2, <4>4, <4>5, <4>6, <5>1 DEF Listens
      <4>9. k \in 0..n-1
        BY <1>2, <2>3, <4>2, <4>3, <4>5
      <4>10. Len(s) < n
        BY <4>3, <4>6, <4>7, <4>8, <4>9, RoomLeft
      <4> QED
        BY <4>3, <4>4, <4>6, <4>10
    <3> QED
      BY <2>2, <2>3, <3>1, <3>3, <3>4
  <2>4. \A e \in S : e \in V \/ Waits(r, e)
    BY <1>2, <1>4, <2>1, <2>2, <2>3 DEF Listens
  <2>5. CASE r.openingQueue = m.openingQueue
    BY <1>2, <1>3, <1>4, <2>4, <2>5 DEF Listens
  <2>6. CASE r.openingQueue = <<>>
    <3>1. Len(r.openingQueue) = 0
      BY <2>6
    <3> QED
      BY <2>4, <3>1 DEF Listens
  <2>7. CASE Queued(m, r, f) /\ Mine(m, q, f) /\ f.type = "PLAY"
    <3>1. PICK s, t : s = m.openingQueue /\ t = r.openingQueue
      OBVIOUS
    <3>2. s \in Seq(T) /\ t = Append(s, f) /\ t \in Seq(T)
      BY <1>2, <1>5, <2>7, <3>1 DEF Queued, Stores
    <3>3. /\ Len(t) = Len(s) + 1 /\ Len(s) \in Nat /\ t[Len(s) + 1] = f
          /\ \A i \in 1..Len(s) : t[i] = s[i]
      BY <3>2
    <3>4. q = b /\ f \in T /\ f \in U
      <4>1. 1 \in Nat /\ Len(t) \in 1..Len(t)
        BY <3>3
      <4>2. t[Len(t)] \in T
        BY <3>2, <4>1
      <4>3. q = b
        BY <1>1, <2>7 DEF Mine, Opponents
      <4> QED
        BY <1>1, <2>1, <3>3, <4>2, <4>3
    <3>5. /\ \A i \in 1..Len(s) : s[i].seq # f.seq
          /\ \A i, j \in 1..Len(s) : s[i].seq = s[j].seq => i = j
          /\ \A e \in U \cap T : \A i \in 1..Len(s) : s[i].seq # e.seq
      BY <1>2, <3>1, <3>4 DEF Listens
    <3>6. \A i, j \in 1..Len(t) : t[i].seq = t[j].seq => i = j
      <4> SUFFICES ASSUME NEW i \in 1..Len(t), NEW j \in 1..Len(t), t[i].seq = t[j].seq
                   PROVE  i = j
        OBVIOUS
      <4>1. (i \in 1..Len(s) \/ i = Len(s) + 1) /\ (j \in 1..Len(s) \/ j = Len(s) + 1)
        BY <3>3
      <4> QED
        BY <3>3, <3>5, <4>1
    <3>7. ASSUME NEW e \in V \cap S, NEW i \in 1..Len(t) PROVE t[i].seq # e.seq
      <4>1. e \in U /\ e \in T /\ e.type = "PLAY" /\ e.game = f.game
        <5>1. e.type = "PLAY" /\ e.game = g /\ f.game = g
          BY <1>1, <3>4, <3>7 DEF Played, Plays
        <5> QED
          BY <1>3, <1>4, <3>7, <5>1
      <4>2. ~Twins(f, e)
        BY <1>1, <2>1, <3>4, <3>7
      <4>3. e.seq # f.seq
        BY <2>7, <4>1, <4>2 DEF Twins
      <4>4. i \in 1..Len(s) \/ i = Len(s) + 1
        BY <3>3
      <4> QED
        BY <3>3, <3>5, <4>1, <4>3, <4>4
    <3> QED
      BY <2>4, <3>1, <3>6, <3>7 DEF Listens
  <2>8. \/ r.openingQueue = m.openingQueue \/ r.openingQueue = <<>>
        \/ Queued(m, r, f) /\ Mine(m, q, f) /\ f.type = "PLAY"
    BY <2>2
  <2> QED
    BY <2>5, <2>6, <2>7, <2>8
<1> QED
  BY <1>1, <1>6, <1>7 DEF Step

LEMMA ListensNone ==
  ASSUME NEW m, m.openingQueue = <<>>, NEW U, NEW T, \A e \in T : FALSE
  PROVE  Listens(m, U, T)
<1>1. Len(m.openingQueue) = 0
  OBVIOUS
<1> QED
  BY <1>1 DEF Listens

\* Nothing was played when a player is invited.
LEMMA KeptInvited ==
  ASSUME Sane, StreamInv, Fresh, NEW p \in Players, NEW r, NEW q \in Players \ {p},
         NEW f \in Under(net, q, p), f.type = "INVITE", Invited(gm[p], r, q, f.game),
         Rested(r, gm'[p]), gm'[q] = gm[q], Opponents(p, q)', played' = played
  PROVE  /\ Listens(gm'[p], Under(net', q, p), Played(played', gm'[p].game, p))
         /\ Listens(gm'[q], Under(net', p, q), Played(played', gm'[q].game, q))
<1>1. PICK m, y, n, g : m = gm[p] /\ y = gm'[p] /\ n = gm[q] /\ g = f.game
  OBVIOUS
<1>2. /\ m.state = "IDLE" /\ y.game = g /\ y.peer = q
      /\ y.openingQueue = m.openingQueue
  BY <1>1 DEF Invited, Rested, Only, Fields
<1>3. n.game = g /\ n.peer = p
  BY <1>1, <1>2 DEF Opponents
<1>4. g \in Games /\ g # 0 /\ Asks(net, q, p, g)
  BY <1>1, UnderIs DEF Asks
<1>5. n.state = "INVITING" /\ played[g][q] = <<>>
  BY <1>1, <1>3, <1>4 DEF Fresh
<1>6. m.openingQueue = <<>> /\ n.openingQueue = <<>> /\ n.outSeq = 0
  BY <1>1, <1>2, <1>5 DEF Sane, Sound, Coherent
<1>7. Len(played[g][p]) = 0
  BY <1>1, <1>3, <1>4, <1>6 DEF StreamInv, Follows
<1>8. Len(played[g][q]) = 0
  BY <1>5
<1>9. /\ \A e \in Played(played, g, p) : FALSE
      /\ \A e \in Played(played, g, q) : FALSE
  BY <1>7, <1>8 DEF Played, Plays
<1>10. Listens(y, Under(net', q, p), Played(played, g, p))
  BY <1>2, <1>6, <1>9, ListensNone
<1>11. Listens(n, Under(net', p, q), Played(played, g, q))
  BY <1>6, <1>9, ListensNone
<1> QED
  BY <1>1, <1>2, <1>3, <1>10, <1>11

\* Others are left alone.
LEMMA KeptOthers ==
  ASSUME Sane, StreamInv, KeptInv, WithinWindow, NEW p \in Players, NEW d, NEW r, Step(p, d, r),
         NEW a \in Players \ {p}, NEW b \in Players \ {p}, Opponents(a, b)
  PROVE  Listens(gm[a], Under(net', b, a), Played(played', gm[a].game, a))
<1>1. PICK m, g, T, S, U, V : /\ m = gm[a] /\ g = gm[a].game
                              /\ T = Played(played, g, a) /\ S = Played(played', g, a)
                              /\ U = Under(net, b, a) /\ V = Under(net', b, a)
  OBVIOUS
<1>2. Listens(m, U, T) /\ g \in Games
  BY <1>1, AtHandOf DEF KeptInv
<1>3. U \subseteq V
  <2>1. CASE \A x, y \in Players : Under(net, x, y) \subseteq Under(net', x, y)
    BY <1>1, <2>1
  <2>2. ASSUME NEW q \in Players \ {p}, NEW f, NEW die, Reading(p, d, r, q, f, die)
        PROVE  U \subseteq V
    BY <1>1, <2>2 DEF Reading
  <2> QED
    BY <2>1, <2>2 DEF Step
<1>4. V \subseteq U
  BY <1>1 DEF Step
<1>5. S \subseteq T
  <2> SUFFICES ASSUME NEW e \in S, e \notin T PROVE FALSE
    OBVIOUS
  <2>1. g = gm[p].game /\ a = gm[p].peer
    BY <1>1, <1>2, PlayedMore
  <2>2. Claim(gm, net, g, p, a) /\ Claim(gm, net, g, a, b)
    BY <1>1, <2>1 DEF Claim, Opponents
  <2>3. <<a, b>> \in {<<p, a>>, <<a, p>>}
    BY <1>2, <2>2 DEF StreamInv, Paired
  <2> QED
    BY <2>3
<1>6. Listens(m, V, S)
  BY <1>2, <1>3, <1>4, <1>5 DEF Listens
<1> QED
  BY <1>1, <1>6

LEMMA KeptStep ==
  ASSUME Sane, StreamInv, StreamInv', Fresh, OpeningInv, KeptInv, WithinWindow,
         NEW p \in Players, NEW d \in People \ {p}, NEW r, Step(p, d, r)
  PROVE  KeptInv'
<1>1. PICK y : y = gm'[p]
  OBVIOUS
<1>2. /\ y.peer = r.peer /\ y.game = r.game /\ Rested(r, y)
      /\ y.openingQueue = r.openingQueue /\ y.expectedSeq = r.expectedSeq
      /\ y.eventBuffer = r.eventBuffer
      /\ \A x \in Players \ {p} : gm'[x] = gm[x]
      /\ r.peer # p
  BY <1>1 DEF Step, Rested, Only, Fields, Sound, Typed
<1>3. \/ Tame(gm[p].game, gm[p].peer, r)
      \/ Alone(p, d, r) /\ Proposes(gm[p], r, d, games + 1)
      \/ \E q \in Players \ {p} : \E f \in Under(net, q, p) :
           f.type = "INVITE" /\ Invited(gm[p], r, q, f.game) /\ played' = played
  <2>1. CASE Alone(p, d, r)
    BY <2>1, TameAlone
  <2>2. ASSUME NEW q \in Players \ {p}, NEW f, NEW die, Reading(p, d, r, q, f, die)
        PROVE  \/ Tame(gm[p].game, gm[p].peer, r)
               \/ f.type = "INVITE" /\ Invited(gm[p], r, q, f.game) /\ played' = played
                  /\ f \in Under(net, q, p)
    <3>1. PICK m, G : m = gm[p] /\ G = 1..games
      OBVIOUS
    <3>2. G \in SUBSET (Nat \ {0}) /\ Sound(p, m, G) /\ m.out = <<>>
      BY <3>1 DEF Sane, Resting
    <3>3. /\ die \in Nat /\ Handled(m, r, q, f, die, Plays) /\ played' = played
          /\ f \in Under(net, q, p)
      BY <2>2, <3>1, DiceNat DEF Reading
    <3> QED
      BY <3>1, <3>2, <3>3, TameHandled
  <2> QED
    BY <2>1, <2>2 DEF Step
<1>4. ASSUME NEW a \in Players, NEW b \in Players, Opponents(a, b)'
      PROVE  Listens(gm'[a], Under(net', b, a), Played(played', gm'[a].game, a))
  <2>1. gm'[a].peer = b /\ gm'[b].peer = a /\ gm'[a].game = gm'[b].game
    BY <1>4 DEF Opponents
  <2>2. CASE a # p /\ b # p
    <3>1. gm'[a] = gm[a] /\ gm'[b] = gm[b] /\ Opponents(a, b)
      BY <1>2, <2>1, <2>2 DEF Opponents
    <3> QED
      BY <2>2, <3>1, KeptOthers
  <2>3. ASSUME NEW c \in Players \ {p}, Opponents(p, c)'
        PROVE  \/ Opponents(p, c) /\ r.peer = c /\ r.game = gm[p].game
               \/ /\ Listens(gm'[p], Under(net', c, p), Played(played', gm'[p].game, p))
                  /\ Listens(gm'[c], Under(net', p, c), Played(played', gm'[c].game, c))
    <3>1. gm'[c] = gm[c] /\ r.peer = c /\ gm[c].peer = p /\ r.game = gm[c].game
      BY <1>1, <1>2, <2>3 DEF Opponents
    <3>2. gm[c].game # 0 /\ gm[c].game <= games /\ games \in Nat
      BY <3>1, ConstantsAssumption DEF Sane, Sound, Typed, Coherent
    <3>3. CASE Tame(gm[p].game, gm[p].peer, r)
      <4>1. r.game = gm[p].game /\ r.peer = gm[p].peer
        BY <3>1, <3>2, <3>3 DEF Tame
      <4> QED
        BY <3>1, <4>1 DEF Opponents
    <3>4. CASE Proposes(gm[p], r, d, games + 1)
      BY <3>1, <3>2, <3>4 DEF Proposes
    <3>5. ASSUME NEW q \in Players \ {p}, NEW f \in Under(net, q, p), f.type = "INVITE",
                 Invited(gm[p], r, q, f.game), played' = played
          PROVE  /\ Listens(gm'[p], Under(net', c, p), Played(played', gm'[p].game, p))
                 /\ Listens(gm'[c], Under(net', p, c), Played(played', gm'[c].game, c))
      <4>1. q = c
        BY <3>1, <3>5 DEF Invited
      <4>2. Rested(r, gm'[p])
        BY <1>1, <1>2
      <4> QED
        BY <2>3, <3>1, <3>5, <4>1, <4>2, KeptInvited
    <3> QED
      BY <1>3, <3>3, <3>4, <3>5
  <2>4. CASE a = p
    <3>1. b \in Players \ {p} /\ Opponents(p, b)'
      BY <1>1, <1>2, <1>4, <2>1, <2>4
    <3>2. ASSUME Opponents(p, b), r.peer = b, r.game = gm[p].game
          PROVE  Listens(gm'[a], Under(net', b, a), Played(played', gm'[a].game, a))
      <4>1. Listens(r, Under(net', b, p), Played(played', r.game, p))
        BY <3>1, <3>2, KeptMine
      <4>2. Listens(y, Under(net', b, p), Played(played', r.game, p))
        BY <1>2, <4>1 DEF Listens, Waits
      <4> QED
        BY <1>1, <1>2, <2>4, <4>2
    <3> QED
      BY <2>3, <2>4, <3>1, <3>2
  <2>5. CASE b = p
    <3>1. a \in Players \ {p} /\ Opponents(p, a)' /\ gm'[a] = gm[a]
      BY <1>1, <1>2, <2>1, <2>5 DEF Opponents
    <3>2. ASSUME Opponents(p, a)
          PROVE  Listens(gm'[a], Under(net', b, a), Played(played', gm'[a].game, a))
      <4>1. Opponents(a, p)
        BY <3>2 DEF Opponents
      <4> QED
        BY <2>5, <3>1, <4>1, KeptTheirs
    <3> QED
      BY <2>3, <2>5, <3>1, <3>2
  <2> QED
    BY <2>2, <2>4, <2>5
<1> QED
  BY <1>4 DEF KeptInv

\* The i-th event of a game has the number i - 1.
Numbered ==
  \A g \in Games, p \in Players : \A i \in 1..Len(played[g][p]) :
    played[g][p][i].game = g /\ played[g][p][i].seq = i - 1

LEMMA NumberedStep ==
  ASSUME StreamInv, Numbered, StreamMoves
  PROVE  Numbered'
<1>1. CASE played' = played
  BY <1>1 DEF Numbered
<1>2. ASSUME NEW h \in Games, NEW b \in Players, NEW f \in Plays,
             played' = [played EXCEPT ![h][b] = Append(@, f)],
             f.game = h, f.seq = Len(played[h][b])
      PROVE  Numbered'
  <2>1. PICK P, W : P = played /\ W = played'
    OBVIOUS
  <2>2. P \in Histories
    BY <2>1 DEF StreamInv, Story
  <2>3. W = [P EXCEPT ![h][b] = Append(P[h][b], f)]
    BY <1>2, <2>1
  <2>4. ASSUME NEW g \in Games, NEW p \in Players, NEW i \in 1..Len(W[g][p])
        PROVE  W[g][p][i].game = g /\ W[g][p][i].seq = i - 1
    <3>1. CASE ~(g = h /\ p = b)
      <4>1. W[g][p] = P[g][p]
        BY <2>2, <2>3, <3>1 DEF Histories
      <4> QED
        BY <2>1, <4>1 DEF Numbered
    <3>2. CASE g = h /\ p = b
      <4>1. PICK s, t : s = P[g][p] /\ t = Append(s, f)
        OBVIOUS
      <4>2. W[g][p] = t /\ s \in Seq(Plays)
        BY <2>2, <2>3, <3>2, <4>1 DEF Histories
      <4>3. /\ Len(t) = Len(s) + 1 /\ t[Len(s) + 1] = f /\ Len(s) \in Nat
            /\ \A j \in 1..Len(s) : t[j] = s[j]
        BY <4>1, <4>2
      <4>4. f.game = g /\ f.seq = Len(s)
        BY <1>2, <2>1, <3>2, <4>1
      <4>5. \A j \in 1..Len(s) : s[j].game = g /\ s[j].seq = j - 1
        BY <2>1, <4>1 DEF Numbered
      <4>6. i \in 1..Len(s) \/ i = Len(s) + 1
        BY <4>2, <4>3
      <4>7. t[i].game = g /\ t[i].seq = i - 1
        BY <4>3, <4>4, <4>5, <4>6
      <4> QED
        BY <4>2, <4>7
    <3> QED
      BY <3>1, <3>2
  <2> QED
    BY <2>1, <2>4 DEF Numbered
<1> QED
  BY <1>1, <1>2 DEF StreamMoves

LEMMA KeptAlways ==
  ASSUME MaxRepeats = 0
  PROVE  Spec /\ []WithinWindow => [](OnceInv /\ OpeningInv /\ KeptInv /\ Numbered)
<1>1. ASSUME Init PROVE KeptInv /\ Numbered
  <2>1. \A a, b \in Players : ~Opponents(a, b)
    <3>1. \A a \in Players : gm[a].peer = Nobody
      BY <1>1 DEF Init, Idle
    <3> QED
      BY <3>1, ConstantsAssumption DEF Opponents
  <2>2. \A g \in Games, p \in Players : Len(played[g][p]) = 0
    BY <1>1 DEF Init
  <2> QED
    BY <2>1, <2>2 DEF KeptInv, Numbered
<1>2. ASSUME UNCHANGED vars
      PROVE  (KeptInv => KeptInv') /\ (Numbered => Numbered')
  <2>1. KeptInv => KeptInv'
    BY <1>2 DEF vars, KeptInv, Opponents, Under
  <2>2. Numbered => Numbered'
    BY <1>2 DEF vars, Numbered
  <2> QED
    BY <2>1, <2>2
<1>3. ASSUME OnceInv, OnceInv', OpeningInv, KeptInv, WithinWindow, Numbered, Next
      PROVE  KeptInv' /\ Numbered'
  <2>1. PICK p \in Players : \E d \in People \ {p} : \E r : Step(p, d, r)
    BY <1>3, OnceStep
  <2>2. FreshInvites
    BY <1>3, OnceStep
  <2>3. KeptInv'
    BY <1>3, <2>1, KeptStep DEF OnceInv
  <2>4. StreamMoves
    BY <1>3, <2>2, StreamStep DEF OnceInv
  <2>5. Numbered'
    BY <1>3, <2>4, NumberedStep DEF OnceInv
  <2> QED
    BY <2>3, <2>5
<1>4. Init => KeptInv /\ Numbered
  BY <1>1
<1>5. /\ OnceInv /\ OnceInv' /\ OpeningInv /\ WithinWindow /\ KeptInv /\ Numbered /\ [Next]_vars
      => KeptInv' /\ Numbered'
  BY <1>2, <1>3
<1>6. Spec => [](OnceInv /\ OpeningInv)
  BY OpeningAlways
<1> QED
  BY <1>4, <1>5, <1>6, PTL DEF Spec

\* Two players of a game who have no frame under way have heard everything: an
\* event that the board of p did not get would wait in his buffer, and the
\* awaited one does not.
LEMMA NothingLost ==
  ASSUME OnceInv, KeptInv, Numbered, NEW p \in Players, NEW q \in Players, Opponents(p, q),
         gm[p].state = "ACTIVE", Quiet(p, q)
  PROVE  heard[gm[p].game][p] = played[gm[p].game][p]
<1>1. PICK m, g, H, P : m = gm[p] /\ g = gm[p].game /\ H = heard[g][p] /\ P = played[g][p]
  OBVIOUS
<1>2. /\ g \in Games /\ g # 0 /\ m.openingQueue = <<>> /\ Settled(m)
  BY <1>1, ConstantsAssumption DEF OnceInv, Sane, Sound, Coherent, Games, Window
<1>3. H \in Seq(Plays) /\ P \in Seq(Plays) /\ Begins(H, P) /\ m.expectedSeq = Len(H)
  BY <1>1, <1>2 DEF OnceInv, StreamInv, Story, Histories, Follows
<1>4. ASSUME Len(H) < Len(P) PROVE FALSE
  <2>1. PICK e : e = P[Len(H) + 1]
    OBVIOUS
  <2>2. Len(H) + 1 \in 1..Len(P)
    BY <1>3, <1>4
  <2>3. e \in Plays /\ e.game = g /\ e.seq = Len(H)
    <3>1. e \in Plays
      BY <1>3, <2>1, <2>2
    <3>2. \A i \in 1..Len(P) : P[i].game = g /\ P[i].seq = i - 1
      BY <1>1, <1>2 DEF Numbered
    <3>3. e.game = g /\ e.seq = Len(H) + 1 - 1
      BY <2>1, <2>2, <3>2
    <3> QED
      BY <1>3, <3>1, <3>3
  <2>4. e \in Played(played, g, p)
    BY <1>1, <1>2, <1>4, <2>1, <2>3 DEF Played
  <2>5. Listens(m, Under(net, q, p), Played(played, g, p))
    BY <1>1 DEF KeptInv
  <2>6. e \notin Under(net, q, p)
    <3>1. net[q][p] = <<>>
      BY DEF Quiet
    <3> QED
      BY <3>1, EmptySet DEF Under
  <2>7. e \notin ToSet(m.openingQueue)
    BY <1>2, EmptySet
  <2>8. e \in m.eventBuffer
    BY <1>3, <2>3, <2>4, <2>5, <2>6, <2>7 DEF Listens, Waits
  <2> QED
    BY <1>2, <1>3, <2>3, <2>8 DEF Settled
<1>5. Len(H) = Len(P) /\ \A i \in 1..Len(H) : H[i] = P[i]
  BY <1>3, <1>4 DEF Begins
<1>6. H = P
  BY <1>3, <1>5
<1> QED
  BY <1>1, <1>6

\* Nothing is lost either: two players of a game who have no frame under way
\* have heard everything, however the tunnel reorders frames, as long as no
\* player gets further ahead of his peer than the window of early events.
THEOREM EverythingHeard == MaxRepeats = 0 => (Spec /\ []WithinWindow => []HeardAll)
<1> SUFFICES ASSUME MaxRepeats = 0 PROVE Spec /\ []WithinWindow => []HeardAll
  OBVIOUS
<1>1. OnceInv /\ KeptInv /\ Numbered => HeardAll
  BY NothingLost DEF HeardAll
<1>2. Spec /\ []WithinWindow => [](OnceInv /\ OpeningInv /\ KeptInv /\ Numbered)
  BY KeptAlways
<1> QED
  BY <1>1, <1>2, PTL


-----------------------------------------------------------------------------
(* With a screen that is up when frames are read, the two boards differ only *)
(* by the events of one turn that are still on their way.                    *)

\* A game that goes on has its screen, and a board that no die was rolled on.
OnScreen(m) ==
  /\ m.state = "OPENING" => m.screen # "none" /\ m.dice = FALSE
  /\ m.state = "ACTIVE" => m.screen = "open"
Screens == \A p \in Players : OnScreen(gm[p])

\* The turn and the roll that m sees, or will see, in a game with n.
ViewTurn(m, n) == IF m.state = "ACTIVE" THEN m.turn ELSE n.first
ViewDice(m) == m.state = "ACTIVE" /\ m.dice

\* P are the events sent to m, W those to n: m has still to get events of a turn
\* of n, who has all of W.
Behind(m, n, P, W) ==
  /\ ViewTurn(m, n) = n.me /\ n.expectedSeq = Len(W)
  /\ \A i \in m.expectedSeq + 1 .. Len(P) :
       /\ P[i].kind = "MOVE" <=> i > m.expectedSeq + 1 \/ ViewDice(m)
       /\ i < Len(P) => ~P[i].last
  /\ n.turn = IF P[Len(P)].last THEN m.me ELSE n.me
  /\ n.dice = ~P[Len(P)].last
Level(m, n) == n.turn = ViewTurn(m, n) /\ n.dice = ViewDice(m)
Sync(m, n, P, W) ==
  /\ m.expectedSeq < Len(P) => Behind(m, n, P, W)
  /\ m.expectedSeq = Len(P) /\ n.expectedSeq = Len(W) => Level(m, n)
Synced(m, n, P, W) == n.state = "ACTIVE" => InRound(m) /\ Sync(m, n, P, W)
SyncInv ==
  \A p, q \in Players : Opponents(p, q) =>
    Synced(gm[p], gm[q], played[gm[p].game][p], played[gm[p].game][q])

\* Records that show the same.
SameView(m, r) ==
  /\ r.me = m.me /\ r.state = m.state /\ r.turn = m.turn /\ r.dice = m.dice
  /\ r.first = m.first /\ r.expectedSeq = m.expectedSeq

LEMMA SyncSame ==
  ASSUME NEW m, NEW n, NEW P, NEW W, Synced(m, n, P, W),
         NEW r, NEW s, SameView(m, r), SameView(n, s)
  PROVE  Synced(r, s, P, W)
<1>1. /\ ViewTurn(r, s) = ViewTurn(m, n) /\ ViewDice(r) = ViewDice(m)
      /\ InRound(r) = InRound(m) /\ r.expectedSeq = m.expectedSeq /\ r.me = m.me
      /\ s.expectedSeq = n.expectedSeq /\ s.turn = n.turn /\ s.dice = n.dice /\ s.me = n.me
      /\ s.state = n.state
  BY DEF SameView, ViewTurn, ViewDice, InRound
<1>2. Behind(r, s, P, W) = Behind(m, n, P, W)
  BY <1>1 DEF Behind
<1>3. Level(r, s) = Level(m, n)
  BY <1>1 DEF Level
<1> QED
  BY <1>1, <1>2, <1>3 DEF Synced, Sync

\* An event that n makes in his turn, which m has still to get.
LEMMA SyncTap ==
  ASSUME NEW m, NEW n, NEW P \in Seq(Plays), NEW W, Sync(m, n, P, W), m.expectedSeq \in Nat,
         m.expectedSeq <= Len(P), n.expectedSeq = Len(W), n.turn = n.me, m.me # n.me,
         n.peer = m.me, n.dice \in BOOLEAN, NEW last \in BOOLEAN, NEW f \in Plays, f.last = last,
         f.kind = IF n.dice THEN "MOVE" ELSE "ROLL",
         NEW r, r.me = n.me, r.expectedSeq = n.expectedSeq, r.first = n.first, r.dice = ~last,
         r.turn = IF last THEN n.peer ELSE n.me
  PROVE  Sync(m, r, Append(P, f), W)
<1>1. PICK Q : Q = Append(P, f)
  OBVIOUS
<1>2. PICK k, c : k = m.expectedSeq /\ c = Len(P)
  OBVIOUS
<1>3. /\ k \in Nat /\ c \in Nat /\ k <= c /\ Len(Q) = c + 1 /\ Q[c + 1] = f
      /\ \A i \in 1..c : Q[i] = P[i]
  BY <1>1, <1>2
<1>4. ViewTurn(m, r) = ViewTurn(m, n)
  BY DEF ViewTurn
<1>5. CASE k = c
  <2>1. ViewTurn(m, n) = n.me /\ n.dice = ViewDice(m)
    BY <1>2, <1>5 DEF Sync, Level
  <2>2. f.kind = "MOVE" <=> ViewDice(m)
    BY <2>1
  <2>3. ASSUME NEW i \in k + 1 .. Len(Q)
        PROVE  (Q[i].kind = "MOVE" <=> i > k + 1 \/ ViewDice(m)) /\ (i < Len(Q) => ~Q[i].last)
    <3>1. i = k + 1 /\ i = c + 1 /\ ~(i < Len(Q)) /\ ~(i > k + 1) /\ Q[i] = f
      BY <1>3, <1>5
    <3> QED
      BY <2>2, <3>1
  <2>4. Behind(m, r, Q, W)
    BY <1>2, <1>3, <1>4, <2>1, <2>3 DEF Behind
  <2> QED
    BY <1>1, <1>2, <1>3, <2>4 DEF Sync
<1>6. CASE k < c
  <2>1. Behind(m, n, P, W)
    BY <1>2, <1>6 DEF Sync
  <2>2. ~P[c].last
    <3>1. n.turn = IF P[c].last THEN m.me ELSE n.me
      BY <1>2, <2>1 DEF Behind
    <3> QED
      BY <3>1
  <2>3. n.dice = TRUE
    <3>1. n.dice = ~P[c].last
      BY <1>2, <2>1 DEF Behind
    <3> QED
      BY <2>2, <3>1
  <2>4. f.kind = "MOVE"
    BY <2>3
  <2>5. \A i \in k + 1 .. c :
          (P[i].kind = "MOVE" <=> i > k + 1 \/ ViewDice(m)) /\ (i < c => ~P[i].last)
    BY <1>2, <2>1, Zenon DEF Behind
  <2>6. ASSUME NEW i \in k + 1 .. Len(Q)
        PROVE  (Q[i].kind = "MOVE" <=> i > k + 1 \/ ViewDice(m)) /\ (i < Len(Q) => ~Q[i].last)
    <3>1. CASE i = c + 1
      <4>1. i > k + 1 /\ ~(i < Len(Q)) /\ Q[i] = f
        BY <1>3, <1>6, <3>1
      <4> QED
        BY <2>4, <4>1
    <3>2. CASE i \in k + 1 .. c
      <4>1. Q[i] = P[i] /\ (i < c \/ i = c)
        BY <1>3, <3>2
      <4>2. ~P[i].last
        BY <2>2, <2>5, <3>2, <4>1
      <4>3. P[i].kind = "MOVE" <=> i > k + 1 \/ ViewDice(m)
        BY <2>5, <3>2
      <4> QED
        BY <4>1, <4>2, <4>3
    <3> QED
      BY <1>3, <3>1, <3>2
  <2>7. ViewTurn(m, n) = n.me
    BY <2>1 DEF Behind
  <2>8. Behind(m, r, Q, W)
    BY <1>2, <1>3, <1>4, <2>6, <2>7 DEF Behind
  <2> QED
    BY <1>1, <1>2, <1>3, <2>8 DEF Sync
<1> QED
  BY <1>3, <1>5, <1>6

\* The board of m gets the next events, of a turn of n.
LEMMA SyncHeeds ==
  ASSUME NEW m, NEW n, NEW P \in Seq(Plays), NEW W, Sync(m, n, P, W), m.expectedSeq \in Nat,
         m.expectedSeq <= Len(P), m.state = "ACTIVE", m.screen = "open", m.peer = n.me,
         m.dice \in BOOLEAN, NEW r, Boarded(m, r), r.me = m.me, r.state = "ACTIVE", r.first = m.first,
         r.given \in Seq(Plays), r.expectedSeq = m.expectedSeq + Len(r.given),
         \A i \in 1..Len(r.given) :
           m.expectedSeq + i <= Len(P) /\ r.given[i] = P[m.expectedSeq + i]
  PROVE  Sync(r, n, P, W) /\ (r.given # <<>> => n.expectedSeq = Len(W))
<1>1. PICK k, c, o, l : k = m.expectedSeq /\ c = Len(P) /\ o = r.given /\ l = Len(o)
  OBVIOUS
<1>2. /\ k \in Nat /\ c \in Nat /\ k <= c /\ l \in Nat /\ r.expectedSeq = k + l
      /\ o = <<>> <=> l = 0
      /\ \A i \in 1..l : k + i <= c /\ o[i] = P[k + i]
  BY <1>1
<1>3. CASE l = 0
  <2>1. r.turn = m.turn /\ r.dice = m.dice /\ r.expectedSeq = m.expectedSeq
    BY <1>1, <1>2, <1>3 DEF Boarded
  <2>2. /\ ViewTurn(r, n) = ViewTurn(m, n) /\ ViewDice(r) = ViewDice(m)
    BY <2>1 DEF ViewTurn, ViewDice
  <2>3. Behind(r, n, P, W) = Behind(m, n, P, W)
    BY <2>1, <2>2 DEF Behind
  <2>4. Level(r, n) = Level(m, n)
    BY <2>2 DEF Level
  <2> QED
    BY <1>1, <1>2, <1>3, <2>1, <2>3, <2>4 DEF Sync
<1>4. CASE l # 0
  <2>1. l \in 1..l /\ k + l <= c /\ o[l] = P[k + l] /\ k < c
    BY <1>2, <1>4
  <2>2. Behind(m, n, P, W)
    BY <1>1, <2>1 DEF Sync
  <2>3. m.turn = n.me /\ n.expectedSeq = Len(W) /\ ViewDice(m) = m.dice
    BY <2>2 DEF Behind, ViewTurn, ViewDice
  <2>4. \A i \in k + 1 .. c :
          (P[i].kind = "MOVE" <=> i > k + 1 \/ m.dice) /\ (i < c => ~P[i].last)
    <3>1. \A i \in k + 1 .. c :
            (P[i].kind = "MOVE" <=> i > k + 1 \/ ViewDice(m)) /\ (i < c => ~P[i].last)
      BY <1>1, <2>2, Zenon DEF Behind
    <3> QED
      BY <2>3, <3>1, Zenon
  <2>5. ASSUME NEW i \in 1..l
        PROVE  (o[i].kind = "MOVE" <=> i > 1 \/ m.dice) /\ (i < l => ~o[i].last)
    <3>1. PICK j : j = k + i
      OBVIOUS
    <3>2. /\ j \in k + 1 .. c /\ o[i] = P[j] /\ (j > k + 1 <=> i > 1) /\ (i < l => j < c)
      BY <1>2, <2>1, <3>1
    <3>3. (P[j].kind = "MOVE" <=> j > k + 1 \/ m.dice) /\ (j < c => ~P[j].last)
      BY <2>4, <3>2
    <3> QED
      BY <3>2, <3>3
  <2>6. InTurn(m.dice, o)
    <3>1. l = Len(o)
      BY <1>1
    <3>2. ASSUME NEW i \in 1..Len(o)
          PROVE  (o[i].kind = "MOVE" <=> i > 1 \/ m.dice) /\ (i < Len(o) => ~o[i].last)
      BY <2>5, <3>1, Zenon
    <3> QED
      BY <3>2, Zenon DEF InTurn
  <2>7. r.dice = ~o[l].last /\ r.turn = IF o[l].last THEN m.me ELSE m.turn
    BY <1>1, <1>2, <1>4, <2>3, <2>6 DEF Boarded
  <2>8. ViewTurn(r, n) = r.turn /\ ViewDice(r) = r.dice
    <3>1. r.dice \in BOOLEAN
      BY <2>7
    <3> QED
      BY <3>1 DEF ViewTurn, ViewDice
  <2>9. CASE k + l < c
    <3>1. ~P[k + l].last
      <4>1. k + l \in k + 1 .. c
        BY <1>2, <1>4, <2>1
      <4> QED
        BY <2>4, <2>9, <4>1
    <3>2. r.dice = TRUE /\ r.turn = n.me
      BY <2>1, <2>3, <2>7, <3>1
    <3>3. ASSUME NEW i \in k + l + 1 .. c
          PROVE  (P[i].kind = "MOVE" <=> i > k + l + 1 \/ ViewDice(r)) /\ (i < c => ~P[i].last)
      <4>1. i \in k + 1 .. c /\ i > k + 1
        BY <1>2, <1>4
      <4>2. P[i].kind = "MOVE" /\ (i < c => ~P[i].last)
        BY <2>4, <4>1
      <4> QED
        BY <2>8, <3>2, <4>2
    <3>4. Behind(r, n, P, W)
      <4>1. n.turn = IF P[c].last THEN m.me ELSE n.me
        BY <1>1, <2>2 DEF Behind
      <4>2. n.dice = ~P[c].last
        BY <1>1, <2>2 DEF Behind
      <4> QED
        BY <1>1, <1>2, <2>3, <2>8, <3>2, <3>3, <4>1, <4>2 DEF Behind
    <3> QED
      BY <1>1, <1>2, <2>3, <2>9, <3>4 DEF Sync
  <2>10. CASE k + l = c
    <3>1. n.turn = IF P[c].last THEN m.me ELSE n.me
      BY <1>1, <2>2 DEF Behind
    <3>2. n.dice = ~P[c].last
      BY <1>1, <2>2 DEF Behind
    <3>3. o[l] = P[c]
      BY <2>1, <2>10
    <3>4. Level(r, n)
      BY <2>3, <2>7, <2>8, <3>1, <3>2, <3>3 DEF Level
    <3> QED
      BY <1>1, <1>2, <2>3, <2>10, <3>4 DEF Sync
  <2> QED
    BY <1>2, <2>1, <2>9, <2>10
<1> QED
  BY <1>3, <1>4

\* The other way round, for n who has all of W.
LEMMA SyncBack ==
  ASSUME NEW r, NEW n, NEW P, NEW W, Sync(r, n, P, W), r.state = "ACTIVE", n.state = "ACTIVE",
         n.expectedSeq = Len(W), Len(W) \in Nat, r.dice \in BOOLEAN, n.dice \in BOOLEAN
  PROVE  Sync(n, r, W, P)
<1>1. ~(n.expectedSeq < Len(W))
  OBVIOUS
<1>2. ASSUME r.expectedSeq = Len(P) PROVE Level(n, r)
  <2>1. Level(r, n)
    BY <1>2 DEF Sync
  <2> QED
    BY <2>1 DEF Level, ViewTurn, ViewDice
<1> QED
  BY <1>1, <1>2 DEF Sync

\* A handler under a screen that is up keeps it up.
LEMMA OnScreenRevealed ==
  ASSUME NEW m, OnScreen(m), m.state = "OPENING", m.screen # "starting",
         m.screen \in {"none", "starting", "open"},
         NEW roll, NEW die, NEW E, NEW r, Revealed(m, r, roll, die, E)
  PROVE  OnScreen(r)
<1>1. CASE Early(m, r, roll) \/ Tied(m, r, roll, die)
  BY <1>1 DEF Early, Tied, Only, Fields, RollFields, OnScreen
<1>2. CASE Accuses(m, r, roll)
  BY <1>2 DEF Accuses, Cleared, OnScreen
<1>3. CASE Finished(m, r, roll, E)
  <2>1. PICK s, first : BegunWith(m, s, first) /\ Heeds(s, r, E)
    BY <1>3 DEF Finished
  <2>2. r.state = "ACTIVE" /\ r.screen = m.screen
    BY <2>1 DEF BegunWith, Heeds, Only, Fields, BegunFields, EventFields
  <2> QED
    BY <2>2 DEF OnScreen
<1> QED
  BY <1>1, <1>2, <1>3 DEF Revealed

LEMMA OnScreenHandled ==
  ASSUME NEW m, OnScreen(m), m.screen # "starting", m.screen \in {"none", "starting", "open"},
         NEW q, NEW f, NEW die, NEW E, NEW r, Handled(m, r, q, f, die, E)
  PROVE  OnScreen(r)
<1>1. CASE Ignored(m, r, q, f)
  BY <1>1 DEF Ignored
<1>2. CASE Invited(m, r, q, f.game) \/ Over(m, r)
  BY <1>2 DEF Invited, Over, Cleared, OnScreen
<1>3. CASE Started(m, r, die)
  BY <1>3 DEF Started, OnScreen
<1>4. CASE m.state = "OPENING" /\ Committed(m, r, f.roll, die, E)
  <2>1. CASE Answered(m, r, f.roll)
    BY <2>1 DEF Answered, Only, Fields, OnScreen
  <2>2. ASSUME NEW s, NEW t, Answered(m, s, f.roll), Only(s, t, {"earlyReveal"}),
               Revealed(t, r, m.earlyReveal, die, E)
        PROVE  OnScreen(r)
    <3>1. t.state = m.state /\ t.screen = m.screen /\ t.dice = m.dice
      BY <2>2 DEF Answered, Only, Fields
    <3>2. OnScreen(t)
      BY <3>1 DEF OnScreen
    <3> QED
      BY <1>4, <2>2, <3>1, <3>2, OnScreenRevealed
  <2> QED
    BY <1>4, <2>1, <2>2 DEF Committed
<1>5. CASE m.state = "OPENING" /\ Revealed(m, r, f.roll, die, E)
  BY <1>5, OnScreenRevealed
<1>6. CASE Queued(m, r, f)
  BY <1>6 DEF Queued, Only, Fields, OnScreen
<1>7. CASE m.state = "ACTIVE" /\ Heeds(m, r, E)
  BY <1>7 DEF Heeds, Only, Fields, EventFields, OnScreen
<1> QED
  BY <1>1, <1>2, <1>3, <1>4, <1>5, <1>6, <1>7 DEF Handled

LEMMA OnScreenAlone ==
  ASSUME QuickScreen, NEW p, NEW d, NEW r, Alone(p, d, r), OnScreen(gm[p])
  PROVE  OnScreen(r)
<1>1. CASE Proposes(gm[p], r, d, games + 1)
  BY <1>1 DEF Proposes, OnScreen
<1>2. CASE \E die \in Dice(gm[p]) : Accepts(gm[p], r, die)
  BY <1>2 DEF Accepts, Started, OnScreen
<1>3. CASE Declines(gm[p], r) \/ Leaves(gm[p], r)
  BY <1>3 DEF Declines, Leaves, Cleared, OnScreen
<1>4. CASE \E last \in BOOLEAN : \E f : Taps(gm[p], r, f, last)
  BY <1>4 DEF Taps, Only, Fields, OnScreen
<1>5. CASE Shows(gm[p], r)
  BY <1>5 DEF Shows, Only, Fields, OnScreen
<1> QED
  BY <1>1, <1>2, <1>3, <1>4, <1>5 DEF Alone

LEMMA ScreensStep ==
  ASSUME QuickScreen, Sane, Screens, NEW p \in Players, NEW d, NEW r, Step(p, d, r)
  PROVE  Screens'
<1>1. OnScreen(gm[p]) /\ gm[p].screen \in {"none", "starting", "open"}
  BY DEF Screens, Sane, Sound, Typed
<1>2. OnScreen(r)
  <2>1. CASE Alone(p, d, r)
    BY <1>1, <2>1, OnScreenAlone
  <2>2. ASSUME NEW q \in Players \ {p}, NEW f, NEW die, Reading(p, d, r, q, f, die)
        PROVE  OnScreen(r)
    <3>1. Handled(gm[p], r, q, f, die, Plays) /\ gm[p].screen # "starting"
      BY <2>2 DEF Reading
    <3> QED
      BY <1>1, <3>1, OnScreenHandled
  <2> QED
    BY <2>1, <2>2 DEF Step
<1>3. OnScreen(gm'[p])
  <2>1. PICK y : y = gm'[p]
    OBVIOUS
  <2>2. y.state = r.state /\ y.screen = r.screen /\ y.dice = r.dice
    BY <2>1 DEF Step, Rested, Only, Fields
  <2> QED
    BY <1>2, <2>1, <2>2 DEF OnScreen
<1>4. \A x \in Players \ {p} : OnScreen(gm'[x])
  BY DEF Step, Screens
<1> QED
  BY <1>3, <1>4 DEF Screens

\* What a handler makes of a record in its opening roll: it goes on, it ends, or
\* the turn is known and the events of the queue are heeded.
Still(m, r) == SameView(m, r) /\ r.given = m.given
Opens(m, r, E) ==
  \E s : /\ s.state = "ACTIVE" /\ s.me = m.me /\ s.peer = m.peer /\ s.dice = m.dice
         /\ s.screen = m.screen /\ s.expectedSeq = m.expectedSeq
         /\ (m.screen = "open" => s.turn = s.first) /\ Heeds(s, r, E)

LEMMA OpensRevealed ==
  ASSUME NEW m, NEW roll, NEW die, NEW E, NEW r, Revealed(m, r, roll, die, E)
  PROVE  r.game = 0 \/ Still(m, r) \/ Opens(m, r, E)
<1>1. CASE Early(m, r, roll) \/ Tied(m, r, roll, die)
  BY <1>1 DEF Early, Tied, Only, Fields, RollFields, Still, SameView
<1>2. CASE Accuses(m, r, roll)
  BY <1>2 DEF Accuses, Cleared
<1>3. CASE Finished(m, r, roll, E)
  <2>1. PICK s, first : BegunWith(m, s, first) /\ Heeds(s, r, E)
    BY <1>3 DEF Finished
  <2>2. /\ s.state = "ACTIVE" /\ s.me = m.me /\ s.peer = m.peer /\ s.dice = m.dice
        /\ s.screen = m.screen /\ s.expectedSeq = m.expectedSeq
        /\ (m.screen = "open" => s.turn = s.first)
    BY <2>1 DEF BegunWith, Only, Fields, BegunFields
  <2> QED
    BY <2>1, <2>2 DEF Opens
<1> QED
  BY <1>1, <1>2, <1>3 DEF Revealed

LEMMA OpensCommitted ==
  ASSUME NEW m, NEW roll, NEW die, NEW E, NEW r, Committed(m, r, roll, die, E)
  PROVE  r.game = 0 \/ Still(m, r) \/ Opens(m, r, E)
<1>1. CASE Answered(m, r, roll)
  BY <1>1 DEF Answered, Only, Fields, Still, SameView
<1>2. ASSUME NEW s, NEW t, Answered(m, s, roll), Only(s, t, {"earlyReveal"}),
             Revealed(t, r, m.earlyReveal, die, E)
      PROVE  r.game = 0 \/ Still(m, r) \/ Opens(m, r, E)
  <2>1. /\ SameView(m, t) /\ t.given = m.given /\ t.screen = m.screen /\ t.peer = m.peer
    BY <1>2 DEF Answered, Only, Fields, SameView
  <2>2. r.game = 0 \/ Still(t, r) \/ Opens(t, r, E)
    BY <1>2, OpensRevealed
  <2>3. Still(t, r) => Still(m, r)
    BY <2>1 DEF Still, SameView
  <2>4. Opens(t, r, E) => Opens(m, r, E)
    <3>1. t.me = m.me /\ t.peer = m.peer /\ t.dice = m.dice /\ t.screen = m.screen
          /\ t.expectedSeq = m.expectedSeq
      BY <2>1 DEF SameView
    <3> QED
      BY <3>1 DEF Opens
  <2> QED
    BY <2>2, <2>3, <2>4
<1> QED
  BY <1>1, <1>2 DEF Committed

\* What is known of m, who plays with n, and of the events P that were sent to m.
Half(m, n, P) ==
  /\ m.peer = n.me /\ m.me # n.me /\ P \in Seq(Plays)
  /\ m.expectedSeq \in Nat /\ m.expectedSeq <= Len(P) /\ n.outSeq = Len(P) /\ m.dice \in BOOLEAN
  /\ m.state # "ACTIVE" => m.expectedSeq = 0 /\ m.outSeq = 0
\* What m gets are the next events of P.
Gets(m, r, P) ==
  \A i \in 1..Len(r.given) :
    m.expectedSeq + i <= Len(P) /\ r.given[i] = P[m.expectedSeq + i]

\* The first turn is known to m, who gets the events that n made since.
LEMMA SyncOpens ==
  ASSUME NEW m, NEW n, NEW P, NEW W, Half(m, n, P), Half(n, m, W), Synced(m, n, P, W),
         m.state = "OPENING", m.screen = "open", m.dice = FALSE,
         NEW r, Opens(m, r, Plays), Gets(m, r, P), InRound(n),
         n.state = "ACTIVE" => r.first = n.first
  PROVE  Synced(r, n, P, W) /\ Synced(n, r, W, P)
<1>1. PICK s : /\ s.state = "ACTIVE" /\ s.me = m.me /\ s.peer = m.peer /\ s.dice = m.dice
               /\ s.screen = m.screen /\ s.expectedSeq = m.expectedSeq
               /\ s.turn = s.first /\ Heeds(s, r, Plays)
  BY DEF Opens
<1>2. /\ r.me = s.me /\ r.state = "ACTIVE" /\ r.first = s.first /\ r.given \in Seq(Plays)
      /\ r.expectedSeq = s.expectedSeq + Len(r.given) /\ Boarded(s, r) /\ r.dice \in BOOLEAN
  BY <1>1 DEF Heeds, Only, Fields, EventFields
<1>3. /\ m.expectedSeq = 0 /\ Len(W) = 0 /\ n.expectedSeq = 0 /\ P \in Seq(Plays)
      /\ n.dice \in BOOLEAN /\ Len(P) \in Nat /\ Len(r.given) \in Nat /\ n.outSeq = Len(P)
      /\ m.peer = n.me
  BY <1>2 DEF Half
<1>4. InRound(r)
  BY <1>2 DEF InRound
<1>5. CASE n.state = "ACTIVE"
  <2>1. Sync(m, n, P, W)
    BY <1>5 DEF Synced
  <2>2. /\ ViewTurn(s, n) = n.first /\ ViewTurn(m, n) = n.first
        /\ ViewDice(s) = FALSE /\ ViewDice(m) = FALSE
    BY <1>1, <1>2, <1>5 DEF ViewTurn, ViewDice
  <2>3. Behind(s, n, P, W) = Behind(m, n, P, W)
    BY <1>1, <2>2 DEF Behind
  <2>4. Level(s, n) = Level(m, n)
    BY <2>2 DEF Level
  <2>5. Sync(s, n, P, W)
    BY <1>1, <2>1, <2>3, <2>4 DEF Sync
  <2>6. Sync(r, n, P, W)
    <3>1. \A i \in 1..Len(r.given) :
            s.expectedSeq + i <= Len(P) /\ r.given[i] = P[s.expectedSeq + i]
      BY <1>1 DEF Gets
    <3>2. s.expectedSeq = 0 /\ s.expectedSeq \in Nat /\ s.expectedSeq <= Len(P)
      BY <1>1, <1>3
    <3>3. s.dice = FALSE
      BY <1>1
    <3>4. s.dice \in BOOLEAN
      BY <3>3, Zenon
    <3> QED
      BY <1>1, <1>2, <1>3, <2>5, <3>1, <3>2, <3>4, SyncHeeds
  <2>7. Sync(n, r, W, P)
    BY <1>2, <1>3, <1>5, <2>6, SyncBack
  <2> QED
    BY <1>4, <2>6, <2>7 DEF Synced
<1>6. CASE n.state # "ACTIVE"
  <2>1. Len(P) = 0
    BY <1>3, <1>6 DEF Half
  <2>2. Len(r.given) = 0
    <3> SUFFICES ASSUME Len(r.given) # 0 PROVE FALSE
      OBVIOUS
    <3>1. 1 \in 1..Len(r.given)
      BY <1>3
    <3>2. m.expectedSeq + 1 <= Len(P)
      BY <3>1 DEF Gets
    <3> QED
      BY <1>3, <2>1, <3>2
  <2>3. r.given = <<>>
    BY <1>2, <2>2
  <2>4. r.turn = s.turn /\ r.dice = FALSE
    BY <1>1, <1>2, <2>3 DEF Boarded
  <2>5. Level(n, r)
    BY <1>1, <1>2, <1>6, <2>4 DEF Level, ViewTurn, ViewDice
  <2>6. Sync(n, r, W, P)
    BY <1>3, <2>5 DEF Sync
  <2> QED
    BY <1>6, <2>6 DEF Synced
<1> QED
  BY <1>5, <1>6

\* Events come in the game.
LEMMA SyncPlays ==
  ASSUME NEW m, NEW n, NEW P, NEW W, Half(m, n, P), Half(n, m, W), Synced(m, n, P, W),
         Synced(n, m, W, P), m.state = "ACTIVE", m.screen = "open",
         NEW r, Heeds(m, r, Plays), Gets(m, r, P)
  PROVE  Synced(r, n, P, W) /\ Synced(n, r, W, P)
<1>1. /\ r.me = m.me /\ r.state = "ACTIVE" /\ r.first = m.first /\ r.given \in Seq(Plays)
      /\ r.expectedSeq = m.expectedSeq + Len(r.given) /\ Boarded(m, r) /\ r.dice \in BOOLEAN
  BY DEF Heeds, Only, Fields, EventFields
<1>2. /\ m.expectedSeq \in Nat /\ m.expectedSeq <= Len(P) /\ P \in Seq(Plays)
      /\ m.dice \in BOOLEAN /\ n.dice \in BOOLEAN /\ Len(P) \in Nat /\ n.outSeq = Len(P)
      /\ Len(r.given) \in Nat /\ m.peer = n.me /\ W \in Seq(Plays)
  BY <1>1 DEF Half
<1>3. InRound(n) /\ InRound(r)
  BY <1>1 DEF Synced, InRound
<1>4. CASE r.given = <<>>
  <2>1. r.turn = m.turn /\ r.dice = m.dice
    BY <1>1, <1>4 DEF Boarded
  <2>2. r.expectedSeq = m.expectedSeq
    BY <1>1, <1>2, <1>4
  <2>3. SameView(m, r) /\ SameView(n, n)
    BY <1>1, <2>1, <2>2 DEF SameView
  <2> QED
    BY <2>3, SyncSame
<1>5. CASE r.given # <<>>
  <2>1. 1 \in 1..Len(r.given)
    BY <1>1, <1>2, <1>5
  <2>2. m.expectedSeq + 1 <= Len(P)
    BY <2>1 DEF Gets
  <2>3. n.state = "ACTIVE"
    BY <1>2, <2>2 DEF Half
  <2>4. Sync(m, n, P, W)
    BY <2>3 DEF Synced
  <2>5. Sync(r, n, P, W) /\ n.expectedSeq = Len(W)
    <3>1. \A i \in 1..Len(r.given) :
            m.expectedSeq + i <= Len(P) /\ r.given[i] = P[m.expectedSeq + i]
      BY DEF Gets
    <3> QED
      BY <1>1, <1>2, <1>5, <2>4, <3>1, SyncHeeds, SMTT(40)
  <2>6. Sync(n, r, W, P)
    <3>1. Len(W) \in Nat
      BY <1>2
    <3> QED
      BY <1>1, <1>2, <2>3, <2>5, <3>1, SyncBack
  <2> QED
    BY <1>3, <2>5, <2>6 DEF Synced
<1> QED
  BY <1>4, <1>5

\* The player m taps: he has all of the events of n.
LEMMA SyncTaps ==
  ASSUME NEW m, NEW n, NEW P, NEW W, Half(m, n, P), Half(n, m, W), Synced(m, n, P, W),
         Synced(n, m, W, P), NEW r, NEW f \in Plays, NEW last \in BOOLEAN, Taps(m, r, f, last)
  PROVE  Synced(r, n, P, Append(W, f)) /\ Synced(n, r, Append(W, f), P)
<1>1. /\ m.state = "ACTIVE" /\ m.turn = m.me /\ f.last = last
      /\ f.kind = IF m.dice THEN "MOVE" ELSE "ROLL"
      /\ r.me = m.me /\ r.expectedSeq = m.expectedSeq /\ r.first = m.first /\ r.dice = ~last
      /\ r.turn = IF last THEN m.peer ELSE m.me
      /\ r.state = "ACTIVE"
  BY DEF Taps, Only, Fields, PlayFrame
<1>2. /\ m.expectedSeq \in Nat /\ m.expectedSeq <= Len(P) /\ P \in Seq(Plays)
      /\ m.dice \in BOOLEAN /\ Len(P) \in Nat /\ n.outSeq = Len(P)
      /\ m.peer = n.me /\ m.me # n.me /\ W \in Seq(Plays) /\ Len(W) \in Nat
      /\ n.expectedSeq \in Nat /\ n.expectedSeq <= Len(W)
      /\ n.state # "ACTIVE" => n.outSeq = 0
  BY DEF Half
<1>3. Sync(n, m, W, P) /\ InRound(n) /\ InRound(r)
  BY <1>1 DEF Synced, InRound
<1>4. m.expectedSeq = Len(P)
  <2>1. CASE n.state # "ACTIVE"
    BY <1>2, <2>1
  <2>2. CASE n.state = "ACTIVE"
    <3>1. Sync(m, n, P, W)
      BY <2>2 DEF Synced
    <3>2. ViewTurn(m, n) # n.me
      BY <1>1, <1>2 DEF ViewTurn
    <3>3. ~Behind(m, n, P, W)
      BY <3>2 DEF Behind
    <3> QED
      BY <1>2, <3>1, <3>3 DEF Sync
  <2> QED
    BY <2>1, <2>2
<1>5. Sync(n, r, Append(W, f), P)
  BY <1>1, <1>2, <1>3, <1>4, SyncTap
<1>6. Sync(r, n, P, Append(W, f))
  <2>1. Len(Append(W, f)) = Len(W) + 1
    BY <1>2
  <2>2. ~(r.expectedSeq < Len(P)) /\ ~(n.expectedSeq = Len(Append(W, f)))
    BY <1>1, <1>2, <1>4, <2>1
  <2> QED
    BY <2>2 DEF Sync
<1> QED
  BY <1>3, <1>5, <1>6 DEF Synced

LEMMA Halves ==
  ASSUME Sane, StreamInv, NEW p \in Players, NEW q \in Players, Opponents(p, q)
  PROVE  Half(gm[p], gm[q], played[gm[p].game][p])
<1>1. PICK m, n, g : m = gm[p] /\ n = gm[q] /\ g = gm[p].game
  OBVIOUS
<1>2. n.game = g /\ n.peer = p /\ m.peer = q /\ g # 0 /\ g \in Games
  BY <1>1, ConstantsAssumption DEF Opponents, Sane, Sound, Typed, Coherent, Games
<1>3. /\ m.me = p /\ n.me = q /\ p # q /\ m.dice \in BOOLEAN
      /\ m.state # "ACTIVE" => m.expectedSeq = 0 /\ m.outSeq = 0
  BY <1>1, <1>2 DEF Sane, Sound, Typed, Coherent
<1>4. n.outSeq = Len(played[g][p])
  BY <1>1, <1>2 DEF StreamInv, Follows
<1>5. m.expectedSeq = Len(heard[g][p])
  BY <1>1, <1>2 DEF StreamInv, Follows
<1>6. PICK H, P : H = heard[g][p] /\ P = played[g][p]
  OBVIOUS
<1>7. H \in Seq(Plays) /\ P \in Seq(Plays) /\ Begins(H, P)
  BY <1>2, <1>6 DEF StreamInv, Story, Histories
<1>8. m.expectedSeq \in Nat /\ m.expectedSeq <= Len(P)
  BY <1>5, <1>6, <1>7 DEF Begins
<1> QED
  BY <1>1, <1>2, <1>3, <1>4, <1>6, <1>7, <1>8 DEF Half

\* The events that reach the board are the next ones.
LEMMA GetsNext ==
  ASSUME Sane, StreamInv, StreamInv', NEW p \in Players, NEW d, NEW r, Step(p, d, r),
         gm[p].game # 0, r.given \in Seq(Plays), played' = played
  PROVE  Gets(gm[p], r, played[gm[p].game][p])
<1>1. PICK m, g, o, H, K, P : /\ m = gm[p] /\ g = gm[p].game /\ o = r.given
                              /\ H = heard[g][p] /\ K = heard'[g][p] /\ P = played[g][p]
  OBVIOUS
<1>2. g \in Games
  BY <1>1, ConstantsAssumption DEF Sane, Sound, Games
<1>3. H \in Seq(Plays) /\ m.expectedSeq = Len(H) /\ o \in Seq(Plays)
  BY <1>1, <1>2 DEF StreamInv, Story, Histories, Follows
<1>4. K \in Seq(Plays) /\ Begins(K, P)
  BY <1>1, <1>2 DEF StreamInv, Story, Histories
<1>5. CASE o = <<>>
  <2>1. Len(r.given) = 0
    BY <1>1, <1>5
  <2> QED
    BY <2>1 DEF Gets
<1>6. CASE o # <<>>
  <2>1. K = H \o o
    <3>1. PICK h \in Histories : h = heard
      BY DEF StreamInv, Story
    <3>2. heard' = [h EXCEPT ![g][p] = h[g][p] \o o]
      BY <1>1, <1>6, <3>1 DEF Step, Hearing
    <3>3. heard'[g][p] = h[g][p] \o o
      BY <1>2, <3>1, <3>2 DEF Histories
    <3> QED
      BY <1>1, <3>1, <3>3
  <2>2. ASSUME NEW i \in 1..Len(o)
        PROVE  Len(H) + i <= Len(P) /\ o[i] = P[Len(H) + i]
    <3>1. PICK k : k = Len(H) + i
      OBVIOUS
    <3>2. Len(K) = Len(H) + Len(o) /\ k \in 1..Len(K) /\ K[k] = o[i]
      BY <1>3, <2>1, <3>1
    <3>3. Len(K) <= Len(P) /\ K[k] = P[k]
      BY <1>4, <3>2 DEF Begins
    <3>4. Len(P) \in Int
      BY <1>1, <1>2 DEF StreamInv, Story, Histories
    <3> QED
      BY <1>3, <3>1, <3>2, <3>3, <3>4
  <2> QED
    BY <1>1, <1>3, <2>2 DEF Gets
<1> QED
  BY <1>5, <1>6

\* Player p and his peer c, after a step of p in their game.
LEMMA SyncMine ==
  ASSUME QuickScreen, Sane, StreamInv, StreamInv', Screens, SyncInv, NEW p \in Players, NEW d, NEW r,
         Step(p, d, r), NEW c \in Players \ {p}, Opponents(p, c), r.peer = c, r.game = gm[p].game,
         NEW P, P = played[r.game][p], NEW W, W = played[r.game][c],
         NEW V, V = played'[r.game][c],
         r.state = "ACTIVE" => InRound(gm[c]) /\ (gm[c].state = "ACTIVE" => r.first = gm[c].first)
  PROVE  Synced(r, gm[c], P, V) /\ Synced(gm[c], r, V, P)
<1>1. PICK m, n, g : m = gm[p] /\ n = gm[c] /\ g = gm[p].game
  OBVIOUS
<1>2. Opponents(c, p) /\ n.game = g
  BY <1>1 DEF Opponents
<1>3. /\ Half(m, n, P) /\ Half(n, m, W)
      /\ Synced(m, n, P, W) /\ Synced(n, m, W, P)
  BY <1>1, <1>2, Halves DEF SyncInv
<1>4. /\ OnScreen(m) /\ m.game = g /\ g # 0 /\ g \in Games /\ m.state # "IDLE" /\ m.given = <<>>
      /\ m.screen \in {"none", "starting", "open"} /\ g <= games /\ games \in Nat /\ g \in Nat
      /\ m.peer = c
  BY <1>1, ConstantsAssumption
  DEF Screens, Sane, Resting, Sound, Typed, Coherent, Games, Opponents
<1>5. SameView(n, n)
  BY DEF SameView
<1>6. ASSUME V = W, SameView(m, r)
      PROVE  Synced(r, n, P, V) /\ Synced(n, r, V, P)
  BY <1>3, <1>5, <1>6, SyncSame
<1>7. ASSUME ~InRound(m), ~(r.state = "ACTIVE")
      PROVE  Synced(r, n, P, V) /\ Synced(n, r, V, P)
  BY <1>3, <1>7 DEF Synced
<1>8. CASE Alone(p, d, r)
  <2>1. CASE Proposes(m, r, d, games + 1)
    BY <1>4, <2>1 DEF Proposes
  <2>2. CASE \E die \in Dice(m) : Accepts(m, r, die)
    <3>1. ~InRound(m) /\ ~(r.state = "ACTIVE")
      BY <2>2 DEF Accepts, Started, InRound
    <3> QED
      BY <1>1, <1>7, <3>1
  <2>3. CASE Declines(m, r) \/ Leaves(m, r)
    BY <1>1, <1>4, <2>3 DEF Declines, Leaves, Cleared
  <2>4. ASSUME NEW last \in BOOLEAN, NEW f, Taps(m, r, f, last),
               played' = [played EXCEPT ![m.game][m.peer] = Append(@, f)]
        PROVE  Synced(r, n, P, V) /\ Synced(n, r, V, P)
    <3>1. V = Append(W, f)
      <4>1. PICK Y \in Histories : Y = played
        BY DEF StreamInv, Story
      <4>2. played' = [Y EXCEPT ![g][c] = Append(Y[g][c], f)]
        BY <1>1, <1>4, <2>4, <4>1
      <4>3. played'[g][c] = Append(Y[g][c], f)
        BY <1>4, <4>1, <4>2 DEF Histories
      <4> QED
        BY <1>1, <4>1, <4>3
    <3>2. f \in Plays
      <4>1. f = PlayFrame(m.game, m.outSeq, IF m.dice THEN "MOVE" ELSE "ROLL", last)
        BY <2>4 DEF Taps
      <4>2. m.game \in Nat /\ m.outSeq \in Nat
        BY <1>1 DEF Sane, Sound, Typed
      <4> QED
        BY <4>1, <4>2 DEF PlayFrame, Plays
    <3>3. Synced(r, n, P, Append(W, f)) /\ Synced(n, r, Append(W, f), P)
      BY <1>3, <2>4, <3>2, SyncTaps, ZenonT(30)
    <3> QED
      BY <3>1, <3>3
  <2>5. CASE Shows(m, r) /\ played' = played
    <3>1. SameView(m, r) /\ V = W
      BY <2>5 DEF Shows, SameView, Only, Fields
    <3> QED
      BY <1>1, <1>6, <3>1
  <2> QED
    BY <1>1, <1>8, <2>1, <2>2, <2>3, <2>4, <2>5 DEF Alone
<1>9. ASSUME NEW q \in Players \ {p}, NEW f, NEW die, Reading(p, d, r, q, f, die)
      PROVE  Synced(r, n, P, V) /\ Synced(n, r, V, P)
  <2>1. Handled(m, r, q, f, die, Plays) /\ V = W /\ played' = played
    BY <1>1, <1>9 DEF Reading
  <2>2. r.given \in Seq(Plays) => Gets(m, r, P)
    BY <1>1, <1>4, <2>1, GetsNext
  <2>3. m.state = "OPENING" /\ Opens(m, r, Plays) => Synced(r, n, P, V) /\ Synced(n, r, V, P)
    <3> SUFFICES ASSUME m.state = "OPENING", Opens(m, r, Plays)
                 PROVE  Synced(r, n, P, V) /\ Synced(n, r, V, P)
      OBVIOUS
    <3>1. m.screen # "starting"
      BY <1>1, <1>9 DEF Reading
    <3>2. r.state = "ACTIVE" /\ r.given \in Seq(Plays)
      BY DEF Opens, Heeds, Only, Fields, EventFields
    <3> QED
      BY <1>1, <1>3, <1>4, <2>1, <2>2, <3>1, <3>2, SyncOpens DEF OnScreen
  <2>4. CASE Ignored(m, r, q, f)
    BY <1>1, <1>6, <2>1, <2>4 DEF Ignored, SameView
  <2>5. CASE Invited(m, r, q, f.game) \/ Over(m, r)
    BY <1>1, <1>4, <2>5 DEF Invited, Over, Cleared
  <2>6. CASE m.state = "INVITING" /\ Started(m, r, die)
    <3>1. ~InRound(m) /\ ~(r.state = "ACTIVE")
      BY <2>6 DEF Started, InRound
    <3> QED
      BY <1>7, <3>1
  <2>7. CASE m.state = "OPENING" /\ Committed(m, r, f.roll, die, Plays)
    <3>1. r.game = 0 \/ Still(m, r) \/ Opens(m, r, Plays)
      BY <2>7, OpensCommitted
    <3> QED
      BY <1>1, <1>4, <1>6, <2>1, <2>3, <2>7, <3>1 DEF Still
  <2>8. CASE m.state = "OPENING" /\ Revealed(m, r, f.roll, die, Plays)
    <3>1. r.game = 0 \/ Still(m, r) \/ Opens(m, r, Plays)
      BY <2>8, OpensRevealed
    <3> QED
      BY <1>1, <1>4, <1>6, <2>1, <2>3, <2>8, <3>1 DEF Still
  <2>9. CASE Queued(m, r, f)
    <3>1. SameView(m, r)
      BY <2>9 DEF Queued, SameView, Only, Fields
    <3> QED
      BY <1>6, <2>1, <3>1
  <2>10. CASE m.state = "ACTIVE" /\ Heeds(m, r, Plays)
    <3>1. r.given \in Seq(Plays)
      BY <2>10 DEF Heeds
    <3>2. m.screen = "open"
      BY <1>4, <2>10 DEF OnScreen
    <3> QED
      BY <1>3, <2>1, <2>2, <2>10, <3>1, <3>2, SyncPlays
  <2> QED
    BY <2>1, <2>4, <2>5, <2>6, <2>7, <2>8, <2>9, <2>10 DEF Handled
<1> QED
  BY <1>1, <1>8, <1>9 DEF Step

LEMMA SyncOthers ==
  ASSUME Sane, StreamInv, SyncInv, NEW p \in Players, NEW d, NEW r, Step(p, d, r),
         NEW a \in Players \ {p}, NEW b \in Players \ {p}, Opponents(a, b)
  PROVE  Synced(gm[a], gm[b], played'[gm[a].game][a], played'[gm[a].game][b])
<1>1. PICK g : g = gm[a].game
  OBVIOUS
<1>2. g # 0 /\ g \in Games /\ gm[b].game = g /\ gm[b].peer = a /\ gm[a].peer = b
  BY <1>1, ConstantsAssumption DEF Opponents, Sane, Sound, Typed, Coherent, Games
<1>3. played'[g][a] = played[g][a] /\ played'[g][b] = played[g][b]
  <2>1. CASE played' = played
    BY <2>1
  <2>2. ASSUME NEW f,
               played' = [played EXCEPT ![gm[p].game][gm[p].peer] = Append(@, f)]
        PROVE  played'[g][a] = played[g][a] /\ played'[g][b] = played[g][b]
    <3>1. PICK Y, h, c : Y = played /\ h = gm[p].game /\ c = gm[p].peer
      OBVIOUS
    <3>2. ~(h = g /\ c \in {a, b})
      <4> SUFFICES ASSUME h = g, c \in {a, b} PROVE FALSE
        OBVIOUS
      <4>1. Claim(gm, net, g, p, c) /\ Claim(gm, net, g, a, b)
        BY <1>1, <1>2, <3>1 DEF Claim
      <4>2. <<a, b>> \in {<<p, c>>, <<c, p>>}
        BY <1>2, <4>1 DEF StreamInv, Paired
      <4> QED
        BY <4>2
    <3>3. Y \in Histories /\ played' = [Y EXCEPT ![h][c] = Append(Y[h][c], f)]
      BY <2>2, <3>1 DEF StreamInv, Story
    <3> QED
      BY <1>2, <3>1, <3>2, <3>3 DEF Histories
  <2> QED
    BY <2>1, <2>2 DEF Step, Reading, Alone
<1> QED
  BY <1>1, <1>3 DEF SyncInv

LEMMA SyncStep ==
  ASSUME QuickScreen, Sane, Sane', StreamInv, StreamInv', Fresh, OpeningInv', Screens, SyncInv,
         NEW p \in Players, NEW d, NEW r, Step(p, d, r)
  PROVE  SyncInv'
<1>1. PICK y : y = gm'[p]
  OBVIOUS
<1>2. /\ y.peer = r.peer /\ y.game = r.game /\ y.state = r.state /\ y.first = r.first
      /\ SameView(r, y) /\ \A x \in Players \ {p} : gm'[x] = gm[x]
      /\ r.peer # p
  BY <1>1 DEF Step, Rested, Only, Fields, Sound, Typed, SameView
<1>3. \/ Tame(gm[p].game, gm[p].peer, r)
      \/ Alone(p, d, r) /\ Proposes(gm[p], r, d, games + 1)
      \/ \E q \in Players \ {p} : \E f \in Under(net, q, p) :
           f.type = "INVITE" /\ Invited(gm[p], r, q, f.game)
  <2>1. CASE Alone(p, d, r)
    BY <2>1, TameAlone
  <2>2. ASSUME NEW q \in Players \ {p}, NEW f, NEW die, Reading(p, d, r, q, f, die)
        PROVE  \/ Tame(gm[p].game, gm[p].peer, r)
               \/ f.type = "INVITE" /\ Invited(gm[p], r, q, f.game) /\ f \in Under(net, q, p)
    <3>1. PICK m, G : m = gm[p] /\ G = 1..games
      OBVIOUS
    <3>2. G \in SUBSET (Nat \ {0}) /\ Sound(p, m, G) /\ m.out = <<>>
      BY <3>1 DEF Sane, Resting
    <3>3. die \in Nat /\ Handled(m, r, q, f, die, Plays) /\ f \in Under(net, q, p)
      BY <2>2, <3>1, DiceNat DEF Reading
    <3> QED
      BY <3>1, <3>2, <3>3, TameHandled
  <2> QED
    BY <2>1, <2>2 DEF Step
<1>4. ASSUME NEW c \in Players \ {p}, Opponents(p, c)'
      PROVE  LET P == played'[y.game][p]  W == played'[y.game][c] IN
             Synced(y, gm[c], P, W) /\ Synced(gm[c], y, W, P)
  <2> DEFINE P == played'[y.game][p]
             W == played'[y.game][c]
  <2>1. gm'[c] = gm[c] /\ r.peer = c /\ gm[c].peer = p /\ r.game = gm[c].game
    BY <1>1, <1>2, <1>4 DEF Opponents
  <2>2. gm[c].game # 0 /\ gm[c].game <= games /\ games \in Nat
    BY <2>1, ConstantsAssumption DEF Sane, Sound, Typed, Coherent
  <2>3. CASE Tame(gm[p].game, gm[p].peer, r)
    <3>1. r.game = gm[p].game /\ r.peer = gm[p].peer
      BY <2>1, <2>2, <2>3 DEF Tame
    <3>2. Opponents(p, c)
      BY <2>1, <3>1 DEF Opponents
    <3>3. r.state = "ACTIVE" => InRound(gm[c]) /\ (gm[c].state = "ACTIVE" => r.first = gm[c].first)
      <4> SUFFICES ASSUME r.state = "ACTIVE"
                   PROVE  InRound(gm[c]) /\ (gm[c].state = "ACTIVE" => r.first = gm[c].first)
        OBVIOUS
      <4>1. PICK n, U, V : n = gm[c] /\ U = Under(net', c, p) /\ V = Under(net', p, c)
        OBVIOUS
      <4>2. Opponents(c, p)'
        BY <1>4 DEF Opponents
      <4>3. Side(y, n, U) /\ Side(n, y, V)
        BY <1>1, <1>4, <2>1, <4>1, <4>2 DEF OpeningInv
      <4>4. Counted(y) /\ Counted(n) /\ y.me = p /\ n.me = c
        <5>1. Sound(p, gm'[p], 1..games') /\ Sound(c, gm'[c], 1..games')
          BY DEF Sane
        <5>2. Sound(p, y, 1..games') /\ Sound(c, n, 1..games')
          BY <1>1, <2>1, <4>1, <5>1
        <5> QED
          BY <5>2, SoundCounted DEF Sound, Typed
      <4>5. InRound(n)
        BY <1>2, <4>3 DEF Side, Said, Known
      <4>6. n.state = "ACTIVE" => y.first = n.first
        BY <1>2, <2>1, <4>1, <4>3, <4>4, SidesAgree
      <4> QED
        BY <1>2, <4>1, <4>5, <4>6
    <3>4. played'[r.game][p] = played[r.game][p]
      <4>1. CASE played' = played
        BY <4>1
      <4>2. ASSUME NEW f, played' = [played EXCEPT ![gm[p].game][gm[p].peer] = Append(@, f)]
            PROVE  played'[r.game][p] = played[r.game][p]
        <5>1. PICK Y, h, b : Y = played /\ h = gm[p].game /\ b = gm[p].peer
          OBVIOUS
        <5>2. h \in Games /\ b # p /\ r.game = h
          BY <2>1, <2>2, <3>1, <5>1, ConstantsAssumption DEF Sane, Sound, Typed, Games
        <5>3. Y \in Histories /\ played' = [Y EXCEPT ![h][b] = Append(Y[h][b], f)]
          BY <4>2, <5>1 DEF StreamInv, Story
        <5> QED
          BY <5>1, <5>2, <5>3 DEF Histories
      <4> QED
        BY <4>1, <4>2 DEF Step, Reading, Alone
    <3>5. PICK A, C : A = played[r.game][p] /\ C = played[r.game][c]
      OBVIOUS
    <3>6. PICK D : D = played'[r.game][c]
      OBVIOUS
    <3>7. Synced(r, gm[c], A, D) /\ Synced(gm[c], r, D, A)
      BY <2>1, <3>1, <3>2, <3>3, <3>5, <3>6, SyncMine
    <3>8. SameView(gm[c], gm[c])
      BY DEF SameView
    <3>9. Synced(y, gm[c], A, D) /\ Synced(gm[c], y, D, A)
      BY <1>2, <3>7, <3>8, SyncSame
    <3> QED
      BY <1>2, <3>4, <3>5, <3>6, <3>9
  <2>4. CASE Proposes(gm[p], r, d, games + 1)
    BY <2>1, <2>2, <2>4 DEF Proposes
  <2>5. ASSUME NEW q \in Players \ {p}, NEW f \in Under(net, q, p), f.type = "INVITE",
               Invited(gm[p], r, q, f.game)
        PROVE  Synced(y, gm[c], P, W) /\ Synced(gm[c], y, W, P)
    <3>1. q = c /\ f.game = gm[c].game /\ y.state = "INVITED"
      BY <1>2, <2>1, <2>5 DEF Invited
    <3>2. f.game \in Games /\ Asks(net, q, p, f.game)
      BY <2>5, UnderIs DEF Asks
    <3>3. gm[c].state = "INVITING"
      BY <3>1, <3>2 DEF Fresh
    <3> QED
      BY <3>1, <3>3 DEF Synced
  <2> QED
    BY <1>3, <2>3, <2>4, <2>5
<1>5. ASSUME NEW a \in Players, NEW b \in Players, Opponents(a, b)'
      PROVE  Synced(gm'[a], gm'[b], played'[gm'[a].game][a], played'[gm'[a].game][b])
  <2>1. gm'[a].peer = b /\ gm'[b].peer = a /\ gm'[a].game = gm'[b].game
    BY <1>5 DEF Opponents
  <2>2. CASE a # p /\ b # p
    <3>1. gm'[a] = gm[a] /\ gm'[b] = gm[b] /\ Opponents(a, b)
      BY <1>2, <2>1, <2>2 DEF Opponents
    <3> QED
      BY <2>2, <3>1, SyncOthers
  <2>3. CASE a = p
    <3>1. b \in Players \ {p} /\ Opponents(p, b)' /\ gm'[b] = gm[b]
      BY <1>1, <1>2, <1>5, <2>1, <2>3
    <3> QED
      BY <1>1, <1>4, <2>3, <3>1
  <2>4. CASE b = p
    <3>1. a \in Players \ {p} /\ Opponents(p, a)' /\ gm'[a] = gm[a]
      BY <1>1, <1>2, <2>1, <2>4 DEF Opponents
    <3>2. gm'[a].game = y.game
      BY <1>1, <2>1, <2>4
    <3> QED
      BY <1>1, <1>4, <2>4, <3>1, <3>2
  <2> QED
    BY <2>2, <2>3, <2>4
<1> QED
  BY <1>5 DEF SyncInv

LEMMA SyncAlways ==
  ASSUME MaxRepeats = 0, QuickScreen
  PROVE  Spec => [](Screens /\ SyncInv)
<1>1. ASSUME Init PROVE Screens /\ SyncInv
  <2>1. \A a \in Players : gm[a].peer = Nobody /\ gm[a].state = "IDLE"
    BY <1>1 DEF Init, Idle
  <2>2. \A a, b \in Players : ~Opponents(a, b)
    BY <2>1, ConstantsAssumption DEF Opponents
  <2> QED
    BY <2>1, <2>2 DEF Screens, OnScreen, SyncInv
<1>2. ASSUME UNCHANGED vars
      PROVE  (Screens => Screens') /\ (SyncInv => SyncInv')
  <2>1. Screens => Screens'
    BY <1>2 DEF vars, Screens
  <2>2. SyncInv => SyncInv'
    BY <1>2 DEF vars, SyncInv, Opponents
  <2> QED
    BY <2>1, <2>2
<1>3. ASSUME OnceInv, OnceInv', OpeningInv', Screens, SyncInv, Next
      PROVE  Screens' /\ SyncInv'
  <2>1. PICK p \in Players : \E d \in People \ {p} : \E r : Step(p, d, r)
    BY <1>3, OnceStep
  <2>2. Sane' /\ StreamInv' /\ Sane /\ StreamInv /\ Fresh
    BY <1>3 DEF OnceInv
  <2> QED
    BY <1>3, <2>1, <2>2, ScreensStep, SyncStep
<1>4. Init => Screens /\ SyncInv
  BY <1>1
<1>5. /\ OnceInv /\ OnceInv' /\ OpeningInv' /\ Screens /\ SyncInv /\ [Next]_vars
      => Screens' /\ SyncInv'
  BY <1>2, <1>3
<1>6. Spec => [](OnceInv /\ OpeningInv)
  BY OpeningAlways
<1> QED
  BY <1>4, <1>5, <1>6, PTL DEF Spec

\* A turn ends: of MAX_BUFFERED events in a row one is the last of its turn.
ShortTurns ==
  \A g \in Games, p \in Players : \A i \in Nat :
    i + MAX_BUFFERED <= Len(played[g][p])
      => \E j \in i + 1 .. i + MAX_BUFFERED : played[g][p][j].last

\* With turns that fit in the window no player gets ahead of it.
LEMMA WindowHolds ==
  ASSUME OnceInv, SyncInv, ShortTurns
  PROVE  WithinWindow
<1> SUFFICES ASSUME NEW p \in Players, NEW q \in Players, Opponents(p, q)
             PROVE  gm[q].outSeq <= gm[p].expectedSeq + MAX_BUFFERED
  BY DEF WithinWindow
<1>1. PICK m, n, g, P, W : /\ m = gm[p] /\ n = gm[q] /\ g = gm[p].game
                           /\ P = played[g][p] /\ W = played[g][q]
  OBVIOUS
<1>2. Opponents(q, p) /\ n.game = g
  BY <1>1 DEF Opponents
<1>3. Half(m, n, P) /\ Half(n, m, W) /\ Synced(m, n, P, W) /\ g \in Games
  <2>1. Half(m, n, P) /\ Half(n, m, W) /\ Synced(m, n, P, W)
    BY <1>1, <1>2, Halves DEF SyncInv, OnceInv
  <2>2. g # 0 /\ g \in Games
    BY <1>1, ConstantsAssumption DEF OnceInv, Opponents, Sane, Sound, Typed, Coherent, Games
  <2> QED
    BY <2>1, <2>2
<1>4. PICK k, c, w : k = m.expectedSeq /\ c = Len(P) /\ w = MAX_BUFFERED
  OBVIOUS
<1>5. /\ k \in Nat /\ c \in Nat /\ w \in Nat /\ k <= c /\ n.outSeq = c
      /\ n.state # "ACTIVE" => c = 0
  BY <1>3, <1>4, ConstantsAssumption DEF Half
<1>6. ASSUME k + w < c PROVE FALSE
  <2>1. n.state = "ACTIVE" /\ k < c /\ k + w <= c
    BY <1>5, <1>6
  <2>2. Behind(m, n, P, W)
    BY <1>3, <1>4, <2>1 DEF Synced, Sync
  <2>3. \A i \in k + 1 .. c : i < c => ~P[i].last
    BY <1>4, <2>2, Zenon DEF Behind
  <2>4. PICK j \in k + 1 .. k + w : P[j].last
    BY <1>1, <1>3, <1>4, <1>5, <2>1 DEF ShortTurns
  <2>5. j \in k + 1 .. c /\ j < c
    BY <1>5, <1>6
  <2> QED
    BY <2>3, <2>4, <2>5
<1> QED
  BY <1>1, <1>4, <1>5, <1>6

LEMMA KeptShort ==
  ASSUME MaxRepeats = 0, QuickScreen
  PROVE  Spec /\ []ShortTurns => [](OnceInv /\ KeptInv /\ Numbered /\ SyncInv)
<1>1. OnceInv /\ SyncInv /\ ShortTurns => WithinWindow
  BY WindowHolds
<1>2. Spec => [](Screens /\ SyncInv)
  BY SyncAlways
<1>3. Spec => []OnceInv
  BY OnceAlways, PTL
<1>4. Spec /\ []WithinWindow => [](OnceInv /\ OpeningInv /\ KeptInv /\ Numbered)
  BY KeptAlways
<1> QED
  BY <1>1, <1>2, <1>3, <1>4, PTL

\* Two players of a game who have no frame under way have heard everything, if
\* the screen is up before the frames of the game are read and a turn fits in
\* the window of early events (a roll and four moves, of 32).
THEOREM TurnsHeard ==
  MaxRepeats = 0 /\ QuickScreen => (Spec /\ []ShortTurns => []HeardAll)
<1> SUFFICES ASSUME MaxRepeats = 0, QuickScreen
             PROVE  Spec /\ []ShortTurns => []HeardAll
  OBVIOUS
<1>1. OnceInv /\ KeptInv /\ Numbered => HeardAll
  BY NothingLost DEF HeardAll
<1>2. Spec /\ []ShortTurns => [](OnceInv /\ KeptInv /\ Numbered /\ SyncInv)
  BY KeptShort
<1> QED
  BY <1>1, <1>2, PTL

\* When no frame is under way the two boards of a game show the same turn and
\* the same roll, if the screen is up before the frames of the game are read and
\* a turn fits in the window of early events.
THEOREM BoardsShowTheSame ==
  MaxRepeats = 0 /\ QuickScreen => (Spec /\ []ShortTurns => []BoardsAgree)
<1> SUFFICES ASSUME MaxRepeats = 0, QuickScreen
             PROVE  Spec /\ []ShortTurns => []BoardsAgree
  OBVIOUS
<1>1. ASSUME OnceInv, KeptInv, Numbered, SyncInv PROVE BoardsAgree
  <2> SUFFICES ASSUME NEW p \in Players, NEW q \in Players, Opponents(p, q),
                      gm[p].state = "ACTIVE", gm[q].state = "ACTIVE", Quiet(p, q)
               PROVE  gm[p].turn = gm[q].turn /\ gm[p].dice = gm[q].dice
    BY DEF BoardsAgree
  <2>1. PICK m, n, g : m = gm[p] /\ n = gm[q] /\ g = gm[p].game
    OBVIOUS
  <2>2. Opponents(q, p) /\ Quiet(q, p) /\ n.game = g
    BY <2>1 DEF Opponents, Quiet
  <2>3. heard[g][p] = played[g][p] /\ heard[g][q] = played[g][q]
    BY <1>1, <2>1, <2>2, NothingLost
  <2>4. m.expectedSeq = Len(heard[g][p]) /\ n.expectedSeq = Len(heard[g][q]) /\ g # 0
    BY <1>1, <2>1, <2>2 DEF OnceInv, Sane, Sound, Coherent, StreamInv, Follows
  <2>5. Sync(m, n, played[g][p], played[g][q])
    BY <1>1, <2>1 DEF SyncInv, Synced
  <2>6. Level(m, n)
    BY <2>3, <2>4, <2>5 DEF Sync
  <2>7. m.dice \in BOOLEAN /\ n.dice \in BOOLEAN
    BY <1>1, <2>1 DEF OnceInv, Sane, Sound, Typed
  <2> QED
    BY <2>1, <2>6, <2>7 DEF Level, ViewTurn, ViewDice
<1>2. Spec /\ []ShortTurns => [](OnceInv /\ KeptInv /\ Numbered /\ SyncInv)
  BY KeptShort
<1> QED
  BY <1>1, <1>2, PTL
=============================================================================
