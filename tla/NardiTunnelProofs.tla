------------------------- MODULE NardiTunnelProofs --------------------------
(***************************************************************************)
(* NardiGame over a tunnel that keeps the order of frames and repeats none *)
(* (Overtakes = 0 and MaxRepeats = 0): an opening roll never stalls.  Of   *)
(* what a player sends in it exactly the part that its peer has not        *)
(* handled is under way, in order, and a player in the roll is one frame   *)
(* ahead.  Over that tunnel of MCNardiTunnel no late frame ends a game.    *)
(***************************************************************************)
EXTENDS NardiOpeningProofs, MCNardiTunnel
-----------------------------------------------------------------------------
(* The frames of the opening of game g and their places: ACCEPT, then the    *)
(* COMMIT and the REVEAL of each round; k rolls of the sender were before it. *)

OfOpening(f, g) == f.type \in {"ACCEPT", "COMMIT", "REVEAL"} /\ f.game = g
Place(f, k) ==
  CASE f.type = "ACCEPT" -> 0
    [] f.type = "COMMIT" -> 2 * (f.roll[2] - k) - 1
    [] OTHER -> 2 * (f.roll[2] - k)

\* The places of the frames of s are those after lo and up to hi, in order.
Queue(s, g, k, lo, hi) ==
  /\ lo <= hi
  /\ \A i \in 1..Len(s) : OfOpening(s[i], g) => lo < Place(s[i], k) /\ Place(s[i], k) <= hi
  /\ \A x \in (lo + 1)..hi : \E i \in 1..Len(s) : OfOpening(s[i], g) /\ Place(s[i], k) = x
  /\ \A i, j \in 1..Len(s) :
       i < j /\ OfOpening(s[i], g) /\ OfOpening(s[j], g) => Place(s[i], k) < Place(s[j], k)

\* s without its first frame.
Rest(s, t) == /\ s # <<>> /\ t \in Seq(Frames) /\ Len(t) = Len(s) - 1
              /\ \A i \in 1..Len(t) : t[i] = s[i + 1]

LEMMA PlaceInt ==
  ASSUME NEW f \in Frames, NEW g, OfOpening(f, g), NEW k \in Nat
  PROVE  Place(f, k) \in Int
<1>1. CASE f.type = "ACCEPT"
  BY <1>1 DEF Place
<1>2. CASE f.type \in {"COMMIT", "REVEAL"}
  <2>1. f.roll[2] \in Nat
    BY <1>2, RollOf
  <2> QED
    BY <1>2, <2>1 DEF Place
<1> QED
  BY <1>1, <1>2 DEF OfOpening

LEMMA QueueAppend ==
  ASSUME NEW s \in Seq(Frames), NEW g, NEW k \in Nat, NEW lo \in Int, NEW hi \in Int,
         Queue(s, g, k, lo, hi), NEW f \in Frames, OfOpening(f, g), Place(f, k) = hi + 1
  PROVE  Queue(Append(s, f), g, k, lo, hi + 1)
<1>1. PICK t : t = Append(s, f)
  OBVIOUS
<1>2. /\ Len(t) = Len(s) + 1 /\ Len(s) \in Nat /\ t[Len(s) + 1] = f
      /\ \A i \in 1..Len(s) : t[i] = s[i] /\ s[i] \in Frames
  BY <1>1
<1>3. \A i \in 1..Len(t) : i = Len(s) + 1 \/ i \in 1..Len(s)
  BY <1>2
<1>4. \A i \in 1..Len(s) : OfOpening(s[i], g) =>
        Place(s[i], k) \in Int /\ lo < Place(s[i], k) /\ Place(s[i], k) <= hi
  BY <1>2, PlaceInt DEF Queue
<1>5. lo <= hi
  BY DEF Queue
<1>6. ASSUME NEW i \in 1..Len(t), OfOpening(t[i], g)
      PROVE  lo < Place(t[i], k) /\ Place(t[i], k) <= hi + 1
  <2>1. CASE i = Len(s) + 1
    BY <1>2, <1>5, <2>1
  <2>2. CASE i \in 1..Len(s)
    BY <1>2, <1>4, <1>6, <2>2
  <2> QED
    BY <1>3, <2>1, <2>2
<1>7. ASSUME NEW x \in (lo + 1)..(hi + 1)
      PROVE  \E i \in 1..Len(t) : OfOpening(t[i], g) /\ Place(t[i], k) = x
  <2>1. CASE x = hi + 1
    BY <1>2, <2>1
  <2>2. CASE x # hi + 1
    <3>1. x \in (lo + 1)..hi
      BY <2>2
    <3>2. PICK i \in 1..Len(s) : OfOpening(s[i], g) /\ Place(s[i], k) = x
      BY <3>1 DEF Queue
    <3>3. i \in 1..Len(t) /\ t[i] = s[i]
      BY <1>2
    <3> QED
      BY <3>2, <3>3
  <2> QED
    BY <2>1, <2>2
<1>8. ASSUME NEW i \in 1..Len(t), NEW j \in 1..Len(t), i < j, OfOpening(t[i], g), OfOpening(t[j], g)
      PROVE  Place(t[i], k) < Place(t[j], k)
  <2>1. i \in 1..Len(s) /\ t[i] = s[i]
    BY <1>2, <1>8
  <2>2. CASE j = Len(s) + 1
    BY <1>2, <1>4, <1>8, <2>1, <2>2
  <2>3. CASE j \in 1..Len(s)
    BY <1>2, <1>8, <2>1, <2>3 DEF Queue
  <2> QED
    BY <1>3, <2>2, <2>3
<1>9. Queue(t, g, k, lo, hi + 1)
  BY <1>5, <1>6, <1>7, <1>8 DEF Queue
<1> QED
  BY <1>1, <1>9

LEMMA QueueOther ==
  ASSUME NEW s \in Seq(Frames), NEW g, NEW k \in Nat, NEW lo \in Int, NEW hi \in Int,
         Queue(s, g, k, lo, hi), NEW f \in Frames, ~OfOpening(f, g)
  PROVE  Queue(Append(s, f), g, k, lo, hi)
<1>1. PICK t : t = Append(s, f)
  OBVIOUS
<1>2. /\ Len(t) = Len(s) + 1 /\ Len(s) \in Nat /\ t[Len(s) + 1] = f
      /\ \A i \in 1..Len(s) : t[i] = s[i] /\ i \in 1..Len(t)
  BY <1>1
<1>3. \A i \in 1..Len(t) : OfOpening(t[i], g) => i \in 1..Len(s)
  BY <1>2
<1>4. Queue(t, g, k, lo, hi)
  <2>1. \A x \in (lo + 1)..hi : \E i \in 1..Len(t) : OfOpening(t[i], g) /\ Place(t[i], k) = x
    BY <1>2 DEF Queue
  <2>2. \A i \in 1..Len(t) : OfOpening(t[i], g) => lo < Place(t[i], k) /\ Place(t[i], k) <= hi
    BY <1>2, <1>3 DEF Queue
  <2>3. \A i, j \in 1..Len(t) :
          i < j /\ OfOpening(t[i], g) /\ OfOpening(t[j], g) => Place(t[i], k) < Place(t[j], k)
    BY <1>2, <1>3 DEF Queue
  <2> QED
    BY <2>1, <2>2, <2>3 DEF Queue
<1> QED
  BY <1>1, <1>4

\* The first frame of the opening that is read is the next one.
LEMMA QueueNext ==
  ASSUME NEW s \in Seq(Frames), NEW g, NEW k \in Nat, NEW lo \in Int, NEW hi \in Int,
         Queue(s, g, k, lo, hi), NEW t, Rest(s, t), OfOpening(s[1], g)
  PROVE  Place(s[1], k) = lo + 1 /\ lo + 1 <= hi /\ Queue(t, g, k, lo + 1, hi)
<1>1. /\ Len(s) \in Nat /\ Len(s) > 0 /\ Len(t) = Len(s) - 1 /\ 1 \in 1..Len(s)
      /\ \A i \in 1..Len(s) : s[i] \in Frames
      /\ \A i \in 1..Len(t) : t[i] = s[i + 1] /\ i + 1 \in 1..Len(s) /\ 1 < i + 1
  BY DEF Rest
<1>2. \A i \in 1..Len(s) : OfOpening(s[i], g) =>
        /\ Place(s[i], k) \in Int /\ lo < Place(s[i], k) /\ Place(s[i], k) <= hi
        /\ 1 < i => Place(s[1], k) < Place(s[i], k)
  BY <1>1, PlaceInt DEF Queue
<1>3. Place(s[1], k) \in Int /\ lo < Place(s[1], k) /\ Place(s[1], k) <= hi
  BY <1>1, <1>2
<1>4. Place(s[1], k) = lo + 1
  <2>1. lo + 1 \in (lo + 1)..hi
    BY <1>3
  <2>2. PICK i \in 1..Len(s) : OfOpening(s[i], g) /\ Place(s[i], k) = lo + 1
    BY <2>1 DEF Queue
  <2>3. ~(1 < i)
    BY <1>2, <1>3, <2>2
  <2> QED
    BY <1>1, <2>2, <2>3
<1>5. ASSUME NEW i \in 1..Len(t), OfOpening(t[i], g)
      PROVE  lo + 1 < Place(t[i], k) /\ Place(t[i], k) <= hi
  BY <1>1, <1>2, <1>4, <1>5
<1>6. ASSUME NEW x \in (lo + 2)..hi
      PROVE  \E i \in 1..Len(t) : OfOpening(t[i], g) /\ Place(t[i], k) = x
  <2>1. x \in (lo + 1)..hi /\ x # lo + 1
    OBVIOUS
  <2>2. PICK i \in 1..Len(s) : OfOpening(s[i], g) /\ Place(s[i], k) = x
    BY <2>1 DEF Queue
  <2>3. i # 1
    BY <1>4, <2>1, <2>2
  <2>4. i - 1 \in 1..Len(t) /\ (i - 1) + 1 = i
    BY <1>1, <2>3
  <2>5. t[i - 1] = s[i]
    BY <1>1, <2>4
  <2> QED
    BY <2>2, <2>4, <2>5
<1>7. ASSUME NEW i \in 1..Len(t), NEW j \in 1..Len(t), i < j, OfOpening(t[i], g), OfOpening(t[j], g)
      PROVE  Place(t[i], k) < Place(t[j], k)
  <2>1. i + 1 \in 1..Len(s) /\ j + 1 \in 1..Len(s) /\ i + 1 < j + 1
    BY <1>1, <1>7
  <2> QED
    BY <1>1, <1>7, <2>1 DEF Queue
<1>8. (lo + 1) + 1 = lo + 2 /\ lo + 1 <= hi
  BY <1>3, <1>4
<1> QED
  BY <1>4, <1>5, <1>6, <1>7, <1>8 DEF Queue

\* Another frame is read.
LEMMA QueueSkip ==
  ASSUME NEW s \in Seq(Frames), NEW g, NEW k \in Nat, NEW lo \in Int, NEW hi \in Int,
         Queue(s, g, k, lo, hi), NEW t, Rest(s, t), ~OfOpening(s[1], g)
  PROVE  Queue(t, g, k, lo, hi)
<1>1. /\ Len(s) \in Nat /\ Len(s) > 0 /\ Len(t) = Len(s) - 1
      /\ \A i \in 1..Len(t) : t[i] = s[i + 1] /\ i + 1 \in 1..Len(s)
  BY DEF Rest
<1>2. ASSUME NEW i \in 1..Len(t), OfOpening(t[i], g)
      PROVE  lo < Place(t[i], k) /\ Place(t[i], k) <= hi
  BY <1>1, <1>2 DEF Queue
<1>3. ASSUME NEW x \in (lo + 1)..hi
      PROVE  \E i \in 1..Len(t) : OfOpening(t[i], g) /\ Place(t[i], k) = x
  <2>1. PICK i \in 1..Len(s) : OfOpening(s[i], g) /\ Place(s[i], k) = x
    BY DEF Queue
  <2>2. i # 1
    BY <2>1
  <2>3. i - 1 \in 1..Len(t) /\ (i - 1) + 1 = i
    BY <1>1, <2>2
  <2>4. t[i - 1] = s[i]
    BY <1>1, <2>3
  <2> QED
    BY <2>1, <2>3, <2>4
<1>4. ASSUME NEW i \in 1..Len(t), NEW j \in 1..Len(t), i < j, OfOpening(t[i], g), OfOpening(t[j], g)
      PROVE  Place(t[i], k) < Place(t[j], k)
  <2>1. i + 1 \in 1..Len(s) /\ j + 1 \in 1..Len(s) /\ i + 1 < j + 1
    BY <1>1, <1>4
  <2> QED
    BY <1>1, <1>4, <2>1 DEF Queue
<1> QED
  BY <1>2, <1>3, <1>4 DEF Queue

\* An empty queue has no frame of the opening.
LEMMA QueueClear ==
  ASSUME NEW s \in Seq(Frames), NEW g, NEW k \in Nat, NEW lo \in Int, NEW hi \in Int,
         Queue(s, g, k, lo, hi), hi <= lo, NEW x \in Nat
  PROVE  lo = hi /\ Queue(s, g, x, lo, hi)
<1>1. lo = hi
  BY DEF Queue
<1>2. \A i \in 1..Len(s) : ~OfOpening(s[i], g)
  <2> SUFFICES ASSUME NEW i \in 1..Len(s), OfOpening(s[i], g) PROVE FALSE
    OBVIOUS
  <2>1. s[i] \in Frames
    OBVIOUS
  <2>2. Place(s[i], k) \in Int
    BY <2>1, PlaceInt
  <2> QED
    BY <1>1, <2>2 DEF Queue
<1> QED
  BY <1>1, <1>2 DEF Queue

-----------------------------------------------------------------------------
(* Two opponents: m has handled the frames of the opening up to place Got(m),*)
(* and has sent those up to Told(m); s is under way from n to m.             *)

Answers(m) == IF m.peerCommit = NoRoll THEN 0 ELSE 1
Got(m) ==
  CASE m.state = "INVITING" -> -1
    [] m.state = "INVITED" -> 0
    [] m.state = "OPENING" -> 2 * Round(m) - 2 + Answers(m)
    [] OTHER -> 2 * Round(m)
Told(m) ==
  CASE m.state = "INVITING" -> 0
    [] m.state = "INVITED" -> -1
    [] m.state = "OPENING" -> 2 * Round(m) - 1 + Answers(m)
    [] OTHER -> 2 * Round(m)

Line(m, n, s) ==
  /\ Queue(s, m.game, n.base, Got(m), Told(n))
  /\ m.earlyReveal = NoRoll /\ ~(m.state = "INVITING" /\ n.state = "INVITING")

\* n rolls again only after a tie: m will find the same.
Tie(m, n, f) ==
  f.type = "COMMIT" /\ f.game = m.game /\ f.roll[2] = n.base + Round(m) => f.roll[3] = m.myRoll[3]
Ties(m, n, s) ==
  InRound(m) /\ Round(n) = Round(m) + 1 =>
    /\ m.state # "ACTIVE" /\ (m.peerCommit # NoRoll => m.peerCommit[3] = m.myRoll[3])
    /\ \A i \in 1..Len(s) : Tie(m, n, s[i])

Match(m, n, s) == Line(m, n, s) /\ Ties(m, n, s)

LEMMA GotTold ==
  ASSUME NEW m, Counted(m)
  PROVE  /\ Round(m) \in Nat /\ (InRound(m) => Round(m) >= 1 /\ Round(m) = m.rollNo - m.base)
         /\ Got(m) \in Int /\ Told(m) \in Int /\ Answers(m) \in {0, 1}
<1>1. Round(m) \in Nat /\ (InRound(m) => Round(m) >= 1 /\ Round(m) = m.rollNo - m.base)
  BY DEF Counted, Round
<1>2. Answers(m) \in {0, 1}
  BY DEF Answers
<1> QED
  BY <1>1, <1>2 DEF Got, Told

\* Only what the opening roll sees matters.
LEMMA MatchAlike ==
  ASSUME NEW m, NEW n, NEW s, Match(m, n, s), NEW r, NEW x, Alike(m, r), Alike(n, x)
  PROVE  Match(r, x, s)
<1>1. Round(r) = Round(m) /\ Round(x) = Round(n) /\ (InRound(r) <=> InRound(m))
  BY DEF Alike, Round, InRound
<1>2. Got(r) = Got(m) /\ Told(x) = Told(n)
  BY <1>1 DEF Alike, Got, Told, Answers
<1>3. r.game = m.game /\ x.base = n.base /\ r.state = m.state /\ x.state = n.state
      /\ r.earlyReveal = m.earlyReveal /\ r.peerCommit = m.peerCommit /\ r.myRoll = m.myRoll
  BY DEF Alike
<1>4. Line(r, x, s)
  BY <1>2, <1>3 DEF Match, Line
<1>5. \A f : Tie(r, x, f) <=> Tie(m, n, f)
  BY <1>1, <1>3 DEF Tie
<1>6. Ties(r, x, s)
  BY <1>1, <1>3, <1>5 DEF Match, Ties
<1> QED
  BY <1>4, <1>6 DEF Match

\* m has read a frame that is not of the opening.
LEMMA MatchSkip ==
  ASSUME NEW m, NEW n, Counted(m), Counted(n), NEW s \in Seq(Frames), Match(m, n, s),
         NEW t, Rest(s, t), ~OfOpening(s[1], m.game)
  PROVE  Match(m, n, t)
<1>1. Got(m) \in Int /\ Told(n) \in Int /\ n.base \in Nat
  BY GotTold DEF Counted
<1>2. Queue(t, m.game, n.base, Got(m), Told(n))
  BY <1>1, QueueSkip DEF Match, Line
<1>3. Ties(m, n, t)
  <2>1. \A i \in 1..Len(t) : i + 1 \in 1..Len(s) /\ t[i] = s[i + 1]
    BY DEF Rest
  <2> QED
    BY <2>1 DEF Match, Ties
<1> QED
  BY <1>2, <1>3 DEF Match, Line

LEMMA TiesMore ==
  ASSUME NEW m, NEW n, NEW w \in Seq(Frames), Ties(n, m, w), NEW f \in Frames, Tie(n, m, f)
  PROVE  Ties(n, m, Append(w, f))
<1>1. PICK v : v = Append(w, f)
  OBVIOUS
<1>2. Len(v) = Len(w) + 1 /\ v[Len(w) + 1] = f /\ \A i \in 1..Len(w) : v[i] = w[i]
  BY <1>1
<1>3. \A i \in 1..Len(v) : i = Len(w) + 1 \/ i \in 1..Len(w)
  BY <1>2
<1> QED
  BY <1>1, <1>2, <1>3 DEF Ties

\* m sends a frame that is not of the opening.
LEMMA MatchMore ==
  ASSUME NEW m, NEW n, Counted(m), Counted(n), NEW w \in Seq(Frames), Match(n, m, w),
         NEW f \in Frames, ~OfOpening(f, n.game)
  PROVE  Match(n, m, Append(w, f))
<1>1. Got(n) \in Int /\ Told(m) \in Int /\ m.base \in Nat
  BY GotTold DEF Counted
<1>2. Queue(Append(w, f), n.game, m.base, Got(n), Told(m))
  BY <1>1, QueueOther DEF Match, Line
<1>3. Tie(n, m, f)
  BY DEF Tie, OfOpening
<1>4. Ties(n, m, Append(w, f))
  BY <1>3, TiesMore DEF Match
<1> QED
  BY <1>2, <1>4 DEF Match, Line

-----------------------------------------------------------------------------
(* What a handler of m makes of the two lines.                               *)

InGame == {"INVITING", "INVITED", "OPENING", "ACTIVE"}

\* The frame of the opening that m reads is the one its state waits for.
LEMMA Awaited ==
  ASSUME NEW m, NEW n, Counted(m), Counted(n), m.state \in InGame, n.state \in InGame,
         NEW s \in Seq(Frames), NEW w, NEW U, Side(m, n, U), s[1] \in U,
         NEW W, Side(n, m, W), Match(m, n, s), Match(n, m, w),
         NEW t, Rest(s, t), OfOpening(s[1], m.game)
  PROVE  /\ Got(m) \in Int /\ Told(n) \in Int
         /\ Queue(t, m.game, n.base, Got(m) + 1, Told(n))
         /\ \/ m.state = "INVITING" /\ s[1].type = "ACCEPT"
            \/ /\ m.state = "OPENING" /\ s[1].type = "COMMIT" /\ m.peerCommit = NoRoll
               /\ s[1].roll[2] = n.base + Round(m)
            \/ m.state = "OPENING" /\ s[1].type = "REVEAL" /\ m.peerCommit # NoRoll
<1>1. PICK f : f = s[1]
  OBVIOUS
<1>2. /\ Got(m) \in Int /\ Told(m) \in Int /\ Got(n) \in Int /\ Told(n) \in Int /\ n.base \in Nat
      /\ Round(m) \in Nat /\ Round(n) \in Nat /\ Answers(m) \in {0, 1} /\ Answers(n) \in {0, 1}
      /\ (InRound(m) => Round(m) >= 1) /\ (InRound(n) => Round(n) >= 1)
  BY GotTold DEF Counted
<1>3. /\ Place(f, n.base) = Got(m) + 1 /\ Got(m) + 1 <= Told(n)
      /\ Queue(t, m.game, n.base, Got(m) + 1, Told(n))
  BY <1>1, <1>2, QueueNext DEF Match, Line
<1>4. f \in Frames /\ f.type \in {"ACCEPT", "COMMIT", "REVEAL"} /\ f.game = m.game
  <2>1. Len(s) > 0
    BY DEF Rest
  <2> QED
    BY <1>1, <2>1 DEF OfOpening
<1>5. f.type \in {"COMMIT", "REVEAL"} => f.roll[2] \in Nat
  BY <1>4, RollOf
<1>6. /\ f.type = "ACCEPT" => Place(f, n.base) = 0
      /\ f.type = "COMMIT" => Place(f, n.base) = 2 * (f.roll[2] - n.base) - 1
      /\ f.type = "REVEAL" => Place(f, n.base) = 2 * (f.roll[2] - n.base)
  BY DEF Place
<1>7. CASE m.state = "INVITING"
  <2>1. Place(f, n.base) = 0
    BY <1>3, <1>7 DEF Got
  <2>2. f.type # "COMMIT"
    BY <1>2, <1>5, <1>6, <2>1
  <2>3. ASSUME f.type = "REVEAL" PROVE FALSE
    <3>1. n.base < f.roll[2]
      BY <1>1, <1>4, <2>3 DEF Side, Shown, Known
    <3> QED
      BY <1>2, <1>5, <1>6, <2>1, <2>3, <3>1
  <2> QED
    BY <1>1, <1>2, <1>3, <1>4, <1>7, <2>2, <2>3
<1>8. CASE m.state = "INVITED"
  <2>1. 1 <= Told(n)
    BY <1>3, <1>8 DEF Got
  <2>2. InRound(n)
    BY <2>1 DEF Told, InRound, InGame
  <2>3. Got(n) >= 0
    BY <1>2, <2>2 DEF Got, InRound
  <2>4. Got(n) <= -1
    BY <1>8 DEF Match, Line, Queue, Told
  <2> QED
    BY <1>2, <2>3, <2>4
<1>9. CASE m.state = "OPENING"
  <2>1. Place(f, n.base) = 2 * Round(m) - 1 + Answers(m) /\ Round(m) >= 1
    BY <1>2, <1>3, <1>9 DEF Got, InRound
  <2>2. f.type # "ACCEPT"
    BY <1>2, <1>6, <2>1
  <2>3. CASE f.type = "COMMIT"
    <3>0. PICK x \in Nat, y \in Nat, z \in Nat, c \in {0, 1} :
            x = f.roll[2] /\ y = n.base /\ z = Round(m) /\ c = Answers(m)
      BY <1>2, <1>5, <2>3
    <3>1. Answers(m) = 0 /\ f.roll[2] = n.base + Round(m)
      <4>1. 2 * (x - y) - 1 = 2 * z - 1 + c
        BY <1>6, <2>1, <2>3, <3>0
      <4>2. c = 0 /\ x = y + z
        BY <4>1
      <4> QED
        BY <3>0, <4>2
    <3>2. m.peerCommit = NoRoll
      BY <3>1 DEF Answers
    <3> QED
      BY <1>1, <1>2, <1>3, <1>9, <2>3, <3>1, <3>2
  <2>4. CASE f.type = "REVEAL"
    <3>1. Answers(m) = 1
      BY <1>2, <1>5, <1>6, <2>1, <2>4
    <3>2. m.peerCommit # NoRoll
      BY <3>1 DEF Answers
    <3> QED
      BY <1>1, <1>2, <1>3, <1>9, <2>4, <3>2
  <2> QED
    BY <1>4, <2>2, <2>3, <2>4
<1>10. CASE m.state = "ACTIVE"
  <2>1. 2 * Round(m) + 1 <= Told(n) /\ Round(m) >= 1
    BY <1>2, <1>3, <1>10 DEF Got, InRound
  <2>2. Round(n) <= Round(m) + 1
    BY DEF Side
  <2>3. Told(n) <= 2 * Round(n)
    <3>1. Round(n) \in Nat /\ Answers(n) \in {0, 1}
      BY GotTold
    <3>2. Told(n) \in {0, -1, 2 * Round(n) - 1 + Answers(n), 2 * Round(n)}
      BY DEF Told
    <3> QED
      BY <3>1, <3>2
  <2>4. Round(n) = Round(m) + 1
    BY <1>2, <2>1, <2>2, <2>3
  <2> QED
    BY <1>10, <2>4 DEF Match, Ties, InRound
<1> QED
  BY <1>7, <1>8, <1>9, <1>10 DEF InGame

\* The first roll of m makes its first round.
FirstRoll(m, r) ==
  /\ ~InRound(m) /\ r.state = "OPENING" /\ r.base = m.rollNo /\ r.rollNo = m.rollNo + 1
  /\ r.game = m.game /\ r.peerCommit = m.peerCommit /\ r.earlyReveal = m.earlyReveal

LEMMA FirstCounts ==
  ASSUME NEW m, NEW n, Counted(m), Counted(n), NEW W, Side(n, m, W), NEW r, FirstRoll(m, r)
  PROVE  /\ Round(r) = 1 /\ Got(r) = 0 /\ Told(r) = 1 /\ (\A t : Ties(r, n, t)) /\ (\A t : Ties(n, r, t))
<1>1. Round(r) = 1 /\ Round(m) = 0
  BY DEF FirstRoll, Round, InRound, Counted
<1>2. r.peerCommit = NoRoll
  BY DEF FirstRoll, Counted
<1>3. Got(r) = 0 /\ Told(r) = 1
  BY <1>1, <1>2 DEF Got, Told, Answers, FirstRoll
<1>4. Round(n) \in Nat /\ Round(n) <= 1 /\ (InRound(n) => Round(n) >= 1)
  BY <1>1, GotTold DEF Side
<1>5. Round(n) # Round(r) + 1 /\ ~(InRound(n) /\ Round(r) = Round(n) + 1)
  BY <1>1, <1>4
<1> QED
  BY <1>1, <1>3, <1>5 DEF Ties

\* m takes the invitation of n: ACCEPT, then its first commitment.
LEMMA MatchAccepts ==
  ASSUME NEW m, NEW n, Counted(m), Counted(n), m.state = "INVITED", n.state \in InGame,
         NEW s \in Seq(Frames), NEW w \in Seq(Frames), NEW W, Side(n, m, W), Match(m, n, s), Match(n, m, w),
         n.game = m.game, NEW r, FirstRoll(m, r),
         NEW f \in Frames, f.type = "ACCEPT", f.game = m.game,
         NEW c \in Frames, c.type = "COMMIT", c.game = m.game, c.roll[2] = r.rollNo
  PROVE  Match(r, n, s) /\ Match(n, r, Append(Append(w, f), c))
<1>1. Got(m) = 0 /\ Told(m) = -1
  BY DEF Got, Told
<1>2. Got(r) = 0 /\ Told(r) = 1 /\ Ties(r, n, s) /\ Ties(n, r, Append(Append(w, f), c))
  BY FirstCounts
<1>3. Got(n) \in Int /\ m.rollNo \in Nat /\ m.base \in Nat
  BY GotTold DEF Counted
<1>4. Line(r, n, s)
  BY <1>1, <1>2 DEF Match, Line, FirstRoll
<1>5. Got(n) <= -1 /\ Queue(w, n.game, m.base, Got(n), -1)
  BY <1>1 DEF Match, Line, Queue
<1>6. Got(n) = -1
  <2>1. n.state # "INVITING" => Got(n) >= 0
    <3>1. Round(n) \in Nat /\ (InRound(n) => Round(n) >= 1) /\ Answers(n) \in {0, 1}
      BY GotTold
    <3> QED
      BY <3>1 DEF Got, InGame, InRound
  <2>2. n.state = "INVITING"
    BY <1>3, <1>5, <2>1
  <2> QED
    BY <2>2 DEF Got
<1>7. Queue(w, n.game, r.base, -1, -1)
  BY <1>3, <1>5, <1>6, QueueClear DEF FirstRoll
<1>8. PICK v : v = Append(w, f)
  OBVIOUS
<1>9. v \in Seq(Frames) /\ r.base \in Nat
  BY <1>3, <1>8 DEF FirstRoll
<1>10. Queue(v, n.game, r.base, -1, 0)
  <2>1. OfOpening(f, n.game) /\ Place(f, r.base) = -1 + 1
    BY DEF OfOpening, Place
  <2>2. PICK x \in Int : x = -1
    OBVIOUS
  <2>3. Queue(w, n.game, r.base, x, x) /\ Place(f, r.base) = x + 1
    BY <1>7, <2>1, <2>2
  <2>4. Queue(Append(w, f), n.game, r.base, x, x + 1)
    BY <1>9, <2>1, <2>3, QueueAppend
  <2> QED
    BY <1>8, <2>2, <2>4
<1>11. Queue(Append(v, c), n.game, r.base, -1, 1)
  <2>1. OfOpening(c, n.game) /\ Place(c, r.base) = 0 + 1
    BY <1>3 DEF OfOpening, Place, FirstRoll
  <2>2. PICK hi \in Int : hi = 0
    OBVIOUS
  <2>3. PICK lo \in Int : lo = -1
    OBVIOUS
  <2>4. Queue(v, n.game, r.base, lo, hi) /\ Place(c, r.base) = hi + 1
    BY <1>9, <1>10, <2>1, <2>2, <2>3
  <2>5. Queue(Append(v, c), n.game, r.base, lo, hi + 1)
    BY <1>9, <2>1, <2>4, QueueAppend
  <2> QED
    BY <2>2, <2>3, <2>5
<1>12. Line(n, r, Append(v, c))
  <2>1. r.state # "INVITING"
    BY DEF FirstRoll
  <2> QED
    BY <1>2, <1>6, <1>11, <2>1 DEF Match, Line
<1> QED
  BY <1>2, <1>4, <1>8, <1>12 DEF Match

\* The ACCEPT of n starts the game of m.
LEMMA MatchStarted ==
  ASSUME NEW m, NEW n, Counted(m), Counted(n), m.state = "INVITING", n.state \in InGame,
         NEW s \in Seq(Frames), NEW w \in Seq(Frames), NEW W, Side(n, m, W), Match(m, n, s), Match(n, m, w),
         NEW t, Queue(t, m.game, n.base, Got(m) + 1, Told(n)),
         n.game = m.game, NEW r, FirstRoll(m, r),
         NEW c \in Frames, c.type = "COMMIT", c.game = m.game, c.roll[2] = r.rollNo
  PROVE  Match(r, n, t) /\ Match(n, r, Append(w, c))
<1>1. Got(m) = -1 /\ Told(m) = 0
  BY DEF Got, Told
<1>2. Got(r) = 0 /\ Told(r) = 1 /\ Ties(r, n, t) /\ Ties(n, r, Append(w, c))
  BY FirstCounts
<1>3. Got(n) \in Int /\ m.rollNo \in Nat /\ m.base \in Nat
  BY GotTold DEF Counted
<1>4. Line(r, n, t)
  BY <1>1, <1>2 DEF Match, Line, FirstRoll
<1>5. Queue(w, n.game, m.base, Got(n), 0) /\ Got(n) <= 0
  BY <1>1 DEF Match, Line, Queue
<1>6. Got(n) >= 0
  <2>1. Round(n) \in Nat /\ (InRound(n) => Round(n) >= 1) /\ Answers(n) \in {0, 1}
    BY GotTold
  <2>2. n.state # "INVITING"
    BY DEF Match, Line
  <2> QED
    BY <2>1, <2>2 DEF Got, InGame, InRound
<1>7. Got(n) = 0
  BY <1>3, <1>5, <1>6
<1>8. Queue(w, n.game, r.base, 0, 0) /\ r.base \in Nat
  BY <1>3, <1>5, <1>7, QueueClear DEF FirstRoll
<1>9. Queue(Append(w, c), n.game, r.base, 0, 1)
  <2>1. OfOpening(c, n.game) /\ Place(c, r.base) = 0 + 1
    BY <1>3 DEF OfOpening, Place, FirstRoll
  <2>2. PICK hi \in Int : hi = 0
    OBVIOUS
  <2>3. PICK lo \in Int : lo = 0
    OBVIOUS
  <2>4. Queue(w, n.game, r.base, lo, hi) /\ Place(c, r.base) = hi + 1
    BY <1>8, <2>1, <2>2, <2>3
  <2>5. Queue(Append(w, c), n.game, r.base, lo, hi + 1)
    BY <1>8, <2>1, <2>4, QueueAppend
  <2> QED
    BY <2>2, <2>3, <2>5
<1>10. Line(n, r, Append(w, c))
  <2>1. r.state # "INVITING"
    BY DEF FirstRoll
  <2> QED
    BY <1>2, <1>7, <1>9, <2>1 DEF Match, Line
<1> QED
  BY <1>2, <1>4, <1>10 DEF Match

\* n looks at the round of m and at its base only.
LEMMA TiesSeen ==
  ASSUME NEW m, NEW n, NEW w, Ties(n, m, w), NEW r, Round(r) = Round(m), r.base = m.base
  PROVE  Ties(n, r, w)
<1>1. \A f : Tie(n, r, f) <=> Tie(n, m, f)
  BY DEF Tie
<1> QED
  BY <1>1 DEF Ties

\* m keeps the commitment of n and shows its own roll.
LEMMA MatchAnswers ==
  ASSUME NEW m, NEW n, Counted(m), Counted(n), m.state = "OPENING", m.peerCommit = NoRoll,
         NEW s \in Seq(Frames), NEW w \in Seq(Frames), Match(m, n, s), Match(n, m, w),
         NEW t, Rest(s, t), Queue(t, m.game, n.base, Got(m) + 1, Told(n)),
         s[1].type = "COMMIT", s[1].game = m.game, s[1].roll[2] = n.base + Round(m),
         n.game = m.game, NEW r, Answered(m, r, s[1].roll),
         NEW c \in Frames, c.type = "REVEAL", c.game = m.game, c.roll = m.myRoll
  PROVE  Match(r, n, t) /\ Match(n, r, Append(w, c))
<1>1. PICK f : f = s[1]
  OBVIOUS
<1>2. Len(s) \in Nat /\ Len(s) > 0 /\ 1 \in 1..Len(s)
      /\ \A i \in 1..Len(t) : i + 1 \in 1..Len(s) /\ t[i] = s[i + 1]
  BY DEF Rest
<1>3. f \in Frames /\ f.roll # NoRoll
  <2>1. f \in Frames
    BY <1>1, <1>2
  <2> QED
    BY <1>1, <2>1, RollOf
<1>4. /\ r.state = "OPENING" /\ r.game = m.game /\ r.rollNo = m.rollNo /\ r.base = m.base
      /\ r.myRoll = m.myRoll /\ r.earlyReveal = m.earlyReveal /\ r.peerCommit = f.roll
  BY <1>1 DEF Answered, Only, Fields
<1>5. InRound(m) /\ InRound(r) /\ Round(r) = Round(m)
  BY <1>4 DEF InRound, Round
<1>6. Round(m) \in Nat /\ Round(m) = m.rollNo - m.base /\ Got(n) \in Int /\ Told(m) \in Int
  BY <1>5, GotTold
<1>7. Got(r) = Got(m) + 1 /\ Told(r) = Told(m) + 1 /\ Told(m) = 2 * Round(m) - 1
  <2>1. Answers(m) = 0 /\ Answers(r) = 1
    BY <1>3, <1>4 DEF Answers
  <2> QED
    BY <1>4, <1>5, <1>6, <2>1 DEF Got, Told
<1>8. Line(r, n, t)
  BY <1>4, <1>7 DEF Match, Line
<1>9. Ties(r, n, t)
  <2>1. \A e : Tie(r, n, e) <=> Tie(m, n, e)
    BY <1>4, <1>5 DEF Tie
  <2> SUFFICES ASSUME Round(n) = Round(m) + 1
               PROVE  /\ r.peerCommit[3] = r.myRoll[3]
                      /\ \A i \in 1..Len(t) : Tie(m, n, t[i])
    BY <1>4, <1>5, <2>1 DEF Ties
  <2>2. \A i \in 1..Len(s) : Tie(m, n, s[i])
    BY <1>5 DEF Match, Ties
  <2>3. Tie(m, n, f)
    BY <1>1, <1>2, <2>2
  <2> QED
    BY <1>1, <1>2, <1>4, <2>2, <2>3 DEF Tie
<1>10. Line(n, r, Append(w, c))
  <2>1. OfOpening(c, n.game) /\ Place(c, m.base) = 2 * (m.rollNo - m.base)
    BY <1>5 DEF OfOpening, Place, Counted
  <2>2. Place(c, m.base) = Told(m) + 1
    BY <1>6, <1>7, <2>1
  <2>3. Queue(w, n.game, m.base, Got(n), Told(m)) /\ m.base \in Nat
    BY DEF Match, Line, Counted
  <2>4. Queue(Append(w, c), n.game, m.base, Got(n), Told(m) + 1)
    BY <1>6, <2>1, <2>2, <2>3, QueueAppend
  <2> QED
    BY <1>4, <1>7, <2>4 DEF Match, Line
<1>11. Ties(n, r, Append(w, c))
  <2>1. Tie(n, m, c)
    BY DEF Tie
  <2>2. Ties(n, m, Append(w, c))
    BY <2>1, TiesMore DEF Match
  <2> QED
    BY <1>4, <1>5, <2>2, TiesSeen
<1> QED
  BY <1>8, <1>9, <1>10, <1>11 DEF Match

\* The reveal f of n shows the same die: both roll again, m first or last.
LEMMA MatchTied ==
  ASSUME NEW m, NEW n, Counted(m), Counted(n), m.state = "OPENING", m.peerCommit # NoRoll,
         NEW s \in Seq(Frames), NEW w \in Seq(Frames), Match(m, n, s), Match(n, m, w),
         NEW U, Side(m, n, U), NEW W, Side(n, m, W), \A i \in 1..Len(w) : w[i] \in W,
         NEW t, Queue(t, m.game, n.base, Got(m) + 1, Told(n)),
         NEW roll \in Rolls, Shown(m, n, roll), n.game = m.game,
         NEW die, NEW r, Tied(m, r, roll, die),
         NEW c \in Frames, c.type = "COMMIT", c.game = m.game, c.roll[2] = m.rollNo + 1
  PROVE  Match(r, n, t) /\ Match(n, r, Append(w, c))
<1>1. /\ r.state = "OPENING" /\ r.game = m.game /\ r.rollNo = m.rollNo + 1 /\ r.base = m.base
      /\ r.peerCommit = NoRoll /\ r.earlyReveal = NoRoll
      /\ m.peerCommit = roll /\ m.myRoll[3] = roll[3]
  BY DEF Tied, Rolled, Only, Fields, RollFields
<1>2. /\ InRound(m) /\ InRound(r) /\ m.rollNo \in Nat /\ m.base \in Nat /\ n.rollNo \in Nat /\ n.base \in Nat
      /\ roll[2] \in Nat /\ m.myRoll \in Rolls /\ m.myRoll[2] = m.rollNo
  BY <1>1, RollIs DEF InRound, Counted
<1>3. /\ Round(m) \in Nat /\ Round(m) = m.rollNo - m.base /\ Round(n) \in Nat
      /\ Got(n) \in Int /\ Told(m) \in Int
  BY <1>2, GotTold
<1>4. Round(r) = Round(m) + 1
  <2>1. Round(r) = r.rollNo - r.base
    BY <1>2 DEF Round
  <2>2. Round(r) = (m.rollNo + 1) - m.base
    BY <1>1, <2>1
  <2>3. m.rollNo \in Nat /\ m.base \in Nat /\ Round(m) = m.rollNo - m.base
    BY <1>2, <1>3
  <2> QED
    BY <2>2, <2>3
<1>5. roll[2] = n.base + Round(m) /\ Known(n, roll) /\ InRound(n) /\ Round(n) = n.rollNo - n.base
  <2>1. Said(m, n, roll)
    BY <1>1 DEF Side
  <2>2. n.base + Round(m) <= roll[2] /\ roll[2] <= n.base + Round(m) /\ Known(n, roll)
    BY <2>1 DEF Said, Shown
  <2>3. roll[2] = n.base + Round(m)
    <3>1. PICK x \in Nat, y \in Nat : x = roll[2] /\ y = n.base + Round(m)
      BY <1>2, <1>3
    <3>2. x <= y /\ y <= x
      BY <2>2, <3>1
    <3> QED
      BY <3>1, <3>2
  <2> QED
    BY <2>2, <2>3 DEF Known, Round
<1>6. Got(r) = Got(m) + 1 /\ Told(r) = Told(m) + 1 /\ Told(m) = 2 * Round(m)
  <2>1. Answers(m) = 1 /\ Answers(r) = 0
    BY <1>1 DEF Answers
  <2>2. Got(r) = 2 * Round(r) - 2 /\ Told(r) = 2 * Round(r) - 1
    BY <1>1, <1>3, <1>4, <2>1 DEF Got, Told
  <2>3. Got(m) = 2 * Round(m) - 2 + 1 /\ Told(m) = 2 * Round(m) - 1 + 1
    BY <2>1 DEF Got, Told
  <2>4. PICK k \in Nat : k = Round(m) /\ k + 1 = Round(r)
    BY <1>3, <1>4
  <2> QED
    BY <2>2, <2>3, <2>4
<1>7. Line(r, n, t)
  BY <1>1, <1>6 DEF Match, Line
<1>8. Ties(r, n, t)
  <2>1. Round(n) <= Round(m) + 1
    BY DEF Side
  <2> QED
    BY <1>3, <1>4, <2>1 DEF Ties
<1>9. Line(n, r, Append(w, c))
  <2>0. Place(c, m.base) = 2 * (c.roll[2] - m.base) - 1
    BY DEF Place
  <2>1. OfOpening(c, n.game)
    BY DEF OfOpening
  <2>2. Place(c, m.base) = Told(m) + 1
    <3>1. PICK x \in Nat, y \in Nat, z \in Nat : x = m.rollNo /\ y = m.base /\ z = Round(m)
      BY <1>2, <1>3
    <3>0. PICK j : j = c.roll[2] /\ j = x + 1
      BY <3>1
    <3>2. z = x - y /\ Told(m) = 2 * z /\ Place(c, m.base) = 2 * (j - y) - 1
      <4>1. z = x - y
        BY <1>3, <3>1
      <4>2. Told(m) = 2 * z
        BY <1>6, <3>1
      <4>3. Place(c, m.base) = 2 * (j - y) - 1
        BY <2>0, <3>0, <3>1
      <4> QED
        BY <4>1, <4>2, <4>3
    <3> QED
      BY <3>0, <3>2
  <2>3. Queue(w, n.game, m.base, Got(n), Told(m))
    BY DEF Match, Line
  <2>4. Queue(Append(w, c), n.game, m.base, Got(n), Told(m) + 1)
    BY <1>2, <1>3, <2>1, <2>2, <2>3, QueueAppend
  <2> QED
    BY <1>1, <1>6, <2>4 DEF Match, Line
<1>10. Ties(n, r, Append(w, c))
  <2>0. PICK v : v = Append(w, c)
    OBVIOUS
  <2> SUFFICES ASSUME Round(n) = Round(m) PROVE Ties(n, r, v)
    <3>1. Round(r) = Round(n) + 1 => Round(n) = Round(m)
      BY <1>3, <1>4
    <3>2. ~(Round(r) = Round(n) + 1) => Ties(n, r, v)
      BY DEF Ties
    <3> QED
      BY <2>0, <3>1, <3>2
  <2>1. roll = n.myRoll
    BY <1>2, <1>3, <1>5 DEF Known
  <2>2. m.base + Round(n) = m.rollNo
    BY <1>2, <1>3
  <2>3. ASSUME NEW k \in Rolls, Said(n, m, k) PROVE k = m.myRoll
    <3>1. k[2] \in Nat
      BY RollIs
    <3> QED
      BY <1>2, <2>2, <2>3, <3>1 DEF Said, Known
  <2>4. n.peerCommit # NoRoll => n.peerCommit = m.myRoll
    BY <2>3 DEF Side, Counted
  <2>5. n.peerCommit # NoRoll => n.peerCommit[3] = n.myRoll[3]
    BY <1>1, <2>1, <2>4
  <2>6. n.state # "ACTIVE"
    BY <2>5 DEF Side
  <2>7. Tie(n, r, c)
    BY <1>1, <1>2, <2>2 DEF Tie
  <2>8. ASSUME NEW i \in 1..Len(w) PROVE Tie(n, r, w[i])
    <3> SUFFICES ASSUME w[i].type = "COMMIT", w[i].game = n.game PROVE w[i].roll[3] = n.myRoll[3]
      BY DEF Tie
    <3>1. w[i] \in W /\ w[i] \in Frames
      OBVIOUS
    <3>2. Said(n, m, w[i].roll)
      BY <3>1 DEF Side
    <3>3. w[i].roll \in Rolls
      BY <3>1, RollOf
    <3>4. w[i].roll = m.myRoll
      BY <2>3, <3>2, <3>3
    <3> QED
      BY <1>1, <2>1, <3>4
  <2>9. Ties(n, r, w)
    BY <2>5, <2>6, <2>8 DEF Ties
  <2> QED
    BY <2>0, <2>7, <2>9, TiesMore
<1> QED
  BY <1>7, <1>8, <1>9, <1>10 DEF Match

\* The reveal of n shows another die: the opening of m is over.
LEMMA MatchFinished ==
  ASSUME NEW m, NEW n, Counted(m), Counted(n), m.state = "OPENING", m.peerCommit # NoRoll,
         NEW s \in Seq(Frames), NEW w \in Seq(Frames), Match(m, n, s), Match(n, m, w),
         NEW t, Queue(t, m.game, n.base, Got(m) + 1, Told(n)), m.myRoll[3] # m.peerCommit[3],
         NEW r, r.state = "ACTIVE", r.game = m.game, r.rollNo = m.rollNo, r.base = m.base,
         r.myRoll = m.myRoll, r.peerCommit = m.peerCommit, r.earlyReveal = m.earlyReveal
  PROVE  Match(r, n, t) /\ Match(n, r, w)
<1>1. InRound(m) /\ InRound(r) /\ Round(r) = Round(m)
  BY DEF InRound, Round
<1>2. Round(m) \in Nat
  BY GotTold
<1>3. Got(r) = Got(m) + 1 /\ Told(r) = Told(m)
  <2>1. Answers(m) = 1
    BY DEF Answers
  <2> QED
    BY <1>1, <1>2, <2>1 DEF Got, Told
<1>4. Line(r, n, t) /\ Line(n, r, w)
  BY <1>3 DEF Match, Line
<1>5. Ties(r, n, t)
  BY <1>1 DEF Match, Ties
<1>6. Ties(n, r, w)
  BY <1>1, TiesSeen DEF Match
<1> QED
  BY <1>4, <1>5, <1>6 DEF Match

\* Of a game to which m is only just invited nothing is under way.
LEMMA MatchInvited ==
  ASSUME NEW m, NEW n, m.state = "INVITED", n.state = "INVITING", n.game = m.game,
         m.earlyReveal = NoRoll, n.earlyReveal = NoRoll,
         NEW s, \A i \in 1..Len(s) : ~OfOpening(s[i], m.game),
         NEW w, \A i \in 1..Len(w) : ~OfOpening(w[i], m.game)
  PROVE  Match(m, n, s) /\ Match(n, m, w)
<1>1. Got(m) = 0 /\ Told(m) = -1 /\ Got(n) = -1 /\ Told(n) = 0
  BY DEF Got, Told
<1>2. \A k : Queue(s, m.game, k, 0, 0) /\ Queue(w, m.game, k, -1, -1)
  BY DEF Queue
<1>3. Line(m, n, s) /\ Line(n, m, w)
  BY <1>1, <1>2 DEF Line
<1>4. Ties(m, n, s) /\ Ties(n, m, w)
  BY DEF Ties, InRound
<1> QED
  BY <1>3, <1>4 DEF Match

-----------------------------------------------------------------------------
(* A whole handler, or an action of a player's own accord.                   *)

LEMMA Joined ==
  ASSUME NEW w \in Seq(Frames), NEW f \in Frames, NEW e \in Frames
  PROVE  /\ w \o <<>> = w /\ w \o Append(<<>>, f) = Append(w, f)
         /\ w \o Append(Append(<<>>, f), e) = Append(Append(w, f), e)
<1>1. PICK o : o = <<>>
  OBVIOUS
<1>2. o \in Seq(Frames) /\ Len(o) = 0
  BY <1>1
<1>3. w \o o = w
  BY <1>1
<1>4. PICK k : k = Append(o, f)
  OBVIOUS
<1>5. w \o k = Append(w, f)
  BY <1>1, <1>4
<1>6. w \o Append(k, e) = Append(Append(w, f), e)
  BY <1>1, <1>4
<1> QED
  BY <1>1, <1>3, <1>4, <1>5, <1>6

LEMMA StartedFirst ==
  ASSUME NEW m, ~InRound(m), m.me \in Players, m.game \in Nat, m.rollNo \in Nat,
         NEW die \in Nat, NEW r, Started(m, r, die), Counted(r)
  PROVE  /\ FirstRoll(m, r) /\ r.peer = m.peer
         /\ \E c \in Frames : /\ c.type = "COMMIT" /\ c.game = m.game /\ c.roll[2] = r.rollNo
                              /\ r.out = Append(m.out, c)
<1>1. /\ r.peer = m.peer /\ r.game = m.game /\ r.state = "OPENING" /\ r.base = m.rollNo
      /\ r.rollNo = m.rollNo + 1 /\ r.peerCommit = m.peerCommit /\ r.earlyReveal = m.earlyReveal
      /\ r.out = Append(m.out, RollFrame("COMMIT", m.game, r.myRoll))
  BY DEF Started, Rolled, Only, Fields, RollFields
<1>2. r.myRoll \in Rolls /\ r.myRoll[2] = r.rollNo
  <2>1. InRound(r)
    BY <1>1 DEF InRound
  <2> QED
    BY <2>1 DEF Counted
<1>3. PICK c : c = RollFrame("COMMIT", m.game, r.myRoll)
  OBVIOUS
<1>4. c \in Frames /\ c.type = "COMMIT" /\ c.game = m.game /\ c.roll = r.myRoll
  BY <1>2, <1>3, FramesAre
<1> QED
  BY <1>1, <1>2, <1>3, <1>4 DEF FirstRoll

\* m handles the first frame of its peer n that is under way.
LEMMA MatchHandled ==
  ASSUME NEW m, NEW n, Counted(m), Counted(n), m.out = <<>>, m.me \in Players, m.game \in Nat,
         n.game = m.game, m.state \in InGame, n.state \in InGame,
         NEW s \in Seq(Frames), NEW w \in Seq(Frames), Match(m, n, s), Match(n, m, w),
         NEW U, Side(m, n, U), \A i \in 1..Len(s) : s[i] \in U,
         NEW W, Side(n, m, W), \A i \in 1..Len(w) : w[i] \in W,
         NEW t, Rest(s, t), NEW die \in Nat,
         NEW r, Counted(r), r.game # 0, Handled(m, r, m.peer, s[1], die, Plays)
  PROVE  Match(r, n, t) /\ Match(n, r, w \o r.out)
<1>1. PICK f : f = s[1]
  OBVIOUS
<1>2. f \in Frames /\ f \in U
  <2>1. Len(s) > 0 /\ Len(s) \in Nat
    BY DEF Rest
  <2>2. 1 \in 1..Len(s)
    BY <2>1
  <2> QED
    BY <1>1, <2>2
<1>3. w \o m.out = w
  BY <1>2, Joined
<1>4. ASSUME ~OfOpening(f, m.game), Alike(m, r), r.out = m.out
      PROVE  Match(r, n, t) /\ Match(n, r, w \o r.out)
  <2>1. Match(m, n, t)
    BY <1>1, <1>4, MatchSkip
  <2>2. Alike(n, n)
    BY DEF Alike
  <2> QED
    BY <1>3, <1>4, <2>1, <2>2, MatchAlike
<1>5. ASSUME OfOpening(f, m.game)
      PROVE  /\ Queue(t, m.game, n.base, Got(m) + 1, Told(n))
             /\ \/ m.state = "INVITING" /\ f.type = "ACCEPT"
                \/ /\ m.state = "OPENING" /\ f.type = "COMMIT" /\ m.peerCommit = NoRoll
                   /\ f.roll[2] = n.base + Round(m)
                \/ m.state = "OPENING" /\ f.type = "REVEAL" /\ m.peerCommit # NoRoll
  BY <1>1, <1>2, <1>5, Awaited
<1>6. Mine(m, m.peer, f) <=> m.game = f.game
  BY DEF Mine
<1>7. CASE Ignored(m, r, m.peer, f)
  <2>1. r = m
    BY <1>7 DEF Ignored
  <2>2. ~OfOpening(f, m.game)
    <3> SUFFICES ASSUME OfOpening(f, m.game) PROVE FALSE
      OBVIOUS
    <3>1. Mine(m, m.peer, f)
      BY <1>6 DEF OfOpening
    <3> QED
      BY <1>5, <1>7, <3>1 DEF Ignored
  <2>3. Alike(m, m)
    BY DEF Alike
  <2> QED
    BY <1>4, <2>1, <2>2, <2>3
<1>8. CASE f.type = "ACCEPT" /\ f.game = m.game /\ m.state = "INVITING" /\ Started(m, r, die)
  <2>1. Queue(t, m.game, n.base, Got(m) + 1, Told(n))
    BY <1>5, <1>8 DEF OfOpening
  <2>2. ~InRound(m) /\ m.rollNo \in Nat
    BY <1>8 DEF InRound, Counted
  <2>3. PICK c \in Frames : /\ c.type = "COMMIT" /\ c.game = m.game /\ c.roll[2] = r.rollNo
                            /\ r.out = Append(m.out, c) /\ FirstRoll(m, r)
    BY <1>8, <2>2, StartedFirst
  <2>4. Match(r, n, t) /\ Match(n, r, Append(w, c))
    BY <1>8, <2>1, <2>3, MatchStarted
  <2>5. w \o r.out = Append(w, c)
    BY <2>3, Joined
  <2> QED
    BY <2>4, <2>5
<1>9. CASE f.type = "COMMIT" /\ f.game = m.game /\ m.state = "OPENING"
           /\ Committed(m, r, f.roll, die, Plays)
  <2>1. /\ Queue(t, m.game, n.base, Got(m) + 1, Told(n))
        /\ m.peerCommit = NoRoll /\ f.roll[2] = n.base + Round(m)
    BY <1>5, <1>9 DEF OfOpening
  <2>2. Answered(m, r, f.roll)
    BY <1>9 DEF Match, Line, Committed
  <2>3. m.myRoll \in Rolls
    BY <1>9 DEF Counted, InRound
  <2>4. PICK c : c = RollFrame("REVEAL", m.game, m.myRoll)
    OBVIOUS
  <2>5. c \in Frames /\ c.type = "REVEAL" /\ c.game = m.game /\ c.roll = m.myRoll
    BY <2>3, <2>4, FramesAre
  <2>6. Match(r, n, t) /\ Match(n, r, Append(w, c))
    BY <1>1, <1>9, <2>1, <2>2, <2>5, MatchAnswers
  <2>7. r.out = Append(m.out, c)
    BY <2>2, <2>4 DEF Answered
  <2>8. w \o r.out = Append(w, c)
    BY <2>5, <2>7, Joined
  <2> QED
    BY <2>6, <2>8
<1>10. CASE f.type = "REVEAL" /\ f.game = m.game /\ m.state = "OPENING"
            /\ Revealed(m, r, f.roll, die, Plays)
  <2>1. Queue(t, m.game, n.base, Got(m) + 1, Told(n)) /\ m.peerCommit # NoRoll
    BY <1>5, <1>10 DEF OfOpening
  <2>2. f.roll \in Rolls /\ Shown(m, n, f.roll)
    BY <1>2, <1>10, RollOf DEF Side
  <2>3. CASE Tied(m, r, f.roll, die)
    <3>1. r.state = "OPENING" /\ r.rollNo = m.rollNo + 1
          /\ r.out = Append(m.out, RollFrame("COMMIT", m.game, r.myRoll))
      BY <1>10, <2>3 DEF Tied, Rolled, Only, Fields, RollFields
    <3>2. r.myRoll \in Rolls /\ r.myRoll[2] = r.rollNo
      BY <3>1 DEF Counted, InRound
    <3>3. PICK c : c = RollFrame("COMMIT", m.game, r.myRoll)
      OBVIOUS
    <3>4. c \in Frames /\ c.type = "COMMIT" /\ c.game = m.game /\ c.roll[2] = m.rollNo + 1
      BY <3>1, <3>2, <3>3, FramesAre
    <3>5. Match(r, n, t) /\ Match(n, r, Append(w, c))
      BY <1>10, <2>1, <2>2, <2>3, <3>4, MatchTied
    <3>6. w \o r.out = Append(w, c)
      BY <3>1, <3>3, <3>4, Joined
    <3> QED
      BY <3>5, <3>6
  <2>4. CASE Finished(m, r, f.roll, Plays)
    <3>1. PICK k, first : BegunWith(m, k, first) /\ Heeds(k, r, Plays)
      BY <2>4 DEF Finished
    <3>2. /\ k.state = "ACTIVE" /\ k.game = m.game /\ k.rollNo = m.rollNo /\ k.base = m.base
          /\ k.myRoll = m.myRoll /\ k.peerCommit = m.peerCommit /\ k.earlyReveal = m.earlyReveal
          /\ k.out = m.out
      BY <3>1 DEF BegunWith, Only, Fields, BegunFields
    <3>3. /\ r.state = "ACTIVE" /\ r.game = m.game /\ r.rollNo = m.rollNo /\ r.base = m.base
          /\ r.myRoll = m.myRoll /\ r.peerCommit = m.peerCommit /\ r.earlyReveal = m.earlyReveal
          /\ r.out = m.out
      BY <3>1, <3>2 DEF Heeds, Only, Fields, EventFields
    <3>4. m.myRoll[3] # m.peerCommit[3]
      BY <2>4 DEF Finished
    <3>5. Match(r, n, t) /\ Match(n, r, w)
      BY <1>10, <2>1, <3>3, <3>4, MatchFinished
    <3> QED
      BY <1>3, <3>3, <3>5
  <2>5. ~Early(m, r, f.roll) /\ ~Accuses(m, r, f.roll)
    BY <2>1 DEF Early, Accuses, Cleared
  <2> QED
    BY <1>10, <2>3, <2>4, <2>5 DEF Revealed
<1>11. CASE f.type = "PLAY" /\ (Queued(m, r, f) \/ Heeds(m, r, Plays))
  <2>1. Alike(m, r) /\ r.out = m.out
    BY <1>11 DEF Queued, Heeds, Alike, Only, Fields, EventFields
  <2>2. ~OfOpening(f, m.game)
    BY <1>11 DEF OfOpening
  <2> QED
    BY <1>4, <2>1, <2>2
<1>12. ~Over(m, r) /\ ~Invited(m, r, m.peer, f.game)
  BY DEF Over, Cleared, Invited, InGame
<1> QED
  BY <1>1, <1>6, <1>7, <1>8, <1>9, <1>10, <1>11, <1>12 DEF Handled

FifoInv ==
  \A p, q \in Players : Opponents(p, q) => Match(gm[p], gm[q], net[q][p])

\* Who is in a game with a player.
LEMMA BothIn ==
  ASSUME Sane, NEW p \in Players, gm[p].game # 0
  PROVE  /\ gm[p].state \in InGame /\ Counted(gm[p]) /\ gm[p].game \in Nat /\ gm[p].me = p
         /\ gm[p].out = <<>> /\ gm[p].rollNo \in Nat /\ gm[p].outSeq \in Nat
<1>1. PICK m : m = gm[p]
  OBVIOUS
<1>2. Sound(p, m, 1..games) /\ m.out = <<>>
  BY <1>1 DEF Sane, Resting
<1>3. Counted(m)
  BY <1>2, SoundCounted
<1>4. m.state \in States /\ m.state # "IDLE" /\ m.game \in Nat /\ m.me = p /\ m.rollNo \in Nat /\ m.outSeq \in Nat
  BY <1>1, <1>2 DEF Sound, Typed, Coherent
<1> QED
  BY <1>1, <1>2, <1>3, <1>4 DEF States, InGame

LEMMA MatchAlone ==
  ASSUME Sane, OpeningInv, FifoInv, NEW p \in Players, NEW d, NEW r, Alone(p, d, r),
         ~Proposes(gm[p], r, d, games + 1), Counted(r),
         NEW q \in Players, r.peer = q, gm[q].peer = p, r.game = gm[q].game, r.game # 0
  PROVE  /\ Match(r, gm[q], net[q][p])
         /\ d = q => Match(gm[q], r, net[p][q] \o r.out)
         /\ d # q => Match(gm[q], r, net[p][q])
<1>1. PICK m, n, s, w : m = gm[p] /\ n = gm[q] /\ s = net[q][p] /\ w = net[p][q]
  OBVIOUS
<1>2. s \in Seq(Frames) /\ w \in Seq(Frames)
  BY <1>1 DEF Sane, NetOk
<1>3. r.game = m.game /\ r.peer = m.peer
  BY <1>1, TameAlone DEF Tame
<1>4. /\ m.state \in InGame /\ Counted(m) /\ m.game \in Nat /\ m.me = p /\ m.out = <<>>
      /\ m.rollNo \in Nat /\ m.outSeq \in Nat
      /\ n.state \in InGame /\ Counted(n) /\ n.game = m.game
  BY <1>1, <1>3, BothIn
<1>5. Opponents(p, q) /\ Opponents(q, p)
  BY <1>1, <1>3 DEF Opponents
<1>6. Match(m, n, s) /\ Match(n, m, w) /\ Side(n, m, Under(net, p, q))
  BY <1>1, <1>5 DEF FifoInv, OpeningInv
<1>7. Alike(n, n)
  BY DEF Alike
<1>8. CASE d = m.peer /\ \E die \in Dice(m) : Accepts(m, r, die)
  <2>1. PICK die \in Nat : Accepts(m, r, die)
    BY <1>8, DiceNat
  <2>2. PICK k : /\ Only(m, k, {"out"}) /\ k.out = Append(m.out, Frame("ACCEPT", m.game))
                 /\ Started(k, r, die)
    BY <2>1 DEF Accepts
  <2>3. Alike(m, k)
    BY <2>2 DEF Alike, Only, Fields
  <2>4. PICK f : f = Frame("ACCEPT", m.game)
    OBVIOUS
  <2>5. f \in Frames /\ f.type = "ACCEPT" /\ f.game = m.game
    BY <1>4, <2>4, FramesAre
  <2>6. m.state = "INVITED" /\ ~InRound(m) /\ ~InRound(k)
    BY <2>1, <2>3 DEF Accepts, InRound, Alike
  <2>7. k.me \in Players /\ k.game \in Nat /\ k.rollNo \in Nat /\ k.game = m.game
    BY <1>4, <2>3 DEF Alike
  <2>8. PICK c \in Frames : /\ c.type = "COMMIT" /\ c.game = k.game /\ c.roll[2] = r.rollNo
                            /\ r.out = Append(k.out, c) /\ FirstRoll(k, r)
    BY <2>2, <2>6, <2>7, StartedFirst
  <2>9. FirstRoll(m, r)
    BY <2>3, <2>6, <2>8 DEF FirstRoll, Alike
  <2>10. Match(r, n, s) /\ Match(n, r, Append(Append(w, f), c))
    BY <1>2, <1>4, <1>6, <2>5, <2>6, <2>7, <2>8, <2>9, MatchAccepts
  <2>11. w \o r.out = Append(Append(w, f), c)
    BY <1>2, <1>4, <2>2, <2>4, <2>5, <2>8, Joined
  <2> QED
    BY <1>1, <1>3, <1>8, <2>10, <2>11
<1>9. CASE Declines(m, r) \/ Leaves(m, r)
  BY <1>9 DEF Declines, Leaves, Cleared
<1>10. CASE d = Nobody /\ Shows(m, r)
  <2>1. Alike(m, r)
    BY <1>10 DEF Shows, Alike, Only, Fields
  <2>2. d # q
    BY <1>10, ConstantsAssumption
  <2> QED
    BY <1>1, <1>6, <1>7, <2>1, <2>2, MatchAlike
<1>11. CASE d = m.peer /\ \E last \in BOOLEAN : \E f : Taps(m, r, f, last)
  <2>1. PICK last \in BOOLEAN : \E f : Taps(m, r, f, last)
    BY <1>11
  <2>2. PICK f : Taps(m, r, f, last)
    BY <2>1
  <2>3. Alike(m, r) /\ r.out = Append(m.out, f)
    BY <2>2 DEF Taps, Alike, Only, Fields
  <2>4. f \in Frames /\ f.type = "PLAY"
    <3>1. PICK kind \in {"ROLL", "MOVE"} : f = PlayFrame(m.game, m.outSeq, kind, last)
      BY <2>2 DEF Taps
    <3> QED
      BY <1>4, <3>1 DEF PlayFrame, Frames, Plays
  <2>5. ~OfOpening(f, n.game)
    BY <2>4 DEF OfOpening
  <2>6. Match(n, m, Append(w, f))
    BY <1>2, <1>4, <1>6, <2>4, <2>5, MatchMore
  <2>7. Match(r, n, s) /\ Match(n, r, Append(w, f))
    BY <1>6, <1>7, <2>3, <2>6, MatchAlike
  <2>8. w \o r.out = Append(w, f)
    BY <1>2, <1>4, <2>3, <2>4, Joined
  <2> QED
    BY <1>1, <1>3, <1>11, <2>7, <2>8
<1> QED
  BY <1>1, <1>8, <1>9, <1>10, <1>11 DEF Alone

-----------------------------------------------------------------------------
(* A step over the tunnel: p reads the first frame of a player, or acts of    *)
(* his own accord, and what it sends comes after all that is under way.      *)

Sends(p, d, r, x, y) ==
  net'[x][y] = IF x = p /\ y = d THEN net[x][y] \o r.out ELSE net[x][y]
ReadsFirst(p, d, r, q, die) ==
  /\ d = gm[p].peer /\ games' = games /\ die \in Nat
  /\ Handled(gm[p], r, q, net[q][p][1], die, Plays)
  /\ Rest(net[q][p], net'[q][p])
  /\ \A x, y \in Players : ~(x = q /\ y = p) => Sends(p, d, r, x, y)
Ordered(p, d, r) ==
  /\ Sound(p, r, 1..games') /\ Rested(r, gm'[p]) /\ \A x \in Players \ {p} : gm'[x] = gm[x]
  /\ \/ Alone(p, d, r) /\ \A x, y \in Players : Sends(p, d, r, x, y)
     \/ \E q \in Players \ {p} : \E die : ReadsFirst(p, d, r, q, die)

LEMMA SendingIs ==
  ASSUME NEW G, NEW N, NetOk(N, G), NEW p \in Players, NEW d \in Players, NEW o
  PROVE  \A x, y \in Players :
           Sending(N, p, d, o)[x][y] = IF x = p /\ y = d THEN N[x][y] \o o ELSE N[x][y]
<1>1. PICK t : t = N[p][d] \o o
  OBVIOUS
<1>2. PICK M : M = Sending(N, p, d, o)
  OBVIOUS
<1>3. M = [N EXCEPT ![p][d] = t]
  BY <1>1, <1>2 DEF Sending
<1>4. M[p][d] = t /\ \A x, y \in Players : ~(x = p /\ y = d) => M[x][y] = N[x][y]
  BY <1>3 DEF NetOk
<1> QED
  BY <1>1, <1>2, <1>4

\* The first of the frames is read.
LEMMA FirstRead ==
  ASSUME NEW s \in Seq(Frames), NEW i \in 1..Len(s), i <= 1
  PROVE  i = 1 /\ Rest(s, RemoveAt(s, i))
<1>1. i = 1 /\ Len(s) \in Nat /\ s # <<>>
  OBVIOUS
<1>2. PICK t : t = RemoveAt(s, i)
  OBVIOUS
<1>3. /\ t \in Seq(Frames) /\ Len(t) = Len(s) - 1
      /\ \A j \in 1..Len(t) : t[j] = IF j < i THEN s[j] ELSE s[j + 1]
  BY <1>2, Removed
<1>4. \A j \in 1..Len(t) : t[j] = s[j + 1]
  BY <1>1, <1>3
<1> QED
  BY <1>1, <1>2, <1>3, <1>4 DEF Rest

LEMMA FifoTurns ==
  ASSUME Overtakes = 0, MaxRepeats = 0, Sane, Once, Next
  PROVE  \E p \in Players : \E d \in People \ {p} : \E r : Ordered(p, d, r)
<1>1. PICK p \in Players : \E d \in People \ {p} : \E r, N : Turn(p, d, r, N)
  BY Turns
<1>2. PICK d \in People \ {p} : \E r, N : Turn(p, d, r, N)
  BY <1>1
<1>3. PICK r, N : Turn(p, d, r, N)
  BY <1>2
<1>4. /\ Sound(p, r, 1..games') /\ Record(r) /\ NetOk(N, 1..games') /\ Becomes(p, d, r, N)
  BY <1>3 DEF Turn, Sound
<1>5. /\ Rested(r, gm'[p]) /\ \A x \in Players \ {p} : gm'[x] = gm[x]
      /\ d = Nobody => net' = N
      /\ d # Nobody => d \in Players /\ net' = Sending(N, p, d, r.out)
  BY <1>4, BecomesIs DEF Sane
<1>6. NetOk(net, 1..games)
  BY DEF Sane
<1>7. ASSUME NEW x \in Players, NEW y \in Players
      PROVE  net'[x][y] = IF x = p /\ y = d THEN N[x][y] \o r.out ELSE N[x][y]
  <2>1. CASE d = Nobody
    <3>1. y # d
      BY <2>1, ConstantsAssumption
    <3> QED
      BY <1>5, <2>1, <3>1
  <2>2. CASE d # Nobody
    <3>1. d \in Players /\ net' = Sending(N, p, d, r.out)
      BY <1>5, <2>2
    <3> QED
      BY <1>4, <3>1, SendingIs
  <2> QED
    BY <2>1, <2>2
<1>8. CASE N = net /\ Alone(p, d, r)
  BY <1>4, <1>5, <1>7, <1>8 DEF Ordered, Sends
<1>9. ASSUME NEW q \in Players \ {p}, NEW i \in 1..Len(net[q][p]), NEW again \in BOOLEAN,
             NEW die \in Dice(gm[p]), NEW f \in Frames, Reads(p, d, r, N, q, i, again, die, f)
      PROVE  Ordered(p, d, r)
  <2>1. PICK s \in Seq(Frames) : s = net[q][p]
    BY <1>6 DEF NetOk
  <2>2. repeats \in Nat /\ ~(repeats < MaxRepeats)
    BY DEF Once
  <2>3. /\ N = Taking(net, q, p, i) /\ f = s[i] /\ i <= 1 /\ d = gm[p].peer /\ games' = games
        /\ Handled(gm[p], r, q, f, die, Plays)
    BY <1>9, <2>1, <2>2 DEF Reads, Receives
  <2>4. i = 1 /\ Rest(s, RemoveAt(s, i))
    BY <2>1, <2>3, FirstRead
  <2>5. /\ N[q][p] = RemoveAt(s, i)
        /\ \A x, y \in Players : ~(x = q /\ y = p) => N[x][y] = net[x][y]
    BY <1>6, <2>1, <2>3, TakingIs
  <2>6. net'[q][p] = N[q][p]
    BY <1>7
  <2>7. die \in Nat
    BY DiceNat
  <2>8. \A x, y \in Players : ~(x = q /\ y = p) => Sends(p, d, r, x, y)
    BY <1>7, <2>5 DEF Sends
  <2>9. ReadsFirst(p, d, r, q, die)
    BY <2>1, <2>3, <2>4, <2>5, <2>6, <2>7, <2>8 DEF ReadsFirst
  <2> QED
    BY <1>4, <1>5, <2>9 DEF Ordered
<1> QED
  BY <1>3, <1>8, <1>9 DEF Turn

\* p reads the first frame of x; q is then its peer.
LEMMA MatchReads ==
  ASSUME Sane, Fresh, OpeningInv, FifoInv, NEW p \in Players, NEW d, NEW r, Counted(r),
         NEW x \in Players \ {p}, NEW die, ReadsFirst(p, d, r, x, die),
         NEW q \in Players \ {p}, r.peer = q, gm[q].peer = p, r.game = gm[q].game, r.game # 0
  PROVE  Match(r, gm[q], net'[q][p]) /\ Match(gm[q], r, net'[p][q])
<1>1. PICK m, n, s, w, t, v, f :
        /\ m = gm[p] /\ n = gm[q] /\ s = net[q][p] /\ w = net[p][q]
        /\ t = net'[q][p] /\ v = net'[p][q] /\ f = net[x][p][1]
  OBVIOUS
<1>2. s \in Seq(Frames) /\ w \in Seq(Frames) /\ net[x][p] \in Seq(Frames)
  BY <1>1 DEF Sane, NetOk
<1>3. Handled(m, r, x, f, die, Plays) /\ d = m.peer /\ die \in Nat
  BY <1>1 DEF ReadsFirst
<1>4. /\ v = IF q = d THEN w \o r.out ELSE w
      /\ x # q => t = s
      /\ x = q => Rest(s, t)
  <2>1. Sends(p, d, r, p, q) /\ (x # q => Sends(p, d, r, q, p))
    BY DEF ReadsFirst
  <2> QED
    BY <1>1, <2>1 DEF ReadsFirst, Sends
<1>5. /\ Sound(p, m, 1..games) /\ Resting(m) /\ 1..games \in SUBSET (Nat \ {0})
      /\ Sound(q, n, 1..games)
  <2>1. games \in Nat
    BY DEF Sane
  <2>2. 1..games \in SUBSET (Nat \ {0})
    BY <2>1
  <2> QED
    BY <1>1, <2>2 DEF Sane
<1>6. m.out = <<>>
  BY <1>5 DEF Resting
<1>7. /\ \A i \in 1..Len(s) : s[i] \in Under(net, q, p)
      /\ \A i \in 1..Len(w) : w[i] \in Under(net, p, q)
  BY <1>1, <1>2, SetOf DEF Under
<1>8. CASE f.type = "INVITE" /\ Invited(m, r, x, f.game)
  <2>1. /\ x = q /\ r.game = f.game /\ r.state = "INVITED" /\ m.state = "IDLE"
        /\ r.earlyReveal = m.earlyReveal /\ r.peerCommit = m.peerCommit
    BY <1>8 DEF Invited, Only, Fields
  <2>2. Len(s) \in Nat /\ Len(s) > 0 /\ 1 \in 1..Len(s) /\ f = s[1]
        /\ \A i \in 1..Len(t) : i + 1 \in 1..Len(s) /\ t[i] = s[i + 1]
    <3>1. Rest(s, t) /\ f = s[1]
      BY <1>1, <1>4, <2>1
    <3>2. Len(s) \in Nat /\ Len(s) > 0 /\ Len(t) = Len(s) - 1
      BY <1>2, <3>1 DEF Rest
    <3> QED
      BY <3>1, <3>2 DEF Rest
  <2>3. f \in Under(net, q, p)
    BY <1>7, <2>2
  <2>4. f.game \in Games /\ Asks(net, q, p, f.game)
    BY <1>8, <2>3, UnderIs DEF Asks
  <2>5. /\ n.state = "INVITING" /\ n.game = f.game
        /\ \A e \in Under(net, p, q) : e.game # f.game
        /\ \A e \in Under(net, q, p) : e.game = f.game => e.type \in {"INVITE", "END"}
    <3>1. gm[q].game = f.game
      BY <2>1
    <3>2. /\ gm[q].game = f.game => gm[q].state = "INVITING"
          /\ \A e \in Under(net, p, q) : e.game # f.game
          /\ \A e \in Under(net, q, p) : e.game = f.game => e.type \in {"INVITE", "END"}
      BY <2>4 DEF Fresh
    <3> QED
      BY <1>1, <3>1, <3>2
  <2>6. m.earlyReveal = NoRoll /\ n.earlyReveal = NoRoll /\ m.peer = Nobody
    BY <1>5, <2>1, <2>5 DEF Sound, Coherent
  <2>7. v = w
    BY <1>3, <1>4, <2>6, ConstantsAssumption
  <2>8. /\ \A i \in 1..Len(t) : ~OfOpening(t[i], r.game)
        /\ \A i \in 1..Len(v) : ~OfOpening(v[i], r.game)
    BY <1>7, <2>1, <2>2, <2>5, <2>7 DEF OfOpening
  <2>9. Match(r, n, t) /\ Match(n, r, v)
    BY <1>1, <2>1, <2>5, <2>6, <2>8, MatchInvited
  <2> QED
    BY <1>1, <2>9
<1>9. CASE ~(f.type = "INVITE" /\ Invited(m, r, x, f.game))
  <2>1. r.game = m.game /\ r.peer = m.peer
    <3>1. Tame(m.game, m.peer, r)
      BY <1>3, <1>5, <1>6, <1>9, TameHandled
    <3> QED
      BY <3>1 DEF Tame
  <2>2. /\ m.state \in InGame /\ Counted(m) /\ m.game \in Nat /\ m.me \in Players
        /\ n.state \in InGame /\ Counted(n) /\ n.game = m.game
    BY <1>1, <2>1, BothIn
  <2>3. Opponents(p, q) /\ Opponents(q, p)
    BY <1>1, <2>1 DEF Opponents
  <2>4. /\ Match(m, n, s) /\ Match(n, m, w)
        /\ Side(m, n, Under(net, q, p)) /\ Side(n, m, Under(net, p, q))
    BY <1>1, <2>3 DEF FifoInv, OpeningInv
  <2>5. v = w \o r.out
    BY <1>3, <1>4, <2>1
  <2>6. CASE x = q
    <3>1. Rest(s, t) /\ f = s[1] /\ Handled(m, r, m.peer, s[1], die, Plays)
      BY <1>1, <1>3, <1>4, <2>1, <2>6
    <3>2. Match(r, n, t) /\ Match(n, r, w \o r.out)
      BY <1>2, <1>3, <1>6, <1>7, <2>2, <2>4, <3>1, MatchHandled
    <3> QED
      BY <1>1, <2>5, <3>2
  <2>7. CASE x # q
    <3>1. r = m
      BY <1>3, <1>9, <2>1, <2>7 DEF Handled, Ignored, Mine
    <3>2. \E e : e \in Frames
      BY FramesAre
    <3>3. w \o <<>> = w
      BY <1>2, <3>2, Joined
    <3> QED
      BY <1>1, <1>4, <1>6, <2>4, <2>5, <2>7, <3>1, <3>3
  <2> QED
    BY <2>6, <2>7
<1> QED
  BY <1>8, <1>9

LEMMA FifoStep ==
  ASSUME Sane, Fresh, OpeningInv, FifoInv,
         NEW p \in Players, NEW d \in People \ {p}, NEW r, Ordered(p, d, r)
  PROVE  FifoInv'
<1>1. PICK y : y = gm'[p]
  OBVIOUS
<1>2. /\ Alike(r, y) /\ y.peer = r.peer /\ y.game = r.game
      /\ \A x \in Players \ {p} : gm'[x] = gm[x]
      /\ Sound(p, r, 1..games')
  BY <1>1 DEF Ordered, Rested, Only, Fields, Alike
<1>3. Counted(r) /\ r.peer # p
  <2>1. Counted(r)
    BY <1>2, SoundCounted
  <2> QED
    BY <1>2, <2>1 DEF Sound, Typed
<1>4. ASSUME NEW q \in Players \ {p}, r.peer = q, gm[q].peer = p, r.game = gm[q].game
      PROVE  Match(r, gm[q], net'[q][p]) /\ Match(gm[q], r, net'[p][q])
  <2>1. gm[q].game # 0 /\ gm[q].game <= games /\ games \in Nat
    BY <1>4, ConstantsAssumption DEF Sane, Sound, Typed, Coherent
  <2>2. CASE Alone(p, d, r) /\ \A x, z \in Players : Sends(p, d, r, x, z)
    <3>1. ~Proposes(gm[p], r, d, games + 1)
      BY <1>4, <2>1 DEF Proposes
    <3>2. /\ Match(r, gm[q], net[q][p])
          /\ d = q => Match(gm[q], r, net[p][q] \o r.out)
          /\ d # q => Match(gm[q], r, net[p][q])
      BY <1>3, <1>4, <2>1, <2>2, <3>1, MatchAlone
    <3>3. Sends(p, d, r, q, p) /\ Sends(p, d, r, p, q)
      BY <2>2
    <3> QED
      BY <3>2, <3>3 DEF Sends
  <2>3. ASSUME NEW x \in Players \ {p}, NEW die, ReadsFirst(p, d, r, x, die)
        PROVE  Match(r, gm[q], net'[q][p]) /\ Match(gm[q], r, net'[p][q])
    BY <1>3, <1>4, <2>1, <2>3, MatchReads
  <2> QED
    BY <2>2, <2>3 DEF Ordered
<1>5. ASSUME NEW x \in Players, NEW z \in Players, Opponents(x, z)'
      PROVE  Match(gm'[x], gm'[z], net'[z][x])
  <2>1. gm'[x].peer = z /\ gm'[z].peer = x /\ gm'[x].game = gm'[z].game
    BY <1>5 DEF Opponents
  <2>2. CASE x = p
    <3>1. z # p /\ gm'[z] = gm[z] /\ r.peer = z /\ gm[z].peer = p /\ r.game = gm[z].game
      BY <1>1, <1>2, <1>3, <2>1, <2>2
    <3>2. Match(r, gm[z], net'[z][p]) /\ Alike(gm[z], gm[z])
      BY <1>4, <3>1 DEF Alike
    <3> QED
      BY <1>1, <1>2, <2>2, <3>1, <3>2, MatchAlike
  <2>3. CASE z = p
    <3>1. x # p /\ gm'[x] = gm[x] /\ r.peer = x /\ gm[x].peer = p /\ r.game = gm[x].game
      BY <1>1, <1>2, <1>3, <2>1, <2>3
    <3>2. Match(gm[x], r, net'[p][x]) /\ Alike(gm[x], gm[x])
      BY <1>4, <3>1 DEF Alike
    <3> QED
      BY <1>1, <1>2, <2>3, <3>1, <3>2, MatchAlike
  <2>4. CASE x # p /\ z # p
    <3>1. gm'[x] = gm[x] /\ gm'[z] = gm[z] /\ Match(gm[x], gm[z], net[z][x])
      BY <1>2, <2>1, <2>4 DEF FifoInv, Opponents
    <3>2. CASE \A k, h \in Players : Sends(p, d, r, k, h)
      <4>1. net'[z][x] = net[z][x]
        BY <2>4, <3>2 DEF Sends
      <4> QED
        BY <3>1, <4>1
    <3>3. ASSUME NEW q \in Players \ {p}, NEW die, ReadsFirst(p, d, r, q, die)
          PROVE  net'[z][x] = net[z][x]
      <4>1. Sends(p, d, r, z, x)
        BY <2>4, <3>3 DEF ReadsFirst
      <4> QED
        BY <2>4, <4>1 DEF Sends
    <3> QED
      BY <3>1, <3>2, <3>3 DEF Ordered
  <2> QED
    BY <2>2, <2>3, <2>4
<1> QED
  BY <1>5 DEF FifoInv

-----------------------------------------------------------------------------
(* The theorems.                                                             *)

TunnelInv == OnceInv /\ OpeningInv /\ FifoInv

LEMMA TunnelInit == Init => TunnelInv
<1> SUFFICES ASSUME Init PROVE TunnelInv
  OBVIOUS
<1>1. \A x \in Players : gm[x].peer = Nobody
  BY DEF Init, Idle
<1>2. \A x, y \in Players : ~Opponents(x, y)
  BY <1>1, ConstantsAssumption DEF Opponents
<1> QED
  BY <1>2, OnceInit, OpeningInit DEF TunnelInv, FifoInv

LEMMA TunnelKept ==
  ASSUME Overtakes = 0, MaxRepeats = 0, TunnelInv, [Next]_vars
  PROVE  TunnelInv'
<1>1. OnceInv' /\ OpeningInv'
  BY OpeningKept DEF TunnelInv
<1>2. CASE UNCHANGED vars
  <2>1. FifoInv'
    BY <1>2 DEF vars, TunnelInv, FifoInv, Opponents
  <2> QED
    BY <1>1, <2>1 DEF TunnelInv
<1>3. CASE Next
  <2>1. Sane /\ Once /\ Fresh
    BY DEF TunnelInv, OnceInv
  <2>2. \E p \in Players : \E d \in People \ {p} : \E r : Ordered(p, d, r)
    BY <1>3, <2>1, FifoTurns
  <2>3. FifoInv'
    BY <2>1, <2>2, FifoStep DEF TunnelInv
  <2> QED
    BY <1>1, <2>3 DEF TunnelInv
<1> QED
  BY <1>2, <1>3

\* With nothing under way, each player has handled all that its peer has sent
\* in the opening: none can be one frame ahead of the other.
LEMMA NobodyAhead ==
  ASSUME NEW m, NEW n, Counted(m), Counted(n), n.state \in InGame,
         Match(m, n, <<>>), Match(n, m, <<>>)
  PROVE  m.state # "OPENING"
<1> SUFFICES ASSUME m.state = "OPENING" PROVE FALSE
  OBVIOUS
<1>1. /\ Got(m) \in Int /\ Told(m) \in Int /\ Got(n) \in Int /\ Told(n) \in Int
      /\ Round(m) \in Nat /\ Round(m) >= 1 /\ Round(n) \in Nat /\ (InRound(n) => Round(n) >= 1)
      /\ Answers(m) \in {0, 1} /\ Answers(n) \in {0, 1}
  BY GotTold DEF InRound
<1>2. ASSUME NEW g, NEW k, NEW lo \in Int, NEW hi \in Int, Queue(<<>>, g, k, lo, hi) PROVE lo = hi
  <2>1. Len(<<>>) = 0
    OBVIOUS
  <2>2. \A x \in (lo + 1)..hi : FALSE
    BY <1>2, <2>1 DEF Queue
  <2>3. lo <= hi
    BY <1>2 DEF Queue
  <2>4. CASE lo < hi
    <3>1. lo + 1 \in (lo + 1)..hi
      BY <2>4
    <3> QED
      BY <2>2, <3>1
  <2> QED
    BY <2>3, <2>4
<1>3. Got(m) = Told(n) /\ Got(n) = Told(m)
  BY <1>1, <1>2 DEF Match, Line
<1>4. Told(m) = Got(m) + 1 /\ Told(m) >= 1
  BY <1>1 DEF Got, Told
<1>5. Got(n) = Told(n) + 1 /\ Got(n) >= 1
  BY <1>1, <1>3, <1>4
<1>6. n.state = "INVITED"
  BY <1>1, <1>5 DEF Got, Told, InGame
<1> QED
  BY <1>5, <1>6 DEF Got

LEMMA TunnelGoesOn ==
  ASSUME TunnelInv
  PROVE  OpeningNeverStalls
<1> SUFFICES ASSUME NEW p \in Players, NEW q \in Players, Opponents(p, q), Quiet(p, q)
             PROVE  gm[p].state # "OPENING"
  BY DEF OpeningNeverStalls
<1>1. PICK m, n : m = gm[p] /\ n = gm[q]
  OBVIOUS
<1>2. Opponents(q, p) /\ m.game = n.game
  BY <1>1 DEF Opponents
<1>3. Match(m, n, <<>>) /\ Match(n, m, <<>>)
  BY <1>1, <1>2 DEF TunnelInv, FifoInv, Quiet
<1>4. Sane /\ Sound(p, m, 1..games) /\ Sound(q, n, 1..games)
  BY <1>1 DEF TunnelInv, OnceInv, Sane
<1>5. Counted(m) /\ Counted(n)
  BY <1>4, SoundCounted
<1>6. CASE m.game = 0
  BY <1>1, <1>4, <1>6 DEF Sound, Coherent
<1>7. CASE m.game # 0
  <2>1. n.state \in InGame
    BY <1>1, <1>2, <1>4, <1>7, BothIn
  <2> QED
    BY <1>1, <1>3, <1>5, <2>1, NobodyAhead
<1> QED
  BY <1>6, <1>7

\* An opening roll goes on while both players are in it, however many ties it
\* takes and whatever was played before: over a tunnel that keeps the order of
\* frames and repeats none, handleGameEvent throws no frame of it away.
THEOREM OpeningGoesOn == Overtakes = 0 /\ MaxRepeats = 0 => (Spec => []OpeningNeverStalls)
<1> SUFFICES ASSUME Overtakes = 0, MaxRepeats = 0 PROVE Spec => []OpeningNeverStalls
  OBVIOUS
<1>1. TunnelInv /\ [Next]_vars => TunnelInv'
  BY TunnelKept
<1> QED
  BY <1>1, TunnelInit, TunnelGoesOn, PTL DEF Spec

\* The same of the tunnel that the run explores beside the loose one.
THEOREM FifoGoesOn == Overtakes = 0 /\ MaxRepeats = 0 => (MCSpec => []FifoNeverStalls)
<1> SUFFICES ASSUME Overtakes = 0, MaxRepeats = 0 PROVE MCSpec => []FifoNeverStalls
  OBVIOUS
<1> DEFINE Inv == tunnel = "fifo" => TunnelInv
<1>1. MCInit => Inv
  BY TunnelInit DEF MCInit
<1>2. Inv /\ [MCNext]_<<vars, tunnel>> => Inv'
  <2> SUFFICES ASSUME Inv, [MCNext]_<<vars, tunnel>>, tunnel' = "fifo" PROVE TunnelInv'
    OBVIOUS
  <2>1. tunnel = "fifo" /\ [Next]_vars
    BY DEF MCNext
  <2> QED
    BY <2>1, TunnelKept
<1>3. Inv => FifoNeverStalls
  BY TunnelGoesOn DEF FifoNeverStalls
<1> QED
  BY <1>1, <1>2, <1>3, PTL DEF MCSpec

\* Over that tunnel late frames of former games and of third players do not end
\* the game of a player.
THEOREM FifoGamesLeftAlone == MaxRepeats = 0 => (MCSpec => FifoUndisturbed)
<1> SUFFICES ASSUME MaxRepeats = 0 PROVE MCSpec => FifoUndisturbed
  OBVIOUS
<1> DEFINE Inv == tunnel = "fifo" => OnceInv
<1>1. MCInit => Inv
  BY OnceInit DEF MCInit
<1>2. ASSUME Inv, [MCNext]_<<vars, tunnel>> PROVE Inv' /\ [tunnel = "fifo" => LeftAlone]_vars
  <2>1. tunnel' = tunnel /\ (tunnel = "fifo" => [Next]_vars)
    BY <1>2 DEF MCNext
  <2>2. CASE tunnel = "fifo"
    <3>1. OnceInv /\ [Next]_vars
      BY <1>2, <2>1, <2>2
    <3>2. OnceInv'
      BY <3>1, OnceStep, OnceStays
    <3>3. [tunnel = "fifo" => LeftAlone]_vars
      BY <3>1, OnceLeaves
    <3> QED
      BY <2>1, <3>2, <3>3
  <2>3. CASE tunnel # "fifo"
    BY <2>1, <2>3
  <2> QED
    BY <2>2, <2>3
<1> QED
  BY <1>1, <1>2, PTL DEF MCSpec, FifoUndisturbed

=============================================================================
