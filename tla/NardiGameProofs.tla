--------------------------- MODULE NardiGameProofs ---------------------------
(***************************************************************************)
(* Proofs about NardiGame for any players, windows and bounds.              *)
(***************************************************************************)
EXTENDS NardiGame, WellFoundedInduction, FiniteSetTheorems, TLAPS

-----------------------------------------------------------------------------
(* The loops of drainBuffer and finishOpening.                              *)

\* Induction over a set of numbers.
LEMMA Induct ==
  ASSUME NEW T, 0 \in T, \A k \in Nat : k \in T => k + 1 \in T
  PROVE  \A k \in Nat : k \in T
<1> SUFFICES ASSUME NEW n \in Nat, n \notin T PROVE FALSE
  OBVIOUS
<1>1. PICK x \in Nat \ T : \A y \in Nat \ T : ~(y < x)
  <2>1. PICK x \in Nat \ T : \A y \in Nat \ T : <<y, x>> \notin OpToRel(<, Nat)
    BY NatLessThanWellFounded, WFMin, Zenon
  <2> QED
    BY <2>1, Zenon DEF OpToRel
<1>2. x # 0 /\ x - 1 \in Nat
  BY <1>1
<1>3. x - 1 \in T
  BY <1>1, <1>2
<1> QED
  BY <1>1, <1>2, <1>3

\* The rounds of drainBuffer on the record m.
Rounds(m, n, f) == f = [k \in 0..n |-> IF k = 0 THEN m ELSE DrainOne(f[k - 1])]

LEMMA RoundsExist ==
  ASSUME NEW m
  PROVE  \A n \in Nat : \E f : Rounds(m, n, f)
<1> DEFINE T == {n \in Nat : \E f : Rounds(m, n, f)}
<1>1. 0 \in T
  <2>1. PICK f : f = [k \in 0..0 |-> m]
    OBVIOUS
  <2>2. f = [k \in 0..0 |-> IF k = 0 THEN m ELSE DrainOne(f[k - 1])]
    BY <2>1
  <2> QED
    BY <2>2 DEF Rounds
<1>2. ASSUME NEW n \in Nat, n \in T PROVE n + 1 \in T
  <2>1. PICK g : g = [k \in 0..n |-> IF k = 0 THEN m ELSE DrainOne(g[k - 1])]
    BY <1>2 DEF Rounds
  <2>2. PICK f : f = [k \in 0..(n + 1) |-> IF k <= n THEN g[k] ELSE DrainOne(g[n])]
    OBVIOUS
  <2>3. ASSUME NEW k \in 0..(n + 1) PROVE f[k] = IF k = 0 THEN m ELSE DrainOne(f[k - 1])
    <3>1. CASE k = 0
      BY <2>1, <2>2, <3>1
    <3>2. CASE k # 0 /\ k <= n
      <4>1. f[k] = g[k] /\ f[k - 1] = g[k - 1] /\ k \in 0..n
        BY <2>2, <3>2
      <4>2. g[k] = DrainOne(g[k - 1])
        BY <2>1, <3>2, <4>1
      <4> QED
        BY <3>2, <4>1, <4>2
    <3>3. CASE k = n + 1
      BY <2>2, <3>3
    <3> QED
      BY <3>1, <3>2, <3>3
  <2>4. f = [k \in 0..(n + 1) |-> IF k = 0 THEN m ELSE DrainOne(f[k - 1])]
    BY <2>2, <2>3
  <2> QED
    BY <2>4 DEF Rounds
<1>3. \A n \in Nat : n \in T
  <2> HIDE DEF T
  <2> QED
    BY <1>1, <1>2, Induct
<1> QED
  BY <1>3

\* What drainBuffer leaves is the last of its rounds.
LEMMA DrainRounds ==
  ASSUME NEW m
  PROVE  \E f : Rounds(m, MAX_BUFFERED, f) /\ DrainBuffer(m) = f[MAX_BUFFERED]
<1>1. MAX_BUFFERED \in Nat
  BY ConstantsAssumption
<1>2. \E f : f = [k \in 0..MAX_BUFFERED |-> IF k = 0 THEN m ELSE DrainOne(f[k - 1])]
  BY <1>1, RoundsExist DEF Rounds
<1> DEFINE d == CHOOSE f : f = [k \in 0..MAX_BUFFERED |-> IF k = 0 THEN m ELSE DrainOne(f[k - 1])]
<1>3. d = [k \in 0..MAX_BUFFERED |-> IF k = 0 THEN m ELSE DrainOne(d[k - 1])]
  BY <1>2, Zenon
<1>4. DrainBuffer(m) = d[MAX_BUFFERED]
  BY Zenon DEF DrainBuffer
<1> QED
  BY <1>3, <1>4 DEF Rounds

\* The same of the loop over openingQueue.
Fed(m, q, n, f) == f = [k \in 0..n |-> IF k = 0 THEN m ELSE ProcessIncomingEvent(f[k - 1], q[k])]

LEMMA FedExists ==
  ASSUME NEW m, NEW q
  PROVE  \A n \in Nat : \E f : Fed(m, q, n, f)
<1> DEFINE T == {n \in Nat : \E f : Fed(m, q, n, f)}
<1>1. 0 \in T
  <2>1. PICK f : f = [k \in 0..0 |-> m]
    OBVIOUS
  <2>2. f = [k \in 0..0 |-> IF k = 0 THEN m ELSE ProcessIncomingEvent(f[k - 1], q[k])]
    BY <2>1
  <2> QED
    BY <2>2 DEF Fed
<1>2. ASSUME NEW n \in Nat, n \in T PROVE n + 1 \in T
  <2>1. PICK g : g = [k \in 0..n |-> IF k = 0 THEN m ELSE ProcessIncomingEvent(g[k - 1], q[k])]
    BY <1>2 DEF Fed
  <2>2. PICK f : f = [k \in 0..(n + 1) |-> IF k <= n THEN g[k]
                                           ELSE ProcessIncomingEvent(g[n], q[n + 1])]
    OBVIOUS
  <2>3. ASSUME NEW k \in 0..(n + 1)
        PROVE  f[k] = IF k = 0 THEN m ELSE ProcessIncomingEvent(f[k - 1], q[k])
    <3>1. CASE k = 0
      BY <2>1, <2>2, <3>1
    <3>2. CASE k # 0 /\ k <= n
      <4>1. f[k] = g[k] /\ f[k - 1] = g[k - 1] /\ k \in 0..n
        BY <2>2, <3>2
      <4>2. g[k] = ProcessIncomingEvent(g[k - 1], q[k])
        BY <2>1, <3>2, <4>1
      <4> QED
        BY <3>2, <4>1, <4>2
    <3>3. CASE k = n + 1
      BY <2>2, <3>3
    <3> QED
      BY <3>1, <3>2, <3>3
  <2>4. f = [k \in 0..(n + 1) |-> IF k = 0 THEN m ELSE ProcessIncomingEvent(f[k - 1], q[k])]
    BY <2>2, <2>3
  <2> QED
    BY <2>4 DEF Fed
<1>3. \A n \in Nat : n \in T
  <2> HIDE DEF T
  <2> QED
    BY <1>1, <1>2, Induct
<1> QED
  BY <1>3

LEMMA FeedLast ==
  ASSUME NEW m, NEW q, Len(q) \in Nat
  PROVE  \E f : Fed(m, q, Len(q), f) /\ Feed(m, q) = f[Len(q)]
<1>1. \E f : f = [k \in 0..Len(q) |-> IF k = 0 THEN m ELSE ProcessIncomingEvent(f[k - 1], q[k])]
  <2>1. \E f : Fed(m, q, Len(q), f)
    BY FedExists
  <2> QED
    BY <2>1, Zenon DEF Fed
<1> DEFINE d == CHOOSE f : f = [k \in 0..Len(q) |-> IF k = 0 THEN m
                                                    ELSE ProcessIncomingEvent(f[k - 1], q[k])]
<1>2. d = [k \in 0..Len(q) |-> IF k = 0 THEN m ELSE ProcessIncomingEvent(d[k - 1], q[k])]
  BY <1>1, Zenon
<1>3. Feed(m, q) = d[Len(q)]
  BY Zenon DEF Feed
<1> QED
  BY <1>2, <1>3 DEF Fed

-----------------------------------------------------------------------------
(* What the values are made of, and what the handlers change in a record.   *)

States == {"IDLE", "INVITING", "INVITED", "OPENING", "ACTIVE"}
People == Players \cup {Nobody}
Rolls == Players \X Nat \X Nat
Plays == [type : {"PLAY"}, game : Nat, seq : Nat, kind : {"ROLL", "MOVE"}, last : BOOLEAN]
Frames == [type : {"INVITE", "ACCEPT", "END"}, game : Nat]
          \cup [type : {"COMMIT", "REVEAL"}, game : Nat, roll : Rolls] \cup Plays

Fields == {"me", "state", "peer", "game", "white", "rollNo", "base", "myRoll", "peerCommit",
           "earlyReveal", "openingQueue", "outSeq", "expectedSeq", "eventBuffer", "screen",
           "closing", "turn", "dice", "first", "out", "given", "accuses"}
Record(m) == m = [x \in Fields |-> m[x]]

\* A record that differs from m in the fields S only.
Only(m, r, S) == Record(r) /\ \A x \in Fields \ S : r[x] = m[x]

\* The fields that events change, and those that resetToIdle clears.
EventFields == {"turn", "dice", "expectedSeq", "eventBuffer", "given"}
GameFields == {"state", "peer", "game", "outSeq", "expectedSeq", "eventBuffer", "earlyReveal",
               "openingQueue", "peerCommit", "first"}
RollFields == {"rollNo", "myRoll", "out"}

LEMMA SendOnly ==
  ASSUME NEW m, Record(m), NEW f
  PROVE  Only(m, Send(m, f), {"out"}) /\ Send(m, f).out = Append(m.out, f)
BY DEF Send, Record, Fields, Only

LEMMA ResetOnly ==
  ASSUME NEW m, Record(m)
  PROVE  LET r == ResetToIdle(m) IN
         /\ Only(m, r, GameFields)
         /\ r.state = "IDLE" /\ r.peer = Nobody /\ r.game = 0 /\ r.outSeq = 0 /\ r.expectedSeq = 0
         /\ r.eventBuffer = {} /\ r.earlyReveal = NoRoll /\ r.openingQueue = <<>>
         /\ r.peerCommit = NoRoll /\ r.first = Nobody
BY ZenonT(40) DEF ResetToIdle, Record, Fields, Only, GameFields

LEMMA EndOnly ==
  ASSUME NEW m, Record(m)
  PROVE  LET r == EndGame(m) IN
         /\ Only(m, r, GameFields \cup {"out"})
         /\ r.out = Append(m.out, Frame("END", m.game))
         /\ r.state = "IDLE" /\ r.peer = Nobody /\ r.game = 0 /\ r.outSeq = 0 /\ r.expectedSeq = 0
         /\ r.eventBuffer = {} /\ r.earlyReveal = NoRoll /\ r.openingQueue = <<>>
         /\ r.peerCommit = NoRoll /\ r.first = Nobody
<1>1. PICK s : s = Send(m, Frame("END", m.game))
  OBVIOUS
<1>2. Only(m, s, {"out"}) /\ s.out = Append(m.out, Frame("END", m.game))
  BY <1>1, SendOnly
<1>3. Record(s)
  BY <1>2 DEF Only
<1> QED
  BY <1>1, <1>2, <1>3, ResetOnly DEF EndGame, Only, GameFields, Fields

LEMMA RollOnly ==
  ASSUME NEW m, Record(m), NEW die
  PROVE  LET r == StartOpeningRoll(m, die) IN
         /\ Only(m, r, RollFields) /\ r.rollNo = m.rollNo + 1
         /\ r.myRoll = <<m.me, m.rollNo + 1, die>>
         /\ r.out = Append(m.out, RollFrame("COMMIT", m.game, r.myRoll))
<1>1. PICK roll : roll = <<m.me, m.rollNo + 1, die>>
  OBVIOUS
<1>2. PICK s : s = [m EXCEPT !.rollNo = @ + 1, !.myRoll = roll]
  OBVIOUS
<1>3. Only(m, s, {"rollNo", "myRoll"}) /\ s.rollNo = m.rollNo + 1 /\ s.myRoll = roll
  BY <1>2 DEF Record, Fields, Only
<1>4. StartOpeningRoll(m, die) = Send(s, RollFrame("COMMIT", m.game, roll))
  BY <1>1, <1>2 DEF StartOpeningRoll
<1>5. Record(s)
  BY <1>3 DEF Only
<1>6. PICK r : r = StartOpeningRoll(m, die)
  OBVIOUS
<1>7. Only(s, r, {"out"}) /\ r.out = Append(s.out, RollFrame("COMMIT", m.game, roll))
  BY <1>4, <1>5, <1>6, SendOnly
<1>8. s.out = m.out
  BY <1>3 DEF Only, Fields
<1>9. r.rollNo = m.rollNo + 1 /\ r.myRoll = roll
  BY <1>3, <1>7 DEF Only, Fields
<1>10. Only(m, r, RollFields)
  BY <1>3, <1>7 DEF Only, RollFields, Fields
<1> QED
  BY <1>1, <1>6, <1>7, <1>8, <1>9, <1>10

LEMMA StartOnly ==
  ASSUME NEW m, Record(m), NEW die
  PROVE  LET r == StartGame(m, die) IN
         /\ Only(m, r, RollFields \cup {"state", "base", "turn", "dice", "screen"})
         /\ r.rollNo = m.rollNo + 1 /\ r.base = m.rollNo
         /\ r.myRoll = <<m.me, m.rollNo + 1, die>>
         /\ r.out = Append(m.out, RollFrame("COMMIT", m.game, r.myRoll))
         /\ r.state = "OPENING" /\ r.turn = Nobody /\ r.dice = FALSE /\ r.screen = "starting"
<1>1. PICK s : s = [m EXCEPT !.state = "OPENING", !.base = m.rollNo, !.turn = Nobody,
                             !.dice = FALSE, !.screen = "starting"]
  OBVIOUS
<1>2. /\ Only(m, s, {"state", "base", "turn", "dice", "screen"})
      /\ s.state = "OPENING" /\ s.base = m.rollNo /\ s.turn = Nobody /\ s.dice = FALSE
      /\ s.screen = "starting"
  BY <1>1 DEF Record, Fields, Only
<1>3. Record(s)
  BY <1>2 DEF Only
<1>4. StartGame(m, die) = StartOpeningRoll(s, die)
  BY <1>1 DEF StartGame
<1>5. s.me = m.me /\ s.rollNo = m.rollNo /\ s.game = m.game /\ s.out = m.out
  BY <1>2 DEF Only, Fields
<1> QED
  BY <1>2, <1>3, <1>4, <1>5, RollOnly DEF Only, RollFields, Fields

LEMMA OnBoardOnly ==
  ASSUME NEW m, Record(m), NEW e
  PROVE  LET r == OnBoard(m, e) IN
         /\ Only(m, r, {"turn", "dice"})
         /\ \/ r = m
            \/ m.turn = m.peer /\ r.dice = ~e.last /\ r.turn = IF e.last THEN m.me ELSE m.turn
         /\ m.screen = "open" /\ m.turn = m.peer /\ m.dice = (e.kind = "MOVE")
              => r.dice = ~e.last /\ r.turn = IF e.last THEN m.me ELSE m.turn
<1>1. CASE m.screen # "open" \/ m.turn # m.peer \/ m.dice # (e.kind = "MOVE")
  BY <1>1 DEF OnBoard, Only
<1>2. CASE ~(m.screen # "open" \/ m.turn # m.peer \/ m.dice # (e.kind = "MOVE"))
  <2>1. OnBoard(m, e) = [m EXCEPT !.dice = ~e.last, !.turn = IF e.last THEN m.me ELSE m.turn]
    BY <1>2, Zenon DEF OnBoard
  <2> QED
    BY <1>2, <2>1 DEF Record, Fields, Only
<1> QED
  BY <1>1, <1>2, Zenon

LEMMA ApplyOnly ==
  ASSUME NEW m, Record(m), NEW e
  PROVE  LET r == ApplyEvent(m, e) IN
         /\ Only(m, r, {"turn", "dice", "given", "expectedSeq"})
         /\ r.given = Append(m.given, e) /\ r.expectedSeq = m.expectedSeq + 1
         /\ r.turn = OnBoard(m, e).turn /\ r.dice = OnBoard(m, e).dice
<1>1. PICK s : s = OnBoard(m, e)
  OBVIOUS
<1>2. Only(m, s, {"turn", "dice"})
  BY <1>1, OnBoardOnly
<1>3. ApplyEvent(m, e) = [s EXCEPT !.given = Append(s.given, e), !.expectedSeq = s.expectedSeq + 1]
  BY <1>1 DEF ApplyEvent
<1>4. s.given = m.given /\ s.expectedSeq = m.expectedSeq /\ Record(s)
  BY <1>2 DEF Only, Fields
<1>5. PICK r : r = ApplyEvent(m, e)
  OBVIOUS
<1>6. Only(s, r, {"given", "expectedSeq"}) /\ r.given = Append(m.given, e) /\ r.expectedSeq = m.expectedSeq + 1
  BY <1>3, <1>4, <1>5, ZenonT(40) DEF Record, Fields, Only
<1> QED
  BY <1>1, <1>2, <1>5, <1>6 DEF Only, Fields

-----------------------------------------------------------------------------
(* What events do to a record: those of E that reach the board are the next *)
(* ones, and the buffer holds events of E that are still early.             *)

\* Events of one turn of the peer, on a board that has rolled or not.
InTurn(dice, s) ==
  \A i \in 1..Len(s) : /\ s[i].kind = "MOVE" <=> i > 1 \/ dice
                       /\ i < Len(s) => ~s[i].last
\* In the peer's turn the board follows the events of this turn.
Boarded(m, r) ==
  /\ r.given = <<>> => r.turn = m.turn /\ r.dice = m.dice
  /\ r.given # <<>> /\ m.screen = "open" /\ m.turn = m.peer /\ InTurn(m.dice, r.given)
       => /\ r.dice = ~r.given[Len(r.given)].last
          /\ r.turn = IF r.given[Len(r.given)].last THEN m.me ELSE m.turn

Heeds(m, r, E) ==
  /\ Only(m, r, EventFields)
  /\ r.given \in Seq(E) /\ r.expectedSeq = m.expectedSeq + Len(r.given)
  /\ \A i \in 1..Len(r.given) : r.given[i].seq = m.expectedSeq + i - 1
  /\ r.eventBuffer \subseteq E
  /\ r.turn \in {m.turn, m.me} /\ r.dice \in BOOLEAN
  /\ \A e \in m.eventBuffer : e \in r.eventBuffer \/ e.seq < r.expectedSeq
  /\ Boarded(m, r)

\* Events that are waiting keep waiting until they are due.
Keeps(s, r) ==
  /\ s.expectedSeq <= r.expectedSeq
  /\ \A b \in s.eventBuffer : b \in r.eventBuffer \/ b.seq < r.expectedSeq
\* The event e was applied or waits, or it was beyond the window after n.
Reaches(n, r, e) ==
  \/ e.seq < r.expectedSeq
  \/ \E b \in r.eventBuffer : b.seq = e.seq
  \/ e.seq > n + MAX_BUFFERED

\* Buffered events have different numbers, from the awaited one to hi.
Between(m, hi) ==
  /\ \A e \in m.eventBuffer : m.expectedSeq <= e.seq /\ e.seq <= hi
  /\ \A e, f \in m.eventBuffer : e.seq = f.seq => e = f
\* The awaited event is not in the buffer.
Settled(m) == \A e \in m.eventBuffer : e.seq # m.expectedSeq
Window(m) == Between(m, m.expectedSeq + MAX_BUFFERED) /\ Settled(m)

LEMMA HeedsApply ==
  ASSUME NEW m, Record(m), m.expectedSeq \in Nat, m.eventBuffer \subseteq Plays,
         NEW E \in SUBSET Plays, NEW s, Heeds(m, s, E), NEW e \in E, e.seq = s.expectedSeq,
         NEW B, B \subseteq s.eventBuffer, \A x \in s.eventBuffer \ B : x.seq <= s.expectedSeq
  PROVE  LET r == ApplyEvent([s EXCEPT !.eventBuffer = B], e) IN
         /\ Heeds(m, r, E) /\ r.eventBuffer = B /\ r.expectedSeq = s.expectedSeq + 1
         /\ Keeps(s, r)
<1>1. PICK t : t = [s EXCEPT !.eventBuffer = B]
  OBVIOUS
<1>2. Record(s) /\ Only(m, s, EventFields)
  BY DEF Heeds, Only
<1>3. Only(s, t, {"eventBuffer"}) /\ t.eventBuffer = B
  BY <1>1, <1>2 DEF Record, Fields, Only
<1>4. Record(t)
  BY <1>3 DEF Only
<1>5. PICK r : r = ApplyEvent(t, e)
  OBVIOUS
<1>6. /\ Only(t, r, {"turn", "dice", "given", "expectedSeq"})
      /\ r.given = Append(t.given, e) /\ r.expectedSeq = t.expectedSeq + 1
      /\ r.turn = OnBoard(t, e).turn /\ r.dice = OnBoard(t, e).dice
  BY <1>4, <1>5, ApplyOnly
<1>7. /\ Only(t, OnBoard(t, e), {"turn", "dice"})
      /\ \/ OnBoard(t, e) = t
         \/ t.turn = t.peer /\ OnBoard(t, e).dice = ~e.last
            /\ OnBoard(t, e).turn = IF e.last THEN t.me ELSE t.turn
      /\ t.screen = "open" /\ t.turn = t.peer /\ t.dice = (e.kind = "MOVE")
           => /\ OnBoard(t, e).dice = ~e.last
              /\ OnBoard(t, e).turn = IF e.last THEN t.me ELSE t.turn
  BY <1>4, OnBoardOnly, Zenon
<1>8. Only(m, r, EventFields)
  BY <1>2, <1>3, <1>6 DEF Only, Fields, EventFields
<1>9. t.given = s.given /\ t.expectedSeq = s.expectedSeq /\ t.turn = s.turn /\ t.dice = s.dice
      /\ t.me = m.me /\ r.eventBuffer = B /\ t.screen = m.screen /\ t.peer = m.peer
  BY <1>2, <1>3, <1>6 DEF Only, Fields, EventFields
<1>10. /\ s.given \in Seq(E) /\ s.expectedSeq = m.expectedSeq + Len(s.given)
       /\ \A i \in 1..Len(s.given) : s.given[i].seq = m.expectedSeq + i - 1
       /\ s.eventBuffer \subseteq E
       /\ s.turn \in {m.turn, m.me} /\ s.dice \in BOOLEAN
       /\ \A x \in m.eventBuffer : x \in s.eventBuffer \/ x.seq < s.expectedSeq
       /\ Boarded(m, s)
  BY DEF Heeds
<1>11. r.given \in Seq(E) /\ Len(r.given) = Len(s.given) + 1 /\ Len(s.given) \in Nat
       /\ r.given[Len(s.given) + 1] = e
       /\ \A i \in 1..Len(s.given) : r.given[i] = s.given[i]
  BY <1>6, <1>9, <1>10
<1>12. r.expectedSeq = m.expectedSeq + Len(r.given)
  <2>1. r.expectedSeq = s.expectedSeq + 1 /\ s.expectedSeq = m.expectedSeq + Len(s.given)
    BY <1>6, <1>9, <1>10
  <2> QED
    BY <1>11, <2>1
<1>13. ASSUME NEW i \in 1..Len(r.given) PROVE r.given[i].seq = m.expectedSeq + i - 1
  <2>1. CASE i \in 1..Len(s.given)
    BY <2>1, <1>10, <1>11
  <2>2. CASE i = Len(s.given) + 1
    BY <2>2, <1>10, <1>11
  <2> QED
    BY <2>1, <2>2, <1>11
<1>14. e.last \in BOOLEAN
  BY DEF Plays
<1>15. r.turn \in {m.turn, m.me} /\ r.dice \in BOOLEAN
  BY <1>6, <1>7, <1>9, <1>10, <1>14
<1>16. r.eventBuffer \subseteq E
  BY <1>9, <1>10
<1>17. \A x \in m.eventBuffer : x \in r.eventBuffer \/ x.seq < r.expectedSeq
  <2> SUFFICES ASSUME NEW x \in m.eventBuffer, x \notin B PROVE x.seq < s.expectedSeq + 1
    BY <1>6, <1>9
  <2>1. CASE x \in s.eventBuffer
    <3>1. x.seq <= s.expectedSeq /\ x.seq \in Nat
      BY <1>10, <2>1 DEF Plays
    <3> QED
      BY <3>1, <1>10, <1>11
  <2>2. CASE x \notin s.eventBuffer
    <3>1. x.seq < s.expectedSeq /\ x.seq \in Nat
      BY <1>10, <2>2 DEF Plays
    <3> QED
      BY <3>1, <1>10, <1>11
  <2> QED
    BY <2>1, <2>2
<1>18. Boarded(m, r)
  <2>1. PICK o, n : o = r.given /\ n = s.given
    OBVIOUS
  <2>2. /\ Len(o) = Len(n) + 1 /\ Len(n) \in Nat /\ o[Len(n) + 1] = e /\ o # <<>>
        /\ \A i \in 1..Len(n) : o[i] = n[i]
    BY <1>11, <2>1
  <2>3. SUFFICES ASSUME m.screen = "open", m.turn = m.peer, InTurn(m.dice, o)
                 PROVE  r.dice = ~e.last /\ r.turn = IF e.last THEN m.me ELSE m.turn
    BY <2>1, <2>2 DEF Boarded
  <2> DEFINE Due(i) == (o[i].kind = "MOVE" <=> i > 1 \/ m.dice) /\ (i < Len(o) => ~o[i].last)
  <2>0. \A i \in 1..Len(o) : Due(i)
    BY <2>3, Zenon DEF InTurn
  <2>4. (e.kind = "MOVE") <=> (Len(n) + 1 > 1 \/ m.dice)
    <3>1. PICK i : i = Len(n) + 1
      OBVIOUS
    <3>2. i \in 1..Len(o) /\ o[i] = e
      BY <2>2, <3>1
    <3>3. Due(i)
      BY <2>0, <3>2
    <3>4. (o[i].kind = "MOVE") <=> (i > 1 \/ m.dice)
      BY <3>3
    <3> QED
      BY <3>1, <3>2, <3>4
  <2>5. s.turn = m.turn /\ (s.dice <=> e.kind = "MOVE")
    <3>1. CASE n = <<>>
      <4>1. Len(n) = 0
        BY <3>1
      <4> QED
        BY <1>10, <2>1, <2>4, <3>1, <4>1 DEF Boarded
    <3>2. CASE n # <<>>
      <4>1. Len(n) >= 1
        BY <1>10, <2>1, <3>2
      <4>2. InTurn(m.dice, n) /\ ~n[Len(n)].last
        <5>1. ASSUME NEW i \in 1..Len(n)
              PROVE  /\ n[i].kind = "MOVE" <=> i > 1 \/ m.dice
                     /\ ~n[i].last
          <6>1. i \in 1..Len(o) /\ i < Len(o) /\ o[i] = n[i]
            BY <2>2
          <6>2. Due(i)
            BY <2>0, <6>1
          <6> QED
            BY <6>1, <6>2
        <5> QED
          BY <2>2, <4>1, <5>1 DEF InTurn
      <4>3. s.dice = ~n[Len(n)].last /\ s.turn = IF n[Len(n)].last THEN m.me ELSE m.turn
        BY <1>10, <2>1, <2>3, <3>2, <4>2 DEF Boarded
      <4>4. s.dice = TRUE /\ s.turn = m.turn
        BY <4>2, <4>3
      <4>5. e.kind = "MOVE"
        <5>1. Len(n) + 1 > 1
          BY <2>2, <4>1
        <5> QED
          BY <2>4, <5>1
      <4> QED
        BY <4>4, <4>5
    <3> QED
      BY <3>1, <3>2
  <2>6. t.dice = (e.kind = "MOVE")
    BY <1>9, <1>10, <2>5
  <2> QED
    BY <1>6, <1>7, <1>9, <2>3, <2>5, <2>6
<1>19. Heeds(m, r, E)
  BY <1>8, <1>11, <1>12, <1>13, <1>15, <1>16, <1>17, <1>18 DEF Heeds
<1>20. Keeps(s, r)
  <2>1. s.expectedSeq \in Nat /\ r.expectedSeq = s.expectedSeq + 1
    BY <1>6, <1>9, <1>10, <1>11
  <2>2. \A x \in s.eventBuffer : x.seq \in Nat
    BY <1>10 DEF Plays
  <2> QED
    BY <1>9, <2>1, <2>2 DEF Keeps
<1> QED
  BY <1>1, <1>5, <1>6, <1>9, <1>19, <1>20

LEMMA HeedsItself ==
  ASSUME NEW m, Record(m), m.given = <<>>, m.expectedSeq \in Nat, m.dice \in BOOLEAN,
         NEW E, m.eventBuffer \subseteq E
  PROVE  Heeds(m, m, E)
BY DEF Heeds, Only, Boarded

LEMMA KeepsOn ==
  ASSUME NEW m, NEW s, Keeps(m, s), NEW r, Keeps(s, r), m.expectedSeq \in Nat,
         s.expectedSeq \in Nat, r.expectedSeq \in Nat, m.eventBuffer \subseteq Plays
  PROVE  Keeps(m, r)
<1>1. \A b \in m.eventBuffer : b.seq \in Nat
  BY DEF Plays
<1> QED
  BY <1>1 DEF Keeps

\* One round of drainBuffer: an event leaves the buffer, or none is awaited.
LEMMA HeedsDrainOne ==
  ASSUME NEW m, Record(m), m.expectedSeq \in Nat, m.eventBuffer \subseteq Plays,
         NEW E \in SUBSET Plays, NEW s, Heeds(m, s, E), NEW hi \in Nat, Between(s, hi)
  PROVE  LET r == DrainOne(s) IN
         /\ Heeds(m, r, E) /\ Between(r, hi) /\ Keeps(s, r)
         /\ \/ r = s /\ Settled(s)
            \/ ~Settled(s) /\ r.expectedSeq = s.expectedSeq + 1
<1>1. CASE \E b \in s.eventBuffer : b.seq = s.expectedSeq
  <2>1. PICK e : e = CHOOSE b \in s.eventBuffer : b.seq = s.expectedSeq
    OBVIOUS
  <2>2. e \in s.eventBuffer /\ e.seq = s.expectedSeq
    BY <1>1, <2>1
  <2>3. PICK B : B = s.eventBuffer \ {e}
    OBVIOUS
  <2>4. DrainOne(s) = ApplyEvent([s EXCEPT !.eventBuffer = B], e)
    BY <1>1, <2>1, <2>3 DEF DrainOne
  <2>5. s.eventBuffer \subseteq E /\ s.expectedSeq \in Nat
    BY DEF Heeds
  <2>6. e \in E /\ B \subseteq s.eventBuffer
    BY <2>2, <2>3, <2>5
  <2>7. \A x \in s.eventBuffer \ B : x.seq <= s.expectedSeq
    BY <2>2, <2>3, <2>5
  <2>8. PICK r : r = DrainOne(s)
    OBVIOUS
  <2>9. Heeds(m, r, E) /\ r.eventBuffer = B /\ r.expectedSeq = s.expectedSeq + 1 /\ Keeps(s, r)
    BY <2>2, <2>4, <2>6, <2>7, <2>8, HeedsApply
  <2>10. \A x \in B : x.seq # s.expectedSeq /\ x.seq \in Nat
    BY <2>2, <2>3, <2>5 DEF Between, Plays
  <2>11. Between(r, hi)
    BY <2>3, <2>5, <2>9, <2>10 DEF Between
  <2>12. ~Settled(s)
    BY <2>2 DEF Settled
  <2> QED
    BY <2>8, <2>9, <2>11, <2>12
<1>2. CASE ~\E b \in s.eventBuffer : b.seq = s.expectedSeq
  <2>1. DrainOne(s) = s
    BY <1>2 DEF DrainOne
  <2>2. Keeps(s, s)
    BY DEF Keeps, Heeds
  <2> QED
    BY <1>2, <2>1, <2>2 DEF Settled
<1> QED
  BY <1>1, <1>2, Zenon

\* drainBuffer leaves no event that is due.
LEMMA HeedsDrain ==
  ASSUME NEW m, Record(m), m.expectedSeq \in Nat, m.eventBuffer \subseteq Plays,
         NEW E \in SUBSET Plays, NEW s, Heeds(m, s, E),
         Between(s, s.expectedSeq + MAX_BUFFERED - 1)
  PROVE  LET r == DrainBuffer(s) IN
         Heeds(m, r, E) /\ Window(r) /\ s.expectedSeq <= r.expectedSeq /\ Keeps(s, r)
<1>1. MAX_BUFFERED \in Nat /\ s.expectedSeq \in Nat
  BY ConstantsAssumption DEF Heeds
<1>2. PICK hi : hi = s.expectedSeq + MAX_BUFFERED - 1
  OBVIOUS
<1>3. PICK f : Rounds(s, MAX_BUFFERED, f) /\ DrainBuffer(s) = f[MAX_BUFFERED]
  BY DrainRounds
<1> DEFINE Good(k) == /\ Heeds(m, f[k], E) /\ Between(f[k], hi)
                      /\ Keeps(s, f[k])
                      /\ Settled(f[k]) \/ s.expectedSeq + k <= f[k].expectedSeq
           T == {k \in Nat : k <= MAX_BUFFERED => Good(k)}
<1>4. CASE MAX_BUFFERED = 0
  <2>1. \A b \in s.eventBuffer : FALSE
    BY <1>1, <1>4 DEF Between, Heeds, Plays
  <2>2. DrainBuffer(s) = s
    BY <1>3, <1>4 DEF Rounds
  <2> QED
    BY <1>1, <2>1, <2>2 DEF Window, Between, Settled, Keeps
<1>5. CASE MAX_BUFFERED # 0
  <2>0. hi \in Nat
    BY <1>1, <1>2, <1>5
  <2>1. 0 \in T
    <3>1. f[0] = s
      BY <1>1, <1>3 DEF Rounds
    <3>2. Keeps(s, s)
      BY <1>1 DEF Keeps
    <3> QED
      BY <1>1, <1>2, <3>1, <3>2
  <2>2. ASSUME NEW k \in Nat, k \in T PROVE k + 1 \in T
    <3> SUFFICES ASSUME k + 1 <= MAX_BUFFERED PROVE Good(k + 1)
      OBVIOUS
    <3>1. Good(k)
      BY <1>1, <2>2
    <3>2. f[k + 1] = DrainOne(f[k])
      BY <1>1, <1>3 DEF Rounds
    <3>3. PICK x : x = f[k]
      OBVIOUS
    <3>4. PICK y : y = f[k + 1]
      OBVIOUS
    <3>5. /\ Heeds(m, x, E) /\ Between(x, hi) /\ Keeps(s, x)
          /\ Settled(x) \/ s.expectedSeq + k <= x.expectedSeq
      BY <3>1, <3>3
    <3>6. y = DrainOne(x)
      BY <3>2, <3>3, <3>4
    <3>7. /\ Heeds(m, y, E) /\ Between(y, hi) /\ Keeps(x, y)
          /\ \/ y = x /\ Settled(x)
             \/ ~Settled(x) /\ y.expectedSeq = x.expectedSeq + 1
      BY <2>0, <3>5, <3>6, HeedsDrainOne
    <3>8. x.expectedSeq \in Nat /\ y.expectedSeq \in Nat
      BY <3>5, <3>7 DEF Heeds
    <3>10. Keeps(s, y)
      <4>1. s.eventBuffer \subseteq Plays
        BY DEF Heeds
      <4> QED
        BY <1>1, <3>5, <3>7, <3>8, <4>1, KeepsOn
    <3>9. (Settled(y) \/ s.expectedSeq + (k + 1) <= y.expectedSeq)
      <4>1. CASE y = x /\ Settled(x)
        BY <1>1, <3>5, <4>1
      <4>2. CASE y.expectedSeq = x.expectedSeq + 1 /\ s.expectedSeq + k <= x.expectedSeq
        BY <1>1, <3>8, <4>2
      <4> QED
        BY <3>5, <3>7, <4>1, <4>2
    <3> QED
      BY <3>4, <3>7, <3>9, <3>10
  <2>3. \A k \in Nat : k \in T
    <3> HIDE DEF T
    <3> QED
      BY <2>1, <2>2, Induct
  <2>4. Good(MAX_BUFFERED)
    BY <1>1, <2>3
  <2>5. PICK r : r = DrainBuffer(s)
    OBVIOUS
  <2>6. /\ Heeds(m, r, E) /\ Between(r, hi) /\ Keeps(s, r)
        /\ Settled(r) \/ s.expectedSeq + MAX_BUFFERED <= r.expectedSeq
    BY <1>3, <2>4, <2>5
  <2>7. r.expectedSeq \in Nat /\ r.eventBuffer \subseteq Plays
    BY <2>6 DEF Heeds
  <2>8. Window(r)
    <3>1. \A b \in r.eventBuffer : b.seq \in Nat
      BY <2>7 DEF Plays
    <3>2. Settled(r)
      BY <1>1, <1>2, <2>6, <2>7, <3>1 DEF Between, Settled
    <3> QED
      BY <1>1, <1>2, <2>6, <2>7, <3>1, <3>2, SMTT(20) DEF Window, Between, Keeps
  <2>9. s.expectedSeq <= r.expectedSeq
    BY <2>6 DEF Keeps
  <2> QED
    BY <2>5, <2>6, <2>8, <2>9
<1> QED
  BY <1>4, <1>5

\* An event that comes is applied, buffered, repeated or beyond the window.
LEMMA HeedsProcess ==
  ASSUME NEW m, Record(m), m.expectedSeq \in Nat, m.eventBuffer \subseteq Plays,
         NEW E \in SUBSET Plays, NEW s, Heeds(m, s, E), Window(s), NEW e \in E
  PROVE  LET r == ProcessIncomingEvent(s, e) IN
         /\ Heeds(m, r, E) /\ Window(r) /\ Keeps(s, r)
         /\ Reaches(s.expectedSeq, r, e)
<1>0. Keeps(s, s)
  BY DEF Keeps, Heeds
<1>1. MAX_BUFFERED \in Nat /\ s.expectedSeq \in Nat /\ e.seq \in Nat
  BY ConstantsAssumption DEF Heeds, Plays
<1>2. PICK r : r = ProcessIncomingEvent(s, e)
  OBVIOUS
<1>3. CASE e.seq > s.expectedSeq + MAX_BUFFERED
  <2>1. r = s
    BY <1>1, <1>2, <1>3 DEF ProcessIncomingEvent
  <2> QED
    BY <1>0, <1>1, <1>2, <1>3, <2>1 DEF Reaches
<1>4. CASE e.seq < s.expectedSeq
  <2>1. r = s
    BY <1>1, <1>2, <1>4 DEF ProcessIncomingEvent
  <2> QED
    BY <1>0, <1>1, <1>2, <1>4, <2>1 DEF Reaches
<1>5. CASE e.seq = s.expectedSeq
  <2>1. PICK t : t = ApplyEvent([s EXCEPT !.eventBuffer = s.eventBuffer], e)
    OBVIOUS
  <2>2. Record(s)
    BY DEF Heeds, Only
  <2>3. [s EXCEPT !.eventBuffer = s.eventBuffer] = s
    BY <2>2 DEF Record, Fields
  <2>4. t = ApplyEvent(s, e)
    BY <2>1, <2>3
  <2>5. r = DrainBuffer(t)
    BY <1>1, <1>2, <1>5, <2>4 DEF ProcessIncomingEvent
  <2>6. /\ Heeds(m, t, E) /\ t.eventBuffer = s.eventBuffer
        /\ t.expectedSeq = s.expectedSeq + 1 /\ Keeps(s, t)
    <3>1. PICK B : B = s.eventBuffer
      OBVIOUS
    <3>2. B \subseteq s.eventBuffer /\ \A x \in s.eventBuffer \ B : x.seq <= s.expectedSeq
      BY <3>1
    <3>3. t = ApplyEvent([s EXCEPT !.eventBuffer = B], e)
      BY <2>1, <3>1
    <3> QED
      BY <1>5, <3>1, <3>2, <3>3, HeedsApply
  <2>7. \A b \in s.eventBuffer : b.seq \in Nat
    BY DEF Heeds, Plays
  <2>8. Between(t, t.expectedSeq + MAX_BUFFERED - 1)
    BY <1>1, <2>6, <2>7 DEF Window, Between, Settled
  <2>9. /\ Heeds(m, r, E) /\ Window(r) /\ t.expectedSeq <= r.expectedSeq /\ Keeps(t, r)
    BY <2>5, <2>6, <2>8, HeedsDrain
  <2>10. r.expectedSeq \in Nat /\ t.expectedSeq \in Nat /\ s.eventBuffer \subseteq Plays
    BY <2>6, <2>9 DEF Heeds
  <2>11. Keeps(s, r)
    BY <1>1, <2>6, <2>9, <2>10, KeepsOn
  <2>12. Reaches(s.expectedSeq, r, e)
    BY <1>1, <1>5, <2>6, <2>9, <2>10 DEF Reaches
  <2> QED
    BY <1>2, <2>9, <2>11, <2>12
<1>6. CASE e.seq > s.expectedSeq /\ ~(e.seq > s.expectedSeq + MAX_BUFFERED)
  <2>1. PICK B : B = IF \E b \in s.eventBuffer : b.seq = e.seq THEN s.eventBuffer
                     ELSE s.eventBuffer \cup {e}
    OBVIOUS
  <2>2. r = [s EXCEPT !.eventBuffer = B]
    BY <1>1, <1>2, <1>6, <2>1 DEF ProcessIncomingEvent
  <2>3. Record(s) /\ Only(m, s, EventFields)
    BY DEF Heeds, Only
  <2>4. Only(s, r, {"eventBuffer"}) /\ r.eventBuffer = B
    BY <2>2, <2>3 DEF Record, Fields, Only
  <2>5. /\ r.given = s.given /\ r.expectedSeq = s.expectedSeq /\ r.turn = s.turn
        /\ r.dice = s.dice
    BY <2>4 DEF Only, Fields
  <2>6. Only(m, r, EventFields)
    BY <2>3, <2>4 DEF Only, Fields, EventFields
  <2>7. s.eventBuffer \subseteq B /\ B \subseteq s.eventBuffer \cup {e}
    BY <2>1
  <2>8. Heeds(m, r, E)
    BY <2>4, <2>5, <2>6, <2>7 DEF Heeds, Boarded
  <2>9. \A b \in s.eventBuffer : b.seq \in Nat
    BY DEF Heeds, Plays
  <2>10. \A b \in B : b.seq \in Nat /\ b.seq # s.expectedSeq
                      /\ s.expectedSeq <= b.seq /\ b.seq <= s.expectedSeq + MAX_BUFFERED
    BY <1>1, <1>6, <2>7, <2>9 DEF Window, Between, Settled
  <2>11. \A x, y \in B : x.seq = y.seq => x = y
    <3>1. CASE \E b \in s.eventBuffer : b.seq = e.seq
      BY <2>1, <3>1 DEF Window, Between
    <3>2. CASE ~\E b \in s.eventBuffer : b.seq = e.seq
      BY <2>1, <3>2 DEF Window, Between
    <3> QED
      BY <3>1, <3>2
  <2>12. Window(r)
    BY <2>4, <2>5, <2>10, <2>11 DEF Window, Between, Settled
  <2>13. \E b \in B : b.seq = e.seq
    BY <2>1
  <2>14. Keeps(s, r)
    BY <1>1, <2>4, <2>5, <2>7 DEF Keeps
  <2>15. Reaches(s.expectedSeq, r, e)
    BY <2>4, <2>13 DEF Reaches
  <2> QED
    BY <1>2, <2>8, <2>12, <2>14, <2>15
<1> QED
  BY <1>1, <1>3, <1>4, <1>5, <1>6

LEMMA HeedsFeed ==
  ASSUME NEW m, Record(m), m.expectedSeq \in Nat, m.eventBuffer \subseteq Plays,
         NEW E \in SUBSET Plays, Heeds(m, m, E), Window(m), NEW q \in Seq(E)
  PROVE  /\ Heeds(m, Feed(m, q), E) /\ Window(Feed(m, q))
         /\ \A i \in 1..Len(q) : Reaches(m.expectedSeq, Feed(m, q), q[i])
<1>1. PICK f : Fed(m, q, Len(q), f) /\ Feed(m, q) = f[Len(q)]
  BY FeedLast
<1>2. f = [k \in 0..Len(q) |-> IF k = 0 THEN m ELSE ProcessIncomingEvent(f[k - 1], q[k])]
  BY <1>1 DEF Fed
<1> DEFINE Good(k) == /\ Heeds(m, f[k], E) /\ Window(f[k])
                      /\ \A i \in 1..k : Reaches(m.expectedSeq, f[k], q[i])
           T == {k \in Nat : k <= Len(q) => Good(k)}
<1>3. 0 \in T
  <2>1. f[0] = m
    BY <1>2
  <2> QED
    BY <2>1
<1>4. ASSUME NEW k \in Nat, k \in T PROVE k + 1 \in T
  <2> SUFFICES ASSUME k + 1 <= Len(q) PROVE Good(k + 1)
    OBVIOUS
  <2>1. Good(k)
    BY <1>4
  <2>2. f[k + 1] = ProcessIncomingEvent(f[k], q[k + 1])
    BY <1>2
  <2>3. q[k + 1] \in E
    OBVIOUS
  <2>4. PICK x : x = f[k]
    OBVIOUS
  <2>5. Heeds(m, x, E) /\ Window(x)
    BY <2>1, <2>4
  <2>6. PICK e \in E : e = q[k + 1]
    BY <2>3
  <2>7. PICK y : y = ProcessIncomingEvent(x, e)
    OBVIOUS
  <2>8. Heeds(m, y, E) /\ Window(y) /\ Keeps(x, y) /\ Reaches(x.expectedSeq, y, e)
    BY <2>5, <2>7, HeedsProcess
  <2>9. /\ x.expectedSeq \in Nat /\ y.expectedSeq \in Nat /\ m.expectedSeq <= x.expectedSeq
        /\ MAX_BUFFERED \in Nat /\ e.seq \in Nat
        /\ \A b \in x.eventBuffer : b.seq \in Nat
    <3>1. /\ x.expectedSeq = m.expectedSeq + Len(x.given) /\ Len(x.given) \in Nat
          /\ y.expectedSeq = m.expectedSeq + Len(y.given) /\ Len(y.given) \in Nat
          /\ x.eventBuffer \subseteq Plays
      BY <2>5, <2>8, SMTT(40) DEF Heeds
    <3>2. e.seq \in Nat /\ \A b \in x.eventBuffer : b.seq \in Nat
      BY <3>1 DEF Plays
    <3> QED
      BY <3>1, <3>2, ConstantsAssumption, SMTT(40)
  <2>10. ASSUME NEW i \in 1..k PROVE Reaches(m.expectedSeq, y, q[i])
    <3>1. Reaches(m.expectedSeq, x, q[i])
      BY <2>1, <2>4
    <3>2. q[i] \in Plays /\ q[i].seq \in Nat
      BY <2>10, SMTT(40) DEF Plays
    <3> QED
      BY <2>8, <2>9, <3>1, <3>2 DEF Reaches, Keeps
  <2>11. Reaches(m.expectedSeq, y, e)
    BY <2>8, <2>9 DEF Reaches
  <2>12. \A i \in 1..k + 1 : Reaches(m.expectedSeq, y, q[i])
    BY <2>6, <2>10, <2>11
  <2> QED
    BY <2>2, <2>4, <2>6, <2>7, <2>8, <2>12
<1>5. \A k \in Nat : k \in T
  <2> HIDE DEF T
  <2> QED
    BY <1>3, <1>4, Induct
<1>6. Good(Len(q))
  BY <1>5
<1> QED
  BY <1>1, <1>6

-----------------------------------------------------------------------------
(* What each handler makes of a record.                                     *)

Cleared(r) ==
  /\ r.state = "IDLE" /\ r.peer = Nobody /\ r.game = 0 /\ r.outSeq = 0 /\ r.expectedSeq = 0
  /\ r.eventBuffer = {} /\ r.earlyReveal = NoRoll /\ r.openingQueue = <<>>
  /\ r.peerCommit = NoRoll /\ r.first = Nobody

\* resetToIdle after END came, or END sent and the peer found to cheat.
Over(m, r) == Only(m, r, GameFields \cup {"closing"}) /\ Cleared(r) /\ r.closing = TRUE
Accuses(m, r, roll) ==
  /\ m.peerCommit # NoRoll /\ m.peerCommit # roll
  /\ Only(m, r, GameFields \cup {"out", "accuses"}) /\ Cleared(r) /\ r.accuses = TRUE
  /\ r.out = Append(m.out, Frame("END", m.game))

Early(m, r, roll) ==
  /\ m.peerCommit = NoRoll /\ Only(m, r, {"earlyReveal"})
  /\ r.earlyReveal = IF m.earlyReveal = NoRoll THEN roll ELSE m.earlyReveal

\* A new roll r of m.
Rolled(m, r, die) ==
  /\ r.rollNo = m.rollNo + 1 /\ r.myRoll = <<m.me, m.rollNo + 1, die>>
  /\ r.out = Append(m.out, RollFrame("COMMIT", m.game, r.myRoll))

Tied(m, r, roll, die) ==
  /\ m.peerCommit = roll /\ m.myRoll[3] = roll[3]
  /\ Only(m, r, RollFields \cup {"peerCommit", "earlyReveal"}) /\ Rolled(m, r, die)
  /\ r.peerCommit = NoRoll /\ r.earlyReveal = NoRoll

BegunFields == {"state", "first", "openingQueue", "turn"}
BegunWith(m, s, first) ==
  /\ Only(m, s, BegunFields)
  /\ s.state = "ACTIVE" /\ s.first = first /\ s.openingQueue = <<>>
  /\ s.turn = IF m.screen = "open" THEN first ELSE m.turn

Finished(m, r, roll, E) ==
  /\ m.peerCommit = roll /\ m.myRoll[3] # roll[3]
  /\ \E s : /\ BegunWith(m, s, IF m.myRoll[3] > roll[3] THEN m.me ELSE m.peer)
            /\ Heeds(s, r, E) /\ Window(r)
            /\ \A i \in 1..Len(m.openingQueue) : Reaches(m.expectedSeq, r, m.openingQueue[i])

Revealed(m, r, roll, die, E) ==
  Early(m, r, roll) \/ Accuses(m, r, roll) \/ Tied(m, r, roll, die) \/ Finished(m, r, roll, E)

\* The reveal that answers a commitment.
Answered(m, r, roll) ==
  /\ Only(m, r, {"peerCommit", "out"}) /\ r.peerCommit = roll
  /\ r.out = Append(m.out, RollFrame("REVEAL", m.game, m.myRoll))
Committed(m, r, roll, die, E) ==
  \/ m.earlyReveal = NoRoll /\ Answered(m, r, roll)
  \/ /\ m.earlyReveal # NoRoll
     /\ \E s, t : /\ Answered(m, s, roll)
                  /\ Only(s, t, {"earlyReveal"}) /\ t.earlyReveal = NoRoll
                  /\ Revealed(t, r, m.earlyReveal, die, E)

Started(m, r, die) ==
  /\ Only(m, r, RollFields \cup {"state", "base", "turn", "dice", "screen"})
  /\ Rolled(m, r, die) /\ r.base = m.rollNo
  /\ r.state = "OPENING" /\ r.turn = Nobody /\ r.dice = FALSE /\ r.screen = "starting"

Invited(m, r, q, g) ==
  /\ m.state = "IDLE" /\ Only(m, r, {"state", "peer", "game", "white"})
  /\ r.state = "INVITED" /\ r.peer = q /\ r.game = g /\ r.white = FALSE

Queued(m, r, f) ==
  /\ m.state = "OPENING" /\ Len(m.openingQueue) < MAX_BUFFERED
  /\ Only(m, r, {"openingQueue"}) /\ r.openingQueue = Append(m.openingQueue, f)

\* What a frame f from q makes of the record m; E holds the events at hand.
Ignored(m, r, q, f) ==
  /\ r = m
  /\ Mine(m, q, f) =>
       /\ f.type # "END" /\ (f.type = "ACCEPT" => m.state # "INVITING")
       /\ f.type \in {"COMMIT", "REVEAL"} => m.state # "OPENING"
       /\ f.type = "PLAY" =>
            /\ m.state # "ACTIVE"
            /\ m.state = "OPENING" => Len(m.openingQueue) >= MAX_BUFFERED

Handled(m, r, q, f, die, E) ==
  \/ Ignored(m, r, q, f)
  \/ f.type = "INVITE" /\ Invited(m, r, q, f.game)
  \/ /\ Mine(m, q, f)
     /\ \/ f.type = "ACCEPT" /\ m.state = "INVITING" /\ Started(m, r, die)
        \/ f.type = "COMMIT" /\ m.state = "OPENING" /\ Committed(m, r, f.roll, die, E)
        \/ f.type = "REVEAL" /\ m.state = "OPENING" /\ Revealed(m, r, f.roll, die, E)
        \/ f.type = "PLAY" /\ Queued(m, r, f)
        \/ /\ f.type = "PLAY" /\ m.state = "ACTIVE" /\ Heeds(m, r, E) /\ Window(r)
           /\ Keeps(m, r) /\ Reaches(m.expectedSeq, r, f)
        \/ f.type = "END" /\ Over(m, r)

\* A record whose events are those of E.
Holds(m, E) ==
  /\ Record(m) /\ m.given = <<>> /\ m.expectedSeq \in Nat /\ m.dice \in BOOLEAN
  /\ m.eventBuffer \subseteq E /\ m.openingQueue \in Seq(E) /\ Window(m)

LEMMA BegunOnly ==
  ASSUME NEW m, Record(m), NEW first
  PROVE  BegunWith(m, [Begun(m, first) EXCEPT !.turn = IF m.screen = "open" THEN first ELSE m.turn],
                   first)
<1>1. PICK b : b = [m EXCEPT !.state = "ACTIVE", !.first = first, !.openingQueue = <<>>]
  OBVIOUS
<1>2. /\ Only(m, b, {"state", "first", "openingQueue"})
      /\ b.state = "ACTIVE" /\ b.first = first /\ b.openingQueue = <<>>
  BY <1>1 DEF Record, Fields, Only
<1>3. PICK x : x = IF m.screen = "open" THEN first ELSE m.turn
  OBVIOUS
<1>4. PICK s : s = [b EXCEPT !.turn = x]
  OBVIOUS
<1>5. Only(b, s, {"turn"}) /\ s.turn = x
  BY <1>2, <1>4 DEF Record, Fields, Only
<1>6. Only(m, s, BegunFields) /\ s.state = "ACTIVE" /\ s.first = first /\ s.openingQueue = <<>>
  BY <1>2, <1>5 DEF Only, Fields, BegunFields
<1>7. s = [Begun(m, first) EXCEPT !.turn = IF m.screen = "open" THEN first ELSE m.turn]
  BY <1>1, <1>3, <1>4 DEF Begun
<1> QED
  BY <1>3, <1>5, <1>6, <1>7 DEF BegunWith

LEMMA FinishOutcome ==
  ASSUME NEW E \in SUBSET Plays, NEW m, Holds(m, E), NEW first
  PROVE  LET r == FinishOpening(m, first) IN
         \E s : /\ BegunWith(m, s, first)
                /\ Heeds(s, r, E) /\ Window(r)
                /\ \A i \in 1..Len(m.openingQueue) : Reaches(m.expectedSeq, r, m.openingQueue[i])
<1>0. Record(m)
  BY DEF Holds
<1>1. PICK s : s = [Begun(m, first) EXCEPT !.turn = IF m.screen = "open" THEN first ELSE m.turn]
  OBVIOUS
<1>2. BegunWith(m, s, first)
  BY <1>0, <1>1, BegunOnly
<1>3. Begun(m, first).turn = m.turn
  BY <1>0 DEF Begun, Record, Fields
<1>4. FinishOpening(m, first) = Feed(s, m.openingQueue)
  BY <1>1, <1>3 DEF FinishOpening
<1>5. /\ Record(s) /\ s.given = <<>> /\ s.expectedSeq = m.expectedSeq
      /\ s.eventBuffer = m.eventBuffer /\ s.dice = m.dice
  BY <1>2 DEF BegunWith, Only, Fields, BegunFields, Holds
<1>6. Window(s)
  BY <1>5 DEF Holds, Window, Between, Settled
<1>7. s.eventBuffer \subseteq E /\ s.expectedSeq \in Nat /\ s.dice \in BOOLEAN
  BY <1>5 DEF Holds
<1>8. Heeds(s, s, E)
  BY <1>5, <1>7, HeedsItself
<1>9. PICK q \in Seq(E) : q = m.openingQueue
  BY DEF Holds
<1>10. s.eventBuffer \subseteq Plays
  BY <1>7
<1>11. /\ Heeds(s, Feed(s, q), E) /\ Window(Feed(s, q))
       /\ \A i \in 1..Len(q) : Reaches(s.expectedSeq, Feed(s, q), q[i])
  BY <1>5, <1>6, <1>7, <1>8, <1>10, HeedsFeed
<1> QED
  BY <1>2, <1>4, <1>5, <1>9, <1>11

LEMMA AccuseOutcome ==
  ASSUME NEW m, Record(m), NEW roll, m.peerCommit # NoRoll, m.peerCommit # roll
  PROVE  Accuses(m, [EndGame(m) EXCEPT !.accuses = TRUE], roll)
<1>1. PICK s : s = EndGame(m)
  OBVIOUS
<1>2. /\ Only(m, s, GameFields \cup {"out"}) /\ s.out = Append(m.out, Frame("END", m.game))
      /\ s.state = "IDLE" /\ s.peer = Nobody /\ s.game = 0 /\ s.outSeq = 0 /\ s.expectedSeq = 0
      /\ s.eventBuffer = {} /\ s.earlyReveal = NoRoll /\ s.openingQueue = <<>>
      /\ s.peerCommit = NoRoll /\ s.first = Nobody
  BY <1>1, EndOnly
<1>3. PICK r : r = [s EXCEPT !.accuses = TRUE]
  OBVIOUS
<1>4. Only(s, r, {"accuses"}) /\ r.accuses = TRUE
  BY <1>2, <1>3 DEF Record, Fields, Only
<1>5. r.out = s.out /\ Cleared(r)
  BY <1>2, <1>4 DEF Only, Fields, Cleared
<1>6. Only(m, r, GameFields \cup {"out", "accuses"})
  BY <1>2, <1>4 DEF Only, Fields, GameFields
<1> QED
  BY <1>1, <1>2, <1>3, <1>4, <1>5, <1>6 DEF Accuses

LEMMA TieOutcome ==
  ASSUME NEW m, Record(m), NEW roll, NEW die, m.peerCommit = roll, m.myRoll[3] = roll[3]
  PROVE  Tied(m, StartOpeningRoll([m EXCEPT !.peerCommit = NoRoll, !.earlyReveal = NoRoll], die),
              roll, die)
<1>1. PICK s : s = [m EXCEPT !.peerCommit = NoRoll, !.earlyReveal = NoRoll]
  OBVIOUS
<1>2. Only(m, s, {"peerCommit", "earlyReveal"}) /\ s.peerCommit = NoRoll /\ s.earlyReveal = NoRoll
  BY <1>1 DEF Record, Fields, Only
<1>3. Record(s) /\ s.me = m.me /\ s.rollNo = m.rollNo /\ s.game = m.game /\ s.out = m.out
  BY <1>2 DEF Only, Fields
<1>4. PICK r : r = StartOpeningRoll(s, die)
  OBVIOUS
<1>5. /\ Only(s, r, RollFields) /\ r.rollNo = s.rollNo + 1
      /\ r.myRoll = <<s.me, s.rollNo + 1, die>>
      /\ r.out = Append(s.out, RollFrame("COMMIT", s.game, r.myRoll))
  BY <1>3, <1>4, RollOnly
<1>6. r.peerCommit = NoRoll /\ r.earlyReveal = NoRoll
  BY <1>2, <1>5 DEF Only, Fields, RollFields
<1>7. Only(m, r, RollFields \cup {"peerCommit", "earlyReveal"})
  BY <1>2, <1>5 DEF Only, Fields, RollFields
<1>8. Rolled(m, r, die)
  BY <1>3, <1>5 DEF Rolled
<1> QED
  BY <1>1, <1>4, <1>6, <1>7, <1>8 DEF Tied

LEMMA RevealOutcome ==
  ASSUME NEW E \in SUBSET Plays, NEW m, Holds(m, E), NEW roll, roll # NoRoll, NEW die
  PROVE  Revealed(m, OnReveal(m, roll, die), roll, die, E)
<1>0. Record(m)
  BY DEF Holds
<1>1. CASE m.peerCommit = NoRoll
  <2>1. PICK x : x = IF m.earlyReveal = NoRoll THEN roll ELSE m.earlyReveal
    OBVIOUS
  <2>2. PICK r : r = [m EXCEPT !.earlyReveal = x]
    OBVIOUS
  <2>3. OnReveal(m, roll, die) = r
    BY <1>1, <2>1, <2>2 DEF OnReveal
  <2>4. Only(m, r, {"earlyReveal"}) /\ r.earlyReveal = x
    BY <1>0, <2>2 DEF Record, Fields, Only
  <2> QED
    BY <1>1, <2>1, <2>3, <2>4 DEF Revealed, Early
<1>2. CASE m.peerCommit # NoRoll /\ m.peerCommit # roll
  <2>1. OnReveal(m, roll, die) = [EndGame(m) EXCEPT !.accuses = TRUE]
    BY <1>2 DEF OnReveal
  <2> QED
    BY <1>0, <1>2, <2>1, AccuseOutcome DEF Revealed
<1>3. CASE m.peerCommit = roll /\ m.myRoll[3] # roll[3]
  <2>1. PICK first : first = IF m.myRoll[3] > roll[3] THEN m.me ELSE m.peer
    OBVIOUS
  <2>2. OnReveal(m, roll, die) = FinishOpening(m, first)
    BY <1>3, <2>1 DEF OnReveal
  <2> QED
    BY <1>3, <2>1, <2>2, FinishOutcome DEF Revealed, Finished
<1>4. CASE m.peerCommit = roll /\ m.myRoll[3] = roll[3]
  <2>1. OnReveal(m, roll, die)
          = StartOpeningRoll([m EXCEPT !.peerCommit = NoRoll, !.earlyReveal = NoRoll], die)
    BY <1>4 DEF OnReveal
  <2> QED
    BY <1>0, <1>4, <2>1, TieOutcome DEF Revealed
<1> QED
  BY <1>1, <1>2, <1>3, <1>4, Zenon

LEMMA CommitOutcome ==
  ASSUME NEW E \in SUBSET Plays, NEW m, Holds(m, E), NEW roll, NEW die
  PROVE  Committed(m, OnCommit(m, roll, die), roll, die, E)
<1>0. Record(m)
  BY DEF Holds
<1>1. PICK c : c = [m EXCEPT !.peerCommit = roll]
  OBVIOUS
<1>2. Only(m, c, {"peerCommit"}) /\ c.peerCommit = roll
  BY <1>0, <1>1 DEF Record, Fields, Only
<1>3. PICK s : s = Send(c, RollFrame("REVEAL", m.game, m.myRoll))
  OBVIOUS
<1>4. Only(c, s, {"out"}) /\ s.out = Append(c.out, RollFrame("REVEAL", m.game, m.myRoll))
  BY <1>2, <1>3, SendOnly DEF Only
<1>5. Answered(m, s, roll)
  BY <1>2, <1>4 DEF Only, Fields, Answered
<1>6. CASE m.earlyReveal = NoRoll
  <2>1. OnCommit(m, roll, die) = s
    BY <1>1, <1>3, <1>6 DEF OnCommit
  <2> QED
    BY <1>5, <1>6, <2>1 DEF Committed
<1>7. CASE m.earlyReveal # NoRoll
  <2>1. PICK t : t = [s EXCEPT !.earlyReveal = NoRoll]
    OBVIOUS
  <2>2. Only(s, t, {"earlyReveal"}) /\ t.earlyReveal = NoRoll
    BY <1>4, <2>1 DEF Record, Fields, Only
  <2>3. OnCommit(m, roll, die) = OnReveal(t, m.earlyReveal, die)
    BY <1>1, <1>3, <1>7, <2>1 DEF OnCommit
  <2>4. /\ Record(t) /\ t.given = m.given /\ t.expectedSeq = m.expectedSeq
        /\ t.eventBuffer = m.eventBuffer /\ t.openingQueue = m.openingQueue /\ t.dice = m.dice
    BY <1>5, <2>2 DEF Answered, Only, Fields
  <2>5. Holds(t, E)
    BY <2>4 DEF Holds, Window, Between, Settled
  <2>6. Revealed(t, OnCommit(m, roll, die), m.earlyReveal, die, E)
    BY <1>7, <2>3, <2>5, RevealOutcome
  <2> QED
    BY <1>5, <1>7, <2>2, <2>6 DEF Committed
<1> QED
  BY <1>6, <1>7

LEMMA StartOutcome ==
  ASSUME NEW m, Record(m), NEW die
  PROVE  Started(m, StartGame(m, die), die)
<1>1. PICK r : r = StartGame(m, die)
  OBVIOUS
<1>2. /\ Only(m, r, RollFields \cup {"state", "base", "turn", "dice", "screen"})
      /\ r.rollNo = m.rollNo + 1 /\ r.base = m.rollNo
      /\ r.myRoll = <<m.me, m.rollNo + 1, die>>
      /\ r.out = Append(m.out, RollFrame("COMMIT", m.game, r.myRoll))
      /\ r.state = "OPENING" /\ r.turn = Nobody /\ r.dice = FALSE /\ r.screen = "starting"
  BY <1>1, StartOnly
<1> QED
  BY <1>1, <1>2 DEF Started, Rolled

LEMMA OverOutcome ==
  ASSUME NEW m, Record(m)
  PROVE  Over(m, OnEnd(m))
<1>1. PICK s : s = ResetToIdle(m)
  OBVIOUS
<1>2. Only(m, s, GameFields) /\ Cleared(s)
  BY <1>1, ResetOnly DEF Cleared
<1>3. PICK r : r = [s EXCEPT !.closing = TRUE]
  OBVIOUS
<1>4. Only(s, r, {"closing"}) /\ r.closing = TRUE
  BY <1>2, <1>3 DEF Record, Fields, Only
<1>5. Cleared(r)
  BY <1>2, <1>4 DEF Only, Fields, Cleared
<1>6. Only(m, r, GameFields \cup {"closing"})
  BY <1>2, <1>4 DEF Only, Fields, GameFields
<1> QED
  BY <1>1, <1>3, <1>4, <1>5, <1>6 DEF Over, OnEnd

LEMMA PlayOutcome ==
  ASSUME NEW E \in SUBSET Plays, NEW m, Holds(m, E), NEW q, NEW f \in E, Mine(m, q, f),
         f.type = "PLAY"
  PROVE  LET r == OnPlay(m, f) IN
         \/ Ignored(m, r, q, f)
         \/ Queued(m, r, f)
         \/ /\ m.state = "ACTIVE" /\ Heeds(m, r, E) /\ Window(r)
            /\ Keeps(m, r) /\ Reaches(m.expectedSeq, r, f)
<1>0. Record(m)
  BY DEF Holds
<1>1. PICK r : r = OnPlay(m, f)
  OBVIOUS
<1>2. CASE m.state = "ACTIVE"
  <2>1. r = ProcessIncomingEvent(m, f)
    BY <1>1, <1>2 DEF OnPlay
  <2>2. Heeds(m, m, E)
    BY <1>0, HeedsItself DEF Holds
  <2>3. m.expectedSeq \in Nat /\ m.eventBuffer \subseteq Plays /\ Window(m)
    BY DEF Holds
  <2>4. Heeds(m, r, E) /\ Window(r) /\ Keeps(m, r) /\ Reaches(m.expectedSeq, r, f)
    BY <1>0, <2>1, <2>2, <2>3, HeedsProcess
  <2> QED
    BY <1>1, <1>2, <2>4
<1>3. CASE m.state = "OPENING" /\ Len(m.openingQueue) >= MAX_BUFFERED
  <2>1. r = m
    BY <1>1, <1>3 DEF OnPlay
  <2> QED
    BY <1>1, <1>3, <2>1 DEF Ignored
<1>4. CASE m.state = "OPENING" /\ ~(Len(m.openingQueue) >= MAX_BUFFERED)
  <2>1. r = [m EXCEPT !.openingQueue = Append(m.openingQueue, f)]
    BY <1>1, <1>4 DEF OnPlay
  <2>2. Only(m, r, {"openingQueue"}) /\ r.openingQueue = Append(m.openingQueue, f)
    BY <1>0, <2>1 DEF Record, Fields, Only
  <2>3. Len(m.openingQueue) < MAX_BUFFERED
    BY <1>4, ConstantsAssumption DEF Holds
  <2> QED
    BY <1>1, <1>4, <2>2, <2>3 DEF Queued
<1>5. CASE m.state \notin {"ACTIVE", "OPENING"}
  <2>1. r = m
    BY <1>1, <1>5 DEF OnPlay
  <2> QED
    BY <1>1, <1>5, <2>1 DEF Ignored
<1> QED
  BY <1>1, <1>2, <1>3, <1>4, <1>5

LEMMA InviteOutcome ==
  ASSUME NEW m, Record(m), NEW q, NEW g
  PROVE  LET r == OnInvite(m, q, g) IN r = m \/ Invited(m, r, q, g)
<1>1. CASE m.state # "IDLE"
  BY <1>1 DEF OnInvite
<1>2. CASE m.state = "IDLE"
  <2>1. PICK r : r = [m EXCEPT !.state = "INVITED", !.peer = q, !.game = g, !.white = FALSE]
    OBVIOUS
  <2>2. /\ Only(m, r, {"state", "peer", "game", "white"})
        /\ r.state = "INVITED" /\ r.peer = q /\ r.game = g /\ r.white = FALSE
    BY <2>1 DEF Record, Fields, Only
  <2> QED
    BY <1>2, <2>1, <2>2 DEF OnInvite, Invited
<1> QED
  BY <1>1, <1>2

LEMMA HandleOutcome ==
  ASSUME NEW E \in SUBSET Plays, NEW m, Holds(m, E), NEW q, NEW f \in Frames, NEW die,
         f.type = "PLAY" /\ Mine(m, q, f) => f \in E
  PROVE  Handled(m, HandleGameEvent(m, q, f, die), q, f, die, E)
<1>0. Record(m)
  BY DEF Holds
<1>1. PICK r : r = HandleGameEvent(m, q, f, die)
  OBVIOUS
<1>2. CASE f.type = "INVITE"
  <2>1. r = OnInvite(m, q, f.game)
    BY <1>1, <1>2 DEF HandleGameEvent
  <2>2. r = m \/ Invited(m, r, q, f.game)
    BY <1>0, <2>1, InviteOutcome
  <2> QED
    BY <1>1, <1>2, <2>2 DEF Handled, Ignored
<1>3. CASE f.type = "ACCEPT" /\ Mine(m, q, f) /\ m.state = "INVITING"
  <2>1. r = StartGame(m, die)
    BY <1>1, <1>3 DEF HandleGameEvent
  <2> QED
    BY <1>0, <1>1, <1>3, <2>1, StartOutcome DEF Handled
<1>4. CASE f.type = "COMMIT" /\ Mine(m, q, f) /\ m.state = "OPENING"
  <2>1. r = OnCommit(m, f.roll, die)
    BY <1>1, <1>4 DEF HandleGameEvent
  <2> QED
    BY <1>1, <1>4, <2>1, CommitOutcome DEF Handled
<1>5. CASE f.type = "REVEAL" /\ Mine(m, q, f) /\ m.state = "OPENING"
  <2>1. r = OnReveal(m, f.roll, die)
    BY <1>1, <1>5 DEF HandleGameEvent
  <2>2. f.roll # NoRoll
    <3>1. f \in [type : {"COMMIT", "REVEAL"}, game : Nat, roll : Rolls]
      BY <1>5 DEF Frames, Plays
    <3>2. f.roll \in Players \X Nat \X Nat
      BY <3>1 DEF Rolls
    <3>3. PICK x \in Players, y \in Nat, z \in Nat : f.roll = <<x, y, z>>
      BY <3>2
    <3> QED
      BY <3>3 DEF NoRoll
  <2> QED
    BY <1>1, <1>5, <2>1, <2>2, RevealOutcome DEF Handled
<1>6. CASE f.type = "PLAY" /\ Mine(m, q, f)
  <2>1. r = OnPlay(m, f)
    BY <1>1, <1>6 DEF HandleGameEvent
  <2>2. f \in E
    BY <1>6
  <2>3. \/ Ignored(m, r, q, f)
        \/ Queued(m, r, f)
        \/ /\ m.state = "ACTIVE" /\ Heeds(m, r, E) /\ Window(r)
           /\ Keeps(m, r) /\ Reaches(m.expectedSeq, r, f)
    BY <1>6, <2>1, <2>2, PlayOutcome
  <2> QED
    BY <1>1, <1>6, <2>3 DEF Handled
<1>7. CASE f.type = "END" /\ Mine(m, q, f)
  <2>1. r = OnEnd(m)
    BY <1>1, <1>7 DEF HandleGameEvent
  <2> QED
    BY <1>0, <1>1, <1>7, <2>1, OverOutcome DEF Handled
<1>8. CASE /\ f.type # "INVITE"
           /\ ~(f.type = "ACCEPT" /\ Mine(m, q, f) /\ m.state = "INVITING")
           /\ ~(f.type = "COMMIT" /\ Mine(m, q, f) /\ m.state = "OPENING")
           /\ ~(f.type = "REVEAL" /\ Mine(m, q, f) /\ m.state = "OPENING")
           /\ ~(f.type = "PLAY" /\ Mine(m, q, f))
           /\ ~(f.type = "END" /\ Mine(m, q, f))
  <2>1. r = m
    BY <1>1, <1>8, Zenon DEF HandleGameEvent
  <2> QED
    BY <1>1, <1>8, <2>1 DEF Handled, Ignored
<1> QED
  BY <1>2, <1>3, <1>4, <1>5, <1>6, <1>7, <1>8, Zenon

-----------------------------------------------------------------------------
(* The record of a player: types, and what each state leaves empty.         *)

Typed(p, m) ==
  /\ m.me = p /\ m.state \in States /\ m.peer \in People \ {p} /\ m.game \in Nat
  /\ m.white \in BOOLEAN /\ m.rollNo \in Nat /\ m.base \in Nat /\ m.base <= m.rollNo
  /\ m.myRoll \in Rolls \cup {NoRoll} /\ m.peerCommit \in Rolls \cup {NoRoll}
  /\ m.earlyReveal \in Rolls \cup {NoRoll}
  /\ m.openingQueue \in Seq(Plays) /\ m.eventBuffer \subseteq Plays
  /\ m.outSeq \in Nat /\ m.expectedSeq \in Nat
  /\ m.screen \in {"none", "starting", "open"} /\ m.closing \in BOOLEAN
  /\ m.turn \in People /\ m.dice \in BOOLEAN /\ m.first \in People

Coherent(m) ==
  /\ (m.state = "IDLE" <=> m.peer = Nobody) /\ (m.state = "IDLE" <=> m.game = 0)
  /\ m.state # "ACTIVE" => /\ m.eventBuffer = {} /\ m.expectedSeq = 0 /\ m.outSeq = 0
                           /\ m.first = Nobody
  /\ m.state # "OPENING" => m.openingQueue = <<>>
  /\ m.state \notin {"OPENING", "ACTIVE"} => m.peerCommit = NoRoll /\ m.earlyReveal = NoRoll
  /\ m.state \in {"OPENING", "ACTIVE"} =>
       m.base < m.rollNo /\ m.myRoll # NoRoll /\ m.myRoll[2] = m.rollNo
  /\ Len(m.openingQueue) <= MAX_BUFFERED
  /\ Window(m)

\* All of it, and G has the games that the record and what it sends are of.
Sound(p, m, G) ==
  /\ Record(m) /\ Typed(p, m) /\ Coherent(m) /\ m.game \in G \cup {0}
  /\ m.out \in Seq(Frames) /\ \A i \in 1..Len(m.out) : m.out[i].game \in G

LEMMA Sent ==
  ASSUME NEW G, NEW o \in Seq(Frames), \A i \in 1..Len(o) : o[i].game \in G,
         NEW f \in Frames, f.game \in G
  PROVE  /\ Append(o, f) \in Seq(Frames)
         /\ \A i \in 1..Len(Append(o, f)) : Append(o, f)[i].game \in G
<1>1. PICK a : a = Append(o, f)
  OBVIOUS
<1>2. a \in Seq(Frames) /\ Len(a) = Len(o) + 1 /\ Len(o) \in Nat /\ a[Len(o) + 1] = f
      /\ \A i \in 1..Len(o) : a[i] = o[i]
  BY <1>1
<1>3. \A i \in 1..Len(a) : i = Len(o) + 1 \/ i \in 1..Len(o)
  BY <1>2
<1> QED
  BY <1>1, <1>2, <1>3

LEMMA FramesAre ==
  /\ \A g \in Nat : \A t \in {"INVITE", "ACCEPT", "END"} :
       Frame(t, g) \in Frames /\ Frame(t, g).game = g /\ Frame(t, g).type = t
  /\ \A g \in Nat : \A roll \in Rolls : \A t \in {"COMMIT", "REVEAL"} :
       /\ RollFrame(t, g, roll) \in Frames /\ RollFrame(t, g, roll).game = g
       /\ RollFrame(t, g, roll).type = t /\ RollFrame(t, g, roll).roll = roll
<1>1. ASSUME NEW g \in Nat, NEW t \in {"INVITE", "ACCEPT", "END"}
      PROVE  Frame(t, g) \in Frames /\ Frame(t, g).game = g /\ Frame(t, g).type = t
  <2>1. Frame(t, g) \in [type : {"INVITE", "ACCEPT", "END"}, game : Nat]
    BY DEF Frame
  <2> QED
    BY <2>1 DEF Frames, Frame
<1>2. ASSUME NEW g \in Nat, NEW roll \in Rolls, NEW t \in {"COMMIT", "REVEAL"}
      PROVE  /\ RollFrame(t, g, roll) \in Frames /\ RollFrame(t, g, roll).game = g
             /\ RollFrame(t, g, roll).type = t /\ RollFrame(t, g, roll).roll = roll
  <2>1. RollFrame(t, g, roll) \in [type : {"COMMIT", "REVEAL"}, game : Nat, roll : Rolls]
    BY DEF RollFrame
  <2> QED
    BY <2>1 DEF Frames, RollFrame
<1> QED
  BY <1>1, <1>2

LEMMA WindowEmpty ==
  ASSUME NEW m, m.eventBuffer = {}
  PROVE  Window(m)
BY DEF Window, Between, Settled

LEMMA SoundCleared ==
  ASSUME NEW p \in Players, NEW G, NEW m, Sound(p, m, G), NEW r,
         Only(m, r, GameFields \cup {"out", "accuses", "closing", "screen"}), Cleared(r),
         r.closing \in BOOLEAN, r.screen \in {"none", "starting", "open"},
         r.out \in Seq(Frames), \A i \in 1..Len(r.out) : r.out[i].game \in G
  PROVE  Sound(p, r, G)
<1>1. Record(r)
  BY DEF Only
<1>2. /\ r.me = m.me /\ r.white = m.white /\ r.rollNo = m.rollNo /\ r.base = m.base
      /\ r.myRoll = m.myRoll /\ r.turn = m.turn /\ r.dice = m.dice
  BY DEF Only, Fields, GameFields
<1>3. Nobody \in People \ {p}
  BY ConstantsAssumption DEF People
<1>4. Typed(p, r)
  BY <1>2, <1>3 DEF Sound, Typed, Cleared, States
<1>5. Coherent(r)
  BY WindowEmpty, ConstantsAssumption DEF Cleared, Coherent
<1> QED
  BY <1>1, <1>4, <1>5 DEF Sound, Cleared

LEMMA SoundRoll ==
  ASSUME NEW p \in Players, NEW G \in SUBSET (Nat \ {0}), NEW m, Sound(p, m, G), NEW r,
         NEW die \in Nat, m.game \in G,
         Only(m, r, RollFields \cup {"state", "base", "turn", "dice", "screen", "peerCommit",
                                     "earlyReveal"}),
         Rolled(m, r, die), r.state = "OPENING", m.state # "ACTIVE", r.base \in Nat,
         r.base <= m.rollNo, r.turn \in People, r.dice \in BOOLEAN,
         r.screen \in {"none", "starting", "open"},
         r.peerCommit = NoRoll, r.earlyReveal = NoRoll
  PROVE  Sound(p, r, G)
<1>1. /\ r.me = m.me /\ r.white = m.white /\ r.peer = m.peer /\ r.game = m.game
      /\ r.openingQueue = m.openingQueue /\ r.eventBuffer = m.eventBuffer
      /\ r.outSeq = m.outSeq /\ r.expectedSeq = m.expectedSeq
      /\ r.closing = m.closing /\ r.first = m.first
  BY DEF Only, Fields, RollFields
<1>2. m.rollNo \in Nat /\ m.me = p /\ m.game \in Nat \ {0}
  BY DEF Sound, Typed
<1>3. r.myRoll = <<p, m.rollNo + 1, die>> /\ r.rollNo = m.rollNo + 1
  BY <1>2 DEF Rolled
<1>4. r.myRoll \in Rolls /\ r.myRoll[2] = r.rollNo /\ r.myRoll # NoRoll
  BY <1>2, <1>3 DEF Rolls, NoRoll
<1>5. Typed(p, r)
  BY <1>1, <1>2, <1>3, <1>4, SMTT(40) DEF Sound, Typed, States
<1>6. Window(r)
  BY <1>1, WindowEmpty DEF Sound, Coherent
<1>7. Coherent(r)
  BY <1>1, <1>2, <1>3, <1>4, <1>6 DEF Sound, Coherent
<1>8. PICK f : f = RollFrame("COMMIT", m.game, r.myRoll)
  OBVIOUS
<1>9. f \in Frames /\ f.game = m.game
  BY <1>2, <1>4, <1>8, FramesAre
<1>10. r.out = Append(m.out, f)
  BY <1>8 DEF Rolled
<1>11. r.out \in Seq(Frames) /\ \A i \in 1..Len(r.out) : r.out[i].game \in G
  BY <1>9, <1>10, Sent DEF Sound
<1>12. Record(r)
  BY DEF Only
<1> QED
  BY <1>1, <1>5, <1>7, <1>11, <1>12 DEF Sound

LEMMA SoundHeeds ==
  ASSUME NEW p \in Players, NEW G, NEW m, Sound(p, m, G), m.state = "ACTIVE",
         NEW E \in SUBSET Plays, NEW r, Heeds(m, r, E), Window(r)
  PROVE  Sound(p, r, G)
<1>1. /\ r.me = m.me /\ r.state = m.state /\ r.peer = m.peer /\ r.game = m.game
      /\ r.white = m.white /\ r.rollNo = m.rollNo /\ r.base = m.base /\ r.myRoll = m.myRoll
      /\ r.peerCommit = m.peerCommit /\ r.earlyReveal = m.earlyReveal
      /\ r.openingQueue = m.openingQueue /\ r.outSeq = m.outSeq /\ r.screen = m.screen
      /\ r.closing = m.closing /\ r.first = m.first /\ r.out = m.out /\ Record(r)
  BY DEF Heeds, Only, Fields, EventFields
<1>2. /\ r.expectedSeq \in Nat /\ r.eventBuffer \subseteq Plays /\ r.dice \in BOOLEAN
      /\ r.turn \in {m.turn, m.me}
  BY DEF Heeds, Sound, Typed
<1>3. r.turn \in People
  BY <1>2 DEF Sound, Typed, People
<1>4. Typed(p, r)
  BY <1>1, <1>2, <1>3 DEF Sound, Typed
<1>5. Coherent(r)
  BY <1>1 DEF Sound, Coherent
<1> QED
  BY <1>1, <1>4, <1>5 DEF Sound

LEMMA SoundBegun ==
  ASSUME NEW p \in Players, NEW G, NEW m, Sound(p, m, G), m.state = "OPENING",
         NEW first \in People, NEW s, BegunWith(m, s, first)
  PROVE  Sound(p, s, G) /\ s.state = "ACTIVE"
<1>1. /\ s.me = m.me /\ s.peer = m.peer /\ s.game = m.game
      /\ s.white = m.white /\ s.rollNo = m.rollNo /\ s.base = m.base /\ s.myRoll = m.myRoll
      /\ s.peerCommit = m.peerCommit /\ s.earlyReveal = m.earlyReveal
      /\ s.eventBuffer = m.eventBuffer /\ s.expectedSeq = m.expectedSeq
      /\ s.outSeq = m.outSeq /\ s.screen = m.screen /\ s.dice = m.dice
      /\ s.closing = m.closing /\ s.out = m.out /\ Record(s)
  BY DEF BegunWith, Only, Fields, BegunFields
<1>2. s.state = "ACTIVE" /\ s.first = first /\ s.openingQueue = <<>> /\ s.turn \in People
  BY DEF BegunWith, Sound, Typed
<1>3. Typed(p, s)
  BY <1>1, <1>2 DEF Sound, Typed, States
<1>4. Window(s)
  BY <1>1, WindowEmpty DEF Sound, Coherent
<1>5. Coherent(s)
  BY <1>1, <1>2, <1>4, ConstantsAssumption DEF Sound, Coherent
<1> QED
  BY <1>1, <1>2, <1>3, <1>5 DEF Sound

LEMMA SoundRevealed ==
  ASSUME NEW p \in Players, NEW G \in SUBSET (Nat \ {0}), NEW m, Sound(p, m, G),
         m.state = "OPENING", NEW roll \in Rolls, NEW die \in Nat, NEW E \in SUBSET Plays,
         NEW r, Revealed(m, r, roll, die, E)
  PROVE  Sound(p, r, G)
<1>1. m.game \in G
  BY DEF Sound, Coherent
<1>2. CASE Early(m, r, roll)
  <2>1. r.earlyReveal \in Rolls \cup {NoRoll} /\ Only(m, r, {"earlyReveal"})
    BY <1>2 DEF Early, Sound, Typed
  <2>2. /\ r.me = m.me /\ r.state = m.state /\ r.peer = m.peer /\ r.game = m.game
        /\ r.white = m.white /\ r.rollNo = m.rollNo /\ r.base = m.base /\ r.myRoll = m.myRoll
        /\ r.peerCommit = m.peerCommit /\ r.openingQueue = m.openingQueue
        /\ r.eventBuffer = m.eventBuffer /\ r.expectedSeq = m.expectedSeq
        /\ r.outSeq = m.outSeq /\ r.screen = m.screen /\ r.dice = m.dice /\ r.turn = m.turn
        /\ r.closing = m.closing /\ r.out = m.out /\ r.first = m.first /\ Record(r)
    BY <2>1 DEF Only, Fields
  <2>3. Typed(p, r)
    BY <2>1, <2>2 DEF Sound, Typed
  <2>4. Window(r)
    BY <2>2, WindowEmpty DEF Sound, Coherent
  <2>5. Coherent(r)
    BY <2>2, <2>4 DEF Sound, Coherent
  <2> QED
    BY <2>2, <2>3, <2>5 DEF Sound
<1>3. CASE Accuses(m, r, roll)
  <2>1. Only(m, r, GameFields \cup {"out", "accuses"}) /\ Cleared(r)
        /\ r.out = Append(m.out, Frame("END", m.game))
    BY <1>3 DEF Accuses
  <2>2. Only(m, r, GameFields \cup {"out", "accuses", "closing", "screen"})
    BY <2>1 DEF Only
  <2>3. r.closing = m.closing /\ r.screen = m.screen
    BY <2>1 DEF Only, Fields, GameFields
  <2>4. PICK f : f = Frame("END", m.game)
    OBVIOUS
  <2>5. f \in Frames /\ f.game \in G
    BY <1>1, <2>4, FramesAre
  <2>6. r.out \in Seq(Frames) /\ \A i \in 1..Len(r.out) : r.out[i].game \in G
    BY <2>1, <2>4, <2>5, Sent DEF Sound
  <2>7. r.closing \in BOOLEAN /\ r.screen \in {"none", "starting", "open"}
    BY <2>3 DEF Sound, Typed
  <2> QED
    BY <2>1, <2>2, <2>6, <2>7, SoundCleared
<1>4. CASE Tied(m, r, roll, die)
  <2>1. /\ Only(m, r, RollFields \cup {"peerCommit", "earlyReveal"}) /\ Rolled(m, r, die)
        /\ r.peerCommit = NoRoll /\ r.earlyReveal = NoRoll
    BY <1>4 DEF Tied
  <2>2. Only(m, r, RollFields \cup {"state", "base", "turn", "dice", "screen", "peerCommit",
                                    "earlyReveal"})
    BY <2>1 DEF Only
  <2>3. r.state = m.state /\ r.base = m.base /\ r.turn = m.turn /\ r.dice = m.dice
        /\ r.screen = m.screen
    BY <2>1 DEF Only, Fields, RollFields
  <2>4. /\ r.base \in Nat /\ r.base <= m.rollNo /\ r.turn \in People /\ r.dice \in BOOLEAN
        /\ r.screen \in {"none", "starting", "open"}
    BY <2>3 DEF Sound, Typed
  <2> QED
    BY <1>1, <2>1, <2>2, <2>3, <2>4, SoundRoll
<1>5. CASE Finished(m, r, roll, E)
  <2>1. PICK first : first = IF m.myRoll[3] > roll[3] THEN m.me ELSE m.peer
    OBVIOUS
  <2>2. PICK s : BegunWith(m, s, first) /\ Heeds(s, r, E) /\ Window(r)
    BY <1>5, <2>1 DEF Finished
  <2>3. first \in People
    BY <2>1 DEF Sound, Typed, People
  <2>4. Sound(p, s, G) /\ s.state = "ACTIVE"
    BY <2>2, <2>3, SoundBegun
  <2> QED
    BY <2>2, <2>4, SoundHeeds
<1> QED
  BY <1>2, <1>3, <1>4, <1>5 DEF Revealed

LEMMA SoundAnswered ==
  ASSUME NEW p \in Players, NEW G \in SUBSET (Nat \ {0}), NEW m, Sound(p, m, G),
         m.state = "OPENING", NEW roll \in Rolls, NEW r, Answered(m, r, roll)
  PROVE  Sound(p, r, G) /\ r.state = "OPENING"
<1>1. /\ r.me = m.me /\ r.state = m.state /\ r.peer = m.peer /\ r.game = m.game
      /\ r.white = m.white /\ r.rollNo = m.rollNo /\ r.base = m.base /\ r.myRoll = m.myRoll
      /\ r.earlyReveal = m.earlyReveal /\ r.openingQueue = m.openingQueue
      /\ r.eventBuffer = m.eventBuffer /\ r.expectedSeq = m.expectedSeq
      /\ r.outSeq = m.outSeq /\ r.screen = m.screen /\ r.dice = m.dice /\ r.turn = m.turn
      /\ r.closing = m.closing /\ r.first = m.first /\ Record(r) /\ r.peerCommit = roll
  BY DEF Answered, Only, Fields
<1>2. Typed(p, r)
  BY <1>1 DEF Sound, Typed
<1>3. Window(r)
  BY <1>1, WindowEmpty DEF Sound, Coherent
<1>4. Coherent(r)
  BY <1>1, <1>3 DEF Sound, Coherent
<1>5. m.game \in G /\ m.game \in Nat /\ m.myRoll \in Rolls
  BY DEF Sound, Coherent, Typed
<1>6. PICK f : f = RollFrame("REVEAL", m.game, m.myRoll)
  OBVIOUS
<1>7. f \in Frames /\ f.game \in G
  BY <1>5, <1>6, FramesAre
<1>8. r.out \in Seq(Frames) /\ \A i \in 1..Len(r.out) : r.out[i].game \in G
  BY <1>6, <1>7, Sent DEF Sound, Answered
<1> QED
  BY <1>1, <1>2, <1>4, <1>8 DEF Sound

LEMMA SoundForgot ==
  ASSUME NEW p \in Players, NEW G, NEW m, Sound(p, m, G), m.state = "OPENING",
         NEW r, Only(m, r, {"earlyReveal"}), r.earlyReveal = NoRoll
  PROVE  Sound(p, r, G) /\ r.state = "OPENING"
<1>1. /\ r.me = m.me /\ r.state = m.state /\ r.peer = m.peer /\ r.game = m.game
      /\ r.white = m.white /\ r.rollNo = m.rollNo /\ r.base = m.base /\ r.myRoll = m.myRoll
      /\ r.peerCommit = m.peerCommit /\ r.openingQueue = m.openingQueue
      /\ r.eventBuffer = m.eventBuffer /\ r.expectedSeq = m.expectedSeq
      /\ r.outSeq = m.outSeq /\ r.screen = m.screen /\ r.dice = m.dice /\ r.turn = m.turn
      /\ r.closing = m.closing /\ r.first = m.first /\ Record(r) /\ r.out = m.out
  BY DEF Only, Fields
<1>2. Typed(p, r)
  BY <1>1 DEF Sound, Typed
<1>3. Window(r)
  BY <1>1, WindowEmpty DEF Sound, Coherent
<1>4. Coherent(r)
  BY <1>1, <1>3 DEF Sound, Coherent
<1> QED
  BY <1>1, <1>2, <1>4 DEF Sound

\* Every frame leaves a sound record sound.
LEMMA SoundHandled ==
  ASSUME NEW p \in Players, NEW G \in SUBSET (Nat \ {0}), NEW m, Sound(p, m, G),
         NEW q \in Players \ {p}, NEW f \in Frames, f.game \in G, NEW die \in Nat,
         NEW E \in SUBSET Plays, f.type = "PLAY" /\ Mine(m, q, f) => f \in E,
         NEW r, Handled(m, r, q, f, die, E)
  PROVE  Sound(p, r, G)
<1>1. CASE Ignored(m, r, q, f)
  BY <1>1 DEF Ignored
<1>2. CASE Invited(m, r, q, f.game)
  <2>1. /\ r.me = m.me /\ r.rollNo = m.rollNo /\ r.base = m.base /\ r.myRoll = m.myRoll
        /\ r.peerCommit = m.peerCommit /\ r.openingQueue = m.openingQueue
        /\ r.earlyReveal = m.earlyReveal
        /\ r.eventBuffer = m.eventBuffer /\ r.expectedSeq = m.expectedSeq
        /\ r.outSeq = m.outSeq /\ r.screen = m.screen /\ r.dice = m.dice /\ r.turn = m.turn
        /\ r.closing = m.closing /\ r.first = m.first /\ Record(r) /\ r.out = m.out
    BY <1>2 DEF Invited, Only, Fields
  <2>2. /\ r.state = "INVITED" /\ r.peer = q /\ r.game = f.game /\ r.white = FALSE
        /\ m.state = "IDLE"
    BY <1>2 DEF Invited
  <2>3. Typed(p, r)
    BY <2>1, <2>2 DEF Sound, Typed, States, People
  <2>4. Window(r)
    BY <2>1, <2>2, WindowEmpty DEF Sound, Coherent
  <2>5. r.peer # Nobody /\ r.game # 0
    BY <2>2, ConstantsAssumption
  <2>6. Coherent(r)
    BY <2>1, <2>2, <2>4, <2>5 DEF Sound, Coherent
  <2> QED
    BY <2>1, <2>2, <2>3, <2>6 DEF Sound
<1>3. CASE Started(m, r, die) /\ m.state = "INVITING"
  <2>1. /\ Only(m, r, RollFields \cup {"state", "base", "turn", "dice", "screen"})
        /\ Rolled(m, r, die) /\ r.base = m.rollNo
        /\ r.state = "OPENING" /\ r.turn = Nobody /\ r.dice = FALSE /\ r.screen = "starting"
    BY <1>3 DEF Started
  <2>2. Only(m, r, RollFields \cup {"state", "base", "turn", "dice", "screen", "peerCommit",
                                    "earlyReveal"})
    BY <2>1 DEF Only
  <2>3. r.peerCommit = NoRoll /\ r.earlyReveal = NoRoll
    BY <1>3, <2>1 DEF Only, Fields, RollFields, Sound, Coherent
  <2>4. m.game \in G /\ m.rollNo \in Nat
    BY <1>3 DEF Sound, Coherent, Typed
  <2>5. r.base \in Nat /\ r.base <= m.rollNo /\ r.turn \in People
    BY <2>1, <2>4 DEF People
  <2> QED
    BY <1>3, <2>1, <2>2, <2>3, <2>4, <2>5, SoundRoll
<1>4. CASE f.type \in {"COMMIT", "REVEAL"} /\ m.state = "OPENING"
           /\ (Committed(m, r, f.roll, die, E) \/ Revealed(m, r, f.roll, die, E))
  <2>1. f \in [type : {"COMMIT", "REVEAL"}, game : Nat, roll : Rolls]
    BY <1>4 DEF Frames, Plays
  <2>2. f.roll \in Rolls
    BY <2>1
  <2>3. CASE Revealed(m, r, f.roll, die, E)
    BY <1>4, <2>2, <2>3, SoundRevealed
  <2>4. CASE m.earlyReveal = NoRoll /\ Answered(m, r, f.roll)
    BY <1>4, <2>2, <2>4, SoundAnswered
  <2>5. ASSUME m.earlyReveal # NoRoll, NEW s, NEW t, Answered(m, s, f.roll),
               Only(s, t, {"earlyReveal"}), t.earlyReveal = NoRoll,
               Revealed(t, r, m.earlyReveal, die, E)
        PROVE  Sound(p, r, G)
    <3>1. Sound(p, s, G) /\ s.state = "OPENING"
      BY <1>4, <2>2, <2>5, SoundAnswered
    <3>2. Sound(p, t, G) /\ t.state = "OPENING"
      BY <2>5, <3>1, SoundForgot
    <3>3. m.earlyReveal \in Rolls
      BY <2>5 DEF Sound, Typed
    <3> QED
      BY <2>5, <3>2, <3>3, SoundRevealed
  <2> QED
    BY <1>4, <2>3, <2>4, <2>5 DEF Committed
<1>5. CASE f.type = "PLAY" /\ Mine(m, q, f) /\ Queued(m, r, f)
  <2>1. /\ r.me = m.me /\ r.state = m.state /\ r.peer = m.peer /\ r.game = m.game
        /\ r.white = m.white /\ r.rollNo = m.rollNo /\ r.base = m.base /\ r.myRoll = m.myRoll
        /\ r.peerCommit = m.peerCommit /\ r.earlyReveal = m.earlyReveal
        /\ r.eventBuffer = m.eventBuffer /\ r.expectedSeq = m.expectedSeq
        /\ r.outSeq = m.outSeq /\ r.screen = m.screen /\ r.dice = m.dice /\ r.turn = m.turn
        /\ r.closing = m.closing /\ r.first = m.first /\ Record(r) /\ r.out = m.out
    BY <1>5 DEF Queued, Only, Fields
  <2>2. /\ r.openingQueue = Append(m.openingQueue, f) /\ m.state = "OPENING"
        /\ Len(m.openingQueue) < MAX_BUFFERED /\ f \in Plays /\ m.openingQueue \in Seq(Plays)
    BY <1>5 DEF Queued, Sound, Typed
  <2>3. r.openingQueue \in Seq(Plays) /\ Len(r.openingQueue) <= MAX_BUFFERED
    BY <2>2, ConstantsAssumption
  <2>4. Typed(p, r)
    BY <2>1, <2>3 DEF Sound, Typed
  <2>5. Window(r)
    BY <2>1, <2>2, WindowEmpty DEF Sound, Coherent
  <2>6. Coherent(r)
    BY <2>1, <2>2, <2>3, <2>5 DEF Sound, Coherent
  <2> QED
    BY <2>1, <2>4, <2>6 DEF Sound
<1>6. CASE m.state = "ACTIVE" /\ Heeds(m, r, E) /\ Window(r)
  BY <1>6, SoundHeeds
<1>7. CASE Over(m, r)
  <2>1. /\ Only(m, r, GameFields \cup {"closing"}) /\ Cleared(r) /\ r.closing = TRUE
    BY <1>7 DEF Over
  <2>2. Only(m, r, GameFields \cup {"out", "accuses", "closing", "screen"})
    BY <2>1 DEF Only
  <2>3. r.out = m.out /\ r.screen = m.screen
    BY <2>1 DEF Only, Fields, GameFields
  <2>4. /\ r.closing \in BOOLEAN /\ r.screen \in {"none", "starting", "open"}
        /\ r.out \in Seq(Frames) /\ \A i \in 1..Len(r.out) : r.out[i].game \in G
    BY <2>1, <2>3 DEF Sound, Typed
  <2> QED
    BY <2>1, <2>2, <2>4, SoundCleared
<1> QED
  BY <1>1, <1>2, <1>3, <1>4, <1>5, <1>6, <1>7 DEF Handled

-----------------------------------------------------------------------------
(* What each action makes of the record of its player.                      *)

Proposes(m, r, q, g) ==
  /\ m.state = "IDLE" /\ Only(m, r, {"state", "peer", "game", "white", "out"})
  /\ r.state = "INVITING" /\ r.peer = q /\ r.game = g /\ r.white = TRUE
  /\ r.out = Append(m.out, Frame("INVITE", g))

Accepts(m, r, die) ==
  /\ m.state = "INVITED"
  /\ \E s : /\ Only(m, s, {"out"}) /\ s.out = Append(m.out, Frame("ACCEPT", m.game))
            /\ Started(s, r, die)

Declines(m, r) == m.state = "INVITED" /\ Only(m, r, GameFields) /\ Cleared(r)

Leaves(m, r) ==
  /\ m.state # "IDLE" /\ Only(m, r, GameFields \cup {"out", "screen"}) /\ Cleared(r)
  /\ r.out = Append(m.out, Frame("END", m.game)) /\ r.screen = "none"

Taps(m, r, f, last) ==
  /\ m.state = "ACTIVE" /\ m.turn = m.me /\ m.outSeq < MaxEvents
  /\ f = PlayFrame(m.game, m.outSeq, IF m.dice THEN "MOVE" ELSE "ROLL", last)
  /\ Only(m, r, {"outSeq", "dice", "turn", "out"})
  /\ r.outSeq = m.outSeq + 1 /\ r.dice = ~last /\ r.turn = IF last THEN m.peer ELSE m.me
  /\ r.out = Append(m.out, f)

Shows(m, r) ==
  /\ Only(m, r, {"screen", "closing"})
  /\ \/ m.screen = "starting" /\ r.screen = "open"
     \/ QuickScreen => m.state = "IDLE"
  /\ r.screen \in {m.screen, "none", "open"} /\ r.closing \in {m.closing, FALSE}

LEMMA ProposeOutcome ==
  ASSUME NEW p \in Players, NEW q \in Players, Record(gm[p]), SendInvite(p, q)
  PROVE  /\ p # q /\ games < MaxGames /\ games' = games + 1 /\ UNCHANGED <<played, repeats>>
         /\ \E r : Proposes(gm[p], r, q, games + 1) /\ Becomes(p, q, r, net)
<1>1. PICK s : s = [gm[p] EXCEPT !.state = "INVITING", !.peer = q, !.game = games + 1, !.white = TRUE]
  OBVIOUS
<1>2. /\ Only(gm[p], s, {"state", "peer", "game", "white"})
      /\ s.state = "INVITING" /\ s.peer = q /\ s.game = games + 1 /\ s.white = TRUE
  BY <1>1 DEF Record, Fields, Only
<1>3. PICK r : r = Send(s, Frame("INVITE", games + 1))
  OBVIOUS
<1>4. Only(s, r, {"out"}) /\ r.out = Append(s.out, Frame("INVITE", games + 1))
  BY <1>2, <1>3, SendOnly DEF Only
<1>5. Proposes(gm[p], r, q, games + 1)
  <2>1. gm[p].state = "IDLE"
    BY DEF SendInvite
  <2> QED
    BY <1>2, <1>4, <2>1 DEF Proposes, Only, Fields
<1>6. Becomes(p, q, r, net)
  BY <1>1, <1>3 DEF SendInvite
<1> QED
  BY <1>5, <1>6 DEF SendInvite

LEMMA AcceptOutcome ==
  ASSUME NEW p \in Players, Record(gm[p]), AcceptInvite(p)
  PROVE  /\ UNCHANGED <<games, played, repeats>>
         /\ \E die \in Dice(gm[p]) : \E r : Accepts(gm[p], r, die) /\ Becomes(p, gm[p].peer, r, net)
<1>1. PICK s : s = Send(gm[p], Frame("ACCEPT", gm[p].game))
  OBVIOUS
<1>2. Only(gm[p], s, {"out"}) /\ s.out = Append(gm[p].out, Frame("ACCEPT", gm[p].game))
  BY <1>1, SendOnly
<1>3. PICK die \in Dice(gm[p]) : Becomes(p, gm[p].peer, StartGame(s, die), net)
  BY <1>1 DEF AcceptInvite
<1>4. PICK r : r = StartGame(s, die)
  OBVIOUS
<1>5. Started(s, r, die)
  BY <1>2, <1>4, StartOutcome DEF Only
<1>6. Accepts(gm[p], r, die)
  BY <1>2, <1>5 DEF Accepts, AcceptInvite
<1> QED
  BY <1>3, <1>4, <1>6 DEF AcceptInvite

LEMMA DeclineOutcome ==
  ASSUME NEW p \in Players, Record(gm[p]), DeclineInvite(p)
  PROVE  /\ UNCHANGED <<games, played, repeats>>
         /\ \E r : Declines(gm[p], r) /\ Becomes(p, Nobody, r, net)
<1>1. PICK r : r = ResetToIdle(gm[p])
  OBVIOUS
<1>2. Only(gm[p], r, GameFields) /\ Cleared(r)
  BY <1>1, ResetOnly DEF Cleared
<1> QED
  BY <1>1, <1>2 DEF DeclineInvite, Declines

LEMMA LeaveOutcome ==
  ASSUME NEW p \in Players, Record(gm[p]), Leave(p)
  PROVE  /\ UNCHANGED <<games, played, repeats>>
         /\ \E r : Leaves(gm[p], r) /\ Becomes(p, gm[p].peer, r, net)
<1>1. PICK s : s = EndGame(gm[p])
  OBVIOUS
<1>2. /\ Only(gm[p], s, GameFields \cup {"out"})
      /\ s.out = Append(gm[p].out, Frame("END", gm[p].game)) /\ Cleared(s)
  BY <1>1, EndOnly DEF Cleared
<1>3. PICK r : r = [s EXCEPT !.screen = "none"]
  OBVIOUS
<1>4. Only(s, r, {"screen"}) /\ r.screen = "none"
  BY <1>2, <1>3 DEF Record, Fields, Only
<1>5. Cleared(r) /\ r.out = s.out
  BY <1>2, <1>4 DEF Only, Fields, Cleared
<1>6. Only(gm[p], r, GameFields \cup {"out", "screen"})
  BY <1>2, <1>4 DEF Only, Fields, GameFields
<1>7. Leaves(gm[p], r)
  BY <1>2, <1>4, <1>5, <1>6 DEF Leaves, Leave
<1> QED
  BY <1>1, <1>3, <1>7 DEF Leave

LEMMA TapOutcome ==
  ASSUME NEW p \in Players, Record(gm[p]), gm[p].me = p, Tap(p)
  PROVE  /\ UNCHANGED <<games, repeats>>
         /\ \E last \in BOOLEAN : \E r, f :
              /\ Taps(gm[p], r, f, last) /\ Becomes(p, gm[p].peer, r, net)
              /\ played' = [played EXCEPT ![gm[p].game][gm[p].peer] = Append(@, f)]
<1>1. PICK m : m = gm[p]
  OBVIOUS
<1>2. PICK last \in BOOLEAN :
        LET f == PlayFrame(m.game, m.outSeq, IF m.dice THEN "MOVE" ELSE "ROLL", last) IN
        /\ Becomes(p, m.peer, Send([m EXCEPT !.outSeq = @ + 1, !.dice = ~last,
                                             !.turn = IF last THEN m.peer ELSE p], f), net)
        /\ played' = [played EXCEPT ![m.game][m.peer] = Append(@, f)]
  BY <1>1 DEF Tap
<1>3. PICK f : f = PlayFrame(m.game, m.outSeq, IF m.dice THEN "MOVE" ELSE "ROLL", last)
  OBVIOUS
<1>4. PICK x : x = IF last THEN m.peer ELSE p
  OBVIOUS
<1>5. PICK s : s = [m EXCEPT !.outSeq = m.outSeq + 1, !.dice = ~last, !.turn = x]
  OBVIOUS
<1>6. Only(m, s, {"outSeq", "dice", "turn"}) /\ s.outSeq = m.outSeq + 1 /\ s.dice = ~last
      /\ s.turn = x
  BY <1>1, <1>5 DEF Record, Fields, Only
<1>7. PICK r : r = Send(s, f)
  OBVIOUS
<1>8. Only(s, r, {"out"}) /\ r.out = Append(s.out, f)
  BY <1>6, <1>7, SendOnly DEF Only
<1>9. /\ Only(m, r, {"outSeq", "dice", "turn", "out"}) /\ r.outSeq = m.outSeq + 1
      /\ r.dice = ~last /\ r.turn = x /\ r.out = Append(m.out, f)
  BY <1>6, <1>8 DEF Only, Fields
<1>10. m.state = "ACTIVE" /\ m.turn = p /\ m.outSeq < MaxEvents
  BY <1>1 DEF Tap
<1>11. Taps(m, r, f, last)
  BY <1>1, <1>3, <1>4, <1>9, <1>10 DEF Taps
<1>12. Becomes(p, m.peer, r, net)
  BY <1>2, <1>3, <1>4, <1>5, <1>7
<1>13. played' = [played EXCEPT ![m.game][m.peer] = Append(@, f)]
  BY <1>2, <1>3
<1> QED
  BY <1>1, <1>11, <1>12, <1>13 DEF Tap

LEMMA ScreenOutcome ==
  ASSUME NEW p \in Players, Record(gm[p]), gm = [q \in Players |-> gm[q]],
         ScreenOpens(p) \/ ScreenCloses(p)
  PROVE  /\ UNCHANGED <<net, games, played, heard, accused, repeats>>
         /\ \E r : Shows(gm[p], r) /\ gm' = [gm EXCEPT ![p] = r]
<1>1. CASE ScreenOpens(p)
  <2>1. PICK r : r = [gm[p] EXCEPT !.screen = "open"]
    OBVIOUS
  <2>2. Only(gm[p], r, {"screen"}) /\ r.screen = "open"
    BY <2>1 DEF Record, Fields, Only
  <2>3. gm' = [gm EXCEPT ![p] = r]
    BY <1>1, <2>1 DEF ScreenOpens
  <2>4. Only(gm[p], r, {"screen", "closing"}) /\ r.closing = gm[p].closing
    BY <2>2 DEF Only, Fields
  <2> QED
    BY <1>1, <2>2, <2>3, <2>4 DEF ScreenOpens, Shows
<1>2. CASE ScreenCloses(p)
  <2>1. PICK x : x = IF gm[p].screen = "open" THEN "none" ELSE gm[p].screen
    OBVIOUS
  <2>2. PICK r : r = [gm[p] EXCEPT !.closing = FALSE, !.screen = x]
    OBVIOUS
  <2>3. Only(gm[p], r, {"screen", "closing"}) /\ r.screen = x /\ r.closing = FALSE
    BY <2>2 DEF Record, Fields, Only
  <2>4. gm' = [gm EXCEPT ![p] = r]
    BY <1>2, <2>1, <2>2 DEF ScreenCloses
  <2> QED
    BY <1>2, <2>1, <2>3, <2>4 DEF ScreenCloses, Shows
<1> QED
  BY <1>1, <1>2

-----------------------------------------------------------------------------
(* The invariant of the types.                                              *)

Resting(m) == m.out = <<>> /\ m.given = <<>> /\ m.accuses = FALSE
\* The record of a player between two handlers.
Rested(m, x) == Only(m, x, {"out", "given", "accuses"}) /\ Resting(x)

NetOk(N, G) ==
  /\ N \in [Players -> [Players -> Seq(Frames)]]
  /\ \A p, q \in Players : \A i \in 1..Len(N[p][q]) : N[p][q][i].game \in G
  /\ \A p \in Players : N[p][p] = <<>>

\* One record for each player.
PerPlayer(f) == f = [p \in Players |-> f[p]]

Sane ==
  /\ games \in Nat /\ games <= MaxGames
  /\ PerPlayer(gm)
  /\ \A p \in Players : Sound(p, gm[p], 1..games) /\ Resting(gm[p])
  /\ NetOk(net, 1..games)

\* The network with the frames o after those from p to q, and without the i-th.
Sending(N, p, q, o) == [N EXCEPT ![p][q] = N[p][q] \o o]
Taking(N, p, q, i) == [N EXCEPT ![p][q] = RemoveAt(N[p][q], i)]

\* What is left of a sequence when one element is taken out.
LEMMA Removed ==
  ASSUME NEW S, NEW s \in Seq(S), NEW i \in 1..Len(s)
  PROVE  /\ RemoveAt(s, i) \in Seq(S) /\ Len(RemoveAt(s, i)) = Len(s) - 1
         /\ \A j \in 1..Len(RemoveAt(s, i)) :
              RemoveAt(s, i)[j] = IF j < i THEN s[j] ELSE s[j + 1]
<1>1. PICK a, b : a = SubSeq(s, 1, i - 1) /\ b = SubSeq(s, i + 1, Len(s))
  OBVIOUS
<1>2. /\ a \in Seq(S) /\ Len(a) = i - 1 /\ \A j \in 1..(i - 1) : a[j] = s[j]
  BY <1>1
<1>3. /\ b \in Seq(S) /\ Len(b) = Len(s) - i /\ \A j \in 1..(Len(s) - i) : b[j] = s[i + j]
  BY <1>1
<1>4. PICK r : r = a \o b
  OBVIOUS
<1>5. r = RemoveAt(s, i)
  BY <1>1, <1>4 DEF RemoveAt
<1>6. r \in Seq(S) /\ Len(r) = Len(s) - 1
  BY <1>2, <1>3, <1>4
<1>7. ASSUME NEW j \in 1..Len(r) PROVE r[j] = IF j < i THEN s[j] ELSE s[j + 1]
  <2>1. CASE j < i
    BY <1>2, <1>3, <1>4, <1>6, <2>1
  <2>2. CASE j >= i
    <3>1. r[j] = b[j - (i - 1)]
      BY <1>2, <1>3, <1>4, <1>6, <2>2
    <3>2. j - (i - 1) \in 1..(Len(s) - i)
      BY <1>6, <2>2
    <3> QED
      BY <1>3, <2>2, <3>1, <3>2
  <2> QED
    BY <2>1, <2>2
<1> QED
  BY <1>5, <1>6, <1>7

LEMMA RestedIs ==
  ASSUME NEW r, Record(r)
  PROVE  Rested(r, [r EXCEPT !.out = <<>>, !.given = <<>>, !.accuses = FALSE])
<1>1. PICK x : x = [r EXCEPT !.out = <<>>, !.given = <<>>, !.accuses = FALSE]
  OBVIOUS
<1>2. Only(r, x, {"out", "given", "accuses"}) /\ x.out = <<>> /\ x.given = <<>>
      /\ x.accuses = FALSE
  BY <1>1 DEF Record, Fields, Only
<1> QED
  BY <1>1, <1>2 DEF Rested, Resting

LEMMA SoundRested ==
  ASSUME NEW p, NEW G, NEW r, Sound(p, r, G), NEW x, Rested(r, x)
  PROVE  Sound(p, x, G) /\ Resting(x)
<1>1. /\ x.me = r.me /\ x.state = r.state /\ x.peer = r.peer /\ x.game = r.game
      /\ x.white = r.white /\ x.rollNo = r.rollNo /\ x.base = r.base /\ x.myRoll = r.myRoll
      /\ x.peerCommit = r.peerCommit /\ x.earlyReveal = r.earlyReveal
      /\ x.openingQueue = r.openingQueue
      /\ x.eventBuffer = r.eventBuffer /\ x.expectedSeq = r.expectedSeq
      /\ x.outSeq = r.outSeq /\ x.screen = r.screen /\ x.dice = r.dice /\ x.turn = r.turn
      /\ x.closing = r.closing /\ x.first = r.first /\ Record(x)
  BY DEF Rested, Only, Fields
<1>2. Typed(p, x)
  BY <1>1 DEF Sound, Typed
<1>3. Window(x)
  BY <1>1 DEF Sound, Coherent, Window, Between, Settled
<1>4. Coherent(x)
  BY <1>1, <1>3 DEF Sound, Coherent
<1>5. x.out = <<>>
  BY DEF Rested, Resting
<1>6. x.out \in Seq(Frames) /\ Len(x.out) = 0
  BY <1>5
<1>7. \A i \in 1..Len(x.out) : x.out[i].game \in G
  BY <1>6
<1>8. x.game \in G \cup {0}
  BY <1>1 DEF Sound
<1> QED
  BY <1>1, <1>2, <1>4, <1>6, <1>7, <1>8 DEF Sound, Rested

LEMMA SoundMore ==
  ASSUME NEW p, NEW G, NEW H, G \subseteq H, NEW m, Sound(p, m, G)
  PROVE  Sound(p, m, H)
BY DEF Sound

\* What Becomes does to the records and the network.
LEMMA BecomesIs ==
  ASSUME NEW p \in Players, NEW q \in People \ {p}, NEW r, NEW N, Record(r), Becomes(p, q, r, N),
         PerPlayer(gm)
  PROVE  /\ PerPlayer(gm') /\ Rested(r, gm'[p])
         /\ \A x \in Players \ {p} : gm'[x] = gm[x]
         /\ q = Nobody => net' = N
         /\ q # Nobody => q \in Players /\ net' = Sending(N, p, q, r.out)
<1>1. PICK y : y = [r EXCEPT !.out = <<>>, !.given = <<>>, !.accuses = FALSE]
  OBVIOUS
<1>2. gm' = [gm EXCEPT ![p] = y]
  BY <1>1 DEF Becomes
<1>3. Rested(r, y)
  BY <1>1, RestedIs
<1>4. PerPlayer(gm') /\ gm'[p] = y /\ \A x \in Players \ {p} : gm'[x] = gm[x]
  BY <1>2 DEF PerPlayer
<1>5. /\ q = Nobody => net' = N
      /\ q # Nobody => net' = Sending(N, p, q, r.out)
  BY DEF Becomes, Sending
<1> QED
  BY <1>3, <1>4, <1>5 DEF People

LEMMA SentOk ==
  ASSUME NEW G, NEW N, NetOk(N, G), NEW p \in Players, NEW q \in Players \ {p},
         NEW o \in Seq(Frames), \A i \in 1..Len(o) : o[i].game \in G,
         NEW M, M = Sending(N, p, q, o)
  PROVE  NetOk(M, G)
<1>1. PICK s \in Seq(Frames) : s = N[p][q]
  BY DEF NetOk
<1>2. PICK t : t = s \o o
  OBVIOUS
<1>3. t \in Seq(Frames) /\ \A i \in 1..Len(t) :
        \/ i \in 1..Len(s) /\ t[i] = s[i]
        \/ i - Len(s) \in 1..Len(o) /\ t[i] = o[i - Len(s)]
  BY <1>2
<1>4. M = [N EXCEPT ![p][q] = t]
  BY <1>1, <1>2 DEF Sending, Taking
<1>5. M \in [Players -> [Players -> Seq(Frames)]] /\ M[p][q] = t
      /\ \A x, y \in Players : <<x, y>> # <<p, q>> => M[x][y] = N[x][y]
  BY <1>3, <1>4 DEF NetOk
<1>6. \A i \in 1..Len(t) : t[i].game \in G
  BY <1>1, <1>3 DEF NetOk
<1>7. ASSUME NEW x \in Players, NEW y \in Players, NEW i \in 1..Len(M[x][y])
      PROVE  M[x][y][i].game \in G
  <2>1. CASE x = p /\ y = q
    BY <1>5, <1>6, <2>1
  <2>2. CASE ~(x = p /\ y = q)
    <3>1. M[x][y] = N[x][y]
      BY <1>5, <2>2
    <3> QED
      BY <3>1 DEF NetOk
  <2> QED
    BY <2>1, <2>2
<1>8. \A x \in Players : M[x][x] = <<>>
  BY <1>5 DEF NetOk
<1> QED
  BY <1>5, <1>7, <1>8 DEF NetOk

LEMMA TakenOk ==
  ASSUME NEW G, NEW N, NetOk(N, G), NEW p \in Players, NEW q \in Players,
         NEW i \in 1..Len(N[p][q]), NEW M, M = Taking(N, p, q, i)
  PROVE  NetOk(M, G)
<1>1. PICK s \in Seq(Frames) : s = N[p][q]
  BY DEF NetOk
<1>2. PICK t : t = RemoveAt(s, i)
  OBVIOUS
<1>3. t \in Seq(Frames) /\ Len(t) = Len(s) - 1
      /\ \A j \in 1..Len(t) : t[j] = IF j < i THEN s[j] ELSE s[j + 1]
  BY <1>1, <1>2, Removed
<1>4. M = [N EXCEPT ![p][q] = t]
  BY <1>1, <1>2 DEF Sending, Taking
<1>5. M \in [Players -> [Players -> Seq(Frames)]] /\ M[p][q] = t
      /\ \A x, y \in Players : <<x, y>> # <<p, q>> => M[x][y] = N[x][y]
  BY <1>3, <1>4 DEF NetOk
<1>6. \A j \in 1..Len(s) : s[j].game \in G
  BY <1>1 DEF NetOk
<1>7. \A j \in 1..Len(t) : t[j].game \in G
  BY <1>3, <1>6
<1>8. ASSUME NEW x \in Players, NEW y \in Players, NEW j \in 1..Len(M[x][y])
      PROVE  M[x][y][j].game \in G
  <2>1. CASE x = p /\ y = q
    BY <1>5, <1>7, <2>1
  <2>2. CASE ~(x = p /\ y = q)
    <3>1. M[x][y] = N[x][y]
      BY <1>5, <2>2
    <3> QED
      BY <3>1 DEF NetOk
  <2> QED
    BY <2>1, <2>2
<1>9. \A x \in Players : M[x][x] = <<>>
  <2>1. p # q
    <3>1. 1..Len(N[p][q]) # {}
      OBVIOUS
    <3> QED
      BY <3>1 DEF NetOk
  <2> QED
    BY <1>5, <2>1 DEF NetOk
<1> QED
  BY <1>5, <1>8, <1>9 DEF NetOk

LEMMA SaneBecomes ==
  ASSUME PerPlayer(gm), games' \in Nat, games' <= MaxGames,
         NEW p \in Players, NEW q \in People \ {p}, NEW r, NEW N, Becomes(p, q, r, N),
         Sound(p, r, 1..games'), NetOk(N, 1..games'),
         \A x \in Players : Sound(x, gm[x], 1..games') /\ Resting(gm[x])
  PROVE  Sane'
<1>1. Record(r) /\ r.out \in Seq(Frames) /\ \A i \in 1..Len(r.out) : r.out[i].game \in 1..games'
  BY DEF Sound
<1>2. /\ PerPlayer(gm') /\ Rested(r, gm'[p])
      /\ \A x \in Players \ {p} : gm'[x] = gm[x]
      /\ q = Nobody => net' = N
      /\ q # Nobody => q \in Players /\ net' = Sending(N, p, q, r.out)
  BY <1>1, BecomesIs
<1>3. Sound(p, gm'[p], 1..games') /\ Resting(gm'[p])
  BY <1>2, SoundRested
<1>4. \A x \in Players : Sound(x, gm'[x], 1..games') /\ Resting(gm'[x])
  BY <1>2, <1>3
<1>5. NetOk(net', 1..games')
  <2>1. CASE q = Nobody
    BY <1>2, <2>1
  <2>2. CASE q # Nobody
    <3>1. q \in Players \ {p}
      BY <1>2, <2>2
    <3> QED
      BY <1>1, <1>2, <2>2, <3>1, SentOk
  <2> QED
    BY <2>1, <2>2
<1>6. \A x \in Players : Sound(x, gm'[x], 1..games') /\ (Resting(gm[x]))'
  BY <1>4 DEF Resting
<1>7. \A x \in Players : (Sound(x, gm[x], 1..games))' /\ (Resting(gm[x]))'
  BY <1>6 DEF Sound, Typed, Coherent, Window, Between, Settled, Record
<1>8. (NetOk(net, 1..games))'
  BY <1>5 DEF NetOk
<1> QED
  BY <1>2, <1>7, <1>8 DEF Sane, PerPlayer

\* The record of p, as far as handlers look at it, with events of E.
LEMMA SoundHolds ==
  ASSUME NEW p, NEW G, NEW m, Sound(p, m, G), m.given = <<>>,
         NEW E \in SUBSET Plays, m.eventBuffer \subseteq E, m.openingQueue \in Seq(E)
  PROVE  Holds(m, E)
BY DEF Holds, Sound, Typed, Coherent

LEMMA DiceNat ==
  ASSUME NEW m PROVE Dice(m) \in SUBSET Nat
BY ConstantsAssumption DEF Dice

\* A frame f of q is handled by p; N is the network without it, or with it
\* when it comes again.
Receives(p, q, i, again, die, f, r, N, E) ==
  /\ i <= Overtakes + 1 /\ (again => repeats < MaxRepeats)
  /\ repeats' = IF again THEN repeats + 1 ELSE repeats
  /\ f = net[q][p][i] /\ N = IF again THEN net ELSE Taking(net, q, p, i)
  /\ Handled(gm[p], r, q, f, die, E)
  /\ QuickScreen => gm[p].screen # "starting"

LEMMA ReceiveOutcome ==
  ASSUME Sane, NEW p \in Players, NEW q \in Players, Receive(p, q),
         NEW E \in SUBSET Plays, gm[p].eventBuffer \subseteq E, gm[p].openingQueue \in Seq(E),
         \A i \in 1..Len(net[q][p]) :
           net[q][p][i].type = "PLAY" /\ Mine(gm[p], q, net[q][p][i]) => net[q][p][i] \in E
  PROVE  /\ UNCHANGED <<games, played>>
         /\ p # q
         /\ \E i \in 1..Len(net[q][p]), again \in BOOLEAN, die \in Dice(gm[p]), f \in Frames :
              \E r, N : /\ Receives(p, q, i, again, die, f, r, N, E)
                        /\ f.game \in 1..games /\ NetOk(N, 1..games)
                        /\ Becomes(p, gm[p].peer, r, N)
<1>1. PICK i \in 1..Len(net[q][p]), again \in BOOLEAN, die \in Dice(gm[p]) :
        /\ QuickScreen => gm[p].screen # "starting"
        /\ i <= Overtakes + 1
        /\ again => repeats < MaxRepeats
        /\ repeats' = IF again THEN repeats + 1 ELSE repeats
        /\ LET frames == IF again THEN net ELSE [net EXCEPT ![q][p] = RemoveAt(@, i)] IN
           Becomes(p, gm[p].peer, HandleGameEvent(gm[p], q, net[q][p][i], die), frames)
  BY DEF Receive
<1>2. NetOk(net, 1..games) /\ Sound(p, gm[p], 1..games) /\ Resting(gm[p])
  BY DEF Sane
<1>3. PICK f : f = net[q][p][i]
  OBVIOUS
<1>4. net[q][p] \in Seq(Frames) /\ (\A j \in 1..Len(net[q][p]) : net[q][p][j].game \in 1..games)
  BY <1>2 DEF NetOk
<1>5. f \in Frames /\ f.game \in 1..games
  BY <1>3, <1>4
<1>6. PICK N : N = IF again THEN net ELSE Taking(net, q, p, i)
  OBVIOUS
<1>7. PICK r : r = HandleGameEvent(gm[p], q, f, die)
  OBVIOUS
<1>8. Becomes(p, gm[p].peer, r, N)
  BY <1>1, <1>3, <1>6, <1>7 DEF Taking
<1>9. gm[p].given = <<>>
  BY <1>2 DEF Resting
<1>10. Holds(gm[p], E)
  BY <1>2, <1>9, SoundHolds
<1>11. f.type = "PLAY" /\ Mine(gm[p], q, f) => f \in E
  BY <1>3
<1>12. Handled(gm[p], r, q, f, die, E)
  BY <1>5, <1>7, <1>10, <1>11, HandleOutcome
<1>13. NetOk(N, 1..games)
  <2>1. CASE again
    BY <1>2, <1>6, <2>1
  <2>2. CASE ~again
    BY <1>2, <1>6, <2>2, TakenOk
  <2> QED
    BY <2>1, <2>2
<1>14. p # q
  <2>1. Len(net[q][p]) # 0
    OBVIOUS
  <2> QED
    BY <1>2, <2>1 DEF NetOk
<1>15. Receives(p, q, i, again, die, f, r, N, E)
  BY <1>1, <1>3, <1>6, <1>12 DEF Receives
<1>16. UNCHANGED <<games, played>>
  BY DEF Receive
<1> QED
  BY <1>5, <1>8, <1>13, <1>14, <1>15, <1>16

LEMMA SoundProposes ==
  ASSUME NEW p \in Players, NEW q \in Players \ {p}, NEW G \in SUBSET Nat, NEW m, Sound(p, m, G),
         NEW g \in G \ {0}, NEW r, Proposes(m, r, q, g)
  PROVE  Sound(p, r, G)
<1>1. /\ r.me = m.me /\ r.rollNo = m.rollNo /\ r.base = m.base /\ r.myRoll = m.myRoll
      /\ r.peerCommit = m.peerCommit /\ r.openingQueue = m.openingQueue
      /\ r.earlyReveal = m.earlyReveal
      /\ r.eventBuffer = m.eventBuffer /\ r.expectedSeq = m.expectedSeq
      /\ r.outSeq = m.outSeq /\ r.screen = m.screen /\ r.dice = m.dice /\ r.turn = m.turn
      /\ r.closing = m.closing /\ r.first = m.first /\ Record(r)
  BY DEF Proposes, Only, Fields
<1>2. /\ r.state = "INVITING" /\ r.peer = q /\ r.game = g /\ r.white = TRUE /\ m.state = "IDLE"
      /\ r.out = Append(m.out, Frame("INVITE", g))
  BY DEF Proposes
<1>3. Typed(p, r)
  BY <1>1, <1>2 DEF Sound, Typed, States, People
<1>4. Window(r)
  BY <1>1, <1>2, WindowEmpty DEF Sound, Coherent
<1>5. r.peer # Nobody /\ r.game # 0
  BY <1>2, ConstantsAssumption
<1>6. Coherent(r)
  BY <1>1, <1>2, <1>4, <1>5 DEF Sound, Coherent
<1>7. PICK f : f = Frame("INVITE", g)
  OBVIOUS
<1>8. f \in Frames /\ f.game \in G
  BY <1>7, FramesAre
<1>9. r.out \in Seq(Frames) /\ \A i \in 1..Len(r.out) : r.out[i].game \in G
  BY <1>2, <1>7, <1>8, Sent DEF Sound
<1> QED
  BY <1>1, <1>2, <1>3, <1>6, <1>9 DEF Sound

LEMMA SoundOut ==
  ASSUME NEW p, NEW G, NEW m, Sound(p, m, G), NEW r, Only(m, r, {"out"}),
         NEW f \in Frames, f.game \in G, r.out = Append(m.out, f)
  PROVE  Sound(p, r, G) /\ r.state = m.state
<1>1. /\ r.me = m.me /\ r.state = m.state /\ r.peer = m.peer /\ r.game = m.game
      /\ r.white = m.white /\ r.rollNo = m.rollNo /\ r.base = m.base /\ r.myRoll = m.myRoll
      /\ r.peerCommit = m.peerCommit /\ r.openingQueue = m.openingQueue
      /\ r.earlyReveal = m.earlyReveal
      /\ r.eventBuffer = m.eventBuffer /\ r.expectedSeq = m.expectedSeq
      /\ r.outSeq = m.outSeq /\ r.screen = m.screen /\ r.dice = m.dice /\ r.turn = m.turn
      /\ r.closing = m.closing /\ r.first = m.first /\ Record(r)
  BY DEF Only, Fields
<1>2. Typed(p, r)
  BY <1>1 DEF Sound, Typed
<1>3. Window(r)
  BY <1>1 DEF Sound, Coherent, Window, Between, Settled
<1>4. Coherent(r)
  BY <1>1, <1>3 DEF Sound, Coherent
<1>5. r.out \in Seq(Frames) /\ \A i \in 1..Len(r.out) : r.out[i].game \in G
  BY Sent DEF Sound
<1> QED
  BY <1>1, <1>2, <1>4, <1>5 DEF Sound

LEMMA SoundStarted ==
  ASSUME NEW p \in Players, NEW G \in SUBSET (Nat \ {0}), NEW m, Sound(p, m, G),
         m.state \in {"INVITING", "INVITED"}, NEW die \in Nat, NEW r, Started(m, r, die)
  PROVE  Sound(p, r, G)
<1>1. /\ Only(m, r, RollFields \cup {"state", "base", "turn", "dice", "screen"})
      /\ Rolled(m, r, die) /\ r.base = m.rollNo
      /\ r.state = "OPENING" /\ r.turn = Nobody /\ r.dice = FALSE /\ r.screen = "starting"
  BY DEF Started
<1>2. Only(m, r, RollFields \cup {"state", "base", "turn", "dice", "screen", "peerCommit",
                                  "earlyReveal"})
  BY <1>1 DEF Only
<1>3. r.peerCommit = NoRoll /\ r.earlyReveal = NoRoll
  BY <1>1 DEF Only, Fields, RollFields, Sound, Coherent
<1>4. m.game \in G /\ m.rollNo \in Nat
  BY DEF Sound, Coherent, Typed
<1>5. r.base \in Nat /\ r.base <= m.rollNo /\ r.turn \in People
  BY <1>1, <1>4 DEF People
<1> QED
  BY <1>1, <1>2, <1>3, <1>4, <1>5, SoundRoll

LEMMA SoundAccepts ==
  ASSUME NEW p \in Players, NEW G \in SUBSET (Nat \ {0}), NEW m, Sound(p, m, G),
         NEW die \in Nat, NEW r, Accepts(m, r, die)
  PROVE  Sound(p, r, G)
<1>1. PICK s : /\ Only(m, s, {"out"}) /\ s.out = Append(m.out, Frame("ACCEPT", m.game))
               /\ Started(s, r, die) /\ m.state = "INVITED"
  BY DEF Accepts
<1>2. m.game \in G /\ m.game \in Nat
  BY <1>1 DEF Sound, Coherent
<1>3. PICK f : f = Frame("ACCEPT", m.game)
  OBVIOUS
<1>4. f \in Frames /\ f.game \in G
  BY <1>2, <1>3, FramesAre
<1>5. Sound(p, s, G) /\ s.state = "INVITED"
  BY <1>1, <1>3, <1>4, SoundOut
<1> QED
  BY <1>1, <1>5, SoundStarted

LEMMA SoundLeaves ==
  ASSUME NEW p \in Players, NEW G \in SUBSET (Nat \ {0}), NEW m, Sound(p, m, G),
         NEW r, Leaves(m, r) \/ Declines(m, r)
  PROVE  Sound(p, r, G)
<1>1. CASE Leaves(m, r)
  <2>1. /\ m.state # "IDLE" /\ Only(m, r, GameFields \cup {"out", "screen"}) /\ Cleared(r)
        /\ r.out = Append(m.out, Frame("END", m.game)) /\ r.screen = "none"
    BY <1>1 DEF Leaves
  <2>2. Only(m, r, GameFields \cup {"out", "accuses", "closing", "screen"})
    BY <2>1 DEF Only
  <2>3. r.closing = m.closing
    BY <2>1 DEF Only, Fields, GameFields
  <2>4. m.game \in G /\ m.game \in Nat
    BY <2>1 DEF Sound, Coherent
  <2>5. PICK f : f = Frame("END", m.game)
    OBVIOUS
  <2>6. f \in Frames /\ f.game \in G
    BY <2>4, <2>5, FramesAre
  <2>7. r.out \in Seq(Frames) /\ \A i \in 1..Len(r.out) : r.out[i].game \in G
    BY <2>1, <2>5, <2>6, Sent DEF Sound
  <2>8. r.closing \in BOOLEAN /\ r.screen \in {"none", "starting", "open"}
    BY <2>1, <2>3 DEF Sound, Typed
  <2> QED
    BY <2>1, <2>2, <2>7, <2>8, SoundCleared
<1>2. CASE Declines(m, r)
  <2>1. Only(m, r, GameFields) /\ Cleared(r)
    BY <1>2 DEF Declines
  <2>2. Only(m, r, GameFields \cup {"out", "accuses", "closing", "screen"})
    BY <2>1 DEF Only
  <2>3. r.closing = m.closing /\ r.screen = m.screen /\ r.out = m.out
    BY <2>1 DEF Only, Fields, GameFields
  <2>4. /\ r.closing \in BOOLEAN /\ r.screen \in {"none", "starting", "open"}
        /\ r.out \in Seq(Frames) /\ \A i \in 1..Len(r.out) : r.out[i].game \in G
    BY <2>3 DEF Sound, Typed
  <2> QED
    BY <2>1, <2>2, <2>4, SoundCleared
<1> QED
  BY <1>1, <1>2

LEMMA PlayFrames ==
  ASSUME NEW g \in Nat, NEW n \in Nat, NEW kind \in {"ROLL", "MOVE"}, NEW last \in BOOLEAN
  PROVE  LET f == PlayFrame(g, n, kind, last) IN
         /\ f \in Plays /\ f \in Frames /\ f.game = g /\ f.seq = n /\ f.type = "PLAY"
         /\ f.kind = kind /\ f.last = last
<1>1. PICK f : f = PlayFrame(g, n, kind, last)
  OBVIOUS
<1>2. f \in Plays /\ f.game = g /\ f.seq = n /\ f.type = "PLAY" /\ f.kind = kind /\ f.last = last
  BY <1>1 DEF PlayFrame, Plays
<1> QED
  BY <1>1, <1>2 DEF Frames

LEMMA SoundTaps ==
  ASSUME NEW p \in Players, NEW G \in SUBSET (Nat \ {0}), NEW m, Sound(p, m, G),
         NEW r, NEW f, NEW last \in BOOLEAN, Taps(m, r, f, last)
  PROVE  Sound(p, r, G) /\ f \in Plays /\ f \in Frames /\ f.game = m.game /\ f.seq = m.outSeq
<1>1. /\ r.me = m.me /\ r.state = m.state /\ r.peer = m.peer /\ r.game = m.game
      /\ r.white = m.white /\ r.rollNo = m.rollNo /\ r.base = m.base /\ r.myRoll = m.myRoll
      /\ r.peerCommit = m.peerCommit /\ r.openingQueue = m.openingQueue
      /\ r.earlyReveal = m.earlyReveal
      /\ r.eventBuffer = m.eventBuffer /\ r.expectedSeq = m.expectedSeq
      /\ r.screen = m.screen /\ r.closing = m.closing /\ r.first = m.first /\ Record(r)
  BY DEF Taps, Only, Fields
<1>2. /\ m.state = "ACTIVE" /\ r.outSeq = m.outSeq + 1 /\ r.dice = ~last
      /\ r.turn = IF last THEN m.peer ELSE m.me
      /\ f = PlayFrame(m.game, m.outSeq, IF m.dice THEN "MOVE" ELSE "ROLL", last)
      /\ r.out = Append(m.out, f)
  BY DEF Taps
<1>3. r.outSeq \in Nat /\ r.dice \in BOOLEAN /\ r.turn \in People
  BY <1>2 DEF Sound, Typed, People
<1>4. Typed(p, r)
  BY <1>1, <1>3 DEF Sound, Typed
<1>5. Window(r)
  BY <1>1 DEF Sound, Coherent, Window, Between, Settled
<1>6. Coherent(r)
  BY <1>1, <1>2, <1>5 DEF Sound, Coherent
<1>7. m.game \in G /\ m.game \in Nat /\ m.outSeq \in Nat
  BY <1>2 DEF Sound, Coherent, Typed
<1>8. PICK kind \in {"ROLL", "MOVE"} : kind = IF m.dice THEN "MOVE" ELSE "ROLL"
  OBVIOUS
<1>9. f \in Plays /\ f \in Frames /\ f.game = m.game /\ f.seq = m.outSeq
  BY <1>2, <1>7, <1>8, PlayFrames
<1>10. r.out \in Seq(Frames) /\ \A i \in 1..Len(r.out) : r.out[i].game \in G
  BY <1>2, <1>7, <1>9, Sent DEF Sound
<1> QED
  BY <1>1, <1>4, <1>6, <1>9, <1>10 DEF Sound

LEMMA SoundShows ==
  ASSUME NEW p \in Players, NEW G, NEW m, Sound(p, m, G), Resting(m), NEW r, Shows(m, r)
  PROVE  Sound(p, r, G) /\ Resting(r)
<1>1. /\ r.me = m.me /\ r.state = m.state /\ r.peer = m.peer /\ r.game = m.game
      /\ r.white = m.white /\ r.rollNo = m.rollNo /\ r.base = m.base /\ r.myRoll = m.myRoll
      /\ r.peerCommit = m.peerCommit /\ r.openingQueue = m.openingQueue
      /\ r.earlyReveal = m.earlyReveal
      /\ r.eventBuffer = m.eventBuffer /\ r.expectedSeq = m.expectedSeq
      /\ r.outSeq = m.outSeq /\ r.dice = m.dice /\ r.turn = m.turn
      /\ r.first = m.first /\ r.out = m.out /\ r.given = m.given /\ r.accuses = m.accuses
      /\ Record(r)
  BY DEF Shows, Only, Fields
<1>2. Typed(p, r)
  BY <1>1 DEF Sound, Typed, Shows
<1>3. Window(r)
  BY <1>1 DEF Sound, Coherent, Window, Between, Settled
<1>4. Coherent(r)
  BY <1>1, <1>3 DEF Sound, Coherent
<1> QED
  BY <1>1, <1>2, <1>4 DEF Sound, Resting

LEMMA SaneInit == Init => Sane
<1> SUFFICES ASSUME Init PROVE Sane
  OBVIOUS
<1>1. games = 0 /\ MaxGames \in Nat
  BY ConstantsAssumption DEF Init
<1>2. PerPlayer(gm) /\ \A p \in Players : gm[p] = Idle(p)
  BY DEF Init, PerPlayer
<1>3. ASSUME NEW p \in Players PROVE Sound(p, gm[p], 1..games) /\ Resting(gm[p])
  <2>1. PICK m : m = Idle(p)
    OBVIOUS
  <2>2. /\ m.me = p /\ m.state = "IDLE" /\ m.peer = Nobody /\ m.game = 0 /\ m.white = TRUE
        /\ m.rollNo = 0 /\ m.base = 0 /\ m.myRoll = NoRoll /\ m.peerCommit = NoRoll
        /\ m.earlyReveal = NoRoll /\ m.openingQueue = <<>> /\ m.outSeq = 0 /\ m.expectedSeq = 0
        /\ m.eventBuffer = {} /\ m.screen = "none" /\ m.closing = FALSE /\ m.turn = Nobody
        /\ m.dice = FALSE /\ m.first = Nobody /\ m.out = <<>> /\ m.given = <<>>
        /\ m.accuses = FALSE
    BY <2>1 DEF Idle
  <2>3. Record(m)
    BY <2>1 DEF Idle, Record, Fields
  <2>4. Typed(p, m)
    <3>1. m.openingQueue \in Seq(Plays) /\ Nobody \in People \ {p} /\ m.state \in States
      BY <2>2, ConstantsAssumption DEF States, People
    <3>2. /\ m.me = p /\ m.state \in States /\ m.peer \in People \ {p} 
      BY <2>2, <3>1
    <3>6. m.game \in Nat /\ m.rollNo \in Nat /\ m.base \in Nat /\ m.base <= m.rollNo
      BY <2>2
    <3>7. m.white \in BOOLEAN
      BY <2>2, Zenon
    <3>3. /\ m.myRoll \in Rolls \cup {NoRoll} /\ m.peerCommit \in Rolls \cup {NoRoll}
          /\ m.earlyReveal \in Rolls \cup {NoRoll}
      BY <2>2
    <3>4. /\ m.openingQueue \in Seq(Plays) /\ m.eventBuffer \subseteq Plays
          /\ m.outSeq \in Nat /\ m.expectedSeq \in Nat
      BY <2>2, <3>1
    <3>5. /\ m.screen \in {"none", "starting", "open"} /\ m.closing \in BOOLEAN
          /\ m.turn \in People /\ m.dice \in BOOLEAN /\ m.first \in People
      BY <2>2, <3>1
    <3> QED
      BY <3>2, <3>3, <3>4, <3>5, <3>6, <3>7 DEF Typed
  <2>5. Window(m)
    BY <2>2, WindowEmpty
  <2>6. Coherent(m)
    BY <2>2, <2>5, ConstantsAssumption DEF Coherent
  <2>7. m.out \in Seq(Frames) /\ Len(m.out) = 0
    BY <2>2
  <2>8. Sound(p, m, 1..games)
    BY <2>2, <2>3, <2>4, <2>6, <2>7 DEF Sound
  <2> QED
    BY <1>2, <2>1, <2>2, <2>8 DEF Resting
<1>4. \A p, q \in Players : net[p][q] = <<>>
  BY DEF Init
<1>5. net \in [Players -> [Players -> Seq(Frames)]]
  BY DEF Init
<1>6. NetOk(net, 1..games)
  BY <1>4, <1>5 DEF NetOk
<1> QED
  BY <1>1, <1>2, <1>3, <1>6 DEF Sane

LEMMA SaneStep ==
  ASSUME Sane, [Next]_vars PROVE Sane'
<1> DEFINE G == 1..games
<1>1. /\ games \in Nat /\ games <= MaxGames /\ PerPlayer(gm) /\ NetOk(net, G)
      /\ \A p \in Players : Sound(p, gm[p], G) /\ Resting(gm[p]) /\ gm[p].peer \in People \ {p}
      /\ MaxGames \in Nat
  BY ConstantsAssumption DEF Sane, Sound, Typed
<1>2. G \in SUBSET (Nat \ {0})
  BY <1>1
<1> HIDE DEF G
<1>3. ASSUME NEW p \in Players, NEW q \in Players, SendInvite(p, q) PROVE Sane'
  <2>1. Record(gm[p])
    BY <1>1 DEF Sound
  <2>2. PICK r : /\ p # q /\ games < MaxGames /\ games' = games + 1
                 /\ Proposes(gm[p], r, q, games + 1) /\ Becomes(p, q, r, net)
    BY <1>3, <2>1, ProposeOutcome
  <2>3. PICK H : H = 1..(games + 1)
    OBVIOUS
  <2>4. G \subseteq H /\ games + 1 \in H \ {0} /\ H \in SUBSET Nat /\ 1..games' = H
    BY <1>1, <2>2, <2>3 DEF G
  <2>5. \A x \in Players : Sound(x, gm[x], H) /\ Resting(gm[x])
    BY <1>1, <2>4, SoundMore
  <2>6. Sound(p, r, H)
    BY <2>2, <2>4, <2>5, SoundProposes
  <2>7. NetOk(net, H)
    BY <1>1, <2>4 DEF NetOk
  <2>8. games' \in Nat /\ games' <= MaxGames /\ q \in People \ {p}
    BY <1>1, <2>2 DEF People
  <2> QED
    BY <1>1, <2>2, <2>4, <2>5, <2>6, <2>7, <2>8, SaneBecomes
<1>4. ASSUME NEW p \in Players, NEW q \in People \ {p}, NEW r, NEW N, games' = games,
             Sound(p, r, G), NetOk(N, G), Becomes(p, q, r, N)
      PROVE  Sane'
  <2>1. 1..games' = G /\ games' \in Nat /\ games' <= MaxGames
    BY <1>1, <1>4 DEF G
  <2> QED
    BY <1>1, <1>4, <2>1, SaneBecomes
<1>5. ASSUME NEW p \in Players, AcceptInvite(p) PROVE Sane'
  <2>1. Record(gm[p])
    BY <1>1 DEF Sound
  <2>2. PICK die \in Dice(gm[p]) :
          \E r : games' = games /\ Accepts(gm[p], r, die) /\ Becomes(p, gm[p].peer, r, net)
    BY <1>5, <2>1, AcceptOutcome
  <2>3. PICK r : games' = games /\ Accepts(gm[p], r, die) /\ Becomes(p, gm[p].peer, r, net)
    BY <2>2
  <2>4. die \in Nat
    BY DiceNat
  <2>5. Sound(p, r, G)
    BY <1>1, <1>2, <2>3, <2>4, SoundAccepts
  <2> QED
    BY <1>1, <1>4, <2>3, <2>5
<1>6. ASSUME NEW p \in Players, DeclineInvite(p) PROVE Sane'
  <2>1. Record(gm[p])
    BY <1>1 DEF Sound
  <2>2. PICK r : games' = games /\ Declines(gm[p], r) /\ Becomes(p, Nobody, r, net)
    BY <1>6, <2>1, DeclineOutcome
  <2>3. Sound(p, r, G)
    BY <1>1, <1>2, <2>2, SoundLeaves
  <2>4. Nobody \in People \ {p}
    BY ConstantsAssumption DEF People
  <2> QED
    BY <1>1, <1>4, <2>2, <2>3, <2>4
<1>7. ASSUME NEW p \in Players, Leave(p) PROVE Sane'
  <2>1. Record(gm[p])
    BY <1>1 DEF Sound
  <2>2. PICK r : games' = games /\ Leaves(gm[p], r) /\ Becomes(p, gm[p].peer, r, net)
    BY <1>7, <2>1, LeaveOutcome
  <2>3. Sound(p, r, G)
    BY <1>1, <1>2, <2>2, SoundLeaves
  <2> QED
    BY <1>1, <1>4, <2>2, <2>3
<1>8. ASSUME NEW p \in Players, Tap(p) PROVE Sane'
  <2>1. Record(gm[p]) /\ gm[p].me = p
    BY <1>1 DEF Sound, Typed
  <2>2. PICK last \in BOOLEAN :
          \E r, f : games' = games /\ Taps(gm[p], r, f, last) /\ Becomes(p, gm[p].peer, r, net)
    BY <1>8, <2>1, TapOutcome
  <2>3. PICK r, f : games' = games /\ Taps(gm[p], r, f, last) /\ Becomes(p, gm[p].peer, r, net)
    BY <2>2
  <2>4. Sound(p, r, G)
    BY <1>1, <1>2, <2>3, SoundTaps
  <2> QED
    BY <1>1, <1>4, <2>3, <2>4
<1>9. ASSUME NEW p \in Players, NEW q \in Players, Receive(p, q) PROVE Sane'
  <2>1. gm[p].eventBuffer \subseteq Plays /\ gm[p].openingQueue \in Seq(Plays)
    BY <1>1 DEF Sound, Typed
  <2>2. ASSUME NEW i \in 1..Len(net[q][p]), net[q][p][i].type = "PLAY"
        PROVE  net[q][p][i] \in Plays
    <3>1. net[q][p][i] \in Frames
      BY <1>1 DEF NetOk
    <3> QED
      BY <2>2, <3>1 DEF Frames
  <2>3. games' = games /\ p # q
    BY <1>9, <2>1, <2>2, ReceiveOutcome
  <2>4. PICK i \in 1..Len(net[q][p]), again \in BOOLEAN, die \in Dice(gm[p]), f \in Frames :
          \E r, N : /\ Receives(p, q, i, again, die, f, r, N, Plays)
                    /\ f.game \in 1..games /\ NetOk(N, 1..games)
                    /\ Becomes(p, gm[p].peer, r, N)
    BY <1>9, <2>1, <2>2, ReceiveOutcome
  <2>5. PICK r, N : /\ Receives(p, q, i, again, die, f, r, N, Plays)
                    /\ f.game \in G /\ NetOk(N, G) /\ Becomes(p, gm[p].peer, r, N)
    BY <2>4 DEF G
  <2>6. Handled(gm[p], r, q, f, die, Plays) /\ f = net[q][p][i]
    BY <2>5 DEF Receives
  <2>7. die \in Nat /\ q \in Players \ {p} /\ Plays \in SUBSET Plays
    BY <2>3, DiceNat
  <2>8. f.type = "PLAY" /\ Mine(gm[p], q, f) => f \in Plays
    BY <2>2, <2>6
  <2>9. Sound(p, r, G)
    BY <1>1, <1>2, <2>5, <2>6, <2>7, <2>8, SoundHandled
  <2> QED
    BY <1>1, <1>4, <2>3, <2>5, <2>9
<1>10. ASSUME NEW p \in Players, ScreenOpens(p) \/ ScreenCloses(p) PROVE Sane'
  <2>1. Record(gm[p]) /\ gm = [q \in Players |-> gm[q]]
    BY <1>1 DEF Sound, PerPlayer
  <2>2. PICK r : /\ net' = net /\ games' = games /\ Shows(gm[p], r) /\ gm' = [gm EXCEPT ![p] = r]
    BY <1>10, <2>1, ScreenOutcome
  <2>3. Sound(p, r, G) /\ Resting(r)
    BY <1>1, <2>2, SoundShows
  <2>4. PerPlayer(gm')
    BY <1>1, <2>2 DEF PerPlayer
  <2>5. gm'[p] = r /\ \A x \in Players \ {p} : gm'[x] = gm[x]
    BY <1>1, <2>2 DEF PerPlayer
  <2>6. \A x \in Players : Sound(x, gm'[x], G) /\ Resting(gm'[x])
    BY <1>1, <2>3, <2>5
  <2>7. \A x \in Players : (Sound(x, gm[x], 1..games))' /\ (Resting(gm[x]))'
    BY <2>2, <2>6 DEF Sound, Typed, Coherent, Window, Between, Settled, Record, Resting, G
  <2>8. (NetOk(net, 1..games))'
    BY <1>1, <2>2 DEF NetOk, G
  <2>9. (PerPlayer(gm))'
    BY <2>4 DEF PerPlayer
  <2> QED
    BY <1>1, <2>2, <2>7, <2>8, <2>9 DEF Sane
<1>11. CASE UNCHANGED vars
  <2>1. gm' = gm /\ net' = net /\ games' = games
    BY <1>11 DEF vars
  <2> QED
    BY <2>1 DEF Sane, Sound, Typed, Coherent, Window, Between, Settled, Record, Resting, NetOk, PerPlayer
<1> QED
  BY <1>3, <1>5, <1>6, <1>7, <1>8, <1>9, <1>10, <1>11 DEF Next

LEMMA SaneAlways == Spec => []Sane
BY SaneInit, SaneStep, PTL DEF Spec

\* A buffer holds no more events than its window has numbers.
LEMMA BufferFits ==
  ASSUME NEW p, NEW m, Typed(p, m), Coherent(m)
  PROVE  Cardinality(m.eventBuffer) <= MAX_BUFFERED
<1>1. MAX_BUFFERED \in Nat /\ m.expectedSeq \in Nat /\ m.eventBuffer \subseteq Plays
  BY ConstantsAssumption DEF Typed
<1>2. PICK lo : lo = m.expectedSeq + 1
  OBVIOUS
<1>3. PICK hi : hi = m.expectedSeq + MAX_BUFFERED
  OBVIOUS
<1> lo \in Int /\ hi \in Int
  BY <1>1, <1>2, <1>3
<1>4. IsFiniteSet(lo..hi) /\ Cardinality(lo..hi) = IF lo > hi THEN 0 ELSE hi - lo + 1
  BY FS_Interval
<1>5. Cardinality(lo..hi) = MAX_BUFFERED
  BY <1>1, <1>2, <1>3, <1>4, SMTT(40)
<1>6. ASSUME NEW e \in m.eventBuffer PROVE e.seq \in lo..hi
  <2>1. e.seq \in Nat
    BY <1>1 DEF Plays
  <2> QED
    BY <1>1, <1>2, <1>3, <2>1 DEF Coherent, Window, Between, Settled
<1>7. PICK f : f = [e \in m.eventBuffer |-> e.seq]
  OBVIOUS
<1>8. f \in Injection(m.eventBuffer, lo..hi)
  BY <1>6, <1>7 DEF Injection, IsInjective, Coherent, Window, Between
<1>9. IsFiniteSet(m.eventBuffer) /\ Cardinality(m.eventBuffer) <= Cardinality(lo..hi)
  BY <1>4, <1>8, FS_Injection
<1> QED
  BY <1>5, <1>9

\* Records stay in their sets: a peer and a game go with every state but IDLE,
\* and neither the buffer of early events nor openingQueue outgrows the window,
\* however frames overtake each other and come again.
THEOREM GameTypes == Spec => []TypeOK
<1>1. ASSUME Sane PROVE TypeOK
  <2> SUFFICES ASSUME NEW p \in Players
      PROVE  /\ gm[p].state \in States
             /\ gm[p].game \in 0..games /\ (gm[p].game = 0 <=> gm[p].state = "IDLE")
             /\ gm[p].peer \in (Players \ {p}) \cup {Nobody}
             /\ gm[p].peer = Nobody <=> gm[p].state = "IDLE"
             /\ Cardinality(gm[p].eventBuffer) <= MAX_BUFFERED
             /\ Len(gm[p].openingQueue) <= MAX_BUFFERED
             /\ gm[p].turn \in Players \cup {Nobody} /\ gm[p].dice \in BOOLEAN
    BY DEF TypeOK, States
  <2>1. games \in Nat /\ Sound(p, gm[p], 1..games)
    BY <1>1 DEF Sane
  <2>2. Typed(p, gm[p]) /\ Coherent(gm[p]) /\ gm[p].game \in 0..games
    BY <2>1 DEF Sound
  <2>3. Cardinality(gm[p].eventBuffer) <= MAX_BUFFERED
    BY <2>2, BufferFits
  <2> QED
    BY <2>2, <2>3 DEF Typed, Coherent, People
<1> QED
  BY <1>1, SaneAlways, PTL

-----------------------------------------------------------------------------
(* What is under way, and what handlers send.                               *)

LEMMA SetOf ==
  ASSUME NEW S, NEW s \in Seq(S)
  PROVE  /\ ToSet(s) = {s[i] : i \in 1..Len(s)} /\ ToSet(s) \subseteq S
         /\ \A i \in 1..Len(s) : s[i] \in ToSet(s)
         /\ \A T : (s \in Seq(T) <=> ToSet(s) \subseteq T)
<1>1. ToSet(s) = {s[i] : i \in 1..Len(s)}
  BY DEF ToSet
<1>2. s \in [1..Len(s) -> S] /\ Len(s) \in Nat
  OBVIOUS
<1>3. ASSUME NEW T, ToSet(s) \subseteq T PROVE s \in Seq(T)
  <2>1. s = [i \in 1..Len(s) |-> s[i]] /\ \A i \in 1..Len(s) : s[i] \in T
    BY <1>1, <1>2, <1>3
  <2> QED
    BY <1>2, <2>1
<1> QED
  BY <1>1, <1>3

LEMMA SetOfAppend ==
  ASSUME NEW S, NEW s \in Seq(S), NEW e \in S
  PROVE  Append(s, e) \in Seq(S) /\ ToSet(Append(s, e)) = ToSet(s) \cup {e}
<1>1. PICK t : t = Append(s, e)
  OBVIOUS
<1>2. /\ t \in Seq(S) /\ Len(t) = Len(s) + 1 /\ Len(s) \in Nat /\ t[Len(s) + 1] = e
      /\ \A i \in 1..Len(s) : t[i] = s[i]
  BY <1>1
<1>3. \A i \in 1..Len(t) : i \in 1..Len(s) \/ i = Len(s) + 1
  BY <1>2
<1>4. Len(s) + 1 \in 1..Len(t) /\ \A i \in 1..Len(s) : i \in 1..Len(t)
  BY <1>2
<1>5. ToSet(t) = {t[i] : i \in 1..Len(t)} /\ ToSet(s) = {s[i] : i \in 1..Len(s)}
  BY <1>2, SetOf
<1>6. ToSet(t) = ToSet(s) \cup {e}
  BY <1>2, <1>3, <1>4, <1>5
<1> QED
  BY <1>1, <1>2, <1>6

LEMMA SetOfConcat ==
  ASSUME NEW S, NEW s \in Seq(S), NEW o \in Seq(S)
  PROVE  s \o o \in Seq(S) /\ ToSet(s \o o) = ToSet(s) \cup ToSet(o)
<1>1. PICK t : t = s \o o
  OBVIOUS
<1>2. /\ t \in Seq(S) /\ Len(t) = Len(s) + Len(o) /\ Len(s) \in Nat /\ Len(o) \in Nat
      /\ \A i \in 1..Len(s) : t[i] = s[i]
      /\ \A i \in 1..Len(o) : t[Len(s) + i] = o[i]
  BY <1>1
<1>3. ASSUME NEW i \in 1..Len(t) PROVE i \in 1..Len(s) \/ \E j \in 1..Len(o) : i = Len(s) + j
  <2>1. CASE i <= Len(s)
    BY <2>1
  <2>2. CASE i > Len(s)
    <3>1. i - Len(s) \in 1..Len(o) /\ i = Len(s) + (i - Len(s))
      BY <1>2, <2>2
    <3> QED
      BY <3>1
  <2> QED
    BY <1>2, <2>1, <2>2
<1>4. /\ \A i \in 1..Len(s) : i \in 1..Len(t)
      /\ \A j \in 1..Len(o) : Len(s) + j \in 1..Len(t)
  BY <1>2
<1>5. /\ ToSet(t) = {t[i] : i \in 1..Len(t)} /\ ToSet(s) = {s[i] : i \in 1..Len(s)}
      /\ ToSet(o) = {o[i] : i \in 1..Len(o)}
  BY <1>2, SetOf
<1>6. ASSUME NEW x \in ToSet(t) PROVE x \in ToSet(s) \cup ToSet(o)
  <2>1. PICK i \in 1..Len(t) : x = t[i]
    BY <1>5
  <2>2. CASE i \in 1..Len(s)
    BY <1>2, <1>5, <2>1, <2>2
  <2>3. CASE \E j \in 1..Len(o) : i = Len(s) + j
    BY <1>2, <1>5, <2>1, <2>3
  <2> QED
    BY <1>3, <2>2, <2>3
<1>7. ASSUME NEW x \in ToSet(s) \cup ToSet(o) PROVE x \in ToSet(t)
  <2>1. CASE x \in ToSet(s)
    BY <1>2, <1>4, <1>5, <2>1
  <2>2. CASE x \in ToSet(o)
    BY <1>2, <1>4, <1>5, <2>2
  <2> QED
    BY <2>1, <2>2
<1>8. ToSet(t) = ToSet(s) \cup ToSet(o)
  BY <1>6, <1>7
<1> QED
  BY <1>1, <1>2, <1>8

LEMMA SetOfRemoved ==
  ASSUME NEW S, NEW s \in Seq(S), NEW i \in 1..Len(s)
  PROVE  RemoveAt(s, i) \in Seq(S) /\ ToSet(RemoveAt(s, i)) = {s[j] : j \in (1..Len(s)) \ {i}}
<1>1. PICK t : t = RemoveAt(s, i)
  OBVIOUS
<1>2. /\ t \in Seq(S) /\ Len(t) = Len(s) - 1
      /\ \A j \in 1..Len(t) : t[j] = IF j < i THEN s[j] ELSE s[j + 1]
  BY <1>1, Removed
<1>3. ToSet(t) = {t[j] : j \in 1..Len(t)}
  BY <1>2, SetOf
<1>4. ASSUME NEW j \in 1..Len(t) PROVE t[j] \in {s[k] : k \in (1..Len(s)) \ {i}}
  <2>1. CASE j < i
    <3>1. j \in (1..Len(s)) \ {i} /\ t[j] = s[j]
      BY <1>2, <2>1
    <3> QED
      BY <3>1
  <2>2. CASE ~(j < i)
    <3>1. j + 1 \in (1..Len(s)) \ {i} /\ t[j] = s[j + 1]
      BY <1>2, <2>2
    <3> QED
      BY <3>1
  <2> QED
    BY <2>1, <2>2
<1>5. ASSUME NEW k \in (1..Len(s)) \ {i} PROVE s[k] \in {t[j] : j \in 1..Len(t)}
  <2>1. CASE k < i
    <3>1. k \in 1..Len(t) /\ t[k] = s[k]
      BY <1>2, <2>1
    <3> QED
      BY <3>1
  <2>2. CASE k > i
    <3>1. k - 1 \in 1..Len(t) /\ t[k - 1] = s[k]
      BY <1>2, <2>2
    <3> QED
      BY <3>1
  <2> QED
    BY <2>1, <2>2
<1>6. ToSet(t) = {s[j] : j \in (1..Len(s)) \ {i}}
  BY <1>3, <1>4, <1>5
<1> QED
  BY <1>1, <1>2, <1>6

\* The frames of N from p to q.
Under(N, p, q) == ToSet(N[p][q])

LEMMA UnderSending ==
  ASSUME NEW G, NEW N, NetOk(N, G), NEW p \in Players, NEW q \in Players, NEW o \in Seq(Frames)
  PROVE  /\ Under(Sending(N, p, q, o), p, q) = Under(N, p, q) \cup ToSet(o)
         /\ \A x, y \in Players : <<x, y>> # <<p, q>>
              => Under(Sending(N, p, q, o), x, y) = Under(N, x, y)
<1>1. PICK s \in Seq(Frames) : s = N[p][q]
  BY DEF NetOk
<1>2. PICK t : t = s \o o
  OBVIOUS
<1>3. ToSet(t) = ToSet(s) \cup ToSet(o)
  BY <1>2, SetOfConcat
<1>4. PICK M : M = Sending(N, p, q, o)
  OBVIOUS
<1>5. M = [N EXCEPT ![p][q] = t]
  BY <1>1, <1>2, <1>4 DEF Sending
<1>6. M[p][q] = t /\ \A x, y \in Players : <<x, y>> # <<p, q>> => M[x][y] = N[x][y]
  BY <1>5 DEF NetOk
<1> QED
  BY <1>1, <1>3, <1>4, <1>6 DEF Under

LEMMA UnderTaking ==
  ASSUME NEW G, NEW N, NetOk(N, G), NEW p \in Players, NEW q \in Players, NEW i \in 1..Len(N[p][q])
  PROVE  /\ Under(Taking(N, p, q, i), p, q) = {N[p][q][j] : j \in (1..Len(N[p][q])) \ {i}}
         /\ \A x, y \in Players : <<x, y>> # <<p, q>>
              => Under(Taking(N, p, q, i), x, y) = Under(N, x, y)
         /\ Under(Taking(N, p, q, i), p, q) \subseteq Under(N, p, q)
<1>1. PICK s \in Seq(Frames) : s = N[p][q]
  BY DEF NetOk
<1>2. PICK t : t = RemoveAt(s, i)
  OBVIOUS
<1>3. ToSet(t) = {s[j] : j \in (1..Len(s)) \ {i}} /\ ToSet(s) = {s[j] : j \in 1..Len(s)}
  <2>1. i \in 1..Len(s)
    BY <1>1
  <2>2. ToSet(t) = {s[j] : j \in (1..Len(s)) \ {i}}
    BY <1>2, <2>1, SetOfRemoved
  <2>3. ToSet(s) = {s[j] : j \in 1..Len(s)}
    BY SetOf
  <2> QED
    BY <2>2, <2>3
<1>4. PICK M : M = Taking(N, p, q, i)
  OBVIOUS
<1>5. M = [N EXCEPT ![p][q] = t]
  BY <1>1, <1>2, <1>4 DEF Taking
<1>6. M[p][q] = t /\ \A x, y \in Players : <<x, y>> # <<p, q>> => M[x][y] = N[x][y]
  BY <1>5 DEF NetOk
<1>7. ToSet(t) \subseteq ToSet(s)
  BY <1>3
<1> QED
  BY <1>1, <1>3, <1>4, <1>6, <1>7 DEF Under

-----------------------------------------------------------------------------
(* What a handler hands to the board, and what it sends.                    *)

\* Of the events E the next ones are handed over; the game goes on.
Hears(m, r, E) ==
  /\ r.game = m.game /\ r.peer = m.peer /\ r.outSeq = m.outSeq
  /\ r.given \in Seq(E) /\ r.expectedSeq = m.expectedSeq + Len(r.given)
  /\ \A i \in 1..Len(r.given) : r.given[i].seq = m.expectedSeq + i - 1
  /\ r.eventBuffer \subseteq E /\ r.openingQueue \in Seq(E)
Ends(r) == Cleared(r) /\ r.given = <<>>

\* Only frames of these types, of the game at hand, are sent.
Says(m, r, types) ==
  ToSet(r.out) \subseteq ToSet(m.out) \cup {f \in Frames : f.type \in types /\ f.game = m.game}

EventHolds(m, E) ==
  /\ m.given = <<>> /\ m.expectedSeq \in Nat
  /\ m.eventBuffer \subseteq E /\ m.openingQueue \in Seq(E)
StreamFields == {"game", "peer", "outSeq", "given", "expectedSeq", "eventBuffer", "openingQueue"}

LEMMA HearsNothing ==
  ASSUME NEW m, NEW E, EventHolds(m, E), NEW S, S \cap StreamFields = {}, NEW r, Only(m, r, S)
  PROVE  Hears(m, r, E) /\ EventHolds(r, E)
<1>1. /\ r.game = m.game /\ r.peer = m.peer /\ r.outSeq = m.outSeq /\ r.given = m.given
      /\ r.expectedSeq = m.expectedSeq /\ r.eventBuffer = m.eventBuffer
      /\ r.openingQueue = m.openingQueue
  BY DEF Only, Fields, StreamFields
<1>2. Len(r.given) = 0 /\ r.given \in Seq(E)
  BY <1>1 DEF EventHolds
<1> QED
  BY <1>1, <1>2 DEF Hears, EventHolds

LEMMA HearsHeeds ==
  ASSUME NEW m, NEW E, EventHolds(m, E), NEW r, Heeds(m, r, E)
  PROVE  Hears(m, r, E)
<1>1. /\ r.game = m.game /\ r.peer = m.peer /\ r.outSeq = m.outSeq
      /\ r.openingQueue = m.openingQueue
  BY DEF Heeds, Only, Fields, EventFields
<1> QED
  BY <1>1 DEF Hears, EventHolds, Heeds

LEMMA SaysSame ==
  ASSUME NEW m, NEW r, r.out = m.out, NEW T
  PROVE  Says(m, r, T)
BY DEF Says

LEMMA SaysOne ==
  ASSUME NEW m, m.out \in Seq(Frames), NEW r, NEW f \in Frames, r.out = Append(m.out, f),
         NEW T, f.type \in T, f.game = m.game
  PROVE  Says(m, r, T) /\ r.out \in Seq(Frames)
BY SetOfAppend DEF Says

LEMMA HearsRevealed ==
  ASSUME NEW p \in Players, NEW G \in SUBSET (Nat \ {0}), NEW m, Sound(p, m, G),
         m.state = "OPENING", NEW roll \in Rolls, NEW die \in Nat, NEW E \in SUBSET Plays,
         EventHolds(m, E), NEW r, Revealed(m, r, roll, die, E)
  PROVE  /\ Hears(m, r, E) \/ Ends(r)
         /\ Says(m, r, {"COMMIT", "REVEAL", "END"})
<1>0. m.out \in Seq(Frames) /\ m.game \in Nat /\ m.rollNo \in Nat /\ m.me = p
  BY DEF Sound, Typed
<1>1. CASE Early(m, r, roll)
  <2>1. Only(m, r, {"earlyReveal"})
    BY <1>1 DEF Early
  <2>2. r.out = m.out
    BY <2>1 DEF Only, Fields
  <2>3. {"earlyReveal"} \cap StreamFields = {}
    BY DEF StreamFields
  <2> QED
    BY <2>1, <2>2, <2>3, HearsNothing, SaysSame
<1>2. CASE Accuses(m, r, roll)
  <2>1. Only(m, r, GameFields \cup {"out", "accuses"}) /\ Cleared(r)
        /\ r.out = Append(m.out, Frame("END", m.game))
    BY <1>2 DEF Accuses
  <2>2. r.given = <<>>
    BY <2>1 DEF Only, Fields, GameFields, EventHolds
  <2>3. PICK f : f = Frame("END", m.game)
    OBVIOUS
  <2>4. f \in Frames /\ f.game = m.game /\ f.type = "END"
    BY <1>0, <2>3, FramesAre
  <2>5. Says(m, r, {"COMMIT", "REVEAL", "END"})
    BY <1>0, <2>1, <2>3, <2>4, SaysOne
  <2> QED
    BY <2>1, <2>2, <2>5 DEF Ends
<1>3. CASE Tied(m, r, roll, die)
  <2>1. /\ Only(m, r, RollFields \cup {"peerCommit", "earlyReveal"}) /\ Rolled(m, r, die)
    BY <1>3 DEF Tied
  <2>2. (RollFields \cup {"peerCommit", "earlyReveal"}) \cap StreamFields = {}
    BY DEF StreamFields, RollFields
  <2>3. r.myRoll \in Rolls
    BY <1>0, <2>1 DEF Rolled, Rolls
  <2>4. PICK f : f = RollFrame("COMMIT", m.game, r.myRoll)
    OBVIOUS
  <2>5. f \in Frames /\ f.game = m.game /\ f.type = "COMMIT"
    BY <1>0, <2>3, <2>4, FramesAre
  <2>6. r.out = Append(m.out, f)
    BY <2>1, <2>4 DEF Rolled
  <2>7. Says(m, r, {"COMMIT", "REVEAL", "END"})
    BY <1>0, <2>5, <2>6, SaysOne
  <2> QED
    BY <2>1, <2>2, <2>7, HearsNothing
<1>4. CASE Finished(m, r, roll, E)
  <2>1. PICK s, first : BegunWith(m, s, first) /\ Heeds(s, r, E) /\ Window(r)
    BY <1>4 DEF Finished
  <2>2. /\ s.game = m.game /\ s.peer = m.peer /\ s.outSeq = m.outSeq
        /\ s.given = m.given /\ s.expectedSeq = m.expectedSeq
        /\ s.eventBuffer = m.eventBuffer /\ s.out = m.out /\ s.openingQueue = <<>>
    BY <2>1 DEF BegunWith, Only, Fields, BegunFields
  <2>3. EventHolds(s, E)
    BY <2>2 DEF EventHolds
  <2>4. Hears(s, r, E)
    BY <2>1, <2>3, HearsHeeds
  <2>5. Hears(m, r, E)
    BY <2>2, <2>4 DEF Hears
  <2>6. r.out = s.out
    BY <2>1 DEF Heeds, Only, Fields, EventFields
  <2> QED
    BY <2>2, <2>5, <2>6, SaysSame
<1> QED
  BY <1>1, <1>2, <1>3, <1>4 DEF Revealed

LEMMA HearsHandled ==
  ASSUME NEW p \in Players, NEW G \in SUBSET (Nat \ {0}), NEW m, Sound(p, m, G),
         NEW q \in Players \ {p}, NEW f \in Frames, f.game \in G, NEW die \in Nat,
         NEW E \in SUBSET Plays, f.type = "PLAY" /\ Mine(m, q, f) => f \in E,
         EventHolds(m, E), NEW r, Handled(m, r, q, f, die, E)
  PROVE  /\ \/ Hears(m, r, E) \/ Ends(r)
            \/ f.type = "INVITE" /\ Invited(m, r, q, f.game)
         /\ Says(m, r, {"COMMIT", "REVEAL", "END"})
<1>0. m.out \in Seq(Frames) /\ m.game \in Nat /\ m.rollNo \in Nat /\ m.me = p
  BY DEF Sound, Typed
<1>1. CASE Ignored(m, r, q, f)
  <2>1. r = m /\ Record(m)
    BY <1>1 DEF Ignored, Sound
  <2>2. Only(m, r, {}) /\ {} \cap StreamFields = {}
    BY <2>1 DEF Only
  <2> QED
    BY <2>1, <2>2, HearsNothing, SaysSame
<1>2. CASE f.type = "INVITE" /\ Invited(m, r, q, f.game)
  <2>1. r.out = m.out
    BY <1>2 DEF Invited, Only, Fields
  <2> QED
    BY <1>2, <2>1, SaysSame
<1>3. CASE Started(m, r, die)
  <2>1. /\ Only(m, r, RollFields \cup {"state", "base", "turn", "dice", "screen"})
        /\ Rolled(m, r, die)
    BY <1>3 DEF Started
  <2>2. (RollFields \cup {"state", "base", "turn", "dice", "screen"}) \cap StreamFields = {}
    BY DEF StreamFields, RollFields
  <2>3. r.myRoll \in Rolls
    BY <1>0, <2>1 DEF Rolled, Rolls
  <2>4. PICK c : c = RollFrame("COMMIT", m.game, r.myRoll)
    OBVIOUS
  <2>5. c \in Frames /\ c.game = m.game /\ c.type = "COMMIT"
    BY <1>0, <2>3, <2>4, FramesAre
  <2>6. r.out = Append(m.out, c)
    BY <2>1, <2>4 DEF Rolled
  <2>7. Says(m, r, {"COMMIT", "REVEAL", "END"})
    BY <1>0, <2>5, <2>6, SaysOne
  <2> QED
    BY <2>1, <2>2, <2>7, HearsNothing
<1>4. CASE f.type \in {"COMMIT", "REVEAL"} /\ m.state = "OPENING"
           /\ (Committed(m, r, f.roll, die, E) \/ Revealed(m, r, f.roll, die, E))
  <2>1. f \in [type : {"COMMIT", "REVEAL"}, game : Nat, roll : Rolls]
    BY <1>4 DEF Frames, Plays
  <2>2. f.roll \in Rolls
    BY <2>1
  <2>3. CASE Revealed(m, r, f.roll, die, E)
    BY <1>4, <2>2, <2>3, HearsRevealed
  <2>4. ASSUME NEW s, Answered(m, s, f.roll)
        PROVE  /\ EventHolds(s, E) /\ Hears(m, s, E) /\ Says(m, s, {"COMMIT", "REVEAL", "END"})
               /\ Sound(p, s, G) /\ s.state = "OPENING" /\ s.game = m.game /\ s.peer = m.peer
               /\ s.outSeq = m.outSeq /\ s.expectedSeq = m.expectedSeq
    <3>1. /\ Only(m, s, {"peerCommit", "out"})
          /\ s.out = Append(m.out, RollFrame("REVEAL", m.game, m.myRoll))
      BY <2>4 DEF Answered
    <3>2. {"peerCommit", "out"} \cap StreamFields = {}
      BY DEF StreamFields
    <3>3. m.myRoll \in Rolls
      BY <1>4 DEF Sound, Coherent, Typed
    <3>4. PICK c : c = RollFrame("REVEAL", m.game, m.myRoll)
      OBVIOUS
    <3>5. c \in Frames /\ c.game = m.game /\ c.type = "REVEAL"
      BY <1>0, <3>3, <3>4, FramesAre
    <3>6. Says(m, s, {"COMMIT", "REVEAL", "END"})
      BY <1>0, <3>1, <3>4, <3>5, SaysOne
    <3>7. Sound(p, s, G) /\ s.state = "OPENING"
      BY <1>4, <2>2, <2>4, SoundAnswered
    <3>8. /\ s.game = m.game /\ s.peer = m.peer
          /\ s.outSeq = m.outSeq /\ s.expectedSeq = m.expectedSeq
      BY <3>1 DEF Only, Fields
    <3> QED
      BY <3>1, <3>2, <3>6, <3>7, <3>8, HearsNothing
  <2>5. ASSUME m.earlyReveal # NoRoll, NEW s, NEW t, Answered(m, s, f.roll),
               Only(s, t, {"earlyReveal"}), t.earlyReveal = NoRoll,
               Revealed(t, r, m.earlyReveal, die, E)
        PROVE  /\ Hears(m, r, E) \/ Ends(r)
               /\ Says(m, r, {"COMMIT", "REVEAL", "END"})
    <3>1. /\ EventHolds(s, E) /\ Says(m, s, {"COMMIT", "REVEAL", "END"})
          /\ Sound(p, s, G) /\ s.state = "OPENING" /\ s.game = m.game /\ s.peer = m.peer
          /\ s.outSeq = m.outSeq /\ s.expectedSeq = m.expectedSeq
      BY <2>4, <2>5
    <3>2. Sound(p, t, G) /\ t.state = "OPENING"
      BY <2>5, <3>1, SoundForgot
    <3>3. m.earlyReveal \in Rolls
      BY <2>5 DEF Sound, Typed
    <3>4. {"earlyReveal"} \cap StreamFields = {}
      BY DEF StreamFields
    <3>5. EventHolds(t, E)
      BY <2>5, <3>1, <3>4, HearsNothing
    <3>6. /\ Hears(t, r, E) \/ Ends(r)
          /\ Says(t, r, {"COMMIT", "REVEAL", "END"})
      BY <2>5, <3>2, <3>3, <3>5, HearsRevealed
    <3>7. t.game = s.game /\ t.peer = s.peer /\ t.outSeq = s.outSeq
          /\ t.expectedSeq = s.expectedSeq /\ t.out = s.out
      BY <2>5 DEF Only, Fields
    <3>8. Says(m, r, {"COMMIT", "REVEAL", "END"})
      BY <3>1, <3>6, <3>7 DEF Says
    <3>9. Hears(t, r, E) => Hears(m, r, E)
      BY <3>1, <3>7 DEF Hears
    <3> QED
      BY <3>6, <3>8, <3>9
  <2> QED
    BY <1>4, <2>3, <2>4, <2>5 DEF Committed
<1>5. CASE f.type = "PLAY" /\ Mine(m, q, f) /\ Queued(m, r, f)
  <2>1. /\ r.game = m.game /\ r.peer = m.peer /\ r.outSeq = m.outSeq /\ r.given = m.given
        /\ r.expectedSeq = m.expectedSeq /\ r.eventBuffer = m.eventBuffer /\ r.out = m.out
        /\ r.openingQueue = Append(m.openingQueue, f)
    BY <1>5 DEF Queued, Only, Fields
  <2>2. m.openingQueue \in Seq(E) /\ f \in E
    BY <1>5 DEF EventHolds
  <2>3. r.openingQueue \in Seq(E)
    BY <2>1, <2>2
  <2>4. r.given \in Seq(E) /\ Len(r.given) = 0
    BY <2>1 DEF EventHolds
  <2>5. Hears(m, r, E)
    BY <2>1, <2>3, <2>4 DEF Hears, EventHolds
  <2> QED
    BY <2>1, <2>5, SaysSame
<1>6. CASE m.state = "ACTIVE" /\ Heeds(m, r, E) /\ Window(r)
  <2>1. r.out = m.out
    BY <1>6 DEF Heeds, Only, Fields, EventFields
  <2> QED
    BY <1>6, <2>1, HearsHeeds, SaysSame
<1>7. CASE Over(m, r)
  <2>1. Cleared(r) /\ r.out = m.out /\ r.given = m.given
    BY <1>7 DEF Over, Only, Fields, GameFields
  <2> QED
    BY <2>1, SaysSame DEF Ends, EventHolds
<1> QED
  BY <1>1, <1>2, <1>3, <1>4, <1>5, <1>6, <1>7 DEF Handled

-----------------------------------------------------------------------------
(* The events of a game: those that are heard are the first of those played. *)

\* The events sent to p in game g, each at the place of its number; P and H are
\* what is played and what is heard, N the network, R the records.
Played(P, g, p) ==
  {e \in Plays : /\ g \in Games /\ e.game = g
                 /\ e.seq < Len(P[g][p]) /\ P[g][p][e.seq + 1] = e}

Histories == [Games -> [Players -> Seq(Plays)]]
Begins(s, t) == Len(s) <= Len(t) /\ \A i \in 1..Len(s) : s[i] = t[i]

Story(P, H, n) ==
  /\ P \in Histories /\ H \in Histories
  /\ \A g \in Games, p \in Players : Begins(H[g][p], P[g][p])
  /\ \A g \in Games, p \in Players : g > n => P[g][p] = <<>>

PlaysUnderWay(P, N) ==
  \A p, q \in Players : \A f \in Under(N, q, p) : f.type = "PLAY" => f \in Played(P, f.game, p)

\* p is in game g with q, or asks q to be.
Claim(R, N, g, p, q) ==
  \/ R[p].game = g /\ R[p].peer = q
  \/ \E f \in Under(N, p, q) : f.type = "INVITE" /\ f.game = g
\* A game is one of two players.
Paired(R, N) ==
  \A g \in Games : \A p, q, x, y \in Players :
    Claim(R, N, g, p, q) /\ Claim(R, N, g, x, y) => <<x, y>> \in {<<p, q>>, <<q, p>>}

\* The numbers of p are those of his game.
Follows(P, H, p, m) ==
  /\ m.eventBuffer \subseteq Played(P, m.game, p)
  /\ m.openingQueue \in Seq(Played(P, m.game, p))
  /\ m.game # 0 => /\ m.expectedSeq = Len(H[m.game][p])
                   /\ m.outSeq = Len(P[m.game][m.peer])

StreamInv ==
  /\ Story(played, heard, games) /\ PlaysUnderWay(played, net) /\ Paired(gm, net)
  /\ \A p \in Players : Follows(played, heard, p, gm[p])

\* A board takes some of the next events.
Takes(P, H, K) ==
  \/ K = H
  \/ \E g \in Games, p \in Players : \E n \in Len(H[g][p]) + 1 .. Len(P[g][p]) :
       K = [H EXCEPT ![g][p] = SubSeq(P[g][p], 1, n)]

\* What given, the next events, makes of the heard ones.
LEMMA HeardNext ==
  ASSUME NEW h \in Seq(Plays), NEW t \in Seq(Plays), Begins(h, t),
         NEW s \in Seq(Plays),
         \A i \in 1..Len(s) : /\ s[i].seq = Len(h) + i - 1 /\ s[i].seq < Len(t)
                              /\ t[s[i].seq + 1] = s[i]
  PROVE  /\ h \o s \in Seq(Plays) /\ Begins(h \o s, t) /\ Len(h \o s) = Len(h) + Len(s)
         /\ h \o s = SubSeq(t, 1, Len(h) + Len(s))
<1>1. PICK u : u = h \o s
  OBVIOUS
<1>2. /\ u \in Seq(Plays) /\ Len(u) = Len(h) + Len(s) /\ Len(h) \in Nat /\ Len(s) \in Nat
      /\ Len(t) \in Nat
      /\ \A i \in 1..Len(h) : u[i] = h[i]
      /\ \A i \in 1..Len(s) : u[Len(h) + i] = s[i]
  BY <1>1
<1>3. \A i \in 1..Len(s) : Len(h) + i <= Len(t) /\ t[Len(h) + i] = s[i]
  <2> SUFFICES ASSUME NEW i \in 1..Len(s) PROVE Len(h) + i <= Len(t) /\ t[Len(h) + i] = s[i]
    OBVIOUS
  <2>1. s[i].seq = Len(h) + i - 1 /\ s[i].seq < Len(t) /\ t[s[i].seq + 1] = s[i]
    OBVIOUS
  <2>2. s[i].seq + 1 = Len(h) + i
    BY <1>2, <2>1
  <2>3. Len(h) + i <= Len(t)
    BY <1>2, <2>1
  <2> QED
    BY <2>1, <2>2, <2>3
<1>4. Len(u) <= Len(t)
  <2>1. CASE Len(s) = 0
    BY <1>2, <2>1 DEF Begins
  <2>2. CASE Len(s) # 0
    <3>1. Len(s) \in 1..Len(s)
      BY <1>2, <2>2
    <3> QED
      BY <1>2, <1>3, <3>1
  <2> QED
    BY <2>1, <2>2
<1>5. ASSUME NEW i \in 1..Len(u) PROVE u[i] = t[i]
  <2>1. CASE i <= Len(h)
    BY <1>2, <2>1 DEF Begins
  <2>2. CASE i > Len(h)
    <3>1. i - Len(h) \in 1..Len(s) /\ Len(h) + (i - Len(h)) = i
      BY <1>2, <2>2
    <3>2. u[Len(h) + (i - Len(h))] = t[Len(h) + (i - Len(h))]
      BY <1>2, <1>3, <3>1
    <3> QED
      BY <3>1, <3>2
  <2> QED
    BY <1>2, <2>1, <2>2
<1>6. PICK v : v = SubSeq(t, 1, Len(u))
  OBVIOUS
<1>7. v \in Seq(Plays) /\ Len(v) = Len(u) /\ \A i \in 1..Len(u) : v[i] = t[i]
  BY <1>2, <1>4, <1>6
<1>8. u = v
  <2>1. u = [i \in 1..Len(u) |-> u[i]] /\ v = [i \in 1..Len(u) |-> v[i]]
    BY <1>2, <1>7
  <2>2. \A i \in 1..Len(u) : u[i] = v[i]
    BY <1>5, <1>7
  <2> QED
    BY <2>1, <2>2
<1> QED
  BY <1>1, <1>2, <1>4, <1>5, <1>6, <1>8 DEF Begins

\* A step in which p hears the next events, ends his game, or is invited to a
\* game that nobody has played; no event and no invitation is sent.
Joins(m, r, p, g, z, N, P, H) ==
  /\ r.given = <<>> /\ r.game = g /\ r.peer = z /\ r.eventBuffer = {} /\ r.openingQueue = <<>>
  /\ r.expectedSeq = 0 /\ r.outSeq = 0 /\ H[g][p] = <<>> /\ P[g][z] = <<>>
  /\ \E f \in Under(N, z, p) : f.type = "INVITE" /\ f.game = g

\* The board of p gets s in game g.
Hearing(H, g, p, s) == [H EXCEPT ![g][p] = H[g][p] \o s]

LEMMA HeardGrows ==
  ASSUME NEW P, NEW H, NEW n, Story(P, H, n), NEW p \in Players, NEW m, Follows(P, H, p, m),
         m.game \in Games, NEW r, Hears(m, r, Played(P, m.game, p)), r.given # <<>>,
         NEW K, K = Hearing(H, m.game, p, r.given)
  PROVE  /\ Story(P, K, n) /\ Takes(P, H, K)
         /\ \A g \in Games, x \in Players : <<g, x>> # <<m.game, p>> => K[g][x] = H[g][x]
         /\ r.expectedSeq = Len(K[m.game][p])
<1>1. PICK g \in Games : g = m.game
  OBVIOUS
<1>2. PICK h, t, s : h = H[g][p] /\ t = P[g][p] /\ s = r.given
  OBVIOUS
<1>3. h \in Seq(Plays) /\ t \in Seq(Plays) /\ Begins(h, t)
  BY <1>2 DEF Story, Histories
<1>4. m.expectedSeq = Len(h) /\ g # 0
  <2>1. g # 0
    BY DEF Games
  <2> QED
    BY <1>1, <1>2, <2>1 DEF Follows
<1>5. /\ s \in Seq(Played(P, g, p)) /\ r.expectedSeq = Len(h) + Len(s)
      /\ \A i \in 1..Len(s) : s[i].seq = Len(h) + i - 1
  BY <1>1, <1>2, <1>4 DEF Hears
<1>6. \A i \in 1..Len(s) : s[i] \in Played(P, g, p)
  BY <1>5
<1>7. s \in Seq(Plays) /\ \A i \in 1..Len(s) : s[i].seq < Len(t) /\ t[s[i].seq + 1] = s[i]
  <2>1. Played(P, g, p) \subseteq Plays
    BY DEF Played
  <2> QED
    BY <1>2, <1>5, <1>6, <2>1 DEF Played
<1>8. PICK u : u = h \o s
  OBVIOUS
<1>9. u \in Seq(Plays) /\ Begins(u, t) /\ Len(u) = Len(h) + Len(s) /\ u = SubSeq(t, 1, Len(u))
  BY <1>3, <1>5, <1>7, <1>8, HeardNext
<1>10. K = [H EXCEPT ![g][p] = u]
  BY <1>1, <1>2, <1>8 DEF Hearing
<1>11. H \in [Games -> [Players -> Seq(Plays)]]
  BY DEF Story, Histories
<1>12. /\ K \in [Games -> [Players -> Seq(Plays)]] /\ K[g][p] = u
       /\ \A c \in Games, x \in Players : <<c, x>> # <<g, p>> => K[c][x] = H[c][x]
  <2>1. PICK w : w = [H[g] EXCEPT ![p] = u]
    OBVIOUS
  <2>2. K = [H EXCEPT ![g] = w]
    BY <1>10, <2>1
  <2>3. H[g] \in [Players -> Seq(Plays)]
    BY <1>11
  <2>4. w \in [Players -> Seq(Plays)] /\ w[p] = u /\ \A x \in Players \ {p} : w[x] = H[g][x]
    BY <1>9, <2>1, <2>3
  <2>5. K \in [Games -> [Players -> Seq(Plays)]] /\ K[g] = w /\ \A c \in Games \ {g} : K[c] = H[c]
    BY <1>11, <2>2, <2>4
  <2> QED
    BY <2>4, <2>5
<1>13. Story(P, K, n)
  <2>1. \A c \in Games, x \in Players : Begins(K[c][x], P[c][x])
    BY <1>2, <1>9, <1>12 DEF Story
  <2> QED
    BY <1>12, <2>1 DEF Story, Histories
<1>14. Takes(P, H, K)
  <2>1. Len(s) > 0 /\ Len(u) \in Nat /\ Len(h) \in Nat /\ Len(t) \in Nat /\ Len(u) <= Len(t)
    <3>1. Len(s) # 0
      BY <1>2, <1>7
    <3> QED
      BY <1>3, <1>7, <1>9, <3>1 DEF Begins
  <2>2. Len(u) \in Len(h) + 1 .. Len(t)
    BY <1>3, <1>7, <1>9, <2>1
  <2>3. K = [H EXCEPT ![g][p] = SubSeq(P[g][p], 1, Len(u))]
    BY <1>2, <1>9, <1>10
  <2>4. Len(u) \in Len(H[g][p]) + 1 .. Len(P[g][p])
    BY <1>2, <2>2
  <2>5. \E k \in Len(H[g][p]) + 1 .. Len(P[g][p]) : K = [H EXCEPT ![g][p] = SubSeq(P[g][p], 1, k)]
    BY <2>3, <2>4, Zenon
  <2> QED
    BY <2>5, Zenon DEF Takes
<1> QED
  BY <1>1, <1>5, <1>9, <1>12, <1>13, <1>14

\* Claims come from earlier claims of the same two players.
LEMMA ClaimsKept ==
  ASSUME NEW R, NEW N, Paired(R, N), NEW S, NEW M,
         \A g \in Games : \A x, y \in Players :
           Claim(S, M, g, x, y) => Claim(R, N, g, x, y) \/ Claim(R, N, g, y, x)
  PROVE  Paired(S, M)
<1> SUFFICES ASSUME NEW g \in Games, NEW p \in Players, NEW q \in Players,
                    NEW x \in Players, NEW y \in Players,
                    Claim(S, M, g, p, q), Claim(S, M, g, x, y)
             PROVE  <<x, y>> \in {<<p, q>>, <<q, p>>}
  BY DEF Paired
<1>1. Claim(R, N, g, p, q) \/ Claim(R, N, g, q, p)
  OBVIOUS
<1>2. Claim(R, N, g, x, y) \/ Claim(R, N, g, y, x)
  OBVIOUS
<1>3. \A a, b, c, d \in Players :
        Claim(R, N, g, a, b) /\ Claim(R, N, g, c, d) => <<c, d>> \in {<<a, b>>, <<b, a>>}
  BY DEF Paired
<1> QED
  BY <1>1, <1>2, <1>3

LEMMA StreamQuiet ==
  ASSUME Sane, StreamInv, games' = games, played' = played,
         NEW p \in Players, NEW q \in People \ {p}, NEW r, Record(r),
         NEW N, NetOk(N, 1..games), Becomes(p, q, r, N),
         \A x, y \in Players : Under(N, x, y) \subseteq Under(net, x, y),
         r.out \in Seq(Frames), \A f \in ToSet(r.out) : f.type \notin {"PLAY", "INVITE"},
         \/ Hears(gm[p], r, Played(played, gm[p].game, p))
         \/ Ends(r)
         \/ \E g \in 1..games, z \in Players \ {p} : Joins(gm[p], r, p, g, z, net, played, heard)
  PROVE  StreamInv' /\ Takes(played, heard, heard')
<1>1. /\ games \in Nat /\ games <= MaxGames /\ MaxGames \in Nat
      /\ \A x \in Players : gm[x].game \in 1..games \cup {0}
      /\ Story(played, heard, games) /\ Follows(played, heard, p, gm[p])
  BY ConstantsAssumption DEF Sane, Sound, StreamInv
<1>2. PICK m, y : m = gm[p] /\ y = gm'[p]
  OBVIOUS
<1>3. /\ PerPlayer(gm') /\ Rested(r, y)
      /\ \A x \in Players \ {p} : gm'[x] = gm[x]
      /\ q = Nobody => net' = N
      /\ q # Nobody => q \in Players /\ net' = Sending(N, p, q, r.out)
  BY <1>2, BecomesIs DEF Sane
<1>4. /\ y.game = r.game /\ y.peer = r.peer /\ y.eventBuffer = r.eventBuffer
      /\ y.openingQueue = r.openingQueue /\ y.expectedSeq = r.expectedSeq /\ y.outSeq = r.outSeq
  BY <1>3 DEF Rested, Only, Fields
<1>5. ASSUME NEW a \in Players, NEW b \in Players, NEW f \in Under(net', a, b),
             f.type \in {"PLAY", "INVITE"}
      PROVE  f \in Under(net, a, b)
  <2>1. CASE q = Nobody
    BY <1>3, <1>5, <2>1
  <2>2. CASE q # Nobody
    <3>1. q \in Players /\ net' = Sending(N, p, q, r.out)
      BY <1>3, <2>2
    <3>2. /\ Under(net', p, q) = Under(N, p, q) \cup ToSet(r.out)
          /\ <<a, b>> # <<p, q>> => Under(net', a, b) = Under(N, a, b)
      BY <3>1, UnderSending
    <3>3. f \in Under(N, a, b)
      BY <1>5, <3>2
    <3> QED
      BY <3>3
  <2> QED
    BY <2>1, <2>2
<1>6. PlaysUnderWay(played, net')
  BY <1>5 DEF StreamInv, PlaysUnderWay
<1>7. ASSUME NEW g \in Games, NEW a \in Players, NEW b \in Players, Claim(gm', net', g, a, b)
      PROVE  Claim(gm, net, g, a, b) \/ Claim(gm, net, g, b, a)
  <2>1. CASE \E f \in Under(net', a, b) : f.type = "INVITE" /\ f.game = g
    BY <1>5, <2>1 DEF Claim
  <2>2. CASE a # p /\ gm'[a].game = g /\ gm'[a].peer = b
    BY <1>3, <2>2 DEF Claim
  <2>3. CASE a = p /\ r.game = g /\ r.peer = b
    <3>1. CASE Hears(m, r, Played(played, m.game, p))
      BY <1>2, <2>3, <3>1 DEF Claim, Hears
    <3>2. CASE Ends(r)
      BY <2>3, <3>2 DEF Ends, Cleared, Games
    <3>3. CASE \E c \in 1..games, z \in Players \ {p} : Joins(m, r, p, c, z, net, played, heard)
      <4>1. \E f \in Under(net, b, a) : f.type = "INVITE" /\ f.game = g
        BY <2>3, <3>3 DEF Joins
      <4> QED
        BY <4>1 DEF Claim
    <3> QED
      BY <1>2, <3>1, <3>2, <3>3
  <2> QED
    BY <1>2, <1>4, <1>7, <2>1, <2>2, <2>3 DEF Claim
<1>8. Paired(gm', net')
  BY <1>7, ClaimsKept DEF StreamInv
<1>9. heard' = IF r.given = <<>> THEN heard
               ELSE Hearing(heard, m.game, p, r.given)
  BY <1>2 DEF Becomes, Hearing
<1>10. ASSUME r.given # <<>>
       PROVE  Hears(m, r, Played(played, m.game, p)) /\ m.game \in Games
  <2>1. Hears(m, r, Played(played, m.game, p))
    BY <1>2, <1>10 DEF Ends, Joins
  <2>2. CASE m.game \notin Games
    <3>1. Played(played, m.game, p) = {}
      BY <2>2 DEF Played
    <3>2. r.given \in Seq({})
      BY <2>1, <3>1 DEF Hears
    <3>3. r.given = <<>>
      BY <3>2
    <3> QED
      BY <1>10, <3>3
  <2> QED
    BY <2>1, <2>2
<1>11. /\ Story(played, heard', games) /\ Takes(played, heard, heard')
       /\ \A g \in Games, x \in Players : x # p => heard'[g][x] = heard[g][x]
       /\ r.given # <<>> => r.expectedSeq = Len(heard'[m.game][p])
  <2>1. CASE r.given = <<>>
    BY <1>1, <1>9, <2>1 DEF Takes
  <2>2. CASE r.given # <<>>
    <3>1. Hears(m, r, Played(played, m.game, p)) /\ m.game \in Games
      BY <1>10, <2>2
    <3>2. heard' = Hearing(heard, m.game, p, r.given)
      BY <1>9, <2>2
    <3>3. /\ Story(played, heard', games) /\ Takes(played, heard, heard')
          /\ \A g \in Games, x \in Players :
               <<g, x>> # <<m.game, p>> => heard'[g][x] = heard[g][x]
          /\ r.expectedSeq = Len(heard'[m.game][p])
      <4>1. PICK K : K = heard'
        OBVIOUS
      <4>2. K = Hearing(heard, m.game, p, r.given)
        BY <3>2, <4>1
      <4>3. Follows(played, heard, p, m)
        BY <1>1, <1>2
      <4>4. /\ Story(played, K, games) /\ Takes(played, heard, K)
            /\ \A g \in Games, x \in Players : <<g, x>> # <<m.game, p>> => K[g][x] = heard[g][x]
            /\ r.expectedSeq = Len(K[m.game][p])
        BY <1>1, <2>2, <3>1, <4>2, <4>3, HeardGrows
      <4> QED
        BY <4>1, <4>4
    <3> QED
      BY <3>3
  <2> QED
    BY <2>1, <2>2
<1>12. Follows(played, heard', p, y)
  <2>1. CASE Hears(m, r, Played(played, m.game, p))
    <3>1. /\ y.game = m.game /\ y.peer = m.peer /\ y.outSeq = m.outSeq
          /\ y.eventBuffer \subseteq Played(played, m.game, p)
          /\ y.openingQueue \in Seq(Played(played, m.game, p))
      BY <1>4, <2>1 DEF Hears
    <3>2. y.game # 0 => y.outSeq = Len(played[y.game][y.peer])
      BY <1>1, <1>2, <3>1 DEF Follows
    <3>3. ASSUME y.game # 0 PROVE y.expectedSeq = Len(heard'[y.game][p])
      <4>1. CASE r.given # <<>>
        BY <1>4, <1>11, <3>1, <4>1
      <4>2. CASE r.given = <<>>
        <5>1. m.expectedSeq = Len(heard[m.game][p]) /\ heard' = heard
          BY <1>1, <1>2, <1>9, <3>1, <3>3, <4>2 DEF Follows
        <5>2. heard[m.game][p] \in Seq(Plays)
          <6>1. m.game \in Games
            BY <1>1, <1>2, <3>1, <3>3 DEF Games
          <6> QED
            BY <1>1, <6>1 DEF Story, Histories
        <5>3. r.expectedSeq = m.expectedSeq + 0
          BY <2>1, <4>2 DEF Hears
        <5> QED
          BY <1>4, <3>1, <5>1, <5>2, <5>3
      <4> QED
        BY <4>1, <4>2
    <3> QED
      BY <3>1, <3>2, <3>3 DEF Follows
  <2>2. CASE Ends(r)
    BY <1>4, <2>2 DEF Follows, Ends, Cleared
  <2>3. CASE \E c \in 1..games, z \in Players \ {p} : Joins(m, r, p, c, z, net, played, heard)
    BY <1>4, <1>9, <2>3 DEF Joins, Follows
  <2> QED
    BY <1>2, <2>1, <2>2, <2>3
<1>13. ASSUME NEW x \in Players PROVE Follows(played, heard', x, gm'[x])
  <2>1. CASE x = p
    BY <1>2, <1>12, <2>1
  <2>2. CASE x # p
    <3>1. gm'[x] = gm[x] /\ Follows(played, heard, x, gm[x]) /\ gm[x].game \in 1..games \cup {0}
      BY <1>1, <1>3, <2>2 DEF StreamInv
    <3>2. gm[x].game # 0 => heard'[gm[x].game][x] = heard[gm[x].game][x]
      BY <1>1, <1>11, <2>2, <3>1 DEF Games
    <3> QED
      BY <3>1, <3>2 DEF Follows
  <2> QED
    BY <2>1, <2>2
<1>14. /\ Story(played', heard', games') /\ PlaysUnderWay(played', net') /\ Paired(gm', net')
       /\ \A x \in Players : Follows(played', heard', x, gm'[x])
  BY <1>6, <1>8, <1>11, <1>13
<1>15. Story(played, heard, games)' /\ PlaysUnderWay(played, net)' /\ Paired(gm, net)'
       /\ \A x \in Players : Follows(played, heard, x, gm[x])'
  BY <1>14 DEF Story, PlaysUnderWay, Paired, Claim, Under, Follows, Played
<1> QED
  BY <1>11, <1>15 DEF StreamInv

\* One more event for q in game g.
Playing(P, g, q, f) == [P EXCEPT ![g][q] = Append(P[g][q], f)]

LEMMA PlayedGrows ==
  ASSUME NEW P \in Histories, NEW g \in Games, NEW q \in Players,
         NEW f \in Plays, f.game = g, f.seq = Len(P[g][q]), NEW W, W = Playing(P, g, q, f)
  PROVE  /\ W \in Histories /\ W[g][q] = Append(P[g][q], f)
         /\ \A c \in Games, x \in Players : <<c, x>> # <<g, q>> => W[c][x] = P[c][x]
         /\ \A c, x : x \in Players => Played(P, c, x) \subseteq Played(W, c, x)
         /\ f \in Played(W, g, q)
<1>1. PICK s \in Seq(Plays) : s = P[g][q]
  BY DEF Histories
<1>2. PICK t : t = Append(s, f)
  OBVIOUS
<1>3. /\ t \in Seq(Plays) /\ Len(t) = Len(s) + 1 /\ Len(s) \in Nat /\ t[Len(s) + 1] = f
      /\ \A i \in 1..Len(s) : t[i] = s[i]
  BY <1>2
<1>4. PICK w : w = [P[g] EXCEPT ![q] = t]
  OBVIOUS
<1>5. W = [P EXCEPT ![g] = w]
  BY <1>1, <1>2, <1>4 DEF Playing
<1>6. P[g] \in [Players -> Seq(Plays)]
  BY DEF Histories
<1>7. w \in [Players -> Seq(Plays)] /\ w[q] = t /\ \A x \in Players \ {q} : w[x] = P[g][x]
  BY <1>3, <1>4, <1>6
<1>8. W \in Histories /\ W[g] = w /\ \A c \in Games \ {g} : W[c] = P[c]
  BY <1>5, <1>7 DEF Histories
<1>9. ASSUME NEW c, NEW x \in Players, NEW e \in Played(P, c, x) PROVE e \in Played(W, c, x)
  <2>1. /\ e \in Plays /\ c \in Games /\ e.game = c
        /\ e.seq < Len(P[c][x]) /\ P[c][x][e.seq + 1] = e /\ e.seq \in Nat
    BY <1>9 DEF Played, Plays
  <2>2. CASE <<c, x>> = <<g, q>>
    <3>1. e.seq < Len(s) /\ s[e.seq + 1] = e
      BY <1>1, <2>1, <2>2
    <3>2. e.seq < Len(t) /\ t[e.seq + 1] = e
      BY <1>3, <2>1, <3>1
    <3>3. W[c][x] = t
      BY <1>7, <1>8, <2>2
    <3> QED
      BY <2>1, <3>2, <3>3 DEF Played
  <2>3. CASE <<c, x>> # <<g, q>>
    <3>1. W[c][x] = P[c][x]
      BY <1>7, <1>8, <2>1, <2>3
    <3> QED
      BY <2>1, <3>1 DEF Played
  <2> QED
    BY <2>2, <2>3
<1>10. f \in Played(W, g, q)
  <2>1. W[g][q] = t /\ f.seq = Len(s)
    BY <1>1, <1>7, <1>8
  <2> QED
    BY <1>3, <2>1 DEF Played
<1>11. \A c \in Games, x \in Players : <<c, x>> # <<g, q>> => W[c][x] = P[c][x]
  BY <1>7, <1>8
<1>12. W[g][q] = Append(P[g][q], f)
  BY <1>1, <1>2, <1>7, <1>8
<1> QED
  BY <1>8, <1>9, <1>10, <1>11, <1>12

LEMMA StreamTaps ==
  ASSUME Sane, StreamInv, games' = games, NEW p \in Players, NEW r, NEW f, NEW last \in BOOLEAN,
         Taps(gm[p], r, f, last), Becomes(p, gm[p].peer, r, net),
         played' = [played EXCEPT ![gm[p].game][gm[p].peer] = Append(@, f)]
  PROVE  /\ StreamInv' /\ heard' = heard
         /\ gm[p].game \in Games /\ gm[p].peer \in Players /\ f \in Plays /\ f.seq < MaxEvents
         /\ f.game = gm[p].game
<1>1. /\ games \in Nat /\ games <= MaxGames /\ MaxGames \in Nat
      /\ \A x \in Players : /\ gm[x].game \in 1..games \cup {0}
                            /\ Typed(x, gm[x]) /\ Coherent(gm[x]) /\ Resting(gm[x])
      /\ Story(played, heard, games) /\ \A x \in Players : Follows(played, heard, x, gm[x])
  BY ConstantsAssumption DEF Sane, Sound, StreamInv
<1>2. PICK m, y, q, g : m = gm[p] /\ y = gm'[p] /\ q = m.peer /\ g = m.game
  OBVIOUS
<1>3. /\ m.state = "ACTIVE" /\ m.me = p /\ q \in Players \ {p} /\ g \in 1..games /\ g \in Games
      /\ m.outSeq \in Nat /\ m.out = <<>> /\ m.given = <<>>
  BY <1>1, <1>2 DEF Taps, Typed, Coherent, People, Resting, Games
<1>4. /\ Only(m, r, {"outSeq", "dice", "turn", "out"}) /\ r.outSeq = m.outSeq + 1
      /\ r.out = Append(m.out, f) /\ m.outSeq < MaxEvents
      /\ f = PlayFrame(g, m.outSeq, IF m.dice THEN "MOVE" ELSE "ROLL", last)
  BY <1>2 DEF Taps
<1>5. Record(r) /\ q \in People \ {p} /\ Becomes(p, q, r, net) /\ Nobody \notin Players
  BY <1>2, <1>3, <1>4, ConstantsAssumption DEF Only, People
<1>6. /\ PerPlayer(gm') /\ Rested(r, y)
      /\ \A x \in Players \ {p} : gm'[x] = gm[x]
      /\ net' = Sending(net, p, q, r.out)
  BY <1>2, <1>3, <1>5, BecomesIs DEF Sane
<1>7. /\ y.game = g /\ y.peer = q /\ y.eventBuffer = m.eventBuffer /\ r.given = <<>>
      /\ y.openingQueue = m.openingQueue /\ y.expectedSeq = m.expectedSeq /\ y.outSeq = m.outSeq + 1
  BY <1>2, <1>3, <1>4, <1>6 DEF Rested, Only, Fields
<1>8. /\ f \in Plays /\ f.type = "PLAY" /\ f.game = g /\ f.seq = m.outSeq /\ f \in Frames
  BY <1>3, <1>4 DEF PlayFrame, Plays, Games, Frames
<1>9. m.outSeq = Len(played[g][q]) /\ played \in Histories
  BY <1>1, <1>2, <1>3 DEF Follows, Games, Story
<1>10. PICK W : W = played'
  OBVIOUS
<1>11. W = Playing(played, g, q, f)
  BY <1>2, <1>10 DEF Playing
<1>12. /\ W \in Histories /\ W[g][q] = Append(played[g][q], f)
       /\ \A c \in Games, x \in Players : <<c, x>> # <<g, q>> => W[c][x] = played[c][x]
       /\ \A c, x : x \in Players => Played(played, c, x) \subseteq Played(W, c, x)
       /\ f \in Played(W, g, q)
  BY <1>3, <1>8, <1>9, <1>11, PlayedGrows, SMTT(40)
<1>13. heard' = heard
  BY <1>7 DEF Becomes
<1>14. Len(W[g][q]) = m.outSeq + 1 /\ Begins(heard[g][q], W[g][q])
  <2>1. PICK s \in Seq(Plays), h \in Seq(Plays) : s = played[g][q] /\ h = heard[g][q]
    BY <1>1, <1>3 DEF Story, Histories
  <2>2. PICK t : t = Append(s, f)
    OBVIOUS
  <2>3. /\ Len(t) = Len(s) + 1 /\ Len(s) \in Nat /\ \A i \in 1..Len(s) : t[i] = s[i]
    BY <2>2
  <2>4. Len(h) <= Len(s) /\ Len(h) \in Nat /\ \A i \in 1..Len(h) : h[i] = s[i]
    BY <1>1, <1>3, <2>1 DEF Story, Begins
  <2> QED
    BY <1>9, <1>12, <2>1, <2>2, <2>3, <2>4 DEF Begins
<1>15. Story(W, heard, games)
  <2>1. \A c \in Games, x \in Players : Begins(heard[c][x], W[c][x])
    BY <1>1, <1>12, <1>14 DEF Story
  <2>2. \A c \in Games, x \in Players : c > games => W[c][x] = <<>>
    BY <1>1, <1>3, <1>12 DEF Story
  <2> QED
    BY <1>1, <1>12, <2>1, <2>2 DEF Story
<1>16. /\ ToSet(r.out) = {f} /\ Under(net', p, q) = Under(net, p, q) \cup {f}
       /\ \A a, b \in Players : <<a, b>> # <<p, q>> => Under(net', a, b) = Under(net, a, b)
  <2>1. r.out \in Seq(Frames) /\ ToSet(r.out) = ToSet(m.out) \cup {f} /\ ToSet(m.out) = {}
    <3>1. m.out \in Seq(Frames) /\ Len(m.out) = 0
      BY <1>3
    <3>2. ToSet(m.out) = {}
      BY <3>1, SetOf
    <3> QED
      BY <1>4, <1>8, <3>1, <3>2, SetOfAppend
  <2> QED
    BY <1>3, <1>6, <2>1, UnderSending DEF Sane
<1>17. PlaysUnderWay(W, net')
  <2> SUFFICES ASSUME NEW a \in Players, NEW b \in Players, NEW e \in Under(net', b, a),
                      e.type = "PLAY"
               PROVE  e \in Played(W, e.game, a)
    BY DEF PlaysUnderWay
  <2>1. CASE e \in Under(net, b, a)
    BY <1>12, <2>1 DEF StreamInv, PlaysUnderWay
  <2>2. CASE e = f /\ <<b, a>> = <<p, q>>
    BY <1>8, <1>12, <2>2
  <2> QED
    BY <1>16, <2>1, <2>2
<1>18. Paired(gm', net')
  <2>1. ASSUME NEW c \in Games, NEW a \in Players, NEW b \in Players, Claim(gm', net', c, a, b)
        PROVE  Claim(gm, net, c, a, b)
    <3>1. CASE \E e \in Under(net', a, b) : e.type = "INVITE" /\ e.game = c
      BY <1>8, <1>16, <3>1 DEF Claim
    <3>2. CASE gm'[a].game = c /\ gm'[a].peer = b
      BY <1>2, <1>6, <1>7, <3>2 DEF Claim
    <3> QED
      BY <2>1, <3>1, <3>2 DEF Claim
  <2> QED
    BY <2>1, ClaimsKept DEF StreamInv
<1>19. ASSUME NEW x \in Players PROVE Follows(W, heard, x, gm'[x])
  <2>1. PICK n : n = gm[x]
    OBVIOUS
  <2>2. /\ n.eventBuffer \subseteq Played(W, n.game, x) /\ n.openingQueue \in Seq(Played(W, n.game, x))
        /\ n.game # 0 => n.expectedSeq = Len(heard[n.game][x])
    <3>1. PICK E, F : E = Played(played, n.game, x) /\ F = Played(W, n.game, x)
      OBVIOUS
    <3>2. E \subseteq F
      BY <1>12, <3>1
    <3>3. n.eventBuffer \subseteq E /\ n.openingQueue \in Seq(E)
      BY <1>1, <2>1, <3>1 DEF Follows
    <3>4. n.openingQueue \in Seq(F)
      BY <3>2, <3>3
    <3> QED
      BY <1>1, <2>1, <3>1, <3>2, <3>3, <3>4 DEF Follows
  <2>3. CASE x = p
    BY <1>2, <1>3, <1>7, <1>14, <2>1, <2>2, <2>3 DEF Follows
  <2>4. CASE x # p
    <3>1. ASSUME n.game # 0 PROVE n.outSeq = Len(W[n.game][n.peer])
      <4>1. n.game \in Games /\ n.peer \in Players \ {x}
        BY <1>1, <2>1, <3>1 DEF Games, Typed, Coherent, People
      <4>2. <<n.game, n.peer>> # <<g, q>>
        <5> SUFFICES ASSUME n.game = g, n.peer = q PROVE FALSE
          OBVIOUS
        <5>1. Claim(gm, net, g, x, q) /\ Claim(gm, net, g, p, q)
          BY <1>2, <2>1 DEF Claim
        <5>2. <<x, q>> \in {<<p, q>>, <<q, p>>}
          BY <1>3, <5>1 DEF StreamInv, Paired
        <5> QED
          BY <1>3, <2>4, <5>2
      <4>3. W[n.game][n.peer] = played[n.game][n.peer]
        BY <1>12, <4>1, <4>2
      <4> QED
        BY <1>1, <2>1, <3>1, <4>3 DEF Follows
    <3> QED
      BY <1>6, <2>1, <2>2, <2>4, <3>1 DEF Follows
  <2> QED
    BY <2>3, <2>4
<1>20. /\ Story(played', heard', games') /\ PlaysUnderWay(played', net') /\ Paired(gm', net')
       /\ \A x \in Players : Follows(played', heard', x, gm'[x])
  BY <1>10, <1>13, <1>15, <1>17, <1>18, <1>19
<1>21. Story(played, heard, games)' /\ PlaysUnderWay(played, net)' /\ Paired(gm, net)'
       /\ \A x \in Players : Follows(played, heard, x, gm[x])'
  BY <1>20 DEF Story, PlaysUnderWay, Paired, Claim, Under, Follows, Played
<1> QED
  BY <1>2, <1>3, <1>4, <1>8, <1>13, <1>21 DEF StreamInv

LEMMA StreamProposes ==
  ASSUME Sane, StreamInv, games' = games + 1, games < MaxGames, played' = played,
         NEW p \in Players, NEW q \in Players \ {p}, NEW r,
         Proposes(gm[p], r, q, games + 1), Becomes(p, q, r, net)
  PROVE  StreamInv' /\ heard' = heard
<1>1. /\ games \in Nat /\ games <= MaxGames /\ MaxGames \in Nat
      /\ \A x \in Players : /\ gm[x].game \in 1..games \cup {0}
                            /\ Typed(x, gm[x]) /\ Coherent(gm[x]) /\ Resting(gm[x])
      /\ Story(played, heard, games) /\ \A x \in Players : Follows(played, heard, x, gm[x])
  BY ConstantsAssumption DEF Sane, Sound, StreamInv
<1>2. PICK m, y, g : m = gm[p] /\ y = gm'[p] /\ g = games + 1
  OBVIOUS
<1>3. /\ m.state = "IDLE" /\ m.eventBuffer = {} /\ m.openingQueue = <<>> /\ m.expectedSeq = 0
      /\ m.outSeq = 0 /\ m.out = <<>> /\ m.given = <<>> /\ g \in Games /\ g \in Nat /\ g # 0
  BY <1>1, <1>2 DEF Proposes, Coherent, Resting, Games
<1>4. /\ Only(m, r, {"state", "peer", "game", "white", "out"}) /\ r.peer = q /\ r.game = g
      /\ r.out = Append(m.out, Frame("INVITE", g))
  BY <1>2 DEF Proposes
<1>5. Record(r) /\ q \in People \ {p} /\ Nobody \notin Players
  BY <1>4, ConstantsAssumption DEF Only, People
<1>6. /\ PerPlayer(gm') /\ Rested(r, y)
      /\ \A x \in Players \ {p} : gm'[x] = gm[x]
      /\ net' = Sending(net, p, q, r.out)
  BY <1>2, <1>5, BecomesIs DEF Sane
<1>7. /\ y.game = g /\ y.peer = q /\ y.eventBuffer = {} /\ r.given = <<>>
      /\ y.openingQueue = <<>> /\ y.expectedSeq = 0 /\ y.outSeq = 0
  BY <1>3, <1>4, <1>6 DEF Rested, Only, Fields
<1>8. heard' = heard
  BY <1>7 DEF Becomes
<1>9. PICK f : f = Frame("INVITE", g)
  OBVIOUS
<1>10. f \in Frames /\ f.type = "INVITE" /\ f.game = g
  BY <1>3, <1>9 DEF Frame, Frames
<1>11. /\ Under(net', p, q) = Under(net, p, q) \cup {f}
       /\ \A a, b \in Players : <<a, b>> # <<p, q>> => Under(net', a, b) = Under(net, a, b)
  <2>1. r.out \in Seq(Frames) /\ ToSet(r.out) = ToSet(m.out) \cup {f} /\ ToSet(m.out) = {}
    <3>1. m.out \in Seq(Frames) /\ Len(m.out) = 0
      BY <1>3
    <3>2. ToSet(m.out) = {}
      BY <3>1, SetOf
    <3> QED
      BY <1>4, <1>9, <1>10, <3>1, <3>2, SetOfAppend
  <2> QED
    BY <1>6, <2>1, UnderSending DEF Sane
<1>12. PlaysUnderWay(played, net')
  BY <1>10, <1>11 DEF StreamInv, PlaysUnderWay
<1>13. ASSUME NEW a \in Players, NEW b \in Players PROVE ~Claim(gm, net, g, a, b)
  <2>1. \A e \in Under(net, a, b) : e.game \in 1..games
    <3>1. net[a][b] \in Seq(Frames) /\ \A i \in 1..Len(net[a][b]) : net[a][b][i].game \in 1..games
      BY DEF Sane, NetOk
    <3>2. ToSet(net[a][b]) = {net[a][b][i] : i \in 1..Len(net[a][b])}
      BY <3>1, SetOf
    <3> QED
      BY <3>1, <3>2 DEF Under
  <2>2. g \notin 1..games /\ gm[a].game # g
    BY <1>1, <1>2, <1>3
  <2> QED
    BY <2>1, <2>2 DEF Claim
<1>14. ASSUME NEW c \in Games, NEW a \in Players, NEW b \in Players, Claim(gm', net', c, a, b)
       PROVE  (c = g /\ a = p /\ b = q) \/ Claim(gm, net, c, a, b)
  <2>1. CASE \E e \in Under(net', a, b) : e.type = "INVITE" /\ e.game = c
    BY <1>10, <1>11, <2>1 DEF Claim
  <2>2. CASE gm'[a].game = c /\ gm'[a].peer = b
    BY <1>2, <1>6, <1>7, <2>2 DEF Claim
  <2> QED
    BY <1>14, <2>1, <2>2 DEF Claim
<1>15. Paired(gm', net')
  <2> SUFFICES ASSUME NEW c \in Games, NEW a \in Players, NEW b \in Players,
                      NEW d \in Players, NEW e \in Players,
                      Claim(gm', net', c, a, b), Claim(gm', net', c, d, e)
               PROVE  <<d, e>> \in {<<a, b>>, <<b, a>>}
    BY DEF Paired
  <2>1. CASE c = g
    BY <1>13, <1>14, <2>1
  <2>2. CASE c # g
    BY <1>14, <2>2 DEF StreamInv, Paired
  <2> QED
    BY <2>1, <2>2
<1>16. Story(played, heard, games + 1)
  BY <1>1 DEF Story, Games
<1>17. ASSUME NEW x \in Players PROVE Follows(played, heard, x, gm'[x])
  <2>1. CASE x = p
    <3>1. played[g][q] = <<>> /\ played[g][p] = <<>>
      BY <1>1, <1>2, <1>3 DEF Story, Games
    <3>2. heard[g][p] = <<>>
      <4>1. heard[g][p] \in Seq(Plays) /\ Begins(heard[g][p], <<>>)
        BY <1>1, <1>3, <3>1 DEF Story, Histories
      <4> QED
        BY <4>1 DEF Begins
    <3>3. y.openingQueue \in Seq(Played(played, g, p)) /\ Len(<<>>) = 0
      BY <1>7
    <3>4. y.expectedSeq = Len(heard[g][p]) /\ y.outSeq = Len(played[g][q])
      BY <1>7, <3>1, <3>2, <3>3
    <3>5. Follows(played, heard, p, y)
      BY <1>7, <3>3, <3>4 DEF Follows
    <3> QED
      BY <1>2, <2>1, <3>5
  <2>2. CASE x # p
    BY <1>1, <1>6, <2>2
  <2> QED
    BY <2>1, <2>2
<1>18. /\ Story(played', heard', games') /\ PlaysUnderWay(played', net') /\ Paired(gm', net')
       /\ \A x \in Players : Follows(played', heard', x, gm'[x])
  BY <1>8, <1>12, <1>15, <1>16, <1>17
<1>19. Story(played, heard, games)' /\ PlaysUnderWay(played, net)' /\ Paired(gm, net)'
       /\ \A x \in Players : Follows(played, heard, x, gm[x])'
  BY <1>18 DEF Story, PlaysUnderWay, Paired, Claim, Under, Follows, Played
<1> QED
  BY <1>8, <1>19 DEF StreamInv

LEMMA StreamShows ==
  ASSUME Sane, StreamInv, NEW p \in Players, NEW r, Shows(gm[p], r),
         gm' = [gm EXCEPT ![p] = r], UNCHANGED <<net, games, played, heard>>
  PROVE  StreamInv'
<1>1. /\ r.game = gm[p].game /\ r.peer = gm[p].peer /\ r.eventBuffer = gm[p].eventBuffer
      /\ r.openingQueue = gm[p].openingQueue /\ r.expectedSeq = gm[p].expectedSeq
      /\ r.outSeq = gm[p].outSeq
  BY DEF Shows, Only, Fields
<1>2. gm'[p] = r /\ \A x \in Players \ {p} : gm'[x] = gm[x]
  BY DEF Sane, PerPlayer
<1>3. \A x \in Players : gm'[x].game = gm[x].game /\ gm'[x].peer = gm[x].peer
  BY <1>1, <1>2
<1>4. \A x \in Players : Follows(played, heard, x, gm'[x])
  BY <1>1, <1>2 DEF StreamInv, Follows
<1>5. Paired(gm', net')
  <2>1. \A g \in Games : \A a, b \in Players :
          Claim(gm', net', g, a, b) => Claim(gm, net, g, a, b)
    BY <1>3 DEF Claim
  <2> QED
    BY <2>1, ClaimsKept DEF StreamInv
<1>6. /\ Story(played', heard', games') /\ PlaysUnderWay(played', net') /\ Paired(gm', net')
      /\ \A x \in Players : Follows(played', heard', x, gm'[x])
  BY <1>4, <1>5 DEF StreamInv
<1>7. Story(played, heard, games)' /\ PlaysUnderWay(played, net)' /\ Paired(gm, net)'
      /\ \A x \in Players : Follows(played, heard, x, gm[x])'
  BY <1>6 DEF Story, PlaysUnderWay, Paired, Claim, Under, Follows, Played
<1> QED
  BY <1>7 DEF StreamInv

\* No invitation comes to a game in which something was heard or played.
FreshInvites ==
  \A p \in Players :
    gm[p].state = "IDLE" /\ gm'[p].state = "INVITED"
      => heard[gm'[p].game][p] = <<>> /\ played[gm'[p].game][gm'[p].peer] = <<>>

\* What a step does to what is played and heard.
StreamMoves ==
  \/ played' = played /\ Takes(played, heard, heard')
  \/ /\ heard' = heard
     /\ \E g \in Games, q \in Players, f \in Plays :
          /\ played' = [played EXCEPT ![g][q] = Append(@, f)]
          /\ f.game = g /\ f.seq < MaxEvents /\ f.seq = Len(played[g][q])

LEMMA EventsHeld ==
  ASSUME Sane, StreamInv, NEW p \in Players
  PROVE  EventHolds(gm[p], Played(played, gm[p].game, p))
BY DEF Sane, StreamInv, Follows, EventHolds, Sound, Typed, Resting

LEMMA EmptySet ==
  ASSUME NEW s, s = <<>>
  PROVE  s \in Seq(Frames) /\ ToSet(s) = {}
<1>1. ASSUME NEW t \in Seq(Frames), Len(t) = 0 PROVE ToSet(t) = {}
  <2>1. ToSet(t) = {t[i] : i \in 1..Len(t)}
    BY SetOf
  <2> QED
    BY <1>1, <2>1
<1>2. s \in Seq(Frames) /\ Len(s) = 0
  OBVIOUS
<1> QED
  BY <1>1, <1>2

LEMMA StreamReceives ==
  ASSUME Sane, StreamInv, FreshInvites, NEW p \in Players, NEW q \in Players, Receive(p, q)
  PROVE  StreamInv' /\ StreamMoves
<1>1. PICK m, E : m = gm[p] /\ E = Played(played, gm[p].game, p)
  OBVIOUS
<1>2. PICK G : G = 1..games
  OBVIOUS
<1>3. /\ games \in Nat /\ G \in SUBSET (Nat \ {0}) /\ Sound(p, m, G) /\ EventHolds(m, E)
      /\ E \in SUBSET Plays /\ NetOk(net, G) /\ m.peer \in People \ {p}
  <2>1. games \in Nat /\ Sound(p, m, G) /\ NetOk(net, G)
    BY <1>1, <1>2 DEF Sane
  <2>2. EventHolds(m, E)
    BY <1>1, EventsHeld
  <2>3. E \in SUBSET Plays
    BY <1>1 DEF Played
  <2> QED
    BY <1>2, <2>1, <2>2, <2>3 DEF Sound, Typed
<1>4. ASSUME NEW i \in 1..Len(net[q][p]), net[q][p][i].type = "PLAY", Mine(m, q, net[q][p][i])
      PROVE  net[q][p][i] \in E
  <2>1. net[q][p] \in Seq(Frames)
    BY <1>3 DEF NetOk
  <2>2. net[q][p][i] \in Under(net, q, p)
    BY <2>1, SetOf DEF Under
  <2> QED
    BY <1>1, <1>4, <2>2 DEF StreamInv, PlaysUnderWay, Mine
<1>5. /\ UNCHANGED <<games, played>> /\ p # q
      /\ \E i \in 1..Len(net[q][p]), again \in BOOLEAN, die \in Dice(gm[p]), f \in Frames :
           \E r, N : /\ Receives(p, q, i, again, die, f, r, N, E)
                     /\ f.game \in G /\ NetOk(N, G) /\ Becomes(p, gm[p].peer, r, N)
  BY <1>1, <1>2, <1>3, <1>4, ReceiveOutcome DEF EventHolds
<1>6. PICK i \in 1..Len(net[q][p]), again \in BOOLEAN, die \in Dice(gm[p]), f \in Frames :
        \E r, N : /\ Receives(p, q, i, again, die, f, r, N, E)
                  /\ f.game \in G /\ NetOk(N, G) /\ Becomes(p, gm[p].peer, r, N)
  BY <1>5
<1>7. PICK r, N : /\ Receives(p, q, i, again, die, f, r, N, E)
                  /\ f.game \in G /\ NetOk(N, G) /\ Becomes(p, m.peer, r, N)
  BY <1>1, <1>6
<1>8. /\ Handled(m, r, q, f, die, E) /\ f = net[q][p][i] /\ die \in Nat
      /\ N = IF again THEN net ELSE Taking(net, q, p, i)
  BY <1>1, <1>7, DiceNat DEF Receives
<1>9. f.type = "PLAY" /\ Mine(m, q, f) => f \in E
  BY <1>4, <1>8
<1>10. /\ \/ Hears(m, r, E) \/ Ends(r)
          \/ f.type = "INVITE" /\ Invited(m, r, q, f.game)
       /\ Says(m, r, {"COMMIT", "REVEAL", "END"})
  BY <1>3, <1>5, <1>7, <1>8, <1>9, HearsHandled
<1>11. Sound(p, r, G)
  BY <1>3, <1>5, <1>7, <1>8, <1>9, SoundHandled DEF EventHolds
<1>12. Record(r) /\ r.out \in Seq(Frames) /\ \A e \in ToSet(r.out) : e.type \notin {"PLAY", "INVITE"}
  <2>1. m.out = <<>>
    BY <1>1 DEF Sane, Resting
  <2>2. ToSet(m.out) = {}
    BY <2>1 DEF ToSet
  <2> QED
    BY <1>10, <1>11, <2>2 DEF Sound, Says
<1>13. \A x, y \in Players : Under(N, x, y) \subseteq Under(net, x, y)
  <2>1. CASE again
    BY <1>8, <2>1
  <2>2. CASE ~again
    <3>1. N = Taking(net, q, p, i)
      BY <1>8, <2>2
    <3>2. /\ Under(N, q, p) = {net[q][p][j] : j \in (1..Len(net[q][p])) \ {i}}
          /\ \A x, y \in Players : <<x, y>> # <<q, p>> => Under(N, x, y) = Under(net, x, y)
      BY <1>3, <3>1, UnderTaking
    <3>3. net[q][p] \in Seq(Frames)
      BY <1>3 DEF NetOk
    <3>4. Under(net, q, p) = {net[q][p][j] : j \in 1..Len(net[q][p])}
      BY <3>3, SetOf DEF Under
    <3>5. Under(N, q, p) \subseteq Under(net, q, p)
      BY <3>2, <3>4
    <3> QED
      BY <3>2, <3>5
  <2> QED
    BY <2>1, <2>2
<1>14. \/ Hears(m, r, E) \/ Ends(r)
       \/ \E g \in G, z \in Players \ {p} : Joins(m, r, p, g, z, net, played, heard)
  <2> SUFFICES ASSUME f.type = "INVITE", Invited(m, r, q, f.game)
               PROVE  Joins(m, r, p, f.game, q, net, played, heard)
    BY <1>5, <1>7, <1>10
  <2>1. /\ m.state = "IDLE" /\ Only(m, r, {"state", "peer", "game", "white"})
        /\ r.state = "INVITED" /\ r.peer = q /\ r.game = f.game
    BY DEF Invited
  <2>2. m.eventBuffer = {} /\ m.openingQueue = <<>> /\ m.expectedSeq = 0 /\ m.outSeq = 0
        /\ m.given = <<>>
    BY <1>3, <2>1 DEF Sound, Coherent, EventHolds
  <2>3. r.given = <<>> /\ r.eventBuffer = {} /\ r.openingQueue = <<>> /\ r.expectedSeq = 0
        /\ r.outSeq = 0
    BY <2>1, <2>2 DEF Only, Fields
  <2>4. Rested(r, gm'[p])
    BY <1>3, <1>7, <1>12, BecomesIs DEF Sane
  <2>5. gm'[p].state = "INVITED" /\ gm'[p].peer = q /\ gm'[p].game = f.game
    BY <2>1, <2>4 DEF Rested, Only, Fields
  <2>6. heard[f.game][p] = <<>> /\ played[f.game][q] = <<>>
    BY <1>1, <2>1, <2>5 DEF FreshInvites
  <2>7. f \in Under(net, q, p)
    <3>1. net[q][p] \in Seq(Frames)
      BY <1>3 DEF NetOk
    <3> QED
      BY <1>8, <3>1, SetOf DEF Under
  <2> QED
    BY <2>1, <2>3, <2>6, <2>7 DEF Joins
<1>15. StreamInv' /\ Takes(played, heard, heard')
  BY <1>1, <1>2, <1>3, <1>5, <1>7, <1>12, <1>13, <1>14, StreamQuiet
<1> QED
  BY <1>5, <1>15 DEF StreamMoves

LEMMA StreamStep ==
  ASSUME Sane, StreamInv, Next, FreshInvites
  PROVE  StreamInv' /\ StreamMoves
<1>1. PICK G : G = 1..games
  OBVIOUS
<1>2. /\ games \in Nat /\ G \in SUBSET (Nat \ {0}) /\ NetOk(net, G) /\ 0 \notin G
      /\ \A p \in Players : /\ Sound(p, gm[p], G) /\ Resting(gm[p]) /\ Record(gm[p])
                            /\ gm[p].me = p /\ gm[p].peer \in People \ {p}
                            /\ gm[p].out = <<>> /\ gm[p].given = <<>>
  BY <1>1 DEF Sane, Sound, Typed, Resting
<1>3. ASSUME NEW p \in Players, NEW q \in People \ {p}, NEW r, Record(r), Becomes(p, q, r, net),
             UNCHANGED <<games, played>>, Ends(r), r.out \in Seq(Frames),
             \A f \in ToSet(r.out) : f.type \notin {"PLAY", "INVITE"}
      PROVE  StreamInv' /\ StreamMoves
  <2>1. \A x, y \in Players : Under(net, x, y) \subseteq Under(net, x, y)
    OBVIOUS
  <2>2. StreamInv' /\ Takes(played, heard, heard')
    BY <1>1, <1>2, <1>3, <2>1, StreamQuiet
  <2> QED
    BY <1>3, <2>2 DEF StreamMoves
<1>4. ASSUME NEW p \in Players, NEW q \in Players, SendInvite(p, q) PROVE StreamInv' /\ StreamMoves
  <2>1. PICK r : /\ p # q /\ games < MaxGames /\ games' = games + 1 /\ played' = played
                 /\ Proposes(gm[p], r, q, games + 1) /\ Becomes(p, q, r, net)
    BY <1>2, <1>4, ProposeOutcome
  <2>2. StreamInv' /\ heard' = heard
    BY <2>1, StreamProposes
  <2> QED
    BY <2>1, <2>2 DEF StreamMoves, Takes
<1>5. ASSUME NEW p \in Players, AcceptInvite(p) PROVE StreamInv' /\ StreamMoves
  <2>1. PICK die \in Dice(gm[p]) :
          \E r : /\ UNCHANGED <<games, played>> /\ Accepts(gm[p], r, die)
                /\ Becomes(p, gm[p].peer, r, net)
    BY <1>2, <1>5, AcceptOutcome
  <2>2. PICK r : UNCHANGED <<games, played>> /\ Accepts(gm[p], r, die) /\ Becomes(p, gm[p].peer, r, net)
    BY <2>1
  <2>3. PICK m, E : m = gm[p] /\ E = Played(played, gm[p].game, p)
    OBVIOUS
  <2>4. PICK s : /\ m.state = "INVITED" /\ Only(m, s, {"out"})
                 /\ s.out = Append(m.out, Frame("ACCEPT", m.game)) /\ Started(s, r, die)
    BY <2>2, <2>3 DEF Accepts
  <2>5. EventHolds(m, E) /\ m.game \in G /\ m.rollNo \in Nat /\ m.me = p /\ die \in Nat
    BY <1>2, <2>3, <2>4, EventsHeld, DiceNat DEF Sound, Typed, Coherent
  <2>6. EventHolds(s, E) /\ Hears(m, s, E)
    <3>1. {"out"} \cap StreamFields = {}
      BY DEF StreamFields
    <3> QED
      BY <2>4, <2>5, <3>1, HearsNothing
  <2>7. Only(s, r, RollFields \cup {"state", "base", "turn", "dice", "screen"}) /\ Rolled(s, r, die)
    BY <2>4 DEF Started
  <2>8. Hears(s, r, E)
    <3>1. (RollFields \cup {"state", "base", "turn", "dice", "screen"}) \cap StreamFields = {}
      BY DEF StreamFields, RollFields
    <3> QED
      BY <2>6, <2>7, <3>1, HearsNothing
  <2>9. /\ s.game = m.game /\ s.peer = m.peer /\ s.outSeq = m.outSeq /\ s.me = m.me
        /\ s.expectedSeq = m.expectedSeq /\ s.rollNo = m.rollNo
    BY <2>4 DEF Only, Fields
  <2>10. Hears(m, r, E)
    BY <2>8, <2>9 DEF Hears
  <2>11. PICK a, c : a = Frame("ACCEPT", m.game) /\ c = RollFrame("COMMIT", s.game, r.myRoll)
    OBVIOUS
  <2>12. a \in Frames /\ a.type = "ACCEPT"
    BY <1>2, <2>5, <2>11 DEF Frame, Frames
  <2>13. c \in Frames /\ c.type = "COMMIT"
    <3>1. r.myRoll \in Rolls
      BY <2>5, <2>7, <2>9 DEF Rolled, Rolls
    <3> QED
      BY <1>1, <1>2, <2>5, <2>9, <2>11, <3>1 DEF RollFrame, Frames
  <2>14. r.out \in Seq(Frames) /\ ToSet(r.out) = {a, c}
    <3>1. m.out \in Seq(Frames) /\ ToSet(m.out) = {}
      BY <1>2, <2>3, EmptySet
    <3>2. s.out \in Seq(Frames) /\ ToSet(s.out) = {a}
      BY <2>4, <2>11, <2>12, <3>1, SetOfAppend
    <3>3. r.out = Append(s.out, c)
      BY <2>7, <2>11 DEF Rolled
    <3>4. r.out \in Seq(Frames) /\ ToSet(r.out) = ToSet(s.out) \cup {c}
      BY <2>13, <3>2, <3>3, SetOfAppend
    <3> QED
      BY <3>2, <3>4
  <2>15. Record(r)
    BY <2>7 DEF Only
  <2>16. \A f \in ToSet(r.out) : f.type \notin {"PLAY", "INVITE"}
    BY <2>12, <2>13, <2>14
  <2>17. \A x, y \in Players : Under(net, x, y) \subseteq Under(net, x, y)
    OBVIOUS
  <2>18. StreamInv' /\ Takes(played, heard, heard')
    BY <1>1, <1>2, <2>2, <2>3, <2>10, <2>14, <2>15, <2>16, <2>17, StreamQuiet
  <2> QED
    BY <2>2, <2>18 DEF StreamMoves
<1>6. ASSUME NEW p \in Players, DeclineInvite(p) PROVE StreamInv' /\ StreamMoves
  <2>1. PICK r : UNCHANGED <<games, played>> /\ Declines(gm[p], r) /\ Becomes(p, Nobody, r, net)
    BY <1>2, <1>6, DeclineOutcome
  <2>2. Record(r) /\ Cleared(r) /\ r.given = <<>> /\ r.out = <<>>
    BY <1>2, <2>1 DEF Declines, Only, Fields, GameFields
  <2>3. r.out \in Seq(Frames) /\ ToSet(r.out) = {}
    BY <2>2 DEF ToSet
  <2>4. Nobody \in People \ {p}
    BY ConstantsAssumption DEF People
  <2> QED
    BY <1>3, <2>1, <2>2, <2>3, <2>4 DEF Ends
<1>7. ASSUME NEW p \in Players, Leave(p) PROVE StreamInv' /\ StreamMoves
  <2>1. PICK r : UNCHANGED <<games, played>> /\ Leaves(gm[p], r) /\ Becomes(p, gm[p].peer, r, net)
    BY <1>2, <1>7, LeaveOutcome
  <2>2. /\ Record(r) /\ Cleared(r) /\ r.given = <<>> /\ gm[p].state # "IDLE"
        /\ r.out = Append(gm[p].out, Frame("END", gm[p].game))
    BY <1>2, <2>1 DEF Leaves, Only, Fields, GameFields
  <2>3. PICK e : e = Frame("END", gm[p].game)
    OBVIOUS
  <2>4. e \in Frames /\ e.type = "END"
    BY <1>2, <2>3 DEF Frame, Frames, Sound, Typed
  <2>5. r.out \in Seq(Frames) /\ ToSet(r.out) = {e}
    <3>1. gm[p].out \in Seq(Frames) /\ ToSet(gm[p].out) = {}
      BY <1>2, EmptySet
    <3> QED
      BY <2>2, <2>3, <2>4, <3>1, SetOfAppend
  <2> QED
    BY <1>2, <1>3, <2>1, <2>2, <2>4, <2>5 DEF Ends
<1>8. ASSUME NEW p \in Players, Tap(p) PROVE StreamInv' /\ StreamMoves
  <2>0. /\ UNCHANGED <<games, repeats>>
        /\ \E last \in BOOLEAN : \E r, f :
             /\ Taps(gm[p], r, f, last) /\ Becomes(p, gm[p].peer, r, net)
             /\ played' = [played EXCEPT ![gm[p].game][gm[p].peer] = Append(@, f)]
    BY <1>2, <1>8, TapOutcome
  <2>1. PICK last \in BOOLEAN : \E r, f :
          /\ Taps(gm[p], r, f, last) /\ Becomes(p, gm[p].peer, r, net)
          /\ played' = [played EXCEPT ![gm[p].game][gm[p].peer] = Append(@, f)]
    BY <2>0
  <2>2. PICK r, f : /\ games' = games /\ Taps(gm[p], r, f, last) /\ Becomes(p, gm[p].peer, r, net)
                    /\ played' = [played EXCEPT ![gm[p].game][gm[p].peer] = Append(@, f)]
    BY <2>0, <2>1
  <2>3. PICK g, q : g = gm[p].game /\ q = gm[p].peer
    OBVIOUS
  <2>4. StreamInv' /\ heard' = heard /\ g \in Games /\ q \in Players /\ f \in Plays
        /\ f.seq < MaxEvents /\ f.game = g
    BY <2>2, <2>3, StreamTaps
  <2>5. f.seq = Len(played[g][q])
    <3>1. f.seq = gm[p].outSeq
      BY <2>2 DEF Taps, PlayFrame
    <3>2. g # 0
      BY <2>4 DEF Games
    <3> QED
      BY <2>3, <3>1, <3>2 DEF StreamInv, Follows
  <2> QED
    BY <2>2, <2>3, <2>4, <2>5 DEF StreamMoves
<1>9. ASSUME NEW p \in Players, ScreenOpens(p) \/ ScreenCloses(p) PROVE StreamInv' /\ StreamMoves
  <2>1. PICK r : Shows(gm[p], r) /\ gm' = [gm EXCEPT ![p] = r]
    BY <1>2, <1>9, ScreenOutcome DEF Sane, PerPlayer
  <2>2. UNCHANGED <<net, games, played, heard>>
    BY <1>9 DEF ScreenOpens, ScreenCloses
  <2>3. StreamInv'
    BY <2>1, <2>2, StreamShows
  <2> QED
    BY <2>2, <2>3 DEF StreamMoves, Takes
<1> QED
  BY <1>4, <1>5, <1>6, <1>7, <1>8, <1>9, StreamReceives DEF Next

LEMMA StreamInit == Init => StreamInv /\ Stream!Init
<1> SUFFICES ASSUME Init PROVE StreamInv /\ Stream!Init
  OBVIOUS
<1>1. /\ gm = [p \in Players |-> Idle(p)]
      /\ net = [p \in Players |-> [q \in Players |-> <<>>]] /\ games = 0
      /\ played = [g \in Games |-> [p \in Players |-> <<>>]]
      /\ heard = [g \in Games |-> [p \in Players |-> <<>>]]
  BY DEF Init
<1>2. PICK e : e = <<>>
  OBVIOUS
<1>3. e \in Seq(Plays) /\ e \in Seq(Frames) /\ Len(e) = 0 /\ \A i \in 1..Len(e) : FALSE
  BY <1>2
<1>4. played \in Histories /\ heard \in Histories
      /\ \A g \in Games, p \in Players : played[g][p] = e /\ heard[g][p] = e
  BY <1>1, <1>2, <1>3 DEF Histories
<1>5. \A p, q \in Players : Under(net, p, q) = {}
  <2>1. ToSet(e) = {}
    BY <1>2, EmptySet
  <2> QED
    BY <1>1, <1>2, <2>1 DEF Under
<1>6. Story(played, heard, games)
  BY <1>2, <1>3, <1>4 DEF Story, Begins
<1>7. \A p \in Players : /\ gm[p].game = 0 /\ gm[p].peer = Nobody /\ gm[p].eventBuffer = {}
                          /\ gm[p].openingQueue = <<>>
  BY <1>1 DEF Idle
<1>8. PlaysUnderWay(played, net) /\ Paired(gm, net)
  BY <1>5, <1>7 DEF PlaysUnderWay, Paired, Claim, Games
<1>9. ASSUME NEW p \in Players PROVE Follows(played, heard, p, gm[p])
  <2>1. PICK m : m = gm[p]
    OBVIOUS
  <2>2. m.game = 0 /\ m.eventBuffer = {} /\ m.openingQueue = <<>>
    BY <1>7, <2>1
  <2>3. m.openingQueue \in Seq(Played(played, m.game, p))
    BY <2>2
  <2>4. Follows(played, heard, p, m)
    BY <2>2, <2>3 DEF Follows
  <2> QED
    BY <2>1, <2>4
<1>10. StreamInv
  BY <1>6, <1>8, <1>9 DEF StreamInv
<1>11. Stream!Init
  BY <1>2, <1>4 DEF Stream!Init
<1> QED
  BY <1>10, <1>11

StreamEvents ==
  [type : {"PLAY"}, game : Games, seq : 0..MaxEvents-1, kind : {"ROLL", "MOVE"}, last : BOOLEAN]

\* Steps of the game are steps of the stream of events.
LEMMA StreamSteps ==
  ASSUME StreamInv, StreamInv', StreamMoves
  PROVE  [Stream!Next]_(Stream!vars)
<1>1. played \in Histories /\ heard \in Histories /\ played' \in Histories /\ heard' \in Histories
  BY DEF StreamInv, Story
<1>2. PICK put, taken, put2, taken2 :
        /\ put = [s \in Games \X Players |-> played[s[1]][s[2]]]
        /\ taken = [s \in Games \X Players |-> heard[s[1]][s[2]]]
        /\ put2 = [s \in Games \X Players |-> played'[s[1]][s[2]]]
        /\ taken2 = [s \in Games \X Players |-> heard'[s[1]][s[2]]]
  OBVIOUS
<1>3. CASE played' = played /\ heard' = heard
  BY <1>3 DEF Stream!vars
<1>4. CASE /\ played' = played
           /\ \E g \in Games, p \in Players : \E n \in Len(heard[g][p]) + 1 .. Len(played[g][p]) :
                heard' = [heard EXCEPT ![g][p] = SubSeq(played[g][p], 1, n)]
  <2>1. PICK g \in Games, p \in Players : \E n \in Len(heard[g][p]) + 1 .. Len(played[g][p]) :
               heard' = [heard EXCEPT ![g][p] = SubSeq(played[g][p], 1, n)]
    BY <1>4
  <2>2. PICK n \in Len(heard[g][p]) + 1 .. Len(played[g][p]) :
               heard' = [heard EXCEPT ![g][p] = SubSeq(played[g][p], 1, n)]
    BY <2>1
  <2>3. PICK u, s : u = SubSeq(played[g][p], 1, n) /\ s = <<g, p>>
    OBVIOUS
  <2>4. heard' = [heard EXCEPT ![g][p] = u]
    BY <2>2, <2>3
  <2>5. /\ heard'[g][p] = u
        /\ \A c \in Games, x \in Players : <<c, x>> # <<g, p>> => heard'[c][x] = heard[c][x]
    <3>1. PICK w : w = [heard[g] EXCEPT ![p] = u]
      OBVIOUS
    <3>2. heard' = [heard EXCEPT ![g] = w]
      BY <2>4, <3>1
    <3>3. heard[g] \in [Players -> Seq(Plays)]
      BY <1>1 DEF Histories
    <3>4. w[p] = u /\ \A x \in Players \ {p} : w[x] = heard[g][x]
      BY <3>1, <3>3
    <3>5. heard'[g] = w /\ \A c \in Games \ {g} : heard'[c] = heard[c]
      BY <1>1, <3>2 DEF Histories
    <3> QED
      BY <3>4, <3>5
  <2>6. s \in Games \X Players /\ put[s] = played[g][p] /\ taken[s] = heard[g][p]
    BY <1>2, <2>3
  <2>7. taken2 = [taken EXCEPT ![s] = u]
    <3>1. ASSUME NEW t \in Games \X Players PROVE taken2[t] = IF t = s THEN u ELSE taken[t]
      <4>1. PICK c \in Games, x \in Players : t = <<c, x>>
        OBVIOUS
      <4>2. taken2[t] = heard'[c][x] /\ taken[t] = heard[c][x]
        BY <1>2, <4>1
      <4> QED
        BY <2>3, <2>5, <4>1, <4>2
    <3> QED
      BY <1>2, <2>6, <3>1
  <2>8. put2 = put
    BY <1>2, <1>4
  <2>9. /\ n \in Len(taken[s]) + 1 .. Len(put[s])
        /\ taken2 = [taken EXCEPT ![s] = SubSeq(put[s], 1, n)]
    BY <2>3, <2>6, <2>7
  <2>10. Stream!Take(s)
    BY <1>2, <2>8, <2>9, Zenon DEF Stream!Take
  <2> QED
    BY <2>6, <2>10 DEF Stream!Next
<1>5. CASE /\ heard' = heard
           /\ \E g \in Games, q \in Players, f \in Plays :
                /\ played' = [played EXCEPT ![g][q] = Append(@, f)]
                /\ f.game = g /\ f.seq < MaxEvents /\ f.seq = Len(played[g][q])
  <2>1. PICK g \in Games, q \in Players, f \in Plays :
               /\ played' = [played EXCEPT ![g][q] = Append(@, f)]
               /\ f.game = g /\ f.seq < MaxEvents /\ f.seq = Len(played[g][q])
    BY <1>5
  <2>2. PICK s, W : s = <<g, q>> /\ W = played'
    OBVIOUS
  <2>3. W = Playing(played, g, q, f)
    BY <2>1, <2>2 DEF Playing
  <2>4. /\ W \in Histories /\ W[g][q] = Append(played[g][q], f)
        /\ \A c \in Games, x \in Players : <<c, x>> # <<g, q>> => W[c][x] = played[c][x]
    BY <1>1, <2>1, <2>3, PlayedGrows
  <2>5. s \in Games \X Players /\ put[s] = played[g][q] /\ put[s] \in Seq(Plays)
    BY <1>1, <1>2, <2>2 DEF Histories
  <2>6. put2 = [put EXCEPT ![s] = Append(put[s], f)]
    <3>1. ASSUME NEW t \in Games \X Players
          PROVE  put2[t] = IF t = s THEN Append(put[s], f) ELSE put[t]
      <4>1. PICK c \in Games, x \in Players : t = <<c, x>>
        OBVIOUS
      <4>2. put2[t] = W[c][x] /\ put[t] = played[c][x]
        BY <1>2, <2>2, <4>1
      <4> QED
        BY <2>2, <2>4, <2>5, <4>1, <4>2
    <3> QED
      BY <1>2, <2>5, <3>1
  <2>7. put2 # put
    <3>1. Append(put[s], f) # put[s]
      BY <2>5
    <3>2. put2[s] = Append(put[s], f)
      BY <1>2, <2>5, <2>6
    <3> QED
      BY <3>1, <3>2
  <2>8. taken2 = taken
    BY <1>2, <1>5
  <2>9. f \in StreamEvents
    <3>1. f \in [type : {"PLAY"}, game : Nat, seq : Nat, kind : {"ROLL", "MOVE"}, last : BOOLEAN]
          /\ MaxEvents \in Nat
      BY <2>1, ConstantsAssumption DEF Plays
    <3> QED
      BY <2>1, <3>1 DEF StreamEvents
  <2>10. \E e \in StreamEvents : put2 = [put EXCEPT ![s] = Append(put[s], e)]
    BY <2>6, <2>9, Zenon
  <2>11. Stream!Put(s)
    BY <1>2, <2>7, <2>8, <2>10, Zenon DEF Stream!Put, StreamEvents
  <2> QED
    BY <2>5, <2>11 DEF Stream!Next
<1> QED
  BY <1>3, <1>4, <1>5 DEF StreamMoves, Takes

\* "Strict order of events by seq": whatever is delayed, passes other frames or
\* comes twice, the board of GameManager gets the events of its peer one after
\* the other, as long as no invitation comes again to a game already played.
THEOREM EventsInOrder == Spec /\ [][FreshInvites]_vars => HeardInOrder
<1>1. Init => StreamInv /\ Stream!Init
  BY StreamInit
<1>2. ASSUME Sane, StreamInv, [Next]_vars, [FreshInvites]_vars
      PROVE  StreamInv' /\ [Stream!Next]_(Stream!vars)
  <2>1. CASE Next /\ FreshInvites
    <3>1. StreamInv' /\ StreamMoves
      BY <1>2, <2>1, StreamStep
    <3> QED
      BY <1>2, <3>1, StreamSteps
  <2>2. CASE UNCHANGED vars
    <3>1. StreamInv'
      BY <1>2, <2>2 DEF vars, StreamInv, Story, PlaysUnderWay, Paired, Claim, Under, Follows, Played
    <3>2. UNCHANGED Stream!vars
      BY <2>2 DEF vars, Stream!vars
    <3> QED
      BY <3>1, <3>2
  <2> QED
    BY <1>2, <2>1, <2>2
<1> QED
  BY <1>1, <1>2, SaneAlways, PTL DEF Spec, HeardInOrder, Stream!Spec

-----------------------------------------------------------------------------
(* Every step is a handler of one player: its record becomes r, what it     *)
(* sends goes to d, and N is the network without the frame it has read.     *)

Alone(p, d, r) ==
  \/ /\ d \in Players /\ games < MaxGames /\ games' = games + 1 /\ played' = played
     /\ Proposes(gm[p], r, d, games + 1)
  \/ /\ d = gm[p].peer /\ UNCHANGED <<games, played>>
     /\ \E die \in Dice(gm[p]) : Accepts(gm[p], r, die)
  \/ d = Nobody /\ UNCHANGED <<games, played>> /\ Declines(gm[p], r)
  \/ d = gm[p].peer /\ UNCHANGED <<games, played>> /\ Leaves(gm[p], r)
  \/ /\ d = gm[p].peer /\ games' = games
     /\ \E last \in BOOLEAN : \E f :
          /\ Taps(gm[p], r, f, last)
          /\ played' = [played EXCEPT ![gm[p].game][gm[p].peer] = Append(@, f)]
  \/ d = Nobody /\ UNCHANGED <<games, played>> /\ Shows(gm[p], r)

Reads(p, d, r, N, q, i, again, die, f) ==
  /\ d = gm[p].peer /\ UNCHANGED <<games, played>> /\ f.game \in 1..games
  /\ Receives(p, q, i, again, die, f, r, N, Plays)

Turn(p, d, r, N) ==
  /\ Becomes(p, d, r, N) /\ Sound(p, r, 1..games') /\ NetOk(N, 1..games')
  /\ \/ N = net /\ repeats' = repeats /\ Alone(p, d, r)
     \/ \E q \in Players \ {p} :
          \E i \in 1..Len(net[q][p]), again \in BOOLEAN, die \in Dice(gm[p]), f \in Frames :
            Reads(p, d, r, N, q, i, again, die, f)

LEMMA Turns ==
  ASSUME Sane, Next
  PROVE  \E p \in Players : \E d \in People \ {p} : \E r, N : Turn(p, d, r, N)
<1> DEFINE Goal == \E p \in Players : \E d \in People \ {p} : \E r, N : Turn(p, d, r, N)
<1>1. PICK G : G = 1..games
  OBVIOUS
<1>2. /\ games \in Nat /\ G \in SUBSET (Nat \ {0}) /\ NetOk(net, G)
      /\ \A p \in Players : /\ Sound(p, gm[p], G) /\ Resting(gm[p]) /\ Record(gm[p])
                            /\ gm[p].me = p /\ gm[p].peer \in People \ {p}
  BY <1>1 DEF Sane, Sound, Typed
<1>3. Nobody \notin Players
  BY ConstantsAssumption
<1>4. ASSUME NEW p \in Players, NEW q \in Players, SendInvite(p, q) PROVE Goal
  <2>1. /\ p # q /\ games < MaxGames /\ games' = games + 1 /\ UNCHANGED <<played, repeats>>
        /\ \E r : Proposes(gm[p], r, q, games + 1) /\ Becomes(p, q, r, net)
    BY <1>2, <1>4, ProposeOutcome
  <2>2. PICK r : Proposes(gm[p], r, q, games + 1) /\ Becomes(p, q, r, net)
    BY <2>1
  <2>3. PICK H : H = 1..games'
    OBVIOUS
  <2>4. G \subseteq H /\ games + 1 \in H \ {0} /\ H \in SUBSET Nat
    BY <1>1, <1>2, <2>1, <2>3
  <2>5. Sound(p, gm[p], H)
    BY <1>2, <2>4, SoundMore
  <2>6. Sound(p, r, H)
    BY <2>1, <2>2, <2>4, <2>5, SoundProposes
  <2>7. NetOk(net, H)
    BY <1>2, <2>4 DEF NetOk
  <2>8. Turn(p, q, r, net)
    BY <2>1, <2>2, <2>3, <2>6, <2>7 DEF Turn, Alone
  <2> QED
    BY <2>1, <2>8 DEF People
<1>5. ASSUME NEW p \in Players, AcceptInvite(p) PROVE Goal
  <2>1. /\ UNCHANGED <<games, played, repeats>>
        /\ \E die \in Dice(gm[p]) : \E r : Accepts(gm[p], r, die) /\ Becomes(p, gm[p].peer, r, net)
    BY <1>2, <1>5, AcceptOutcome
  <2>2. PICK die \in Dice(gm[p]) : \E r : Accepts(gm[p], r, die) /\ Becomes(p, gm[p].peer, r, net)
    BY <2>1
  <2>3. PICK r : Accepts(gm[p], r, die) /\ Becomes(p, gm[p].peer, r, net)
    BY <2>2
  <2>4. Sound(p, r, G)
    BY <1>2, <2>3, DiceNat, SoundAccepts
  <2>5. Turn(p, gm[p].peer, r, net)
    BY <1>1, <1>2, <2>1, <2>3, <2>4 DEF Turn, Alone
  <2> QED
    BY <1>2, <2>5
<1>6. ASSUME NEW p \in Players, DeclineInvite(p) PROVE Goal
  <2>1. PICK r : UNCHANGED <<games, played, repeats>> /\ Declines(gm[p], r) /\ Becomes(p, Nobody, r, net)
    BY <1>2, <1>6, DeclineOutcome
  <2>2. Sound(p, r, G)
    BY <1>2, <2>1, SoundLeaves
  <2>3. Turn(p, Nobody, r, net)
    BY <1>1, <1>2, <2>1, <2>2 DEF Turn, Alone
  <2> QED
    BY <1>3, <2>3 DEF People
<1>7. ASSUME NEW p \in Players, Leave(p) PROVE Goal
  <2>1. PICK r : UNCHANGED <<games, played, repeats>> /\ Leaves(gm[p], r) /\ Becomes(p, gm[p].peer, r, net)
    BY <1>2, <1>7, LeaveOutcome
  <2>2. Sound(p, r, G)
    BY <1>2, <2>1, SoundLeaves
  <2>3. Turn(p, gm[p].peer, r, net)
    BY <1>1, <1>2, <2>1, <2>2 DEF Turn, Alone
  <2> QED
    BY <1>2, <2>3
<1>8. ASSUME NEW p \in Players, Tap(p) PROVE Goal
  <2>1. /\ UNCHANGED <<games, repeats>>
        /\ \E last \in BOOLEAN : \E r, f :
             /\ Taps(gm[p], r, f, last) /\ Becomes(p, gm[p].peer, r, net)
             /\ played' = [played EXCEPT ![gm[p].game][gm[p].peer] = Append(@, f)]
    BY <1>2, <1>8, TapOutcome
  <2>2. PICK last \in BOOLEAN : \E r, f :
          /\ Taps(gm[p], r, f, last) /\ Becomes(p, gm[p].peer, r, net)
          /\ played' = [played EXCEPT ![gm[p].game][gm[p].peer] = Append(@, f)]
    BY <2>1
  <2>3. PICK r, f : /\ Taps(gm[p], r, f, last) /\ Becomes(p, gm[p].peer, r, net)
                    /\ played' = [played EXCEPT ![gm[p].game][gm[p].peer] = Append(@, f)]
    BY <2>2
  <2>4. Sound(p, r, G)
    BY <1>2, <2>3, SoundTaps
  <2>5. Alone(p, gm[p].peer, r)
    BY <2>1, <2>3 DEF Alone
  <2>6. Turn(p, gm[p].peer, r, net)
    BY <1>1, <1>2, <2>1, <2>3, <2>4, <2>5 DEF Turn
  <2> QED
    BY <1>2, <2>6
<1>9. ASSUME NEW p \in Players, NEW q \in Players, Receive(p, q) PROVE Goal
  <2>1. gm[p].eventBuffer \subseteq Plays /\ gm[p].openingQueue \in Seq(Plays)
    BY <1>2 DEF Sound, Typed
  <2>2. ASSUME NEW i \in 1..Len(net[q][p]), net[q][p][i].type = "PLAY"
        PROVE  net[q][p][i] \in Plays
    <3>1. net[q][p][i] \in Frames
      BY <1>2 DEF NetOk
    <3> QED
      BY <2>2, <3>1 DEF Frames
  <2>3. /\ UNCHANGED <<games, played>> /\ p # q
        /\ \E i \in 1..Len(net[q][p]), again \in BOOLEAN, die \in Dice(gm[p]), f \in Frames :
             \E r, N : /\ Receives(p, q, i, again, die, f, r, N, Plays)
                       /\ f.game \in 1..games /\ NetOk(N, 1..games)
                       /\ Becomes(p, gm[p].peer, r, N)
    BY <1>9, <2>1, <2>2, ReceiveOutcome
  <2>4. PICK i \in 1..Len(net[q][p]), again \in BOOLEAN, die \in Dice(gm[p]), f \in Frames :
             \E r, N : /\ Receives(p, q, i, again, die, f, r, N, Plays)
                       /\ f.game \in 1..games /\ NetOk(N, 1..games)
                       /\ Becomes(p, gm[p].peer, r, N)
    BY <2>3
  <2>5. PICK r, N : /\ Receives(p, q, i, again, die, f, r, N, Plays)
                    /\ f.game \in G /\ NetOk(N, G) /\ Becomes(p, gm[p].peer, r, N)
    BY <1>1, <2>4
  <2>6. Handled(gm[p], r, q, f, die, Plays) /\ f = net[q][p][i]
    BY <2>5 DEF Receives
  <2>7. die \in Nat /\ q \in Players \ {p} /\ Plays \in SUBSET Plays
    BY <2>3, DiceNat
  <2>8. f.type = "PLAY" /\ Mine(gm[p], q, f) => f \in Plays
    BY <2>2, <2>6
  <2>9. Sound(p, r, G)
    BY <1>2, <2>5, <2>6, <2>7, <2>8, SoundHandled
  <2>10. Reads(p, gm[p].peer, r, N, q, i, again, die, f)
    BY <1>1, <2>3, <2>5 DEF Reads
  <2>11. Turn(p, gm[p].peer, r, N)
    BY <1>1, <2>3, <2>5, <2>7, <2>9, <2>10 DEF Turn
  <2> QED
    BY <1>2, <2>11
<1>10. ASSUME NEW p \in Players, ScreenOpens(p) \/ ScreenCloses(p) PROVE Goal
  <2>1. gm = [q \in Players |-> gm[q]]
    BY DEF Sane, PerPlayer
  <2>2. /\ UNCHANGED <<net, games, played, heard, accused, repeats>>
        /\ \E r : Shows(gm[p], r) /\ gm' = [gm EXCEPT ![p] = r]
    BY <1>2, <1>10, <2>1, ScreenOutcome
  <2>3. PICK r : Shows(gm[p], r) /\ gm' = [gm EXCEPT ![p] = r]
    BY <2>2
  <2>4. Sound(p, r, G) /\ Resting(r) /\ Record(r)
    BY <1>2, <2>3, SoundShows DEF Sound
  <2>5. [r EXCEPT !.out = <<>>, !.given = <<>>, !.accuses = FALSE] = r
    <3>1. PICK y : y = [r EXCEPT !.out = <<>>, !.given = <<>>, !.accuses = FALSE]
      OBVIOUS
    <3>2. Record(y) /\ \A x \in Fields : y[x] = r[x]
      BY <2>4, <3>1, RestedIs, ZenonT(30) DEF Rested, Only, Resting, Fields
    <3> QED
      BY <2>4, <3>1, <3>2 DEF Record
  <2>6. Becomes(p, Nobody, r, net)
    BY <2>2, <2>3, <2>4, <2>5 DEF Becomes, Resting
  <2>7. Turn(p, Nobody, r, net)
    BY <1>1, <1>2, <2>2, <2>3, <2>4, <2>6 DEF Turn, Alone
  <2> QED
    BY <1>3, <2>7 DEF People
<1> QED
  BY <1>4, <1>5, <1>6, <1>7, <1>8, <1>9, <1>10 DEF Next
=============================================================================
