---------------------------- MODULE ScreenProofs -----------------------------
(***************************************************************************)
(* Proofs about Inbox, for any texts, copies, Activities and faults and any *)
(* window that obeys InboxAssumption, and about Screen: what holds of texts *)
(* holds beside files, and what MediaTransfer promises holds on a screen    *)
(* that comes and goes.                                                     *)
(***************************************************************************)
EXTENDS Screen, FiniteSetTheorems, TLAPS

\* A copy that will add a row, and a text that has one or will get one.
Coming(e) == e \in inserting \/ stage[e] = "fresh"
Kept(m) == rows[m] # 0 \/ \E e \in Copies : Text(e) = m /\ Coming(e)

\* What inserts or acknowledges a copy is started by its last step.
Settled == \A e \in Copies : e \in inserting \/ e \in acking => stage[e] = "done"

\* Nothing has become of a text that was not transmitted.
NotYetSent ==
  /\ sending \subseteq {m \in Messages : own[m] # "none"}
  /\ \A m \in Messages : own[m] = "none" \/ m \in sending =>
       /\ seen[m] = 0 /\ rows[m] = 0
       /\ \A e \in Copies : Text(e) = m => stage[e] = "unsent"

\* The text of a handshake travels in one copy, which is inserted at once.
FirstComesOnce ==
  \A e \in Copies : Text(e) \in First =>
    /\ stage[e] \notin {"marking", "fresh", "repeat"}
    /\ stage[e] # "unsent" => e = <<Text(e), 1>>
    /\ stage[e] \in {"wire", "reading", "pending", "posted"} => rows[Text(e)] = 0

\* The clocks agree well enough, and a coroutine that marks a nonce found the
\* text young enough.
ClocksAgree ==
  /\ \A m \in Messages : ts[m] <= clock + MaxSkew
  /\ \A m \in Messages : seen[m] # 0 => ts[m] <= seen[m] + MaxSkew
  /\ \A e \in Copies : stage[e] = "marking" => ~Stale(Text(e))

\* A text that was kept has its nonce, unless it is too old for a repetition.
NonceKept == \A m \in Messages \ First : Kept(m) /\ seen[m] = 0 => Stale(m)

\* At most one copy adds a row.
RowsOnce ==
  \A m \in Messages :
    /\ \A e, f \in Copies : Text(e) = m /\ Text(f) = m /\ Coming(e) /\ Coming(f) => e = f
    /\ rows[m] # 0 => rows[m] = 1 /\ \A e \in Copies : Text(e) = m => ~Coming(e)

InboxInv ==
  /\ TypeOK /\ Settled /\ NotYetSent /\ FirstComesOnce
  /\ ClocksAgree /\ NonceKept /\ RowsOnce

\* Whatever speaks of a text at the recipient was caused by one that is kept.
ReceiptsHonest ==
  ~disturbed =>
    /\ \A m \in Messages :
         seen[m] # 0 \/ m \in receipts \cup updating \/ own[m] = "DELIVERED" => Kept(m)
    /\ \A e \in Copies : e \in acking \/ stage[e] = "repeat" => Kept(Text(e))

\* The lane works on one event, and only that one can be queued too late.
OneWaits ==
  /\ \A e, f \in Reading : e = f
  /\ activityHandler # None => \A e, f \in Reading \cup Pending : e = f

LEMMA CopyFacts ==
  /\ \A e \in Copies : Text(e) \in Messages
  /\ \A m \in Messages, c \in 1..MaxCopies : <<m, c>> \in Copies /\ Text(<<m, c>>) = m
  /\ \A m \in Messages : <<m, 1>> \in Copies /\ Text(<<m, 1>>) = m
BY InboxAssumption DEF InboxAssumption, Copies, Text

LEMMA InitInv == Init => InboxInv /\ ReceiptsHonest /\ OneWaits
<1> SUFFICES ASSUME Init PROVE InboxInv /\ ReceiptsHonest /\ OneWaits
  OBVIOUS
<1>1. TypeOK
  <2>1. /\ 0 \in 0..Horizon /\ 1 \in 1..Horizon /\ 0 \in 0..MaxFaults
        /\ 0 \in 0..Horizon + MaxSkew
    BY InboxAssumption DEF InboxAssumption
  <2> QED
    BY <2>1 DEF Init, TypeOK, Volatile
<1>2. Settled /\ NotYetSent /\ FirstComesOnce
  BY CopyFacts DEF Init, Settled, NotYetSent, FirstComesOnce
<1>3. ClocksAgree
  BY InboxAssumption, CopyFacts DEF InboxAssumption, Init, ClocksAgree
<1>4. NonceKept /\ RowsOnce
  BY CopyFacts DEF Init, NonceKept, RowsOnce, Kept, Coming
<1>5. ReceiptsHonest
  BY CopyFacts DEF Init, ReceiptsHonest, Kept, Coming
<1>6. OneWaits
  BY DEF Init, OneWaits, Reading, Pending
<1> QED
  BY <1>1, <1>2, <1>3, <1>4, <1>5, <1>6 DEF InboxInv

LEMMA TypeStep ==
  ASSUME TypeOK, [Next]_vars
  PROVE  TypeOK'
<1> USE InboxAssumption, CopyFacts DEF InboxAssumption
<1>1. CASE UNCHANGED vars
  BY <1>1 DEF TypeOK, vars, serviceVars, jobVars, dbVars, senderVars
<1>2. ASSUME NEW m \in Messages, SendToPeer(m) PROVE TypeOK'
  BY <1>2 DEF SendToPeer, TypeOK, serviceVars, jobVars, dbVars, senderVars
<1>3. ASSUME NEW m \in Messages, StoreOwn(m) PROVE TypeOK'
  BY <1>3 DEF StoreOwn, TypeOK, serviceVars, jobVars, dbVars, senderVars
<1>4. ASSUME NEW m \in Messages, NoteId(m) PROVE TypeOK'
  BY <1>4 DEF NoteId, TypeOK, serviceVars, jobVars, dbVars, senderVars
<1>5. ASSUME NEW m \in Messages, Transmit(m) PROVE TypeOK'
  BY <1>5 DEF Transmit, TypeOK, Volatile, serviceVars, jobVars, dbVars, senderVars
<1>6. ASSUME NEW m \in Messages, MarkDelivered(m) PROVE TypeOK'
  BY <1>6 DEF MarkDelivered, TypeOK, serviceVars, jobVars, dbVars, senderVars
<1>7. ASSUME NEW m \in Messages, UpdateStatus(m) PROVE TypeOK'
  BY <1>7 DEF UpdateStatus, TypeOK, serviceVars, jobVars, dbVars, senderVars
<1>8. CASE SenderGone
  BY <1>8 DEF SenderGone, TypeOK, serviceVars, jobVars, dbVars, senderVars
<1>9. ASSUME NEW i \in Activities, Create(i) PROVE TypeOK'
  BY <1>9 DEF Create, TypeOK, serviceVars, jobVars, dbVars, senderVars
<1>10. ASSUME NEW i \in Activities, RegisterActivity(i) PROVE TypeOK'
  BY <1>10 DEF RegisterActivity, TypeOK, Volatile, serviceVars, jobVars, dbVars, senderVars, Pending
<1>11. ASSUME NEW i \in Activities, Destroy(i) PROVE TypeOK'
  BY <1>11 DEF Destroy, TypeOK, Volatile, serviceVars, jobVars, dbVars, senderVars, OfActivity
<1>12. CASE Kill
  <2>1. screen' \in [Activities -> {"none", "created", "registered"}]
    BY <1>12 DEF Kill
  <2>2. stage' \in [Copies -> Volatile \cup {"unsent", "wire", "refused", "done", "lost"}]
    BY <1>12 DEF Kill, TypeOK
  <2>3. /\ activityHandler' = None /\ networkUp' = FALSE /\ disturbed' = TRUE
        /\ faults' \in 0..MaxFaults /\ inserting' = {} /\ acking' = {}
    BY <1>12 DEF Kill, TypeOK
  <2>4. UNCHANGED <<owner, seen, rows, own, storing, noting, sending, updating, nonceToIdMap, ts, receipts, clock>>
    BY <1>12 DEF Kill, dbVars, senderVars
  <2> QED
    BY <2>1, <2>2, <2>3, <2>4 DEF TypeOK
<1>13. ASSUME NEW e \in Copies, Arrive(e) PROVE TypeOK'
  BY <1>13 DEF Arrive, TypeOK, Volatile, serviceVars, jobVars, dbVars, senderVars
<1>14. ASSUME NEW e \in Copies, Queue(e) PROVE TypeOK'
  BY <1>14 DEF Queue, TypeOK, Volatile, serviceVars, jobVars, dbVars, senderVars
<1>15. ASSUME NEW e \in Copies, HandleDecrypted(e) PROVE TypeOK'
  BY <1>15 DEF HandleDecrypted, TypeOK, Volatile, serviceVars, jobVars, dbVars, senderVars
<1>16. ASSUME NEW e \in Copies, HandleInitial(e) PROVE TypeOK'
  BY <1>16 DEF HandleInitial, TypeOK, Volatile, serviceVars, jobVars, dbVars, senderVars
<1>17. ASSUME NEW e \in Copies, MarkSeen(e) PROVE TypeOK'
  <2>1. stage' \in [Copies -> Volatile \cup {"unsent", "wire", "refused", "done", "lost"}]
    BY <1>17 DEF MarkSeen, TypeOK, Volatile
  <2>2. seen' \in [Messages -> 0..Horizon]
    BY <1>17 DEF MarkSeen, TypeOK
  <2> QED
    BY <1>17, <2>1, <2>2 DEF MarkSeen, TypeOK, serviceVars, jobVars, dbVars, senderVars
<1>18. ASSUME NEW e \in Copies, Show(e) PROVE TypeOK'
  BY <1>18 DEF Show, TypeOK, Volatile, serviceVars, jobVars, dbVars, senderVars
<1>19. ASSUME NEW e \in Copies, Insert(e) PROVE TypeOK'
  BY <1>19 DEF Insert, TypeOK, serviceVars, jobVars, dbVars, senderVars
<1>20. ASSUME NEW e \in Copies, SendAck(e) PROVE TypeOK'
  BY <1>20 DEF SendAck, TypeOK, serviceVars, jobVars, dbVars, senderVars
<1>21. ASSUME NEW m \in Messages, NEW c \in 1..MaxCopies, Redeliver(m, c) PROVE TypeOK'
  BY <1>21 DEF Redeliver, TypeOK, Volatile, serviceVars, jobVars, dbVars, senderVars
<1>22. CASE Purge
  BY <1>22 DEF Purge, TypeOK, serviceVars, jobVars, dbVars, senderVars
<1>23. CASE Tick
  BY <1>23 DEF Tick, TypeOK, serviceVars, jobVars, dbVars, senderVars
<1> QED
  BY <1>1, <1>2, <1>3, <1>4, <1>5, <1>6, <1>7, <1>8, <1>9, <1>10, <1>11, <1>12, <1>13, <1>14, <1>15, <1>16, <1>17, <1>18, <1>19, <1>20, <1>21, <1>22, <1>23 DEF Next

LEMMA SettledStep ==
  ASSUME InboxInv, [Next]_vars
  PROVE  Settled'
<1> USE CopyFacts DEF InboxInv
<1>1. CASE UNCHANGED vars
  BY <1>1 DEF TypeOK, Settled, vars, serviceVars, jobVars, dbVars, senderVars
<1>2. ASSUME NEW m \in Messages, SendToPeer(m) PROVE Settled'
  BY <1>2 DEF SendToPeer, TypeOK, Settled, serviceVars, jobVars, dbVars, senderVars
<1>3. ASSUME NEW m \in Messages, StoreOwn(m) PROVE Settled'
  BY <1>3 DEF StoreOwn, TypeOK, Settled, serviceVars, jobVars, dbVars, senderVars
<1>4. ASSUME NEW m \in Messages, NoteId(m) PROVE Settled'
  BY <1>4 DEF NoteId, TypeOK, Settled, serviceVars, jobVars, dbVars, senderVars
<1>5. ASSUME NEW m \in Messages, Transmit(m) PROVE Settled'
  <2>1. stage[<<m, 1>>] = "unsent"
    BY <1>5 DEF Transmit, NotYetSent
  <2>2. stage' = [stage EXCEPT ![<<m, 1>>] = "wire"] /\ sending' = sending \ {m}
    BY <1>5 DEF Transmit
  <2>3. inserting' = inserting /\ acking' = acking
    BY <1>5 DEF Transmit
  <2> QED
    BY <2>1, <2>2, <2>3 DEF TypeOK, Settled
<1>6. ASSUME NEW m \in Messages, MarkDelivered(m) PROVE Settled'
  BY <1>6 DEF MarkDelivered, TypeOK, Settled, serviceVars, jobVars, dbVars, senderVars
<1>7. ASSUME NEW m \in Messages, UpdateStatus(m) PROVE Settled'
  BY <1>7 DEF UpdateStatus, TypeOK, Settled, serviceVars, jobVars, dbVars, senderVars
<1>8. CASE SenderGone
  BY <1>8 DEF SenderGone, TypeOK, Settled, serviceVars, jobVars, dbVars, senderVars
<1>9. ASSUME NEW i \in Activities, Create(i) PROVE Settled'
  BY <1>9 DEF Create, TypeOK, Settled, serviceVars, jobVars, dbVars, senderVars
<1>10. ASSUME NEW i \in Activities, RegisterActivity(i) PROVE Settled'
  BY <1>10 DEF RegisterActivity, Pending, TypeOK, Settled, serviceVars, jobVars, dbVars, senderVars
<1>11. ASSUME NEW i \in Activities, Destroy(i) PROVE Settled'
  BY <1>11 DEF Destroy, OfActivity, Volatile, TypeOK, Settled, serviceVars, jobVars, dbVars, senderVars
<1>12. CASE Kill
  BY <1>12 DEF Kill, Volatile, TypeOK, Settled, serviceVars, jobVars, dbVars, senderVars
<1>13. ASSUME NEW e \in Copies, Arrive(e) PROVE Settled'
  BY <1>13 DEF Arrive, TypeOK, Settled, serviceVars, jobVars, dbVars, senderVars
<1>14. ASSUME NEW e \in Copies, Queue(e) PROVE Settled'
  BY <1>14 DEF Queue, TypeOK, Settled, serviceVars, jobVars, dbVars, senderVars
<1>15. ASSUME NEW e \in Copies, HandleDecrypted(e) PROVE Settled'
  BY <1>15 DEF HandleDecrypted, TypeOK, Settled, serviceVars, jobVars, dbVars, senderVars
<1>16. ASSUME NEW e \in Copies, HandleInitial(e) PROVE Settled'
  BY <1>16 DEF HandleInitial, TypeOK, Settled, serviceVars, jobVars, dbVars, senderVars
<1>17. ASSUME NEW e \in Copies, MarkSeen(e) PROVE Settled'
  BY <1>17 DEF MarkSeen, TypeOK, Settled, serviceVars, jobVars, dbVars, senderVars
<1>18. ASSUME NEW e \in Copies, Show(e) PROVE Settled'
  BY <1>18 DEF Show, TypeOK, Settled, serviceVars, jobVars, dbVars, senderVars
<1>19. ASSUME NEW e \in Copies, Insert(e) PROVE Settled'
  BY <1>19 DEF Insert, TypeOK, Settled, serviceVars, jobVars, dbVars, senderVars
<1>20. ASSUME NEW e \in Copies, SendAck(e) PROVE Settled'
  BY <1>20 DEF SendAck, TypeOK, Settled, serviceVars, jobVars, dbVars, senderVars
<1>21. ASSUME NEW m \in Messages, NEW c \in 1..MaxCopies, Redeliver(m, c) PROVE Settled'
  BY <1>21 DEF Redeliver, TypeOK, Settled, serviceVars, jobVars, dbVars, senderVars
<1>22. CASE Purge
  BY <1>22 DEF Purge, TypeOK, Settled, serviceVars, jobVars, dbVars, senderVars
<1>23. CASE Tick
  BY <1>23 DEF Tick, TypeOK, Settled, serviceVars, jobVars, dbVars, senderVars
<1> QED
  BY <1>1, <1>2, <1>3, <1>4, <1>5, <1>6, <1>7, <1>8, <1>9, <1>10, <1>11, <1>12, <1>13, <1>14, <1>15, <1>16, <1>17, <1>18, <1>19, <1>20, <1>21, <1>22, <1>23 DEF Next

LEMMA NotYetSentStep ==
  ASSUME InboxInv, [Next]_vars
  PROVE  NotYetSent'
<1> USE CopyFacts DEF InboxInv
<1>1. CASE UNCHANGED vars
  BY <1>1 DEF TypeOK, NotYetSent, vars, serviceVars, jobVars, dbVars, senderVars
<1>2. ASSUME NEW m \in Messages, SendToPeer(m) PROVE NotYetSent'
  BY <1>2 DEF SendToPeer, TypeOK, NotYetSent, serviceVars, jobVars, dbVars, senderVars
<1>3. ASSUME NEW m \in Messages, StoreOwn(m) PROVE NotYetSent'
  BY <1>3 DEF StoreOwn, TypeOK, NotYetSent, serviceVars, jobVars, dbVars, senderVars
<1>4. ASSUME NEW m \in Messages, NoteId(m) PROVE NotYetSent'
  BY <1>4 DEF NoteId, TypeOK, NotYetSent, serviceVars, jobVars, dbVars, senderVars
<1>5. ASSUME NEW m \in Messages, Transmit(m) PROVE NotYetSent'
  <2>1. own[m] # "none"
    BY <1>5 DEF Transmit, NotYetSent
  <2>2. stage' = [stage EXCEPT ![<<m, 1>>] = "wire"] /\ sending' = sending \ {m}
    BY <1>5 DEF Transmit
  <2>3. UNCHANGED <<own, seen, rows>>
    BY <1>5 DEF Transmit, dbVars
  <2> QED
    BY <2>1, <2>2, <2>3 DEF TypeOK, NotYetSent
<1>6. ASSUME NEW m \in Messages, MarkDelivered(m) PROVE NotYetSent'
  BY <1>6 DEF MarkDelivered, TypeOK, NotYetSent, serviceVars, jobVars, dbVars, senderVars
<1>7. ASSUME NEW m \in Messages, UpdateStatus(m) PROVE NotYetSent'
  BY <1>7 DEF UpdateStatus, TypeOK, NotYetSent, serviceVars, jobVars, dbVars, senderVars
<1>8. CASE SenderGone
  BY <1>8 DEF SenderGone, TypeOK, NotYetSent, serviceVars, jobVars, dbVars, senderVars
<1>9. ASSUME NEW i \in Activities, Create(i) PROVE NotYetSent'
  BY <1>9 DEF Create, TypeOK, NotYetSent, serviceVars, jobVars, dbVars, senderVars
<1>10. ASSUME NEW i \in Activities, RegisterActivity(i) PROVE NotYetSent'
  BY <1>10 DEF RegisterActivity, Pending, TypeOK, NotYetSent, serviceVars, jobVars, dbVars, senderVars
<1>11. ASSUME NEW i \in Activities, Destroy(i) PROVE NotYetSent'
  BY <1>11 DEF Destroy, OfActivity, Volatile, TypeOK, NotYetSent, serviceVars, jobVars, dbVars, senderVars
<1>12. CASE Kill
  BY <1>12 DEF Kill, Volatile, TypeOK, NotYetSent, serviceVars, jobVars, dbVars, senderVars
<1>13. ASSUME NEW e \in Copies, Arrive(e) PROVE NotYetSent'
  BY <1>13 DEF Arrive, TypeOK, NotYetSent, serviceVars, jobVars, dbVars, senderVars
<1>14. ASSUME NEW e \in Copies, Queue(e) PROVE NotYetSent'
  BY <1>14 DEF Queue, TypeOK, NotYetSent, serviceVars, jobVars, dbVars, senderVars
<1>15. ASSUME NEW e \in Copies, HandleDecrypted(e) PROVE NotYetSent'
  BY <1>15 DEF HandleDecrypted, TypeOK, NotYetSent, serviceVars, jobVars, dbVars, senderVars
<1>16. ASSUME NEW e \in Copies, HandleInitial(e) PROVE NotYetSent'
  BY <1>16 DEF HandleInitial, TypeOK, NotYetSent, serviceVars, jobVars, dbVars, senderVars
<1>17. ASSUME NEW e \in Copies, MarkSeen(e) PROVE NotYetSent'
  BY <1>17 DEF MarkSeen, TypeOK, NotYetSent, serviceVars, jobVars, dbVars, senderVars
<1>18. ASSUME NEW e \in Copies, Show(e) PROVE NotYetSent'
  BY <1>18 DEF Show, TypeOK, NotYetSent, serviceVars, jobVars, dbVars, senderVars
<1>19. ASSUME NEW e \in Copies, Insert(e) PROVE NotYetSent'
  BY <1>19 DEF Insert, TypeOK, Settled, NotYetSent, serviceVars, jobVars, dbVars, senderVars
<1>20. ASSUME NEW e \in Copies, SendAck(e) PROVE NotYetSent'
  BY <1>20 DEF SendAck, TypeOK, NotYetSent, serviceVars, jobVars, dbVars, senderVars
<1>21. ASSUME NEW m \in Messages, NEW c \in 1..MaxCopies, Redeliver(m, c) PROVE NotYetSent'
  <2>0. <<m, c - 1>> \in Copies /\ Text(<<m, c - 1>>) = m
    BY <1>21, InboxAssumption DEF InboxAssumption, Redeliver, Copies, Text
  <2>1. own[m] # "none" /\ m \notin sending
    BY <1>21, <2>0 DEF Redeliver, NotYetSent
  <2> QED
    BY <1>21, <2>1 DEF Redeliver, TypeOK, NotYetSent, serviceVars, jobVars, dbVars, senderVars
<1>22. CASE Purge
  BY <1>22 DEF Purge, TypeOK, NotYetSent, serviceVars, jobVars, dbVars, senderVars
<1>23. CASE Tick
  BY <1>23 DEF Tick, TypeOK, NotYetSent, serviceVars, jobVars, dbVars, senderVars
<1> QED
  BY <1>1, <1>2, <1>3, <1>4, <1>5, <1>6, <1>7, <1>8, <1>9, <1>10, <1>11, <1>12, <1>13, <1>14, <1>15, <1>16, <1>17, <1>18, <1>19, <1>20, <1>21, <1>22, <1>23 DEF Next

LEMMA FirstStep ==
  ASSUME InboxInv, [Next]_vars
  PROVE  FirstComesOnce'
<1> USE CopyFacts DEF InboxInv
<1>1. CASE UNCHANGED vars
  BY <1>1 DEF TypeOK, FirstComesOnce, vars, serviceVars, jobVars, dbVars, senderVars
<1>2. ASSUME NEW m \in Messages, SendToPeer(m) PROVE FirstComesOnce'
  BY <1>2 DEF SendToPeer, TypeOK, FirstComesOnce, serviceVars, jobVars, dbVars, senderVars
<1>3. ASSUME NEW m \in Messages, StoreOwn(m) PROVE FirstComesOnce'
  BY <1>3 DEF StoreOwn, TypeOK, FirstComesOnce, serviceVars, jobVars, dbVars, senderVars
<1>4. ASSUME NEW m \in Messages, NoteId(m) PROVE FirstComesOnce'
  BY <1>4 DEF NoteId, TypeOK, FirstComesOnce, serviceVars, jobVars, dbVars, senderVars
<1>5. ASSUME NEW m \in Messages, Transmit(m) PROVE FirstComesOnce'
  <2>1. stage[<<m, 1>>] = "unsent"
    BY <1>5 DEF Transmit, NotYetSent
  <2>2. stage' = [stage EXCEPT ![<<m, 1>>] = "wire"] /\ sending' = sending \ {m}
    BY <1>5 DEF Transmit
  <2>3. rows' = rows /\ rows[m] = 0
    BY <1>5 DEF Transmit, dbVars, NotYetSent
  <2> QED
    BY <2>1, <2>2, <2>3 DEF TypeOK, FirstComesOnce
<1>6. ASSUME NEW m \in Messages, MarkDelivered(m) PROVE FirstComesOnce'
  BY <1>6 DEF MarkDelivered, TypeOK, FirstComesOnce, serviceVars, jobVars, dbVars, senderVars
<1>7. ASSUME NEW m \in Messages, UpdateStatus(m) PROVE FirstComesOnce'
  BY <1>7 DEF UpdateStatus, TypeOK, FirstComesOnce, serviceVars, jobVars, dbVars, senderVars
<1>8. CASE SenderGone
  BY <1>8 DEF SenderGone, TypeOK, FirstComesOnce, serviceVars, jobVars, dbVars, senderVars
<1>9. ASSUME NEW i \in Activities, Create(i) PROVE FirstComesOnce'
  BY <1>9 DEF Create, TypeOK, FirstComesOnce, serviceVars, jobVars, dbVars, senderVars
<1>10. ASSUME NEW i \in Activities, RegisterActivity(i) PROVE FirstComesOnce'
  BY <1>10 DEF RegisterActivity, Pending, TypeOK, FirstComesOnce, serviceVars, jobVars, dbVars, senderVars
<1>11. ASSUME NEW i \in Activities, Destroy(i) PROVE FirstComesOnce'
  BY <1>11 DEF Destroy, OfActivity, Volatile, TypeOK, FirstComesOnce, serviceVars, jobVars, dbVars, senderVars
<1>12. CASE Kill
  BY <1>12 DEF Kill, Volatile, TypeOK, FirstComesOnce, serviceVars, jobVars, dbVars, senderVars
<1>13. ASSUME NEW e \in Copies, Arrive(e) PROVE FirstComesOnce'
  BY <1>13 DEF Arrive, TypeOK, FirstComesOnce, serviceVars, jobVars, dbVars, senderVars
<1>14. ASSUME NEW e \in Copies, Queue(e) PROVE FirstComesOnce'
  BY <1>14 DEF Queue, TypeOK, FirstComesOnce, serviceVars, jobVars, dbVars, senderVars
<1>15. ASSUME NEW e \in Copies, HandleDecrypted(e) PROVE FirstComesOnce'
  BY <1>15 DEF HandleDecrypted, TypeOK, FirstComesOnce, serviceVars, jobVars, dbVars, senderVars
<1>16. ASSUME NEW e \in Copies, HandleInitial(e) PROVE FirstComesOnce'
  BY <1>16 DEF HandleInitial, TypeOK, FirstComesOnce, serviceVars, jobVars, dbVars, senderVars
<1>17. ASSUME NEW e \in Copies, MarkSeen(e) PROVE FirstComesOnce'
  BY <1>17 DEF MarkSeen, TypeOK, FirstComesOnce, serviceVars, jobVars, dbVars, senderVars
<1>18. ASSUME NEW e \in Copies, Show(e) PROVE FirstComesOnce'
  BY <1>18 DEF Show, TypeOK, FirstComesOnce, serviceVars, jobVars, dbVars, senderVars
<1>19. ASSUME NEW e \in Copies, Insert(e) PROVE FirstComesOnce'
  BY <1>19 DEF Insert, TypeOK, Settled, FirstComesOnce, serviceVars, jobVars, dbVars, senderVars
<1>20. ASSUME NEW e \in Copies, SendAck(e) PROVE FirstComesOnce'
  BY <1>20 DEF SendAck, TypeOK, FirstComesOnce, serviceVars, jobVars, dbVars, senderVars
<1>21. ASSUME NEW m \in Messages, NEW c \in 1..MaxCopies, Redeliver(m, c) PROVE FirstComesOnce'
  BY <1>21 DEF Redeliver, TypeOK, FirstComesOnce, serviceVars, jobVars, dbVars, senderVars
<1>22. CASE Purge
  BY <1>22 DEF Purge, TypeOK, FirstComesOnce, serviceVars, jobVars, dbVars, senderVars
<1>23. CASE Tick
  BY <1>23 DEF Tick, TypeOK, FirstComesOnce, serviceVars, jobVars, dbVars, senderVars
<1> QED
  BY <1>1, <1>2, <1>3, <1>4, <1>5, <1>6, <1>7, <1>8, <1>9, <1>10, <1>11, <1>12, <1>13, <1>14, <1>15, <1>16, <1>17, <1>18, <1>19, <1>20, <1>21, <1>22, <1>23 DEF Next

LEMMA ClocksStep ==
  ASSUME InboxInv, [Next]_vars
  PROVE  ClocksAgree'
<1> USE InboxAssumption, CopyFacts DEF InboxAssumption, InboxInv
<1>1. CASE UNCHANGED vars
  BY <1>1 DEF TypeOK, ClocksAgree, Stale, vars, serviceVars, jobVars, dbVars, senderVars
<1>2. ASSUME NEW m \in Messages, SendToPeer(m) PROVE ClocksAgree'
  BY <1>2 DEF SendToPeer, TypeOK, ClocksAgree, Stale, serviceVars, jobVars, dbVars, senderVars
<1>3. ASSUME NEW m \in Messages, StoreOwn(m) PROVE ClocksAgree'
  BY <1>3 DEF StoreOwn, TypeOK, ClocksAgree, Stale, serviceVars, jobVars, dbVars, senderVars
<1>4. ASSUME NEW m \in Messages, NoteId(m) PROVE ClocksAgree'
  BY <1>4 DEF NoteId, TypeOK, ClocksAgree, Stale, serviceVars, jobVars, dbVars, senderVars
<1>5. ASSUME NEW m \in Messages, Transmit(m) PROVE ClocksAgree'
  BY <1>5 DEF Transmit, TypeOK, ClocksAgree, NotYetSent, Stale, serviceVars, jobVars, dbVars, senderVars
<1>6. ASSUME NEW m \in Messages, MarkDelivered(m) PROVE ClocksAgree'
  BY <1>6 DEF MarkDelivered, TypeOK, ClocksAgree, Stale, serviceVars, jobVars, dbVars, senderVars
<1>7. ASSUME NEW m \in Messages, UpdateStatus(m) PROVE ClocksAgree'
  BY <1>7 DEF UpdateStatus, TypeOK, ClocksAgree, Stale, serviceVars, jobVars, dbVars, senderVars
<1>8. CASE SenderGone
  BY <1>8 DEF SenderGone, TypeOK, ClocksAgree, Stale, serviceVars, jobVars, dbVars, senderVars
<1>9. ASSUME NEW i \in Activities, Create(i) PROVE ClocksAgree'
  BY <1>9 DEF Create, TypeOK, ClocksAgree, Stale, serviceVars, jobVars, dbVars, senderVars
<1>10. ASSUME NEW i \in Activities, RegisterActivity(i) PROVE ClocksAgree'
  BY <1>10 DEF RegisterActivity, Pending, TypeOK, ClocksAgree, Stale, serviceVars, jobVars, dbVars, senderVars
<1>11. ASSUME NEW i \in Activities, Destroy(i) PROVE ClocksAgree'
  BY <1>11 DEF Destroy, OfActivity, Volatile, TypeOK, ClocksAgree, Stale, serviceVars, jobVars, dbVars, senderVars
<1>12. CASE Kill
  BY <1>12 DEF Kill, Volatile, TypeOK, ClocksAgree, Stale, serviceVars, jobVars, dbVars, senderVars
<1>13. ASSUME NEW e \in Copies, Arrive(e) PROVE ClocksAgree'
  BY <1>13 DEF Arrive, TypeOK, ClocksAgree, Stale, serviceVars, jobVars, dbVars, senderVars
<1>14. ASSUME NEW e \in Copies, Queue(e) PROVE ClocksAgree'
  BY <1>14 DEF Queue, TypeOK, ClocksAgree, Stale, serviceVars, jobVars, dbVars, senderVars
<1>15. ASSUME NEW e \in Copies, HandleDecrypted(e) PROVE ClocksAgree'
  BY <1>15 DEF HandleDecrypted, TypeOK, ClocksAgree, Stale, serviceVars, jobVars, dbVars, senderVars
<1>16. ASSUME NEW e \in Copies, HandleInitial(e) PROVE ClocksAgree'
  BY <1>16 DEF HandleInitial, TypeOK, ClocksAgree, Stale, serviceVars, jobVars, dbVars, senderVars
<1>17. ASSUME NEW e \in Copies, MarkSeen(e) PROVE ClocksAgree'
  BY <1>17 DEF MarkSeen, TypeOK, ClocksAgree, Stale, serviceVars, jobVars, dbVars, senderVars
<1>18. ASSUME NEW e \in Copies, Show(e) PROVE ClocksAgree'
  BY <1>18 DEF Show, TypeOK, ClocksAgree, Stale, serviceVars, jobVars, dbVars, senderVars
<1>19. ASSUME NEW e \in Copies, Insert(e) PROVE ClocksAgree'
  BY <1>19 DEF Insert, TypeOK, ClocksAgree, Stale, serviceVars, jobVars, dbVars, senderVars
<1>20. ASSUME NEW e \in Copies, SendAck(e) PROVE ClocksAgree'
  BY <1>20 DEF SendAck, TypeOK, ClocksAgree, Stale, serviceVars, jobVars, dbVars, senderVars
<1>21. ASSUME NEW m \in Messages, NEW c \in 1..MaxCopies, Redeliver(m, c) PROVE ClocksAgree'
  BY <1>21 DEF Redeliver, TypeOK, ClocksAgree, Stale, serviceVars, jobVars, dbVars, senderVars
<1>22. CASE Purge
  BY <1>22 DEF Purge, TypeOK, ClocksAgree, Stale, serviceVars, jobVars, dbVars, senderVars
<1>23. CASE Tick
  BY <1>23 DEF Tick, TypeOK, ClocksAgree, Stale, serviceVars, jobVars, dbVars, senderVars
<1> QED
  BY <1>1, <1>2, <1>3, <1>4, <1>5, <1>6, <1>7, <1>8, <1>9, <1>10, <1>11, <1>12, <1>13, <1>14, <1>15, <1>16, <1>17, <1>18, <1>19, <1>20, <1>21, <1>22, <1>23 DEF Next

LEMMA NonceStep ==
  ASSUME InboxInv, [Next]_vars
  PROVE  NonceKept'
<1> USE InboxAssumption, CopyFacts DEF InboxAssumption, InboxInv
<1>1. CASE UNCHANGED vars
  BY <1>1 DEF TypeOK, NonceKept, Kept, Coming, Stale, vars, serviceVars, jobVars, dbVars, senderVars
<1>2. ASSUME NEW m \in Messages, SendToPeer(m) PROVE NonceKept'
  BY <1>2 DEF SendToPeer, TypeOK, NonceKept, Kept, Coming, Stale, serviceVars, jobVars, dbVars, senderVars
<1>3. ASSUME NEW m \in Messages, StoreOwn(m) PROVE NonceKept'
  BY <1>3 DEF StoreOwn, TypeOK, NonceKept, Kept, Coming, Stale, serviceVars, jobVars, dbVars, senderVars
<1>4. ASSUME NEW m \in Messages, NoteId(m) PROVE NonceKept'
  BY <1>4 DEF NoteId, TypeOK, NonceKept, Kept, Coming, Stale, serviceVars, jobVars, dbVars, senderVars
<1>5. ASSUME NEW m \in Messages, Transmit(m) PROVE NonceKept'
  BY <1>5 DEF Transmit, Settled, NotYetSent, TypeOK, NonceKept, Kept, Coming, Stale, serviceVars, jobVars, dbVars, senderVars
<1>6. ASSUME NEW m \in Messages, MarkDelivered(m) PROVE NonceKept'
  BY <1>6 DEF MarkDelivered, TypeOK, NonceKept, Kept, Coming, Stale, serviceVars, jobVars, dbVars, senderVars
<1>7. ASSUME NEW m \in Messages, UpdateStatus(m) PROVE NonceKept'
  BY <1>7 DEF UpdateStatus, TypeOK, NonceKept, Kept, Coming, Stale, serviceVars, jobVars, dbVars, senderVars
<1>8. CASE SenderGone
  BY <1>8 DEF SenderGone, TypeOK, NonceKept, Kept, Coming, Stale, serviceVars, jobVars, dbVars, senderVars
<1>9. ASSUME NEW i \in Activities, Create(i) PROVE NonceKept'
  BY <1>9 DEF Create, TypeOK, NonceKept, Kept, Coming, Stale, serviceVars, jobVars, dbVars, senderVars
<1>10. ASSUME NEW i \in Activities, RegisterActivity(i) PROVE NonceKept'
  BY <1>10 DEF RegisterActivity, Pending, TypeOK, NonceKept, Kept, Coming, Stale, serviceVars, jobVars, dbVars, senderVars
<1>11. ASSUME NEW i \in Activities, Destroy(i) PROVE NonceKept'
  BY <1>11 DEF Destroy, OfActivity, Volatile, TypeOK, NonceKept, Kept, Coming, Stale, serviceVars, jobVars, dbVars, senderVars
<1>12. CASE Kill
  BY <1>12 DEF Kill, Volatile, TypeOK, NonceKept, Kept, Coming, Stale, serviceVars, jobVars, dbVars, senderVars
<1>13. ASSUME NEW e \in Copies, Arrive(e) PROVE NonceKept'
  BY <1>13 DEF Arrive, TypeOK, NonceKept, Kept, Coming, Stale, serviceVars, jobVars, dbVars, senderVars
<1>14. ASSUME NEW e \in Copies, Queue(e) PROVE NonceKept'
  BY <1>14 DEF Queue, TypeOK, NonceKept, Kept, Coming, Stale, serviceVars, jobVars, dbVars, senderVars
<1>15. ASSUME NEW e \in Copies, HandleDecrypted(e) PROVE NonceKept'
  BY <1>15 DEF HandleDecrypted, TypeOK, NonceKept, Kept, Coming, Stale, serviceVars, jobVars, dbVars, senderVars
<1>16. ASSUME NEW e \in Copies, HandleInitial(e) PROVE NonceKept'
  BY <1>16 DEF HandleInitial, TypeOK, NonceKept, Kept, Coming, Stale, serviceVars, jobVars, dbVars, senderVars
<1>17. ASSUME NEW e \in Copies, MarkSeen(e) PROVE NonceKept'
  BY <1>17 DEF MarkSeen, TypeOK, NonceKept, Kept, Coming, Stale, serviceVars, jobVars, dbVars, senderVars
<1>18. ASSUME NEW e \in Copies, Show(e) PROVE NonceKept'
  BY <1>18 DEF Show, TypeOK, NonceKept, Kept, Coming, Stale, serviceVars, jobVars, dbVars, senderVars
<1>19. ASSUME NEW e \in Copies, Insert(e) PROVE NonceKept'
  BY <1>19 DEF Insert, TypeOK, NonceKept, Kept, Coming, Stale, serviceVars, jobVars, dbVars, senderVars
<1>20. ASSUME NEW e \in Copies, SendAck(e) PROVE NonceKept'
  BY <1>20 DEF SendAck, TypeOK, NonceKept, Kept, Coming, Stale, serviceVars, jobVars, dbVars, senderVars
<1>21. ASSUME NEW m \in Messages, NEW c \in 1..MaxCopies, Redeliver(m, c) PROVE NonceKept'
  BY <1>21 DEF Redeliver, TypeOK, NonceKept, Kept, Coming, Stale, serviceVars, jobVars, dbVars, senderVars
<1>22. CASE Purge
  BY <1>22 DEF Purge, ClocksAgree, TypeOK, NonceKept, Kept, Coming, Stale, serviceVars, jobVars, dbVars, senderVars
<1>23. CASE Tick
  BY <1>23 DEF Tick, TypeOK, NonceKept, Kept, Coming, Stale, serviceVars, jobVars, dbVars, senderVars
<1> QED
  BY <1>1, <1>2, <1>3, <1>4, <1>5, <1>6, <1>7, <1>8, <1>9, <1>10, <1>11, <1>12, <1>13, <1>14, <1>15, <1>16, <1>17, <1>18, <1>19, <1>20, <1>21, <1>22, <1>23 DEF Next

LEMMA RowsStep ==
  ASSUME InboxInv, [Next]_vars
  PROVE  RowsOnce'
<1> USE InboxAssumption, CopyFacts DEF InboxAssumption, InboxInv
<1>1. CASE UNCHANGED vars
  BY <1>1 DEF TypeOK, RowsOnce, Coming, vars, serviceVars, jobVars, dbVars, senderVars
<1>2. ASSUME NEW m \in Messages, SendToPeer(m) PROVE RowsOnce'
  BY <1>2 DEF SendToPeer, TypeOK, RowsOnce, Coming, serviceVars, jobVars, dbVars, senderVars
<1>3. ASSUME NEW m \in Messages, StoreOwn(m) PROVE RowsOnce'
  BY <1>3 DEF StoreOwn, TypeOK, RowsOnce, Coming, serviceVars, jobVars, dbVars, senderVars
<1>4. ASSUME NEW m \in Messages, NoteId(m) PROVE RowsOnce'
  BY <1>4 DEF NoteId, TypeOK, RowsOnce, Coming, serviceVars, jobVars, dbVars, senderVars
<1>5. ASSUME NEW m \in Messages, Transmit(m) PROVE RowsOnce'
  BY <1>5 DEF Transmit, Settled, NotYetSent, TypeOK, RowsOnce, Coming, serviceVars, jobVars, dbVars, senderVars
<1>6. ASSUME NEW m \in Messages, MarkDelivered(m) PROVE RowsOnce'
  BY <1>6 DEF MarkDelivered, TypeOK, RowsOnce, Coming, serviceVars, jobVars, dbVars, senderVars
<1>7. ASSUME NEW m \in Messages, UpdateStatus(m) PROVE RowsOnce'
  BY <1>7 DEF UpdateStatus, TypeOK, RowsOnce, Coming, serviceVars, jobVars, dbVars, senderVars
<1>8. CASE SenderGone
  BY <1>8 DEF SenderGone, TypeOK, RowsOnce, Coming, serviceVars, jobVars, dbVars, senderVars
<1>9. ASSUME NEW i \in Activities, Create(i) PROVE RowsOnce'
  BY <1>9 DEF Create, TypeOK, RowsOnce, Coming, serviceVars, jobVars, dbVars, senderVars
<1>10. ASSUME NEW i \in Activities, RegisterActivity(i) PROVE RowsOnce'
  BY <1>10 DEF RegisterActivity, Pending, TypeOK, RowsOnce, Coming, serviceVars, jobVars, dbVars, senderVars
<1>11. ASSUME NEW i \in Activities, Destroy(i) PROVE RowsOnce'
  BY <1>11 DEF Destroy, OfActivity, Volatile, TypeOK, RowsOnce, Coming, serviceVars, jobVars, dbVars, senderVars
<1>12. CASE Kill
  BY <1>12 DEF Kill, Volatile, TypeOK, RowsOnce, Coming, serviceVars, jobVars, dbVars, senderVars
<1>13. ASSUME NEW e \in Copies, Arrive(e) PROVE RowsOnce'
  BY <1>13 DEF Arrive, TypeOK, RowsOnce, Coming, serviceVars, jobVars, dbVars, senderVars
<1>14. ASSUME NEW e \in Copies, Queue(e) PROVE RowsOnce'
  BY <1>14 DEF Queue, TypeOK, RowsOnce, Coming, serviceVars, jobVars, dbVars, senderVars
<1>15. ASSUME NEW e \in Copies, HandleDecrypted(e) PROVE RowsOnce'
  BY <1>15 DEF HandleDecrypted, TypeOK, RowsOnce, Coming, serviceVars, jobVars, dbVars, senderVars
<1>16. ASSUME NEW e \in Copies, HandleInitial(e) PROVE RowsOnce'
  <2>1. rows[Text(e)] = 0 /\ \A f \in Copies : Text(f) = Text(e) => ~Coming(f)
    BY <1>16 DEF HandleInitial, FirstComesOnce, Settled, Coming, TypeOK
  <2> QED
    BY <1>16, <2>1 DEF HandleInitial, TypeOK, RowsOnce, Coming, serviceVars, jobVars, dbVars, senderVars
<1>17. ASSUME NEW e \in Copies, MarkSeen(e) PROVE RowsOnce'
  <2>1. Text(e) \notin First
    BY <1>17 DEF MarkSeen, FirstComesOnce
  <2>2. seen[Text(e)] = 0 => ~Kept(Text(e))
    BY <1>17, <2>1 DEF MarkSeen, ClocksAgree, NonceKept
  <2> QED
    BY <1>17, <2>2 DEF MarkSeen, Kept, TypeOK, RowsOnce, Coming, serviceVars, jobVars, dbVars, senderVars
<1>18. ASSUME NEW e \in Copies, Show(e) PROVE RowsOnce'
  BY <1>18 DEF Show, TypeOK, RowsOnce, Coming, serviceVars, jobVars, dbVars, senderVars
<1>19. ASSUME NEW e \in Copies, Insert(e) PROVE RowsOnce'
  BY <1>19 DEF Insert, Settled, TypeOK, RowsOnce, Coming, serviceVars, jobVars, dbVars, senderVars
<1>20. ASSUME NEW e \in Copies, SendAck(e) PROVE RowsOnce'
  BY <1>20 DEF SendAck, TypeOK, RowsOnce, Coming, serviceVars, jobVars, dbVars, senderVars
<1>21. ASSUME NEW m \in Messages, NEW c \in 1..MaxCopies, Redeliver(m, c) PROVE RowsOnce'
  BY <1>21 DEF Redeliver, TypeOK, RowsOnce, Coming, serviceVars, jobVars, dbVars, senderVars
<1>22. CASE Purge
  BY <1>22 DEF Purge, TypeOK, RowsOnce, Coming, serviceVars, jobVars, dbVars, senderVars
<1>23. CASE Tick
  BY <1>23 DEF Tick, TypeOK, RowsOnce, Coming, serviceVars, jobVars, dbVars, senderVars
<1> QED
  BY <1>1, <1>2, <1>3, <1>4, <1>5, <1>6, <1>7, <1>8, <1>9, <1>10, <1>11, <1>12, <1>13, <1>14, <1>15, <1>16, <1>17, <1>18, <1>19, <1>20, <1>21, <1>22, <1>23 DEF Next

LEMMA InvStep ==
  ASSUME InboxInv, [Next]_vars
  PROVE  InboxInv'
<1> InboxInv
  OBVIOUS
<1> QED
  BY TypeStep, SettledStep, NotYetSentStep, FirstStep, ClocksStep, NonceStep, RowsStep DEF InboxInv

\* Undisturbed, a text that is kept stays so.
LEMMA KeptStep ==
  ASSUME InboxInv, [Next]_vars, ~disturbed', NEW m0 \in Messages, Kept(m0)
  PROVE  Kept(m0)'
<1> USE InboxAssumption, CopyFacts DEF InboxAssumption, InboxInv
<1>1. CASE UNCHANGED vars
  BY <1>1 DEF TypeOK, Settled, Kept, Coming, vars, serviceVars, jobVars, dbVars, senderVars
<1>2. ASSUME NEW m \in Messages, SendToPeer(m) PROVE Kept(m0)'
  BY <1>2 DEF SendToPeer, TypeOK, Settled, Kept, Coming, serviceVars, jobVars, dbVars, senderVars
<1>3. ASSUME NEW m \in Messages, StoreOwn(m) PROVE Kept(m0)'
  BY <1>3 DEF StoreOwn, TypeOK, Settled, Kept, Coming, serviceVars, jobVars, dbVars, senderVars
<1>4. ASSUME NEW m \in Messages, NoteId(m) PROVE Kept(m0)'
  BY <1>4 DEF NoteId, TypeOK, Settled, Kept, Coming, serviceVars, jobVars, dbVars, senderVars
<1>5. ASSUME NEW m \in Messages, Transmit(m) PROVE Kept(m0)'
  BY <1>5 DEF Transmit, NotYetSent, TypeOK, Settled, Kept, Coming, serviceVars, jobVars, dbVars, senderVars
<1>6. ASSUME NEW m \in Messages, MarkDelivered(m) PROVE Kept(m0)'
  BY <1>6 DEF MarkDelivered, TypeOK, Settled, Kept, Coming, serviceVars, jobVars, dbVars, senderVars
<1>7. ASSUME NEW m \in Messages, UpdateStatus(m) PROVE Kept(m0)'
  BY <1>7 DEF UpdateStatus, TypeOK, Settled, Kept, Coming, serviceVars, jobVars, dbVars, senderVars
<1>8. CASE SenderGone
  BY <1>8 DEF SenderGone, TypeOK, Settled, Kept, Coming, serviceVars, jobVars, dbVars, senderVars
<1>9. ASSUME NEW i \in Activities, Create(i) PROVE Kept(m0)'
  BY <1>9 DEF Create, TypeOK, Settled, Kept, Coming, serviceVars, jobVars, dbVars, senderVars
<1>10. ASSUME NEW i \in Activities, RegisterActivity(i) PROVE Kept(m0)'
  BY <1>10 DEF RegisterActivity, Pending, TypeOK, Settled, Kept, Coming, serviceVars, jobVars, dbVars, senderVars
<1>11. ASSUME NEW i \in Activities, Destroy(i) PROVE Kept(m0)'
  BY <1>11 DEF Destroy
<1>12. CASE Kill
  BY <1>12 DEF Kill
<1>13. ASSUME NEW e \in Copies, Arrive(e) PROVE Kept(m0)'
  BY <1>13 DEF Arrive, TypeOK, Settled, Kept, Coming, serviceVars, jobVars, dbVars, senderVars
<1>14. ASSUME NEW e \in Copies, Queue(e) PROVE Kept(m0)'
  BY <1>14 DEF Queue, TypeOK, Settled, Kept, Coming, serviceVars, jobVars, dbVars, senderVars
<1>15. ASSUME NEW e \in Copies, HandleDecrypted(e) PROVE Kept(m0)'
  BY <1>15 DEF HandleDecrypted, TypeOK, Settled, Kept, Coming, serviceVars, jobVars, dbVars, senderVars
<1>16. ASSUME NEW e \in Copies, HandleInitial(e) PROVE Kept(m0)'
  BY <1>16 DEF HandleInitial, TypeOK, Settled, Kept, Coming, serviceVars, jobVars, dbVars, senderVars
<1>17. ASSUME NEW e \in Copies, MarkSeen(e) PROVE Kept(m0)'
  BY <1>17 DEF MarkSeen, TypeOK, Settled, Kept, Coming, serviceVars, jobVars, dbVars, senderVars
<1>18. ASSUME NEW e \in Copies, Show(e) PROVE Kept(m0)'
  BY <1>18 DEF Show, TypeOK, Settled, Kept, Coming, serviceVars, jobVars, dbVars, senderVars
<1>19. ASSUME NEW e \in Copies, Insert(e) PROVE Kept(m0)'
  <2>1. CASE Text(e) = m0
    BY <1>19, <2>1 DEF Insert, TypeOK, Kept
  <2>2. CASE Text(e) # m0
    BY <1>19, <2>2 DEF Insert, TypeOK, Settled, Kept, Coming, serviceVars, jobVars, dbVars, senderVars
  <2> QED
    BY <2>1, <2>2
<1>20. ASSUME NEW e \in Copies, SendAck(e) PROVE Kept(m0)'
  BY <1>20 DEF SendAck, TypeOK, Settled, Kept, Coming, serviceVars, jobVars, dbVars, senderVars
<1>21. ASSUME NEW m \in Messages, NEW c \in 1..MaxCopies, Redeliver(m, c) PROVE Kept(m0)'
  BY <1>21 DEF Redeliver, TypeOK, Settled, Kept, Coming, serviceVars, jobVars, dbVars, senderVars
<1>22. CASE Purge
  BY <1>22 DEF Purge, TypeOK, Settled, Kept, Coming, serviceVars, jobVars, dbVars, senderVars
<1>23. CASE Tick
  BY <1>23 DEF Tick, TypeOK, Settled, Kept, Coming, serviceVars, jobVars, dbVars, senderVars
<1> QED
  BY <1>1, <1>2, <1>3, <1>4, <1>5, <1>6, <1>7, <1>8, <1>9, <1>10, <1>11, <1>12, <1>13, <1>14, <1>15, <1>16, <1>17, <1>18, <1>19, <1>20, <1>21, <1>22, <1>23 DEF Next

LEMMA ReceiptsStep ==
  ASSUME InboxInv, ReceiptsHonest, [Next]_vars
  PROVE  ReceiptsHonest'
<1> SUFFICES ASSUME ~disturbed' PROVE ReceiptsHonest'
  BY DEF ReceiptsHonest
<1>u. ~disturbed
  BY DEF Next, SendToPeer, StoreOwn, NoteId, Transmit, MarkDelivered, UpdateStatus, SenderGone,
     Create, RegisterActivity, Destroy, Kill, Arrive, Queue, HandleDecrypted, HandleInitial,
     MarkSeen, Show, Insert, SendAck, Redeliver, Purge, Tick, vars
<1>k. \A m \in Messages : Kept(m) => Kept(m)'
  BY KeptStep
<1>t. TypeOK /\ TypeOK'
  BY TypeStep DEF InboxInv
<1>h. /\ \A m \in Messages :
           seen[m] # 0 \/ m \in receipts \cup updating \/ own[m] = "DELIVERED" => Kept(m)
      /\ \A e \in Copies : e \in acking \/ stage[e] = "repeat" => Kept(Text(e))
  BY <1>u DEF ReceiptsHonest
<1> USE CopyFacts
<1> HIDE DEF Kept
<1>1. CASE UNCHANGED vars
  BY <1>1, <1>k, <1>t, <1>h DEF TypeOK, ReceiptsHonest, vars, serviceVars, jobVars, dbVars, senderVars
<1>2. ASSUME NEW m \in Messages, SendToPeer(m) PROVE ReceiptsHonest'
  BY <1>2, <1>k, <1>t, <1>h DEF SendToPeer, TypeOK, ReceiptsHonest, serviceVars, jobVars, dbVars, senderVars
<1>3. ASSUME NEW m \in Messages, StoreOwn(m) PROVE ReceiptsHonest'
  BY <1>3, <1>k, <1>t, <1>h DEF StoreOwn, TypeOK, ReceiptsHonest, serviceVars, jobVars, dbVars, senderVars
<1>4. ASSUME NEW m \in Messages, NoteId(m) PROVE ReceiptsHonest'
  BY <1>4, <1>k, <1>t, <1>h DEF NoteId, TypeOK, ReceiptsHonest, serviceVars, jobVars, dbVars, senderVars
<1>5. ASSUME NEW m \in Messages, Transmit(m) PROVE ReceiptsHonest'
  BY <1>5, <1>k, <1>t, <1>h DEF Transmit, TypeOK, ReceiptsHonest, serviceVars, jobVars, dbVars, senderVars
<1>6. ASSUME NEW m \in Messages, MarkDelivered(m) PROVE ReceiptsHonest'
  BY <1>6, <1>k, <1>t, <1>h DEF MarkDelivered, TypeOK, ReceiptsHonest, serviceVars, jobVars, dbVars, senderVars
<1>7. ASSUME NEW m \in Messages, UpdateStatus(m) PROVE ReceiptsHonest'
  BY <1>7, <1>k, <1>t, <1>h DEF UpdateStatus, TypeOK, ReceiptsHonest, serviceVars, jobVars, dbVars, senderVars
<1>8. CASE SenderGone
  BY <1>8, <1>k, <1>t, <1>h DEF SenderGone, TypeOK, ReceiptsHonest, serviceVars, jobVars, dbVars, senderVars
<1>9. ASSUME NEW i \in Activities, Create(i) PROVE ReceiptsHonest'
  BY <1>9, <1>k, <1>t, <1>h DEF Create, TypeOK, ReceiptsHonest, serviceVars, jobVars, dbVars, senderVars
<1>10. ASSUME NEW i \in Activities, RegisterActivity(i) PROVE ReceiptsHonest'
  BY <1>10, <1>k, <1>t, <1>h DEF RegisterActivity, Pending, TypeOK, ReceiptsHonest, serviceVars, jobVars, dbVars, senderVars
<1>11. ASSUME NEW i \in Activities, Destroy(i) PROVE ReceiptsHonest'
  BY <1>11 DEF Destroy
<1>12. CASE Kill
  BY <1>12 DEF Kill
<1>13. ASSUME NEW e \in Copies, Arrive(e) PROVE ReceiptsHonest'
  BY <1>13, <1>k, <1>t, <1>h DEF Arrive, TypeOK, ReceiptsHonest, serviceVars, jobVars, dbVars, senderVars
<1>14. ASSUME NEW e \in Copies, Queue(e) PROVE ReceiptsHonest'
  BY <1>14, <1>k, <1>t, <1>h DEF Queue, TypeOK, ReceiptsHonest, serviceVars, jobVars, dbVars, senderVars
<1>15. ASSUME NEW e \in Copies, HandleDecrypted(e) PROVE ReceiptsHonest'
  BY <1>15, <1>k, <1>t, <1>h DEF HandleDecrypted, TypeOK, ReceiptsHonest, serviceVars, jobVars, dbVars, senderVars
<1>16. ASSUME NEW e \in Copies, HandleInitial(e) PROVE ReceiptsHonest'
  BY <1>16, <1>k, <1>t, <1>h DEF HandleInitial, TypeOK, ReceiptsHonest, serviceVars, jobVars, dbVars, senderVars
<1>17. ASSUME NEW e \in Copies, MarkSeen(e) PROVE ReceiptsHonest'
  <2>1. seen[Text(e)] # 0 => Kept(Text(e))'
    BY <1>17, <1>k, <1>t, <1>h
  <2>2. seen[Text(e)] = 0 => Kept(Text(e))'
    BY <1>17, <1>t DEF MarkSeen, Kept, Coming, TypeOK
  <2> QED
    BY <1>17, <1>k, <1>t, <1>h, <2>1, <2>2 DEF MarkSeen, TypeOK, ReceiptsHonest, serviceVars, jobVars, dbVars, senderVars
<1>18. ASSUME NEW e \in Copies, Show(e) PROVE ReceiptsHonest'
  <2>1. stage[e] = "fresh" => Kept(Text(e))
    BY <1>18 DEF Kept, Coming
  <2> QED
    BY <1>18, <1>k, <1>t, <1>h, <2>1 DEF Show, TypeOK, ReceiptsHonest, serviceVars, jobVars, dbVars, senderVars
<1>19. ASSUME NEW e \in Copies, Insert(e) PROVE ReceiptsHonest'
  BY <1>19, <1>k, <1>t, <1>h DEF Insert, TypeOK, ReceiptsHonest, serviceVars, jobVars, dbVars, senderVars
<1>20. ASSUME NEW e \in Copies, SendAck(e) PROVE ReceiptsHonest'
  BY <1>20, <1>k, <1>t, <1>h DEF SendAck, TypeOK, ReceiptsHonest, serviceVars, jobVars, dbVars, senderVars
<1>21. ASSUME NEW m \in Messages, NEW c \in 1..MaxCopies, Redeliver(m, c) PROVE ReceiptsHonest'
  BY <1>21, <1>k, <1>t, <1>h DEF Redeliver, TypeOK, ReceiptsHonest, serviceVars, jobVars, dbVars, senderVars
<1>22. CASE Purge
  BY <1>22, <1>k, <1>t, <1>h DEF Purge, TypeOK, ReceiptsHonest, serviceVars, jobVars, dbVars, senderVars
<1>23. CASE Tick
  BY <1>23, <1>k, <1>t, <1>h DEF Tick, TypeOK, ReceiptsHonest, serviceVars, jobVars, dbVars, senderVars
<1> QED
  BY <1>1, <1>2, <1>3, <1>4, <1>5, <1>6, <1>7, <1>8, <1>9, <1>10, <1>11, <1>12, <1>13, <1>14, <1>15, <1>16, <1>17, <1>18, <1>19, <1>20, <1>21, <1>22, <1>23 DEF Next

LEMMA WaitsStep ==
  ASSUME TypeOK, OneWaits, [Next]_vars
  PROVE  OneWaits'
<1> USE InboxAssumption, CopyFacts DEF InboxAssumption
<1>1. CASE UNCHANGED vars
  BY <1>1 DEF TypeOK, OneWaits, Reading, Pending, vars, serviceVars, jobVars, dbVars, senderVars
<1>2. ASSUME NEW m \in Messages, SendToPeer(m) PROVE OneWaits'
  BY <1>2 DEF SendToPeer, TypeOK, OneWaits, Reading, Pending, serviceVars, jobVars, dbVars, senderVars
<1>3. ASSUME NEW m \in Messages, StoreOwn(m) PROVE OneWaits'
  BY <1>3 DEF StoreOwn, TypeOK, OneWaits, Reading, Pending, serviceVars, jobVars, dbVars, senderVars
<1>4. ASSUME NEW m \in Messages, NoteId(m) PROVE OneWaits'
  BY <1>4 DEF NoteId, TypeOK, OneWaits, Reading, Pending, serviceVars, jobVars, dbVars, senderVars
<1>5. ASSUME NEW m \in Messages, Transmit(m) PROVE OneWaits'
  BY <1>5 DEF Transmit, TypeOK, OneWaits, Reading, Pending, serviceVars, jobVars, dbVars, senderVars
<1>6. ASSUME NEW m \in Messages, MarkDelivered(m) PROVE OneWaits'
  BY <1>6 DEF MarkDelivered, TypeOK, OneWaits, Reading, Pending, serviceVars, jobVars, dbVars, senderVars
<1>7. ASSUME NEW m \in Messages, UpdateStatus(m) PROVE OneWaits'
  BY <1>7 DEF UpdateStatus, TypeOK, OneWaits, Reading, Pending, serviceVars, jobVars, dbVars, senderVars
<1>8. CASE SenderGone
  BY <1>8 DEF SenderGone, TypeOK, OneWaits, Reading, Pending, serviceVars, jobVars, dbVars, senderVars
<1>9. ASSUME NEW i \in Activities, Create(i) PROVE OneWaits'
  BY <1>9 DEF Create, TypeOK, OneWaits, Reading, Pending, serviceVars, jobVars, dbVars, senderVars
<1>10. ASSUME NEW i \in Activities, RegisterActivity(i) PROVE OneWaits'
  BY <1>10 DEF RegisterActivity, TypeOK, OneWaits, Reading, Pending, serviceVars, jobVars, dbVars, senderVars
<1>11. ASSUME NEW i \in Activities, Destroy(i) PROVE OneWaits'
  BY <1>11 DEF Destroy, OfActivity, Volatile, TypeOK, OneWaits, Reading, Pending, serviceVars, jobVars, dbVars, senderVars
<1>12. CASE Kill
  BY <1>12 DEF Kill, Volatile, TypeOK, OneWaits, Reading, Pending, serviceVars, jobVars, dbVars, senderVars
<1>13. ASSUME NEW e \in Copies, Arrive(e) PROVE OneWaits'
  BY <1>13 DEF Arrive, TypeOK, OneWaits, Reading, Pending, serviceVars, jobVars, dbVars, senderVars
<1>14. ASSUME NEW e \in Copies, Queue(e) PROVE OneWaits'
  BY <1>14 DEF Queue, TypeOK, OneWaits, Reading, Pending, serviceVars, jobVars, dbVars, senderVars
<1>15. ASSUME NEW e \in Copies, HandleDecrypted(e) PROVE OneWaits'
  BY <1>15 DEF HandleDecrypted, TypeOK, OneWaits, Reading, Pending, serviceVars, jobVars, dbVars, senderVars
<1>16. ASSUME NEW e \in Copies, HandleInitial(e) PROVE OneWaits'
  BY <1>16 DEF HandleInitial, TypeOK, OneWaits, Reading, Pending, serviceVars, jobVars, dbVars, senderVars
<1>17. ASSUME NEW e \in Copies, MarkSeen(e) PROVE OneWaits'
  BY <1>17 DEF MarkSeen, TypeOK, OneWaits, Reading, Pending, serviceVars, jobVars, dbVars, senderVars
<1>18. ASSUME NEW e \in Copies, Show(e) PROVE OneWaits'
  BY <1>18 DEF Show, TypeOK, OneWaits, Reading, Pending, serviceVars, jobVars, dbVars, senderVars
<1>19. ASSUME NEW e \in Copies, Insert(e) PROVE OneWaits'
  BY <1>19 DEF Insert, TypeOK, OneWaits, Reading, Pending, serviceVars, jobVars, dbVars, senderVars
<1>20. ASSUME NEW e \in Copies, SendAck(e) PROVE OneWaits'
  BY <1>20 DEF SendAck, TypeOK, OneWaits, Reading, Pending, serviceVars, jobVars, dbVars, senderVars
<1>21. ASSUME NEW m \in Messages, NEW c \in 1..MaxCopies, Redeliver(m, c) PROVE OneWaits'
  BY <1>21 DEF Redeliver, TypeOK, OneWaits, Reading, Pending, serviceVars, jobVars, dbVars, senderVars
<1>22. CASE Purge
  BY <1>22 DEF Purge, TypeOK, OneWaits, Reading, Pending, serviceVars, jobVars, dbVars, senderVars
<1>23. CASE Tick
  BY <1>23 DEF Tick, TypeOK, OneWaits, Reading, Pending, serviceVars, jobVars, dbVars, senderVars
<1> QED
  BY <1>1, <1>2, <1>3, <1>4, <1>5, <1>6, <1>7, <1>8, <1>9, <1>10, <1>11, <1>12, <1>13, <1>14, <1>15, <1>16, <1>17, <1>18, <1>19, <1>20, <1>21, <1>22, <1>23 DEF Next

\* One invariant carries the properties of the inbox.
THEOREM InboxInvariance == Spec => [](InboxInv /\ ReceiptsHonest /\ OneWaits)
<1>1. InboxInv /\ ReceiptsHonest /\ OneWaits /\ [Next]_vars => (InboxInv /\ ReceiptsHonest /\ OneWaits)'
  BY InvStep, ReceiptsStep, WaitsStep DEF InboxInv
<1> QED
  BY <1>1, InitInv, PTL DEF Spec

LEMMA AtMostOneElement ==
  ASSUME NEW S, \A x, y \in S : x = y
  PROVE  IsFiniteSet(S) /\ Cardinality(S) <= 1 /\ Cardinality(S) \in Nat
<1>1. CASE S = {}
  BY <1>1, FS_EmptySet
<1>2. CASE S # {}
  <2>1. PICK x \in S : TRUE
    BY <1>2
  <2>2. S = {x}
    BY <2>1
  <2>3. IsFiniteSet({x}) /\ Cardinality({x}) = 1
    BY FS_Singleton
  <2> QED
    BY <2>2, <2>3
<1> QED
  BY <1>1, <1>2

LEMMA InvShownOnce ==
  ASSUME InboxInv
  PROVE  ShownAtMostOnce
<1> SUFFICES ASSUME NEW m \in Messages PROVE rows[m] + Cardinality(ToInsert(m)) <= 1
  BY DEF ShownAtMostOnce
<1>1. \A e, f \in ToInsert(m) : e = f
  BY DEF InboxInv, RowsOnce, Coming, ToInsert
<1>2. Cardinality(ToInsert(m)) <= 1 /\ Cardinality(ToInsert(m)) \in Nat
  BY <1>1, AtMostOneElement
<1>3. CASE rows[m] = 0
  BY <1>2, <1>3
<1>4. CASE rows[m] # 0
  <2>1. rows[m] = 1 /\ ToInsert(m) = {}
    BY <1>4 DEF InboxInv, RowsOnce, Coming, ToInsert
  <2> QED
    BY <2>1, FS_EmptySet
<1> QED
  BY <1>3, <1>4

LEMMA InvAcked ==
  ASSUME InboxInv, ReceiptsHonest
  PROVE  AckedIsKept
<1> SUFFICES ASSUME NEW m \in Messages, ~disturbed,
                    m \in receipts \cup updating \/ own[m] = "DELIVERED" \/ \E e \in acking : Text(e) = m
             PROVE  rows[m] > 0 \/ ToInsert(m) # {}
  BY DEF AckedIsKept
<1>1. acking \subseteq Copies /\ rows[m] \in Nat
  BY DEF InboxInv, TypeOK
<1>2. Kept(m)
  BY <1>1 DEF ReceiptsHonest
<1> QED
  BY <1>1, <1>2 DEF Kept, Coming, ToInsert

LEMMA InvStranded ==
  ASSUME OneWaits
  PROVE  AtMostOneStranded
<1> SUFFICES ASSUME activityHandler # None PROVE Cardinality(Pending) <= 1
  BY DEF AtMostOneStranded
<1>1. \A e, f \in Pending : e = f
  BY DEF OneWaits
<1> QED
  BY <1>1, AtMostOneElement

\* Every variable of the inbox keeps its kind.
THEOREM InboxTypes == Spec => []TypeOK
<1>1. InboxInv => TypeOK
  BY DEF InboxInv
<1> QED
  BY <1>1, InboxInvariance, PTL

\* A text is shown at most once over any repetitions, kills, Activities and
\* purges of nonces (handleDecrypted, ReplayWindow).
THEOREM ShownOnce == Spec => []ShownAtMostOnce
BY InvShownOnce, InboxInvariance, PTL

\* A receipt, wherever it is, tells of a text that is stored or about to be.
THEOREM Acknowledged == Spec => []AckedIsKept
BY InvAcked, InboxInvariance, PTL

\* The race of dispatch with registerActivity strands one event at most.
THEOREM Stranded == Spec => []AtMostOneStranded
BY InvStranded, InboxInvariance, PTL

-----------------------------------------------------------------------------
(* Texts and files on one screen.                                          *)

InitOf(t) == [id |-> t, type |-> "INIT", seq |-> 0]
DoneOf(t) == [id |-> t, type |-> "DONE", seq |-> 0]
ChunkOf(t, n) == [id |-> t, type |-> "CHUNK", seq |-> n]

\* An active transfer has the chunks it heard, and one that saw DONE is not full.
Heeds ==
  \A t \in states :
    /\ \A n \in Media!Numbers(t) : ChunkOf(t, n) \in heard[t] => n \in chunks[t]
    /\ DoneOf(t) \in heard[t] => t \in doneSeen

\* A transfer whose DONE came, if only before it was swept, has chunks, and
\* an active one lacks some.
Lacks ==
  \A t \in doneSeen :
    /\ Media!Numbers(t) # {}
    /\ t \in states => chunks[t] # Media!Numbers(t)

MediaInv == Media!TypeOK /\ Media!CompletedOnce /\ Heeds /\ Lacks

-----------------------------------------------------------------------------
(* The frames of a file.                                                    *)

LEMMA ChunkCount == \A t \in Transfers : Media!TotalChunks(t) \in Nat
<1> SUFFICES ASSUME NEW t \in Transfers PROVE Media!TotalChunks(t) \in Nat
  OBVIOUS
<1> DEFINE b == Bytes[t] + CHUNK_SIZE - 1
<1>1. b \in Nat /\ CHUNK_SIZE \in Nat \ {0}
  BY MediaLimits DEF Media!MediaAssumption
<1>2. b \div CHUNK_SIZE \in Nat
  <2> HIDE DEF b
  <2> QED
    BY <1>1
<1> QED
  BY <1>2 DEF Media!TotalChunks

LEMMA FrameFacts ==
  ASSUME NEW t \in Transfers
  PROVE  /\ \A k \in 0..Media!TotalChunks(t) + 1 : Media!Frame(t, k) \in Media!FramesOf(t)
         /\ DoneOf(t) \in Media!FramesOf(t)
         /\ \A n \in Media!Numbers(t) : ChunkOf(t, n) \in Media!FramesOf(t)
         /\ \A f \in Media!FramesOf(t) :
              /\ f.id = t
              /\ f.type = "INIT" => f = InitOf(t)
              /\ f.type = "DONE" => f = DoneOf(t)
              /\ f.type = "CHUNK" => f.seq \in Media!Numbers(t) /\ f = ChunkOf(t, f.seq)
<1>1. Media!TotalChunks(t) \in Nat
  BY ChunkCount
<1>2. ASSUME NEW k \in 0..Media!TotalChunks(t) + 1 PROVE Media!Frame(t, k) \in Media!FramesOf(t)
  BY DEF Media!FramesOf
<1>3. Media!Frame(t, Media!TotalChunks(t) + 1) = DoneOf(t)
  BY <1>1 DEF Media!Frame, DoneOf
<1>4. ASSUME NEW n \in Media!Numbers(t) PROVE ChunkOf(t, n) \in Media!FramesOf(t)
  <2>1. n + 1 \in 0..Media!TotalChunks(t) + 1 /\ n + 1 # 0 /\ n + 1 # Media!TotalChunks(t) + 1
        /\ (n + 1) - 1 = n
    BY <1>1 DEF Media!Numbers
  <2>2. Media!Frame(t, n + 1) = ChunkOf(t, n)
    BY <2>1 DEF Media!Frame, ChunkOf
  <2> QED
    BY <2>1, <2>2, <1>2
<1>5. ASSUME NEW f \in Media!FramesOf(t)
      PROVE /\ f.id = t
            /\ f.type = "INIT" => f = InitOf(t)
            /\ f.type = "DONE" => f = DoneOf(t)
            /\ f.type = "CHUNK" => f.seq \in Media!Numbers(t) /\ f = ChunkOf(t, f.seq)
  <2>1. PICK k \in 0..Media!TotalChunks(t) + 1 : f = Media!Frame(t, k)
    BY DEF Media!FramesOf
  <2>2. CASE k = 0
    <3>1. 0 # Media!TotalChunks(t) + 1
      BY <1>1
    <3>2. f = InitOf(t)
      BY <2>1, <2>2, <3>1 DEF Media!Frame, InitOf
    <3> QED
      BY <3>2 DEF InitOf
  <2>3. CASE k = Media!TotalChunks(t) + 1
    BY <1>1, <1>3, <2>1, <2>3 DEF DoneOf
  <2>4. CASE k # 0 /\ k # Media!TotalChunks(t) + 1
    <3>1. f = ChunkOf(t, k - 1)
      BY <2>1, <2>4 DEF Media!Frame, ChunkOf
    <3>2. k - 1 \in Media!Numbers(t)
      BY <1>1, <2>1, <2>4 DEF Media!Numbers
    <3> QED
      BY <3>1, <3>2 DEF ChunkOf
  <2> QED
    BY <2>2, <2>3, <2>4
<1> QED
  BY <1>1, <1>2, <1>3, <1>4, <1>5

-----------------------------------------------------------------------------
(* Files.                                                                   *)

LEMMA InitMedia == Media!Init => MediaInv
<1> SUFFICES ASSUME Media!Init PROVE MediaInv
  OBVIOUS
<1>1. Media!TypeOK
  BY MediaLimits, ChunkCount DEF Media!MediaAssumption, Media!Init, Media!TypeOK
<1>2. Media!CompletedOnce
  BY DEF Media!Init, Media!CompletedOnce
<1>3. Heeds /\ Lacks
  BY DEF Media!Init, Heeds, Lacks
<1> QED
  BY <1>1, <1>2, <1>3 DEF MediaInv

\* What a controller holds is what it held.
LEMMA SameController ==
  ASSUME MediaInv, UNCHANGED <<states, createdAt, chunks, ephKeys, doneSeen, accepted, completed>>,
         \A t \in Transfers : heard'[t] = heard[t]
  PROVE  Media!CompletedOnce' /\ Heeds' /\ Lacks'
BY DEF MediaInv, Media!TypeOK, Media!CompletedOnce, Heeds, Lacks, Media!Numbers, Media!TotalChunks

\* A new controller holds nothing.
LEMMA EmptyController ==
  ASSUME MediaInv, Media!NewController, faults' \in 0..MaxFaults
  PROVE  MediaInv'
<1>1. Media!TypeOK'
  BY DEF MediaInv, Media!NewController, Media!historyVars, Media!TypeOK
<1>2. Media!CompletedOnce'
  BY DEF MediaInv, Media!NewController, Media!historyVars, Media!TypeOK, Media!CompletedOnce
<1>3. Heeds' /\ Lacks'
  BY DEF Media!NewController, Heeds, Lacks
<1> QED
  BY <1>1, <1>2, <1>3 DEF MediaInv

LEMMA SendStep ==
  ASSUME MediaInv, NEW t \in Transfers, Media!SendMedia(t), UNCHANGED faults
  PROVE  MediaInv'
<1>1. Media!TypeOK'
  <2>1. toSend[t] \in 0..Media!TotalChunks(t) + 1
    BY ChunkCount DEF MediaInv, Media!TypeOK, Media!SendMedia
  <2>2. Media!Frame(t, toSend[t]) \in Media!FramesOf(t) /\ Media!Frame(t, toSend[t]).id = t
    BY <2>1, FrameFacts
  <2>3. toSend' \in [Transfers -> Nat] /\ \A u \in Transfers : toSend'[u] <= Media!TotalChunks(u) + 2
    BY <2>1, ChunkCount DEF MediaInv, Media!TypeOK, Media!SendMedia
  <2>4. \A f \in wire' : f.id \in Transfers /\ f \in Media!FramesOf(f.id)
    BY <2>2 DEF MediaInv, Media!TypeOK, Media!SendMedia
  <2> QED
    BY <2>3, <2>4 DEF MediaInv, Media!TypeOK, Media!SendMedia, Media!managerVars, Media!historyVars,
      Media!Numbers, Media!TotalChunks, Media!FramesOf, Media!Frame
<1>2. Media!CompletedOnce' /\ Heeds' /\ Lacks'
  BY SameController DEF Media!SendMedia, Media!managerVars, Media!historyVars
<1> QED
  BY <1>1, <1>2 DEF MediaInv

LEMMA WireStep ==
  ASSUME MediaInv, faults' \in 0..MaxFaults,
         wire' \subseteq wire \cup UNION {Media!FramesOf(t) : t \in Transfers},
         UNCHANGED <<toSend, states, createdAt, chunks, ephKeys, doneSeen, heard, accepted, completed>>,
         mediaClock' \in 0..MediaHorizon
  PROVE  MediaInv'
<1>1. \A f \in wire' : f.id \in Transfers /\ f \in Media!FramesOf(f.id)
  BY FrameFacts DEF MediaInv, Media!TypeOK
<1>2. Media!TypeOK'
  BY <1>1 DEF MediaInv, Media!TypeOK, Media!Numbers, Media!TotalChunks, Media!FramesOf, Media!Frame
<1>3. Media!CompletedOnce' /\ Heeds' /\ Lacks'
  BY SameController
<1> QED
  BY <1>2, <1>3 DEF MediaInv

LEMMA LoseStep ==
  ASSUME MediaInv, NEW f \in wire, Media!Lose(f)
  PROVE  MediaInv'
<1>1. faults' \in 0..MaxFaults /\ mediaClock' \in 0..MediaHorizon /\ wire' \subseteq wire
  BY MediaLimits DEF Media!MediaAssumption, Media!Lose, Media!Fault, MediaInv, Media!TypeOK
<1> QED
  BY <1>1, WireStep DEF Media!Lose, Media!managerVars, Media!historyVars

LEMMA RepeatStep ==
  ASSUME MediaInv, NEW t \in Transfers, NEW k \in 0..Media!TotalChunks(t) + 1, Media!Repeat(t, k)
  PROVE  MediaInv'
<1>1. faults' \in 0..MaxFaults /\ mediaClock' \in 0..MediaHorizon
  BY MediaLimits DEF Media!MediaAssumption, Media!Repeat, Media!Fault, MediaInv, Media!TypeOK
<1>2. wire' \subseteq wire \cup UNION {Media!FramesOf(u) : u \in Transfers}
  BY FrameFacts DEF Media!Repeat
<1> QED
  BY <1>1, <1>2, WireStep DEF Media!Repeat, Media!managerVars, Media!historyVars

LEMMA TickStep ==
  ASSUME MediaInv, Media!Tick, UNCHANGED faults
  PROVE  MediaInv'
<1>1. mediaClock' \in 0..MediaHorizon /\ faults' \in 0..MaxFaults
  BY MediaLimits DEF Media!MediaAssumption, Media!Tick, MediaInv, Media!TypeOK
<1> QED
  BY <1>1, WireStep DEF Media!Tick, Media!managerVars, Media!historyVars

\* What a frame must leave to the controller for MediaInv to hold of it.
ControllerOK ==
  /\ states \subseteq Transfers /\ ephKeys \subseteq Transfers /\ doneSeen \subseteq Transfers
  /\ createdAt \in [Transfers -> 0..MediaHorizon]
  /\ DOMAIN chunks = Transfers /\ \A t \in Transfers : chunks[t] \subseteq Media!Numbers(t)
  /\ DOMAIN heard = Transfers /\ \A t \in Transfers : heard[t] \subseteq Media!FramesOf(t)
  /\ accepted \in [Transfers -> Nat] /\ completed \in [Transfers -> Nat]

LEMMA TakenOffWire ==
  ASSUME MediaInv, NEW f \in wire, Media!OnIncoming(f), UNCHANGED faults, ControllerOK'
  PROVE  Media!TypeOK'
<1>1. wire' \subseteq wire /\ UNCHANGED <<toSend, mediaClock, faults>>
  BY DEF Media!OnIncoming
<1> QED
  BY <1>1 DEF ControllerOK, MediaInv, Media!TypeOK, Media!Numbers, Media!TotalChunks,
    Media!FramesOf, Media!Frame

LEMMA InitStep ==
  ASSUME MediaInv, NEW f \in wire, Media!AcceptInit(f)
  PROVE  ControllerOK' /\ Media!CompletedOnce' /\ Heeds' /\ Lacks'
<1> DEFINE t == f.id
<1>1. t \in Transfers /\ t \notin states /\ f = InitOf(t) /\ f \in Media!FramesOf(t)
  BY FrameFacts DEF MediaInv, Media!TypeOK, Media!AcceptInit, Media!Considered
<1>2. Media!Live \subseteq states
  BY DEF Media!Live
<1>3. /\ states' = Media!Live \cup {t}
      /\ createdAt' = [createdAt EXCEPT ![t] = mediaClock]
      /\ chunks' = [u \in Transfers |-> IF u \in Media!Live THEN chunks[u] ELSE {}]
      /\ ephKeys' = (ephKeys \cap (Media!Live \cup {t})) \cup {t}
      /\ doneSeen' = doneSeen \cap (Media!Live \cup {t})
      /\ accepted' = [accepted EXCEPT ![t] = @ + 1]
      /\ heard' = [heard EXCEPT ![t] = {f}]
      /\ completed' = completed
  BY DEF Media!AcceptInit
<1> HIDE DEF t
<1>4. ControllerOK'
  BY <1>1, <1>2, <1>3 DEF ControllerOK, MediaInv, Media!TypeOK, Media!Numbers,
    Media!TotalChunks, Media!FramesOf, Media!Frame
<1>5. Media!CompletedOnce'
  BY <1>1, <1>2, <1>3 DEF MediaInv, Media!TypeOK, Media!CompletedOnce
<1>6. Heeds'
  BY <1>1, <1>2, <1>3 DEF MediaInv, Media!TypeOK, Media!CompletedOnce, Heeds, InitOf, ChunkOf,
    DoneOf, Media!Numbers, Media!TotalChunks
<1>7. Lacks'
  BY <1>1, <1>2, <1>3 DEF MediaInv, Media!TypeOK, Lacks, Media!Numbers, Media!TotalChunks
<1> QED
  BY <1>4, <1>5, <1>6, <1>7

LEMMA RefuseStep ==
  ASSUME MediaInv, NEW f \in wire, Media!RefuseInit(f)
  PROVE  ControllerOK' /\ Media!CompletedOnce' /\ Heeds' /\ Lacks'
<1>1. f.id \in Transfers /\ f = InitOf(f.id) /\ f \in Media!FramesOf(f.id)
  BY FrameFacts DEF MediaInv, Media!TypeOK, Media!RefuseInit
<1>2. states' \subseteq states
  BY DEF Media!Live, Media!RefuseInit
<1>3. /\ chunks' = [u \in Transfers |-> IF u \in states' THEN chunks[u] ELSE {}]
      /\ heard' = [heard EXCEPT ![f.id] = IF f.id \in states THEN @ \cup {f} ELSE @]
      /\ UNCHANGED <<createdAt, ephKeys, doneSeen, accepted, completed>>
  BY DEF Media!RefuseInit, Media!Hears
<1>4. ControllerOK'
  BY <1>1, <1>2, <1>3 DEF ControllerOK, MediaInv, Media!TypeOK, Media!Numbers,
    Media!TotalChunks, Media!FramesOf, Media!Frame
<1>5. Media!CompletedOnce'
  BY <1>2, <1>3 DEF MediaInv, Media!TypeOK, Media!CompletedOnce
<1>6. Heeds'
  <2> SUFFICES ASSUME NEW u \in states'
               PROVE  /\ \A n \in Media!Numbers(u) :
                           ChunkOf(u, n) \in heard'[u] => n \in chunks'[u]
                      /\ DoneOf(u) \in heard'[u] => u \in doneSeen'
    BY DEF Heeds, Media!Numbers, Media!TotalChunks, ChunkOf, DoneOf
  <2>1. u \in states /\ u \in Transfers /\ chunks'[u] = chunks[u] /\ doneSeen' = doneSeen
    BY <1>2, <1>3 DEF MediaInv, Media!TypeOK
  <2>2. heard'[u] \subseteq heard[u] \cup {f}
    BY <1>1, <1>3, <2>1 DEF MediaInv, Media!TypeOK
  <2>3. \A n : ChunkOf(u, n) # f /\ DoneOf(u) # f
    BY <1>1 DEF InitOf, ChunkOf, DoneOf
  <2> QED
    BY <2>1, <2>2, <2>3 DEF MediaInv, Heeds
<1>7. Lacks'
  BY <1>2, <1>3 DEF MediaInv, Media!TypeOK, Lacks, Media!Numbers, Media!TotalChunks
<1> QED
  BY <1>4, <1>5, <1>6, <1>7

\* A chunk or DONE ends in tryFinalize.
LEMMA FinalizeStep ==
  ASSUME MediaInv, NEW t \in Transfers, NEW f \in Media!FramesOf(t),
         NEW got \in SUBSET Media!Numbers(t), NEW done \in SUBSET (doneSeen \cup {t}),
         doneSeen \subseteq done, t \in done => t \in ephKeys,
         t \in done => t \in states \/ Media!Numbers(t) # {},
         Media!TryFinalize(t, got, done),
         t \in states => chunks[t] \subseteq got,
         f.type = "CHUNK" /\ t \in states => f.seq \in got,
         f.type = "DONE" /\ t \in states => t \in done,
         Media!Hears(f), UNCHANGED <<createdAt, accepted>>
  PROVE  ControllerOK' /\ Media!CompletedOnce' /\ Heeds' /\ Lacks'
<1>1. /\ f.id = t
      /\ f.type = "DONE" => f = DoneOf(t)
      /\ f.type = "CHUNK" => f.seq \in Media!Numbers(t) /\ f = ChunkOf(t, f.seq)
  BY FrameFacts
<1>2. heard' = [heard EXCEPT ![t] = IF t \in states THEN @ \cup {f} ELSE @]
  BY <1>1 DEF Media!Hears
<1>3. CASE t \in done /\ Media!Full(t, got)
  <2>1. t \in states
    BY <1>3 DEF Media!Full
  <2>2. /\ completed' = [completed EXCEPT ![t] = @ + 1]
        /\ states' = states \ {t} /\ ephKeys' = ephKeys \ {t}
        /\ chunks' = [chunks EXCEPT ![t] = {}] /\ doneSeen' = done \ {t}
    BY <1>3 DEF Media!TryFinalize
  <2>3. ControllerOK'
    BY <1>2, <2>1, <2>2 DEF ControllerOK, MediaInv, Media!TypeOK, Media!Numbers,
      Media!TotalChunks, Media!FramesOf, Media!Frame
  <2>4. Media!CompletedOnce'
    BY <2>1, <2>2 DEF MediaInv, Media!TypeOK, Media!CompletedOnce
  <2>5. Heeds'
    BY <1>2, <2>2 DEF MediaInv, Media!TypeOK, Heeds, Media!Numbers, Media!TotalChunks
  <2>6. Lacks'
    BY <2>2 DEF MediaInv, Media!TypeOK, Lacks, Media!Numbers, Media!TotalChunks
  <2> QED
    BY <2>3, <2>4, <2>5, <2>6
<1>4. CASE ~(t \in done /\ Media!Full(t, got))
  <2>1. /\ chunks' = [chunks EXCEPT ![t] = got] /\ doneSeen' = done
        /\ UNCHANGED <<completed, states, ephKeys>>
    BY <1>4 DEF Media!TryFinalize
  <2>2. t \in done /\ t \in states => got # Media!Numbers(t)
    BY <1>4 DEF Media!Full
  <2>3. ControllerOK'
    BY <1>2, <2>1 DEF ControllerOK, MediaInv, Media!TypeOK, Media!Numbers,
      Media!TotalChunks, Media!FramesOf, Media!Frame
  <2>4. Media!CompletedOnce'
    BY <2>1 DEF MediaInv, Media!TypeOK, Media!CompletedOnce
  <2>5. Heeds'
    <3> SUFFICES ASSUME NEW u \in states'
                 PROVE  /\ \A n \in Media!Numbers(u) :
                             ChunkOf(u, n) \in heard'[u] => n \in chunks'[u]
                        /\ DoneOf(u) \in heard'[u] => u \in doneSeen'
      BY DEF Heeds, Media!Numbers, Media!TotalChunks, ChunkOf, DoneOf
    <3>1. u \in states /\ u \in Transfers
      BY <2>1 DEF MediaInv, Media!TypeOK
    <3>2. chunks[u] \subseteq chunks'[u] /\ doneSeen \subseteq doneSeen'
      BY <2>1, <3>1 DEF MediaInv, Media!TypeOK
    <3>3. CASE u # t
      <4>1. heard'[u] = heard[u]
        BY <1>2, <3>1, <3>3 DEF MediaInv, Media!TypeOK
      <4> QED
        BY <3>1, <3>2, <4>1 DEF MediaInv, Heeds
    <3>4. CASE u = t
      <4>1. heard'[u] = heard[u] \cup {f} /\ chunks'[u] = got
        BY <1>2, <2>1, <3>1, <3>4 DEF MediaInv, Media!TypeOK
      <4>2. \A n : ChunkOf(u, n) = f => n \in got
        BY <3>1, <3>4 DEF ChunkOf
      <4>3. DoneOf(u) = f => u \in doneSeen'
        BY <2>1, <3>1, <3>4 DEF DoneOf
      <4> QED
        BY <3>1, <3>2, <4>1, <4>2, <4>3 DEF MediaInv, Heeds
    <3> QED
      BY <3>3, <3>4
  <2>6. Lacks'
    BY <2>1, <2>2 DEF MediaInv, Media!TypeOK, Lacks, Media!Numbers, Media!TotalChunks
  <2> QED
    BY <2>3, <2>4, <2>5, <2>6
<1> QED
  BY <1>3, <1>4

LEMMA ChunkStep ==
  ASSUME MediaInv, NEW f \in wire, Media!OnChunk(f)
  PROVE  ControllerOK' /\ Media!CompletedOnce' /\ Heeds' /\ Lacks'
<1>1. f.id \in Transfers /\ f \in Media!FramesOf(f.id) /\ f.type = "CHUNK"
  BY DEF MediaInv, Media!TypeOK, Media!OnChunk
<1>2. f.seq \in Media!Numbers(f.id)
  BY <1>1, FrameFacts
<1>3. Media!Hears(f) /\ UNCHANGED <<createdAt, accepted>>
  BY DEF Media!OnChunk
<1>4. CASE f.id \in ephKeys
  <2>1. Media!TryFinalize(f.id, Media!WithChunk(f.id, f.seq), doneSeen)
    BY <1>4 DEF Media!OnChunk
  <2>2. Media!WithChunk(f.id, f.seq) \in SUBSET Media!Numbers(f.id)
    BY <1>1, <1>2 DEF Media!WithChunk, MediaInv, Media!TypeOK
  <2>3. f.id \in states => f.seq \in Media!WithChunk(f.id, f.seq)
                           /\ chunks[f.id] \subseteq Media!WithChunk(f.id, f.seq)
    BY DEF Media!WithChunk
  <2>4. f.id \in doneSeen => f.id \in ephKeys /\ Media!Numbers(f.id) # {}
    BY <1>4 DEF MediaInv, Lacks
  <2> HIDE DEF MediaInv
  <2> QED
    BY <1>1, <1>3, <2>1, <2>2, <2>3, <2>4, FinalizeStep
<1>5. CASE f.id \notin ephKeys
  <2>1. f.id \notin states
    BY <1>5 DEF MediaInv, Media!CompletedOnce
  <2>2. /\ DOMAIN heard' = Transfers /\ \A t \in Transfers : heard'[t] = heard[t]
       /\ UNCHANGED <<states, chunks, ephKeys, doneSeen, completed, createdAt, accepted>>
    BY <1>1, <1>5, <2>1 DEF Media!OnChunk, Media!Hears, MediaInv, Media!TypeOK
  <2>3. ControllerOK'
    BY <2>2 DEF ControllerOK, MediaInv, Media!TypeOK, Media!Numbers, Media!TotalChunks,
      Media!FramesOf, Media!Frame
  <2> QED
    BY <2>2, <2>3, SameController
<1> QED
  BY <1>4, <1>5

LEMMA DoneStep ==
  ASSUME MediaInv, NEW f \in wire, Media!OnDone(f)
  PROVE  ControllerOK' /\ Media!CompletedOnce' /\ Heeds' /\ Lacks'
<1>1. f.id \in Transfers /\ f \in Media!FramesOf(f.id) /\ f.type = "DONE"
  BY DEF MediaInv, Media!TypeOK, Media!OnDone
<1>2. Media!Hears(f) /\ UNCHANGED <<createdAt, accepted>>
  BY DEF Media!OnDone
<1>3. CASE f.id \in states
  <2>1. Media!TryFinalize(f.id, chunks[f.id], doneSeen \cup {f.id})
    BY <1>3 DEF Media!OnDone
  <2>2. chunks[f.id] \in SUBSET Media!Numbers(f.id) /\ f.id \in ephKeys
    BY <1>1, <1>3 DEF MediaInv, Media!TypeOK, Media!CompletedOnce
  <2> QED
    BY <1>1, <1>2, <1>3, <2>1, <2>2, FinalizeStep
<1>4. CASE f.id \notin states
  <2>1. /\ DOMAIN heard' = Transfers /\ \A t \in Transfers : heard'[t] = heard[t]
       /\ UNCHANGED <<states, chunks, ephKeys, doneSeen, completed, createdAt, accepted>>
    BY <1>1, <1>4 DEF Media!OnDone, Media!Hears, MediaInv, Media!TypeOK
  <2>2. ControllerOK'
    BY <2>1 DEF ControllerOK, MediaInv, Media!TypeOK, Media!Numbers, Media!TotalChunks,
      Media!FramesOf, Media!Frame
  <2> QED
    BY <2>1, <2>2, SameController
<1> QED
  BY <1>3, <1>4

LEMMA IncomingStep ==
  ASSUME MediaInv, NEW f \in wire, Media!OnIncoming(f), UNCHANGED faults
  PROVE  MediaInv'
<1>1. ControllerOK' /\ Media!CompletedOnce' /\ Heeds' /\ Lacks'
  BY InitStep, RefuseStep, ChunkStep, DoneStep DEF Media!OnIncoming
<1>2. Media!TypeOK'
  BY <1>1, TakenOffWire
<1> QED
  BY <1>1, <1>2 DEF MediaInv

\* A transfer that heard everything would have every chunk and DONE.
LEMMA InvNothingWaits ==
  ASSUME MediaInv
  PROVE  NothingWaits
<1> SUFFICES ASSUME NEW t \in states, heard[t] = Media!FramesOf(t) PROVE FALSE
  BY DEF NothingWaits, Media!NothingWaits
<1>1. t \in Transfers
  BY DEF MediaInv, Media!TypeOK
<1>2. t \in doneSeen
  BY <1>1, FrameFacts DEF MediaInv, Heeds
<1>3. Media!Numbers(t) \subseteq chunks[t]
  BY <1>1, FrameFacts DEF MediaInv, Heeds
<1>4. chunks[t] = Media!Numbers(t)
  BY <1>1, <1>3 DEF MediaInv, Media!TypeOK
<1> QED
  BY <1>2, <1>4 DEF MediaInv, Lacks

-----------------------------------------------------------------------------
(* Texts and files together.                                                *)

ScreenInv == InboxInv /\ ReceiptsHonest /\ OneWaits /\ MediaInv

\* A step of files leaves texts alone, any other is one of Inbox.
LEMMA ChatSteps ==
  ASSUME [ScreenNext]_screenVars
  PROVE  [Next]_vars \/ (MediaStep /\ UNCHANGED chatVars)
<1>1. ASSUME ChatStep PROVE Next
  BY <1>1 DEF ChatStep, Next
<1>2. ASSUME ActivityStep PROVE Next
  BY <1>2 DEF ActivityStep, Next
<1>3. ASSUME MediaStep PROVE UNCHANGED chatVars
  BY <1>3 DEF MediaStep
<1> QED
  BY <1>1, <1>2, <1>3 DEF ScreenNext, screenVars

LEMMA MediaFaults ==
  ASSUME MediaStep, faults \in 0..MaxFaults
  PROVE  faults' \in 0..MaxFaults
BY MediaLimits DEF Media!MediaAssumption, MediaStep, Media!Lose, Media!Repeat, Media!Fault

LEMMA TextsStep ==
  ASSUME ScreenInv, [ScreenNext]_screenVars
  PROVE  (InboxInv /\ ReceiptsHonest /\ OneWaits)'
<1>1. CASE [Next]_vars
  <2>1. TypeOK
    BY DEF ScreenInv, InboxInv
  <2> QED
    BY <1>1, <2>1, InvStep, ReceiptsStep, WaitsStep DEF ScreenInv
<1>2. CASE MediaStep /\ UNCHANGED chatVars
  <2>1. faults' \in 0..MaxFaults
    BY <1>2, MediaFaults DEF ScreenInv, InboxInv, TypeOK
  <2>2. TypeOK'
    BY <1>2, <2>1 DEF ScreenInv, InboxInv, TypeOK, chatVars, serviceVars, jobVars, dbVars, senderVars
  <2>3. Settled' /\ NotYetSent' /\ FirstComesOnce'
    BY <1>2 DEF ScreenInv, InboxInv, Settled, NotYetSent, FirstComesOnce, chatVars, serviceVars, jobVars, dbVars, senderVars
  <2>4. ClocksAgree' /\ NonceKept' /\ RowsOnce'
    BY <1>2 DEF ScreenInv, InboxInv, ClocksAgree, NonceKept, RowsOnce, Kept, Coming, Stale,
      chatVars, serviceVars, jobVars, dbVars, senderVars
  <2>5. ReceiptsHonest' /\ OneWaits'
    BY <1>2 DEF ScreenInv, ReceiptsHonest, OneWaits, Kept, Coming, Reading, Pending,
      chatVars, serviceVars, jobVars, dbVars, senderVars
  <2> QED
    BY <2>2, <2>3, <2>4, <2>5 DEF InboxInv
<1> QED
  BY <1>1, <1>2, ChatSteps

LEMMA FilesStep ==
  ASSUME ScreenInv, [ScreenNext]_screenVars
  PROVE  MediaInv'
<1>1. MediaInv /\ faults \in 0..MaxFaults
  BY DEF ScreenInv, MediaInv, Media!TypeOK
<1>2. (InboxInv /\ ReceiptsHonest /\ OneWaits)'
  BY TextsStep
<1>3. faults' \in 0..MaxFaults
  BY <1>2 DEF InboxInv, TypeOK
<1>4. CASE UNCHANGED mediaVars
  <2>1. wire' \subseteq wire \cup UNION {Media!FramesOf(t) : t \in Transfers}
    BY <1>4 DEF mediaVars
  <2>2. mediaClock' \in 0..MediaHorizon
    BY <1>1, <1>4 DEF mediaVars, MediaInv, Media!TypeOK
  <2> QED
    BY <1>1, <1>3, <1>4, <2>1, <2>2, WireStep DEF mediaVars
<1>5. CASE MediaStep
  <2>1. ASSUME NEW t \in Transfers, Media!SendMedia(t), UNCHANGED faults PROVE MediaInv'
    BY <1>1, <2>1, SendStep
  <2>2. ASSUME NEW f \in wire, Media!OnIncoming(f), UNCHANGED faults PROVE MediaInv'
    BY <1>1, <2>2, IncomingStep
  <2>3. ASSUME NEW f \in wire, Media!Lose(f) PROVE MediaInv'
    BY <1>1, <2>3, LoseStep
  <2>4. ASSUME NEW t \in Transfers, NEW k \in 0..Media!TotalChunks(t) + 1, Media!Repeat(t, k)
        PROVE  MediaInv'
    BY <1>1, <2>4, RepeatStep
  <2>5. ASSUME Media!Tick, UNCHANGED faults PROVE MediaInv'
    BY <1>1, <2>5, TickStep
  <2> QED
    BY <1>5, <2>1, <2>2, <2>3, <2>4, <2>5 DEF MediaStep
<1>6. CASE ActivityStep
  <2>1. Media!NewController
    BY <1>6 DEF ActivityStep, Media!ActivityGone
  <2> QED
    BY <1>1, <1>3, <2>1, EmptyController
<1> QED
  BY <1>4, <1>5, <1>6 DEF ScreenNext, ChatStep, screenVars

\* One invariant of texts and files.
THEOREM ScreenInvariance == ScreenSpec => []ScreenInv
<1>1. ScreenInit => ScreenInv
  BY InitInv, InitMedia DEF ScreenInit, ScreenInv
<1>2. ScreenInv /\ [ScreenNext]_screenVars => ScreenInv'
  BY TextsStep, FilesStep DEF ScreenInv
<1> QED
  BY <1>1, <1>2, PTL DEF ScreenSpec

\* Every variable of texts and files keeps its kind.
THEOREM ScreenTypes == ScreenSpec => []ScreenTypeOK
<1>1. ScreenInv => ScreenTypeOK
  BY DEF ScreenInv, InboxInv, MediaInv, ScreenTypeOK
<1> QED
  BY <1>1, ScreenInvariance, PTL

\* What holds of texts holds while files come through the same dispatch.
THEOREM TextsBesideFiles ==
  ScreenSpec => [](ShownAtMostOnce /\ AckedIsKept /\ AtMostOneStranded)
<1>1. ScreenInv => ShownAtMostOnce /\ AckedIsKept /\ AtMostOneStranded
  BY InvShownOnce, InvAcked, InvStranded DEF ScreenInv
<1> QED
  BY <1>1, ScreenInvariance, PTL

\* No file waits that has got everything, whatever the order (tryFinalize on
\* every chunk and on DONE).
THEOREM NoFileWaits == ScreenSpec => []NothingWaits
<1>1. ScreenInv => NothingWaits
  BY InvNothingWaits DEF ScreenInv
<1> QED
  BY <1>1, ScreenInvariance, PTL

\* A file is shown at most once per INIT that onInit took.
THEOREM FileOnce == ScreenSpec => []CompletedOnce
<1>1. ScreenInv => CompletedOnce
  BY DEF ScreenInv, MediaInv, CompletedOnce
<1> QED
  BY <1>1, ScreenInvariance, PTL

-----------------------------------------------------------------------------
(* Memory.                                                                  *)

\* The slots that the files of files reserve, and the slots of one file.
Slots(t) == {t} \X (1..Bytes[t])
AllSlots(files) == UNION {Slots(t) : t \in files}

\* Memory is counted, and within the limits.
Within == IsFiniteSet(states) /\ ReservedWithinLimit

\* MediaTransfer counts as Screen does.
LEMMA SameCardinality == \A S : Media!Cardinality(S) = Cardinality(S)
BY DEF Media!Cardinality, Cardinality

LEMMA SlotsOfOne ==
  ASSUME NEW t \in Transfers
  PROVE  IsFiniteSet(Slots(t)) /\ Cardinality(Slots(t)) = Bytes[t]
<1>1. Bytes[t] \in Nat
  BY MediaLimits DEF Media!MediaAssumption
<1>2. IsFiniteSet(1..Bytes[t]) /\ Cardinality(1..Bytes[t]) = Bytes[t]
  BY <1>1, FS_Interval
<1>3. IsFiniteSet({t}) /\ Cardinality({t}) = 1
  BY FS_Singleton
<1>4. /\ IsFiniteSet({t} \X (1..Bytes[t]))
      /\ Cardinality({t} \X (1..Bytes[t])) = Cardinality({t}) * Cardinality(1..Bytes[t])
  BY <1>2, <1>3, FS_Product
<1> QED
  BY <1>1, <1>2, <1>3, <1>4 DEF Slots

LEMMA SlotsFinite ==
  ASSUME NEW files \in SUBSET Transfers, IsFiniteSet(files)
  PROVE  IsFiniteSet(AllSlots(files))
<1>1. PICK images : images = {Slots(t) : t \in files}
  OBVIOUS
<1>2. [t \in files |-> Slots(t)] \in Surjection(files, images)
  BY <1>1 DEF Surjection
<1>3. IsFiniteSet(images)
  BY <1>2, FS_Surjection
<1>4. \A S \in images : IsFiniteSet(S)
  BY <1>1, SlotsOfOne
<1> QED
  BY <1>1, <1>3, <1>4, FS_UNION DEF AllSlots

\* Reserved is the sum that onInit takes: nothing for no file, and a file more
\* adds its bytes; with fewer files it is no larger.
LEMMA ReservedIsSum ==
  /\ Media!Reserved({}) = 0
  /\ \A files \in SUBSET Transfers : IsFiniteSet(files) =>
       /\ Media!Reserved(files) \in Nat
       /\ \A t \in Transfers \ files : Media!Reserved(files \cup {t}) = Media!Reserved(files) + Bytes[t]
       /\ \A fewer \in SUBSET files : Media!Reserved(fewer) <= Media!Reserved(files)
<1>1. ASSUME NEW files PROVE Media!Reserved(files) = Cardinality(AllSlots(files))
  <2>1. AllSlots(files) = UNION {{t} \X (1..Bytes[t]) : t \in files}
    BY DEF AllSlots, Slots
  <2> QED
    BY <2>1, SameCardinality DEF Media!Reserved
<1>2. AllSlots({}) = {}
  BY DEF AllSlots
<1>3. ASSUME NEW files \in SUBSET Transfers, IsFiniteSet(files), NEW t \in Transfers \ files
      PROVE  Media!Reserved(files \cup {t}) = Media!Reserved(files) + Bytes[t]
  <2>1. AllSlots(files \cup {t}) = AllSlots(files) \cup Slots(t) /\ AllSlots(files) \cap Slots(t) = {}
    BY <1>3 DEF AllSlots, Slots
  <2>2. IsFiniteSet(AllSlots(files)) /\ IsFiniteSet(Slots(t)) /\ Cardinality(Slots(t)) = Bytes[t]
    BY <1>3, SlotsFinite, SlotsOfOne
  <2>3. Cardinality(AllSlots(files) \cup Slots(t))
          = Cardinality(AllSlots(files)) + Cardinality(Slots(t)) - Cardinality(AllSlots(files) \cap Slots(t))
    BY <2>2, FS_Union
  <2>4. Cardinality(AllSlots(files)) \in Nat /\ Cardinality(Slots(t)) \in Nat
    BY <2>2, FS_CardinalityType
  <2>5. Cardinality(AllSlots(files) \cap Slots(t)) = 0
    BY <2>1, FS_EmptySet
  <2>6. Cardinality(AllSlots(files \cup {t})) = Cardinality(AllSlots(files)) + Bytes[t]
    <3>1. PICK c, d : c = Cardinality(AllSlots(files)) /\ d = Cardinality(AllSlots(files) \cup Slots(t))
      OBVIOUS
    <3>2. d = c + Bytes[t] - 0 /\ c \in Nat /\ Bytes[t] \in Nat
      BY <2>2, <2>3, <2>4, <2>5, <3>1
    <3>3. d = c + Bytes[t]
      BY <3>2
    <3> QED
      BY <2>1, <3>1, <3>3
  <2> QED
    BY <1>1, <2>6
<1>4. ASSUME NEW files \in SUBSET Transfers, IsFiniteSet(files), NEW fewer \in SUBSET files
      PROVE  Media!Reserved(fewer) <= Media!Reserved(files)
  <2>1. AllSlots(fewer) \subseteq AllSlots(files)
    BY DEF AllSlots
  <2> QED
    BY <1>1, <1>4, <2>1, SlotsFinite, FS_Subset
<1>5. ASSUME NEW files \in SUBSET Transfers, IsFiniteSet(files) PROVE Media!Reserved(files) \in Nat
  BY <1>1, <1>5, SlotsFinite, FS_CardinalityType
<1> QED
  BY <1>1, <1>2, <1>3, <1>4, <1>5, FS_EmptySet

\* Transfers that go give memory back.
LEMMA FewerFit ==
  ASSUME Within, NEW files \in SUBSET states, states \subseteq Transfers, states' = files
  PROVE  Within'
<1>1. IsFiniteSet(files) /\ Cardinality(files) <= Cardinality(states)
  BY FS_Subset DEF Within
<1>2. Media!Reserved(files) <= Media!Reserved(states)
  BY ReservedIsSum DEF Within
<1>3. Media!Reserved(states)' = Media!Reserved(files)
  BY DEF Media!Reserved
<1>4. /\ Media!Reserved(files) \in Nat /\ Media!Reserved(states) \in Nat
      /\ Cardinality(files) \in Nat /\ Cardinality(states) \in Nat
  BY <1>1, ReservedIsSum, FS_CardinalityType DEF Within
<1>5. MAX_TRANSFER \in Nat /\ MAX_ACTIVE \in Nat
  BY MediaLimits DEF Media!MediaAssumption
<1> QED
  BY <1>1, <1>2, <1>3, <1>4, <1>5, SameCardinality DEF Within, ReservedWithinLimit, Media!ReservedWithinLimit

LEMMA WithinStep ==
  ASSUME ScreenInv, Within, [ScreenNext]_screenVars
  PROVE  Within'
<1>1. states \subseteq Transfers
  BY DEF ScreenInv, MediaInv, Media!TypeOK
<1>2. CASE states' = states
  BY <1>1, <1>2, FewerFit
<1>3. CASE states' = {}
  BY <1>1, <1>3, FewerFit
<1>4. ASSUME NEW f \in wire, Media!AcceptInit(f) PROVE Within'
  <2>1. PICK t \in Transfers : t = f.id
    BY DEF ScreenInv, MediaInv, Media!TypeOK
  <2>2. /\ t \notin states /\ states' = Media!Live \cup {t}
        /\ Cardinality(Media!Live) < MAX_ACTIVE
        /\ Media!Reserved(Media!Live) + Bytes[t] <= MAX_TRANSFER
    BY <1>4, <2>1, SameCardinality DEF Media!AcceptInit, Media!Considered, Media!Room
  <2>3. Media!Live \subseteq states
    BY DEF Media!Live
  <2>4. IsFiniteSet(Media!Live) /\ Cardinality(Media!Live) \in Nat
    BY <2>3, FS_Subset, FS_CardinalityType DEF Within
  <2>5. t \notin Media!Live /\ Media!Live \in SUBSET Transfers
    BY <1>1, <2>2, <2>3
  <2>6. /\ IsFiniteSet(Media!Live \cup {t})
        /\ Cardinality(Media!Live \cup {t}) = Cardinality(Media!Live) + 1
    BY <2>4, <2>5, FS_AddElement
  <2>7. Media!Reserved(Media!Live \cup {t}) = Media!Reserved(Media!Live) + Bytes[t]
    BY <2>4, <2>5, ReservedIsSum
  <2>8. Media!Reserved(states)' = Media!Reserved(Media!Live \cup {t})
    BY <2>2 DEF Media!Reserved
  <2>9. MAX_ACTIVE \in Nat
    BY MediaLimits DEF Media!MediaAssumption
  <2> QED
    BY <2>2, <2>4, <2>6, <2>7, <2>8, <2>9, SameCardinality DEF Within, ReservedWithinLimit, Media!ReservedWithinLimit
<1>5. ASSUME NEW f \in wire, Media!RefuseInit(f) \/ Media!OnChunk(f) \/ Media!OnDone(f) PROVE Within'
  <2>1. states' \subseteq states
    BY <1>5 DEF Media!RefuseInit, Media!OnChunk, Media!OnDone, Media!TryFinalize, Media!Live
  <2> QED
    BY <1>1, <2>1, FewerFit
<1>6. CASE UNCHANGED mediaVars
  BY <1>2, <1>6 DEF mediaVars
<1>7. CASE MediaStep
  <2>1. ASSUME NEW f \in wire, Media!OnIncoming(f) PROVE Within'
    BY <1>4, <1>5, <2>1 DEF Media!OnIncoming
  <2>2. ASSUME ~\E f \in wire : Media!OnIncoming(f) PROVE states' = states
    BY <1>7, <2>2 DEF MediaStep, Media!SendMedia, Media!Lose, Media!Repeat, Media!Tick, Media!managerVars
  <2> QED
    BY <1>2, <2>1, <2>2
<1>8. CASE ActivityStep
  BY <1>3, <1>8 DEF ActivityStep, Media!ActivityGone, Media!NewController
<1> QED
  BY <1>6, <1>7, <1>8 DEF ScreenNext, ChatStep, screenVars

\* The files under way never reserve more than MAX_RESERVED nor are more than
\* MAX_ACTIVE (onInit counts both after its sweep).
THEOREM MemoryBounded == ScreenSpec => []ReservedWithinLimit
<1>1. ScreenInit => Within
  <2> SUFFICES ASSUME ScreenInit PROVE Within
    OBVIOUS
  <2>1. states = {}
    BY DEF ScreenInit, Media!Init
  <2>2. MAX_TRANSFER \in Nat /\ MAX_ACTIVE \in Nat
    BY MediaLimits DEF Media!MediaAssumption
  <2> QED
    BY <2>1, <2>2, ReservedIsSum, FS_EmptySet, SameCardinality DEF Within, ReservedWithinLimit, Media!ReservedWithinLimit
<1>2. ScreenInv /\ Within /\ [ScreenNext]_screenVars => Within'
  BY WithinStep
<1>3. Within => ReservedWithinLimit
  BY DEF Within
<1> QED
  BY <1>1, <1>2, <1>3, ScreenInvariance, PTL DEF ScreenSpec
=============================================================================
