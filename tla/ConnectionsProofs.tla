------------------------- MODULE ConnectionsProofs ---------------------------
(***************************************************************************)
(* Proofs about Connections for any number of sockets and frames and every  *)
(* value of the limits.                                                     *)
(***************************************************************************)
EXTENDS Connections, FiniteSetTheorems, TLAPS

\* A frame is in the hands of a flushOutbox only while that runs.
HeldWhileFlushing == \A s \in Sockets : held[s] # NoFrame => opener[s] = "flushing"

\* Only the socket assigned, or the one about to be, can be alive; connect has
\* given up the former before it makes the latter.
LiveIsCurrent ==
  /\ \A s \in Sockets : up[s] => s \in {webSocket, assigning}
  /\ assigning # 0 => webSocket = 0

\* The relay has heard only of sockets that were made.
RelayKnowsMade == \A s \in Sockets : opener[s] = "none" => relay[s] = "none"

Counted == {s \in Sockets : relay[s] = "counted"}

\* The four ways to connect, all on the main thread.
Reconnects ==
  \/ Start
  \/ Resume
  \/ NetAvailable
  \/ TimerFires /\ ~isConnected

LEMMA Connects ==
  ASSUME Reconnects
  PROVE  MainThread /\ \E s \in Sockets : ConnectAs(s)
<1>1. CASE Start
  BY <1>1 DEF Start, Connect
<1>2. CASE Resume
  BY <1>2 DEF Resume, Connect
<1>3. CASE NetAvailable
  BY <1>3 DEF NetAvailable, Connect
<1>4. CASE TimerFires /\ ~isConnected
  BY <1>4 DEF TimerFires, Connect
<1> QED
  BY <1>1, <1>2, <1>3, <1>4 DEF Reconnects

LEMMA ConnectTimers ==
  ASSUME timers \in Nat, Reconnects
  PROVE  timers' \in Nat
<1>1. CASE Start
  BY <1>1 DEF Start
<1>2. CASE Resume
  BY <1>2 DEF Resume
<1>3. CASE NetAvailable
  BY <1>3 DEF NetAvailable
<1>4. CASE TimerFires /\ ~isConnected
  BY <1>4 DEF TimerFires
<1> QED
  BY <1>1, <1>2, <1>3, <1>4 DEF Reconnects

\* A socket made over is Free: never opened, or failed, closed and forgotten.
LEMMA FreeIsIdle ==
  ASSUME NEW s \in Sockets, Free(s)
  PROVE  /\ opener[s] \in {"none", "connecting", "open"}
         /\ opener[s] = "none" \/ failure[s] = "done"
         /\ opener[s] = "none" \/ relay[s] \in {"none", "closed"}
BY DEF Free

LEMMA InitType == Init => TypeOK
<1> SUFFICES ASSUME Init PROVE TypeOK
  OBVIOUS
<1>1. webSocket \in Sockets \cup {0} /\ assigning \in Sockets \cup {0}
  BY DEF Init
<1>2. /\ opener \in [Sockets -> {"none", "connecting", "opening", "flushing", "open"}]
      /\ failure \in [Sockets -> {"no", "telling", "checking", "clearing", "arming", "done"}]
      /\ relay \in [Sockets -> {"none", "counted", "errored", "closed"}]
  BY DEF Init
<1>3. /\ held \in [Sockets -> Frames \cup {NoFrame}]
      /\ frame \in [Frames -> {"idle", "deciding", "queued"}]
      /\ up \in [Sockets -> BOOLEAN]
  BY DEF Init
<1>4. outbox \in Seq(Frames) /\ timers \in Nat /\ ipCount \in Nat
  BY DEF Init
<1> QED
  BY <1>1, <1>2, <1>3, <1>4 DEF Init, TypeOK

LEMMA TypeStep ==
  ASSUME TypeOK, [Next]_vars
  PROVE  TypeOK'
<1>1. CASE UNCHANGED vars
  BY <1>1 DEF TypeOK, vars, clientVars, handlerVars, frameVars, relayVars
<1>2. CASE Reconnects
  <2>1. MainThread /\ timers' \in Nat
    BY <1>2, Connects, ConnectTimers DEF TypeOK
  <2>2. PICK s \in Sockets : ConnectAs(s)
    BY <1>2, Connects
  <2>3. up' \in [Sockets -> BOOLEAN]
    BY <2>2 DEF ConnectAs, Cancelled, TypeOK
  <2> QED
    BY <2>1, <2>2, <2>3 DEF ConnectAs, TypeOK, frameVars
<1>3. CASE TimerFires /\ isConnected
  BY <1>3 DEF TimerFires, TypeOK, vars, clientVars, handlerVars, frameVars, relayVars
<1>4. CASE Assign
  BY <1>4 DEF Assign, MainThread, TypeOK, vars, clientVars, handlerVars, frameVars, relayVars
<1>5. ASSUME NEW s \in Sockets, OnOpen(s) PROVE TypeOK'
  BY <1>5 DEF OnOpen, TypeOK, vars, clientVars, handlerVars, frameVars, relayVars
<1>6. ASSUME NEW s \in Sockets, TellConnected(s) PROVE TypeOK'
  BY <1>6 DEF TellConnected, TypeOK, vars, clientVars, handlerVars, frameVars, relayVars
<1>7. ASSUME NEW s \in Sockets, FlushPoll(s) PROVE TypeOK'
  <2>1. outbox' \in Seq(Frames) /\ held' \in [Sockets -> Frames \cup {NoFrame}]
    <3>1. CASE outbox = <<>>
      BY <1>7, <3>1 DEF FlushPoll, TypeOK
    <3>2. CASE outbox # <<>>
      <4>1. Head(outbox) \in Frames /\ Tail(outbox) \in Seq(Frames)
        BY <3>2 DEF TypeOK
      <4> QED
        BY <1>7, <3>2, <4>1 DEF FlushPoll, TypeOK
    <3> QED
      BY <3>1, <3>2
  <2>2. opener' \in [Sockets -> {"none", "connecting", "opening", "flushing", "open"}]
    BY <1>7 DEF FlushPoll, TypeOK
  <2> QED
    BY <1>7, <2>1, <2>2 DEF FlushPoll, TypeOK, handlerVars, relayVars
<1>8. ASSUME NEW s \in Sockets, FlushSend(s) PROVE TypeOK'
  <2>1. held[s] \in Frames /\ <<held[s]>> \o outbox \in Seq(Frames)
    BY <1>8 DEF FlushSend, TypeOK
  <2>2. outbox' \in Seq(Frames)
    BY <1>8, <2>1 DEF FlushSend, TypeOK
  <2>3. frame' \in [Frames -> {"idle", "deciding", "queued"}]
    BY <1>8, <2>1 DEF FlushSend, TypeOK
  <2>4. /\ held' \in [Sockets -> Frames \cup {NoFrame}]
        /\ opener' \in [Sockets -> {"none", "connecting", "opening", "flushing", "open"}]
    BY <1>8 DEF FlushSend, TypeOK
  <2> QED
    BY <1>8, <2>2, <2>3, <2>4 DEF FlushSend, TypeOK, handlerVars, relayVars
<1>9. ASSUME NEW s \in Sockets, OnFailure(s) PROVE TypeOK'
  BY <1>9 DEF OnFailure, TypeOK, vars, clientVars, handlerVars, frameVars, relayVars
<1>10. ASSUME NEW s \in Sockets, TellFailed(s) PROVE TypeOK'
  BY <1>10 DEF TellFailed, TypeOK, vars, clientVars, handlerVars, frameVars, relayVars
<1>11. ASSUME NEW s \in Sockets, ScheduleCheck(s) PROVE TypeOK'
  BY <1>11 DEF ScheduleCheck, TypeOK, vars, clientVars, handlerVars, frameVars, relayVars
<1>12. ASSUME NEW s \in Sockets, ScheduleClear(s) PROVE TypeOK'
  BY <1>12 DEF ScheduleClear, TypeOK, vars, clientVars, handlerVars, frameVars, relayVars
<1>13. ASSUME NEW s \in Sockets, ScheduleArm(s) PROVE TypeOK'
  BY <1>13 DEF ScheduleArm, TypeOK, vars, clientVars, handlerVars, frameVars, relayVars
<1>14. ASSUME NEW s \in Sockets, RelayAccept(s) PROVE TypeOK'
  <2>1. /\ relay' \in [Sockets -> {"none", "counted", "errored", "closed"}]
        /\ up' \in [Sockets -> BOOLEAN] /\ ipCount' \in Nat
    <3>1. CASE ipCount >= MAX_CONNECTIONS_PER_IP
      BY <1>14, <3>1 DEF RelayAccept, TypeOK
    <3>2. CASE ~(ipCount >= MAX_CONNECTIONS_PER_IP)
      BY <1>14, <3>2 DEF RelayAccept, TypeOK
    <3> QED
      BY <3>1, <3>2
  <2> QED
    BY <1>14, <2>1 DEF RelayAccept, TypeOK, clientVars, handlerVars, frameVars
<1>15. ASSUME NEW s \in Sockets, RelayError(s) PROVE TypeOK'
  BY <1>15 DEF RelayError, Decremented, TypeOK, clientVars, handlerVars, frameVars
<1>16. ASSUME NEW s \in Sockets, RelayClose(s) PROVE TypeOK'
  BY <1>16 DEF RelayClose, Decremented, TypeOK, clientVars, handlerVars, frameVars
<1>17. ASSUME NEW s \in Sockets, Break(s) PROVE TypeOK'
  BY <1>17 DEF Break, TypeOK, vars, clientVars, handlerVars, frameVars, relayVars
<1>18. ASSUME NEW f \in Frames, Submit(f) PROVE TypeOK'
  BY <1>18 DEF Submit, TypeOK, vars, clientVars, handlerVars, frameVars, relayVars
<1>19. ASSUME NEW f \in Frames, Enqueue(f) PROVE TypeOK'
  <2>1. Len(outbox) \in Nat /\ (Len(outbox) >= OUTBOX_MAX => outbox # <<>>)
    BY LimitsAssumption DEF LimitsAssumption, TypeOK
  <2>2. outbox' \in Seq(Frames)
    BY <1>19, <2>1 DEF Enqueue, TypeOK
  <2>3. frame' \in [Frames -> {"idle", "deciding", "queued"}]
    <3>1. CASE Len(outbox) >= OUTBOX_MAX
      BY <1>19, <2>1, <3>1 DEF Enqueue, TypeOK
    <3>2. CASE ~(Len(outbox) >= OUTBOX_MAX)
      BY <1>19, <3>2 DEF Enqueue, TypeOK
    <3> QED
      BY <3>1, <3>2
  <2> QED
    BY <1>19, <2>2, <2>3 DEF Enqueue, TypeOK, clientVars, handlerVars, relayVars
<1> QED
  BY <1>1, <1>2, <1>3, <1>4, <1>5, <1>6, <1>7, <1>8, <1>9, <1>10, <1>11, <1>12, <1>13, <1>14, <1>15, <1>16, <1>17, <1>18, <1>19
     DEF Next, Callback, RelayStep, Reconnects

\* Every variable keeps to the values of its kind.
THEOREM TypeCorrect == Spec => []TypeOK
<1>1. Init => TypeOK
  BY InitType
<1>2. TypeOK /\ [Next]_vars => TypeOK'
  BY TypeStep
<1> QED
  BY <1>1, <1>2, PTL DEF Spec

LEMMA HeldStep ==
  ASSUME TypeOK, HeldWhileFlushing, [Next]_vars
  PROVE  HeldWhileFlushing'
<1>1. CASE UNCHANGED vars
  BY <1>1 DEF HeldWhileFlushing, TypeOK, vars, clientVars, handlerVars, frameVars, relayVars
<1>2. CASE Reconnects
  <2>1. PICK s \in Sockets : ConnectAs(s)
    BY <1>2, Connects
  <2>2. held[s] = NoFrame
    BY <2>1, FreeIsIdle DEF ConnectAs, Lowest, HeldWhileFlushing
  <2> QED
    BY <2>1, <2>2 DEF ConnectAs, HeldWhileFlushing, TypeOK, frameVars
<1>3. CASE TimerFires /\ isConnected
  BY <1>3 DEF TimerFires, HeldWhileFlushing, TypeOK, vars, clientVars, handlerVars, frameVars, relayVars
<1>4. CASE Assign
  BY <1>4 DEF Assign, MainThread, HeldWhileFlushing, TypeOK, vars, clientVars, handlerVars, frameVars, relayVars
<1>5. ASSUME NEW s \in Sockets, OnOpen(s) PROVE HeldWhileFlushing'
  BY <1>5 DEF OnOpen, HeldWhileFlushing, TypeOK, vars, clientVars, handlerVars, frameVars, relayVars
<1>6. ASSUME NEW s \in Sockets, TellConnected(s) PROVE HeldWhileFlushing'
  BY <1>6 DEF TellConnected, HeldWhileFlushing, TypeOK, vars, clientVars, handlerVars, frameVars, relayVars
<1>7. ASSUME NEW s \in Sockets, FlushPoll(s) PROVE HeldWhileFlushing'
  BY <1>7 DEF FlushPoll, HeldWhileFlushing, TypeOK, vars, clientVars, handlerVars, frameVars, relayVars
<1>8. ASSUME NEW s \in Sockets, FlushSend(s) PROVE HeldWhileFlushing'
  BY <1>8 DEF FlushSend, HeldWhileFlushing, TypeOK, vars, clientVars, handlerVars, frameVars, relayVars
<1>9. ASSUME NEW s \in Sockets, OnFailure(s) PROVE HeldWhileFlushing'
  BY <1>9 DEF OnFailure, HeldWhileFlushing, TypeOK, vars, clientVars, handlerVars, frameVars, relayVars
<1>10. ASSUME NEW s \in Sockets, TellFailed(s) PROVE HeldWhileFlushing'
  BY <1>10 DEF TellFailed, HeldWhileFlushing, TypeOK, vars, clientVars, handlerVars, frameVars, relayVars
<1>11. ASSUME NEW s \in Sockets, ScheduleCheck(s) PROVE HeldWhileFlushing'
  BY <1>11 DEF ScheduleCheck, HeldWhileFlushing, TypeOK, vars, clientVars, handlerVars, frameVars, relayVars
<1>12. ASSUME NEW s \in Sockets, ScheduleClear(s) PROVE HeldWhileFlushing'
  BY <1>12 DEF ScheduleClear, HeldWhileFlushing, TypeOK, vars, clientVars, handlerVars, frameVars, relayVars
<1>13. ASSUME NEW s \in Sockets, ScheduleArm(s) PROVE HeldWhileFlushing'
  BY <1>13 DEF ScheduleArm, HeldWhileFlushing, TypeOK, vars, clientVars, handlerVars, frameVars, relayVars
<1>14. ASSUME NEW s \in Sockets, RelayAccept(s) PROVE HeldWhileFlushing'
  BY <1>14 DEF RelayAccept, HeldWhileFlushing, TypeOK, vars, clientVars, handlerVars, frameVars, relayVars
<1>15. ASSUME NEW s \in Sockets, RelayError(s) PROVE HeldWhileFlushing'
  BY <1>15 DEF RelayError, HeldWhileFlushing, TypeOK, vars, clientVars, handlerVars, frameVars, relayVars
<1>16. ASSUME NEW s \in Sockets, RelayClose(s) PROVE HeldWhileFlushing'
  BY <1>16 DEF RelayClose, HeldWhileFlushing, TypeOK, vars, clientVars, handlerVars, frameVars, relayVars
<1>17. ASSUME NEW s \in Sockets, Break(s) PROVE HeldWhileFlushing'
  BY <1>17 DEF Break, HeldWhileFlushing, TypeOK, vars, clientVars, handlerVars, frameVars, relayVars
<1>18. ASSUME NEW f \in Frames, Submit(f) PROVE HeldWhileFlushing'
  BY <1>18 DEF Submit, HeldWhileFlushing, TypeOK, vars, clientVars, handlerVars, frameVars, relayVars
<1>19. ASSUME NEW f \in Frames, Enqueue(f) PROVE HeldWhileFlushing'
  BY <1>19 DEF Enqueue, HeldWhileFlushing, TypeOK, vars, clientVars, handlerVars, frameVars, relayVars
<1> QED
  BY <1>1, <1>2, <1>3, <1>4, <1>5, <1>6, <1>7, <1>8, <1>9, <1>10, <1>11, <1>12, <1>13, <1>14, <1>15, <1>16, <1>17, <1>18, <1>19
     DEF Next, Callback, RelayStep, Reconnects

LEMMA ConnectedStep ==
  ASSUME TypeOK, HeldWhileFlushing, ConnectedMeansOpen, [Next]_vars
  PROVE  ConnectedMeansOpen'
<1>1. CASE UNCHANGED vars
  BY <1>1 DEF ConnectedMeansOpen, TypeOK, vars, clientVars, handlerVars, frameVars, relayVars
<1>2. CASE Reconnects
  <2>1. PICK s \in Sockets : ConnectAs(s)
    BY <1>2, Connects
  <2>2. \A t \in Sockets : t # s => opener'[t] = opener[t] /\ failure'[t] = failure[t]
    BY <2>1 DEF ConnectAs, TypeOK
  <2> QED
    BY <2>1, <2>2, FreeIsIdle DEF ConnectAs, Lowest, ConnectedMeansOpen
<1>3. CASE TimerFires /\ isConnected
  BY <1>3 DEF TimerFires, ConnectedMeansOpen, TypeOK, vars, clientVars, handlerVars, frameVars, relayVars
<1>4. CASE Assign
  BY <1>4 DEF Assign, MainThread, ConnectedMeansOpen, TypeOK, vars, clientVars, handlerVars, frameVars, relayVars
<1>5. ASSUME NEW s \in Sockets, OnOpen(s) PROVE ConnectedMeansOpen'
  BY <1>5 DEF OnOpen, ConnectedMeansOpen, TypeOK, vars, clientVars, handlerVars, frameVars, relayVars
<1>6. ASSUME NEW s \in Sockets, TellConnected(s) PROVE ConnectedMeansOpen'
  BY <1>6 DEF TellConnected, ConnectedMeansOpen, TypeOK, vars, clientVars, handlerVars, frameVars, relayVars
<1>7. ASSUME NEW s \in Sockets, FlushPoll(s) PROVE ConnectedMeansOpen'
  BY <1>7 DEF FlushPoll, ConnectedMeansOpen, TypeOK, vars, clientVars, handlerVars, frameVars, relayVars
<1>8. ASSUME NEW s \in Sockets, FlushSend(s) PROVE ConnectedMeansOpen'
  BY <1>8 DEF FlushSend, HeldWhileFlushing, ConnectedMeansOpen, TypeOK
<1>9. ASSUME NEW s \in Sockets, OnFailure(s) PROVE ConnectedMeansOpen'
  BY <1>9 DEF OnFailure, ConnectedMeansOpen, TypeOK, vars, clientVars, handlerVars, frameVars, relayVars
<1>10. ASSUME NEW s \in Sockets, TellFailed(s) PROVE ConnectedMeansOpen'
  BY <1>10 DEF TellFailed, ConnectedMeansOpen, TypeOK, vars, clientVars, handlerVars, frameVars, relayVars
<1>11. ASSUME NEW s \in Sockets, ScheduleCheck(s) PROVE ConnectedMeansOpen'
  BY <1>11 DEF ScheduleCheck, ConnectedMeansOpen, TypeOK, vars, clientVars, handlerVars, frameVars, relayVars
<1>12. ASSUME NEW s \in Sockets, ScheduleClear(s) PROVE ConnectedMeansOpen'
  BY <1>12 DEF ScheduleClear, ConnectedMeansOpen, TypeOK, vars, clientVars, handlerVars, frameVars, relayVars
<1>13. ASSUME NEW s \in Sockets, ScheduleArm(s) PROVE ConnectedMeansOpen'
  BY <1>13 DEF ScheduleArm, ConnectedMeansOpen, TypeOK, vars, clientVars, handlerVars, frameVars, relayVars
<1>14. ASSUME NEW s \in Sockets, RelayAccept(s) PROVE ConnectedMeansOpen'
  BY <1>14 DEF RelayAccept, ConnectedMeansOpen, TypeOK, vars, clientVars, handlerVars, frameVars, relayVars
<1>15. ASSUME NEW s \in Sockets, RelayError(s) PROVE ConnectedMeansOpen'
  BY <1>15 DEF RelayError, ConnectedMeansOpen, TypeOK, vars, clientVars, handlerVars, frameVars, relayVars
<1>16. ASSUME NEW s \in Sockets, RelayClose(s) PROVE ConnectedMeansOpen'
  BY <1>16 DEF RelayClose, ConnectedMeansOpen, TypeOK, vars, clientVars, handlerVars, frameVars, relayVars
<1>17. ASSUME NEW s \in Sockets, Break(s) PROVE ConnectedMeansOpen'
  BY <1>17 DEF Break, ConnectedMeansOpen, TypeOK, vars, clientVars, handlerVars, frameVars, relayVars
<1>18. ASSUME NEW f \in Frames, Submit(f) PROVE ConnectedMeansOpen'
  BY <1>18 DEF Submit, ConnectedMeansOpen, TypeOK, vars, clientVars, handlerVars, frameVars, relayVars
<1>19. ASSUME NEW f \in Frames, Enqueue(f) PROVE ConnectedMeansOpen'
  BY <1>19 DEF Enqueue, ConnectedMeansOpen, TypeOK, vars, clientVars, handlerVars, frameVars, relayVars
<1> QED
  BY <1>1, <1>2, <1>3, <1>4, <1>5, <1>6, <1>7, <1>8, <1>9, <1>10, <1>11, <1>12, <1>13, <1>14, <1>15, <1>16, <1>17, <1>18, <1>19
     DEF Next, Callback, RelayStep, Reconnects

LEMMA RetryStep ==
  ASSUME TypeOK, HeldWhileFlushing, RetryAtHand, [Next]_vars
  PROVE  RetryAtHand'
<1>1. CASE UNCHANGED vars
  BY <1>1 DEF RetryAtHand, TypeOK, vars, clientVars, handlerVars, frameVars, relayVars
<1>2. CASE Reconnects
  <2>1. PICK s \in Sockets : ConnectAs(s)
    BY <1>2, Connects
  <2>2. opener'[s] = "connecting" /\ failure'[s] = "no"
    BY <2>1 DEF ConnectAs, TypeOK
  <2> QED
    BY <2>2 DEF RetryAtHand
<1>3. CASE TimerFires /\ isConnected
  BY <1>3 DEF TimerFires, RetryAtHand, TypeOK, vars, clientVars, handlerVars, frameVars, relayVars
<1>4. CASE Assign
  BY <1>4 DEF Assign, MainThread, RetryAtHand, TypeOK, vars, clientVars, handlerVars, frameVars, relayVars
<1>5. ASSUME NEW s \in Sockets, OnOpen(s) PROVE RetryAtHand'
  BY <1>5 DEF OnOpen, RetryAtHand, TypeOK, vars, clientVars, handlerVars, frameVars, relayVars
<1>6. ASSUME NEW s \in Sockets, TellConnected(s) PROVE RetryAtHand'
  BY <1>6 DEF TellConnected, RetryAtHand, TypeOK, vars, clientVars, handlerVars, frameVars, relayVars
<1>7. ASSUME NEW s \in Sockets, FlushPoll(s) PROVE RetryAtHand'
  BY <1>7 DEF FlushPoll, RetryAtHand, TypeOK, vars, clientVars, handlerVars, frameVars, relayVars
<1>8. ASSUME NEW s \in Sockets, FlushSend(s) PROVE RetryAtHand'
  BY <1>8 DEF FlushSend, HeldWhileFlushing, RetryAtHand, TypeOK, handlerVars
<1>9. ASSUME NEW s \in Sockets, OnFailure(s) PROVE RetryAtHand'
  BY <1>9 DEF OnFailure, RetryAtHand, TypeOK, vars, clientVars, handlerVars, frameVars, relayVars
<1>10. ASSUME NEW s \in Sockets, TellFailed(s) PROVE RetryAtHand'
  BY <1>10 DEF TellFailed, RetryAtHand, TypeOK, vars, clientVars, handlerVars, frameVars, relayVars
<1>11. ASSUME NEW s \in Sockets, ScheduleCheck(s) PROVE RetryAtHand'
  BY <1>11 DEF ScheduleCheck, RetryAtHand, TypeOK, vars, clientVars, handlerVars, frameVars, relayVars
<1>12. ASSUME NEW s \in Sockets, ScheduleClear(s) PROVE RetryAtHand'
  BY <1>12 DEF ScheduleClear, RetryAtHand, TypeOK, vars, clientVars, handlerVars, frameVars, relayVars
<1>13. ASSUME NEW s \in Sockets, ScheduleArm(s) PROVE RetryAtHand'
  BY <1>13 DEF ScheduleArm, RetryAtHand, TypeOK, vars, clientVars, handlerVars, frameVars, relayVars
<1>14. ASSUME NEW s \in Sockets, RelayAccept(s) PROVE RetryAtHand'
  BY <1>14 DEF RelayAccept, RetryAtHand, TypeOK, vars, clientVars, handlerVars, frameVars, relayVars
<1>15. ASSUME NEW s \in Sockets, RelayError(s) PROVE RetryAtHand'
  BY <1>15 DEF RelayError, RetryAtHand, TypeOK, vars, clientVars, handlerVars, frameVars, relayVars
<1>16. ASSUME NEW s \in Sockets, RelayClose(s) PROVE RetryAtHand'
  BY <1>16 DEF RelayClose, RetryAtHand, TypeOK, vars, clientVars, handlerVars, frameVars, relayVars
<1>17. ASSUME NEW s \in Sockets, Break(s) PROVE RetryAtHand'
  BY <1>17 DEF Break, RetryAtHand, TypeOK, vars, clientVars, handlerVars, frameVars, relayVars
<1>18. ASSUME NEW f \in Frames, Submit(f) PROVE RetryAtHand'
  BY <1>18 DEF Submit, RetryAtHand, TypeOK, vars, clientVars, handlerVars, frameVars, relayVars
<1>19. ASSUME NEW f \in Frames, Enqueue(f) PROVE RetryAtHand'
  BY <1>19 DEF Enqueue, RetryAtHand, TypeOK, vars, clientVars, handlerVars, frameVars, relayVars
<1> QED
  BY <1>1, <1>2, <1>3, <1>4, <1>5, <1>6, <1>7, <1>8, <1>9, <1>10, <1>11, <1>12, <1>13, <1>14, <1>15, <1>16, <1>17, <1>18, <1>19
     DEF Next, Callback, RelayStep, Reconnects

LEMMA LiveStep ==
  ASSUME TypeOK, LiveIsCurrent, [Next]_vars
  PROVE  LiveIsCurrent'
<1>1. CASE UNCHANGED vars
  BY <1>1 DEF LiveIsCurrent, TypeOK, vars, clientVars, handlerVars, frameVars, relayVars
<1>2. CASE Reconnects
  <2>1. PICK s \in Sockets : ConnectAs(s)
    BY <1>2, Connects
  <2>2. \A t \in Sockets : Cancelled[t] = FALSE
    <3>1. assigning = 0
      BY <1>2, Connects DEF MainThread
    <3>2. \A t \in Sockets : t # 0 /\ (up[t] => t = webSocket)
      BY <3>1 DEF LiveIsCurrent, Sockets
    <3> QED
      BY <3>2 DEF Cancelled, TypeOK
  <2>3. Cancelled \in [Sockets -> BOOLEAN]
    BY DEF Cancelled, TypeOK
  <2>4. \A t \in Sockets : up'[t] => t = s
    BY <2>1, <2>2, <2>3 DEF ConnectAs
  <2> QED
    BY <2>1, <2>4 DEF ConnectAs, LiveIsCurrent
<1>3. CASE TimerFires /\ isConnected
  BY <1>3 DEF TimerFires, LiveIsCurrent, TypeOK, vars, clientVars, handlerVars, frameVars, relayVars
<1>4. CASE Assign
  BY <1>4 DEF Assign, MainThread, LiveIsCurrent, TypeOK, vars, clientVars, handlerVars, frameVars, relayVars
<1>5. ASSUME NEW s \in Sockets, OnOpen(s) PROVE LiveIsCurrent'
  BY <1>5 DEF OnOpen, LiveIsCurrent, TypeOK, vars, clientVars, handlerVars, frameVars, relayVars
<1>6. ASSUME NEW s \in Sockets, TellConnected(s) PROVE LiveIsCurrent'
  BY <1>6 DEF TellConnected, LiveIsCurrent, TypeOK, vars, clientVars, handlerVars, frameVars, relayVars
<1>7. ASSUME NEW s \in Sockets, FlushPoll(s) PROVE LiveIsCurrent'
  BY <1>7 DEF FlushPoll, LiveIsCurrent, TypeOK, vars, clientVars, handlerVars, frameVars, relayVars
<1>8. ASSUME NEW s \in Sockets, FlushSend(s) PROVE LiveIsCurrent'
  BY <1>8 DEF FlushSend, LiveIsCurrent, TypeOK, vars, clientVars, handlerVars, frameVars, relayVars
<1>9. ASSUME NEW s \in Sockets, OnFailure(s) PROVE LiveIsCurrent'
  BY <1>9 DEF OnFailure, LiveIsCurrent, TypeOK, vars, clientVars, handlerVars, frameVars, relayVars
<1>10. ASSUME NEW s \in Sockets, TellFailed(s) PROVE LiveIsCurrent'
  BY <1>10 DEF TellFailed, LiveIsCurrent, TypeOK, vars, clientVars, handlerVars, frameVars, relayVars
<1>11. ASSUME NEW s \in Sockets, ScheduleCheck(s) PROVE LiveIsCurrent'
  BY <1>11 DEF ScheduleCheck, LiveIsCurrent, TypeOK, vars, clientVars, handlerVars, frameVars, relayVars
<1>12. ASSUME NEW s \in Sockets, ScheduleClear(s) PROVE LiveIsCurrent'
  BY <1>12 DEF ScheduleClear, LiveIsCurrent, TypeOK, vars, clientVars, handlerVars, frameVars, relayVars
<1>13. ASSUME NEW s \in Sockets, ScheduleArm(s) PROVE LiveIsCurrent'
  BY <1>13 DEF ScheduleArm, LiveIsCurrent, TypeOK, vars, clientVars, handlerVars, frameVars, relayVars
<1>14. ASSUME NEW s \in Sockets, RelayAccept(s) PROVE LiveIsCurrent'
  BY <1>14 DEF RelayAccept, LiveIsCurrent, TypeOK, vars, clientVars, handlerVars, frameVars, relayVars
<1>15. ASSUME NEW s \in Sockets, RelayError(s) PROVE LiveIsCurrent'
  BY <1>15 DEF RelayError, LiveIsCurrent, TypeOK, vars, clientVars, handlerVars, frameVars, relayVars
<1>16. ASSUME NEW s \in Sockets, RelayClose(s) PROVE LiveIsCurrent'
  BY <1>16 DEF RelayClose, LiveIsCurrent, TypeOK, vars, clientVars, handlerVars, frameVars, relayVars
<1>17. ASSUME NEW s \in Sockets, Break(s) PROVE LiveIsCurrent'
  BY <1>17 DEF Break, LiveIsCurrent, TypeOK, vars, clientVars, handlerVars, frameVars, relayVars
<1>18. ASSUME NEW f \in Frames, Submit(f) PROVE LiveIsCurrent'
  BY <1>18 DEF Submit, LiveIsCurrent, TypeOK, vars, clientVars, handlerVars, frameVars, relayVars
<1>19. ASSUME NEW f \in Frames, Enqueue(f) PROVE LiveIsCurrent'
  BY <1>19 DEF Enqueue, LiveIsCurrent, TypeOK, vars, clientVars, handlerVars, frameVars, relayVars
<1> QED
  BY <1>1, <1>2, <1>3, <1>4, <1>5, <1>6, <1>7, <1>8, <1>9, <1>10, <1>11, <1>12, <1>13, <1>14, <1>15, <1>16, <1>17, <1>18, <1>19
     DEF Next, Callback, RelayStep, Reconnects

LEMMA KnowsStep ==
  ASSUME TypeOK, HeldWhileFlushing, RelayKnowsMade, [Next]_vars
  PROVE  RelayKnowsMade'
<1>1. CASE UNCHANGED vars
  BY <1>1 DEF RelayKnowsMade, TypeOK, vars, clientVars, handlerVars, frameVars, relayVars
<1>2. CASE Reconnects
  <2>1. PICK s \in Sockets : ConnectAs(s)
    BY <1>2, Connects
  <2> QED
    BY <2>1 DEF ConnectAs, RelayKnowsMade, TypeOK
<1>3. CASE TimerFires /\ isConnected
  BY <1>3 DEF TimerFires, RelayKnowsMade, TypeOK, vars, clientVars, handlerVars, frameVars, relayVars
<1>4. CASE Assign
  BY <1>4 DEF Assign, MainThread, RelayKnowsMade, TypeOK, vars, clientVars, handlerVars, frameVars, relayVars
<1>5. ASSUME NEW s \in Sockets, OnOpen(s) PROVE RelayKnowsMade'
  BY <1>5 DEF OnOpen, RelayKnowsMade, TypeOK, vars, clientVars, handlerVars, frameVars, relayVars
<1>6. ASSUME NEW s \in Sockets, TellConnected(s) PROVE RelayKnowsMade'
  BY <1>6 DEF TellConnected, RelayKnowsMade, TypeOK, vars, clientVars, handlerVars, frameVars, relayVars
<1>7. ASSUME NEW s \in Sockets, FlushPoll(s) PROVE RelayKnowsMade'
  BY <1>7 DEF FlushPoll, RelayKnowsMade, TypeOK, vars, clientVars, handlerVars, frameVars, relayVars
<1>8. ASSUME NEW s \in Sockets, FlushSend(s) PROVE RelayKnowsMade'
  BY <1>8 DEF FlushSend, HeldWhileFlushing, RelayKnowsMade, TypeOK, relayVars
<1>9. ASSUME NEW s \in Sockets, OnFailure(s) PROVE RelayKnowsMade'
  BY <1>9 DEF OnFailure, RelayKnowsMade, TypeOK, vars, clientVars, handlerVars, frameVars, relayVars
<1>10. ASSUME NEW s \in Sockets, TellFailed(s) PROVE RelayKnowsMade'
  BY <1>10 DEF TellFailed, RelayKnowsMade, TypeOK, vars, clientVars, handlerVars, frameVars, relayVars
<1>11. ASSUME NEW s \in Sockets, ScheduleCheck(s) PROVE RelayKnowsMade'
  BY <1>11 DEF ScheduleCheck, RelayKnowsMade, TypeOK, vars, clientVars, handlerVars, frameVars, relayVars
<1>12. ASSUME NEW s \in Sockets, ScheduleClear(s) PROVE RelayKnowsMade'
  BY <1>12 DEF ScheduleClear, RelayKnowsMade, TypeOK, vars, clientVars, handlerVars, frameVars, relayVars
<1>13. ASSUME NEW s \in Sockets, ScheduleArm(s) PROVE RelayKnowsMade'
  BY <1>13 DEF ScheduleArm, RelayKnowsMade, TypeOK, vars, clientVars, handlerVars, frameVars, relayVars
<1>14. ASSUME NEW s \in Sockets, RelayAccept(s) PROVE RelayKnowsMade'
  BY <1>14 DEF RelayAccept, RelayKnowsMade, TypeOK, vars, clientVars, handlerVars, frameVars, relayVars
<1>15. ASSUME NEW s \in Sockets, RelayError(s) PROVE RelayKnowsMade'
  BY <1>15 DEF RelayError, RelayKnowsMade, TypeOK, vars, clientVars, handlerVars, frameVars, relayVars
<1>16. ASSUME NEW s \in Sockets, RelayClose(s) PROVE RelayKnowsMade'
  BY <1>16 DEF RelayClose, RelayKnowsMade, TypeOK, vars, clientVars, handlerVars, frameVars, relayVars
<1>17. ASSUME NEW s \in Sockets, Break(s) PROVE RelayKnowsMade'
  BY <1>17 DEF Break, RelayKnowsMade, TypeOK, vars, clientVars, handlerVars, frameVars, relayVars
<1>18. ASSUME NEW f \in Frames, Submit(f) PROVE RelayKnowsMade'
  BY <1>18 DEF Submit, RelayKnowsMade, TypeOK, vars, clientVars, handlerVars, frameVars, relayVars
<1>19. ASSUME NEW f \in Frames, Enqueue(f) PROVE RelayKnowsMade'
  BY <1>19 DEF Enqueue, RelayKnowsMade, TypeOK, vars, clientVars, handlerVars, frameVars, relayVars
<1> QED
  BY <1>1, <1>2, <1>3, <1>4, <1>5, <1>6, <1>7, <1>8, <1>9, <1>10, <1>11, <1>12, <1>13, <1>14, <1>15, <1>16, <1>17, <1>18, <1>19
     DEF Next, Callback, RelayStep, Reconnects

LEMMA CountedFinite == IsFiniteSet(Counted) /\ Cardinality(Counted) \in Nat
<1>1. IsFiniteSet(Sockets)
  BY LimitsAssumption, FS_Interval DEF Sockets, LimitsAssumption
<1> QED
  BY <1>1, FS_Subset, FS_CardinalityType DEF Counted

LEMMA OneSlotFreed ==
  ASSUME TypeOK, SlotsNeverLeak, ipCount' = Decremented,
         NEW s \in Counted, Counted' = Counted \ {s}
  PROVE  SlotsNeverLeak'
<1>1. Cardinality(Counted') = Cardinality(Counted) - 1
  BY CountedFinite, FS_RemoveElement
<1>2. Cardinality(Counted) # 0
  BY CountedFinite, FS_EmptySet
<1>3. ipCount \in Nat /\ ipCount <= Cardinality(Counted)
  BY DEF SlotsNeverLeak, Counted, TypeOK
<1> QED
  BY <1>1, <1>2, <1>3, CountedFinite DEF SlotsNeverLeak, Counted, Decremented

LEMMA SlotsStep ==
  ASSUME TypeOK, RelayKnowsMade, SlotsNeverLeak, [Next]_vars
  PROVE  SlotsNeverLeak'
<1>1. CASE UNCHANGED vars
  BY <1>1 DEF SlotsNeverLeak, Counted, TypeOK, vars, clientVars, handlerVars, frameVars, relayVars
<1>2. CASE Reconnects
  <2>1. PICK s \in Sockets : ConnectAs(s)
    BY <1>2, Connects
  <2>2. relay[s] # "counted"
    BY <2>1, FreeIsIdle DEF ConnectAs, Lowest, RelayKnowsMade
  <2>3. Counted' = Counted
    BY <2>1, <2>2 DEF ConnectAs, Counted, TypeOK
  <2> QED
    BY <2>1, <2>3 DEF ConnectAs, SlotsNeverLeak, Counted
<1>3. CASE TimerFires /\ isConnected
  BY <1>3 DEF TimerFires, SlotsNeverLeak, Counted, TypeOK, vars, clientVars, handlerVars, frameVars, relayVars
<1>4. CASE Assign
  BY <1>4 DEF Assign, MainThread, SlotsNeverLeak, Counted, TypeOK, vars, clientVars, handlerVars, frameVars, relayVars
<1>5. ASSUME NEW s \in Sockets, OnOpen(s) PROVE SlotsNeverLeak'
  BY <1>5 DEF OnOpen, SlotsNeverLeak, Counted, TypeOK, vars, clientVars, handlerVars, frameVars, relayVars
<1>6. ASSUME NEW s \in Sockets, TellConnected(s) PROVE SlotsNeverLeak'
  BY <1>6 DEF TellConnected, SlotsNeverLeak, Counted, TypeOK, vars, clientVars, handlerVars, frameVars, relayVars
<1>7. ASSUME NEW s \in Sockets, FlushPoll(s) PROVE SlotsNeverLeak'
  BY <1>7 DEF FlushPoll, SlotsNeverLeak, Counted, TypeOK, vars, clientVars, handlerVars, frameVars, relayVars
<1>8. ASSUME NEW s \in Sockets, FlushSend(s) PROVE SlotsNeverLeak'
  BY <1>8 DEF FlushSend, SlotsNeverLeak, Counted, TypeOK, vars, clientVars, handlerVars, frameVars, relayVars
<1>9. ASSUME NEW s \in Sockets, OnFailure(s) PROVE SlotsNeverLeak'
  BY <1>9 DEF OnFailure, SlotsNeverLeak, Counted, TypeOK, vars, clientVars, handlerVars, frameVars, relayVars
<1>10. ASSUME NEW s \in Sockets, TellFailed(s) PROVE SlotsNeverLeak'
  BY <1>10 DEF TellFailed, SlotsNeverLeak, Counted, TypeOK, vars, clientVars, handlerVars, frameVars, relayVars
<1>11. ASSUME NEW s \in Sockets, ScheduleCheck(s) PROVE SlotsNeverLeak'
  BY <1>11 DEF ScheduleCheck, SlotsNeverLeak, Counted, TypeOK, vars, clientVars, handlerVars, frameVars, relayVars
<1>12. ASSUME NEW s \in Sockets, ScheduleClear(s) PROVE SlotsNeverLeak'
  BY <1>12 DEF ScheduleClear, SlotsNeverLeak, Counted, TypeOK, vars, clientVars, handlerVars, frameVars, relayVars
<1>13. ASSUME NEW s \in Sockets, ScheduleArm(s) PROVE SlotsNeverLeak'
  BY <1>13 DEF ScheduleArm, SlotsNeverLeak, Counted, TypeOK, vars, clientVars, handlerVars, frameVars, relayVars
<1>14. ASSUME NEW s \in Sockets, RelayAccept(s) PROVE SlotsNeverLeak'
  <2>1. CASE relay'[s] = "counted"
    <3>1. ipCount' = ipCount + 1 /\ relay[s] = "none"
      BY <1>14, <2>1 DEF RelayAccept, TypeOK
    <3>2. Counted' = Counted \cup {s} /\ s \notin Counted
      BY <1>14, <2>1, <3>1 DEF RelayAccept, Counted, TypeOK
    <3>3. Cardinality(Counted') = Cardinality(Counted) + 1
      BY <3>2, CountedFinite, FS_AddElement
    <3> QED
      BY <3>1, <3>3, CountedFinite DEF SlotsNeverLeak, Counted, TypeOK
  <2>2. CASE relay'[s] # "counted"
    <3>1. Counted' = Counted /\ ipCount' = ipCount
      BY <1>14, <2>2 DEF RelayAccept, Counted, TypeOK
    <3> QED
      BY <3>1 DEF SlotsNeverLeak, Counted
  <2> QED
    BY <2>1, <2>2
<1>15. ASSUME NEW s \in Sockets, RelayError(s) PROVE SlotsNeverLeak'
  <2>1. Counted' = Counted \ {s} /\ s \in Counted
    BY <1>15 DEF RelayError, Counted, TypeOK
  <2> QED
    BY <1>15, <2>1, OneSlotFreed DEF RelayError
<1>16. ASSUME NEW s \in Sockets, RelayClose(s) PROVE SlotsNeverLeak'
  <2>1. CASE relay[s] = "counted"
    <3>1. Counted' = Counted \ {s} /\ s \in Counted
      BY <1>16, <2>1 DEF RelayClose, Counted, TypeOK
    <3> QED
      BY <1>16, <3>1, OneSlotFreed DEF RelayClose
  <2>2. CASE relay[s] # "counted"
    <3>1. Counted' = Counted
      BY <1>16, <2>2 DEF RelayClose, Counted, TypeOK
    <3>2. ipCount \in Nat /\ ipCount' \in Nat /\ ipCount' <= ipCount
      BY <1>16 DEF RelayClose, Decremented, TypeOK
    <3>3. ipCount <= Cardinality(Counted)
      BY DEF SlotsNeverLeak, Counted
    <3>4. ipCount' <= Cardinality(Counted')
      BY <3>1, <3>2, <3>3, CountedFinite
    <3> QED
      BY <3>4 DEF SlotsNeverLeak, Counted
  <2> QED
    BY <2>1, <2>2
<1>17. ASSUME NEW s \in Sockets, Break(s) PROVE SlotsNeverLeak'
  BY <1>17 DEF Break, SlotsNeverLeak, Counted, TypeOK, vars, clientVars, handlerVars, frameVars, relayVars
<1>18. ASSUME NEW f \in Frames, Submit(f) PROVE SlotsNeverLeak'
  BY <1>18 DEF Submit, SlotsNeverLeak, Counted, TypeOK, vars, clientVars, handlerVars, frameVars, relayVars
<1>19. ASSUME NEW f \in Frames, Enqueue(f) PROVE SlotsNeverLeak'
  BY <1>19 DEF Enqueue, SlotsNeverLeak, Counted, TypeOK, vars, clientVars, handlerVars, frameVars, relayVars
<1> QED
  BY <1>1, <1>2, <1>3, <1>4, <1>5, <1>6, <1>7, <1>8, <1>9, <1>10, <1>11, <1>12, <1>13, <1>14, <1>15, <1>16, <1>17, <1>18, <1>19
     DEF Next, Callback, RelayStep, Reconnects

\* Where a frame that waits is: once in the outbox, or once in the hands of a
\* flushOutbox, and nothing else is there.
FramesOnce ==
  /\ \A i, j \in DOMAIN outbox : outbox[i] = outbox[j] => i = j
  /\ \A i \in DOMAIN outbox : frame[outbox[i]] = "queued" /\ \A s \in Sockets : held[s] # outbox[i]
  /\ \A s \in Sockets : held[s] # NoFrame =>
       frame[held[s]] = "queued" /\ \A t \in Sockets : held[t] = held[s] => t = s
  /\ \A f \in Frames : frame[f] = "queued" =>
       (\E i \in DOMAIN outbox : outbox[i] = f) \/ (\E s \in Sockets : held[s] = f)

LEMMA TailOf ==
  ASSUME NEW q \in Seq(Frames), q # <<>>
  PROVE  /\ Head(q) = q[1] /\ Head(q) \in Frames /\ 1 \in DOMAIN q
         /\ \A i \in DOMAIN Tail(q) : i + 1 \in DOMAIN q /\ Tail(q)[i] = q[i + 1]
         /\ \A i \in DOMAIN q : i # 1 => i - 1 \in DOMAIN Tail(q) /\ Tail(q)[i - 1] = q[i]
<1>1. Len(q) \in Nat \ {0} /\ Len(Tail(q)) = Len(q) - 1
  OBVIOUS
<1> QED
  BY <1>1

LEMMA AppendOf ==
  ASSUME NEW q \in Seq(Frames), NEW f \in Frames
  PROVE  /\ \A i \in DOMAIN q : i \in DOMAIN Append(q, f) /\ Append(q, f)[i] = q[i]
         /\ Len(q) + 1 \in DOMAIN Append(q, f) /\ Append(q, f)[Len(q) + 1] = f
         /\ \A i \in DOMAIN Append(q, f) : i \in DOMAIN q \/ i = Len(q) + 1
<1>1. Len(q) \in Nat /\ Len(Append(q, f)) = Len(q) + 1
  OBVIOUS
<1> QED
  BY <1>1

LEMMA PutBack ==
  ASSUME NEW q \in Seq(Frames), NEW f \in Frames
  PROVE  LET p == <<f>> \o q IN
         /\ 1 \in DOMAIN p /\ p[1] = f
         /\ \A i \in DOMAIN q : i + 1 \in DOMAIN p /\ p[i + 1] = q[i]
         /\ \A i \in DOMAIN p : i # 1 => i - 1 \in DOMAIN q /\ p[i] = q[i - 1]
<1> DEFINE p == <<f>> \o q
<1>1. Len(q) \in Nat /\ Len(p) = Len(q) + 1
  OBVIOUS
<1>2. \A i \in 1..Len(p) : p[i] = IF i = 1 THEN f ELSE q[i - 1]
  OBVIOUS
<1> QED
  BY <1>1, <1>2

LEMMA FramesStep ==
  ASSUME TypeOK, FramesOnce, [Next]_vars
  PROVE  FramesOnce'
<1>1. CASE UNCHANGED vars
  BY <1>1 DEF FramesOnce, TypeOK, vars, clientVars, handlerVars, frameVars, relayVars
<1>2. CASE Reconnects
  <2>1. PICK s \in Sockets : ConnectAs(s)
    BY <1>2, Connects
  <2> QED
    BY <2>1 DEF ConnectAs, FramesOnce, frameVars
<1>3. CASE TimerFires /\ isConnected
  BY <1>3 DEF TimerFires, FramesOnce, TypeOK, vars, clientVars, handlerVars, frameVars, relayVars
<1>4. CASE Assign
  BY <1>4 DEF Assign, MainThread, FramesOnce, TypeOK, vars, clientVars, handlerVars, frameVars, relayVars
<1>5. ASSUME NEW s \in Sockets, OnOpen(s) PROVE FramesOnce'
  BY <1>5 DEF OnOpen, FramesOnce, TypeOK, vars, clientVars, handlerVars, frameVars, relayVars
<1>6. ASSUME NEW s \in Sockets, TellConnected(s) PROVE FramesOnce'
  BY <1>6 DEF TellConnected, FramesOnce, TypeOK, vars, clientVars, handlerVars, frameVars, relayVars
<1>7. ASSUME NEW s \in Sockets, FlushPoll(s) PROVE FramesOnce'
  <2>1. CASE outbox = <<>>
    BY <1>7, <2>1 DEF FlushPoll, FramesOnce
  <2>2. CASE outbox # <<>>
    <3>1. outbox \in Seq(Frames) /\ NoFrame \notin Frames
      BY LimitsAssumption DEF TypeOK, LimitsAssumption
    <3>2. outbox' = Tail(outbox) /\ frame' = frame /\ held'[s] = outbox[1] /\ held[s] = NoFrame
      BY <1>7, <2>2, <3>1, TailOf DEF FlushPoll, TypeOK
    <3>3. \A t \in Sockets : t # s => held'[t] = held[t]
      BY <1>7, <2>2 DEF FlushPoll, TypeOK
    <3>4. \A i \in DOMAIN outbox' : i + 1 \in DOMAIN outbox /\ i + 1 # 1 /\ outbox'[i] = outbox[i + 1]
      BY <2>2, <3>1, <3>2, TailOf
    <3>5. \A i, j \in DOMAIN outbox' : outbox'[i] = outbox'[j] => i = j
      <4>1. \A i \in DOMAIN outbox' : i \in Int
        BY <2>2, <3>1, <3>2
      <4>2. \A i, j \in DOMAIN outbox' : outbox'[i] = outbox'[j] => i + 1 = j + 1
        BY <3>4 DEF FramesOnce
      <4> QED
        BY <4>1, <4>2
    <3>6. \A i \in DOMAIN outbox' : frame'[outbox'[i]] = "queued" /\ \A t \in Sockets : held'[t] # outbox'[i]
      BY <2>2, <3>1, <3>2, <3>3, <3>4, TailOf DEF FramesOnce
    <3>7. \A t \in Sockets : held'[t] # NoFrame =>
            frame'[held'[t]] = "queued" /\ \A u \in Sockets : held'[u] = held'[t] => u = t
      BY <2>2, <3>1, <3>2, <3>3, TailOf DEF FramesOnce
    <3>8. ASSUME NEW f \in Frames, frame'[f] = "queued"
          PROVE  (\E i \in DOMAIN outbox' : outbox'[i] = f) \/ (\E t \in Sockets : held'[t] = f)
      <4>1. CASE \E i \in DOMAIN outbox : outbox[i] = f
        <5>1. PICK k \in DOMAIN outbox : outbox[k] = f
          BY <4>1
        <5>2. CASE k = 1
          BY <3>2, <5>1, <5>2
        <5>3. CASE k # 1
          <6>1. k - 1 \in DOMAIN outbox' /\ outbox'[k - 1] = f
            BY <2>2, <3>1, <3>2, <5>1, <5>3, TailOf
          <6> QED
            BY <6>1
        <5> QED
          BY <5>2, <5>3
      <4>2. CASE \E t \in Sockets : held[t] = f
        BY <3>1, <3>2, <3>3, <4>2
      <4> QED
        BY <3>2, <3>8, <4>1, <4>2 DEF FramesOnce
    <3> QED
      BY <3>5, <3>6, <3>7, <3>8 DEF FramesOnce
  <2> QED
    BY <2>1, <2>2
<1>8. ASSUME NEW s \in Sockets, FlushSend(s) PROVE FramesOnce'
  <2>1. /\ outbox \in Seq(Frames) /\ NoFrame \notin Frames /\ held[s] \in Frames
        /\ held'[s] = NoFrame /\ \A t \in Sockets : t # s => held'[t] = held[t]
    BY <1>8, LimitsAssumption DEF FlushSend, TypeOK, LimitsAssumption
  <2>2. CASE Accepts(s)
    <3>1. /\ outbox' = outbox /\ frame'[held[s]] = "idle"
          /\ \A f \in Frames : f # held[s] => frame'[f] = frame[f]
      BY <1>8, <2>1, <2>2 DEF FlushSend, TypeOK
    <3>2. \A i \in DOMAIN outbox : outbox[i] \in Frames /\ outbox[i] # held[s]
      BY <2>1 DEF FramesOnce
    <3>3. \A t \in Sockets : held[t] \in Frames \cup {NoFrame}
      BY DEF TypeOK
    <3> QED
      BY <2>1, <3>1, <3>2, <3>3 DEF FramesOnce
  <2>3. CASE ~Accepts(s)
    <3>1. outbox' = <<held[s]>> \o outbox /\ frame' = frame
      BY <1>8, <2>3 DEF FlushSend
    <3>2. /\ 1 \in DOMAIN outbox' /\ outbox'[1] = held[s]
          /\ \A i \in DOMAIN outbox : i + 1 \in DOMAIN outbox' /\ outbox'[i + 1] = outbox[i]
          /\ \A i \in DOMAIN outbox' : i # 1 => i - 1 \in DOMAIN outbox /\ outbox'[i] = outbox[i - 1]
      BY <2>1, <3>1, PutBack
    <3>3. \A i, j \in DOMAIN outbox' : i \in Int /\ (outbox'[i] = outbox'[j] => i = j)
      <4>1. \A i \in DOMAIN outbox' : i \in Int
        BY <2>1, <3>1
      <4>2. \A i \in DOMAIN outbox' : i # 1 => outbox'[i] # held[s]
        BY <2>1, <3>2 DEF FramesOnce
      <4>3. \A i, j \in DOMAIN outbox' : i # 1 /\ j # 1 /\ outbox'[i] = outbox'[j] => i - 1 = j - 1
        BY <3>2 DEF FramesOnce
      <4> QED
        BY <3>2, <4>1, <4>2, <4>3
    <3>4. \A i \in DOMAIN outbox' : frame'[outbox'[i]] = "queued" /\ \A t \in Sockets : held'[t] # outbox'[i]
      <4>1. frame'[outbox'[1]] = "queued" /\ \A t \in Sockets : held'[t] # outbox'[1]
        BY <2>1, <3>1, <3>2 DEF FramesOnce
      <4>2. ASSUME NEW i \in DOMAIN outbox', i # 1
            PROVE  frame'[outbox'[i]] = "queued" /\ \A t \in Sockets : held'[t] # outbox'[i]
        <5>1. PICK k \in DOMAIN outbox : outbox'[i] = outbox[k]
          BY <3>2, <4>2
        <5>2. outbox[k] \in Frames /\ frame[outbox[k]] = "queued" /\ \A t \in Sockets : held[t] # outbox[k]
          BY <2>1 DEF FramesOnce
        <5>3. \A t \in Sockets : held'[t] # outbox[k]
          BY <2>1, <5>2
        <5> QED
          BY <3>1, <5>1, <5>2, <5>3
      <4> QED
        BY <4>1, <4>2
    <3>5. \A t \in Sockets : held'[t] # NoFrame =>
            frame'[held'[t]] = "queued" /\ \A u \in Sockets : held'[u] = held'[t] => u = t
      BY <2>1, <3>1 DEF FramesOnce
    <3>6. \A f \in Frames : frame'[f] = "queued" =>
            (\E i \in DOMAIN outbox' : outbox'[i] = f) \/ (\E t \in Sockets : held'[t] = f)
      <4>1. ASSUME NEW k \in DOMAIN outbox PROVE \E i \in DOMAIN outbox' : outbox'[i] = outbox[k]
        BY <3>2
      <4>2. \A t \in Sockets : held[t] = held'[t] \/ held[t] = outbox'[1]
        BY <2>1, <3>2
      <4>3. \A f \in Frames : frame[f] = "queued" =>
              (\E i \in DOMAIN outbox : outbox[i] = f) \/ (\E t \in Sockets : held[t] = f)
        BY DEF FramesOnce
      <4>4. 1 \in DOMAIN outbox' /\ frame' = frame
        BY <3>1, <3>2
      <4> HIDE <2>1, <3>1, <3>2
      <4> QED
        BY <4>1, <4>2, <4>3, <4>4
    <3> QED
      BY <3>3, <3>4, <3>5, <3>6 DEF FramesOnce
  <2> QED
    BY <2>2, <2>3
<1>9. ASSUME NEW s \in Sockets, OnFailure(s) PROVE FramesOnce'
  BY <1>9 DEF OnFailure, FramesOnce, TypeOK, vars, clientVars, handlerVars, frameVars, relayVars
<1>10. ASSUME NEW s \in Sockets, TellFailed(s) PROVE FramesOnce'
  BY <1>10 DEF TellFailed, FramesOnce, TypeOK, vars, clientVars, handlerVars, frameVars, relayVars
<1>11. ASSUME NEW s \in Sockets, ScheduleCheck(s) PROVE FramesOnce'
  BY <1>11 DEF ScheduleCheck, FramesOnce, TypeOK, vars, clientVars, handlerVars, frameVars, relayVars
<1>12. ASSUME NEW s \in Sockets, ScheduleClear(s) PROVE FramesOnce'
  BY <1>12 DEF ScheduleClear, FramesOnce, TypeOK, vars, clientVars, handlerVars, frameVars, relayVars
<1>13. ASSUME NEW s \in Sockets, ScheduleArm(s) PROVE FramesOnce'
  BY <1>13 DEF ScheduleArm, FramesOnce, TypeOK, vars, clientVars, handlerVars, frameVars, relayVars
<1>14. ASSUME NEW s \in Sockets, RelayAccept(s) PROVE FramesOnce'
  BY <1>14 DEF RelayAccept, FramesOnce, TypeOK, vars, clientVars, handlerVars, frameVars, relayVars
<1>15. ASSUME NEW s \in Sockets, RelayError(s) PROVE FramesOnce'
  BY <1>15 DEF RelayError, FramesOnce, TypeOK, vars, clientVars, handlerVars, frameVars, relayVars
<1>16. ASSUME NEW s \in Sockets, RelayClose(s) PROVE FramesOnce'
  BY <1>16 DEF RelayClose, FramesOnce, TypeOK, vars, clientVars, handlerVars, frameVars, relayVars
<1>17. ASSUME NEW s \in Sockets, Break(s) PROVE FramesOnce'
  BY <1>17 DEF Break, FramesOnce, TypeOK, vars, clientVars, handlerVars, frameVars, relayVars
<1>18. ASSUME NEW f \in Frames, Submit(f) PROVE FramesOnce'
  <2>1. /\ frame[f] = "idle" /\ outbox' = outbox /\ held' = held
        /\ frame'[f] = "deciding" /\ \A g \in Frames : g # f => frame'[g] = frame[g]
    BY <1>18 DEF Submit, TypeOK
  <2>2. \A i \in DOMAIN outbox : outbox[i] \in Frames
    BY DEF TypeOK
  <2>3. \A t \in Sockets : held[t] \in Frames \cup {NoFrame}
    BY DEF TypeOK
  <2> QED
    BY <2>1, <2>2, <2>3 DEF FramesOnce
<1>19. ASSUME NEW f \in Frames, Enqueue(f) PROVE FramesOnce'
  <2> DEFINE full == Len(outbox) >= OUTBOX_MAX
             kept == IF full THEN Tail(outbox) ELSE outbox
  <2>1. /\ outbox \in Seq(Frames) /\ NoFrame \notin Frames /\ Len(outbox) \in Nat
        /\ frame[f] = "deciding" /\ outbox' = Append(kept, f) /\ held' = held
    BY <1>19, LimitsAssumption DEF Enqueue, TypeOK, LimitsAssumption
  <2>2. full => outbox # <<>>
    BY <2>1, LimitsAssumption DEF LimitsAssumption
  <2>3. kept \in Seq(Frames)
    BY <2>1, <2>2
  <2>4. /\ \A i \in DOMAIN kept : \E k \in DOMAIN outbox : kept[i] = outbox[k] /\ (full => k # 1)
        /\ \A i, j \in DOMAIN kept : kept[i] = kept[j] => i = j
    <3>1. CASE full
      <4>1. \A i \in DOMAIN kept : i \in Int /\ i + 1 \in DOMAIN outbox /\ i + 1 # 1 /\ kept[i] = outbox[i + 1]
        <5>1. kept = Tail(outbox)
          BY <3>1
        <5>2. \A i \in DOMAIN Tail(outbox) : i \in Nat \ {0}
          BY <2>1, <2>2, <3>1
        <5> QED
          BY <2>1, <2>2, <3>1, <5>1, <5>2, TailOf
      <4>2. \A i, j \in DOMAIN kept : kept[i] = kept[j] => i + 1 = j + 1
        BY <4>1 DEF FramesOnce
      <4> HIDE DEF kept
      <4> QED
        BY <4>1, <4>2
    <3>2. CASE ~full
      BY <3>2 DEF FramesOnce
    <3> QED
      BY <3>1, <3>2
  <2>5. \A i \in DOMAIN kept : /\ kept[i] \in Frames /\ kept[i] # f
                               /\ frame[kept[i]] = "queued" /\ (full => kept[i] # Head(outbox))
                               /\ \A t \in Sockets : held[t] # kept[i]
    <3>1. full => Head(outbox) = outbox[1] /\ 1 \in DOMAIN outbox
      BY <2>1, <2>2, TailOf
    <3>2. \A k \in DOMAIN outbox : outbox[k] \in Frames
      BY <2>1
    <3> HIDE DEF kept, full
    <3> QED
      BY <2>1, <2>4, <3>1, <3>2 DEF FramesOnce
  <2>6. /\ frame'[f] = "queued"
        /\ full => frame'[Head(outbox)] = "idle" /\ Head(outbox) \in Frames /\ Head(outbox) # f
                   /\ \A t \in Sockets : held[t] # Head(outbox)
        /\ \A g \in Frames : g # f /\ (full => g # Head(outbox)) => frame'[g] = frame[g]
    <3>1. CASE full
      <4>1. Head(outbox) = outbox[1] /\ Head(outbox) \in Frames /\ 1 \in DOMAIN outbox
        BY <2>1, <2>2, <3>1, TailOf
      <4>2. Head(outbox) # f /\ \A t \in Sockets : held[t] # Head(outbox)
        BY <2>1, <4>1 DEF FramesOnce
      <4>3. frame' = [frame EXCEPT ![f] = "queued", ![Head(outbox)] = "idle"]
        BY <1>19, <3>1 DEF Enqueue
      <4>4. frame \in [Frames -> {"idle", "deciding", "queued"}]
        BY DEF TypeOK
      <4>5. f \in Frames
        OBVIOUS
      <4> HIDE DEF full, kept
      <4>6. /\ frame'[f] = "queued" /\ frame'[Head(outbox)] = "idle"
            /\ \A g \in Frames : g # f /\ g # Head(outbox) => frame'[g] = frame[g]
        BY <4>1, <4>2, <4>3, <4>4, <4>5
      <4> QED
        BY <3>1, <4>1, <4>2, <4>6
    <3>2. CASE ~full
      BY <1>19, <3>2 DEF Enqueue, TypeOK
    <3> QED
      BY <3>1, <3>2
  <2>7. \A k \in DOMAIN outbox : (full => outbox[k] # Head(outbox)) => \E i \in DOMAIN kept : kept[i] = outbox[k]
    BY <2>1, <2>2, TailOf
  <2>8. /\ \A i \in DOMAIN kept : i \in DOMAIN outbox' /\ outbox'[i] = kept[i]
        /\ Len(kept) + 1 \in DOMAIN outbox' /\ outbox'[Len(kept) + 1] = f
        /\ \A i \in DOMAIN outbox' : i \in DOMAIN kept \/ i = Len(kept) + 1
    BY <2>1, <2>3, AppendOf
  <2>9. \A t \in Sockets : held[t] \in Frames \cup {NoFrame} /\ held[t] # f
    BY <2>1 DEF FramesOnce, TypeOK
  <2> HIDE DEF kept, full
  <2>10. \A i, j \in DOMAIN outbox' : outbox'[i] = outbox'[j] => i = j
    BY <2>4, <2>5, <2>8
  <2>11. \A i \in DOMAIN outbox' : frame'[outbox'[i]] = "queued" /\ \A t \in Sockets : held'[t] # outbox'[i]
    BY <2>1, <2>5, <2>6, <2>8, <2>9
  <2>12. \A t \in Sockets : held'[t] # NoFrame =>
           frame'[held'[t]] = "queued" /\ \A u \in Sockets : held'[u] = held'[t] => u = t
    BY <2>1, <2>6, <2>9 DEF FramesOnce
  <2>13. ASSUME NEW g \in Frames, frame'[g] = "queued"
         PROVE  (\E i \in DOMAIN outbox' : outbox'[i] = g) \/ (\E t \in Sockets : held'[t] = g)
    <3>1. CASE g = f
      BY <2>8, <3>1
    <3>2. CASE g # f
      <4>1. (full => g # Head(outbox)) /\ frame[g] = "queued"
        BY <2>6, <2>13, <3>2
      <4> QED
        BY <2>1, <2>7, <2>8, <4>1 DEF FramesOnce
    <3> QED
      BY <3>1, <3>2
  <2> QED
    BY <2>10, <2>11, <2>12, <2>13 DEF FramesOnce
<1> QED
  BY <1>1, <1>2, <1>3, <1>4, <1>5, <1>6, <1>7, <1>8, <1>9, <1>10, <1>11, <1>12, <1>13, <1>14, <1>15, <1>16, <1>17, <1>18, <1>19
     DEF Next, Callback, RelayStep, Reconnects

LEMMA FramesOnceSuffices == TypeOK /\ FramesOnce => OutboxKeeps
<1> SUFFICES ASSUME TypeOK, FramesOnce, NEW f \in Frames, frame[f] = "queued"
             PROVE  Cardinality({i \in DOMAIN outbox : outbox[i] = f}
                      \cup {s + Len(outbox) : s \in {x \in Sockets : held[x] = f}}) = 1
  BY DEF OutboxKeeps
<1>1. f # NoFrame
  BY LimitsAssumption DEF LimitsAssumption
<1>2. CASE \E i \in DOMAIN outbox : outbox[i] = f
  <2>1. PICK i \in DOMAIN outbox : outbox[i] = f
    BY <1>2
  <2>2. {x \in Sockets : held[x] = f} = {}
    BY <2>1 DEF FramesOnce
  <2>3. {j \in DOMAIN outbox : outbox[j] = f} = {i}
    BY <2>1 DEF FramesOnce
  <2>4. {j \in DOMAIN outbox : outbox[j] = f} \cup {s + Len(outbox) : s \in {x \in Sockets : held[x] = f}} = {i}
    BY <2>2, <2>3
  <2> QED
    BY <2>4, FS_Singleton
<1>3. CASE ~\E i \in DOMAIN outbox : outbox[i] = f
  <2>1. PICK s \in Sockets : held[s] = f
    BY <1>3 DEF FramesOnce
  <2>2. {x \in Sockets : held[x] = f} = {s}
    BY <1>1, <2>1 DEF FramesOnce
  <2>3. {j \in DOMAIN outbox : outbox[j] = f} = {}
    BY <1>3
  <2>4. {j \in DOMAIN outbox : outbox[j] = f} \cup {x + Len(outbox) : x \in {x \in Sockets : held[x] = f}}
          = {s + Len(outbox)}
    BY <2>2, <2>3
  <2> QED
    BY <2>4, FS_Singleton
<1> QED
  BY <1>2, <1>3

ConnectionsInv ==
  /\ TypeOK /\ HeldWhileFlushing /\ RelayKnowsMade
  /\ ConnectedMeansOpen /\ RetryAtHand /\ LiveIsCurrent /\ SlotsNeverLeak /\ FramesOnce

LEMMA InitInv == Init => ConnectionsInv
<1> SUFFICES ASSUME Init PROVE ConnectionsInv
  OBVIOUS
<1>1. TypeOK
  BY InitType
<1>2. HeldWhileFlushing /\ RelayKnowsMade /\ ConnectedMeansOpen /\ RetryAtHand /\ LiveIsCurrent
  BY DEF Init, HeldWhileFlushing, RelayKnowsMade, ConnectedMeansOpen, RetryAtHand, LiveIsCurrent
<1>3. SlotsNeverLeak
  <2>1. ipCount = 0
    BY DEF Init
  <2> QED
    BY <2>1, CountedFinite DEF SlotsNeverLeak, Counted
<1>4. FramesOnce
  BY DEF Init, FramesOnce
<1> QED
  BY <1>1, <1>2, <1>3, <1>4 DEF ConnectionsInv

LEMMA InvStep == ConnectionsInv /\ [Next]_vars => ConnectionsInv'
BY TypeStep, HeldStep, KnowsStep, ConnectedStep, RetryStep, LiveStep, SlotsStep, FramesStep DEF ConnectionsInv

\* All of the above together, inductively.
THEOREM Invariance == Spec => []ConnectionsInv
BY InitInv, InvStep, PTL DEF Spec

\* isConnected never outlives the last open socket: only its own onFailure can
\* be the last to write, and a socket is made over only after that.
THEOREM ConnectedMeansOpenHolds == Spec => []ConnectedMeansOpen
BY Invariance, PTL DEF ConnectionsInv

\* No order of late failures, timers, network callbacks and onResume leaves a
\* started device offline without a next attempt.
THEOREM RetryAtHandHolds == Spec => []RetryAtHand
BY Invariance, PTL DEF ConnectionsInv

\* Whoever connects gives up the former socket first, and all do it on the main
\* thread: two sockets are never alive.
THEOREM OneLiveSocketHolds == Spec => []OneLiveSocket
<1>1. ConnectionsInv => OneLiveSocket
  <2> SUFFICES ASSUME LiveIsCurrent, NEW s \in Sockets, NEW t \in Sockets, up[s], up[t]
               PROVE  s = t
    BY DEF ConnectionsInv, OneLiveSocket
  <2>1. s # 0 /\ t # 0
    BY DEF Sockets
  <2> QED
    BY <2>1 DEF LiveIsCurrent
<1> QED
  BY <1>1, Invariance, PTL

\* A slot of the relay's limit is never held by a connection that has ended,
\* however often error and close count down.
THEOREM SlotsNeverLeakHolds == Spec => []SlotsNeverLeak
BY Invariance, PTL DEF ConnectionsInv

\* Two flushes, a full outbox and frames put back neither lose nor repeat a frame
\* that waits.
THEOREM OutboxKeepsHolds == Spec => []OutboxKeeps
<1>1. ConnectionsInv => OutboxKeeps
  BY FramesOnceSuffices DEF ConnectionsInv
<1> QED
  BY <1>1, Invariance, PTL
=============================================================================
