---------------------------- MODULE Connections -----------------------------
(***************************************************************************)
(* One device and its connections: connect, the socket callbacks and the   *)
(* reconnection of NetworkManager, the frames that wait in its outbox, the *)
(* Activity that connects in onResume, and the relay's connections per IP. *)
(*                                                                         *)
(* The main thread (timers, posted runnables, onResume) runs one task at a *)
(* time; the callbacks of different sockets run on threads of their own and *)
(* take no lock.  A callback gives way at each field that another thread    *)
(* writes.  A socket identifier is used again when both ends are done with  *)
(* it, so the number of connections is not bounded, only how many of them   *)
(* there are at a time.  There is no clock: any pending timer may fire.     *)
(***************************************************************************)
EXTENDS Integers, Sequences, FiniteSets

CONSTANTS
  MaxSockets,              \* bound: connections at a time
  Frames,                  \* frames that are not envelopes
  OUTBOX_MAX,              \* limit of the outbox (500)
  MAX_CONNECTIONS_PER_IP   \* limit of the relay (20)

NoFrame == "none"

ASSUME LimitsAssumption ==
  /\ MaxSockets \in Nat \ {0} /\ OUTBOX_MAX \in Nat \ {0}
  /\ MAX_CONNECTIONS_PER_IP \in Nat \ {0}
  /\ NoFrame \notin Frames

VARIABLES
  \* ---- NetworkManager ----
  webSocket,    \* a socket, 0 for null
  isConnected,
  opener,       \* how far connect and onOpen of a socket are
  failure,      \* how far onFailure of a socket is
  assigning,    \* the socket that connect has made and not yet assigned, 0 if none
  timers,       \* delayed runnables of reconnectHandler
  registered,   \* netCallbackRegistered
  outbox,       \* frames that wait for a connection
  held,         \* the frame that flushOutbox has polled and not yet sent
  frame,        \* what has become of every frame
  \* ---- the Activity ----
  mirror,       \* its own isConnected
  \* ---- the network and the relay ----
  up,           \* the connection works
  relay,        \* what the relay knows of a socket
  ipCount       \* ipConnections of the device's address, 0 if absent

clientVars == <<webSocket, isConnected, opener, failure, assigning>>
handlerVars == <<timers, registered>>
frameVars == <<outbox, held, frame>>
relayVars == <<relay, ipCount>>
vars == <<clientVars, handlerVars, frameVars, mirror, up, relayVars>>

-----------------------------------------------------------------------------
Sockets == 1..MaxSockets

Init ==
  /\ webSocket = 0 /\ isConnected = FALSE /\ assigning = 0
  /\ opener = [s \in Sockets |-> "none"] /\ failure = [s \in Sockets |-> "no"]
  /\ timers = 0 /\ registered = FALSE
  /\ outbox = <<>> /\ held = [s \in Sockets |-> NoFrame]
  /\ frame = [f \in Frames |-> "idle"]
  /\ mirror = FALSE
  /\ up = [s \in Sockets |-> FALSE]
  /\ relay = [s \in Sockets |-> "none"] /\ ipCount = 0

\* Neither end has anything left to do for the socket.
Free(s) ==
  \/ opener[s] = "none"
  \/ failure[s] = "done" /\ opener[s] \in {"connecting", "open"}
                         /\ relay[s] \in {"none", "closed"}

\* Identifiers are alike: the lowest free one is taken.
Lowest(s) == Free(s) /\ \A x \in 1..s-1 : ~Free(x)

-----------------------------------------------------------------------------
(* connect, on the main thread.                                             *)

MainThread == assigning = 0

\* Mutant: the old socket goes on.
CancelledNothing == up
\* webSocket?.cancel(): the network notices at once, its onFailure comes later.
Cancelled == IF webSocket = 0 THEN up ELSE [up EXCEPT ![webSocket] = FALSE]

\* The old socket is cancelled, the new one is made ...
ConnectAs(s) ==
  /\ Lowest(s)
  /\ webSocket' = 0 /\ assigning' = s
  /\ opener' = [opener EXCEPT ![s] = "connecting"]
  /\ failure' = [failure EXCEPT ![s] = "no"]
  /\ up' = [Cancelled EXCEPT ![s] = TRUE]
  /\ relay' = [relay EXCEPT ![s] = "none"]
  /\ UNCHANGED <<isConnected, registered, frameVars, mirror, ipCount>>
Connect == \E s \in Sockets : ConnectAs(s)

\* ... and assigned; its onOpen may have run before.
Assign ==
  /\ ~MainThread
  /\ webSocket' = assigning /\ assigning' = 0
  /\ UNCHANGED <<isConnected, opener, failure, handlerVars, frameVars, mirror, up,
                 relayVars>>

\* ensureNetwork of a new process.
Start ==
  /\ MainThread /\ \A s \in Sockets : opener[s] = "none"
  /\ Connect
  /\ UNCHANGED timers

\* onResume of the Activity, which looks at its own copy of isConnected.
Resume ==
  /\ MainThread /\ ~mirror /\ \E s \in Sockets : opener[s] # "none"
  /\ Connect
  /\ UNCHANGED timers

\* The runnable of scheduleReconnect.
TimerFires ==
  /\ MainThread /\ timers > 0
  /\ timers' = timers - 1
  /\ IF isConnected
     THEN UNCHANGED <<clientVars, registered, frameVars, mirror, up, relayVars>>
     ELSE Connect

\* onAvailable, once registered, posts a runnable that connects at once.  It
\* runs at any time, or never if a scheduleReconnect removes it.
NetAvailable ==
  /\ MainThread /\ registered /\ ~isConnected
  /\ timers' = 0
  /\ Connect

-----------------------------------------------------------------------------
(* onOpen of a socket.                                                      *)

\* The upgrade succeeded, also if the relay is about to terminate the socket.
OnOpen(s) ==
  /\ opener[s] = "connecting" /\ failure[s] = "no" /\ relay[s] # "none"
  /\ opener' = [opener EXCEPT ![s] = "opening"]
  /\ isConnected' = TRUE /\ registered' = TRUE
  /\ UNCHANGED <<webSocket, failure, assigning, timers, frameVars, mirror, up,
                 relayVars>>

\* handler.onStatusChanged(true).
TellConnected(s) ==
  /\ opener[s] = "opening"
  /\ opener' = [opener EXCEPT ![s] = "flushing"]
  /\ mirror' = TRUE
  /\ UNCHANGED <<webSocket, isConnected, failure, assigning, handlerVars, frameVars, up,
                 relayVars>>

\* flushOutbox: the first frame is taken ...
FlushPoll(s) ==
  /\ opener[s] = "flushing" /\ held[s] = NoFrame
  /\ IF outbox = <<>>
     THEN opener' = [opener EXCEPT ![s] = "open"] /\ UNCHANGED <<outbox, held>>
     ELSE /\ held' = [held EXCEPT ![s] = Head(outbox)] /\ outbox' = Tail(outbox)
          /\ UNCHANGED opener
  /\ UNCHANGED <<webSocket, isConnected, failure, assigning, handlerVars, frame, mirror,
                 up, relayVars>>

\* WebSocket.send is FALSE once the failure of the socket is known.
Accepts(s) == failure[s] = "no"

\* Mutant: the frame that could not be sent is forgotten.
FlushSendOnce(s) ==
  /\ held[s] # NoFrame
  /\ held' = [held EXCEPT ![s] = NoFrame]
  /\ IF Accepts(s)
     THEN frame' = [frame EXCEPT ![held[s]] = "idle"] /\ UNCHANGED <<opener, outbox>>
     ELSE opener' = [opener EXCEPT ![s] = "open"] /\ UNCHANGED <<outbox, frame>>
  /\ UNCHANGED <<webSocket, isConnected, failure, assigning, handlerVars, mirror, up,
                 relayVars>>

\* ... and sent, or put back at the head.
FlushSend(s) ==
  /\ held[s] # NoFrame
  /\ held' = [held EXCEPT ![s] = NoFrame]
  /\ IF Accepts(s)
     THEN frame' = [frame EXCEPT ![held[s]] = "idle"] /\ UNCHANGED <<opener, outbox>>
     ELSE /\ outbox' = <<held[s]>> \o outbox
          /\ opener' = [opener EXCEPT ![s] = "open"] /\ UNCHANGED frame
  /\ UNCHANGED <<webSocket, isConnected, failure, assigning, handlerVars, mirror, up,
                 relayVars>>

-----------------------------------------------------------------------------
(* onFailure and onClosed, on the thread of the reader or of the writer.    *)

\* Mutant: a socket that was replaced is not heard.
OnFailureOfCurrent(s) ==
  /\ opener[s] \in {"connecting", "flushing", "open"} /\ ~up[s] /\ failure[s] = "no"
  /\ failure' = [failure EXCEPT ![s] = "telling"]
  /\ isConnected' = (isConnected /\ s # webSocket)
  /\ UNCHANGED <<webSocket, opener, assigning, handlerVars, frameVars, mirror, up,
                 relayVars>>

\* Whatever the socket, also one that connect has replaced.
OnFailure(s) ==
  /\ opener[s] \in {"connecting", "flushing", "open"} /\ ~up[s] /\ failure[s] = "no"
  /\ failure' = [failure EXCEPT ![s] = "telling"]
  /\ isConnected' = FALSE
  /\ UNCHANGED <<webSocket, opener, assigning, handlerVars, frameVars, mirror, up,
                 relayVars>>

\* handler.onStatusChanged(false).
TellFailed(s) ==
  /\ failure[s] = "telling"
  /\ failure' = [failure EXCEPT ![s] = "checking"]
  /\ mirror' = FALSE
  /\ UNCHANGED <<webSocket, isConnected, opener, assigning, handlerVars, frameVars, up,
                 relayVars>>

\* scheduleReconnect: nothing to do if another socket has opened ...
ScheduleCheck(s) ==
  /\ failure[s] = "checking"
  /\ failure' = [failure EXCEPT ![s] = IF isConnected THEN "done" ELSE "clearing"]
  /\ UNCHANGED <<webSocket, isConnected, opener, assigning, handlerVars, frameVars,
                 mirror, up, relayVars>>

\* ... else one runnable replaces all that wait ...
ScheduleClear(s) ==
  /\ failure[s] = "clearing"
  /\ failure' = [failure EXCEPT ![s] = "arming"]
  /\ timers' = 0
  /\ UNCHANGED <<webSocket, isConnected, opener, assigning, registered, frameVars,
                 mirror, up, relayVars>>

\* Mutant: no second timer beside one that waits.
ScheduleArmSparing(s) ==
  /\ failure[s] = "arming"
  /\ failure' = [failure EXCEPT ![s] = "done"]
  /\ timers' = IF \E x \in Sockets \ {s} : failure[x] # "no" THEN timers ELSE timers + 1
  /\ UNCHANGED <<webSocket, isConnected, opener, assigning, registered,
                 frameVars, mirror, up, relayVars>>

\* ... in 1, 2, 4, 8 or 16 seconds.
ScheduleArm(s) ==
  /\ failure[s] = "arming"
  /\ failure' = [failure EXCEPT ![s] = "done"]
  /\ timers' = timers + 1
  /\ UNCHANGED <<webSocket, isConnected, opener, assigning, registered,
                 frameVars, mirror, up, relayVars>>

-----------------------------------------------------------------------------
(* sendJson of a frame that is not an envelope.                             *)

\* webSocket and isConnected are read: the frame is sent, or ...
Submit(f) ==
  /\ frame[f] = "idle"
  /\ ~(webSocket # 0 /\ isConnected /\ Accepts(webSocket))
  /\ frame' = [frame EXCEPT ![f] = "deciding"]
  /\ UNCHANGED <<clientVars, handlerVars, outbox, held, mirror, up, relayVars>>

\* ... joins the outbox, whose eldest frame may have to go.
Enqueue(f) ==
  LET full == Len(outbox) >= OUTBOX_MAX
      kept == IF full THEN Tail(outbox) ELSE outbox IN
  /\ frame[f] = "deciding"
  /\ outbox' = Append(kept, f)
  /\ frame' = IF full THEN [frame EXCEPT ![f] = "queued", ![Head(outbox)] = "idle"]
                      ELSE [frame EXCEPT ![f] = "queued"]
  /\ UNCHANGED <<clientVars, handlerVars, held, mirror, up, relayVars>>

-----------------------------------------------------------------------------
(* The relay and the network.                                               *)

\* Mutant: a rejected socket is counted, too.
RelayAcceptCounting(s) ==
  /\ opener[s] = "connecting" /\ up[s] /\ relay[s] = "none"
  /\ ipCount' = ipCount + 1
  /\ IF ipCount >= MAX_CONNECTIONS_PER_IP
     THEN /\ relay' = [relay EXCEPT ![s] = "closed"]
          /\ up' = [up EXCEPT ![s] = FALSE]
     ELSE /\ relay' = [relay EXCEPT ![s] = "counted"] /\ UNCHANGED up
  /\ UNCHANGED <<clientVars, handlerVars, frameVars, mirror>>

\* 'connection': the limit per IP.
RelayAccept(s) ==
  /\ opener[s] = "connecting" /\ up[s] /\ relay[s] = "none"
  /\ IF ipCount >= MAX_CONNECTIONS_PER_IP
     THEN /\ relay' = [relay EXCEPT ![s] = "closed"]
          /\ up' = [up EXCEPT ![s] = FALSE] /\ UNCHANGED ipCount
     ELSE /\ relay' = [relay EXCEPT ![s] = "counted"]
          /\ ipCount' = ipCount + 1 /\ UNCHANGED up
  /\ UNCHANGED <<clientVars, handlerVars, frameVars, mirror>>

\* Mutant: no floor at zero.
DecrementedBare == ipCount - 1

\* (get || 1) - 1, deleted at zero.
Decremented == IF ipCount <= 1 THEN 0 ELSE ipCount - 1

\* 'error' comes before 'close', and both count down.
RelayError(s) ==
  /\ relay[s] = "counted" /\ ~up[s]
  /\ relay' = [relay EXCEPT ![s] = "errored"] /\ ipCount' = Decremented
  /\ UNCHANGED <<clientVars, handlerVars, frameVars, mirror, up>>

\* Mutant: only an error counts down.
RelayCloseKeeping(s) ==
  /\ relay[s] \in {"counted", "errored"} /\ ~up[s]
  /\ relay' = [relay EXCEPT ![s] = "closed"] /\ UNCHANGED ipCount
  /\ UNCHANGED <<clientVars, handlerVars, frameVars, mirror, up>>

\* 'close', also after terminate by the heartbeat or the timeout of auth.
RelayClose(s) ==
  /\ relay[s] \in {"counted", "errored"} /\ ~up[s]
  /\ relay' = [relay EXCEPT ![s] = "closed"] /\ ipCount' = Decremented
  /\ UNCHANGED <<clientVars, handlerVars, frameVars, mirror, up>>

\* The network, or a terminate of the relay, ends a connection.
Break(s) ==
  /\ up[s]
  /\ up' = [up EXCEPT ![s] = FALSE]
  /\ UNCHANGED <<clientVars, handlerVars, frameVars, mirror, relayVars>>

-----------------------------------------------------------------------------
Callback(s) ==
  \/ OnOpen(s) \/ TellConnected(s) \/ FlushPoll(s) \/ FlushSend(s)
  \/ OnFailure(s) \/ TellFailed(s) \/ ScheduleCheck(s) \/ ScheduleClear(s)
  \/ ScheduleArm(s)
RelayStep(s) == RelayAccept(s) \/ RelayError(s) \/ RelayClose(s)

Next ==
  \/ Start \/ Resume \/ Assign \/ TimerFires \/ NetAvailable
  \/ \E s \in Sockets : Callback(s) \/ RelayStep(s) \/ Break(s)
  \/ \E f \in Frames : Submit(f) \/ Enqueue(f)

Spec == Init /\ [][Next]_vars

\* Threads, timers and the relay's loop go on; the user, the system's network
\* callback and the network owe nothing.
Fairness ==
  /\ WF_vars(Assign) /\ WF_vars(TimerFires)
  /\ \A s \in Sockets : WF_vars(Callback(s)) /\ WF_vars(RelayStep(s))

FairSpec == Spec /\ Fairness
-----------------------------------------------------------------------------
(* Properties.                                                              *)

\* Every variable holds a value of its kind.
TypeOK ==
  /\ webSocket \in Sockets \cup {0} /\ assigning \in Sockets \cup {0}
  /\ isConnected \in BOOLEAN /\ mirror \in BOOLEAN
  /\ opener \in [Sockets -> {"none", "connecting", "opening", "flushing", "open"}]
  /\ failure \in [Sockets -> {"no", "telling", "checking", "clearing", "arming", "done"}]
  /\ timers \in Nat /\ registered \in BOOLEAN
  /\ outbox \in Seq(Frames) /\ held \in [Sockets -> Frames \cup {NoFrame}]
  /\ frame \in [Frames -> {"idle", "deciding", "queued"}]
  /\ up \in [Sockets -> BOOLEAN]
  /\ relay \in [Sockets -> {"none", "counted", "errored", "closed"}]
  /\ ipCount \in Nat

\* isConnected is true only while a socket is open whose failure has not been
\* reported, whichever callbacks of cancelled sockets come late.
ConnectedMeansOpen ==
  isConnected => \E s \in Sockets : /\ opener[s] \in {"opening", "flushing", "open"}
                                    /\ failure[s] = "no"

\* A device that is offline is never left without a next attempt: a socket is
\* connecting, a runnable waits, or a thread is about to post one, although
\* every scheduleReconnect clears the handler of all the others.
RetryAtHand ==
  ~isConnected /\ (\E s \in Sockets : opener[s] # "none") =>
    \/ timers > 0
    \/ \E s \in Sockets : \/ failure[s] \notin {"no", "done"}
                          \/ opener[s] = "connecting" /\ failure[s] = "no"

\* Timers, the network callback, onResume and late failures race for one
\* handler: at most one of all sockets made has not been given up.
OneLiveSocket == \A s, t \in Sockets : up[s] /\ up[t] => s = t

\* A frame stays in the outbox, or in the hands of one flushOutbox, until it
\* is accepted by a socket or the outbox overflows; none is there twice.
OutboxKeeps ==
  \A f \in Frames : frame[f] = "queued" =>
    Cardinality({i \in DOMAIN outbox : outbox[i] = f}
                \cup {s + Len(outbox) : s \in {x \in Sockets : held[x] = f}}) = 1

\* The relay never counts more connections of an address than it has: a slot
\* is not lost by a rejection, an error or a close, so nobody is locked out.
SlotsNeverLeak == ipCount <= Cardinality({s \in Sockets : relay[s] = "counted"})

\* The failure of a dead socket is reported before another socket opens, and
\* a timer does not fire before a working socket has opened: the first is a
\* matter of milliseconds, the second is what the growing delay is for.
Prompt ==
  \A s, t \in Sockets :
    s # t /\ opener[s] # "none" /\ ~up[s] /\ failure[s] # "done"
      => opener[t] \notin {"opening", "flushing", "open"} \/ failure[t] = "done"
Connecting == \E s \in Sockets : up[s] /\ opener[s] = "connecting"
Calm == /\ ~Resume /\ ~NetAvailable /\ \A s \in Sockets : ~Break(s)
        /\ TimerFires => ~Connecting

\* Once network and user leave it alone and delays suffice, a device that was
\* started gets online and stays so, also past the relay's limit of connections.
EventuallyOnline ==
  <>[][Calm]_vars /\ <>[]Prompt =>
    []((\E s \in Sockets : opener[s] # "none") => <>[]isConnected)
=============================================================================
