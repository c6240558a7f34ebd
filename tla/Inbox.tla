------------------------------- MODULE Inbox --------------------------------
(***************************************************************************)
(* How a text reaches the screen of one device and its receipt that of     *)
(* another: MessengerService with and without an Activity, the coroutines  *)
(* of MainActivity.handleDecrypted, seen_nonces and its purge.             *)
(*                                                                         *)
(* What the transport hands over it hands over here (Arrive), once or, when *)
(* its filters have forgotten, again (Redeliver).  The lane of              *)
(* NetworkManager runs one dispatch at a time; registering and unregistering *)
(* an Activity, and everything posted to an Activity, run on the main       *)
(* thread; the coroutines of an Activity end with it.                       *)
(***************************************************************************)
EXTENDS Integers, FiniteSets

CONSTANTS
  Messages,        \* texts
  First,           \* those that come inside an INITIAL_HANDSHAKE, without a nonce
  MaxCopies,       \* bound: how often a text is handed over
  Activities,      \* instances of MainActivity
  None,            \* no Activity
  MAX_AGE,         \* ReplayWindow.MAX_AGE_MS (28 days)
  RETENTION,       \* ReplayWindow.RETENTION_MS (30 days)
  MaxSkew,         \* how far the clock of the sender may be ahead
  Horizon,         \* bound: the last instant
  MaxFaults        \* bound: kills, destroyed Activities, repeated deliveries

ASSUME InboxAssumption ==
  /\ First \subseteq Messages
  /\ MaxCopies \in Nat \ {0} /\ Horizon \in Nat \ {0} /\ MaxFaults \in Nat
  /\ None \notin Activities
  /\ MAX_AGE \in Nat /\ RETENTION \in Nat /\ MaxSkew \in Nat
  /\ MAX_AGE + MaxSkew <= RETENTION

VARIABLES
  \* ---- the recipient ----
  activityHandler, \* the Activity the service knows, or None
  screen,          \* life of every Activity
  networkUp,       \* ensureNetwork was called in this process
  stage,           \* where each copy of a text is
  owner,           \* the Activity that works on it
  inserting,       \* copies whose insert is under way
  acking,          \* copies whose sendAck is under way
  seen,            \* seen_nonces: when the nonce of a text was recorded, 0 if absent
  rows,            \* messages: rows of a text
  disturbed,       \* history: the process was killed or an Activity destroyed
  \* ---- the sender ----
  own,             \* its row of the text
  storing, noting, sending, updating,   \* its coroutines, by text
  nonceToIdMap,
  \* ---- between them ----
  ts,              \* the sender's clock in the text
  receipts,        \* acknowledgements under way
  clock, faults

serviceVars == <<activityHandler, screen, networkUp>>
jobVars == <<stage, owner, inserting, acking>>
dbVars == <<seen, rows>>
senderVars == <<own, storing, noting, sending, updating, nonceToIdMap>>
vars == <<serviceVars, jobVars, dbVars, disturbed, senderVars, ts, receipts, clock, faults>>

Copies == Messages \X (1..MaxCopies)
Text(e) == e[1]

Init ==
  /\ activityHandler = None /\ screen = [i \in Activities |-> "none"]
  /\ networkUp = FALSE
  /\ stage = [e \in Copies |-> "unsent"] /\ owner = [e \in Copies |-> None]
  /\ inserting = {} /\ acking = {}
  /\ seen = [m \in Messages |-> 0] /\ rows = [m \in Messages |-> 0]
  /\ disturbed = FALSE
  /\ own = [m \in Messages |-> "none"]
  /\ storing = {} /\ noting = {} /\ sending = {} /\ updating = {}
  /\ nonceToIdMap = {}
  /\ ts = [m \in Messages |-> 0] /\ receipts = {} /\ clock = 1 /\ faults = 0

-----------------------------------------------------------------------------
(* The sender.                                                              *)

\* sendToPeer: one coroutine stores the text (addMessage), another sends it.
SendToPeer(m) ==
  /\ own[m] = "none" /\ own' = [own EXCEPT ![m] = "typed"]
  /\ storing' = storing \cup {m} /\ sending' = sending \cup {m}
  /\ UNCHANGED <<serviceVars, jobVars, dbVars, disturbed, noting, updating,
                 nonceToIdMap, ts, receipts, clock, faults>>

\* The text gets a row ...
StoreOwn(m) ==
  /\ m \in storing
  /\ storing' = storing \ {m} /\ noting' = noting \cup {m}
  /\ own' = [own EXCEPT ![m] = "SENT"]
  /\ UNCHANGED <<serviceVars, jobVars, dbVars, disturbed, sending, updating,
                 nonceToIdMap, ts, receipts, clock, faults>>

\* ... and its id is noted under the nonce.
NoteId(m) ==
  /\ m \in noting
  /\ noting' = noting \ {m} /\ nonceToIdMap' = nonceToIdMap \cup {m}
  /\ UNCHANGED <<serviceVars, jobVars, dbVars, disturbed, own, storing, sending,
                 updating, ts, receipts, clock, faults>>

Transmit(m) ==
  /\ m \in sending /\ sending' = sending \ {m}
  /\ stage' = [stage EXCEPT ![<<m, 1>>] = "wire"]
  /\ \E skew \in 0..MaxSkew : ts' = [ts EXCEPT ![m] = clock + skew]
  /\ UNCHANGED <<serviceVars, owner, inserting, acking, dbVars, disturbed, own, storing,
                 noting, updating, nonceToIdMap, receipts, clock, faults>>

\* markDelivered: a nonce that is not in the map marks nothing.
MarkDelivered(m) ==
  /\ m \in receipts /\ receipts' = receipts \ {m}
  /\ updating' = IF m \in nonceToIdMap THEN updating \cup {m} ELSE updating
  /\ nonceToIdMap' = nonceToIdMap \ {m}
  /\ UNCHANGED <<serviceVars, jobVars, dbVars, disturbed, own, storing, noting, sending,
                 ts, clock, faults>>

\* Mutant: a receipt is taken for READ.
UpdateStatusRead(m) ==
  /\ m \in updating /\ updating' = updating \ {m}
  /\ own' = [own EXCEPT ![m] = "READ"]
  /\ UNCHANGED <<serviceVars, jobVars, dbVars, disturbed, storing, noting, sending,
                 nonceToIdMap, ts, receipts, clock, faults>>

UpdateStatus(m) ==
  /\ m \in updating /\ updating' = updating \ {m}
  /\ own' = [own EXCEPT ![m] = "DELIVERED"]
  /\ UNCHANGED <<serviceVars, jobVars, dbVars, disturbed, storing, noting, sending,
                 nonceToIdMap, ts, receipts, clock, faults>>

\* The Activity or the process of the sender ends.
SenderGone ==
  /\ faults < MaxFaults /\ faults' = faults + 1
  /\ storing' = {} /\ noting' = {} /\ sending' = {} /\ updating' = {}
  /\ nonceToIdMap' = {}
  /\ UNCHANGED <<serviceVars, jobVars, dbVars, disturbed, own, ts, receipts, clock>>

-----------------------------------------------------------------------------
(* The service of the recipient.                                            *)

Reading == {e \in Copies : stage[e] = "reading"}
Pending == {e \in Copies : stage[e] = "pending"}

\* dispatch on the lane: the event is posted to the Activity the service
\* knows; when there is none ...
Arrive(e) ==
  /\ networkUp /\ stage[e] = "wire" /\ Reading = {}
  /\ IF activityHandler # None
     THEN /\ stage' = [stage EXCEPT ![e] = "posted"]
          /\ owner' = [owner EXCEPT ![e] = activityHandler]
     ELSE stage' = [stage EXCEPT ![e] = "reading"] /\ UNCHANGED owner
  /\ UNCHANGED <<serviceVars, inserting, acking, dbVars, disturbed, senderVars, ts,
                 receipts, clock, faults>>

\* ... it is queued; an Activity may have registered in between.
Queue(e) ==
  /\ stage[e] = "reading"
  /\ stage' = [stage EXCEPT ![e] = "pending"]
  /\ UNCHANGED <<serviceVars, owner, inserting, acking, dbVars, disturbed, senderVars,
                 ts, receipts, clock, faults>>

\* onCreate, bindService.
Create(i) ==
  /\ screen[i] = "none" /\ screen' = [screen EXCEPT ![i] = "created"]
  /\ UNCHANGED <<activityHandler, networkUp, jobVars, dbVars, disturbed, senderVars, ts,
                 receipts, clock, faults>>

\* Mutant: the queue is not handed over.
RegisterActivityDeaf(i) ==
  /\ screen[i] = "created" /\ screen' = [screen EXCEPT ![i] = "registered"]
  /\ activityHandler' = i /\ networkUp' = TRUE
  /\ UNCHANGED <<jobVars, dbVars, disturbed, senderVars, ts, receipts, clock, faults>>

\* onServiceConnected: ensureNetwork, registerActivity and the queued events.
RegisterActivity(i) ==
  /\ screen[i] = "created" /\ screen' = [screen EXCEPT ![i] = "registered"]
  /\ activityHandler' = i /\ networkUp' = TRUE
  /\ stage' = [e \in Copies |-> IF e \in Pending THEN "posted" ELSE stage[e]]
  /\ owner' = [e \in Copies |-> IF e \in Pending THEN i ELSE owner[e]]
  /\ UNCHANGED <<inserting, acking, dbVars, disturbed, senderVars, ts, receipts, clock,
                 faults>>

Volatile == {"reading", "pending", "posted", "marking", "fresh", "repeat"}
OfActivity == Volatile \ {"reading", "pending"}

\* onDestroy: lifecycleScope is cancelled, and the service forgets whatever
\* Activity it knows, also a younger one.
Destroy(i) ==
  LET of == {e \in Copies : owner[e] = i} IN
  /\ faults < MaxFaults /\ faults' = faults + 1
  /\ screen[i] # "none" /\ screen' = [screen EXCEPT ![i] = "none"]
  /\ activityHandler' = IF screen[i] = "registered" THEN None ELSE activityHandler
  /\ stage' = [e \in Copies |->
                 IF e \in of /\ stage[e] \in OfActivity THEN "lost" ELSE stage[e]]
  /\ inserting' = inserting \ of /\ acking' = acking \ of
  /\ disturbed' = TRUE
  /\ UNCHANGED <<networkUp, owner, dbVars, senderVars, ts, receipts, clock>>

\* Process death.  A new process connects when an Activity binds.
Kill ==
  /\ faults < MaxFaults /\ faults' = faults + 1
  /\ activityHandler' = None /\ screen' = [i \in Activities |-> "none"] /\ networkUp' = FALSE
  /\ stage' = [e \in Copies |-> IF stage[e] \in Volatile THEN "lost" ELSE stage[e]]
  /\ inserting' = {} /\ acking' = {}
  /\ disturbed' = TRUE
  /\ UNCHANGED <<owner, dbVars, senderVars, ts, receipts, clock>>

-----------------------------------------------------------------------------
(* MainActivity of the recipient.                                           *)

Stale(m) == clock - ts[m] > MAX_AGE

\* Mutant: a text is too old only after the nonces have gone.
HandleDecryptedLate(e) ==
  /\ stage[e] = "posted" /\ Text(e) \notin First
  /\ stage' = [stage EXCEPT ![e] =
       IF clock - ts[Text(e)] > RETENTION + 1 THEN "refused" ELSE "marking"]
  /\ UNCHANGED <<serviceVars, owner, inserting, acking, dbVars, disturbed, senderVars,
                 ts, receipts, clock, faults>>

\* handleDecrypted of a text with a nonce: too old, or a coroutine starts.
HandleDecrypted(e) ==
  /\ stage[e] = "posted" /\ Text(e) \notin First
  /\ stage' = [stage EXCEPT ![e] = IF Stale(Text(e)) THEN "refused" ELSE "marking"]
  /\ UNCHANGED <<serviceVars, owner, inserting, acking, dbVars, disturbed, senderVars,
                 ts, receipts, clock, faults>>

\* onInitialHandshakeReceived: no nonce, no receipt.
HandleInitial(e) ==
  /\ stage[e] = "posted" /\ Text(e) \in First
  /\ stage' = [stage EXCEPT ![e] = "done"] /\ inserting' = inserting \cup {e}
  /\ UNCHANGED <<serviceVars, owner, acking, dbVars, disturbed, senderVars, ts, receipts,
                 clock, faults>>

\* markSeen, atomic in the database.
MarkSeen(e) ==
  LET m == Text(e) IN
  /\ stage[e] = "marking"
  /\ IF seen[m] = 0
     THEN stage' = [stage EXCEPT ![e] = "fresh"] /\ seen' = [seen EXCEPT ![m] = clock]
     ELSE stage' = [stage EXCEPT ![e] = "repeat"] /\ UNCHANGED seen
  /\ UNCHANGED <<serviceVars, owner, inserting, acking, rows, disturbed, senderVars, ts,
                 receipts, clock, faults>>

\* Mutant: a text of another chat than the open one is not stored.
ShowOpenOnly(e) ==
  /\ stage[e] \in {"fresh", "repeat"}
  /\ stage' = [stage EXCEPT ![e] = "done"]
  /\ \E open \in BOOLEAN :
       inserting' = IF stage[e] = "fresh" /\ open THEN inserting \cup {e} ELSE inserting
  /\ acking' = acking \cup {e}
  /\ UNCHANGED <<serviceVars, owner, dbVars, disturbed, senderVars, ts, receipts, clock,
                 faults>>

\* Back on the main thread: a new text is shown and one coroutine inserts it;
\* another one acknowledges it, also when it is a repetition.
Show(e) ==
  /\ stage[e] \in {"fresh", "repeat"}
  /\ stage' = [stage EXCEPT ![e] = "done"]
  /\ inserting' = IF stage[e] = "fresh" THEN inserting \cup {e} ELSE inserting
  /\ acking' = acking \cup {e}
  /\ UNCHANGED <<serviceVars, owner, dbVars, disturbed, senderVars, ts, receipts, clock,
                 faults>>

Insert(e) ==
  /\ e \in inserting /\ inserting' = inserting \ {e}
  /\ rows' = [rows EXCEPT ![Text(e)] = @ + 1]
  /\ UNCHANGED <<serviceVars, stage, owner, acking, seen, disturbed, senderVars, ts,
                 receipts, clock, faults>>

SendAck(e) ==
  /\ e \in acking /\ acking' = acking \ {e}
  /\ receipts' = receipts \cup {Text(e)}
  /\ UNCHANGED <<serviceVars, stage, owner, inserting, dbVars, disturbed, senderVars, ts,
                 clock, faults>>

-----------------------------------------------------------------------------
(* The transport and time.                                                  *)

\* The filters of the transport have forgotten the text (not its handshake,
\* which SessionManager accepts once).
Redeliver(m, c) ==
  /\ faults < MaxFaults /\ faults' = faults + 1
  /\ m \notin First /\ c > 1
  /\ stage[<<m, c>>] = "unsent" /\ stage[<<m, c - 1>>] \notin {"unsent", "wire"}
  /\ stage' = [stage EXCEPT ![<<m, c>>] = "wire"]
  /\ UNCHANGED <<serviceVars, owner, inserting, acking, dbVars, disturbed, senderVars,
                 ts, receipts, clock>>

\* purgeChatOlderThan, every ten minutes.
Purge ==
  /\ \E m \in Messages : seen[m] # 0 /\ clock - seen[m] > RETENTION
  /\ seen' = [m \in Messages |->
                IF seen[m] # 0 /\ clock - seen[m] > RETENTION THEN 0 ELSE seen[m]]
  /\ UNCHANGED <<serviceVars, jobVars, rows, disturbed, senderVars, ts, receipts, clock,
                 faults>>

\* Days pass, but not between the check of ts and markSeen of one coroutine.
Tick ==
  /\ clock < Horizon /\ clock' = clock + 1
  /\ \A e \in Copies : stage[e] # "marking"
  /\ UNCHANGED <<serviceVars, jobVars, dbVars, disturbed, senderVars, ts, receipts,
                 faults>>

-----------------------------------------------------------------------------
Next ==
  \/ \E m \in Messages : SendToPeer(m) \/ StoreOwn(m) \/ NoteId(m) \/ Transmit(m)
                         \/ MarkDelivered(m) \/ UpdateStatus(m)
  \/ SenderGone
  \/ \E i \in Activities : Create(i) \/ RegisterActivity(i) \/ Destroy(i)
  \/ Kill
  \/ \E e \in Copies : Arrive(e) \/ Queue(e) \/ HandleDecrypted(e) \/ HandleInitial(e)
                       \/ MarkSeen(e) \/ Show(e) \/ Insert(e) \/ SendAck(e)
  \/ \E m \in Messages, c \in 1..MaxCopies : Redeliver(m, c)
  \/ Purge \/ Tick

Spec == Init /\ [][Next]_vars
-----------------------------------------------------------------------------
(* Properties.                                                              *)

\* Every variable holds a value of its kind.
TypeOK ==
  /\ activityHandler \in Activities \cup {None}
  /\ screen \in [Activities -> {"none", "created", "registered"}]
  /\ networkUp \in BOOLEAN /\ disturbed \in BOOLEAN
  /\ stage \in [Copies -> Volatile \cup {"unsent", "wire", "refused", "done", "lost"}]
  /\ owner \in [Copies -> Activities \cup {None}]
  /\ inserting \subseteq Copies /\ acking \subseteq Copies
  /\ seen \in [Messages -> 0..Horizon] /\ rows \in [Messages -> Nat]
  /\ own \in [Messages -> {"none", "typed", "SENT", "DELIVERED"}]
  /\ storing \subseteq Messages /\ noting \subseteq Messages
  /\ sending \subseteq Messages /\ updating \subseteq Messages
  /\ nonceToIdMap \subseteq Messages /\ receipts \subseteq Messages
  /\ ts \in [Messages -> 0..Horizon + MaxSkew]
  /\ clock \in 1..Horizon /\ faults \in 0..MaxFaults

\* Copies of a text that will add a row to the history.
ToInsert(m) == {e \in Copies : Text(e) = m /\ (e \in inserting \/ stage[e] = "fresh")}

\* A text gets at most one row, over redeliveries, kills between markSeen and
\* insert, several Activities and the purge of nonces: the margin between
\* MAX_AGE and RETENTION outweighs the difference of the clocks.
ShownAtMostOnce == \A m \in Messages : rows[m] + Cardinality(ToInsert(m)) <= 1

\* What the sender is told to be delivered, the recipient has or is about to
\* store, whichever copy was acknowledged, as long as its Activity lives.
AckedIsKept ==
  \A m \in Messages :
    ~disturbed /\ (m \in receipts \cup updating \/ own[m] = "DELIVERED"
                   \/ \E e \in acking : Text(e) = m)
      => rows[m] > 0 \/ ToInsert(m) # {}

\* An event that was queued after the queue was handed over waits for the next
\* Activity, but it is the only one: no second event joins it while an
\* Activity is registered.
AtMostOneStranded == activityHandler # None => Cardinality(Pending) <= 1
=============================================================================
