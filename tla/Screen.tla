------------------------------- MODULE Screen -------------------------------
(***************************************************************************)
(* Inbox and MediaTransfer on one device: files come through the dispatch   *)
(* that texts come through, and the transfers under way belong to the       *)
(* Activity that the service knows.                                         *)
(***************************************************************************)
EXTENDS Inbox

CONSTANTS Transfers, Bytes, CHUNK_SIZE, MAX_TRANSFER, MAX_ACTIVE, TTL, MediaHorizon

VARIABLES toSend, wire, states, createdAt, chunks, ephKeys, doneSeen,
          heard, accepted, completed, mediaClock

Media == INSTANCE MediaTransfer WITH Horizon <- MediaHorizon, clock <- mediaClock

ASSUME MediaLimits == Media!MediaAssumption

chatVars == <<serviceVars, jobVars, dbVars, disturbed, senderVars, ts, receipts, clock>>
mediaVars == <<toSend, wire, states, createdAt, chunks, ephKeys, doneSeen, heard,
               accepted, completed, mediaClock>>
screenVars == <<vars, mediaVars>>

ScreenInit == Init /\ Media!Init

\* Steps that concern texts only.
ChatStep ==
  /\ \/ \E m \in Messages : \/ SendToPeer(m) \/ StoreOwn(m) \/ NoteId(m) \/ Transmit(m)
                            \/ MarkDelivered(m) \/ UpdateStatus(m)
                            \/ \E c \in 1..MaxCopies : Redeliver(m, c)
     \/ \E e \in Copies : \/ Arrive(e) \/ Queue(e) \/ HandleDecrypted(e) \/ HandleInitial(e)
                          \/ MarkSeen(e) \/ Show(e) \/ Insert(e) \/ SendAck(e)
     \/ \E i \in Activities : Create(i)
     \/ SenderGone \/ Purge \/ Tick
  /\ UNCHANGED mediaVars

\* Frames of files: what is handled is handled by a registered Activity.
MediaStep ==
  /\ \/ \E t \in Transfers : Media!SendMedia(t) /\ UNCHANGED faults
     \/ \E f \in wire : activityHandler # None /\ Media!OnIncoming(f) /\ UNCHANGED faults
     \/ \E f \in wire : Media!Lose(f)
     \/ \E t \in Transfers : \E k \in 0..Media!TotalChunks(t) + 1 : Media!Repeat(t, k)
     \/ Media!Tick /\ UNCHANGED faults
  /\ UNCHANGED chatVars

\* The life of an Activity: texts and files.
ActivityStep ==
  \/ \E i \in Activities : RegisterActivity(i) /\ Media!NewController
  \/ \E i \in Activities : Destroy(i) /\ Media!ActivityGone
  \/ Kill /\ Media!ActivityGone

ScreenNext == ChatStep \/ MediaStep \/ ActivityStep
ScreenSpec == ScreenInit /\ [][ScreenNext]_screenVars
-----------------------------------------------------------------------------
\* Every variable of texts and files holds a value of its kind.
ScreenTypeOK == TypeOK /\ Media!TypeOK
\* The properties of MediaTransfer on a screen that comes and goes: no file
\* waits that has got everything,
NothingWaits == Media!NothingWaits
\* every file is shown at most once per INIT,
CompletedOnce == Media!CompletedOnce
\* and the memory that files reserve is bounded.
ReservedWithinLimit == Media!ReservedWithinLimit
=============================================================================
