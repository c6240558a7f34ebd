---------------------------- MODULE MediaTransfer ---------------------------
(***************************************************************************)
(* Photos and voice messages: sendMedia cuts a file into INIT, chunks and   *)
(* DONE and sends them one after the other; MediaController and             *)
(* TransferManager of one receiver put it together.                         *)
(*                                                                         *)
(* A file is the number of its bytes; a chunk is its number.  The frames of *)
(* several files interleave, overtake each other, get lost and come twice   *)
(* on their way (modules Delivery and Handshake).  All handlers run on the  *)
(* main thread.  Sizes are small; the largest still fits an Int.            *)
(***************************************************************************)
EXTENDS Integers, FiniteSets

CONSTANTS
  Transfers,      \* transferIds
  Bytes,          \* totalBytes of each
  CHUNK_SIZE,     \* MediaLimits.CHUNK_SIZE
  MAX_TRANSFER,   \* MediaLimits.MAX_TRANSFER, also MAX_RESERVED
  MAX_ACTIVE,     \* transfers at a time
  TTL,            \* an INIT without DONE holds its place that long
  Horizon,        \* bound: the last instant
  MaxFaults       \* bound: lost frames, repeated frames, dead Activities

\* What Screen assumes of the constants.
MediaAssumption ==
  /\ Bytes \in [Transfers -> Nat]
  /\ CHUNK_SIZE \in Nat \ {0} /\ MAX_TRANSFER \in Nat /\ MAX_ACTIVE \in Nat
  /\ TTL \in Nat /\ Horizon \in Nat /\ MaxFaults \in Nat

VARIABLES
  toSend,      \* how many frames of a transfer have been sent
  wire,        \* frames under way
  \* ---- TransferManager, MediaController ----
  states,      \* the active transfers
  createdAt,   \* when the INIT of each was accepted
  chunks,      \* the chunks each has
  ephKeys,     \* transfers with a key (and, always alike, a kind)
  doneSeen,    \* transfers whose DONE came
  \* ---- history, time ----
  heard,       \* frames of a transfer handled since its INIT was accepted
  accepted,    \* INITs accepted
  completed,   \* files given to onMediaComplete
  clock, faults

managerVars == <<states, createdAt, chunks, ephKeys, doneSeen>>
historyVars == <<heard, accepted, completed>>
vars == <<toSend, wire, managerVars, historyVars, clock, faults>>

\* (totalBytes + chunkSize - 1) / chunkSize: none for an empty file.
TotalChunks(t) == (Bytes[t] + CHUNK_SIZE - 1) \div CHUNK_SIZE
Numbers(t) == 0..TotalChunks(t) - 1

\* buildTransfer, in order: INIT, the chunks, DONE.
Frame(t, k) ==
  CASE k = 0 -> [id |-> t, type |-> "INIT", seq |-> 0]
    [] k = TotalChunks(t) + 1 -> [id |-> t, type |-> "DONE", seq |-> 0]
    [] OTHER -> [id |-> t, type |-> "CHUNK", seq |-> k - 1]
FramesOf(t) == {Frame(t, k) : k \in 0..TotalChunks(t) + 1}

Init ==
  /\ toSend = [t \in Transfers |-> 0] /\ wire = {}
  /\ states = {} /\ createdAt = [t \in Transfers |-> 0]
  /\ chunks = [t \in Transfers |-> {}] /\ ephKeys = {} /\ doneSeen = {}
  /\ heard = [t \in Transfers |-> {}]
  /\ accepted = [t \in Transfers |-> 0] /\ completed = [t \in Transfers |-> 0]
  /\ clock = 0 /\ faults = 0

-----------------------------------------------------------------------------
\* sendMedia: the next frame of a file.
SendMedia(t) ==
  /\ toSend[t] <= TotalChunks(t) + 1
  /\ toSend' = [toSend EXCEPT ![t] = @ + 1]
  /\ wire' = wire \cup {Frame(t, toSend[t])}
  /\ UNCHANGED <<managerVars, historyVars, clock, faults>>

-----------------------------------------------------------------------------
(* TransferManager.                                                         *)

\* The sum of totalBytes over transfers, counted byte by byte.
Reserved(ts) == Cardinality(UNION {{t} \X (1..Bytes[t]) : t \in ts})

\* The transfers that the sweep of onInit leaves.
Live == {t \in states : clock - createdAt[t] <= TTL}

\* Mutant: the new transfer itself is not counted.
RoomBeside(t) == Cardinality(Live) < MAX_ACTIVE /\ Reserved(Live) <= MAX_TRANSFER
Room(t) == Cardinality(Live) < MAX_ACTIVE /\ Reserved(Live) + Bytes[t] <= MAX_TRANSFER

\* onInit looks at the file itself first: a refusal here sweeps nothing.
Considered(t) == Bytes[t] <= MAX_TRANSFER /\ t \notin states

\* onChunk, isActive.
WithChunk(t, n) == IF t \in states THEN chunks[t] \cup {n} ELSE chunks[t]

\* missing is empty and the sizes match.
Full(t, got) == t \in states /\ got = Numbers(t)

-----------------------------------------------------------------------------
(* MediaController.onIncoming.                                              *)

Hears(f) == heard' = [heard EXCEPT ![f.id] = IF f.id \in states THEN @ \cup {f} ELSE @]

\* Mutant: the basket of a file that was given away stays.
TryFinalizeKeeping(t, got, done) ==
  /\ chunks' = [chunks EXCEPT ![t] = got] /\ doneSeen' = done
  /\ completed' = IF t \in done /\ Full(t, got)
                  THEN [completed EXCEPT ![t] = @ + 1] ELSE completed
  /\ UNCHANGED <<states, ephKeys>>

\* tryFinalize, when the transfer has the chunks `got' and `done' is doneSeen:
\* the file is given to onMediaComplete and every trace of it goes, or nothing.
TryFinalize(t, got, done) ==
  IF t \in done /\ Full(t, got)
  THEN /\ completed' = [completed EXCEPT ![t] = @ + 1]
       /\ states' = states \ {t} /\ ephKeys' = ephKeys \ {t}
       /\ chunks' = [chunks EXCEPT ![t] = {}] /\ doneSeen' = done \ {t}
  ELSE /\ chunks' = [chunks EXCEPT ![t] = got] /\ doneSeen' = done
       /\ UNCHANGED <<completed, states, ephKeys>>

\* MEDIA_INIT that is taken: the keys of swept transfers go, too.
AcceptInit(f) ==
  LET now == Live \cup {f.id} IN
  /\ f.type = "INIT" /\ Considered(f.id) /\ Room(f.id)
  /\ states' = now /\ createdAt' = [createdAt EXCEPT ![f.id] = clock]
  /\ chunks' = [t \in Transfers |-> IF t \in Live THEN chunks[t] ELSE {}]
  /\ ephKeys' = (ephKeys \cap now) \cup {f.id} /\ doneSeen' = doneSeen \cap now
  /\ accepted' = [accepted EXCEPT ![f.id] = @ + 1]
  /\ heard' = [heard EXCEPT ![f.id] = {f}]
  /\ UNCHANGED completed

\* MEDIA_INIT that is refused; the sweep may have gone before.
RefuseInit(f) ==
  /\ f.type = "INIT" /\ ~(Considered(f.id) /\ Room(f.id))
  /\ states' = IF Considered(f.id) THEN Live ELSE states
  /\ chunks' = [t \in Transfers |-> IF t \in states' THEN chunks[t] ELSE {}]
  /\ Hears(f)
  /\ UNCHANGED <<createdAt, ephKeys, doneSeen, accepted, completed>>

\* Mutant: only DONE completes a transfer.
OnChunkNeverLast(f) ==
  /\ f.type = "CHUNK"
  /\ chunks' = IF f.id \in ephKeys
               THEN [chunks EXCEPT ![f.id] = WithChunk(f.id, f.seq)] ELSE chunks
  /\ Hears(f)
  /\ UNCHANGED <<states, createdAt, ephKeys, doneSeen, accepted, completed>>

\* MEDIA_CHUNK: without a key it is dropped; it may be the last one of a
\* transfer whose DONE has come.
OnChunk(f) ==
  /\ f.type = "CHUNK"
  /\ IF f.id \in ephKeys
     THEN TryFinalize(f.id, WithChunk(f.id, f.seq), doneSeen)
     ELSE UNCHANGED <<states, chunks, ephKeys, doneSeen, completed>>
  /\ Hears(f)
  /\ UNCHANGED <<createdAt, accepted>>

\* MEDIA_DONE: ignored unless the transfer is active.
OnDone(f) ==
  /\ f.type = "DONE"
  /\ IF f.id \in states
     THEN TryFinalize(f.id, chunks[f.id], doneSeen \cup {f.id})
     ELSE UNCHANGED <<states, chunks, ephKeys, doneSeen, completed>>
  /\ Hears(f)
  /\ UNCHANGED <<createdAt, accepted>>

OnIncoming(f) ==
  /\ f \in wire /\ wire' = wire \ {f}
  /\ AcceptInit(f) \/ RefuseInit(f) \/ OnChunk(f) \/ OnDone(f)
  /\ UNCHANGED <<toSend, clock, faults>>

-----------------------------------------------------------------------------
(* What happens to frames and to the Activity that holds the transfers.     *)

Fault == faults < MaxFaults /\ faults' = faults + 1

Lose(f) ==
  /\ Fault /\ f \in wire /\ wire' = wire \ {f}
  /\ UNCHANGED <<toSend, managerVars, historyVars, clock>>

Repeat(t, k) ==
  /\ Fault /\ k < toSend[t] /\ wire' = wire \cup {Frame(t, k)}
  /\ UNCHANGED <<toSend, managerVars, historyVars, clock>>

\* Another Activity has a controller of its own.
NewController ==
  /\ states' = {} /\ chunks' = [t \in Transfers |-> {}]
  /\ ephKeys' = {} /\ doneSeen' = {}
  /\ UNCHANGED <<toSend, wire, createdAt, historyVars, clock>>
ActivityGone == Fault /\ NewController

Tick ==
  /\ clock < Horizon /\ clock' = clock + 1
  /\ UNCHANGED <<toSend, wire, managerVars, historyVars, faults>>

Next ==
  \/ \E t \in Transfers : SendMedia(t)
  \/ \E f \in wire : OnIncoming(f) \/ Lose(f)
  \/ \E t \in Transfers : \E k \in 0..TotalChunks(t) + 1 : Repeat(t, k)
  \/ ActivityGone \/ Tick

Spec == Init /\ [][Next]_vars
-----------------------------------------------------------------------------
(* Properties.                                                              *)

\* Every variable holds a value of its kind; a transfer has only chunks that
\* its INIT announced.
TypeOK ==
  /\ toSend \in [Transfers -> Nat] /\ \A t \in Transfers : toSend[t] <= TotalChunks(t) + 2
  /\ \A f \in wire : f.id \in Transfers /\ f \in FramesOf(f.id)
  /\ states \subseteq Transfers /\ ephKeys \subseteq Transfers /\ doneSeen \subseteq Transfers
  /\ createdAt \in [Transfers -> 0..Horizon]
  /\ DOMAIN chunks = Transfers /\ \A t \in Transfers : chunks[t] \subseteq Numbers(t)
  /\ DOMAIN heard = Transfers /\ \A t \in Transfers : heard[t] \subseteq FramesOf(t)
  /\ accepted \in [Transfers -> Nat] /\ completed \in [Transfers -> Nat]
  /\ clock \in 0..Horizon /\ faults \in 0..MaxFaults

\* No transfer waits that has got everything since its INIT was accepted, in
\* whatever order DONE, the chunks, repetitions and INITs of others came, and
\* whatever was swept in between.
NothingWaits == \A t \in states : heard[t] # FramesOf(t)

\* A file is given to the screen at most once per accepted INIT, also when
\* chunks or DONE come again, and its keys are there as long as it is active.
CompletedOnce ==
  /\ \A t \in Transfers :
       completed[t] + (IF t \in states THEN 1 ELSE 0) <= accepted[t]
  /\ states \cup doneSeen \subseteq ephKeys

\* The transfers of a receiver never reserve more memory than one file may
\* have, also while old ones are swept.
ReservedWithinLimit == Reserved(states) <= MAX_TRANSFER /\ Cardinality(states) <= MAX_ACTIVE
=============================================================================
