----------------------------- MODULE Handshake ------------------------------
(***************************************************************************)
(* X3DH sessions of LibCryptSafe: the one-time prekeys (OPK) a device makes *)
(* and publishes, the relay that gives them out, the initiator that builds *)
(* a session and an INITIAL_HANDSHAKE, and the responder's coroutines.     *)
(*                                                                         *)
(* The n-th INITIAL_HANDSHAKE ever built stands for its ephemeral key, its *)
(* auth_sig and the session key derived from it.  The responder derives    *)
(* the same key iff it still has the very OPK that the initiator used.     *)
(* The transport is that of module Delivery: frames reach the socket of    *)
(* their recipient in one order, once, unless a filter forgot (Redeliver). *)
(*                                                                         *)
(* A coroutine on the inbound lane gives the lane up at each database      *)
(* access (suspending DAO), so every access is a step of its own.          *)
(***************************************************************************)
EXTENDS Integers, Sequences, FiniteSets

CONSTANTS
  Devices, Texts, From, To,
  Ready,        \* devices whose app was started before
  Batch,        \* OPK_BATCH of PrekeyManager (50)
  MaxPublish,   \* bound: connections of a device that publish its keys
  MaxVersion,   \* bound: versions of an OPK under one key id
  MaxFaults     \* bound: kills, /reset commands and repeated deliveries

ASSUME TextsAssumption ==
  /\ Ready \subseteq Devices
  /\ From \in [Texts -> Devices] /\ To \in [Texts -> Devices]
  /\ \A t \in Texts : From[t] # To[t]
ASSUME BoundsAssumption ==
  /\ Batch \in Nat \ {0} /\ MaxVersion \in Nat \ {0}
  /\ MaxPublish \in Nat /\ MaxFaults \in Nat

VARIABLES
  \* ---- database of every device ----
  identity,     \* devices that have made IK_DH and SPK
  opks,         \* private one-time keys, as <<key id, version>>
  version,      \* versions generated so far
  session,      \* session[d][p]: handshake whose key d uses with p, 0 if none
  seen,         \* handshakes in seen_nonces
  \* ---- memory of every device ----
  pending,      \* pendingMessages: at most one text per peer
  stage,        \* where the sending coroutine of a text is
  with,         \* the handshake or bundle that coroutine works with
  jobs,         \* coroutines on the inbound lane
  \* ---- on the way ----
  upload,       \* prekeys_upload not yet at the relay
  requests,     \* prekeys_request of d for p, how many
  responses,    \* prekeys_response frames to d
  wire,         \* envelopes to d, in the order of its socket
  \* ---- relay ----
  pool,         \* published OPKs of d
  listed,       \* devices whose IK and SPK are published
  \* ---- what has happened ----
  made,         \* the handshakes built
  issued, reissued,  \* OPKs given out, given out more than once
  stored,       \* handshakes whose responder stored the session
  failed,       \* handshakes that reached their responder and did not decrypt
  overlapped,   \* pairs with two handshakes under way at once, or a late one
  arrived,      \* frames read from the socket of d
  shown,        \* arrival numbers in the order of the handler's calls
  published, faults

database == <<identity, opks, version, session, seen>>
memory   == <<pending, stage, with, jobs>>
network  == <<upload, requests, responses, wire>>
relay    == <<pool, listed>>
ghosts   == <<made, issued, reissued, stored, failed, overlapped, arrived,
              shown, published, faults>>
vars == <<database, memory, network, relay, ghosts>>

-----------------------------------------------------------------------------
None == "none"
NoOpk == <<0, 0>>
Opks == (1..Batch) \X (1..MaxVersion)
\* Mutant: ids counted from 0.
FreeIdsFromZero(keys) == (0..Batch-1) \ {k[1] : k \in keys}

\* Key ids for which the database has no OPK.
FreeIds(keys) == (1..Batch) \ {k[1] : k \in keys}

Sender(n) == made[n].from
Responder(n) == made[n].to
Pair(n) == {Sender(n), Responder(n)}

\* A handshake is under way until its responder is done with it.
UnderWay(n) ==
  \/ \E t \in Texts : stage[t] = "built" /\ with[t][1] = n
  \/ \E i \in DOMAIN wire[Responder(n)] :
       LET f == wire[Responder(n)][i] IN f.kind = "init" /\ f.hs = n
  \/ \E j \in jobs[Responder(n)] : j.kind = "init" /\ j.hs = n /\ j.pc # "show"

Frame(kind, n, t) == [kind |-> kind, hs |-> n, text |-> t]
Job(no, f, pc) == [no |-> no, kind |-> f.kind, hs |-> f.hs, text |-> f.text, pc |-> pc]
Moved(d, j, pc) == [jobs EXCEPT ![d] = (@ \ {j}) \cup {[j EXCEPT !.pc = pc]}]
Ended(d, j) == [jobs EXCEPT ![d] = @ \ {j}]

Init ==
  /\ identity = Ready
  /\ opks = [d \in Devices |-> IF d \in Ready THEN (1..Batch) \X {1} ELSE {}]
  /\ version = [d \in Devices |-> IF d \in Ready THEN 1 ELSE 0]
  /\ session = [d \in Devices |-> [p \in Devices |-> 0]]
  /\ seen = [d \in Devices |-> {}]
  /\ pending = [d \in Devices |-> [p \in Devices |-> None]]
  /\ stage = [t \in Texts |-> "new"]
  /\ with = [t \in Texts |-> NoOpk]
  /\ jobs = [d \in Devices |-> {}]
  /\ upload = [d \in Devices |-> {}]
  /\ requests = [d \in Devices |-> [p \in Devices |-> 0]]
  /\ responses = [d \in Devices |-> <<>>]
  /\ wire = [d \in Devices |-> <<>>]
  /\ pool = [d \in Devices |-> {}] /\ listed = {}
  /\ made = <<>> /\ issued = {} /\ reissued = {}
  /\ stored = {} /\ failed = {} /\ overlapped = {}
  /\ arrived = [d \in Devices |-> 0] /\ shown = [d \in Devices |-> <<>>]
  /\ published = [d \in Devices |-> 0] /\ faults = 0

-----------------------------------------------------------------------------
(* One-time keys: made by bootstrap, published as a snapshot of the         *)
(* database on every connection, given out by the relay.                    *)

\* bootstrap at the start of the app, first IK_DH and SPK ...
Identify(d) ==
  /\ d \notin identity
  /\ identity' = identity \cup {d}
  /\ UNCHANGED <<opks, version, session, seen, memory, network, relay, ghosts>>

\* ... then the missing OPKs in one insertAll: the lowest free key ids are used again.
Bootstrap(d) ==
  LET free == FreeIds(opks[d]) IN
  /\ d \in identity /\ free # {} /\ version[d] < MaxVersion
  /\ version' = [version EXCEPT ![d] = @ + 1]
  /\ opks' = [opks EXCEPT ![d] = @ \cup (free \X {version[d] + 1})]
  /\ UNCHANGED <<identity, session, seen, memory, network, relay, ghosts>>

\* buildUploadJson after onOpen, whatever bootstrap has made by then.
Publish(d) ==
  /\ published[d] < MaxPublish /\ upload[d] = {}
  /\ published' = [published EXCEPT ![d] = @ + 1]
  /\ upload' = [upload EXCEPT ![d] = {[opks |-> opks[d], full |-> d \in identity]}]
  /\ UNCHANGED <<database, memory, requests, responses, wire, relay, made,
                 issued, reissued, stored, failed, overlapped, arrived, shown, faults>>

\* prekeys_upload: the snapshot replaces the keys of the types it holds.
RelayUpload(d) ==
  \E u \in upload[d] :
    /\ upload' = [upload EXCEPT ![d] = {}]
    /\ pool' = [pool EXCEPT ![d] = IF u.opks = {} THEN @ ELSE u.opks]
    /\ listed' = listed \cup (IF u.full THEN {d} ELSE {})
    /\ UNCHANGED <<database, memory, requests, responses, wire, ghosts>>

\* prekeys_request: one OPK is taken and deleted, none if the pool is empty.
RelayRequest(d, p) ==
  /\ requests[d][p] > 0
  /\ requests' = [requests EXCEPT ![d][p] = @ - 1]
  /\ \E k \in IF pool[p] = {} THEN {NoOpk} ELSE pool[p] :
       /\ pool' = [pool EXCEPT ![p] = @ \ {k}]
       /\ responses' = [responses EXCEPT ![d] =
            Append(@, [of |-> p, opk |-> k, keys |-> p \in listed])]
       /\ issued' = issued \cup ({<<p, k>>} \ {<<p, NoOpk>>})
       /\ reissued' = reissued \cup ({<<p, k>>} \cap issued)
  /\ UNCHANGED <<database, memory, upload, wire, listed, made, stored, failed,
                 overlapped, arrived, shown, published, faults>>

-----------------------------------------------------------------------------
(* The initiator.                                                           *)

\* sendToPeer looks for a session ...
Look(t) ==
  /\ stage[t] = "new"
  /\ stage' = [stage EXCEPT ![t] = IF session[From[t]][To[t]] # 0 THEN "chat" ELSE "ask"]
  /\ UNCHANGED <<database, pending, with, jobs, network, relay, ghosts>>

\* ... encryptMessage reads it again: /reset may have come in between ...
Compose(t) ==
  LET key == session[From[t]][To[t]] IN
  /\ stage[t] = "chat"
  /\ stage' = [stage EXCEPT ![t] = IF key = 0 THEN "refused" ELSE "composed"]
  /\ with' = [with EXCEPT ![t] = <<key, 0>>]
  /\ UNCHANGED <<database, pending, jobs, network, relay, ghosts>>

\* ... and handed to sendJson.
EmitChat(t) ==
  /\ stage[t] = "composed"
  /\ stage' = [stage EXCEPT ![t] = "out"]
  /\ wire' = [wire EXCEPT ![To[t]] = Append(@, Frame("chat", with[t][1], t))]
  /\ UNCHANGED <<database, pending, with, jobs, upload, requests, responses,
                 relay, ghosts>>

\* Without a session: stashPending and prekeys_request.
Ask(t) ==
  /\ stage[t] = "ask"
  /\ stage' = [stage EXCEPT ![t] = "asked"]
  /\ pending' = [pending EXCEPT ![From[t]][To[t]] = t]
  /\ requests' = [requests EXCEPT ![From[t]][To[t]] = @ + 1]
  /\ UNCHANGED <<database, with, jobs, upload, responses, wire, relay, ghosts>>

\* prekeys_response: the stashed text, if any, gets a coroutine of its own.
OnResponse(d) ==
  LET r == Head(responses[d])
      t == pending[d][r.of] IN
  /\ responses[d] # <<>>
  /\ responses' = [responses EXCEPT ![d] = Tail(@)]
  /\ pending' = [pending EXCEPT ![d][r.of] = None]
  /\ IF t = None THEN UNCHANGED <<stage, with>>
     ELSE /\ stage' = [stage EXCEPT ![t] = IF r.keys THEN "building" ELSE "refused"]
          /\ with' = [with EXCEPT ![t] = r.opk]
  /\ UNCHANGED <<database, jobs, upload, requests, wire, relay, ghosts>>

\* buildInitialMessage: the session is saved before anything is sent.
Build(t) ==
  LET d == From[t]
      p == To[t]
      n == Len(made) + 1 IN
  /\ stage[t] = "building" /\ d \in identity
  /\ made' = Append(made, [from |-> d, to |-> p, opk |-> with[t], text |-> t])
  /\ session' = [session EXCEPT ![d][p] = n]
  /\ stage' = [stage EXCEPT ![t] = "built"]
  /\ with' = [with EXCEPT ![t] = <<n, 0>>]
  /\ overlapped' = IF \E m \in DOMAIN made : Pair(m) = {d, p} /\ UnderWay(m)
                   THEN overlapped \cup {{d, p}} ELSE overlapped
  /\ UNCHANGED <<identity, opks, version, seen, pending, jobs, network, relay, issued,
                 reissued, stored, failed, arrived, shown, published, faults>>

\* Without an IK_DH of its own it gives up.
BuildFails(t) ==
  /\ stage[t] = "building" /\ From[t] \notin identity
  /\ stage' = [stage EXCEPT ![t] = "refused"]
  /\ UNCHANGED <<database, pending, with, jobs, network, relay, ghosts>>

EmitInitial(t) ==
  /\ stage[t] = "built"
  /\ stage' = [stage EXCEPT ![t] = "out"]
  /\ wire' = [wire EXCEPT ![To[t]] = Append(@, Frame("init", with[t][1], t))]
  /\ UNCHANGED <<database, pending, with, jobs, upload, requests, responses,
                 relay, ghosts>>

-----------------------------------------------------------------------------
(* The recipient: every envelope starts a coroutine on the inbound lane.    *)

OnFrame(d) ==
  LET f == Head(wire[d]) IN
  /\ wire[d] # <<>>
  /\ wire' = [wire EXCEPT ![d] = Tail(@)]
  /\ arrived' = [arrived EXCEPT ![d] = @ + 1]
  /\ jobs' = [jobs EXCEPT ![d] = @ \cup {Job(arrived[d] + 1, f, "start")}]
  /\ UNCHANGED <<database, pending, stage, with, upload, requests, responses,
                 relay, made, issued, reissued, stored, failed, overlapped,
                 shown, published, faults>>

\* Mutant: the OPK is deleted before the decryption.
CheckSeenBurning(d, j) ==
  /\ j.kind = "init" /\ j.pc = "start"
  /\ jobs' = IF j.hs \in seen[d] THEN Ended(d, j) ELSE Moved(d, j, "keys")
  /\ opks' = IF j.hs \in seen[d] THEN opks
             ELSE [opks EXCEPT ![d] = {k \in @ : k[1] # made[j.hs].opk[1]}]
  /\ UNCHANGED <<identity, version, session, seen, pending, stage, with, network, relay, ghosts>>

\* isSeen: an exact repetition is dropped before any work.
CheckSeen(d, j) ==
  /\ j.kind = "init" /\ j.pc = "start"
  /\ jobs' = IF j.hs \in seen[d] THEN Ended(d, j) ELSE Moved(d, j, "keys")
  /\ UNCHANGED <<database, pending, stage, with, network, relay, ghosts>>

\* getOpkById, x3dhResponder and the decryption: a wrong key fails the tag.
Derive(d, j) ==
  LET mine == {k \in opks[d] : k[1] = made[j.hs].opk[1]}
      same == mine = {made[j.hs].opk} \ {NoOpk} IN
  /\ j.kind = "init" /\ j.pc = "keys"
  /\ jobs' = IF same THEN Moved(d, j, "mark") ELSE Ended(d, j)
  /\ failed' = IF same \/ j.hs \in seen[d] THEN failed ELSE failed \cup {j.hs}
  /\ UNCHANGED <<database, pending, stage, with, network, relay, made, issued,
                 reissued, stored, overlapped, arrived, shown, published, faults>>

\* Mutant: the result of INSERT OR IGNORE is not looked at.
MarkSeenIgnoring(d, j) ==
  /\ j.kind = "init" /\ j.pc = "mark"
  /\ seen' = [seen EXCEPT ![d] = @ \cup {j.hs}]
  /\ jobs' = Moved(d, j, "burn")
  /\ UNCHANGED <<identity, opks, version, session, pending, stage, with, network, relay, ghosts>>

\* markSeen: INSERT OR IGNORE tells the first of two equal handshakes.
MarkSeen(d, j) ==
  /\ j.kind = "init" /\ j.pc = "mark"
  /\ seen' = [seen EXCEPT ![d] = @ \cup {j.hs}]
  /\ jobs' = IF j.hs \in seen[d] THEN Ended(d, j) ELSE Moved(d, j, "burn")
  /\ UNCHANGED <<identity, opks, version, session, pending, stage, with, network, relay, ghosts>>

\* deleteOpkById deletes by key id.
BurnOpk(d, j) ==
  /\ j.kind = "init" /\ j.pc = "burn"
  /\ opks' = [opks EXCEPT ![d] = {k \in @ : k[1] # made[j.hs].opk[1]}]
  /\ jobs' = Moved(d, j, "store")
  /\ UNCHANGED <<identity, version, session, seen, pending, stage, with, network, relay, ghosts>>

\* Mutant: an existing session is kept.
StoreSessionKeeping(d, j) ==
  /\ j.kind = "init" /\ j.pc = "store"
  /\ session' = [session EXCEPT ![d][Sender(j.hs)] = IF @ = 0 THEN j.hs ELSE @]
  /\ stored' = stored \cup {j.hs}
  /\ jobs' = Moved(d, j, "show")
  /\ UNCHANGED <<identity, opks, version, seen, pending, stage, with, network, relay, made,
                 issued, reissued, failed, overlapped, arrived, shown, published, faults>>

\* sessionDao.upsert: the newest accepted handshake is the session.
StoreSession(d, j) ==
  /\ j.kind = "init" /\ j.pc = "store"
  /\ session' = [session EXCEPT ![d][Sender(j.hs)] = j.hs]
  /\ stored' = stored \cup {j.hs}
  /\ jobs' = Moved(d, j, "show")
  /\ UNCHANGED <<identity, opks, version, seen, pending, stage, with, network, relay, made,
                 issued, reissued, failed, overlapped, arrived, shown, published, faults>>

\* decryptAnySession: all sessions are read, the key that fits is found.
ReadSessions(d, j) ==
  /\ j.kind = "chat" /\ j.pc = "start"
  /\ jobs' = IF \E p \in Devices : session[d][p] = j.hs
             THEN Moved(d, j, "show") ELSE Ended(d, j)
  /\ UNCHANGED <<database, pending, stage, with, network, relay, ghosts>>

\* onInitialHandshakeReceived / onChatReceived.
Show(d, j) ==
  /\ j.pc = "show"
  /\ shown' = [shown EXCEPT ![d] = Append(@, j.no)]
  /\ jobs' = Ended(d, j)
  /\ UNCHANGED <<database, pending, stage, with, network, relay, made, issued,
                 reissued, stored, failed, overlapped, arrived, published, faults>>

JobStep(d, j) == \/ CheckSeen(d, j) \/ Derive(d, j) \/ MarkSeen(d, j)
                 \/ BurnOpk(d, j) \/ StoreSession(d, j) \/ ReadSessions(d, j)
                 \/ Show(d, j)

-----------------------------------------------------------------------------
Fault == faults < MaxFaults /\ faults' = faults + 1

\* The process dies: coroutines and pendingMessages are gone, the database
\* stays.  Envelopes already read from the socket will not come again.
Kill(d) ==
  LET cut == {t \in Texts : From[t] = d /\ stage[t] \notin {"new", "out", "refused"}} IN
  /\ Fault
  /\ stage' = [t \in Texts |-> IF t \in cut THEN "lost" ELSE stage[t]]
  /\ pending' = [pending EXCEPT ![d] = [p \in Devices |-> None]]
  /\ jobs' = [jobs EXCEPT ![d] = {}]
  /\ upload' = [upload EXCEPT ![d] = {}]
  /\ requests' = [requests EXCEPT ![d] = [p \in Devices |-> 0]]
  /\ responses' = [responses EXCEPT ![d] = <<>>]
  /\ UNCHANGED <<database, with, wire, relay, made, issued, reissued, stored,
                 failed, overlapped, arrived, shown, published>>

\* The link breaks: what is not an envelope is lost with the socket.
Disconnect(d) ==
  /\ Fault
  /\ upload' = [upload EXCEPT ![d] = {}]
  /\ requests' = [requests EXCEPT ![d] = [p \in Devices |-> 0]]
  /\ responses' = [responses EXCEPT ![d] = <<>>]
  /\ UNCHANGED <<database, memory, wire, relay, made, issued, reissued, stored,
                 failed, overlapped, arrived, shown, published>>

\* The /reset command.
Reset(d) ==
  /\ Fault
  /\ session' = [session EXCEPT ![d] = [p \in Devices |-> 0]]
  /\ UNCHANGED <<identity, opks, version, seen, memory, network, relay, made, issued,
                 reissued, stored, failed, overlapped, arrived, shown, published>>

\* An envelope comes a second time: recentCids or seenQids had forgotten it.
Redeliver(t) ==
  /\ Fault
  /\ stage[t] = "out"
  /\ \E kind \in {"init", "chat"} :
       /\ kind = "init" <=> \E n \in DOMAIN made : made[n].text = t
       /\ wire' = [wire EXCEPT ![To[t]] = Append(@, Frame(kind, with[t][1], t))]
  /\ overlapped' = IF \E n, m \in DOMAIN made : made[n].text = t /\ n \notin stored
                                               /\ m > n /\ Pair(m) = Pair(n)
                   THEN overlapped \cup {{From[t], To[t]}} ELSE overlapped
  /\ UNCHANGED <<database, memory, upload, requests, responses, relay, made,
                 issued, reissued, stored, failed, arrived, shown, published>>

-----------------------------------------------------------------------------
Next ==
  \/ \E d \in Devices : \/ Identify(d) \/ Bootstrap(d)
                        \/ Publish(d) \/ RelayUpload(d)
                        \/ OnResponse(d) \/ OnFrame(d) \/ Kill(d)
                        \/ Disconnect(d) \/ Reset(d)
                        \/ \E p \in Devices : RelayRequest(d, p)
                        \/ \E j \in jobs[d] : JobStep(d, j)
  \/ \E t \in Texts : \/ Look(t) \/ Compose(t) \/ EmitChat(t) \/ Ask(t)
                      \/ Build(t) \/ BuildFails(t) \/ EmitInitial(t) \/ Redeliver(t)

Spec == Init /\ [][Next]_vars
-----------------------------------------------------------------------------
(* Properties.                                                             *)

Stages == {"new", "chat", "ask", "composed", "asked", "building", "built", "out", "refused", "lost"}
JobSet == [no : Nat, kind : {"init", "chat"}, hs : DOMAIN made, text : Texts,
           pc : {"start", "keys", "mark", "burn", "store", "show"}]

\* Every variable holds a value of its kind; sessions and coroutines refer to
\* handshakes that were built.
TypeOK ==
  /\ opks \in [Devices -> SUBSET Opks] /\ version \in [Devices -> 0..MaxVersion]
  /\ identity \subseteq Devices
  /\ session \in [Devices -> [Devices -> 0..Len(made)]]
  /\ seen \in [Devices -> SUBSET DOMAIN made]
  /\ pending \in [Devices -> [Devices -> Texts \cup {None}]]
  /\ stage \in [Texts -> Stages]
  /\ \A d \in Devices : \A j \in jobs[d] : j \in JobSet
  /\ pool \in [Devices -> SUBSET Opks] /\ listed \subseteq Devices
  /\ stored \cup failed \subseteq DOMAIN made

Accepting(j) == j.kind = "init" /\ j.pc \in {"burn", "store"}

\* Two coroutines may work on the same handshake, delivered twice, at once
\* and a process may die between any two of their steps: at most one of them
\* gets past markSeen, and none once the session was stored.
AcceptedOnce ==
  \A d \in Devices : \A i, j \in jobs[d] :
    Accepting(i) /\ Accepting(j) /\ i.hs = j.hs => i = j /\ i.hs \notin stored

\* "a replay does not roll the session back": a responder never returns to a
\* handshake it has stored before, whatever arrives again in whatever order.
NoRollback ==
  [][\A d, p \in Devices :
       session'[d][p] \notin {0, session[d][p]} => session'[d][p] \notin stored]_vars

\* A handshake that reaches its responder decrypts there, after any kill and
\* redelivery, unless the relay had given a key of that id to two initiators:
\* private keys are burnt only after a decryption was recorded, and a key id
\* used again never meets a handshake made for its former key.  (Two that did
\* get one key burn its id twice, and the second time it may be a new key.)
OneTimeKeysSuffice ==
  \A n \in failed :
    \E k \in Opks : k[1] = made[n].opk[1] /\ <<Responder(n), k>> \in reissued

\* The two sessions of a pair of devices hold the same key once the responders
\* of both handshakes stored them, unless the pair built two handshakes at once,
\* or a lost one came late after its successor.
SessionsAgree ==
  \A a, b \in Devices :
    LET x == session[a][b]
        y == session[b][a] IN
    x # 0 /\ y # 0 /\ {x, y} \subseteq stored /\ {a, b} \notin overlapped => x = y

-----------------------------------------------------------------------------
(* What the repository says of itself and the code does not keep.           *)

\* "the relay deletes the OPK it gave out (not to give it twice)".
OpkIssuedOnce == reissued = {}

\* "one lane, FIFO: the order of the peer's frames is the order in the socket".
ShownInSocketOrder ==
  \A d \in Devices : \A i, j \in DOMAIN shown[d] : i < j => shown[d][i] < shown[d][j]
=============================================================================
