------------------------------ MODULE Delivery ------------------------------
(***************************************************************************)
(* The transport of LibCryptSafe: NetworkManager on every client (the      *)
(* unacked map, the seenQids set, the reconnecting web socket) and the     *)
(* relay (the queue table, recentCids, the set of connected clients).      *)
(*                                                                         *)
(* A message is an envelope handed to sendJson with type "msg"; it carries *)
(* one cid for its whole life, so the message itself stands for its cid.   *)
(* "Handed" means that onMessage has put the payload on the inbound lane.  *)
(*                                                                         *)
(* A socket is a pair <<client, generation>>: every connect() makes a new  *)
(* one.  The TCP connection may break at any moment; frames in flight are  *)
(* then readable until the reader notices, and later frames vanish although *)
(* send() returns true.  Both ends notice separately and at any later time.*)
(***************************************************************************)
EXTENDS Integers, Sequences, FiniteSets

CONSTANTS
  Clients,      \* stable IDs of the devices
  Msgs,         \* the envelopes that may be sent
  From, To,     \* sender and recipient of every envelope
  UnackedMax,   \* UNACKED_MAX of NetworkManager (500)
  SeenMax,      \* capacity of seenQids (5000)
  MaxGen,       \* bound: connect() calls of each client
  MaxFaults     \* bound: process kills, relay restarts and expiries together

ASSUME EndpointsAssumption ==
  From \in [Msgs -> Clients] /\ To \in [Msgs -> Clients]
ASSUME MsgsAssumption == IsFiniteSet(Msgs)
ASSUME LimitsAssumption ==
  /\ UnackedMax \in Nat \ {0} /\ SeenMax \in Nat \ {0}
  /\ MaxGen \in [Clients -> Nat] /\ MaxFaults \in Nat

VARIABLES
  \* ---- NetworkManager of every client (memory only) ----
  ws,           \* generation of webSocket, 0 before the first connect()
  isConnected,
  unacked,      \* msg frames not yet confirmed by relay_rcvd
  seenQids,     \* queue ids already handed, eldest first
  sending,      \* threads between the put into unacked and w.send in sendJson
  opening,      \* sockets whose onOpen has not yet reached resendUnacked
  signed,       \* sockets on which the auth answer has been sent
  \* ---- the sockets ----
  sock,         \* state of the client end
  wire,         \* TRUE while frames put on the socket reach the other end
  up, down,     \* frames in flight to the relay and to the client
  \* ---- the relay ----
  clients,      \* sockets in the set of connected clients
  authed,       \* those of them with a senderId
  rows,         \* rows ever inserted in queue; the position is the row id
  queue,        \* ids of the rows still stored
  recentCids,
  \* ---- what has happened, read by the properties only ----
  stamp,        \* order of the sendJson calls, 0 for an envelope not sent
  handed,       \* how often an envelope was put on the inbound lane
  abandoned,    \* left the sender's memory unconfirmed (eviction, kill)
  expired,      \* lost a row to the TTL
  amnesia,      \* envelopes one of whose duplicate filters was emptied
  faults

clientVars == <<ws, isConnected, unacked, seenQids, sending, opening, signed>>
socketVars == <<sock, wire, up, down>>
relayVars  == <<clients, authed, rows, queue, recentCids>>
ghostVars  == <<stamp, handed, abandoned, expired, amnesia, faults>>
vars == <<clientVars, socketVars, relayVars, ghostVars>>

-----------------------------------------------------------------------------
Sockets == UNION {{c} \X (1..MaxGen[c]) : c \in Clients}
Owner(s) == s[1]
Current(c) == <<c, ws[c]>>

AuthFrame   == [type |-> "auth"]
MsgFrame(m) == [type |-> "msg", msg |-> m]
AckFrame(q) == [type |-> "relay_ack", qid |-> q]
RowFrame(q) == [type |-> "msg", qid |-> q]
RcvdFrame(m) == [type |-> "relay_rcvd", msg |-> m]

UpFrames == [type : {"auth"}] \cup [type : {"msg"}, msg : Msgs]
                              \cup [type : {"relay_ack"}, qid : Nat]
DownFrames == [type : {"msg"}, qid : Nat] \cup [type : {"relay_rcvd"}, msg : Msgs]

Elems(seq) == {seq[i] : i \in DOMAIN seq}

\* The listing of a finite set in the increasing order of a rank function.
Listings(S, rank) ==
  {f \in [1..Cardinality(S) -> S] :
     /\ S \subseteq Elems(f)
     /\ \A i, j \in DOMAIN f : i < j => rank[f[i]] < rank[f[j]]}

Sent == {m \in Msgs : stamp[m] > 0}

\* Okio accepts a frame for a dead connection and loses it.
Put(chan, s, frames) == IF wire[s] THEN [chan EXCEPT ![s] = @ \o frames] ELSE chan

-----------------------------------------------------------------------------
Init ==
  /\ ws = [c \in Clients |-> 0]
  /\ isConnected = [c \in Clients |-> FALSE]
  /\ unacked = [c \in Clients |-> {}]
  /\ seenQids = [c \in Clients |-> <<>>]
  /\ sending = {} /\ opening = {} /\ signed = {}
  /\ sock = [s \in Sockets |-> "none"]
  /\ wire = [s \in Sockets |-> FALSE]
  /\ up = [s \in Sockets |-> <<>>] /\ down = [s \in Sockets |-> <<>>]
  /\ clients = {} /\ authed = {}
  /\ rows = <<>> /\ queue = {} /\ recentCids = {}
  /\ stamp = [m \in Msgs |-> 0] /\ handed = [m \in Msgs |-> 0]
  /\ abandoned = {} /\ expired = {} /\ amnesia = {}
  /\ faults = 0

-----------------------------------------------------------------------------
(* sendJson: the envelope enters unacked (evicting the oldest one when the *)
(* map is full), and in a second step the thread reads webSocket and       *)
(* isConnected and sends; a callback of OkHttp may run in between.         *)

Evicted(c) ==
  IF Cardinality(unacked[c]) >= UnackedMax
  THEN {m \in unacked[c] : \A n \in unacked[c] : stamp[m] <= stamp[n]}
  ELSE {}

SendJson(m) ==
  LET c == From[m] IN
  /\ stamp[m] = 0
  /\ stamp' = [stamp EXCEPT ![m] = Cardinality(Sent) + 1]
  /\ unacked' = [unacked EXCEPT ![c] = (@ \ Evicted(c)) \cup {m}]
  /\ sending' = sending \cup {m}
  /\ abandoned' = abandoned \cup Evicted(c)
  /\ UNCHANGED <<ws, isConnected, seenQids, opening, signed, socketVars,
                 relayVars, handed, expired, amnesia, faults>>

\* Mutant: a send that returned counts as delivered.
SendWireTrusting(m) ==
  LET c == From[m] IN
  /\ m \in sending
  /\ sending' = sending \ {m}
  /\ IF isConnected[c] /\ ws[c] > 0
     THEN /\ up' = Put(up, Current(c), <<MsgFrame(m)>>)
          /\ unacked' = [unacked EXCEPT ![c] = @ \ {m}]
     ELSE UNCHANGED <<up, unacked>>
  /\ UNCHANGED <<ws, isConnected, seenQids, opening, signed, sock,
                 wire, down, relayVars, ghostVars>>

SendWire(m) ==
  LET c == From[m] IN
  /\ m \in sending
  /\ sending' = sending \ {m}
  /\ up' = IF isConnected[c] /\ ws[c] > 0
           THEN Put(up, Current(c), <<MsgFrame(m)>>) ELSE up
  /\ UNCHANGED <<ws, isConnected, unacked, seenQids, opening, signed, sock,
                 wire, down, relayVars, ghostVars>>

-----------------------------------------------------------------------------
(* connect() and the callbacks of a socket.  All callers of connect()      *)
(* (the backoff timer, onAvailable, onResume) first test isConnected.      *)

Connect(c) ==
  LET old == Current(c)
      new == <<c, ws[c] + 1>> IN
  /\ ~isConnected[c]
  /\ ws[c] < MaxGen[c]
  /\ ws' = [ws EXCEPT ![c] = @ + 1]
  /\ sock' = [s \in Sockets |->
       IF s = new THEN "connecting"
       ELSE IF s = old /\ sock[s] \in {"connecting", "open"} THEN "cancelled"
       ELSE sock[s]]
  /\ wire' = [s \in Sockets |-> IF s = new THEN TRUE
                                ELSE IF s = old THEN FALSE ELSE wire[s]]
  /\ UNCHANGED <<isConnected, unacked, seenQids, sending, opening, signed,
                 up, down, relayVars, ghostVars>>

\* Mutant: onOpen without resendUnacked.
OnOpenForgetful(s) ==
  /\ sock[s] = "connecting" /\ wire[s]
  /\ sock' = [sock EXCEPT ![s] = "open"]
  /\ isConnected' = [isConnected EXCEPT ![Owner(s)] = TRUE]
  /\ clients' = clients \cup {s}
  /\ UNCHANGED <<ws, unacked, seenQids, sending, opening, signed, wire, up,
                 down, authed, rows, queue, recentCids, ghostVars>>

\* onOpen up to resendUnacked; the relay has the socket in clients by now.
OnOpen(s) ==
  /\ sock[s] = "connecting" /\ wire[s]
  /\ sock' = [sock EXCEPT ![s] = "open"]
  /\ isConnected' = [isConnected EXCEPT ![Owner(s)] = TRUE]
  /\ opening' = opening \cup {s}
  /\ clients' = clients \cup {s}
  /\ UNCHANGED <<ws, unacked, seenQids, sending, signed, wire, up, down,
                 authed, rows, queue, recentCids, ghostVars>>

\* Mutant: resending empties the map, as flushOutbox does with the outbox.
ResendClearing(s) ==
  /\ s \in opening
  /\ opening' = opening \ {s}
  /\ \E list \in Listings(unacked[Owner(s)], stamp) :
       up' = Put(up, s, [i \in DOMAIN list |-> MsgFrame(list[i])])
  /\ unacked' = [unacked EXCEPT ![Owner(s)] = {}]
  /\ UNCHANGED <<ws, isConnected, seenQids, sending, signed, sock,
                 wire, down, relayVars, ghostVars>>

ResendUnacked(s) ==
  /\ s \in opening
  /\ opening' = opening \ {s}
  /\ \E list \in Listings(unacked[Owner(s)], stamp) :
       up' = Put(up, s, [i \in DOMAIN list |-> MsgFrame(list[i])])
  /\ UNCHANGED <<ws, isConnected, unacked, seenQids, sending, signed, sock,
                 wire, down, relayVars, ghostVars>>

\* The coroutine that answers auth_challenge; the relay sends the challenge
\* first on every connection, and onMessage follows onOpen.
AnswerChallenge(s) ==
  /\ sock[s] = "open" /\ s \notin opening /\ s \notin signed
  /\ signed' = signed \cup {s}
  /\ up' = Put(up, s, <<AuthFrame>>)
  /\ UNCHANGED <<ws, isConnected, unacked, seenQids, sending, opening, sock,
                 wire, down, relayVars, ghostVars>>

\* onFailure / onClosed: the listener does not look at which socket failed,
\* so the callback of a cancelled socket also clears isConnected.
OnFailure(s) ==
  /\ s \notin opening
  /\ \/ sock[s] = "cancelled"
     \/ sock[s] \in {"connecting", "open"} /\ ~wire[s]
  /\ sock' = [sock EXCEPT ![s] = "closed"]
  /\ isConnected' = [isConnected EXCEPT ![Owner(s)] = FALSE]
  /\ down' = [down EXCEPT ![s] = <<>>]
  /\ UNCHANGED <<ws, unacked, seenQids, sending, opening, signed, wire, up,
                 relayVars, ghostVars>>

\* The reader thread delivers the next frame; it also drains what is already
\* buffered on a cancelled or broken socket.
Reads(s, type) ==
  /\ sock[s] \in {"open", "cancelled"} /\ s \notin opening
  /\ down[s] # <<>> /\ Head(down[s]).type = type
  /\ down' = [down EXCEPT ![s] = Tail(@)]

OnRelayRcvd(s) ==
  /\ Reads(s, "relay_rcvd")
  /\ unacked' = [unacked EXCEPT ![Owner(s)] = @ \ {Head(down[s]).msg}]
  /\ UNCHANGED <<ws, isConnected, seenQids, sending, opening, signed, sock,
                 wire, up, relayVars, ghostVars>>

\* Mutant: the bound is tested with >= .
AddSeenTight(seen, q) ==
  LET added == Append(seen, q) IN IF Len(added) >= SeenMax THEN Tail(added) ELSE added

\* seenQids.add with the eviction of the eldest entry.
AddSeen(seen, q) ==
  LET added == Append(seen, q) IN IF Len(added) > SeenMax THEN Tail(added) ELSE added

\* Mutant: a duplicate is dropped before it is acknowledged.
OnMsgAckFresh(s) ==
  LET c == Owner(s)
      q == Head(down[s]).qid
      fresh == q \notin Elems(seenQids[c]) IN
  /\ Reads(s, "msg")
  /\ up' = IF fresh THEN Put(up, s, <<AckFrame(q)>>) ELSE up
  /\ seenQids' = IF fresh THEN [seenQids EXCEPT ![c] = AddSeen(@, q)] ELSE seenQids
  /\ handed' = IF fresh THEN [handed EXCEPT ![rows[q]] = @ + 1] ELSE handed
  /\ amnesia' = amnesia
  /\ UNCHANGED <<ws, isConnected, unacked, sending, opening, signed, sock,
                 wire, relayVars, stamp, abandoned, expired, faults>>

OnMsg(s) ==
  LET c == Owner(s)
      q == Head(down[s]).qid
      fresh == q \notin Elems(seenQids[c]) IN
  /\ Reads(s, "msg")
  /\ up' = Put(up, s, <<AckFrame(q)>>)
  /\ seenQids' = IF fresh THEN [seenQids EXCEPT ![c] = AddSeen(@, q)] ELSE seenQids
  /\ handed' = IF fresh THEN [handed EXCEPT ![rows[q]] = @ + 1] ELSE handed
  /\ amnesia' = IF fresh /\ Len(seenQids[c]) >= SeenMax
                THEN amnesia \cup {rows[Head(seenQids[c])]} ELSE amnesia
  /\ UNCHANGED <<ws, isConnected, unacked, sending, opening, signed, sock,
                 wire, relayVars, stamp, abandoned, expired, faults>>

-----------------------------------------------------------------------------
(* The relay: one JavaScript thread, so a handler is one step.             *)

Receives(s, type) ==
  /\ s \in clients
  /\ up[s] # <<>> /\ Head(up[s]).type = type

Popped(s) == [up EXCEPT ![s] = Tail(@)]

\* qSelect: the stored rows of the socket's owner.
NothingSelected(s) == {}        \* mutant
Selected(s) == {q \in queue : To[rows[q]] = Owner(s)}

\* Mutant: flushQueue deletes what it has sent, as its older comment says.
RelayAuthDeleting(s) ==
  /\ Receives(s, "auth")
  /\ up' = Popped(s)
  /\ authed' = authed \cup {s}
  /\ \E list \in Listings(Selected(s), [q \in queue |-> q]) :
       down' = Put(down, s, [i \in DOMAIN list |-> RowFrame(list[i])])
  /\ queue' = queue \ Selected(s)
  /\ UNCHANGED <<clientVars, sock, wire, clients, rows, recentCids, ghostVars>>

\* auth: the socket gets its senderId and flushQueue sends every stored row
\* of that recipient, oldest first, without deleting any.
RelayAuth(s) ==
  /\ Receives(s, "auth")
  /\ up' = Popped(s)
  /\ authed' = authed \cup {s}
  /\ \E list \in Listings(Selected(s), [q \in queue |-> q]) :
       down' = Put(down, s, [i \in DOMAIN list |-> RowFrame(list[i])])
  /\ UNCHANGED <<clientVars, sock, wire, clients, rows, queue, recentCids,
                 ghostVars>>

\* AUTOINCREMENT: an id is never used again, whatever was deleted.
StaleRowId == Len(rows)         \* mutant: the id before the insertion
NextRowId == Len(rows) + 1

\* recentCids.set.
ForgottenCids(m) == recentCids  \* mutant: the cid is not noted
NotedCids(m) == recentCids \cup {m}

\* msg: a known cid is only confirmed; a new one is stored, sent to every
\* connected socket of the recipient, remembered and confirmed.
RelayMsg(s) ==
  LET m == Head(up[s]).msg
      q == NextRowId
      known == m \in recentCids
      live(r) == ~known /\ r \in authed /\ Owner(r) = To[m] /\ wire[r]
      out(r) == (IF live(r) THEN <<RowFrame(q)>> ELSE <<>>)
                \o (IF r = s /\ wire[r] THEN <<RcvdFrame(m)>> ELSE <<>>) IN
  /\ Receives(s, "msg")
  /\ up' = Popped(s)
  /\ rows' = IF known THEN rows ELSE Append(rows, m)
  /\ queue' = IF known THEN queue ELSE queue \cup {q}
  /\ recentCids' = NotedCids(m)
  /\ down' = [r \in Sockets |-> down[r] \o out(r)]
  /\ UNCHANGED <<clientVars, sock, wire, clients, authed, ghostVars>>

\* relay_ack: DELETE ... WHERE id = qid AND recipient = senderId.
RelayAck(s) ==
  LET q == Head(up[s]).qid IN
  /\ Receives(s, "relay_ack")
  /\ up' = Popped(s)
  /\ queue' = IF s \in authed
              THEN queue \ {r \in queue : r = q /\ To[rows[r]] = Owner(s)}
              ELSE queue
  /\ UNCHANGED <<clientVars, sock, wire, down, clients, authed, rows,
                 recentCids, ghostVars>>

\* 'close' / 'error' / the heartbeat's terminate on a dead connection.
RelayClose(s) ==
  /\ s \in clients /\ ~wire[s]
  /\ clients' = clients \ {s} /\ authed' = authed \ {s}
  /\ up' = [up EXCEPT ![s] = <<>>]
  /\ UNCHANGED <<clientVars, sock, wire, down, rows, queue, recentCids,
                 ghostVars>>

-----------------------------------------------------------------------------
(* The environment.                                                        *)

\* Half-open socket, network loss, terminate by heartbeat or auth timeout.
\* Bound: the last generation does not break.
LinkBreak(s) ==
  /\ wire[s] /\ s[2] < MaxGen[Owner(s)]
  /\ wire' = [wire EXCEPT ![s] = FALSE]
  /\ UNCHANGED <<clientVars, sock, up, down, relayVars, ghostVars>>

Fault == faults < MaxFaults /\ faults' = faults + 1

\* The Android process dies: everything NetworkManager holds is memory.
Kill(c) ==
  LET mine == {s \in Sockets : Owner(s) = c} IN
  /\ Fault /\ ws[c] < MaxGen[c]
  /\ isConnected' = [isConnected EXCEPT ![c] = FALSE]
  /\ unacked' = [unacked EXCEPT ![c] = {}]
  /\ seenQids' = [seenQids EXCEPT ![c] = <<>>]
  /\ sending' = {m \in sending : From[m] # c}
  /\ opening' = opening \ mine
  /\ sock' = [s \in Sockets |-> IF s \in mine /\ sock[s] # "none"
                                  THEN "closed" ELSE sock[s]]
  /\ wire' = [s \in Sockets |-> wire[s] /\ s \notin mine]
  /\ down' = [s \in Sockets |-> IF s \in mine THEN <<>> ELSE down[s]]
  /\ abandoned' = abandoned \cup unacked[c]
  /\ amnesia' = amnesia \cup {m \in Sent : To[m] = c}
  /\ UNCHANGED <<ws, signed, up, relayVars, stamp, handed, expired>>

\* systemd restarts the relay: the tables survive, the memory does not.
RelayRestart ==
  /\ Fault
  /\ \A c \in Clients : ws[c] < MaxGen[c]
  /\ clients' = {} /\ authed' = {} /\ recentCids' = {}
  /\ wire' = [s \in Sockets |-> wire[s] /\ s \notin clients]
  /\ up' = [s \in Sockets |-> IF s \in clients THEN <<>> ELSE up[s]]
  /\ amnesia' = amnesia \cup Sent
  /\ UNCHANGED <<clientVars, sock, down, rows, queue, stamp, handed,
                 abandoned, expired>>

\* The sweep of recentCids (10 minutes).
ForgetCid(m) ==
  /\ Fault
  /\ m \in recentCids
  /\ recentCids' = recentCids \ {m}
  /\ amnesia' = amnesia \cup {m}
  /\ UNCHANGED <<clientVars, socketVars, clients, authed, rows, queue, stamp,
                 handed, abandoned, expired>>

\* cleanupTTL (7 days).
ExpireRow(q) ==
  /\ Fault
  /\ q \in queue
  /\ queue' = queue \ {q}
  /\ expired' = expired \cup {rows[q]}
  /\ UNCHANGED <<clientVars, socketVars, clients, authed, rows, recentCids,
                 stamp, handed, abandoned, amnesia>>

-----------------------------------------------------------------------------
ClientStep(s) == \/ OnOpen(s) \/ ResendUnacked(s) \/ AnswerChallenge(s)
                 \/ OnFailure(s) \/ OnRelayRcvd(s) \/ OnMsg(s)
RelayStep(s) == RelayAuth(s) \/ RelayMsg(s) \/ RelayAck(s) \/ RelayClose(s)

Next ==
  \/ \E m \in Msgs : SendJson(m) \/ SendWire(m) \/ ForgetCid(m)
  \/ \E c \in Clients : Connect(c) \/ Kill(c)
  \/ \E s \in Sockets : ClientStep(s) \/ RelayStep(s) \/ LinkBreak(s)
  \/ \E q \in queue : ExpireRow(q)
  \/ RelayRestart

Spec == Init /\ [][Next]_vars

\* The callbacks and threads of a live process and the relay's event loop
\* run; nothing obliges a user to send, a link to break or a timer to expire.
Fairness ==
  /\ \A m \in Msgs : WF_vars(SendWire(m))
  /\ \A s \in Sockets : WF_vars(ClientStep(s)) /\ WF_vars(RelayStep(s))

FairSpec == Spec /\ Fairness
-----------------------------------------------------------------------------
(* Properties.                                                             *)

\* Every variable holds a value of its kind; queue ids never exceed the log.
TypeOK ==
  /\ ws \in [Clients -> Nat] /\ \A c \in Clients : ws[c] <= MaxGen[c]
  /\ isConnected \in [Clients -> BOOLEAN]
  /\ unacked \in [Clients -> SUBSET Msgs] /\ seenQids \in [Clients -> Seq(Nat)]
  /\ sending \subseteq Msgs /\ opening \subseteq Sockets /\ signed \subseteq Sockets
  /\ sock \in [Sockets -> {"none", "connecting", "open", "cancelled", "closed"}]
  /\ wire \in [Sockets -> BOOLEAN]
  /\ up \in [Sockets -> Seq(UpFrames)] /\ down \in [Sockets -> Seq(DownFrames)]
  /\ clients \subseteq Sockets /\ authed \subseteq clients
  /\ rows \in Seq(Msgs) /\ queue \subseteq 1..Len(rows) /\ recentCids \subseteq Msgs
  /\ stamp \in [Msgs -> Nat] /\ handed \in [Msgs -> Nat]
  /\ abandoned \subseteq Msgs /\ expired \subseteq Msgs /\ amnesia \subseteq Msgs
  /\ faults \in 0..MaxFaults

\* "relay-ack/uplink-ack do not let messages be lost": from sendJson on, an
\* envelope is in the sender's unacked map or the relay has inserted it,
\* unless the map overflowed or the sender's process died.
SenderKeepsUntilStored ==
  \A m \in Sent : \/ m \in unacked[From[m]]
                  \/ m \in Elems(rows)
                  \/ m \in abandoned

\* Once inserted, an envelope is in the queue table until its recipient has
\* had it on the inbound lane, whatever happens to sockets and processes;
\* only the TTL ends this earlier.
RelayKeepsUntilHanded ==
  \A m \in Elems(rows) : \/ \E q \in queue : rows[q] = m
                         \/ handed[m] > 0
                         \/ m \in expired

\* The two duplicate filters together: while neither recentCids nor seenQids
\* has forgotten an envelope, resends over any number of reconnections put it
\* on the recipient's lane at most once.
HandedAtMostOnce ==
  \A m \in Msgs : m \notin amnesia => handed[m] <= 1

\* The send of sendJson and the snapshot of resendUnacked leave no gap: on a
\* working, opened connection each unconfirmed envelope is about to be sent,
\* on its way to the relay, or its confirmation is on its way back.
NoStrandedUplink ==
  \A c \in Clients :
    LET s == Current(c) IN
    isConnected[c] /\ s \notin opening /\ wire[s] =>
      \A m \in unacked[c] : \/ m \in sending
                            \/ MsgFrame(m) \in Elems(up[s])
                            \/ RcvdFrame(m) \in Elems(down[s])

\* flushQueue and the live forwarding of msg leave no gap: on a working
\* authenticated socket every stored row of its owner is on its way down, or
\* its relay_ack is on its way up.
NoStrandedDownlink ==
  \A s \in authed : wire[s] =>
    \A q \in queue : To[rows[q]] = Owner(s) =>
      RowFrame(q) \in Elems(down[s]) \/ AckFrame(q) \in Elems(up[s])

\* The custody protocol that the two acknowledgements implement.
C == INSTANCE Custody WITH
       atSender <- {m \in Msgs : m \in unacked[From[m]]},
       stored <- Elems(rows),
       atRelay <- {rows[q] : q \in queue},
       atRecipient <- {m \in Msgs : handed[m] > 0},
       forfeited <- abandoned \cup expired
CustodySpec == C!Spec

\* Every client holds a working, opened connection.
Stable ==
  \A c \in Clients : isConnected[c] /\ wire[Current(c)]

\* Once the connections stay up, each envelope sent reaches its recipient's
\* lane, unless its sender or the relay had to give it up.
EventuallyHanded ==
  <>[]Stable => \A m \in Msgs :
     m \in Sent ~> (handed[m] > 0 \/ m \in abandoned \cup expired)

\* Once the connections stay up, nothing stays unconfirmed on either hop.
EventuallyDrained ==
  <>[]Stable => <>[](queue = {} /\ \A c \in Clients : unacked[c] = {})
=============================================================================
