--------------------------- MODULE DeliveryProofs ---------------------------
(***************************************************************************)
(* Proofs about Delivery for every set of clients and envelopes and every  *)
(* value of the limits.                                                    *)
(***************************************************************************)
EXTENDS Delivery, FiniteSetTheorems, TLAPS

\* Elements of the sequences that the actions build.
LEMMA ElemsConcat ==
  ASSUME NEW S, NEW s \in Seq(S), NEW t \in Seq(S)
  PROVE  /\ s \o t \in Seq(S)
         /\ Elems(s \o t) = Elems(s) \cup Elems(t)
<1>1. s \o t \in Seq(S) /\ Len(s \o t) = Len(s) + Len(t)
  OBVIOUS
<1>2. ASSUME NEW e \in Elems(s \o t) PROVE e \in Elems(s) \cup Elems(t)
  BY <1>1 DEF Elems
<1>3. ASSUME NEW i \in DOMAIN s PROVE s[i] \in Elems(s \o t)
  <2>1. i \in DOMAIN (s \o t) /\ (s \o t)[i] = s[i]
    BY <1>1
  <2> QED BY <2>1 DEF Elems
<1>4. ASSUME NEW i \in DOMAIN t PROVE t[i] \in Elems(s \o t)
  <2>1. Len(s) + i \in DOMAIN (s \o t) /\ (s \o t)[Len(s) + i] = t[i]
    BY <1>1
  <2> QED BY <2>1 DEF Elems
<1> QED BY <1>1, <1>2, <1>3, <1>4 DEF Elems

LEMMA ElemsAppend ==
  ASSUME NEW S, NEW s \in Seq(S), NEW e \in S
  PROVE  /\ Append(s, e) \in Seq(S)
         /\ Elems(Append(s, e)) = Elems(s) \cup {e}
<1>1. Len(Append(s, e)) = Len(s) + 1 /\ Append(s, e)[Len(s) + 1] = e
  OBVIOUS
<1>2. \A i \in DOMAIN s : i \in DOMAIN Append(s, e) /\ Append(s, e)[i] = s[i]
  OBVIOUS
<1>3. \A i \in DOMAIN Append(s, e) : i \in DOMAIN s \/ i = Len(s) + 1
  BY <1>1
<1> QED BY <1>1, <1>2, <1>3 DEF Elems

LEMMA ElemsTail ==
  ASSUME NEW S, NEW s \in Seq(S), s # <<>>
  PROVE  /\ Tail(s) \in Seq(S)
         /\ Head(s) \in S /\ Head(s) \in Elems(s)
         /\ Elems(Tail(s)) \subseteq Elems(s)
         /\ Elems(s) = {Head(s)} \cup Elems(Tail(s))
<1>1. Len(s) \in Nat \ {0} /\ Len(Tail(s)) = Len(s) - 1
  OBVIOUS
<1>2. Head(s) = s[1] /\ \A i \in DOMAIN Tail(s) : i + 1 \in DOMAIN s /\ Tail(s)[i] = s[i + 1]
  BY <1>1
<1>3. \A i \in DOMAIN s : i = 1 \/ (i - 1 \in DOMAIN Tail(s) /\ Tail(s)[i - 1] = s[i])
  BY <1>1, <1>2
<1>4. Tail(s) \in Seq(S) /\ Head(s) \in S
  BY <1>1
<1>5. Head(s) \in Elems(s)
  BY <1>1, <1>2 DEF Elems
<1>6. Elems(Tail(s)) \subseteq Elems(s)
  BY <1>2 DEF Elems
<1>7. Elems(s) \subseteq {Head(s)} \cup Elems(Tail(s))
  <2>1. SUFFICES ASSUME NEW e \in Elems(s), e # Head(s) PROVE e \in Elems(Tail(s))
    OBVIOUS
  <2>2. PICK i \in DOMAIN s : e = s[i]
    BY <2>1 DEF Elems
  <2>3. i - 1 \in DOMAIN Tail(s) /\ Tail(s)[i - 1] = e
    BY <1>2, <1>3, <2>1, <2>2
  <2> QED BY <2>3 DEF Elems
<1> QED BY <1>4, <1>5, <1>6, <1>7

LEMMA ElemsEmpty == Elems(<<>>) = {}
  BY DEF Elems

LEMMA ElemsOne == ASSUME NEW e PROVE Elems(<<e>>) = {e} /\ <<e>> \in Seq({e})
  BY DEF Elems

-----------------------------------------------------------------------------
(* The inductive invariant.                                                *)

\* A frame in flight only says what its sender knew: a msg was submitted, a
\* relay_ack follows the hand-over of that row, a row frame and a relay_rcvd
\* follow the insertion.
UpOK(f) ==
  /\ f.type = "msg" => f.msg \in Sent
  /\ f.type = "relay_ack" => f.qid \in DOMAIN rows /\ handed[rows[f.qid]] > 0
DownOK(s, f) ==
  /\ f.type = "msg" => f.qid \in DOMAIN rows /\ To[rows[f.qid]] = Owner(s)
  /\ f.type = "relay_rcvd" => f.msg \in Elems(rows)
FramesKnown ==
  \A s \in Sockets : /\ \A f \in Elems(up[s]) : UpOK(f)
                     /\ \A f \in Elems(down[s]) : DownOK(s, f)

\* The two duplicate filters hold only what really happened.
MemoriesKnown ==
  /\ \A c \in Clients : unacked[c] \subseteq Sent
  /\ sending \subseteq Sent
  /\ Elems(rows) \subseteq Sent
  /\ recentCids \subseteq Elems(rows)
  /\ \A c \in Clients : \A q \in Elems(seenQids[c]) :
       q \in DOMAIN rows /\ handed[rows[q]] > 0

Inv == TypeOK /\ FramesKnown /\ MemoriesKnown
       /\ SenderKeepsUntilStored /\ RelayKeepsUntilHanded

\* While nothing was forgotten about an envelope it has one row at most, the
\* relay remembers its cid, and its recipient the id of that row.
FiltersInv ==
  \A m \in Msgs \ amnesia :
    /\ m \in Elems(rows) => m \in recentCids
    /\ \A q, r \in DOMAIN rows : rows[q] = m /\ rows[r] = m => q = r
    /\ handed[m] <= 1
    /\ handed[m] > 0 =>
         \E q \in DOMAIN rows : rows[q] = m /\ q \in Elems(seenQids[To[m]])

-----------------------------------------------------------------------------
(* What the channel operators do.                                          *)

LEMMA PutLemma ==
  ASSUME NEW S, NEW chan \in [Sockets -> Seq(S)], NEW s \in Sockets,
         NEW frames \in Seq(S)
  PROVE  /\ Put(chan, s, frames) \in [Sockets -> Seq(S)]
         /\ \A r \in Sockets :
              \A f \in Elems(Put(chan, s, frames)[r]) :
                 f \in Elems(chan[r]) \/ (r = s /\ f \in Elems(frames))
<1>1. /\ chan[s] \o frames \in Seq(S)
      /\ Elems(chan[s] \o frames) = Elems(chan[s]) \cup Elems(frames)
  BY ElemsConcat
<1>2. CASE wire[s]
  <2>1. Put(chan, s, frames) = [chan EXCEPT ![s] = @ \o frames]
    BY <1>2 DEF Put
  <2> QED BY <1>1, <2>1
<1>3. CASE ~wire[s]
  BY <1>3 DEF Put
<1> QED BY <1>2, <1>3

LEMMA OneFrame ==
  ASSUME NEW S, NEW e \in S
  PROVE  <<e>> \in Seq(S) /\ Elems(<<e>>) = {e}
BY DEF Elems

LEMMA PutOne ==
  ASSUME NEW S, NEW chan \in [Sockets -> Seq(S)], NEW s \in Sockets, NEW e \in S
  PROVE  /\ Put(chan, s, <<e>>) \in [Sockets -> Seq(S)]
         /\ \A r \in Sockets :
              \A f \in Elems(Put(chan, s, <<e>>)[r]) : f \in Elems(chan[r]) \/ (r = s /\ f = e)
<1>1. PICK frames : frames = <<e>>
  OBVIOUS
<1>2. frames \in Seq(S)
  BY <1>1
<1>3. Elems(frames) = {e}
  BY <1>1, OneFrame
<1>4. /\ Put(chan, s, frames) \in [Sockets -> Seq(S)]
      /\ \A r \in Sockets :
           \A f \in Elems(Put(chan, s, frames)[r]) :
              f \in Elems(chan[r]) \/ (r = s /\ f \in Elems(frames))
  BY <1>2, PutLemma
<1> QED BY <1>1, <1>3, <1>4

LEMMA PopLemma ==
  ASSUME NEW S, NEW chan \in [Sockets -> Seq(S)], NEW s \in Sockets,
         chan[s] # <<>>
  PROVE  /\ [chan EXCEPT ![s] = Tail(@)] \in [Sockets -> Seq(S)]
         /\ Head(chan[s]) \in S /\ Head(chan[s]) \in Elems(chan[s])
         /\ \A r \in Sockets :
              Elems([chan EXCEPT ![s] = Tail(@)][r]) \subseteq Elems(chan[r])
BY ElemsTail

\* A listing of a finite set is a sequence of its elements.
LEMMA ListingsLemma ==
  ASSUME NEW S, IsFiniteSet(S), NEW rank, NEW list \in Listings(S, rank)
  PROVE  list \in Seq(S) /\ DOMAIN list = 1..Len(list) /\ \A i \in DOMAIN list : list[i] \in S
<1>1. Cardinality(S) \in Nat
  BY FS_CardinalityType
<1>2. list \in [1..Cardinality(S) -> S]
  BY DEF Listings
<1>3. list \in Seq(S)
  BY <1>1, <1>2
<1> QED BY <1>3

LEMMA QueueFinite ==
  ASSUME TypeOK PROVE IsFiniteSet(queue) /\ \A q \in queue : q \in DOMAIN rows /\ q \in Nat
<1>1. Len(rows) \in Nat /\ queue \subseteq 1..Len(rows) /\ DOMAIN rows = 1..Len(rows)
  BY DEF TypeOK
<1>2. IsFiniteSet(1..Len(rows))
  BY <1>1, FS_Interval
<1>3. IsFiniteSet(queue)
  BY <1>1, <1>2, FS_Subset
<1>4. \A q \in queue : q \in DOMAIN rows /\ q \in Nat
  BY <1>1
<1> QED BY <1>3, <1>4

\* What a socket's frames said stays true while rows, handed and stamp grow.
Grows ==
  /\ \A q \in DOMAIN rows : q \in DOMAIN rows' /\ rows'[q] = rows[q]
  /\ \A m \in Msgs : handed[m] > 0 => handed'[m] > 0
  /\ Sent \subseteq Sent'

LEMMA FramesStep ==
  ASSUME TypeOK, FramesKnown, Grows,
         \A s \in Sockets :
           /\ \A f \in Elems(up'[s]) : f \in Elems(up[s]) \/ UpOK(f)'
           /\ \A f \in Elems(down'[s]) : f \in Elems(down[s]) \/ DownOK(s, f)'
  PROVE  FramesKnown'
<1>1. \A q \in DOMAIN rows : rows[q] \in Msgs
  BY DEF TypeOK
<1>2. \A m \in Elems(rows) : m \in Elems(rows')
  BY DEF Grows, Elems
<1>3. ASSUME NEW s \in Sockets, NEW f \in Elems(up'[s]) PROVE UpOK(f)'
  <2>1. CASE f \in Elems(up[s])
    <3>1. UpOK(f)
      BY <2>1 DEF FramesKnown
    <3> QED BY <1>1, <3>1 DEF UpOK, Grows
  <2> QED BY <1>3, <2>1
<1>4. ASSUME NEW s \in Sockets, NEW f \in Elems(down'[s]) PROVE DownOK(s, f)'
  <2>1. CASE f \in Elems(down[s])
    <3>1. DownOK(s, f)
      BY <2>1 DEF FramesKnown
    <3> QED BY <1>2, <3>1 DEF DownOK, Grows
  <2> QED BY <1>4, <2>1
<1> QED BY <1>3, <1>4 DEF FramesKnown

-----------------------------------------------------------------------------
(* Every action preserves the invariant; one lemma per action that touches *)
(* what it speaks of.                                                      *)

LEMMA SendJsonInv == ASSUME Inv, NEW m \in Msgs, SendJson(m) PROVE Inv'
<1> DEFINE c == From[m]
<1>0. c \in Clients
  BY EndpointsAssumption
<1> USE DEF Inv
<1>1. Evicted(c) \subseteq unacked[c]
  BY DEF Evicted
<1>2. Cardinality(Sent) + 1 \in Nat \ {0}
  <2>1. Sent \subseteq Msgs
    BY DEF Sent
  <2> QED BY <2>1, MsgsAssumption, FS_Subset, FS_CardinalityType
<1>3. Sent' = Sent \cup {m}
  <2>1. stamp \in [Msgs -> Nat] /\ stamp' = [stamp EXCEPT ![m] = Cardinality(Sent) + 1]
    BY DEF SendJson, TypeOK
  <2>2. \A n \in Msgs : stamp'[n] > 0 <=> n = m \/ stamp[n] > 0
    BY <1>2, <2>1
  <2> QED BY <2>2 DEF Sent
<1>4. TypeOK'
  BY <1>0, <1>1, <1>2 DEF TypeOK, SendJson, socketVars, relayVars
<1>5. FramesKnown'
  BY <1>3, <1>4, FramesStep DEF SendJson, socketVars, relayVars, Grows
<1>6. MemoriesKnown'
  BY <1>0, <1>1, <1>3 DEF MemoriesKnown, SendJson, relayVars, TypeOK
<1>7. SenderKeepsUntilStored'
  <2> SUFFICES ASSUME NEW n \in Sent'
               PROVE (n \in unacked[From[n]] \/ n \in Elems(rows) \/ n \in abandoned)'
    BY DEF SenderKeepsUntilStored
  <2>1. CASE n = m
    BY <2>1, <1>0 DEF SendJson, TypeOK
  <2>2. CASE n # m
    <3>1. n \in Sent /\ n \in Msgs /\ From[n] \in Clients
      BY <2>2, <1>3, EndpointsAssumption DEF Sent
    <3>2. n \in unacked[From[n]] \/ n \in Elems(rows) \/ n \in abandoned
      BY <3>1 DEF SenderKeepsUntilStored
    <3> QED BY <3>1, <3>2, <1>0 DEF SendJson, relayVars, TypeOK
  <2> QED BY <2>1, <2>2
<1>8. RelayKeepsUntilHanded'
  BY DEF RelayKeepsUntilHanded, SendJson, relayVars
<1> QED BY <1>4, <1>5, <1>6, <1>7, <1>8

LEMMA SendWireInv == ASSUME Inv, NEW m \in Msgs, SendWire(m) PROVE Inv'
<1> DEFINE c == From[m]
<1>0. c \in Clients
  BY EndpointsAssumption
<1> USE DEF Inv
<1>1. MsgFrame(m) \in UpFrames
  BY DEF MsgFrame, UpFrames
<1>3. UpOK(MsgFrame(m))
  BY DEF UpOK, MsgFrame, MemoriesKnown, SendWire
<1>4. /\ up' \in [Sockets -> Seq(UpFrames)]
      /\ \A s \in Sockets : \A f \in Elems(up'[s]) : f \in Elems(up[s]) \/ f = MsgFrame(m)
  <2>1. up \in [Sockets -> Seq(UpFrames)]
    BY DEF TypeOK
  <2>2. CASE isConnected[c] /\ ws[c] > 0
    <3>1. Current(c) \in Sockets
      BY <1>0, <2>2, LimitsAssumption DEF Current, Sockets, TypeOK
    <3>2. up' = Put(up, Current(c), <<MsgFrame(m)>>)
      BY <2>2 DEF SendWire
    <3> QED BY <1>1, <2>1, <3>1, <3>2, PutOne
  <2>3. CASE ~(isConnected[c] /\ ws[c] > 0)
    BY <2>1, <2>3 DEF SendWire
  <2> QED BY <2>2, <2>3
<1>5. TypeOK'
  BY <1>4 DEF TypeOK, SendWire, relayVars, ghostVars
<1>6. FramesKnown'
  <2>1. UpOK(MsgFrame(m))'
    BY <1>3 DEF UpOK, SendWire, relayVars, ghostVars, Sent
  <2> QED BY <1>4, <2>1, FramesStep DEF SendWire, relayVars, ghostVars, Grows, Sent
<1>7. MemoriesKnown'
  BY DEF MemoriesKnown, SendWire, relayVars, ghostVars, Sent
<1>8. SenderKeepsUntilStored' /\ RelayKeepsUntilHanded'
  BY DEF SenderKeepsUntilStored, RelayKeepsUntilHanded, SendWire, relayVars, ghostVars, Sent
<1> QED BY <1>5, <1>6, <1>7, <1>8

\* The steps that change neither the log, the memories nor the frames.
LEMMA QuietInv ==
  ASSUME Inv, TypeOK',
         UNCHANGED <<rows, handed, stamp, unacked, sending, seenQids, queue,
                     abandoned, expired>>,
         recentCids' \subseteq recentCids,
         \A s \in Sockets : /\ Elems(up'[s]) \subseteq Elems(up[s])
                            /\ Elems(down'[s]) \subseteq Elems(down[s])
  PROVE  Inv'
<1> USE DEF Inv
<1>1. FramesKnown'
  BY FramesStep DEF Grows, Sent
<1>2. MemoriesKnown'
  BY DEF MemoriesKnown, Sent
<1>3. SenderKeepsUntilStored' /\ RelayKeepsUntilHanded'
  BY DEF SenderKeepsUntilStored, RelayKeepsUntilHanded, Sent
<1> QED BY <1>1, <1>2, <1>3

LEMMA SocketInv ==
  ASSUME Inv, \/ \E c \in Clients : Connect(c)
              \/ \E s \in Sockets : OnOpen(s) \/ OnFailure(s) \/ LinkBreak(s) \/ RelayClose(s)
              \/ RelayRestart
              \/ \E m \in Msgs : ForgetCid(m)
  PROVE  Inv'
<1>1. ASSUME NEW c \in Clients, Connect(c) PROVE Inv'
  <2>1. TypeOK'
    <3>1. ws' \in [Clients -> Nat] /\ \A d \in Clients : ws'[d] <= MaxGen[d]
      <4>1. ws \in [Clients -> Nat] /\ \A d \in Clients : ws[d] <= MaxGen[d]
        BY DEF Inv, TypeOK
      <4>2. ws' = [ws EXCEPT ![c] = @ + 1] /\ ws[c] < MaxGen[c]
        BY <1>1 DEF Connect
      <4>3. MaxGen[c] \in Nat
        BY LimitsAssumption
      <4> QED BY <4>1, <4>2, <4>3
    <3>2. sock' \in [Sockets -> {"none", "connecting", "open", "cancelled", "closed"}]
      BY <1>1 DEF Inv, TypeOK, Connect
    <3>3. wire' \in [Sockets -> BOOLEAN]
      BY <1>1 DEF Inv, TypeOK, Connect
    <3> QED BY <1>1, <3>1, <3>2, <3>3 DEF Inv, TypeOK, Connect, relayVars, ghostVars
  <2> QED BY <1>1, <2>1, QuietInv DEF Connect, relayVars, ghostVars
<1>2. ASSUME NEW s \in Sockets, OnOpen(s) PROVE Inv'
  <2>1. TypeOK'
    BY <1>2 DEF Inv, TypeOK, OnOpen, ghostVars
  <2> QED BY <1>2, <2>1, QuietInv DEF OnOpen, ghostVars
<1>3. ASSUME NEW s \in Sockets, OnFailure(s) PROVE Inv'
  <2>1. TypeOK'
    <3>1. down' \in [Sockets -> Seq(DownFrames)]
      BY <1>3 DEF Inv, TypeOK, OnFailure
    <3>2. sock' \in [Sockets -> {"none", "connecting", "open", "cancelled", "closed"}]
      BY <1>3 DEF Inv, TypeOK, OnFailure
    <3>3. isConnected' \in [Clients -> BOOLEAN]
      BY <1>3 DEF Inv, TypeOK, OnFailure
    <3> QED BY <1>3, <3>1, <3>2, <3>3 DEF Inv, TypeOK, OnFailure, relayVars, ghostVars
  <2>2. \A r \in Sockets : Elems(down'[r]) \subseteq Elems(down[r])
    BY <1>3, ElemsEmpty DEF OnFailure, Inv, TypeOK
  <2> QED BY <1>3, <2>1, <2>2, QuietInv DEF OnFailure, relayVars, ghostVars
<1>4. ASSUME NEW s \in Sockets, LinkBreak(s) PROVE Inv'
  <2>1. TypeOK'
    BY <1>4 DEF Inv, TypeOK, LinkBreak, clientVars, relayVars, ghostVars
  <2> QED BY <1>4, <2>1, QuietInv DEF LinkBreak, clientVars, relayVars, ghostVars
<1>5. ASSUME NEW s \in Sockets, RelayClose(s) PROVE Inv'
  <2>1. TypeOK'
    BY <1>5 DEF Inv, TypeOK, RelayClose, clientVars, ghostVars
  <2>2. \A r \in Sockets : Elems(up'[r]) \subseteq Elems(up[r])
    BY <1>5, ElemsEmpty DEF RelayClose, Inv, TypeOK
  <2> QED BY <1>5, <2>1, <2>2, QuietInv DEF RelayClose, clientVars, ghostVars
<1>6. ASSUME RelayRestart PROVE Inv'
  <2>1. TypeOK'
    BY <1>6, LimitsAssumption DEF Inv, TypeOK, RelayRestart, Fault, clientVars, Sent
  <2>2. \A r \in Sockets : Elems(up'[r]) \subseteq Elems(up[r])
    BY <1>6, ElemsEmpty DEF RelayRestart, Inv, TypeOK
  <2> QED BY <1>6, <2>1, <2>2, QuietInv DEF RelayRestart, clientVars
<1>7. ASSUME NEW m \in Msgs, ForgetCid(m) PROVE Inv'
  <2>1. TypeOK'
    BY <1>7, LimitsAssumption DEF Inv, TypeOK, ForgetCid, Fault, clientVars, socketVars
  <2> QED BY <1>7, <2>1, QuietInv DEF ForgetCid, clientVars, socketVars
<1> QED BY <1>1, <1>2, <1>3, <1>4, <1>5, <1>6, <1>7

LEMMA AnswerChallengeInv ==
  ASSUME Inv, NEW s \in Sockets, AnswerChallenge(s) PROVE Inv'
<1> USE DEF Inv
<1>1. AuthFrame \in UpFrames
  BY DEF AuthFrame, UpFrames
<1>2. up \in [Sockets -> Seq(UpFrames)] /\ up' = Put(up, s, <<AuthFrame>>)
  BY DEF AnswerChallenge, TypeOK
<1>3. /\ up' \in [Sockets -> Seq(UpFrames)]
      /\ \A r \in Sockets : \A f \in Elems(up'[r]) : f \in Elems(up[r]) \/ f = AuthFrame
  BY <1>1, <1>2, PutOne
<1>4. TypeOK'
  BY <1>3 DEF TypeOK, AnswerChallenge, relayVars, ghostVars
<1>5. UpOK(AuthFrame)'
  BY DEF UpOK, AuthFrame
<1>6. FramesKnown'
  BY <1>3, <1>5, FramesStep DEF AnswerChallenge, relayVars, ghostVars, Grows, Sent
<1>7. MemoriesKnown'
  BY DEF MemoriesKnown, AnswerChallenge, relayVars, ghostVars, Sent
<1>8. SenderKeepsUntilStored' /\ RelayKeepsUntilHanded'
  BY DEF SenderKeepsUntilStored, RelayKeepsUntilHanded, AnswerChallenge, relayVars, ghostVars, Sent
<1> QED BY <1>4, <1>6, <1>7, <1>8

LEMMA ResendUnackedInv ==
  ASSUME Inv, NEW s \in Sockets, ResendUnacked(s) PROVE Inv'
<1> USE DEF Inv
<1>0. Owner(s) \in Clients
  BY DEF Sockets, Owner
<1>1. PICK list \in Listings(unacked[Owner(s)], stamp) :
        up' = Put(up, s, [i \in DOMAIN list |-> MsgFrame(list[i])])
  BY DEF ResendUnacked
<1>2. unacked[Owner(s)] \subseteq Sent /\ unacked[Owner(s)] \subseteq Msgs
  BY <1>0 DEF TypeOK, MemoriesKnown
<1>3. IsFiniteSet(unacked[Owner(s)])
  BY <1>2, MsgsAssumption, FS_Subset
<1>4. /\ list \in Seq(unacked[Owner(s)]) /\ DOMAIN list = 1..Len(list)
      /\ \A i \in DOMAIN list : list[i] \in unacked[Owner(s)]
  BY <1>3, ListingsLemma
<1>5. PICK frames : frames = [i \in DOMAIN list |-> MsgFrame(list[i])]
  OBVIOUS
<1>6. frames \in Seq(UpFrames)
  <2>1. \A i \in DOMAIN list : MsgFrame(list[i]) \in UpFrames
    BY <1>2, <1>4 DEF MsgFrame, UpFrames
  <2>2. Len(list) \in Nat
    BY <1>4
  <2> QED BY <1>4, <1>5, <2>1, <2>2
<1>7. \A f \in Elems(frames) : UpOK(f)
  <2>1. \A i \in DOMAIN list : UpOK(MsgFrame(list[i]))
    BY <1>2, <1>4 DEF UpOK, MsgFrame
  <2> QED BY <1>5, <2>1 DEF Elems
<1>8. up \in [Sockets -> Seq(UpFrames)]
  BY DEF TypeOK
<1>9. /\ Put(up, s, frames) \in [Sockets -> Seq(UpFrames)]
      /\ \A r \in Sockets : \A f \in Elems(Put(up, s, frames)[r]) :
            f \in Elems(up[r]) \/ (r = s /\ f \in Elems(frames))
  BY <1>6, <1>8, PutLemma
<1>10. up' = Put(up, s, frames)
  BY <1>1, <1>5
<1>11. TypeOK'
  BY <1>9, <1>10 DEF TypeOK, ResendUnacked, relayVars, ghostVars
<1>12. \A f : UpOK(f) => UpOK(f)'
  BY DEF UpOK, ResendUnacked, relayVars, ghostVars, Sent
<1>13. FramesKnown'
  BY <1>7, <1>9, <1>10, <1>12, FramesStep DEF ResendUnacked, relayVars, ghostVars, Grows, Sent
<1>14. MemoriesKnown'
  BY DEF MemoriesKnown, ResendUnacked, relayVars, ghostVars, Sent
<1>15. SenderKeepsUntilStored' /\ RelayKeepsUntilHanded'
  BY DEF SenderKeepsUntilStored, RelayKeepsUntilHanded, ResendUnacked, relayVars, ghostVars, Sent
<1> QED BY <1>11, <1>13, <1>14, <1>15

\* Reading the head of down: what was read, and what is left.
LEMMA ReadsLemma ==
  ASSUME Inv, NEW s \in Sockets, NEW type, Reads(s, type)
  PROVE  /\ down' \in [Sockets -> Seq(DownFrames)]
         /\ \A r \in Sockets : Elems(down'[r]) \subseteq Elems(down[r])
         /\ Head(down[s]) \in DownFrames /\ DownOK(s, Head(down[s]))
         /\ Head(down[s]).type = type
<1>1. /\ down \in [Sockets -> Seq(DownFrames)] /\ down[s] # <<>>
      /\ down' = [down EXCEPT ![s] = Tail(@)]
  BY DEF Inv, TypeOK, Reads
<1>2. /\ down' \in [Sockets -> Seq(DownFrames)]
      /\ \A r \in Sockets : Elems(down'[r]) \subseteq Elems(down[r])
      /\ Head(down[s]) \in DownFrames /\ Head(down[s]) \in Elems(down[s])
  BY <1>1, PopLemma
<1>3. DownOK(s, Head(down[s]))
  BY <1>2 DEF Inv, FramesKnown
<1> QED BY <1>2, <1>3 DEF Reads

\* The same for the head of up, which the relay's handlers read.
LEMMA ReceivesLemma ==
  ASSUME Inv, NEW s \in Sockets, NEW type, Receives(s, type), up' = Popped(s)
  PROVE  /\ up' \in [Sockets -> Seq(UpFrames)]
         /\ \A r \in Sockets : Elems(up'[r]) \subseteq Elems(up[r])
         /\ Head(up[s]) \in UpFrames /\ UpOK(Head(up[s]))
         /\ Head(up[s]).type = type
<1>1. /\ up \in [Sockets -> Seq(UpFrames)] /\ up[s] # <<>>
      /\ up' = [up EXCEPT ![s] = Tail(@)]
  BY DEF Inv, TypeOK, Receives, Popped
<1>2. /\ up' \in [Sockets -> Seq(UpFrames)]
      /\ \A r \in Sockets : Elems(up'[r]) \subseteq Elems(up[r])
      /\ Head(up[s]) \in UpFrames /\ Head(up[s]) \in Elems(up[s])
  <2>1. PICK S : S = UpFrames
    OBVIOUS
  <2>2. up \in [Sockets -> Seq(S)]
    BY <1>1, <2>1
  <2>3. /\ [up EXCEPT ![s] = Tail(@)] \in [Sockets -> Seq(S)]
        /\ Head(up[s]) \in S /\ Head(up[s]) \in Elems(up[s])
        /\ \A r \in Sockets : Elems([up EXCEPT ![s] = Tail(@)][r]) \subseteq Elems(up[r])
    BY <1>1, <2>2, PopLemma
  <2> QED BY <1>1, <2>1, <2>3
<1>3. UpOK(Head(up[s]))
  BY <1>2 DEF Inv, FramesKnown
<1> QED BY <1>2, <1>3 DEF Receives

LEMMA OnRelayRcvdInv ==
  ASSUME Inv, NEW s \in Sockets, OnRelayRcvd(s) PROVE Inv'
<1> USE DEF Inv
<1> DEFINE m == Head(down[s]).msg
           c == Owner(s)
<1>0. c \in Clients
  BY DEF Sockets, Owner
<1>1. Reads(s, "relay_rcvd")
  BY DEF OnRelayRcvd
<1>2. /\ down' \in [Sockets -> Seq(DownFrames)]
      /\ \A r \in Sockets : Elems(down'[r]) \subseteq Elems(down[r])
      /\ DownOK(s, Head(down[s])) /\ Head(down[s]).type = "relay_rcvd"
  BY <1>1, ReadsLemma
<1>3. m \in Elems(rows)
  BY <1>2 DEF DownOK
<1>4. TypeOK'
  BY <1>2 DEF TypeOK, OnRelayRcvd, relayVars, ghostVars
<1>5. FramesKnown'
  BY <1>2, FramesStep DEF OnRelayRcvd, relayVars, ghostVars, Grows, Sent
<1>6. MemoriesKnown'
  BY <1>0 DEF MemoriesKnown, OnRelayRcvd, relayVars, ghostVars, Sent, TypeOK
<1>7. SenderKeepsUntilStored'
  <2>1. \A d \in Clients : \A n \in unacked[d] : n \in unacked'[d] \/ n = m
    BY <1>0 DEF OnRelayRcvd, TypeOK
  <2>2. \A n \in Sent : From[n] \in Clients
    BY EndpointsAssumption DEF Sent
  <2>3. Sent' = Sent /\ rows' = rows /\ abandoned' = abandoned
    BY DEF OnRelayRcvd, relayVars, ghostVars, Sent
  <2> QED BY <1>3, <2>1, <2>2, <2>3 DEF SenderKeepsUntilStored
<1>8. RelayKeepsUntilHanded'
  BY DEF RelayKeepsUntilHanded, OnRelayRcvd, relayVars, ghostVars
<1> QED BY <1>4, <1>5, <1>6, <1>7, <1>8

LEMMA AddSeenLemma ==
  ASSUME NEW seen \in Seq(Nat), NEW q \in Nat
  PROVE  /\ AddSeen(seen, q) \in Seq(Nat)
         /\ Elems(AddSeen(seen, q)) \subseteq Elems(seen) \cup {q}
<1>1. /\ Append(seen, q) \in Seq(Nat)
      /\ Elems(Append(seen, q)) = Elems(seen) \cup {q}
  BY ElemsAppend
<1>2. Append(seen, q) # <<>>
  OBVIOUS
<1>3. /\ Tail(Append(seen, q)) \in Seq(Nat)
      /\ Elems(Tail(Append(seen, q))) \subseteq Elems(Append(seen, q))
  BY <1>1, <1>2, ElemsTail
<1> QED BY <1>1, <1>3 DEF AddSeen

LEMMA OnMsgInv == ASSUME Inv, NEW s \in Sockets, OnMsg(s) PROVE Inv'
<1>a. PICK c \in Clients : c = Owner(s)
  BY DEF Sockets, Owner
<1>b. PICK q : q = Head(down[s]).qid
  OBVIOUS
<1>c. PICK fresh \in BOOLEAN : fresh <=> q \notin Elems(seenQids[c])
  OBVIOUS
<1>d. /\ Reads(s, "msg")
      /\ up' = Put(up, s, <<AckFrame(q)>>)
      /\ seenQids' = IF fresh THEN [seenQids EXCEPT ![c] = AddSeen(@, q)] ELSE seenQids
      /\ handed' = IF fresh THEN [handed EXCEPT ![rows[q]] = @ + 1] ELSE handed
      /\ amnesia' = IF fresh /\ Len(seenQids[c]) >= SeenMax
                    THEN amnesia \cup {rows[Head(seenQids[c])]} ELSE amnesia
  BY <1>a, <1>b, <1>c DEF OnMsg
<1>e. UNCHANGED <<ws, isConnected, unacked, sending, opening, signed, sock, wire,
                  clients, authed, rows, queue, recentCids, stamp, abandoned,
                  expired, faults>>
  BY DEF OnMsg, relayVars
<1>f. TypeOK /\ FramesKnown /\ MemoriesKnown /\ SenderKeepsUntilStored
      /\ RelayKeepsUntilHanded
  BY DEF Inv
<1>2. /\ down' \in [Sockets -> Seq(DownFrames)]
      /\ \A r \in Sockets : Elems(down'[r]) \subseteq Elems(down[r])
      /\ DownOK(s, Head(down[s])) /\ Head(down[s]).type = "msg"
  BY <1>d, ReadsLemma
<1>3. q \in DOMAIN rows /\ q \in Nat /\ rows[q] \in Msgs
  <2>1. q \in DOMAIN rows
    BY <1>b, <1>2 DEF DownOK
  <2>2. rows \in Seq(Msgs)
    BY <1>f DEF TypeOK
  <2> QED BY <2>1, <2>2
<1>4. PICK w : w = rows[q]
  OBVIOUS
<1>5. /\ handed' \in [Msgs -> Nat]
      /\ \A m \in Msgs : handed[m] > 0 => handed'[m] > 0
      /\ handed'[w] > 0
  <2>1. handed \in [Msgs -> Nat] /\ w \in Msgs
    BY <1>f, <1>3, <1>4 DEF TypeOK
  <2>2. CASE fresh
    <3>1. handed' = [handed EXCEPT ![w] = @ + 1]
      BY <1>d, <1>4, <2>2
    <3>2. handed[w] \in Nat /\ handed[w] + 1 \in Nat /\ handed[w] + 1 > 0
      BY <2>1
    <3> QED BY <2>1, <3>1, <3>2
  <2>3. CASE ~fresh
    <3>1. handed' = handed
      BY <1>d, <2>3
    <3>2. handed[w] > 0
      BY <1>c, <1>f, <1>4, <2>3 DEF MemoriesKnown
    <3> QED BY <2>1, <3>1, <3>2
  <2> QED BY <2>2, <2>3
<1>6. PICK ack : ack = AckFrame(q)
  OBVIOUS
<1>7. ack \in UpFrames /\ ack.type = "relay_ack" /\ ack.qid = q
  BY <1>3, <1>6 DEF AckFrame, UpFrames
<1>9. /\ up' \in [Sockets -> Seq(UpFrames)]
      /\ \A r \in Sockets : \A f \in Elems(up'[r]) : f \in Elems(up[r]) \/ f = ack
  <2>1. up \in [Sockets -> Seq(UpFrames)]
    BY <1>f DEF TypeOK
  <2>2. up' = Put(up, s, <<ack>>)
    BY <1>d, <1>6
  <2>3. /\ Put(up, s, <<ack>>) \in [Sockets -> Seq(UpFrames)]
        /\ \A r \in Sockets :
             \A f \in Elems(Put(up, s, <<ack>>)[r]) : f \in Elems(up[r]) \/ (r = s /\ f = ack)
    BY <1>7, <2>1, PutOne
  <2> QED BY <2>2, <2>3
<1>10. /\ seenQids' \in [Clients -> Seq(Nat)]
       /\ \A d \in Clients : \A r \in Elems(seenQids'[d]) : r \in Elems(seenQids[d]) \/ r = q
  <2>1. seenQids \in [Clients -> Seq(Nat)]
    BY <1>f DEF TypeOK
  <2>2. PICK added : added = AddSeen(seenQids[c], q)
    OBVIOUS
  <2>3. added \in Seq(Nat) /\ Elems(added) \subseteq Elems(seenQids[c]) \cup {q}
    <3>1. seenQids[c] \in Seq(Nat)
      BY <2>1
    <3> QED BY <1>3, <2>2, <3>1, AddSeenLemma
  <2>4. seenQids' = seenQids \/ seenQids' = [seenQids EXCEPT ![c] = added]
    BY <1>d, <2>2
  <2> QED BY <2>1, <2>3, <2>4
<1>11. amnesia' \subseteq Msgs
  <2>1. amnesia \subseteq Msgs /\ seenQids[c] \in Seq(Nat)
    BY <1>f DEF TypeOK
  <2>2. CASE fresh /\ Len(seenQids[c]) >= SeenMax
    <3>1. seenQids[c] # <<>>
      BY <2>1, <2>2, LimitsAssumption
    <3>2. Head(seenQids[c]) \in Elems(seenQids[c])
      BY <2>1, <3>1, ElemsTail
    <3>3. Head(seenQids[c]) \in DOMAIN rows
      BY <1>f, <3>2 DEF MemoriesKnown
    <3>4. rows[Head(seenQids[c])] \in Msgs
      BY <1>f, <3>3 DEF TypeOK
    <3> QED BY <1>d, <2>1, <2>2, <3>4
  <2>3. CASE ~(fresh /\ Len(seenQids[c]) >= SeenMax)
    BY <1>d, <2>1, <2>3
  <2> QED BY <2>2, <2>3
<1>12. TypeOK'
  BY <1>e, <1>f, <1>2, <1>5, <1>9, <1>10, <1>11 DEF TypeOK
<1>13. Sent' = Sent
  BY <1>e DEF Sent
<1>14. UpOK(ack)'
  BY <1>e, <1>3, <1>4, <1>5, <1>7 DEF UpOK
<1>15. FramesKnown'
  <2>1. Grows
    BY <1>e, <1>5, <1>13 DEF Grows
  <2> QED BY <1>f, <1>2, <1>9, <1>14, <2>1, FramesStep
<1>16. MemoriesKnown'
  <2>1. \A d \in Clients : \A r \in Elems(seenQids'[d]) :
          r \in DOMAIN rows /\ handed'[rows[r]] > 0
    <3> SUFFICES ASSUME NEW d \in Clients, NEW r \in Elems(seenQids'[d])
                 PROVE  r \in DOMAIN rows /\ handed'[rows[r]] > 0
      OBVIOUS
    <3>1. CASE r \in Elems(seenQids[d])
      <4>1. r \in DOMAIN rows /\ handed[rows[r]] > 0
        BY <1>f, <3>1 DEF MemoriesKnown
      <4>2. rows[r] \in Msgs
        BY <1>f, <4>1 DEF TypeOK
      <4> QED BY <1>5, <4>1, <4>2
    <3>2. CASE r = q
      BY <1>3, <1>4, <1>5, <3>2
    <3> QED BY <1>10, <3>1, <3>2
  <2> QED BY <1>e, <1>f, <1>13, <2>1 DEF MemoriesKnown
<1>17. SenderKeepsUntilStored'
  BY <1>e, <1>f, <1>13 DEF SenderKeepsUntilStored
<1>18. RelayKeepsUntilHanded'
  <2>1. \A m \in Elems(rows) : m \in Msgs
    BY <1>f DEF TypeOK, Elems
  <2> QED BY <1>e, <1>f, <1>5, <2>1 DEF RelayKeepsUntilHanded
<1> QED BY <1>12, <1>15, <1>16, <1>17, <1>18 DEF Inv

LEMMA RelayAuthInv == ASSUME Inv, NEW s \in Sockets, RelayAuth(s) PROVE Inv'
<1>a. PICK c \in Clients : c = Owner(s)
  BY DEF Sockets, Owner
<1>b. PICK mine : mine = {q \in queue : To[rows[q]] = c}
  OBVIOUS
<1>c. PICK list \in Listings(mine, [q \in queue |-> q]) :
        down' = Put(down, s, [i \in DOMAIN list |-> RowFrame(list[i])])
  BY <1>a, <1>b DEF RelayAuth, Selected
<1>d. PICK frames : frames = [i \in DOMAIN list |-> RowFrame(list[i])]
  OBVIOUS
<1>e. /\ Receives(s, "auth") /\ up' = Popped(s)
      /\ authed' = authed \cup {s}
      /\ UNCHANGED <<clientVars, sock, wire, clients, rows, queue, recentCids,
                     ghostVars>>
  BY DEF RelayAuth
<1>f. TypeOK /\ FramesKnown /\ MemoriesKnown /\ SenderKeepsUntilStored
      /\ RelayKeepsUntilHanded
  BY DEF Inv
<1>1. /\ up' \in [Sockets -> Seq(UpFrames)]
      /\ \A r \in Sockets : Elems(up'[r]) \subseteq Elems(up[r])
  BY <1>e, ReceivesLemma
<1>2. IsFiniteSet(mine) /\ \A q \in mine : q \in queue /\ q \in DOMAIN rows /\ q \in Nat /\ To[rows[q]] = c
  <2>1. IsFiniteSet(queue) /\ \A q \in queue : q \in DOMAIN rows /\ q \in Nat
    BY <1>f, QueueFinite
  <2>2. mine \subseteq queue /\ \A q \in mine : To[rows[q]] = c
    BY <1>b
  <2>3. IsFiniteSet(mine)
    BY <2>1, <2>2, FS_Subset
  <2> QED BY <2>1, <2>2, <2>3
<1>3. /\ list \in Seq(mine) /\ DOMAIN list = 1..Len(list)
      /\ \A i \in DOMAIN list : list[i] \in mine
  BY <1>2, ListingsLemma
<1>4. frames \in Seq(DownFrames)
  <2>1. \A i \in DOMAIN list : RowFrame(list[i]) \in DownFrames
    BY <1>2, <1>3 DEF RowFrame, DownFrames
  <2>2. Len(list) \in Nat
    BY <1>3
  <2> QED BY <1>3, <1>d, <2>1, <2>2
<1>5. \A f \in Elems(frames) : DownOK(s, f)
  <2>1. \A i \in DOMAIN list : DownOK(s, RowFrame(list[i]))
    BY <1>a, <1>2, <1>3 DEF DownOK, RowFrame
  <2> QED BY <1>d, <2>1 DEF Elems
<1>6. down \in [Sockets -> Seq(DownFrames)]
  BY <1>f DEF TypeOK
<1>7. /\ Put(down, s, frames) \in [Sockets -> Seq(DownFrames)]
      /\ \A r \in Sockets : \A f \in Elems(Put(down, s, frames)[r]) :
            f \in Elems(down[r]) \/ (r = s /\ f \in Elems(frames))
  BY <1>4, <1>6, PutLemma
<1>8. down' = Put(down, s, frames)
  BY <1>c, <1>d
<1>9. TypeOK'
  <2>1. s \in clients
    BY <1>e DEF Receives
  <2> QED BY <1>e, <1>f, <1>1, <1>7, <1>8, <2>1 DEF TypeOK, clientVars, ghostVars
<1>10. \A r \in Sockets : \A f : DownOK(r, f) => DownOK(r, f)'
  BY <1>e DEF DownOK
<1>11. FramesKnown'
  <2>1. Grows
    BY <1>e DEF Grows, ghostVars, Sent
  <2> QED BY <1>f, <1>1, <1>5, <1>7, <1>8, <1>10, <2>1, FramesStep
<1>12. MemoriesKnown'
  BY <1>e, <1>f DEF MemoriesKnown, clientVars, ghostVars, Sent
<1>13. SenderKeepsUntilStored' /\ RelayKeepsUntilHanded'
  BY <1>e, <1>f DEF SenderKeepsUntilStored, RelayKeepsUntilHanded, clientVars, ghostVars, Sent
<1> QED BY <1>9, <1>11, <1>12, <1>13 DEF Inv

\* The log grows by a new row; the frames sent speak of it and of its cid.
LEMMA RelayMsgInv == ASSUME Inv, NEW s \in Sockets, RelayMsg(s) PROVE Inv'
<1>a. PICK m : m = Head(up[s]).msg
  OBVIOUS
<1>b. PICK q : q = Len(rows) + 1
  OBVIOUS
<1>c. PICK known \in BOOLEAN : known <=> m \in recentCids
  OBVIOUS
<1>d. PICK out : out = [r \in Sockets |->
        (IF ~known /\ r \in authed /\ Owner(r) = To[m] /\ wire[r]
         THEN <<RowFrame(q)>> ELSE <<>>)
        \o (IF r = s /\ wire[r] THEN <<RcvdFrame(m)>> ELSE <<>>)]
  OBVIOUS
<1>e. /\ Receives(s, "msg") /\ up' = Popped(s)
      /\ rows' = IF known THEN rows ELSE Append(rows, m)
      /\ queue' = IF known THEN queue ELSE queue \cup {q}
      /\ recentCids' = recentCids \cup {m}
      /\ UNCHANGED <<clientVars, sock, wire, clients, authed, ghostVars>>
  BY <1>a, <1>b, <1>c DEF RelayMsg, NextRowId, NotedCids
<1>e2. down' = [r \in Sockets |-> down[r] \o out[r]]
  BY <1>a, <1>b, <1>c, <1>d DEF RelayMsg, NextRowId
<1>f. TypeOK /\ FramesKnown /\ MemoriesKnown /\ SenderKeepsUntilStored
      /\ RelayKeepsUntilHanded
  BY DEF Inv
<1>1. /\ up' \in [Sockets -> Seq(UpFrames)]
      /\ \A r \in Sockets : Elems(up'[r]) \subseteq Elems(up[r])
      /\ UpOK(Head(up[s])) /\ Head(up[s]).type = "msg"
  BY <1>e, ReceivesLemma
<1>2. m \in Sent /\ m \in Msgs
  BY <1>a, <1>1 DEF UpOK, Sent
<1>3. /\ rows \in Seq(Msgs) /\ q \in Nat /\ queue \subseteq 1..Len(rows)
      /\ rows' \in Seq(Msgs)
      /\ \A r \in DOMAIN rows : r \in DOMAIN rows' /\ rows'[r] = rows[r]
      /\ Elems(rows') = Elems(rows) \cup {m}
      /\ ~known => q \in DOMAIN rows' /\ rows'[q] = m
      /\ queue' \subseteq 1..Len(rows') /\ queue \subseteq queue'
  <2>1. rows \in Seq(Msgs) /\ queue \subseteq 1..Len(rows) /\ q \in Nat
    BY <1>b, <1>f DEF TypeOK
  <2>2. CASE known
    <3>1. m \in Elems(rows)
      BY <1>c, <1>f, <2>2 DEF MemoriesKnown
    <3> QED BY <1>e, <2>1, <2>2, <3>1
  <2>3. CASE ~known
    <3>1. rows' = Append(rows, m) /\ queue' = queue \cup {q}
      BY <1>e, <2>3
    <3>2. Append(rows, m) \in Seq(Msgs) /\ Elems(Append(rows, m)) = Elems(rows) \cup {m}
      BY <1>2, <2>1, ElemsAppend
    <3>3. Len(Append(rows, m)) = q /\ Append(rows, m)[q] = m
      BY <1>b, <1>2, <2>1
    <3>4. \A r \in DOMAIN rows : r \in DOMAIN Append(rows, m) /\ Append(rows, m)[r] = rows[r]
      BY <1>2, <2>1
    <3>5. q \in DOMAIN Append(rows, m)
      BY <1>b, <2>1, <3>2, <3>3
    <3>6. queue \cup {q} \subseteq 1..q
      <4>1. PICK n \in Nat : n = Len(rows) /\ q = n + 1
        BY <1>b, <2>1
      <4>2. 1..n \subseteq 1..q /\ q \in 1..q
        BY <4>1
      <4> QED BY <2>1, <4>1, <4>2
    <3> QED BY <2>1, <3>1, <3>2, <3>3, <3>4, <3>5, <3>6
  <2> QED BY <2>2, <2>3
<1>4. PICK rf, cf : rf = RowFrame(q) /\ cf = RcvdFrame(m)
  OBVIOUS
<1>5. rf \in DownFrames /\ cf \in DownFrames /\ <<rf>> \in Seq(DownFrames)
      /\ <<cf>> \in Seq(DownFrames) /\ <<>> \in Seq(DownFrames)
  BY <1>2, <1>3, <1>4 DEF RowFrame, RcvdFrame, DownFrames
<1>6. ASSUME NEW r \in Sockets
      PROVE  /\ out[r] \in Seq(DownFrames)
             /\ \A f \in Elems(out[r]) : DownOK(r, f)'
  <2>1. PICK left : left = IF ~known /\ r \in authed /\ Owner(r) = To[m] /\ wire[r]
                          THEN <<rf>> ELSE <<>>
    OBVIOUS
  <2>2. PICK right : right = IF r = s /\ wire[r] THEN <<cf>> ELSE <<>>
    OBVIOUS
  <2>3. out[r] = left \o right
    BY <1>d, <1>4, <2>1, <2>2
  <2>4. left \in Seq(DownFrames) /\ right \in Seq(DownFrames)
    BY <1>5, <2>1, <2>2
  <2>5. out[r] \in Seq(DownFrames) /\ Elems(out[r]) = Elems(left) \cup Elems(right)
    BY <2>3, <2>4, ElemsConcat
  <2>6. ASSUME NEW f \in Elems(left) PROVE DownOK(r, f)'
    <3>1. /\ f = rf /\ ~known /\ Owner(r) = To[m]
      BY <2>1, <2>6, ElemsEmpty, OneFrame
    <3>2. rf.type = "msg" /\ rf.qid = q
      BY <1>4 DEF RowFrame
    <3> QED BY <1>3, <3>1, <3>2 DEF DownOK
  <2>7. ASSUME NEW f \in Elems(right) PROVE DownOK(r, f)'
    <3>1. f = cf
      BY <2>2, <2>7, ElemsEmpty, OneFrame
    <3>2. cf.type = "relay_rcvd" /\ cf.msg = m
      BY <1>4 DEF RcvdFrame
    <3> QED BY <1>3, <3>1, <3>2 DEF DownOK
  <2> QED BY <2>5, <2>6, <2>7
<1>7. down \in [Sockets -> Seq(DownFrames)]
  BY <1>f DEF TypeOK
<1>8. ASSUME NEW r \in Sockets
      PROVE  /\ down'[r] \in Seq(DownFrames)
             /\ \A f \in Elems(down'[r]) : f \in Elems(down[r]) \/ DownOK(r, f)'
  <2>1. down'[r] = down[r] \o out[r]
    BY <1>e2
  <2>2. down[r] \in Seq(DownFrames) /\ out[r] \in Seq(DownFrames)
    BY <1>6, <1>7
  <2>3. down[r] \o out[r] \in Seq(DownFrames)
        /\ Elems(down[r] \o out[r]) = Elems(down[r]) \cup Elems(out[r])
    BY <2>2, ElemsConcat
  <2> QED BY <1>6, <2>1, <2>3
<1>9. down' \in [Sockets -> Seq(DownFrames)]
  BY <1>e2, <1>8
<1>10. TypeOK'
  BY <1>e, <1>f, <1>1, <1>2, <1>3, <1>9 DEF TypeOK, clientVars, ghostVars
<1>11. Sent' = Sent /\ handed' = handed
  BY <1>e DEF Sent, ghostVars
<1>12. FramesKnown'
  <2>1. Grows
    BY <1>3, <1>11 DEF Grows
  <2> QED BY <1>f, <1>1, <1>8, <2>1, FramesStep
<1>13. MemoriesKnown'
  <2>1. UNCHANGED <<unacked, sending, seenQids>>
    BY <1>e DEF clientVars
  <2>2. \A r \in DOMAIN rows : r \in DOMAIN rows' /\ rows'[r] = rows[r]
    BY <1>3
  <2>3. recentCids' \subseteq Elems(rows') /\ Elems(rows') \subseteq Sent'
    BY <1>e, <1>f, <1>2, <1>3, <1>11 DEF MemoriesKnown
  <2> QED BY <1>f, <1>11, <2>1, <2>2, <2>3 DEF MemoriesKnown
<1>14. SenderKeepsUntilStored'
  BY <1>e, <1>f, <1>3, <1>11 DEF SenderKeepsUntilStored, clientVars, ghostVars
<1>15. RelayKeepsUntilHanded'
  <2> SUFFICES ASSUME NEW n \in Elems(rows')
               PROVE  (\E r \in queue' : rows'[r] = n) \/ handed[n] > 0 \/ n \in expired
    BY <1>e, <1>11 DEF RelayKeepsUntilHanded, ghostVars
  <2>1. CASE n \in Elems(rows)
    <3>1. (\E r \in queue : rows[r] = n) \/ handed[n] > 0 \/ n \in expired
      BY <1>f, <2>1 DEF RelayKeepsUntilHanded
    <3>2. \A r \in queue : r \in DOMAIN rows
      BY <1>f, QueueFinite
    <3> QED BY <1>3, <3>1, <3>2
  <2>2. CASE n \notin Elems(rows)
    <3>1. n = m /\ ~known
      BY <1>c, <1>e, <1>3, <2>2
    <3> QED BY <1>e, <1>3, <3>1
  <2> QED BY <2>1, <2>2
<1> QED BY <1>10, <1>12, <1>13, <1>14, <1>15 DEF Inv

LEMMA RelayAckInv == ASSUME Inv, NEW s \in Sockets, RelayAck(s) PROVE Inv'
<1>a. PICK q : q = Head(up[s]).qid
  OBVIOUS
<1>b. /\ Receives(s, "relay_ack") /\ up' = Popped(s)
      /\ queue' \subseteq queue /\ \A r \in queue : r \in queue' \/ r = q
      /\ UNCHANGED <<clientVars, sock, wire, down, clients, authed, rows,
                     recentCids, ghostVars>>
  BY <1>a DEF RelayAck
<1>f. TypeOK /\ FramesKnown /\ MemoriesKnown /\ SenderKeepsUntilStored
      /\ RelayKeepsUntilHanded
  BY DEF Inv
<1>1. /\ up' \in [Sockets -> Seq(UpFrames)]
      /\ \A r \in Sockets : Elems(up'[r]) \subseteq Elems(up[r])
      /\ UpOK(Head(up[s])) /\ Head(up[s]).type = "relay_ack"
  BY <1>b, ReceivesLemma
<1>2. q \in DOMAIN rows /\ handed[rows[q]] > 0
  BY <1>a, <1>1 DEF UpOK
<1>3. TypeOK'
  BY <1>b, <1>f, <1>1 DEF TypeOK, clientVars, ghostVars
<1>4. FramesKnown'
  <2>1. Grows
    BY <1>b DEF Grows, ghostVars, Sent
  <2> QED BY <1>b, <1>f, <1>1, <2>1, FramesStep
<1>5. MemoriesKnown'
  BY <1>b, <1>f DEF MemoriesKnown, clientVars, ghostVars, Sent
<1>6. SenderKeepsUntilStored'
  BY <1>b, <1>f DEF SenderKeepsUntilStored, clientVars, ghostVars, Sent
<1>7. RelayKeepsUntilHanded'
  BY <1>b, <1>f, <1>2 DEF RelayKeepsUntilHanded, ghostVars
<1> QED BY <1>3, <1>4, <1>5, <1>6, <1>7 DEF Inv

LEMMA KillInv == ASSUME Inv, NEW c \in Clients, Kill(c) PROVE Inv'
<1>f. TypeOK /\ FramesKnown /\ MemoriesKnown /\ SenderKeepsUntilStored
      /\ RelayKeepsUntilHanded
  BY DEF Inv
<1>1. /\ unacked' = [unacked EXCEPT ![c] = {}]
      /\ seenQids' = [seenQids EXCEPT ![c] = <<>>]
      /\ sending' \subseteq sending /\ abandoned' = abandoned \cup unacked[c]
      /\ down' = [s \in Sockets |-> IF Owner(s) = c THEN <<>> ELSE down[s]]
      /\ UNCHANGED <<ws, signed, up, relayVars, stamp, handed, expired>>
  BY DEF Kill
<1>2. /\ down' \in [Sockets -> Seq(DownFrames)]
      /\ \A s \in Sockets : Elems(down'[s]) \subseteq Elems(down[s])
  BY <1>f, <1>1, ElemsEmpty DEF TypeOK
<1>3. TypeOK'
  <2>1. sock' \in [Sockets -> {"none", "connecting", "open", "cancelled", "closed"}]
    BY <1>f DEF Kill, TypeOK
  <2>2. wire' \in [Sockets -> BOOLEAN]
    BY <1>f DEF Kill, TypeOK
  <2>3. isConnected' \in [Clients -> BOOLEAN] /\ opening' \subseteq Sockets
        /\ amnesia' \subseteq Msgs /\ faults' \in 0..MaxFaults
    BY <1>f, LimitsAssumption DEF Kill, Fault, TypeOK, Sent
  <2>4. unacked' \in [Clients -> SUBSET Msgs] /\ seenQids' \in [Clients -> Seq(Nat)]
        /\ sending' \subseteq Msgs /\ abandoned' \subseteq Msgs
    BY <1>f, <1>1 DEF TypeOK
  <2> QED BY <1>f, <1>1, <1>2, <2>1, <2>2, <2>3, <2>4 DEF TypeOK, relayVars
<1>4. FramesKnown'
  <2>1. Grows
    BY <1>1 DEF Grows, relayVars, Sent
  <2> QED BY <1>f, <1>1, <1>2, <2>1, FramesStep
<1>5. MemoriesKnown'
  <2>1. \A d \in Clients : unacked'[d] \subseteq unacked[d] /\ Elems(seenQids'[d]) \subseteq Elems(seenQids[d])
    BY <1>f, <1>1, ElemsEmpty DEF TypeOK
  <2> QED BY <1>f, <1>1, <2>1 DEF MemoriesKnown, relayVars, Sent
<1>6. SenderKeepsUntilStored'
  <2>1. \A m \in Sent : From[m] \in Clients
    BY EndpointsAssumption DEF Sent
  <2>2. \A d \in Clients : \A m \in unacked[d] : m \in unacked'[d] \/ m \in abandoned'
    BY <1>f, <1>1 DEF TypeOK
  <2>3. Sent' = Sent /\ rows' = rows /\ abandoned \subseteq abandoned'
    BY <1>1 DEF relayVars, Sent
  <2> QED BY <1>f, <2>1, <2>2, <2>3 DEF SenderKeepsUntilStored
<1>7. RelayKeepsUntilHanded'
  BY <1>f, <1>1 DEF RelayKeepsUntilHanded, relayVars
<1> QED BY <1>3, <1>4, <1>5, <1>6, <1>7 DEF Inv

LEMMA ExpireRowInv == ASSUME Inv, NEW q \in queue, ExpireRow(q) PROVE Inv'
<1>f. TypeOK /\ FramesKnown /\ MemoriesKnown /\ SenderKeepsUntilStored
      /\ RelayKeepsUntilHanded
  BY DEF Inv
<1>1. /\ queue' = queue \ {q} /\ expired' = expired \cup {rows[q]} /\ Fault
      /\ UNCHANGED <<clientVars, socketVars, clients, authed, rows, recentCids,
                     stamp, handed, abandoned, amnesia>>
  BY DEF ExpireRow
<1>2. rows[q] \in Msgs
  BY <1>f, QueueFinite DEF TypeOK
<1>3. TypeOK'
  BY <1>f, <1>1, <1>2, LimitsAssumption DEF TypeOK, Fault, clientVars, socketVars
<1>4. FramesKnown'
  <2>1. Grows
    BY <1>1 DEF Grows, Sent
  <2> QED BY <1>f, <1>1, <2>1, FramesStep DEF socketVars
<1>5. MemoriesKnown' /\ SenderKeepsUntilStored'
  BY <1>f, <1>1 DEF MemoriesKnown, SenderKeepsUntilStored, clientVars, Sent
<1>6. RelayKeepsUntilHanded'
  BY <1>f, <1>1 DEF RelayKeepsUntilHanded
<1> QED BY <1>3, <1>4, <1>5, <1>6 DEF Inv

-----------------------------------------------------------------------------
LEMMA InitInv == Init => Inv
<1> SUFFICES ASSUME Init PROVE Inv
  OBVIOUS
<1> USE DEF Init
<1>1. Sent = {}
  BY DEF Sent
<1>2. TypeOK
  BY LimitsAssumption DEF TypeOK
<1>3. FramesKnown /\ MemoriesKnown
  BY <1>1, ElemsEmpty DEF FramesKnown, MemoriesKnown
<1>4. SenderKeepsUntilStored /\ RelayKeepsUntilHanded
  BY <1>1, ElemsEmpty DEF SenderKeepsUntilStored, RelayKeepsUntilHanded
<1> QED BY <1>2, <1>3, <1>4 DEF Inv

LEMMA StutterInv == ASSUME Inv, UNCHANGED vars PROVE Inv'
<1>1. TypeOK'
  BY DEF Inv, TypeOK, vars, clientVars, socketVars, relayVars, ghostVars
<1> QED BY <1>1, QuietInv DEF vars, clientVars, socketVars, relayVars, ghostVars

LEMMA NextInv == Inv /\ [Next]_vars => Inv'
<1> SUFFICES ASSUME Inv, [Next]_vars PROVE Inv'
  OBVIOUS
<1>1. ASSUME NEW m \in Msgs, SendJson(m) \/ SendWire(m) \/ ForgetCid(m) PROVE Inv'
  BY <1>1, SendJsonInv, SendWireInv, SocketInv
<1>2. ASSUME NEW c \in Clients, Connect(c) \/ Kill(c) PROVE Inv'
  BY <1>2, SocketInv, KillInv
<1>3. ASSUME NEW s \in Sockets, ClientStep(s) PROVE Inv'
  BY <1>3, SocketInv, ResendUnackedInv, AnswerChallengeInv, OnRelayRcvdInv,
     OnMsgInv DEF ClientStep
<1>4. ASSUME NEW s \in Sockets, RelayStep(s) \/ LinkBreak(s) PROVE Inv'
  BY <1>4, SocketInv, RelayAuthInv, RelayMsgInv, RelayAckInv DEF RelayStep
<1>5. ASSUME NEW q \in queue, ExpireRow(q) PROVE Inv'
  BY <1>5, ExpireRowInv
<1>6. CASE RelayRestart
  BY <1>6, SocketInv
<1>7. CASE UNCHANGED vars
  BY <1>7, StutterInv
<1> QED BY <1>1, <1>2, <1>3, <1>4, <1>5, <1>6, <1>7 DEF Next

LEMMA Invariance == Spec => []Inv
  BY InitInv, NextInv, PTL DEF Spec

\* The variables keep their types for every number of devices, envelopes and
\* connections: no step of NetworkManager or of server.js leaves a stored row
\* id beyond the log, a frame of an unknown kind or an unknown socket.
THEOREM TypeCorrect == Spec => []TypeOK
  BY Invariance, PTL DEF Inv

\* First hop (sendJson, relay_rcvd, the relay's msg handler): whatever
\* sockets break and restart, an envelope is in unacked or in the relay's log
\* unless the map overflowed or the process died.
THEOREM SenderKeeps == Spec => []SenderKeepsUntilStored
  BY Invariance, PTL DEF Inv

\* Second hop (flushQueue, onMessage, relay_ack): the relay never deletes a
\* row whose envelope has not been on its recipient's lane; only the TTL does.
THEOREM RelayKeeps == Spec => []RelayKeepsUntilHanded
  BY Invariance, PTL DEF Inv

-----------------------------------------------------------------------------
(* The duplicate filters.  FiltersInv is inductive only together with Inv:  *)
(* that a row frame travels only to the recipient of its row is what makes  *)
(* the set seenQids that is asked the right one.                            *)

LEMMA QuietFilters ==
  ASSUME FiltersInv, UNCHANGED <<rows, handed, seenQids>>,
         amnesia \subseteq amnesia',
         \A m \in Msgs \ amnesia' : m \in recentCids => m \in recentCids'
  PROVE  FiltersInv'
BY DEF FiltersInv

LEMMA RelayMsgFilters ==
  ASSUME Inv, FiltersInv, NEW s \in Sockets, RelayMsg(s) PROVE FiltersInv'
<1>a. PICK m : m = Head(up[s]).msg
  OBVIOUS
<1>b. PICK k : k = Len(rows) + 1
  OBVIOUS
<1>1. /\ rows' = IF m \in recentCids THEN rows ELSE Append(rows, m)
      /\ recentCids' = recentCids \cup {m}
      /\ UNCHANGED <<handed, seenQids, amnesia>>
  BY <1>a DEF RelayMsg, NotedCids, clientVars, ghostVars
<1>2. CASE m \in recentCids
  BY <1>1, <1>2, QuietFilters
<1>3. CASE m \notin recentCids
  <2>1. /\ Receives(s, "msg") /\ up' = Popped(s)
    BY DEF RelayMsg
  <2>2. m \in Msgs
    <3>1. UpOK(Head(up[s])) /\ Head(up[s]).type = "msg"
      BY <2>1, ReceivesLemma
    <3> QED BY <1>a, <3>1 DEF UpOK, Sent
  <2>3. rows \in Seq(Msgs) /\ rows' = Append(rows, m)
    BY <1>1, <1>3 DEF Inv, TypeOK
  <2>4. Elems(rows') = Elems(rows) \cup {m}
    BY <2>2, <2>3, ElemsAppend
  <2>5. /\ \A q \in DOMAIN rows : q \in DOMAIN rows' /\ rows'[q] = rows[q]
        /\ rows'[k] = m
        /\ \A q \in DOMAIN rows' : q \in DOMAIN rows \/ q = k
    <3>1. Len(rows) \in Nat /\ DOMAIN rows = 1..Len(rows) /\ DOMAIN rows' = 1..k
      BY <1>b, <2>2, <2>3
    <3>2. rows'[k] = m
      BY <1>b, <2>2, <2>3
    <3>3. \A q \in DOMAIN rows : q \in DOMAIN rows' /\ rows'[q] = rows[q]
      BY <2>2, <2>3
    <3>4. \A q \in 1..k : q \in 1..Len(rows) \/ q = k
      BY <1>b, <3>1
    <3> QED BY <3>1, <3>2, <3>3, <3>4
  <2>6. ASSUME NEW n \in Msgs \ amnesia'
        PROVE  /\ n \in Elems(rows') => n \in recentCids'
               /\ \A q, r \in DOMAIN rows' : rows'[q] = n /\ rows'[r] = n => q = r
               /\ handed'[n] <= 1
               /\ handed'[n] > 0 =>
                    \E q \in DOMAIN rows' : rows'[q] = n /\ q \in Elems(seenQids'[To[n]])
    <3>0. n \in Msgs \ amnesia
      BY <1>1
    <3>1. n \in Elems(rows') => n \in recentCids'
      BY <1>1, <2>4, <3>0 DEF FiltersInv
    <3>2. ASSUME NEW q \in DOMAIN rows', NEW r \in DOMAIN rows',
                 rows'[q] = n, rows'[r] = n
          PROVE  q = r
      <4>1. CASE n = m
        <5>1. \A x \in DOMAIN rows : rows[x] # m
          BY <1>3, <3>0, <4>1 DEF FiltersInv, Elems
        <5> QED BY <2>5, <3>2, <4>1, <5>1
      <4>2. CASE n # m
        <5>1. q \in DOMAIN rows /\ r \in DOMAIN rows
          BY <2>5, <3>2, <4>2
        <5> QED BY <2>5, <3>0, <3>2, <5>1 DEF FiltersInv
      <4> QED BY <4>1, <4>2
    <3>3. handed'[n] <= 1
      BY <1>1, <3>0 DEF FiltersInv
    <3>4. ASSUME handed'[n] > 0
          PROVE  \E q \in DOMAIN rows' : rows'[q] = n /\ q \in Elems(seenQids'[To[n]])
      <4>1. PICK q \in DOMAIN rows : rows[q] = n /\ q \in Elems(seenQids[To[n]])
        BY <1>1, <3>0, <3>4 DEF FiltersInv
      <4> QED BY <1>1, <2>5, <4>1
    <3> QED BY <3>1, <3>2, <3>3, <3>4
  <2> QED BY <2>6 DEF FiltersInv
<1> QED BY <1>2, <1>3

LEMMA AddSeenKeeps ==
  ASSUME NEW seen \in Seq(Nat), NEW q \in Nat
  PROVE  /\ q \in Elems(AddSeen(seen, q))
         /\ \A r \in Elems(seen) :
              r \in Elems(AddSeen(seen, q)) \/ (Len(seen) >= SeenMax /\ r = Head(seen))
<1>1. PICK added : added = Append(seen, q)
  OBVIOUS
<1>2. added \in Seq(Nat) /\ Elems(added) = Elems(seen) \cup {q} /\ Len(added) = Len(seen) + 1
      /\ added[Len(seen) + 1] = q
  BY <1>1, ElemsAppend
<1>3. CASE Len(added) > SeenMax
  <2>1. AddSeen(seen, q) = Tail(added)
    BY <1>1, <1>3 DEF AddSeen
  <2>2. Len(seen) \in Nat /\ Len(seen) >= SeenMax /\ Len(seen) >= 1
    BY <1>2, <1>3, LimitsAssumption
  <2>3. seen # <<>> /\ Head(added) = Head(seen) /\ added # <<>>
    BY <1>1, <2>2
  <2>4. Elems(added) = {Head(added)} \cup Elems(Tail(added))
    BY <1>2, <2>3, ElemsTail
  <2>5. q \in Elems(Tail(added))
    <3>1. Len(seen) \in DOMAIN Tail(added) /\ Tail(added)[Len(seen)] = q
      BY <1>2, <2>2
    <3> QED BY <3>1 DEF Elems
  <2> QED BY <1>2, <2>1, <2>2, <2>3, <2>4, <2>5
<1>4. CASE ~(Len(added) > SeenMax)
  BY <1>1, <1>2, <1>4 DEF AddSeen
<1> QED BY <1>3, <1>4

LEMMA OnMsgFilters ==
  ASSUME Inv, FiltersInv, NEW s \in Sockets, OnMsg(s) PROVE FiltersInv'
<1>a. PICK c \in Clients : c = Owner(s)
  BY DEF Sockets, Owner
<1>b. PICK q : q = Head(down[s]).qid
  OBVIOUS
<1>c. PICK seen : seen = seenQids[c]
  OBVIOUS
<1>d. PICK fresh \in BOOLEAN : fresh <=> q \notin Elems(seen)
  OBVIOUS
<1>e. /\ Reads(s, "msg")
      /\ seenQids' = IF fresh THEN [seenQids EXCEPT ![c] = AddSeen(seen, q)] ELSE seenQids
      /\ handed' = IF fresh THEN [handed EXCEPT ![rows[q]] = @ + 1] ELSE handed
      /\ amnesia' = IF fresh /\ Len(seen) >= SeenMax
                    THEN amnesia \cup {rows[Head(seen)]} ELSE amnesia
      /\ UNCHANGED <<rows, recentCids>>
  BY <1>a, <1>b, <1>c, <1>d DEF OnMsg, relayVars
<1>1. seenQids \in [Clients -> Seq(Nat)] /\ seen \in Seq(Nat)
      /\ handed \in [Msgs -> Nat] /\ rows \in Seq(Msgs)
  BY <1>c DEF Inv, TypeOK
<1>2. q \in DOMAIN rows /\ q \in Nat /\ To[rows[q]] = c
  <2>1. DownOK(s, Head(down[s])) /\ Head(down[s]).type = "msg"
    BY <1>e, ReadsLemma
  <2>2. q \in DOMAIN rows /\ To[rows[q]] = c
    BY <1>a, <1>b, <2>1 DEF DownOK
  <2> QED BY <1>1, <2>2
<1>3. CASE ~fresh
  BY <1>3, <1>e, QuietFilters
<1>4. CASE fresh
  <2>a. PICK w \in Msgs : w = rows[q]
    BY <1>1, <1>2
  <2>b. PICK added : added = AddSeen(seen, q)
    OBVIOUS
  <2>1. /\ q \in Elems(added)
        /\ \A r \in Elems(seen) : r \in Elems(added) \/ (Len(seen) >= SeenMax /\ r = Head(seen))
    BY <1>1, <1>2, <2>b, AddSeenKeeps
  <2>2. /\ seenQids' = [seenQids EXCEPT ![c] = added]
        /\ handed' = [handed EXCEPT ![w] = @ + 1]
    BY <1>e, <1>4, <2>a, <2>b
  <2>3. ASSUME NEW n \in Msgs \ amnesia'
        PROVE  /\ n \in Elems(rows') => n \in recentCids'
               /\ \A x, r \in DOMAIN rows' : rows'[x] = n /\ rows'[r] = n => x = r
               /\ handed'[n] <= 1
               /\ handed'[n] > 0 =>
                    \E x \in DOMAIN rows' : rows'[x] = n /\ x \in Elems(seenQids'[To[n]])
    <3>0. n \in Msgs /\ n \notin amnesia /\ (Len(seen) >= SeenMax => n # rows[Head(seen)])
      BY <1>e, <1>4
    <3>1. /\ n \in Elems(rows') => n \in recentCids'
          /\ \A x, r \in DOMAIN rows' : rows'[x] = n /\ rows'[r] = n => x = r
      BY <1>e, <3>0 DEF FiltersInv
    <3>2. CASE n = w
      <4>1. handed[n] = 0
        <5>1. SUFFICES ASSUME handed[n] > 0 PROVE FALSE
          BY <1>1, <3>0
        <5>2. PICK x \in DOMAIN rows : rows[x] = n /\ x \in Elems(seenQids[To[n]])
          BY <3>0, <5>1 DEF FiltersInv
        <5>3. x = q
          BY <1>2, <1>e, <2>a, <3>1, <3>2, <5>2
        <5> QED BY <1>2, <1>c, <1>d, <1>4, <2>a, <3>2, <5>2, <5>3
      <4>2. handed'[n] = 1
        <5>1. handed'[n] = handed[n] + 1
          BY <1>1, <2>2, <3>2
        <5> QED BY <4>1, <5>1
      <4>3. q \in Elems(seenQids'[To[n]])
        BY <1>1, <1>2, <2>1, <2>2, <2>a, <3>2
      <4> QED BY <1>2, <1>e, <2>a, <3>1, <3>2, <4>2, <4>3
    <3>3. CASE n # w
      <4>1. handed'[n] = handed[n]
        BY <1>1, <2>2, <3>3
      <4>2. handed'[n] <= 1
        BY <3>0, <4>1 DEF FiltersInv
      <4>3. ASSUME handed'[n] > 0
            PROVE  \E x \in DOMAIN rows' : rows'[x] = n /\ x \in Elems(seenQids'[To[n]])
        <5>1. PICK x \in DOMAIN rows : rows[x] = n /\ x \in Elems(seenQids[To[n]])
          BY <3>0, <4>1, <4>3 DEF FiltersInv
        <5>2. CASE To[n] = c
          <6>1. x \in Elems(added)
            BY <1>c, <2>1, <3>0, <5>1, <5>2
          <6>2. seenQids'[To[n]] = added
            BY <1>1, <2>2, <5>2
          <6> QED BY <1>e, <5>1, <6>1, <6>2
        <5>3. CASE To[n] # c
          <6>1. To[n] \in Clients
            BY EndpointsAssumption, <3>0
          <6>2. seenQids'[To[n]] = seenQids[To[n]]
            BY <1>1, <2>2, <5>3, <6>1
          <6> QED BY <1>e, <5>1, <6>2
        <5> QED BY <5>2, <5>3
      <4> QED BY <3>1, <4>2, <4>3
    <3> QED BY <3>2, <3>3
  <2> QED BY <2>3 DEF FiltersInv
<1> QED BY <1>3, <1>4

LEMMA KillFilters ==
  ASSUME Inv, FiltersInv, NEW c \in Clients, Kill(c) PROVE FiltersInv'
<1>1. /\ seenQids' = [seenQids EXCEPT ![c] = <<>>]
      /\ amnesia' = amnesia \cup {m \in Sent : To[m] = c}
      /\ UNCHANGED <<rows, recentCids, handed>>
  BY DEF Kill, relayVars
<1>2. seenQids \in [Clients -> Seq(Nat)]
  BY DEF Inv, TypeOK
<1>3. ASSUME NEW n \in Msgs \ amnesia', handed[n] > 0
      PROVE  \E x \in DOMAIN rows : rows[x] = n /\ x \in Elems(seenQids'[To[n]])
  <2>1. PICK x \in DOMAIN rows : rows[x] = n /\ x \in Elems(seenQids[To[n]])
    BY <1>1, <1>3 DEF FiltersInv
  <2>2. n \in Sent
    <3>1. n \in Elems(rows)
      BY <2>1 DEF Elems
    <3> QED BY <3>1 DEF Inv, MemoriesKnown
  <2>3. To[n] # c /\ To[n] \in Clients
    BY <1>1, <2>2, EndpointsAssumption
  <2>4. seenQids'[To[n]] = seenQids[To[n]]
    BY <1>1, <1>2, <2>3
  <2> QED BY <2>1, <2>4
<1> QED BY <1>1, <1>3 DEF FiltersInv

LEMMA NextFilters == Inv /\ FiltersInv /\ [Next]_vars => FiltersInv'
<1> SUFFICES ASSUME Inv, FiltersInv, [Next]_vars PROVE FiltersInv'
  OBVIOUS
<1>1. ASSUME NEW m \in Msgs, SendJson(m) \/ SendWire(m) \/ ForgetCid(m) PROVE FiltersInv'
  BY <1>1, QuietFilters DEF SendJson, SendWire, ForgetCid, relayVars, ghostVars, clientVars
<1>2. ASSUME NEW c \in Clients, Connect(c) \/ Kill(c) PROVE FiltersInv'
  <2>1. CASE Connect(c)
    BY <2>1, QuietFilters DEF Connect, relayVars, ghostVars
  <2> QED BY <1>2, <2>1, KillFilters
<1>3. ASSUME NEW s \in Sockets, ClientStep(s) PROVE FiltersInv'
  <2>1. ASSUME \/ OnOpen(s) \/ ResendUnacked(s) \/ AnswerChallenge(s)
               \/ OnFailure(s) \/ OnRelayRcvd(s)
        PROVE  FiltersInv'
    BY <2>1, QuietFilters
       DEF OnOpen, ResendUnacked, AnswerChallenge, OnFailure, OnRelayRcvd, relayVars, ghostVars
  <2> QED BY <1>3, <2>1, OnMsgFilters DEF ClientStep
<1>4. ASSUME NEW s \in Sockets, RelayStep(s) \/ LinkBreak(s) PROVE FiltersInv'
  <2>1. ASSUME RelayAuth(s) \/ RelayAck(s) \/ RelayClose(s) \/ LinkBreak(s)
        PROVE  FiltersInv'
    BY <2>1, QuietFilters
       DEF RelayAuth, RelayAck, RelayClose, LinkBreak, clientVars, relayVars, ghostVars
  <2> QED BY <1>4, <2>1, RelayMsgFilters DEF RelayStep
<1>5. ASSUME NEW q \in queue, ExpireRow(q) PROVE FiltersInv'
  BY <1>5, QuietFilters DEF ExpireRow, clientVars
<1>6. CASE RelayRestart
  <2>1. /\ amnesia' = amnesia \cup Sent /\ UNCHANGED <<rows, handed, seenQids>>
    BY <1>6 DEF RelayRestart, clientVars
  <2>2. recentCids \subseteq Sent
    BY DEF Inv, MemoriesKnown
  <2> QED BY <2>1, <2>2, QuietFilters
<1>7. CASE UNCHANGED vars
  BY <1>7, QuietFilters DEF vars, clientVars, relayVars, ghostVars
<1> QED BY <1>1, <1>2, <1>3, <1>4, <1>5, <1>6, <1>7 DEF Next

\* The relay's recentCids and the client's seenQids together: an envelope
\* that neither of them has forgotten is handed to the lane at most once, over
\* any number of resends, reconnections and replays of the queue.
THEOREM AtMostOnce == Spec => []HandedAtMostOnce
<1>1. Init => FiltersInv
  BY ElemsEmpty DEF Init, FiltersInv
<1>2. FiltersInv => HandedAtMostOnce
  BY DEF FiltersInv, HandedAtMostOnce
<1> QED BY <1>1, <1>2, NextFilters, Invariance, PTL DEF Spec

-----------------------------------------------------------------------------
(* The refinement of Custody.  It needs two facts more: unacked holds a    *)
(* client's own envelopes, and what was handed had been stored.            *)

CustodyInv ==
  /\ \A c \in Clients : \A m \in unacked[c] : From[m] = c
  /\ \A m \in Msgs : handed[m] > 0 => m \in Elems(rows)

Held == {m \in Msgs : m \in unacked[From[m]]}
Queued == {rows[q] : q \in queue}
HandedOver == {m \in Msgs : handed[m] > 0}

\* The custody an action can change, in the terms of Custody.
CustodyVars == <<unacked, rows, queue, handed, abandoned, expired>>

LEMMA QuietCustody ==
  ASSUME CustodyInv, UNCHANGED CustodyVars
  PROVE  CustodyInv' /\ UNCHANGED C!vars
BY DEF CustodyInv, CustodyVars, C!vars

LEMMA SendJsonCustody ==
  ASSUME Inv, CustodyInv, NEW m \in Msgs, SendJson(m)
  PROVE  CustodyInv' /\ C!Next
<1>a. PICK c \in Clients : c = From[m]
  BY EndpointsAssumption
<1>b. PICK E : E = Evicted(c)
  OBVIOUS
<1>1. /\ stamp[m] = 0
      /\ unacked' = [unacked EXCEPT ![c] = (@ \ E) \cup {m}]
      /\ abandoned' = abandoned \cup E
      /\ UNCHANGED <<rows, queue, handed, expired>>
  BY <1>a, <1>b DEF SendJson, relayVars
<1>2. E \subseteq unacked[c]
  BY <1>b DEF Evicted
<1>3. /\ unacked \in [Clients -> SUBSET Msgs]
      /\ \A d \in Clients : unacked[d] \subseteq Sent
      /\ Elems(rows) \subseteq Sent /\ m \notin Sent
  BY <1>1 DEF Inv, TypeOK, MemoriesKnown, Sent
<1>4. \A d \in Clients : \A n \in Msgs :
        n \in unacked'[d] <=> IF d = c THEN n \in (unacked[d] \ E) \cup {m}
                                       ELSE n \in unacked[d]
  BY <1>1, <1>3
<1>5. CustodyInv'
  <2>1. \A d \in Clients : unacked'[d] \subseteq Msgs
    BY <1>1, <1>3
  <2>2. \A d \in Clients : \A n \in unacked'[d] : From[n] = d
    BY <1>a, <1>4, <2>1 DEF CustodyInv
  <2> QED BY <1>1, <2>2 DEF CustodyInv
<1>6. Held' = (Held \ E) \cup {m}
  <2>1. \A n \in Msgs : From[n] \in Clients
    BY EndpointsAssumption
  <2>2. \A n \in E : From[n] = c
    BY <1>2 DEF CustodyInv
  <2>3. \A n \in Msgs : n \in unacked'[From[n]] <=> (n \in unacked[From[n]] /\ n \notin E) \/ n = m
    BY <1>a, <1>4, <2>1, <2>2
  <2> QED BY <2>3 DEF Held
<1>7. E \subseteq Held
  <2>1. \A n \in E : n \in Msgs /\ From[n] = c
    BY <1>2, <1>3 DEF CustodyInv
  <2> QED BY <1>2, <2>1 DEF Held
<1>8. m \notin Held \cup Elems(rows) \cup HandedOver
  <2>1. m \notin Held
    BY <1>3, EndpointsAssumption DEF Held
  <2>2. m \notin HandedOver
    BY <1>3 DEF HandedOver, CustodyInv
  <2> QED BY <1>3, <2>1, <2>2
<1>9. C!Submit(m, E)
  <2>1. UNCHANGED <<Elems(rows), Queued, HandedOver>>
    BY <1>1 DEF Queued, HandedOver, Elems
  <2>2. (abandoned \cup expired)' = (abandoned \cup expired) \cup E
    BY <1>1
  <2> QED BY <1>6, <1>7, <1>8, <2>1, <2>2 DEF C!Submit, Held, Queued, HandedOver
<1>10. E \in SUBSET Held
  BY <1>7
<1> QED BY <1>5, <1>9, <1>10 DEF C!Next, Held

LEMMA OnRelayRcvdCustody ==
  ASSUME Inv, CustodyInv, NEW s \in Sockets, OnRelayRcvd(s)
  PROVE  CustodyInv' /\ [C!Next]_(C!vars)
<1>a. PICK c \in Clients : c = Owner(s)
  BY DEF Sockets, Owner
<1>b. PICK m : m = Head(down[s]).msg
  OBVIOUS
<1>1. /\ Reads(s, "relay_rcvd")
      /\ unacked' = [unacked EXCEPT ![c] = @ \ {m}]
      /\ UNCHANGED <<rows, queue, handed, abandoned, expired>>
  BY <1>a, <1>b DEF OnRelayRcvd, relayVars, ghostVars
<1>2. m \in Elems(rows) /\ m \in Msgs
  <2>1. m \in Elems(rows)
    BY <1>1, <1>b, ReadsLemma DEF DownOK
  <2> QED BY <2>1 DEF Inv, TypeOK, Elems
<1>3. unacked \in [Clients -> SUBSET Msgs]
  BY DEF Inv, TypeOK
<1>4. \A d \in Clients : \A n : n \in unacked'[d] <=> n \in unacked[d] /\ ~(d = c /\ n = m)
  BY <1>1, <1>3
<1>5. CustodyInv'
  BY <1>1, <1>4 DEF CustodyInv
<1>6. UNCHANGED <<Elems(rows), Queued, HandedOver, abandoned \cup expired>>
  BY <1>1 DEF Queued, HandedOver, Elems
<1>7. CASE From[m] = c
  <2>1. Held' = Held \ {m}
    BY <1>4, <1>7, EndpointsAssumption DEF Held
  <2>2. C!Confirm(m)
    BY <1>2, <1>6, <2>1 DEF C!Confirm, Held, Queued, HandedOver
  <2> QED BY <1>2, <1>5, <2>2 DEF C!Next
<1>8. CASE From[m] # c
  <2>1. Held' = Held
    BY <1>4, <1>8, EndpointsAssumption DEF Held
  <2>2. UNCHANGED C!vars
    BY <1>6, <2>1 DEF C!vars, Held, Queued, HandedOver
  <2> QED BY <1>5, <2>2
<1> QED BY <1>7, <1>8

LEMMA OnMsgCustody ==
  ASSUME Inv, CustodyInv, NEW s \in Sockets, OnMsg(s)
  PROVE  CustodyInv' /\ [C!Next]_(C!vars)
<1>a. PICK q : q = Head(down[s]).qid
  OBVIOUS
<1>1. /\ Reads(s, "msg")
      /\ handed' = handed \/ handed' = [handed EXCEPT ![rows[q]] = @ + 1]
      /\ UNCHANGED <<unacked, rows, queue, abandoned, expired>>
  BY <1>a DEF OnMsg, relayVars
<1>2. CASE handed' = handed
  BY <1>1, <1>2, QuietCustody DEF CustodyVars
<1>3. CASE handed' = [handed EXCEPT ![rows[q]] = @ + 1]
  <2>1. PICK m : m = rows[q]
    OBVIOUS
  <2>2. m \in Elems(rows) /\ m \in Msgs
    <3>1. q \in DOMAIN rows
      BY <1>1, <1>a, ReadsLemma DEF DownOK
    <3> QED BY <2>1, <3>1 DEF Inv, TypeOK, Elems
  <2>3. handed \in [Msgs -> Nat] /\ handed' = [handed EXCEPT ![m] = @ + 1]
    BY <1>3, <2>1 DEF Inv, TypeOK
  <2>4. \A n \in Msgs : handed'[n] > 0 <=> handed[n] > 0 \/ n = m
    BY <2>2, <2>3
  <2>5. CustodyInv'
    BY <1>1, <2>2, <2>4 DEF CustodyInv
  <2>6. HandedOver' = HandedOver \cup {m}
    BY <2>2, <2>4 DEF HandedOver
  <2>7. UNCHANGED <<Held, Elems(rows), Queued, abandoned \cup expired>>
    BY <1>1 DEF Held, Queued, Elems
  <2>8. C!Hand(m)
    BY <2>2, <2>6, <2>7 DEF C!Hand, Held, Queued, HandedOver
  <2> QED BY <2>2, <2>5, <2>8 DEF C!Next
<1> QED BY <1>1, <1>2, <1>3

LEMMA RelayMsgCustody ==
  ASSUME Inv, CustodyInv, NEW s \in Sockets, RelayMsg(s)
  PROVE  CustodyInv' /\ [C!Next]_(C!vars)
<1>a. PICK m : m = Head(up[s]).msg
  OBVIOUS
<1>b. PICK q : q = Len(rows) + 1
  OBVIOUS
<1>1. /\ Receives(s, "msg") /\ up' = Popped(s)
      /\ \/ rows' = rows /\ queue' = queue
         \/ rows' = Append(rows, m) /\ queue' = queue \cup {q}
      /\ UNCHANGED <<unacked, handed, abandoned, expired>>
  BY <1>a, <1>b DEF RelayMsg, NextRowId, clientVars, ghostVars
<1>2. CASE rows' = rows /\ queue' = queue
  BY <1>1, <1>2, QuietCustody DEF CustodyVars
<1>3. CASE rows' = Append(rows, m) /\ queue' = queue \cup {q}
  <2>1. m \in Sent /\ m \in Msgs
    BY <1>1, <1>a, ReceivesLemma DEF UpOK, Sent
  <2>2. m \in Held \cup Elems(rows) \cup (abandoned \cup expired)
    BY <2>1 DEF Inv, SenderKeepsUntilStored, Held
  <2>3. rows \in Seq(Msgs) /\ queue \subseteq 1..Len(rows)
    BY DEF Inv, TypeOK
  <2>4. Elems(rows') = Elems(rows) \cup {m}
    BY <1>3, <2>1, <2>3, ElemsAppend
  <2>5. Queued' = Queued \cup {m}
    <3>1. rows'[q] = m /\ \A r \in queue : rows'[r] = rows[r]
      BY <1>3, <1>b, <2>1, <2>3
    <3> QED BY <1>3, <3>1 DEF Queued
  <2>6. CustodyInv'
    BY <1>1, <2>4 DEF CustodyInv
  <2>7. UNCHANGED <<Held, HandedOver, abandoned \cup expired>>
    BY <1>1 DEF Held, HandedOver
  <2>8. C!Store(m)
    BY <2>2, <2>4, <2>5, <2>7 DEF C!Store, Held, Queued, HandedOver
  <2> QED BY <2>1, <2>6, <2>8 DEF C!Next
<1> QED BY <1>1, <1>2, <1>3

\* One row fewer: another row of the same envelope may remain.
LEMMA RowLeaves ==
  ASSUME NEW q \in queue, queue' = queue \ {q}, rows' = rows
  PROVE  rows[q] \in Queued /\ Queued' \in {Queued, Queued \ {rows[q]}}
<1>1. CASE \E r \in queue' : rows[r] = rows[q]
  <2>1. Queued' = Queued
    BY <1>1 DEF Queued
  <2> QED BY <2>1 DEF Queued
<1>2. CASE ~\E r \in queue' : rows[r] = rows[q]
  <2>1. Queued' = Queued \ {rows[q]}
    BY <1>2 DEF Queued
  <2> QED BY <2>1 DEF Queued
<1> QED BY <1>1, <1>2

LEMMA RelayAckCustody ==
  ASSUME Inv, CustodyInv, NEW s \in Sockets, RelayAck(s)
  PROVE  CustodyInv' /\ [C!Next]_(C!vars)
<1>a. PICK q : q = Head(up[s]).qid
  OBVIOUS
<1>1. /\ Receives(s, "relay_ack") /\ up' = Popped(s)
      /\ queue' = queue \/ (q \in queue /\ queue' = queue \ {q})
      /\ UNCHANGED <<unacked, rows, handed, abandoned, expired>>
  BY <1>a DEF RelayAck, clientVars, ghostVars
<1>2. CASE queue' = queue
  BY <1>1, <1>2, QuietCustody DEF CustodyVars
<1>3. CASE q \in queue /\ queue' = queue \ {q}
  <2>1. PICK m : m = rows[q]
    OBVIOUS
  <2>2. m \in Msgs /\ handed[m] > 0
    <3>1. q \in DOMAIN rows /\ handed[rows[q]] > 0
      BY <1>1, <1>a, ReceivesLemma DEF UpOK
    <3> QED BY <2>1, <3>1 DEF Inv, TypeOK
  <2>3. m \in HandedOver
    BY <2>2 DEF HandedOver
  <2>4. m \in Queued /\ Queued' \in {Queued, Queued \ {m}}
    BY <1>1, <1>3, <2>1, RowLeaves
  <2>5. UNCHANGED <<Held, Elems(rows), HandedOver, abandoned \cup expired>>
    BY <1>1 DEF Held, HandedOver, Elems
  <2>6. CustodyInv'
    BY <1>1 DEF CustodyInv
  <2>7. CASE Queued' = Queued
    <3>1. UNCHANGED C!vars
      BY <2>5, <2>7 DEF C!vars, Held, Queued, HandedOver
    <3> QED BY <2>6, <3>1
  <2>8. CASE Queued' = Queued \ {m}
    <3>1. C!Release(m)
      BY <2>3, <2>4, <2>5, <2>8 DEF C!Release, Held, Queued, HandedOver
    <3> QED BY <2>2, <2>6, <3>1 DEF C!Next
  <2> QED BY <2>4, <2>7, <2>8
<1> QED BY <1>1, <1>2, <1>3

LEMMA KillCustody ==
  ASSUME Inv, CustodyInv, NEW c \in Clients, Kill(c)
  PROVE  CustodyInv' /\ C!Next
<1>a. PICK G : G = unacked[c]
  OBVIOUS
<1>1. /\ unacked' = [unacked EXCEPT ![c] = {}]
      /\ abandoned' = abandoned \cup G
      /\ UNCHANGED <<rows, queue, handed, expired>>
  BY <1>a DEF Kill, relayVars
<1>2. unacked \in [Clients -> SUBSET Msgs]
  BY DEF Inv, TypeOK
<1>3. \A d \in Clients : \A n : n \in unacked'[d] <=> d # c /\ n \in unacked[d]
  BY <1>1, <1>2
<1>4. CustodyInv'
  BY <1>1, <1>3 DEF CustodyInv
<1>5. \A n \in G : n \in Msgs /\ From[n] = c
  BY <1>a, <1>2 DEF CustodyInv
<1>6. G \subseteq Held
  BY <1>a, <1>5 DEF Held
<1>7. Held' = Held \ G
  <2>1. \A n \in Msgs : n \in G <=> From[n] = c /\ n \in unacked[From[n]]
    BY <1>a, <1>5
  <2>2. \A n \in Msgs : n \in unacked'[From[n]] <=> n \in unacked[From[n]] /\ n \notin G
    BY <1>3, <2>1, EndpointsAssumption
  <2> QED BY <2>2 DEF Held
<1>8. UNCHANGED <<Elems(rows), Queued, HandedOver>>
  BY <1>1 DEF Queued, HandedOver, Elems
<1>9. (abandoned \cup expired)' = (abandoned \cup expired) \cup G
  BY <1>1
<1>10. C!ForfeitAtSender(G)
  BY <1>6, <1>7, <1>8, <1>9 DEF C!ForfeitAtSender, Held, Queued, HandedOver
<1>11. G \in SUBSET Held
  BY <1>6
<1> QED BY <1>4, <1>10, <1>11 DEF C!Next, Held

LEMMA ExpireRowCustody ==
  ASSUME Inv, CustodyInv, NEW q \in queue, ExpireRow(q)
  PROVE  CustodyInv' /\ C!Next
<1>a. PICK m : m = rows[q]
  OBVIOUS
<1>1. /\ queue' = queue \ {q} /\ expired' = expired \cup {m}
      /\ UNCHANGED <<unacked, rows, handed, abandoned>>
  BY <1>a DEF ExpireRow, clientVars
<1>2. m \in Msgs
  BY <1>a, QueueFinite DEF Inv, TypeOK
<1>3. m \in Queued /\ Queued' \in {Queued, Queued \ {m}}
  BY <1>1, <1>a, RowLeaves
<1>4. UNCHANGED <<Held, Elems(rows), HandedOver>>
  BY <1>1 DEF Held, HandedOver, Elems
<1>5. (abandoned \cup expired)' = (abandoned \cup expired) \cup {m}
  BY <1>1
<1>6. C!ForfeitAtRelay(m)
  BY <1>3, <1>4, <1>5 DEF C!ForfeitAtRelay, Held, Queued, HandedOver
<1>7. CustodyInv'
  BY <1>1 DEF CustodyInv
<1> QED BY <1>2, <1>6, <1>7 DEF C!Next

LEMMA NextCustody ==
  ASSUME Inv, CustodyInv, [Next]_vars PROVE CustodyInv' /\ [C!Next]_(C!vars)
<1> USE DEF CustodyVars, clientVars, socketVars, relayVars, ghostVars
<1>1. ASSUME NEW m \in Msgs, SendJson(m) \/ SendWire(m) \/ ForgetCid(m)
      PROVE  CustodyInv' /\ [C!Next]_(C!vars)
  <2>1. CASE SendWire(m) \/ ForgetCid(m)
    BY <2>1, QuietCustody DEF SendWire, ForgetCid
  <2> QED BY <1>1, <2>1, SendJsonCustody
<1>2. ASSUME NEW c \in Clients, Connect(c) \/ Kill(c)
      PROVE  CustodyInv' /\ [C!Next]_(C!vars)
  <2>1. CASE Connect(c)
    BY <2>1, QuietCustody DEF Connect
  <2> QED BY <1>2, <2>1, KillCustody
<1>3. ASSUME NEW s \in Sockets, ClientStep(s)
      PROVE  CustodyInv' /\ [C!Next]_(C!vars)
  <2>1. CASE OnOpen(s) \/ ResendUnacked(s) \/ AnswerChallenge(s) \/ OnFailure(s)
    BY <2>1, QuietCustody DEF OnOpen, ResendUnacked, AnswerChallenge, OnFailure
  <2> QED BY <1>3, <2>1, OnRelayRcvdCustody, OnMsgCustody DEF ClientStep
<1>4. ASSUME NEW s \in Sockets, RelayStep(s) \/ LinkBreak(s)
      PROVE  CustodyInv' /\ [C!Next]_(C!vars)
  <2>1. CASE RelayAuth(s) \/ RelayClose(s) \/ LinkBreak(s)
    BY <2>1, QuietCustody DEF RelayAuth, RelayClose, LinkBreak
  <2> QED BY <1>4, <2>1, RelayMsgCustody, RelayAckCustody DEF RelayStep
<1>5. ASSUME NEW q \in queue, ExpireRow(q) PROVE CustodyInv' /\ [C!Next]_(C!vars)
  BY <1>5, ExpireRowCustody
<1>6. CASE RelayRestart
  BY <1>6, QuietCustody DEF RelayRestart
<1>7. CASE UNCHANGED vars
  BY <1>7, QuietCustody DEF vars
<1> QED BY <1>1, <1>2, <1>3, <1>4, <1>5, <1>6, <1>7 DEF Next

\* The two acknowledgements (relay_rcvd of server.js, relay_ack of
\* onMessage) implement the custody protocol: a party drops an envelope only
\* after the next one has it, over any number of sockets, kills and restarts.
THEOREM ImplementsCustody == Spec => CustodySpec
<1>1. Init => CustodyInv /\ C!Init
  <2> SUFFICES ASSUME Init PROVE CustodyInv /\ C!Init
    OBVIOUS
  <2>1. unacked = [c \in Clients |-> {}] /\ handed = [m \in Msgs |-> 0] /\ queue = {}
        /\ abandoned = {} /\ expired = {}
    BY DEF Init
  <2>2. Elems(rows) = {}
    BY ElemsEmpty DEF Init
  <2>3. CustodyInv
    BY <2>1 DEF CustodyInv
  <2>4. Held = {} /\ Queued = {} /\ HandedOver = {} /\ abandoned \cup expired = {}
    BY <2>1, EndpointsAssumption DEF Held, Queued, HandedOver
  <2> QED BY <2>2, <2>3, <2>4 DEF C!Init, Held, Queued, HandedOver
<1>2. Inv /\ CustodyInv /\ [Next]_vars => CustodyInv' /\ [C!Next]_(C!vars)
  BY NextCustody
<1> QED BY <1>1, <1>2, Invariance, PTL DEF Spec, CustodySpec, C!Spec
-----------------------------------------------------------------------------
(* Delivery strands nothing: what a working connection has not settled     *)
(* yet, some frame or some thread is about to settle.                      *)

(* The socket that carries frames is the last one made: only it can be     *)
(* connecting or open, and only such a socket is wired; the relay knows    *)
(* only sockets that were made.                                            *)

SocksInv ==
  /\ \A s \in Sockets :
       /\ wire[s] => sock[s] \in {"connecting", "open"}
       /\ sock[s] \in {"connecting", "open"} => s[2] = ws[s[1]]
       /\ s \in clients => sock[s] # "none"
       /\ s[2] > ws[s[1]] => sock[s] = "none"
  /\ \A c \in Clients : isConnected[c] => ws[c] > 0

LEMMA SocketShape ==
  /\ \A s \in Sockets : /\ s = <<s[1], s[2]>> /\ s[1] \in Clients
                        /\ s[2] \in Nat /\ s[2] > 0 /\ s[2] <= MaxGen[s[1]]
  /\ \A c \in Clients, k \in Nat : k > 0 /\ k <= MaxGen[c] => <<c, k>> \in Sockets
<1>1. ASSUME NEW s \in Sockets
      PROVE /\ s = <<s[1], s[2]>> /\ s[1] \in Clients
            /\ s[2] \in Nat /\ s[2] > 0 /\ s[2] <= MaxGen[s[1]]
  <2>1. PICK c \in Clients : s \in {c} \X (1..MaxGen[c])
    BY DEF Sockets
  <2>2. MaxGen[c] \in Nat
    BY LimitsAssumption
  <2> QED BY <2>1, <2>2
<1>2. ASSUME NEW c \in Clients, NEW k \in Nat, k > 0 /\ k <= MaxGen[c]
      PROVE <<c, k>> \in Sockets
  <2>1. MaxGen[c] \in Nat
    BY LimitsAssumption
  <2>2. <<c, k>> \in {c} \X (1..MaxGen[c])
    BY <1>2, <2>1
  <2> QED BY <2>2 DEF Sockets
<1> QED BY <1>1, <1>2

LEMMA SocksQuiet ==
  ASSUME SocksInv, UNCHANGED <<ws, isConnected, sock, wire, clients>>
  PROVE  SocksInv'
BY DEF SocksInv

LEMMA ConnectSocks ==
  ASSUME Inv, SocksInv, NEW c \in Clients, Connect(c) PROVE SocksInv'
<1>1. /\ ws \in [Clients -> Nat] /\ ws' = [ws EXCEPT ![c] = @ + 1]
      /\ \A d \in Clients : ws[d] \in Nat
  BY DEF Inv, TypeOK, Connect
<1>2. PICK new : new = <<c, ws[c] + 1>>
  OBVIOUS
<1>3. PICK old : old = <<c, ws[c]>>
  OBVIOUS
<1>4. /\ sock' = [s \in Sockets |->
            IF s = new THEN "connecting"
            ELSE IF s = old /\ sock[s] \in {"connecting", "open"} THEN "cancelled"
            ELSE sock[s]]
      /\ wire' = [s \in Sockets |-> IF s = new THEN TRUE
                                    ELSE IF s = old THEN FALSE ELSE wire[s]]
      /\ UNCHANGED <<isConnected, clients>> /\ ~isConnected[c]
  BY <1>2, <1>3 DEF Connect, Current, relayVars
<1>5. ASSUME NEW s \in Sockets
      PROVE  /\ wire'[s] => sock'[s] \in {"connecting", "open"}
             /\ sock'[s] \in {"connecting", "open"} => s[2] = ws'[s[1]]
             /\ s \in clients => sock'[s] # "none"
             /\ s[2] > ws'[s[1]] => sock'[s] = "none"
  <2>1. s = <<s[1], s[2]>> /\ s[1] \in Clients /\ s[2] \in Nat
    BY SocketShape
  <2>2. /\ wire[s] => sock[s] \in {"connecting", "open"}
        /\ sock[s] \in {"connecting", "open"} => s[2] = ws[s[1]]
        /\ s \in clients => sock[s] # "none"
        /\ s[2] > ws[s[1]] => sock[s] = "none"
    BY DEF SocksInv
  <2>3. CASE s = new
    <3>1. s[1] = c /\ s[2] = ws[c] + 1
      BY <1>2, <2>3
    <3> QED BY <1>1, <1>4, <2>3, <3>1
  <2>4. CASE s # new /\ s = old
    <3>1. s[1] = c /\ s[2] = ws[c]
      BY <1>3, <2>4
    <3>2. ws'[c] = ws[c] + 1 /\ ~(s[2] > ws'[s[1]])
      BY <1>1, <3>1
    <3>3. ~wire'[s] /\ sock'[s] = IF sock[s] \in {"connecting", "open"} THEN "cancelled" ELSE sock[s]
      BY <1>4, <2>4
    <3> QED BY <1>4, <2>2, <3>2, <3>3
  <2>5. CASE s # new /\ s # old
    <3>1. sock'[s] = sock[s] /\ wire'[s] = wire[s]
      BY <1>4, <2>5
    <3>2. sock[s] \in {"connecting", "open"} => s[2] = ws'[s[1]]
      <4>1. CASE s[1] = c
        <5>1. s[2] # ws[c]
          BY <1>3, <2>1, <2>5, <4>1
        <5> QED BY <2>2, <4>1, <5>1
      <4>2. CASE s[1] # c
        BY <1>1, <2>1, <2>2, <4>2
      <4> QED BY <4>1, <4>2
    <3>3. s[2] > ws'[s[1]] => s[2] > ws[s[1]]
      <4>1. ws'[s[1]] = ws[s[1]] \/ ws'[s[1]] = ws[s[1]] + 1
        BY <1>1, <2>1
      <4>2. ws[s[1]] \in Nat
        BY <1>1, <2>1
      <4> QED BY <2>1, <4>1, <4>2
    <3> QED BY <1>4, <2>2, <3>1, <3>2, <3>3
  <2> QED BY <2>3, <2>4, <2>5
<1>6. \A d \in Clients : isConnected'[d] => ws'[d] > 0
  BY <1>1, <1>4 DEF SocksInv
<1> QED BY <1>4, <1>5, <1>6 DEF SocksInv

LEMMA OtherSocks ==
  ASSUME Inv, SocksInv,
         \/ \E s \in Sockets : OnOpen(s) \/ OnFailure(s) \/ RelayClose(s) \/ LinkBreak(s)
         \/ (\E c \in Clients : Kill(c)) \/ RelayRestart
  PROVE  SocksInv'
<1>t. /\ sock \in [Sockets -> {"none", "connecting", "open", "cancelled", "closed"}]
      /\ wire \in [Sockets -> BOOLEAN] /\ isConnected \in [Clients -> BOOLEAN]
      /\ ws \in [Clients -> Nat] /\ clients \subseteq Sockets
  BY DEF Inv, TypeOK
<1>o. \A s \in Sockets : s[1] \in Clients /\ s[2] \in Nat /\ s[2] > 0 /\ Owner(s) = s[1]
  BY SocketShape DEF Owner
<1>1. ASSUME NEW s \in Sockets, OnOpen(s) PROVE SocksInv'
  <2>1. /\ sock' = [sock EXCEPT ![s] = "open"] /\ sock[s] = "connecting"
        /\ isConnected' = [isConnected EXCEPT ![s[1]] = TRUE]
        /\ clients' = clients \cup {s} /\ UNCHANGED <<ws, wire>>
    BY <1>1 DEF OnOpen, Owner
  <2>2. s[2] = ws[s[1]]
    BY <2>1 DEF SocksInv
  <2>3. \A r \in Sockets : sock'[r] = IF r = s THEN "open" ELSE sock[r]
    BY <1>t, <2>1
  <2>4. ASSUME NEW r \in Sockets
        PROVE  /\ wire'[r] => sock'[r] \in {"connecting", "open"}
               /\ sock'[r] \in {"connecting", "open"} => r[2] = ws'[r[1]]
               /\ r \in clients' => sock'[r] # "none"
               /\ r[2] > ws'[r[1]] => sock'[r] = "none"
    <3>1. CASE r = s
      BY <1>o, <2>1, <2>2, <2>3, <3>1
    <3>2. CASE r # s
      BY <2>1, <2>3, <3>2 DEF SocksInv
    <3> QED BY <3>1, <3>2
  <2>5. \A c \in Clients : isConnected'[c] => ws'[c] > 0
    BY <1>o, <1>t, <2>1, <2>2 DEF SocksInv
  <2> QED BY <2>4, <2>5 DEF SocksInv
<1>2. ASSUME NEW s \in Sockets, OnFailure(s) PROVE SocksInv'
  <2>1. /\ sock' = [sock EXCEPT ![s] = "closed"]
        /\ sock[s] = "cancelled" \/ (sock[s] \in {"connecting", "open"} /\ ~wire[s])
        /\ isConnected' = [isConnected EXCEPT ![s[1]] = FALSE]
        /\ UNCHANGED <<ws, wire, clients>>
    BY <1>2 DEF OnFailure, relayVars, Owner
  <2>2. ~wire[s] /\ sock[s] # "none"
    BY <2>1 DEF SocksInv
  <2>3. \A r \in Sockets : sock'[r] = IF r = s THEN "closed" ELSE sock[r]
    BY <1>t, <2>1
  <2>4. \A c \in Clients : isConnected'[c] => isConnected[c]
    BY <1>t, <2>1
  <2> QED BY <2>1, <2>2, <2>3, <2>4 DEF SocksInv
<1>3. ASSUME NEW s \in Sockets, RelayClose(s) PROVE SocksInv'
  <2>1. clients' \subseteq clients /\ UNCHANGED <<ws, isConnected, sock, wire>>
    BY <1>3 DEF RelayClose, clientVars
  <2> QED BY <2>1 DEF SocksInv
<1>4. ASSUME NEW s \in Sockets, LinkBreak(s) PROVE SocksInv'
  <2>1. wire' = [wire EXCEPT ![s] = FALSE] /\ UNCHANGED <<ws, isConnected, sock, clients>>
    BY <1>4 DEF LinkBreak, clientVars, relayVars
  <2>2. \A r \in Sockets : wire'[r] => wire[r]
    BY <1>t, <2>1
  <2> QED BY <2>1, <2>2 DEF SocksInv
<1>5. CASE \E c \in Clients : Kill(c)
  <2>1. PICK c \in Clients : Kill(c)
    BY <1>5
  <2>2. /\ isConnected' = [isConnected EXCEPT ![c] = FALSE]
        /\ \A r \in Sockets : /\ wire'[r] => wire[r] /\ Owner(r) # c
                              /\ sock'[r] = IF Owner(r) = c /\ sock[r] # "none"
                                            THEN "closed" ELSE sock[r]
        /\ UNCHANGED <<ws, clients>>
    BY <1>t, <2>1 DEF Kill, relayVars
  <2>3. \A d \in Clients : isConnected'[d] => isConnected[d]
    BY <1>t, <2>2
  <2>4. \A r \in Sockets : /\ wire'[r] => sock'[r] = sock[r]
                           /\ sock'[r] = sock[r] \/ (sock'[r] = "closed" /\ sock[r] # "none")
    BY <2>2
  <2> QED BY <2>2, <2>3, <2>4 DEF SocksInv
<1>6. CASE RelayRestart
  <2>1. /\ clients' = {} /\ UNCHANGED <<ws, isConnected, sock>>
        /\ \A r \in Sockets : wire'[r] => wire[r]
    BY <1>6, <1>t DEF RelayRestart, clientVars
  <2> QED BY <2>1 DEF SocksInv
<1> QED BY <1>1, <1>2, <1>3, <1>4, <1>5, <1>6

-----------------------------------------------------------------------------
\* What Put and a read leave in place.
LEMMA PutKeeps ==
  ASSUME NEW S, NEW chan \in [Sockets -> Seq(S)], NEW s \in Sockets,
         NEW frames \in Seq(S)
  PROVE  /\ \A r \in Sockets : Elems(chan[r]) \subseteq Elems(Put(chan, s, frames)[r])
         /\ wire[s] => Elems(frames) \subseteq Elems(Put(chan, s, frames)[s])
<1>1. CASE wire[s]
  <2>1. Put(chan, s, frames) = [chan EXCEPT ![s] = @ \o frames]
    BY <1>1 DEF Put
  <2>2. Elems(chan[s] \o frames) = Elems(chan[s]) \cup Elems(frames)
    BY ElemsConcat
  <2> QED BY <2>1, <2>2
<1>2. CASE ~wire[s]
  BY <1>2 DEF Put
<1> QED BY <1>1, <1>2

LEMMA TailKeeps ==
  ASSUME NEW S, NEW seq \in Seq(S), seq # <<>>, NEW f \in Elems(seq)
  PROVE  f = Head(seq) \/ f \in Elems(Tail(seq))
<1>1. PICK i \in 1..Len(seq) : f = seq[i]
  BY DEF Elems
<1>2. CASE i = 1
  BY <1>1, <1>2
<1>3. CASE i # 1
  <2>1. i - 1 \in 1..Len(Tail(seq)) /\ Tail(seq)[i - 1] = seq[i]
    BY <1>1, <1>3
  <2>2. i - 1 \in DOMAIN Tail(seq)
    BY <2>1
  <2> QED BY <1>1, <2>1, <2>2 DEF Elems
<1> QED BY <1>2, <1>3

LEMMA PopKeeps ==
  ASSUME NEW S, NEW chan \in [Sockets -> Seq(S)], NEW s \in Sockets,
         chan[s] # <<>>
  PROVE  \A r \in Sockets : \A f \in Elems(chan[r]) :
           f \in Elems([chan EXCEPT ![s] = Tail(@)][r]) \/ (r = s /\ f = Head(chan[s]))
<1> SUFFICES ASSUME NEW r \in Sockets, NEW f \in Elems(chan[r])
             PROVE  f \in Elems([chan EXCEPT ![s] = Tail(@)][r]) \/ (r = s /\ f = Head(chan[s]))
  OBVIOUS
<1>1. CASE r # s
  BY <1>1
<1>2. CASE r = s
  <2>1. f = Head(chan[s]) \/ f \in Elems(Tail(chan[s]))
    BY <1>2, TailKeeps
  <2> QED BY <1>2, <2>1
<1> QED BY <1>1, <1>2

LEMMA ReadsKeeps ==
  ASSUME Inv, NEW s \in Sockets, NEW type, Reads(s, type)
  PROVE  /\ \A r \in Sockets : \A f \in Elems(down[r]) :
              f \in Elems(down'[r]) \/ (r = s /\ f = Head(down[s]))
         /\ Head(down[s]).type = type
BY PopKeeps DEF Inv, TypeOK, Reads

LEMMA ReceivesKeeps ==
  ASSUME Inv, NEW s \in Sockets, NEW type, Receives(s, type), up' = Popped(s)
  PROVE  /\ \A r \in Sockets : \A f \in Elems(up[r]) :
              f \in Elems(up'[r]) \/ (r = s /\ f = Head(up[s]))
         /\ Head(up[s]).type = type
<1>1. PICK S : S = UpFrames
  OBVIOUS
<1>2. up \in [Sockets -> Seq(S)] /\ up[s] # <<>> /\ up' = [up EXCEPT ![s] = Tail(@)]
  BY <1>1 DEF Inv, TypeOK, Receives, Popped
<1>3. \A r \in Sockets : \A f \in Elems(up[r]) :
        f \in Elems([up EXCEPT ![s] = Tail(@)][r]) \/ (r = s /\ f = Head(up[s]))
  BY <1>2, PopKeeps
<1> QED BY <1>2, <1>3 DEF Receives

-----------------------------------------------------------------------------
\* Most actions only add frames to the sockets that still carry any.
FramesGrow ==
  \A r \in Sockets : wire'[r] => /\ Elems(up[r]) \subseteq Elems(up'[r])
                                 /\ Elems(down[r]) \subseteq Elems(down'[r])

LEMMA PutGrows ==
  ASSUME TypeOK, NEW s \in Sockets, NEW frames \in Seq(UpFrames),
         up' = Put(up, s, frames), down' = down
  PROVE  FramesGrow /\ (wire[s] => Elems(frames) \subseteq Elems(up'[s]))
<1>1. PICK S : S = UpFrames
  OBVIOUS
<1>2. up \in [Sockets -> Seq(S)] /\ frames \in Seq(S)
  BY <1>1 DEF TypeOK
<1>3. /\ \A r \in Sockets : Elems(up[r]) \subseteq Elems(up'[r])
      /\ wire[s] => Elems(frames) \subseteq Elems(up'[s])
  BY <1>2, PutKeeps
<1> QED BY <1>3 DEF FramesGrow

\* The snapshot that resendUnacked sends holds every unconfirmed envelope.
LEMMA ResendGrows ==
  ASSUME Inv, NEW s \in Sockets, ResendUnacked(s)
  PROVE  /\ FramesGrow
         /\ wire[s] => \A m \in unacked[Owner(s)] : MsgFrame(m) \in Elems(up'[s])
<1>a. PICK c \in Clients : c = Owner(s)
  BY SocketShape DEF Owner
<1>1. PICK list \in Listings(unacked[c], stamp) :
        up' = Put(up, s, [i \in DOMAIN list |-> MsgFrame(list[i])])
  BY <1>a DEF ResendUnacked
<1>2. unacked[c] \subseteq Msgs /\ IsFiniteSet(unacked[c])
  <2>1. unacked[c] \subseteq Msgs
    BY DEF Inv, TypeOK
  <2> QED BY <2>1, MsgsAssumption, FS_Subset
<1>3. list \in Seq(unacked[c]) /\ unacked[c] \subseteq Elems(list)
  <2>1. list \in Seq(unacked[c])
    BY <1>2, ListingsLemma
  <2> QED BY <2>1 DEF Listings
<1>4. PICK frames : frames = [i \in DOMAIN list |-> MsgFrame(list[i])]
  OBVIOUS
<1>5. frames \in Seq(UpFrames)
  <2>1. PICK n \in Nat : DOMAIN list = 1..n /\ \A i \in 1..n : list[i] \in unacked[c]
    BY <1>3
  <2>2. \A i \in 1..n : MsgFrame(list[i]) \in UpFrames
    BY <1>2, <2>1 DEF MsgFrame, UpFrames
  <2>3. frames \in [1..n -> UpFrames]
    BY <1>4, <2>1, <2>2
  <2> QED BY <2>3
<1>6. \A m \in unacked[c] : MsgFrame(m) \in Elems(frames)
  <2> SUFFICES ASSUME NEW m \in unacked[c] PROVE MsgFrame(m) \in Elems(frames)
    OBVIOUS
  <2>1. PICK i \in DOMAIN list : list[i] = m
    BY <1>3 DEF Elems
  <2>2. i \in DOMAIN frames /\ frames[i] = MsgFrame(m)
    BY <1>4, <2>1
  <2> QED BY <2>2 DEF Elems
<1>7. FramesGrow /\ (wire[s] => Elems(frames) \subseteq Elems(up'[s]))
  <2>1. up' = Put(up, s, frames) /\ down' = down
    BY <1>1, <1>4 DEF ResendUnacked
  <2> QED BY <1>5, <2>1, PutGrows DEF Inv
<1> QED BY <1>a, <1>6, <1>7

LEMMA SendGrows ==
  ASSUME Inv, SocksInv, NEW m \in Msgs, SendWire(m)
  PROVE  /\ FramesGrow
         /\ isConnected[From[m]] /\ wire[Current(From[m])] =>
              MsgFrame(m) \in Elems(up'[Current(From[m])])
<1>a. PICK c \in Clients : c = From[m]
  BY EndpointsAssumption
<1>1. /\ up' = IF isConnected[c] /\ ws[c] > 0
               THEN Put(up, Current(c), <<MsgFrame(m)>>) ELSE up
      /\ down' = down
  BY <1>a DEF SendWire
<1>2. CASE isConnected[c] /\ ws[c] > 0
  <2>1. Current(c) \in Sockets
    <3>1. ws[c] \in Nat /\ ws[c] <= MaxGen[c]
      BY DEF Inv, TypeOK
    <3> QED BY <1>2, <3>1, SocketShape DEF Current
  <2>2. PICK f : f = MsgFrame(m)
    OBVIOUS
  <2>3. f \in UpFrames
    BY <2>2 DEF MsgFrame, UpFrames
  <2>4. PICK fs : fs = <<f>>
    OBVIOUS
  <2>5. fs \in Seq(UpFrames) /\ Elems(fs) = {f}
    BY <2>3, <2>4, OneFrame
  <2>6. up' = Put(up, Current(c), fs) /\ down' = down
    BY <1>1, <1>2, <2>2, <2>4
  <2>7. FramesGrow /\ (wire[Current(c)] => Elems(fs) \subseteq Elems(up'[Current(c)]))
    BY <2>1, <2>5, <2>6, PutGrows DEF Inv
  <2> QED BY <1>a, <2>2, <2>5, <2>7
<1>3. CASE ~(isConnected[c] /\ ws[c] > 0)
  <2>1. FramesGrow
    BY <1>1, <1>3 DEF FramesGrow
  <2>2. ~isConnected[c]
    BY <1>3 DEF SocksInv
  <2> QED BY <1>a, <2>1, <2>2
<1> QED BY <1>2, <1>3

LEMMA AnswerGrows ==
  ASSUME Inv, NEW s \in Sockets, AnswerChallenge(s) PROVE FramesGrow
<1>1. PICK f : f = AuthFrame
  OBVIOUS
<1>2. f \in UpFrames
  BY <1>1 DEF AuthFrame, UpFrames
<1>3. PICK fs : fs = <<f>>
  OBVIOUS
<1>4. fs \in Seq(UpFrames)
  BY <1>2, <1>3
<1>5. up' = Put(up, s, fs) /\ down' = down
  BY <1>1, <1>3 DEF AnswerChallenge
<1> QED BY <1>4, <1>5, PutGrows DEF Inv

\* A socket whose frames an action discards carries none any more.
LEMMA DiscardGrows ==
  ASSUME Inv, SocksInv,
         \/ \E s \in Sockets : OnFailure(s) \/ RelayClose(s)
         \/ (\E c \in Clients : Kill(c)) \/ RelayRestart
  PROVE  FramesGrow
<1>t. /\ up \in [Sockets -> Seq(UpFrames)] /\ down \in [Sockets -> Seq(DownFrames)]
      /\ wire \in [Sockets -> BOOLEAN]
  BY DEF Inv, TypeOK
<1>1. ASSUME NEW s \in Sockets, OnFailure(s) PROVE FramesGrow
  <2>1. /\ down' = [down EXCEPT ![s] = <<>>] /\ UNCHANGED <<up, wire>>
        /\ sock[s] = "cancelled" \/ ~wire[s]
    BY <1>1 DEF OnFailure
  <2>2. ~wire[s]
    BY <2>1 DEF SocksInv
  <2>3. \A r \in Sockets : r # s => down'[r] = down[r]
    BY <1>t, <2>1
  <2> QED BY <2>1, <2>2, <2>3 DEF FramesGrow
<1>2. ASSUME NEW s \in Sockets, RelayClose(s) PROVE FramesGrow
  <2>1. up' = [up EXCEPT ![s] = <<>>] /\ UNCHANGED <<down, wire>> /\ ~wire[s]
    BY <1>2 DEF RelayClose
  <2>2. \A r \in Sockets : r # s => up'[r] = up[r]
    BY <1>t, <2>1
  <2> QED BY <2>1, <2>2 DEF FramesGrow
<1>3. CASE \E c \in Clients : Kill(c)
  <2>1. PICK c \in Clients : Kill(c)
    BY <1>3
  <2>2. /\ \A r \in Sockets : wire'[r] => Owner(r) # c
        /\ \A r \in Sockets : Owner(r) # c => down'[r] = down[r]
        /\ up' = up
    BY <1>t, <2>1 DEF Kill
  <2> QED BY <2>2 DEF FramesGrow
<1>4. CASE RelayRestart
  <2>1. /\ \A r \in Sockets : wire'[r] => r \notin clients
        /\ \A r \in Sockets : r \notin clients => up'[r] = up[r]
        /\ down' = down
    BY <1>t, <1>4 DEF RelayRestart
  <2> QED BY <2>1 DEF FramesGrow
<1> QED BY <1>1, <1>2, <1>3, <1>4

\* onMessage acknowledges every row it reads, handed before or not.
LEMMA OnMsgGrows ==
  ASSUME Inv, NEW s \in Sockets, OnMsg(s)
  PROVE  /\ \A r \in Sockets : Elems(up[r]) \subseteq Elems(up'[r])
         /\ wire[s] => AckFrame(Head(down[s]).qid) \in Elems(up'[s])
<1>a. PICK f : f = AckFrame(Head(down[s]).qid)
  OBVIOUS
<1>1. Reads(s, "msg") /\ up' = Put(up, s, <<f>>)
  BY <1>a DEF OnMsg
<1>2. Head(down[s]) \in DownFrames /\ DownOK(s, Head(down[s])) /\ Head(down[s]).type = "msg"
  BY <1>1, ReadsLemma
<1>3. Head(down[s]).qid \in Nat
  <2>1. Head(down[s]).qid \in DOMAIN rows /\ DOMAIN rows = 1..Len(rows)
    BY <1>2 DEF DownOK, Inv, TypeOK
  <2> QED BY <2>1
<1>4. f \in UpFrames
  BY <1>3, <1>a DEF AckFrame, UpFrames
<1>5. PICK S : S = UpFrames
  OBVIOUS
<1>6. PICK fs : fs = <<f>>
  OBVIOUS
<1>7. fs \in Seq(S) /\ Elems(fs) = {f} /\ up \in [Sockets -> Seq(S)]
  BY <1>4, <1>5, <1>6, OneFrame DEF Inv, TypeOK
<1>8. up' = Put(up, s, fs)
  BY <1>1, <1>6
<1>9. /\ \A r \in Sockets : Elems(up[r]) \subseteq Elems(Put(up, s, fs)[r])
      /\ wire[s] => Elems(fs) \subseteq Elems(Put(up, s, fs)[s])
  BY <1>7, PutKeeps
<1> QED BY <1>7, <1>8, <1>9, <1>a

\* flushQueue sends every stored row of the recipient.
LEMMA RelayAuthGrows ==
  ASSUME Inv, NEW s \in Sockets, RelayAuth(s)
  PROVE  /\ \A r \in Sockets : Elems(down[r]) \subseteq Elems(down'[r])
         /\ wire[s] => \A q \in Selected(s) : RowFrame(q) \in Elems(down'[s])
<1>a. PICK X : X = Selected(s)
  OBVIOUS
<1>b. PICK rank : rank = [q \in queue |-> q]
  OBVIOUS
<1>1. PICK list \in Listings(X, rank) :
        down' = Put(down, s, [i \in DOMAIN list |-> RowFrame(list[i])])
  BY <1>a, <1>b DEF RelayAuth
<1>2. X \subseteq queue /\ IsFiniteSet(X) /\ \A q \in X : q \in Nat
  <2>1. X \subseteq queue
    BY <1>a DEF Selected
  <2> QED BY <2>1, QueueFinite, FS_Subset DEF Inv
<1>3. list \in Seq(X) /\ X \subseteq Elems(list)
  <2>1. list \in Seq(X)
    BY <1>2, ListingsLemma
  <2> QED BY <2>1 DEF Listings
<1>4. PICK frames : frames = [i \in DOMAIN list |-> RowFrame(list[i])]
  OBVIOUS
<1>5. frames \in Seq(DownFrames)
  <2>1. PICK n \in Nat : DOMAIN list = 1..n /\ \A i \in 1..n : list[i] \in X
    BY <1>3
  <2>2. \A i \in 1..n : RowFrame(list[i]) \in DownFrames
    BY <1>2, <2>1 DEF RowFrame, DownFrames
  <2>3. frames \in [1..n -> DownFrames]
    BY <1>4, <2>1, <2>2
  <2> QED BY <2>3
<1>6. \A q \in X : RowFrame(q) \in Elems(frames)
  <2> SUFFICES ASSUME NEW q \in X PROVE RowFrame(q) \in Elems(frames)
    OBVIOUS
  <2>1. PICK i \in DOMAIN list : list[i] = q
    BY <1>3 DEF Elems
  <2>2. i \in DOMAIN frames /\ frames[i] = RowFrame(q)
    BY <1>4, <2>1
  <2> QED BY <2>2 DEF Elems
<1>7. PICK S : S = DownFrames
  OBVIOUS
<1>8. frames \in Seq(S) /\ down \in [Sockets -> Seq(S)] /\ down' = Put(down, s, frames)
  BY <1>1, <1>4, <1>5, <1>7 DEF Inv, TypeOK
<1>9. /\ \A r \in Sockets : Elems(down[r]) \subseteq Elems(Put(down, s, frames)[r])
      /\ wire[s] => Elems(frames) \subseteq Elems(Put(down, s, frames)[s])
  BY <1>8, PutKeeps
<1> QED BY <1>6, <1>8, <1>9, <1>a

\* The msg handler only adds frames on the way down: the row to every
\* connected socket of the recipient, the confirmation to the sender.
LEMMA RelayMsgGrows ==
  ASSUME Inv, NEW s \in Sockets, RelayMsg(s)
  PROVE  /\ \A r \in Sockets : Elems(down[r]) \subseteq Elems(down'[r])
         /\ wire[s] => RcvdFrame(Head(up[s]).msg) \in Elems(down'[s])
         /\ Head(up[s]).msg \notin recentCids =>
              \A r \in authed : Owner(r) = To[Head(up[s]).msg] /\ wire[r] =>
                RowFrame(Len(rows) + 1) \in Elems(down'[r])
<1>a. PICK m : m = Head(up[s]).msg
  OBVIOUS
<1>b. PICK rcvd : rcvd = RcvdFrame(m)
  OBVIOUS
<1>c. PICK row : row = RowFrame(Len(rows) + 1)
  OBVIOUS
<1>d. PICK toR : toR = [r \in Sockets |->
        IF m \notin recentCids /\ r \in authed /\ Owner(r) = To[m] /\ wire[r]
        THEN <<row>> ELSE <<>>]
  OBVIOUS
<1>e. PICK toS : toS = [r \in Sockets |-> IF r = s /\ wire[r] THEN <<rcvd>> ELSE <<>>]
  OBVIOUS
<1>1. down' = [r \in Sockets |-> down[r] \o (toR[r] \o toS[r])]
  BY <1>a, <1>b, <1>c, <1>d, <1>e DEF RelayMsg, NextRowId
<1>2. \A r \in Sockets : down[r] \in Seq(DownFrames)
  BY DEF Inv, TypeOK
<1>3. Receives(s, "msg") /\ up' = Popped(s)
  BY DEF RelayMsg
<1>4. rcvd \in DownFrames /\ row \in DownFrames
  <2>1. m \in Msgs
    BY <1>3, <1>a, ReceivesLemma DEF UpOK, Sent
  <2>2. Len(rows) + 1 \in Nat
    BY DEF Inv, TypeOK
  <2> QED BY <1>b, <1>c, <2>1, <2>2 DEF RcvdFrame, RowFrame, DownFrames
<1>5. PICK S : S = DownFrames
  OBVIOUS
<1>6. \A e \in S : <<e>> \in Seq(S) /\ Elems(<<e>>) = {e}
  BY OneFrame
<1>7. ASSUME NEW r \in Sockets
      PROVE  Elems(down'[r]) = Elems(down[r]) \cup Elems(toR[r]) \cup Elems(toS[r])
  <2>1. toR[r] \in Seq(S) /\ toS[r] \in Seq(S)
    BY <1>4, <1>5, <1>6, <1>d, <1>e
  <2>2. PICK out : out = toR[r] \o toS[r]
    OBVIOUS
  <2>3. out \in Seq(S) /\ Elems(out) = Elems(toR[r]) \cup Elems(toS[r])
    BY <2>1, <2>2, ElemsConcat
  <2>4. Elems(down[r] \o out) = Elems(down[r]) \cup Elems(out)
    BY <1>2, <1>5, <2>3, ElemsConcat
  <2> QED BY <1>1, <2>2, <2>3, <2>4
<1>8. wire[s] => rcvd \in Elems(down'[s])
  BY <1>4, <1>5, <1>6, <1>7, <1>e
<1>9. m \notin recentCids =>
        \A r \in authed : Owner(r) = To[m] /\ wire[r] => row \in Elems(down'[r])
  <2>1. authed \subseteq Sockets
    BY DEF Inv, TypeOK
  <2> QED BY <1>4, <1>5, <1>6, <1>7, <1>d, <2>1
<1> QED BY <1>7, <1>8, <1>9, <1>a, <1>b, <1>c

-----------------------------------------------------------------------------
\* The uplink.
Opened(c) == isConnected[c] /\ Current(c) \notin opening /\ wire[Current(c)]
Pending(c, m) == \/ m \in sending
                 \/ MsgFrame(m) \in Elems(up[Current(c)])
                 \/ RcvdFrame(m) \in Elems(down[Current(c)])

LEMMA UplinkStep ==
  ASSUME NoStrandedUplink,
         \A c \in Clients : Opened(c)' =>
           \A m \in unacked'[c] :
             \/ Pending(c, m)'
             \/ Opened(c) /\ m \in unacked[c] /\ (Pending(c, m) => Pending(c, m)')
  PROVE  NoStrandedUplink'
<1>1. NoStrandedUplink <=> \A c \in Clients : Opened(c) => \A m \in unacked[c] : Pending(c, m)
  BY DEF NoStrandedUplink, Opened, Pending
<1>2. NoStrandedUplink' <=> \A c \in Clients : Opened(c)' => \A m \in unacked'[c] : Pending(c, m)'
  BY DEF NoStrandedUplink, Opened, Pending
<1> QED BY <1>1, <1>2

\* The socket of an opened connection is one of Sockets.
LEMMA CurrentSocket ==
  ASSUME Inv, SocksInv, NEW c \in Clients, isConnected[c]
  PROVE  Current(c) \in Sockets
<1>1. ws[c] \in Nat /\ ws[c] <= MaxGen[c] /\ ws[c] > 0
  BY DEF Inv, TypeOK, SocksInv
<1> QED BY <1>1, SocketShape DEF Current

\* Steps that neither touch unacked nor open a connection, and lose no msg
\* on the way up and no relay_rcvd on the way down.
LEMMA UplinkQuiet ==
  ASSUME Inv, SocksInv, NoStrandedUplink,
         UNCHANGED <<ws, unacked, sending>>, opening \subseteq opening',
         \A c \in Clients : isConnected'[c] => isConnected[c],
         \A r \in Sockets : wire'[r] =>
           /\ wire[r]
           /\ \A m \in Msgs :
                /\ MsgFrame(m) \in Elems(up[r]) => MsgFrame(m) \in Elems(up'[r])
                /\ RcvdFrame(m) \in Elems(down[r]) => RcvdFrame(m) \in Elems(down'[r])
  PROVE  NoStrandedUplink'
<1>1. ASSUME NEW c \in Clients, Opened(c)', NEW m \in unacked'[c]
      PROVE  Opened(c) /\ m \in unacked[c] /\ (Pending(c, m) => Pending(c, m)')
  <2>1. PICK s : s = Current(c)
    OBVIOUS
  <2>2. Current(c)' = s
    BY <2>1 DEF Current
  <2>3. isConnected'[c] /\ s \notin opening' /\ wire'[s]
    BY <1>1, <2>2 DEF Opened
  <2>4. isConnected[c] /\ s \in Sockets
    BY <2>1, <2>3, CurrentSocket
  <2>5. Opened(c)
    BY <2>1, <2>3, <2>4 DEF Opened
  <2>6. m \in Msgs
    BY <1>1 DEF Inv, TypeOK
  <2>7. Pending(c, m) => Pending(c, m)'
    BY <2>1, <2>2, <2>3, <2>4, <2>6 DEF Pending
  <2> QED BY <1>1, <2>5, <2>7
<1> QED BY <1>1, UplinkStep

\* The same for steps that touch unacked, sending or opening, when no frame
\* is lost: what is then unconfirmed and not pending has to be accounted for.
LEMMA UplinkGrows ==
  ASSUME Inv, SocksInv, NoStrandedUplink, FramesGrow, ws' = ws,
         \A c \in Clients : Opened(c)' =>
           \A m \in unacked'[c] :
             Pending(c, m)' \/ (/\ Opened(c) /\ m \in unacked[c]
                                /\ m \in sending => m \in sending')
  PROVE  NoStrandedUplink'
<1>1. ASSUME NEW c \in Clients, Opened(c)', Opened(c), NEW m, m \in sending => m \in sending',
             Pending(c, m)
      PROVE  Pending(c, m)'
  <2>1. PICK s : s = Current(c)
    OBVIOUS
  <2>2. Current(c)' = s
    BY <2>1 DEF Current
  <2>3. wire'[s] /\ s \in Sockets
    BY <1>1, <2>1, <2>2, CurrentSocket DEF Opened
  <2>4. Elems(up[s]) \subseteq Elems(up'[s]) /\ Elems(down[s]) \subseteq Elems(down'[s])
    BY <2>3 DEF FramesGrow
  <2> QED BY <1>1, <2>1, <2>2, <2>4 DEF Pending
<1> QED BY <1>1, UplinkStep

LEMMA ClientUplink ==
  ASSUME Inv, SocksInv, CustodyInv, NoStrandedUplink,
         \/ \E m \in Msgs : SendJson(m) \/ SendWire(m)
         \/ \E s \in Sockets : OnOpen(s) \/ ResendUnacked(s)
  PROVE  NoStrandedUplink'
<1>o. \A s \in Sockets : s[1] \in Clients /\ Owner(s) = s[1] /\ s = <<s[1], s[2]>>
  BY SocketShape DEF Owner
<1>t. unacked \in [Clients -> SUBSET Msgs] /\ isConnected \in [Clients -> BOOLEAN]
  BY DEF Inv, TypeOK
<1>1. ASSUME NEW m \in Msgs, SendJson(m) PROVE NoStrandedUplink'
  <2>1. PICK c \in Clients : c = From[m]
    BY EndpointsAssumption
  <2>2. /\ unacked' = [unacked EXCEPT ![c] = (@ \ Evicted(c)) \cup {m}]
        /\ sending' = sending \cup {m}
        /\ UNCHANGED <<ws, isConnected, opening, wire, up, down>>
    BY <1>1, <2>1 DEF SendJson, socketVars
  <2>3. FramesGrow
    BY <2>2 DEF FramesGrow
  <2>4. ASSUME NEW d \in Clients, Opened(d)', NEW n \in unacked'[d]
        PROVE  Pending(d, n)' \/ (/\ Opened(d) /\ n \in unacked[d]
                                  /\ n \in sending => n \in sending')
    <3>1. n \in unacked[d] \/ n = m
      BY <1>t, <2>2, <2>4
    <3>2. Opened(d)
      BY <2>2, <2>4 DEF Opened, Current
    <3> QED BY <2>2, <3>1, <3>2 DEF Pending
  <2> QED BY <2>2, <2>3, <2>4, UplinkGrows
<1>2. ASSUME NEW m \in Msgs, SendWire(m) PROVE NoStrandedUplink'
  <2>1. PICK c \in Clients : c = From[m]
    BY EndpointsAssumption
  <2>2. sending' = sending \ {m} /\ UNCHANGED <<ws, unacked, isConnected, opening, wire>>
    BY <1>2 DEF SendWire
  <2>3. /\ FramesGrow
        /\ isConnected[c] /\ wire[Current(c)] => MsgFrame(m) \in Elems(up'[Current(c)])
    BY <1>2, <2>1, SendGrows
  <2>4. ASSUME NEW d \in Clients, Opened(d)', NEW n \in unacked'[d]
        PROVE  Pending(d, n)' \/ (/\ Opened(d) /\ n \in unacked[d]
                                  /\ n \in sending => n \in sending')
    <3>1. Opened(d) /\ n \in unacked[d] /\ Current(d)' = Current(d)
      BY <2>2, <2>4 DEF Opened, Current
    <3>2. CASE n # m
      BY <2>2, <3>1, <3>2
    <3>3. CASE n = m
      <4>1. d = c
        BY <2>1, <3>1, <3>3 DEF CustodyInv
      <4>2. MsgFrame(m) \in Elems(up'[Current(d)])
        BY <2>3, <3>1, <4>1 DEF Opened
      <4> QED BY <3>1, <3>3, <4>2 DEF Pending
    <3> QED BY <3>2, <3>3
  <2> QED BY <2>2, <2>3, <2>4, UplinkGrows
<1>3. ASSUME NEW s \in Sockets, OnOpen(s) PROVE NoStrandedUplink'
  <2>1. /\ isConnected' = [isConnected EXCEPT ![s[1]] = TRUE]
        /\ opening' = opening \cup {s} /\ sock[s] = "connecting"
        /\ UNCHANGED <<ws, unacked, sending, wire, up, down>>
    BY <1>3, <1>o DEF OnOpen
  <2>2. s = Current(s[1])
    BY <1>o, <2>1 DEF SocksInv, Current
  <2>3. FramesGrow
    BY <2>1 DEF FramesGrow
  <2>4. ASSUME NEW d \in Clients, Opened(d)'
        PROVE  Opened(d)
    <3>1. Current(d)' = Current(d)
      BY <2>1 DEF Current
    <3>2. d # s[1]
      BY <2>1, <2>2, <2>4, <3>1 DEF Opened
    <3> QED BY <1>t, <2>1, <2>4, <3>1, <3>2 DEF Opened
  <2> QED BY <2>1, <2>3, <2>4, UplinkGrows
<1>4. ASSUME NEW s \in Sockets, ResendUnacked(s) PROVE NoStrandedUplink'
  <2>1. /\ opening' = opening \ {s}
        /\ UNCHANGED <<ws, isConnected, unacked, sending, wire>>
    BY <1>4 DEF ResendUnacked
  <2>2. FramesGrow /\ (wire[s] => \A n \in unacked[s[1]] : MsgFrame(n) \in Elems(up'[s]))
    BY <1>4, <1>o, ResendGrows
  <2>3. ASSUME NEW d \in Clients, Opened(d)', NEW n \in unacked'[d]
        PROVE  Pending(d, n)' \/ (/\ Opened(d) /\ n \in unacked[d]
                                  /\ n \in sending => n \in sending')
    <3>1. Current(d)' = Current(d) /\ isConnected[d] /\ wire[Current(d)] /\ n \in unacked[d]
      BY <2>1, <2>3 DEF Opened, Current
    <3>2. CASE Current(d) = s
      <4>1. d = s[1]
        BY <3>2 DEF Current
      <4> QED BY <2>2, <3>1, <3>2, <4>1 DEF Pending
    <3>3. CASE Current(d) # s
      BY <2>1, <2>3, <3>1, <3>3 DEF Opened
    <3> QED BY <3>2, <3>3
  <2> QED BY <2>1, <2>2, <2>3, UplinkGrows
<1> QED BY <1>1, <1>2, <1>3, <1>4

LEMMA SocketUplink ==
  ASSUME Inv, SocksInv, CustodyInv, NoStrandedUplink, NEW c \in Clients,
         Connect(c) \/ Kill(c)
  PROVE  NoStrandedUplink'
<1>t. /\ ws \in [Clients -> Nat] /\ isConnected \in [Clients -> BOOLEAN]
      /\ unacked \in [Clients -> SUBSET Msgs]
  BY DEF Inv, TypeOK
<1>1. CASE Connect(c)
  <2>0. /\ ~isConnected[c] /\ ws' = [ws EXCEPT ![c] = @ + 1]
        /\ wire' = [s \in Sockets |-> IF s = <<c, ws[c] + 1>> THEN TRUE
                                      ELSE IF s = <<c, ws[c]>> THEN FALSE ELSE wire[s]]
        /\ UNCHANGED <<isConnected, unacked, sending, opening, up, down>>
    BY <1>1 DEF Connect, Current
  <2>1. /\ \A d \in Clients : d # c => ws'[d] = ws[d]
        /\ \A s \in Sockets : s[1] # c => wire'[s] = wire[s]
    <3>1. \A d \in Clients : d # c => ws'[d] = ws[d]
      BY <1>t, <2>0
    <3>2. ASSUME NEW s \in Sockets, s[1] # c PROVE wire'[s] = wire[s]
      <4>1. s # <<c, ws[c] + 1>> /\ s # <<c, ws[c]>>
        BY <3>2
      <4> QED BY <2>0, <4>1
    <3> QED BY <3>1, <3>2
  <2>2. ASSUME NEW d \in Clients, Opened(d)', NEW n \in unacked'[d]
        PROVE  Opened(d) /\ n \in unacked[d] /\ (Pending(d, n) => Pending(d, n)')
    <3>1. d # c /\ isConnected[d]
      BY <2>0, <2>2 DEF Opened
    <3>2. Current(d)' = Current(d) /\ Current(d) \in Sockets /\ Current(d)[1] = d
      BY <2>1, <3>1, CurrentSocket DEF Current
    <3>3. wire'[Current(d)] = wire[Current(d)]
      BY <2>1, <3>1, <3>2
    <3> QED BY <2>0, <2>2, <3>2, <3>3 DEF Opened, Pending
  <2> QED BY <2>2, UplinkStep
<1>2. CASE Kill(c)
  <2>1. /\ isConnected' = [isConnected EXCEPT ![c] = FALSE]
        /\ unacked' = [unacked EXCEPT ![c] = {}]
        /\ sending' = {m \in sending : From[m] # c}
        /\ \A s \in opening : s[1] # c => s \in opening'
        /\ \A s \in Sockets : wire'[s] => wire[s]
        /\ ws' = ws
    BY <1>2 DEF Kill, Owner
  <2>2. FramesGrow
    BY <1>2, DiscardGrows
  <2>3. ASSUME NEW d \in Clients, Opened(d)', NEW n \in unacked'[d]
        PROVE  /\ Opened(d) /\ n \in unacked[d]
               /\ n \in sending => n \in sending'
    <3>1. d # c /\ isConnected[d] /\ n \in unacked[d]
      BY <1>t, <2>1, <2>3 DEF Opened
    <3>2. Current(d)' = Current(d) /\ Current(d) \in Sockets /\ Current(d)[1] = d
      BY <2>1, <3>1, CurrentSocket DEF Current
    <3>3. From[n] = d
      BY <3>1 DEF CustodyInv
    <3> QED BY <2>1, <2>3, <3>1, <3>2, <3>3 DEF Opened
  <2> QED BY <2>1, <2>2, <2>3, UplinkGrows
<1> QED BY <1>1, <1>2

LEMMA HopUplink ==
  ASSUME Inv, SocksInv, NoStrandedUplink, NEW s \in Sockets,
         OnRelayRcvd(s) \/ RelayMsg(s)
  PROVE  NoStrandedUplink'
<1>o. s[1] \in Clients /\ Owner(s) = s[1]
  BY SocketShape DEF Owner
<1>1. CASE OnRelayRcvd(s)
  <2>1. /\ Reads(s, "relay_rcvd")
        /\ unacked' = [unacked EXCEPT ![s[1]] = @ \ {Head(down[s]).msg}]
        /\ UNCHANGED <<ws, isConnected, sending, opening, wire, up>>
    BY <1>1, <1>o DEF OnRelayRcvd
  <2>2. \A r \in Sockets : \A f \in Elems(down[r]) :
          f \in Elems(down'[r]) \/ (r = s /\ f = Head(down[s]))
    BY <2>1, ReadsKeeps
  <2>3. ASSUME NEW c \in Clients, Opened(c)', NEW m \in unacked'[c]
        PROVE  Opened(c) /\ m \in unacked[c] /\ (Pending(c, m) => Pending(c, m)')
    <3>0. unacked \in [Clients -> SUBSET Msgs]
      BY DEF Inv, TypeOK
    <3>1. m \in unacked[c] /\ (c = s[1] => m # Head(down[s]).msg)
      BY <2>1, <2>3, <3>0
    <3>2. Opened(c) /\ Current(c)' = Current(c)
      BY <2>1, <2>3 DEF Opened, Current
    <3>3. Current(c) \in Sockets /\ Current(c)[1] = c
      BY <3>2, CurrentSocket DEF Opened, Current
    <3>4. RcvdFrame(m) \in Elems(down[Current(c)]) => RcvdFrame(m) \in Elems(down'[Current(c)])
      <4>1. PICK f : f = RcvdFrame(m)
        OBVIOUS
      <4>2. f.msg = m
        BY <4>1 DEF RcvdFrame
      <4> QED BY <2>2, <3>1, <3>3, <4>1, <4>2
    <3> QED BY <2>1, <3>1, <3>2, <3>4 DEF Pending
  <2> QED BY <2>3, UplinkStep
<1>2. CASE RelayMsg(s)
  <2>a. PICK m : m = Head(up[s]).msg
    OBVIOUS
  <2>b. PICK rf : rf = RcvdFrame(m)
    OBVIOUS
  <2>1. Receives(s, "msg") /\ up' = Popped(s)
        /\ UNCHANGED <<ws, isConnected, unacked, sending, opening, wire>>
    BY <1>2 DEF RelayMsg, clientVars
  <2>2. \A r \in Sockets : \A f \in Elems(up[r]) :
          f \in Elems(up'[r]) \/ (r = s /\ f = Head(up[s]))
    BY <2>1, ReceivesKeeps
  <2>3. m \in Msgs
    BY <2>1, <2>a, ReceivesLemma DEF UpOK, Sent
  <2>4. /\ \A r \in Sockets : Elems(down[r]) \subseteq Elems(down'[r])
        /\ wire[s] => rf \in Elems(down'[s])
    BY <1>2, <2>3, <2>a, <2>b, RelayMsgGrows
  <2>5. ASSUME NEW c \in Clients, Opened(c)', NEW n \in unacked'[c]
        PROVE  Opened(c) /\ n \in unacked[c] /\ (Pending(c, n) => Pending(c, n)')
    <3>2. Opened(c) /\ Current(c)' = Current(c) /\ n \in unacked[c]
      BY <2>1, <2>5 DEF Opened, Current
    <3>3. Current(c) \in Sockets
      BY <3>2, CurrentSocket DEF Opened
    <3>4. MsgFrame(n) \in Elems(up[Current(c)]) =>
            \/ MsgFrame(n) \in Elems(up'[Current(c)])
            \/ RcvdFrame(n) \in Elems(down'[Current(c)])
      <4>1. PICK f : f = MsgFrame(n)
        OBVIOUS
      <4>2. f.msg = n
        BY <4>1 DEF MsgFrame
      <4>3. CASE Current(c) = s /\ f = Head(up[s])
        <5>1. n = m /\ wire[s]
          BY <2>a, <3>2, <4>2, <4>3 DEF Opened
        <5> QED BY <2>b, <2>4, <4>3, <5>1
      <4> QED BY <2>2, <3>3, <4>1, <4>3
    <3> QED BY <2>1, <2>4, <3>2, <3>3, <3>4 DEF Pending
  <2> QED BY <2>5, UplinkStep
<1> QED BY <1>1, <1>2

LEMMA OtherUplink ==
  ASSUME Inv, SocksInv, NoStrandedUplink,
         \/ \E s \in Sockets : \/ AnswerChallenge(s) \/ OnFailure(s) \/ OnMsg(s)
                             \/ RelayAuth(s) \/ RelayAck(s) \/ RelayClose(s)
                             \/ LinkBreak(s)
         \/ RelayRestart
         \/ (\E m \in Msgs : ForgetCid(m)) \/ (\E q \in queue : ExpireRow(q))
         \/ UNCHANGED vars
  PROVE  NoStrandedUplink'
<1>t. /\ isConnected \in [Clients -> BOOLEAN] /\ wire \in [Sockets -> BOOLEAN]
      /\ up \in [Sockets -> Seq(UpFrames)] /\ down \in [Sockets -> Seq(DownFrames)]
  BY DEF Inv, TypeOK
<1>1. ASSUME NEW s \in Sockets, AnswerChallenge(s) PROVE NoStrandedUplink'
  <2>1. UNCHANGED <<ws, unacked, sending, opening, isConnected, wire>>
    BY <1>1 DEF AnswerChallenge
  <2>2. FramesGrow
    BY <1>1, AnswerGrows
  <2> QED BY <2>1, <2>2, UplinkQuiet DEF FramesGrow
<1>2. CASE (\E s \in Sockets : OnFailure(s) \/ RelayClose(s)) \/ RelayRestart
  <2>1. /\ UNCHANGED <<ws, unacked, sending, opening>>
        /\ \A c \in Clients : isConnected'[c] => isConnected[c]
        /\ \A r \in Sockets : wire'[r] => wire[r]
    BY <1>2, <1>t DEF OnFailure, RelayClose, RelayRestart, clientVars
  <2>2. FramesGrow
    BY <1>2, DiscardGrows
  <2> QED BY <2>1, <2>2, UplinkQuiet DEF FramesGrow
<1>3. ASSUME NEW s \in Sockets, OnMsg(s) PROVE NoStrandedUplink'
  <2>a. PICK f : f = AckFrame(Head(down[s]).qid)
    OBVIOUS
  <2>1. /\ Reads(s, "msg") /\ up' = Put(up, s, <<f>>)
        /\ UNCHANGED <<ws, unacked, sending, opening, isConnected, wire>>
    BY <1>3, <2>a DEF OnMsg
  <2>2. \A r \in Sockets : Elems(up[r]) \subseteq Elems(up'[r])
    BY <1>3, OnMsgGrows
  <2>3. /\ \A r \in Sockets : \A g \in Elems(down[r]) :
             g \in Elems(down'[r]) \/ (r = s /\ g = Head(down[s]))
        /\ Head(down[s]).type = "msg"
    BY <2>1, ReadsKeeps
  <2>4. \A m \in Msgs : RcvdFrame(m) # Head(down[s])
    BY <2>3 DEF RcvdFrame
  <2> QED BY <2>1, <2>2, <2>3, <2>4, UplinkQuiet
<1>4. ASSUME NEW s \in Sockets, RelayAuth(s) \/ RelayAck(s) PROVE NoStrandedUplink'
  <2>1. /\ up' = Popped(s)
        /\ UNCHANGED <<ws, unacked, sending, opening, isConnected, wire>>
    BY <1>4 DEF RelayAuth, RelayAck, clientVars
  <2>2. /\ \A r \in Sockets : \A g \in Elems(up[r]) :
             g \in Elems(up'[r]) \/ (r = s /\ g = Head(up[s]))
        /\ Head(up[s]).type \in {"auth", "relay_ack"}
    BY <1>4, <2>1, ReceivesKeeps DEF RelayAuth, RelayAck
  <2>3. \A m \in Msgs : MsgFrame(m) # Head(up[s])
    BY <2>2 DEF MsgFrame
  <2>4. \A r \in Sockets : Elems(down[r]) \subseteq Elems(down'[r])
    <3>1. CASE RelayAuth(s)
      BY <3>1, RelayAuthGrows
    <3>2. CASE RelayAck(s)
      BY <3>2 DEF RelayAck
    <3> QED BY <1>4, <3>1, <3>2
  <2> QED BY <2>1, <2>2, <2>3, <2>4, UplinkQuiet
<1>5. ASSUME NEW s \in Sockets, LinkBreak(s) PROVE NoStrandedUplink'
  <2>1. /\ UNCHANGED <<ws, unacked, sending, opening, isConnected, up, down>>
        /\ \A r \in Sockets : wire'[r] => wire[r]
    BY <1>5, <1>t DEF LinkBreak, clientVars
  <2> QED BY <2>1, UplinkQuiet
<1>6. CASE (\E m \in Msgs : ForgetCid(m)) \/ (\E q \in queue : ExpireRow(q)) \/ UNCHANGED vars
  <2>1. UNCHANGED <<ws, unacked, sending, opening, isConnected, wire, up, down>>
    BY <1>6 DEF ForgetCid, ExpireRow, vars, clientVars, socketVars
  <2> QED BY <2>1, UplinkQuiet
<1> QED BY <1>1, <1>2, <1>3, <1>4, <1>5, <1>6

-----------------------------------------------------------------------------
\* The downlink.
Due(s, q) == RowFrame(q) \in Elems(down[s]) \/ AckFrame(q) \in Elems(up[s])

LEMMA DownlinkStep ==
  ASSUME Inv, NoStrandedDownlink,
         \A s \in authed' : wire'[s] =>
           \A q \in queue' : To[rows'[q]] = Owner(s) =>
             \/ Due(s, q)'
             \/ /\ s \in authed /\ wire[s] /\ q \in queue /\ rows'[q] = rows[q]
                /\ Due(s, q) => Due(s, q)'
  PROVE  NoStrandedDownlink'
BY DEF NoStrandedDownlink, Due, Owner

\* Steps that authenticate no socket, add no row and lose no frame of it.
LEMMA DownlinkQuiet ==
  ASSUME Inv, NoStrandedDownlink, FramesGrow,
         authed' \subseteq authed, queue' \subseteq queue, rows' = rows,
         \A s \in authed' : wire'[s] => wire[s]
  PROVE  NoStrandedDownlink'
<1>1. ASSUME NEW s \in authed', wire'[s], NEW q \in queue'
      PROVE  /\ s \in authed /\ wire[s] /\ q \in queue /\ rows'[q] = rows[q]
             /\ Due(s, q) => Due(s, q)'
  <2>1. s \in Sockets
    BY DEF Inv, TypeOK
  <2> QED BY <1>1, <2>1 DEF FramesGrow, Due
<1> QED BY <1>1, DownlinkStep

LEMMA QuietDownlink ==
  ASSUME Inv, SocksInv, NoStrandedDownlink,
         \/ \E m \in Msgs : SendJson(m) \/ SendWire(m) \/ ForgetCid(m)
         \/ \E s \in Sockets : \/ OnOpen(s) \/ ResendUnacked(s) \/ AnswerChallenge(s)
                             \/ OnFailure(s) \/ RelayClose(s) \/ LinkBreak(s)
         \/ RelayRestart
         \/ (\E c \in Clients : Kill(c)) \/ (\E q \in queue : ExpireRow(q))
         \/ UNCHANGED vars
  PROVE  NoStrandedDownlink'
<1>t. wire \in [Sockets -> BOOLEAN] /\ authed \subseteq Sockets
  BY DEF Inv, TypeOK
<1>1. CASE \/ \E m \in Msgs : SendWire(m)
           \/ \E s \in Sockets : ResendUnacked(s) \/ AnswerChallenge(s)
  <2>1. UNCHANGED <<authed, queue, rows, wire>>
    BY <1>1 DEF SendWire, ResendUnacked, AnswerChallenge, relayVars
  <2>2. FramesGrow
    BY <1>1, SendGrows, ResendGrows, AnswerGrows
  <2> QED BY <2>1, <2>2, DownlinkQuiet
<1>2. CASE \/ \E m \in Msgs : SendJson(m) \/ ForgetCid(m)
           \/ \E s \in Sockets : OnOpen(s) \/ LinkBreak(s)
           \/ (\E q \in queue : ExpireRow(q)) \/ UNCHANGED vars
  <2>1. /\ UNCHANGED <<authed, rows, up, down>> /\ queue' \subseteq queue
        /\ \A r \in Sockets : wire'[r] => wire[r]
    BY <1>2, <1>t DEF SendJson, ForgetCid, OnOpen, LinkBreak, ExpireRow, vars,
       socketVars, relayVars
  <2>2. FramesGrow
    BY <2>1 DEF FramesGrow
  <2> QED BY <1>t, <2>1, <2>2, DownlinkQuiet
<1>3. CASE (\E s \in Sockets : OnFailure(s) \/ RelayClose(s)) \/ RelayRestart \/ (\E c \in Clients : Kill(c))
  <2>1. /\ UNCHANGED <<rows, queue>> /\ authed' \subseteq authed
        /\ \A r \in Sockets : wire'[r] => wire[r]
    BY <1>3, <1>t DEF OnFailure, RelayClose, RelayRestart, Kill, relayVars
  <2>2. FramesGrow
    BY <1>3, DiscardGrows
  <2> QED BY <1>t, <2>1, <2>2, DownlinkQuiet
<1> QED BY <1>1, <1>2, <1>3

LEMMA ConnectDownlink ==
  ASSUME Inv, SocksInv, NoStrandedDownlink, NEW c \in Clients, Connect(c)
  PROVE  NoStrandedDownlink'
<1>1. /\ wire' = [s \in Sockets |-> IF s = <<c, ws[c] + 1>> THEN TRUE
                                    ELSE IF s = <<c, ws[c]>> THEN FALSE ELSE wire[s]]
      /\ UNCHANGED <<authed, queue, rows, up, down>>
  BY DEF Connect, Current, relayVars
<1>2. <<c, ws[c] + 1>> \notin authed
  <2>1. ASSUME <<c, ws[c] + 1>> \in authed PROVE FALSE
    <3>1. PICK s : s = <<c, ws[c] + 1>>
      OBVIOUS
    <3>2. s \in Sockets /\ s \in clients /\ ws[c] \in Nat
      BY <2>1, <3>1 DEF Inv, TypeOK
    <3>3. s[1] = c /\ s[2] > ws[c]
      BY <3>1, <3>2
    <3> QED BY <3>2, <3>3 DEF SocksInv
  <2> QED BY <2>1
<1>3. authed \subseteq Sockets
  BY DEF Inv, TypeOK
<1>4. \A s \in authed' : wire'[s] => wire[s]
  BY <1>1, <1>2, <1>3
<1>5. FramesGrow
  BY <1>1 DEF FramesGrow
<1> QED BY <1>1, <1>4, <1>5, DownlinkQuiet

LEMMA HopDownlink ==
  ASSUME Inv, NoStrandedDownlink, NEW s \in Sockets,
         OnRelayRcvd(s) \/ OnMsg(s) \/ RelayAuth(s) \/ RelayMsg(s) \/ RelayAck(s)
  PROVE  NoStrandedDownlink'
<1>o. Owner(s) \in Clients /\ authed \subseteq Sockets
  BY SocketShape DEF Owner, Inv, TypeOK
<1>1. CASE OnRelayRcvd(s)
  <2>1. Reads(s, "relay_rcvd") /\ UNCHANGED <<up, wire, authed, queue, rows>>
    BY <1>1 DEF OnRelayRcvd, relayVars
  <2>2. /\ \A r \in Sockets : \A f \in Elems(down[r]) :
             f \in Elems(down'[r]) \/ (r = s /\ f = Head(down[s]))
        /\ Head(down[s]).type = "relay_rcvd"
    BY <2>1, ReadsKeeps
  <2>3. \A q : RowFrame(q) # Head(down[s])
    BY <2>2 DEF RowFrame
  <2>4. \A r \in authed, q \in queue : Due(r, q) => Due(r, q)'
    BY <1>o, <2>1, <2>2, <2>3 DEF Due
  <2> QED BY <2>1, <2>4, DownlinkStep
<1>2. CASE OnMsg(s)
  <2>1. Reads(s, "msg") /\ UNCHANGED <<wire, authed, queue, rows>>
    BY <1>2 DEF OnMsg, relayVars
  <2>2. /\ \A r \in Sockets : Elems(up[r]) \subseteq Elems(up'[r])
        /\ wire[s] => AckFrame(Head(down[s]).qid) \in Elems(up'[s])
    BY <1>2, OnMsgGrows
  <2>3. \A r \in Sockets : \A f \in Elems(down[r]) :
          f \in Elems(down'[r]) \/ (r = s /\ f = Head(down[s]))
    BY <2>1, ReadsKeeps
  <2>4. ASSUME NEW r \in authed, wire[r], NEW q \in queue, Due(r, q) PROVE Due(r, q)'
    <3>1. CASE AckFrame(q) \in Elems(up[r])
      BY <1>o, <2>2, <3>1 DEF Due
    <3>2. CASE RowFrame(q) \in Elems(down[r])
      <4>1. PICK f : f = RowFrame(q)
        OBVIOUS
      <4>2. f.qid = q
        BY <4>1 DEF RowFrame
      <4>3. CASE r = s /\ f = Head(down[s])
        BY <2>2, <2>4, <4>2, <4>3 DEF Due
      <4> QED BY <1>o, <2>3, <3>2, <4>1, <4>3 DEF Due
    <3> QED BY <2>4, <3>1, <3>2 DEF Due
  <2> QED BY <2>1, <2>4, DownlinkStep
<1>3. CASE RelayAuth(s)
  <2>1. /\ Receives(s, "auth") /\ up' = Popped(s) /\ authed' = authed \cup {s}
        /\ UNCHANGED <<wire, queue, rows>>
    BY <1>3 DEF RelayAuth
  <2>2. /\ \A r \in Sockets : \A f \in Elems(up[r]) :
             f \in Elems(up'[r]) \/ (r = s /\ f = Head(up[s]))
        /\ Head(up[s]).type = "auth"
    BY <2>1, ReceivesKeeps
  <2>3. /\ \A r \in Sockets : Elems(down[r]) \subseteq Elems(down'[r])
        /\ wire[s] => \A q \in Selected(s) : RowFrame(q) \in Elems(down'[s])
    BY <1>3, RelayAuthGrows
  <2>4. \A q : AckFrame(q) # Head(up[s])
    BY <2>2 DEF AckFrame
  <2>5. ASSUME NEW r \in authed, NEW q \in queue, Due(r, q) PROVE Due(r, q)'
    BY <1>o, <2>2, <2>3, <2>4, <2>5 DEF Due
  <2>6. ASSUME wire[s], NEW q \in queue, To[rows[q]] = Owner(s) PROVE Due(s, q)'
    BY <2>3, <2>6 DEF Due, Selected
  <2> QED BY <2>1, <2>5, <2>6, DownlinkStep
<1>4. CASE RelayMsg(s)
  <2>a. PICK m : m = Head(up[s]).msg
    OBVIOUS
  <2>b. PICK n : n = Len(rows) + 1
    OBVIOUS
  <2>1. /\ Receives(s, "msg") /\ up' = Popped(s)
        /\ \/ rows' = rows /\ queue' = queue
           \/ m \notin recentCids /\ rows' = Append(rows, m) /\ queue' = queue \cup {n}
        /\ UNCHANGED <<wire, authed>>
    BY <1>4, <2>a, <2>b DEF RelayMsg, NextRowId
  <2>2. /\ \A r \in Sockets : \A f \in Elems(up[r]) :
             f \in Elems(up'[r]) \/ (r = s /\ f = Head(up[s]))
        /\ Head(up[s]).type = "msg"
    BY <2>1, ReceivesKeeps
  <2>3. /\ \A r \in Sockets : Elems(down[r]) \subseteq Elems(down'[r])
        /\ m \notin recentCids =>
             \A r \in authed : Owner(r) = To[m] /\ wire[r] => RowFrame(n) \in Elems(down'[r])
    BY <1>4, <2>a, <2>b, RelayMsgGrows
  <2>4. \A q : AckFrame(q) # Head(up[s])
    BY <2>2 DEF AckFrame
  <2>5. ASSUME NEW r \in authed, NEW q \in queue, Due(r, q) PROVE Due(r, q)'
    BY <1>o, <2>2, <2>3, <2>4, <2>5 DEF Due
  <2>6. CASE rows' = rows /\ queue' = queue
    BY <2>1, <2>5, <2>6, DownlinkStep
  <2>7. CASE m \notin recentCids /\ rows' = Append(rows, m) /\ queue' = queue \cup {n}
    <3>1. rows'[n] = m /\ \A q \in queue : rows'[q] = rows[q]
      BY <2>7, <2>b DEF Inv, TypeOK
    <3>2. \A r \in authed : wire[r] /\ Owner(r) = To[m] => Due(r, n)'
      BY <2>3, <2>7 DEF Due
    <3>3. ASSUME NEW r \in authed, wire[r], NEW q \in queue', To[rows'[q]] = Owner(r)
          PROVE  Due(r, q)' \/ (/\ q \in queue /\ rows'[q] = rows[q]
                                /\ Due(r, q) => Due(r, q)')
      BY <2>5, <2>7, <3>1, <3>2, <3>3
    <3> QED BY <2>1, <3>3, DownlinkStep
  <2> QED BY <2>1, <2>6, <2>7
<1>5. CASE RelayAck(s)
  <2>a. PICK k : k = Head(up[s]).qid
    OBVIOUS
  <2>1. /\ Receives(s, "relay_ack") /\ up' = Popped(s)
        /\ queue' \subseteq queue
        /\ s \in authed /\ k \in queue /\ To[rows[k]] = Owner(s) => k \notin queue'
        /\ UNCHANGED <<wire, authed, rows, down>>
    BY <1>5, <2>a DEF RelayAck
  <2>2. \A r \in Sockets : \A f \in Elems(up[r]) :
          f \in Elems(up'[r]) \/ (r = s /\ f = Head(up[s]))
    BY <2>1, ReceivesKeeps
  <2>3. ASSUME NEW r \in authed, NEW q \in queue', To[rows[q]] = Owner(r), Due(r, q)
        PROVE  Due(r, q)'
    <3>1. CASE RowFrame(q) \in Elems(down[r])
      BY <2>1, <3>1 DEF Due
    <3>2. CASE AckFrame(q) \in Elems(up[r])
      <4>1. PICK f : f = AckFrame(q)
        OBVIOUS
      <4>2. f.qid = q
        BY <4>1 DEF AckFrame
      <4>3. ~(r = s /\ f = Head(up[s]))
        BY <2>a, <2>1, <2>3, <4>2
      <4> QED BY <1>o, <2>2, <3>2, <4>1, <4>3 DEF Due
    <3> QED BY <2>3, <3>1, <3>2 DEF Due
  <2> QED BY <2>1, <2>3, DownlinkStep
<1> QED BY <1>1, <1>2, <1>3, <1>4, <1>5

-----------------------------------------------------------------------------
NothingStranded == NoStrandedUplink /\ NoStrandedDownlink

LEMMA NextStranded ==
  ASSUME Inv, SocksInv, CustodyInv, NothingStranded, [Next]_vars
  PROVE  (SocksInv /\ NothingStranded)'
<1>s. SocksInv'
  <2>1. ASSUME NEW m \in Msgs, SendJson(m) \/ SendWire(m) \/ ForgetCid(m) PROVE SocksInv'
    BY <2>1, SocksQuiet DEF SendJson, SendWire, ForgetCid, clientVars, socketVars, relayVars
  <2>2. ASSUME NEW c \in Clients, Connect(c) \/ Kill(c) PROVE SocksInv'
    BY <2>2, ConnectSocks, OtherSocks
  <2>3. ASSUME NEW s \in Sockets, ClientStep(s) PROVE SocksInv'
    <3>1. CASE ResendUnacked(s) \/ AnswerChallenge(s) \/ OnRelayRcvd(s) \/ OnMsg(s)
      BY <3>1, SocksQuiet DEF ResendUnacked, AnswerChallenge, OnRelayRcvd, OnMsg, relayVars
    <3> QED BY <2>3, <3>1, OtherSocks DEF ClientStep
  <2>4. ASSUME NEW s \in Sockets, RelayStep(s) \/ LinkBreak(s) PROVE SocksInv'
    <3>1. CASE RelayAuth(s) \/ RelayMsg(s) \/ RelayAck(s)
      BY <3>1, SocksQuiet DEF RelayAuth, RelayMsg, RelayAck, clientVars
    <3> QED BY <2>4, <3>1, OtherSocks DEF RelayStep
  <2>5. CASE (\E q \in queue : ExpireRow(q)) \/ UNCHANGED vars
    BY <2>5, SocksQuiet DEF ExpireRow, vars, clientVars, socketVars, relayVars
  <2>6. CASE RelayRestart
    BY <2>6, OtherSocks
  <2> QED BY <2>1, <2>2, <2>3, <2>4, <2>5, <2>6 DEF Next
<1>n. NoStrandedUplink /\ NoStrandedDownlink
  BY DEF NothingStranded
<1>u. NoStrandedUplink'
  <2>1. ASSUME NEW m \in Msgs, SendJson(m) \/ SendWire(m) \/ ForgetCid(m) PROVE NoStrandedUplink'
    BY <1>n, <2>1, ClientUplink, OtherUplink
  <2>2. ASSUME NEW c \in Clients, Connect(c) \/ Kill(c) PROVE NoStrandedUplink'
    BY <1>n, <2>2, SocketUplink
  <2>3. ASSUME NEW s \in Sockets, ClientStep(s) PROVE NoStrandedUplink'
    BY <1>n, <2>3, ClientUplink, HopUplink, OtherUplink DEF ClientStep
  <2>4. ASSUME NEW s \in Sockets, RelayStep(s) \/ LinkBreak(s) PROVE NoStrandedUplink'
    BY <1>n, <2>4, HopUplink, OtherUplink DEF RelayStep
  <2>5. CASE RelayRestart \/ (\E q \in queue : ExpireRow(q)) \/ UNCHANGED vars
    BY <1>n, <2>5, OtherUplink
  <2> QED BY <2>1, <2>2, <2>3, <2>4, <2>5 DEF Next
<1>d. NoStrandedDownlink'
  <2>1. ASSUME NEW m \in Msgs, SendJson(m) \/ SendWire(m) \/ ForgetCid(m) PROVE NoStrandedDownlink'
    BY <1>n, <2>1, QuietDownlink
  <2>2. ASSUME NEW c \in Clients, Connect(c) \/ Kill(c) PROVE NoStrandedDownlink'
    BY <1>n, <2>2, ConnectDownlink, QuietDownlink
  <2>3. ASSUME NEW s \in Sockets, ClientStep(s) PROVE NoStrandedDownlink'
    BY <1>n, <2>3, HopDownlink, QuietDownlink DEF ClientStep
  <2>4. ASSUME NEW s \in Sockets, RelayStep(s) \/ LinkBreak(s) PROVE NoStrandedDownlink'
    BY <1>n, <2>4, HopDownlink, QuietDownlink DEF RelayStep
  <2>5. CASE RelayRestart \/ (\E q \in queue : ExpireRow(q)) \/ UNCHANGED vars
    BY <1>n, <2>5, QuietDownlink
  <2> QED BY <2>1, <2>2, <2>3, <2>4, <2>5 DEF Next
<1> QED BY <1>s, <1>u, <1>d DEF NothingStranded

LEMMA StrandedInvariance == Spec => [](SocksInv /\ NothingStranded)
<1>1. Init => CustodyInv /\ SocksInv /\ NothingStranded
  <2> SUFFICES ASSUME Init PROVE CustodyInv /\ SocksInv /\ NothingStranded
    OBVIOUS
  <2>1. CustodyInv
    BY DEF Init, CustodyInv
  <2>2. SocksInv
    BY SocketShape DEF Init, SocksInv
  <2> QED BY <2>1, <2>2 DEF Init, NothingStranded, NoStrandedUplink, NoStrandedDownlink
<1>2. Inv /\ CustodyInv /\ SocksInv /\ NothingStranded /\ [Next]_vars
        => (CustodyInv /\ SocksInv /\ NothingStranded)'
  BY NextCustody, NextStranded
<1> QED BY <1>1, <1>2, Invariance, PTL DEF Spec

\* sendJson against onOpen and resendUnacked: on a working, opened connection
\* every unconfirmed envelope is still to be sent by its thread, on its way
\* up, or its relay_rcvd on its way down; no cancelled socket's callback can
\* leave one behind that only the next reconnection would send.
THEOREM NothingStrandedUp == Spec => []NoStrandedUplink
  BY StrandedInvariance, PTL DEF NothingStranded

\* flushQueue against the forwarding of new rows: on a working authenticated
\* socket every stored row of its owner is on its way down, or its relay_ack
\* on its way up.
THEOREM NothingStrandedDown == Spec => []NoStrandedDownlink
  BY StrandedInvariance, PTL DEF NothingStranded
=============================================================================
