-------------------------- MODULE HandshakeProofs ---------------------------
(***************************************************************************)
(* Proofs about Handshake for every set of devices and texts and every     *)
(* value of the bounds: types, that no handshake is accepted twice or rolls*)
(* a session back, that one-time keys suffice, and that the sessions of a  *)
(* pair agree.  At the end, what KeyExchange promises for any keys.        *)
(***************************************************************************)
EXTENDS Handshake, TLAPS

Numbers == Nat \X Nat
Handshakes == [from : Devices, to : Devices, opk : Numbers, text : Texts]
Frames == [kind : {"init", "chat"}, hs : Nat, text : Texts]
Pcs == {"start", "keys", "mark", "burn", "store", "show"}
Jobs == [no : Nat, kind : {"init", "chat"}, hs : Nat, text : Texts, pc : Pcs]
Snapshots == [opks : SUBSET Opks, full : BOOLEAN]
Answers == [of : Devices, opk : Numbers, keys : BOOLEAN]

\* What the values are made of.
Shapes ==
  /\ identity \subseteq Devices
  /\ opks \in [Devices -> SUBSET Opks]
  /\ version \in [Devices -> 0..MaxVersion]
  /\ session \in [Devices -> [Devices -> Nat]]
  /\ seen \in [Devices -> SUBSET Nat]
  /\ pending \in [Devices -> [Devices -> Texts \cup {None}]]
  /\ stage \in [Texts -> Stages]
  /\ with \in [Texts -> Numbers]
  /\ jobs \in [Devices -> SUBSET Jobs]
  /\ upload \in [Devices -> SUBSET Snapshots]
  /\ responses \in [Devices -> Seq(Answers)]
  /\ wire \in [Devices -> Seq(Frames)]
  /\ pool \in [Devices -> SUBSET Opks]
  /\ listed \subseteq Devices
  /\ made \in Seq(Handshakes)
  /\ arrived \in [Devices -> Nat]

\* A frame or coroutine at d names a handshake that was built, for d if it is
\* an INITIAL_HANDSHAKE.
Addressed(d, f) ==
  /\ f.hs \in DOMAIN made
  /\ f.kind = "init" => made[f.hs].to = d

FramesAddressed == \A d \in Devices : \A i \in DOMAIN wire[d] : Addressed(d, wire[d][i])
JobsAddressed == \A d \in Devices : \A j \in jobs[d] : Addressed(d, j)
NumbersKnown ==
  /\ \A d, p \in Devices : session[d][p] \in 0..Len(made)
  /\ \A d \in Devices : seen[d] \subseteq DOMAIN made
  /\ stored \subseteq DOMAIN made /\ failed \subseteq DOMAIN made

\* A text is built into a handshake once, and its coroutine knows which.
CoroutinesKnow ==
  \A t \in Texts :
    /\ stage[t] \in {"composed", "built", "out"} => with[t][1] \in DOMAIN made
    /\ stage[t] = "built" => made[with[t][1]].text = t
BuiltOnce ==
  \A n \in DOMAIN made :
    /\ stage[made[n].text] \in {"built", "out", "lost"}
    /\ with[made[n].text][1] = n
    /\ made[n].to = To[made[n].text]
StashKnown ==
  \A d, p \in Devices :
    pending[d][p] # None => /\ From[pending[d][p]] = d /\ To[pending[d][p]] = p
                            /\ stage[pending[d][p]] = "asked"
TextsKnown == CoroutinesKnow /\ BuiltOnce /\ StashKnown

\* markSeen comes before, and the session after, everything a coroutine does
\* for a handshake it has accepted.
SeenFirst ==
  /\ \A d \in Devices : \A j \in jobs[d] :
       Accepting(j) => j.hs \in seen[d] /\ j.hs \notin stored
  /\ \A n \in stored : n \in seen[made[n].to]

Known == NumbersKnown /\ FramesAddressed /\ JobsAddressed /\ TextsKnown
HInv == Shapes /\ Known /\ SeenFirst /\ AcceptedOnce

-----------------------------------------------------------------------------
\* What the updates of jobs and wire give.
LEMMA JobUpdates ==
  ASSUME jobs \in [Devices -> SUBSET Jobs], NEW d \in Devices, NEW j \in jobs[d]
  PROVE  /\ j \in Jobs
         /\ Ended(d, j) \in [Devices -> SUBSET Jobs]
         /\ \A pc \in Pcs : /\ [j EXCEPT !.pc = pc] \in Jobs
                            /\ [j EXCEPT !.pc = pc].pc = pc
                            /\ Moved(d, j, pc) \in [Devices -> SUBSET Jobs]
<1>1. j \in Jobs
  OBVIOUS
<1>2. ASSUME NEW pc \in Pcs PROVE [j EXCEPT !.pc = pc] \in Jobs /\ [j EXCEPT !.pc = pc].pc = pc
  BY <1>1 DEF Jobs
<1>3. Ended(d, j) \in [Devices -> SUBSET Jobs]
  BY DEF Ended
<1>4. ASSUME NEW pc \in Pcs PROVE Moved(d, j, pc) \in [Devices -> SUBSET Jobs]
  <2>1. PICK k \in Jobs : k = [j EXCEPT !.pc = pc]
    BY <1>2
  <2>2. Moved(d, j, pc) = [jobs EXCEPT ![d] = (jobs[d] \ {j}) \cup {k}]
    BY <2>1 DEF Moved
  <2> QED BY <2>1, <2>2
<1> QED BY <1>1, <1>2, <1>3, <1>4

LEMMA WireAppend ==
  ASSUME wire \in [Devices -> Seq(Frames)], NEW d \in Devices, NEW f \in Frames,
         NEW w, w = [wire EXCEPT ![d] = Append(@, f)]
  PROVE  /\ w \in [Devices -> Seq(Frames)]
         /\ \A p \in Devices : \A i \in DOMAIN w[p] :
              \/ p = d /\ w[p][i] = f
              \/ i \in DOMAIN wire[p] /\ w[p][i] = wire[p][i]
<1>1. Append(wire[d], f) \in Seq(Frames)
  OBVIOUS
<1>2. \A i \in DOMAIN Append(wire[d], f) :
        Append(wire[d], f)[i] = f \/ (i \in DOMAIN wire[d] /\ Append(wire[d], f)[i] = wire[d][i])
  OBVIOUS
<1>3. w[d] = Append(wire[d], f) /\ \A p \in Devices \ {d} : w[p] = wire[p]
  OBVIOUS
<1> QED BY <1>1, <1>2, <1>3

\* Every step keeps the shapes.
LEMMA ShapesStep ==
  ASSUME Shapes, [Next]_vars PROVE Shapes'
<1>1. ASSUME NEW d \in Devices, Identify(d) PROVE Shapes'
  BY <1>1, TextsAssumption, BoundsAssumption DEF Identify, Shapes, database, memory, network, relay, ghosts
<1>2. ASSUME NEW d \in Devices, Bootstrap(d) PROVE Shapes'
  <2>1. version[d] \in Nat /\ version[d] < MaxVersion /\ MaxVersion \in Nat
    BY <1>2, BoundsAssumption DEF Bootstrap, Shapes
  <2>2. version' \in [Devices -> 0..MaxVersion]
    BY <1>2, <2>1 DEF Bootstrap, Shapes
  <2>3. FreeIds(opks[d]) \X {version[d] + 1} \subseteq Opks
    BY <2>1, BoundsAssumption DEF FreeIds, Opks
  <2>4. opks' \in [Devices -> SUBSET Opks]
    BY <1>2, <2>3 DEF Bootstrap, Shapes
  <2> QED
    BY <1>2, <2>2, <2>4 DEF Bootstrap, Shapes, database, memory, network, relay, ghosts
<1>3. ASSUME NEW d \in Devices, Publish(d) PROVE Shapes'
  BY <1>3, TextsAssumption, BoundsAssumption DEF Publish, Shapes, database, memory, network, relay, ghosts, Snapshots
<1>4. ASSUME NEW d \in Devices, RelayUpload(d) PROVE Shapes'
  BY <1>4, TextsAssumption, BoundsAssumption DEF RelayUpload, Shapes, database, memory, network, relay, ghosts, Snapshots
<1>5. ASSUME NEW d \in Devices, OnResponse(d) PROVE Shapes'
  <2>1. responses[d] \in Seq(Answers) /\ Tail(responses[d]) \in Seq(Answers)
        /\ Head(responses[d]) \in Answers
    BY <1>5 DEF OnResponse, Shapes
  <2>2. Head(responses[d]).of \in Devices /\ Head(responses[d]).opk \in Numbers
    BY <2>1 DEF Answers
  <2>3. responses' \in [Devices -> Seq(Answers)]
    BY <1>5, <2>1 DEF OnResponse, Shapes
  <2>4. pending' \in [Devices -> [Devices -> Texts \cup {None}]]
    BY <1>5, <2>2 DEF OnResponse, Shapes
  <2>5. stage' \in [Texts -> Stages] /\ with' \in [Texts -> Numbers]
    BY <1>5, <2>2 DEF OnResponse, Shapes, Stages
  <2> QED BY <1>5, <2>3, <2>4, <2>5 DEF OnResponse, Shapes, database, memory, network, relay, ghosts
<1>6. ASSUME NEW d \in Devices, OnFrame(d) PROVE Shapes'
  <2>1. wire[d] \in Seq(Frames) /\ Tail(wire[d]) \in Seq(Frames) /\ Head(wire[d]) \in Frames
    BY <1>6 DEF OnFrame, Shapes
  <2>2. arrived[d] + 1 \in Nat
    BY DEF Shapes
  <2>3. Job(arrived[d] + 1, Head(wire[d]), "start") \in Jobs
    BY <2>1, <2>2 DEF Job, Jobs, Frames, Pcs
  <2>4. wire' \in [Devices -> Seq(Frames)]
    BY <1>6, <2>1 DEF OnFrame, Shapes
  <2>5. jobs' \in [Devices -> SUBSET Jobs]
    BY <1>6, <2>3 DEF OnFrame, Shapes
  <2> QED BY <1>6, <2>2, <2>4, <2>5 DEF OnFrame, Shapes, database, memory, network, relay, ghosts
<1>7. ASSUME NEW d \in Devices, Kill(d) PROVE Shapes'
  BY <1>7, TextsAssumption, BoundsAssumption DEF Kill, Shapes, database, memory, network, relay, ghosts, Fault, Stages
<1>8. ASSUME NEW d \in Devices, Disconnect(d) PROVE Shapes'
  BY <1>8, TextsAssumption, BoundsAssumption DEF Disconnect, Shapes, database, memory, network, relay, ghosts, Fault
<1>9. ASSUME NEW d \in Devices, Reset(d) PROVE Shapes'
  BY <1>9, TextsAssumption, BoundsAssumption DEF Reset, Shapes, database, memory, network, relay, ghosts, Fault
<1>10. ASSUME NEW d \in Devices, NEW p \in Devices, RelayRequest(d, p) PROVE Shapes'
  <2>1. PICK k \in IF pool[p] = {} THEN {NoOpk} ELSE pool[p] :
          /\ pool' = [pool EXCEPT ![p] = @ \ {k}]
          /\ responses' = [responses EXCEPT ![d] =
               Append(@, [of |-> p, opk |-> k, keys |-> p \in listed])]
    BY <1>10 DEF RelayRequest
  <2>2. k \in Numbers
    <3>1. k \in Opks \/ k = NoOpk
      BY DEF Shapes
    <3> QED BY <3>1, BoundsAssumption DEF Opks, NoOpk, Numbers
  <2>3. [of |-> p, opk |-> k, keys |-> p \in listed] \in Answers
    BY <2>2 DEF Answers
  <2>4. responses' \in [Devices -> Seq(Answers)]
    <3>1. PICK x \in Answers : x = [of |-> p, opk |-> k, keys |-> p \in listed]
      BY <2>3
    <3>2. responses' = [responses EXCEPT ![d] = Append(@, x)]
      BY <2>1, <3>1
    <3> QED BY <3>1, <3>2 DEF Shapes
  <2>5. pool' \in [Devices -> SUBSET Opks]
    BY <2>1 DEF Shapes
  <2> QED BY <1>10, <2>4, <2>5 DEF RelayRequest, Shapes, database, memory, network, relay, ghosts
<1>11. ASSUME NEW d \in Devices, NEW j \in jobs[d], CheckSeen(d, j) PROVE Shapes'
  <2>1. jobs' \in [Devices -> SUBSET Jobs] /\ j \in Jobs
    BY <1>11, JobUpdates DEF CheckSeen, Shapes, Pcs
  <2>2. j.hs \in Nat
    BY <2>1 DEF Jobs
  <2> QED BY <1>11, <2>1, <2>2 DEF CheckSeen, Shapes, database, memory, network, relay, ghosts
<1>12. ASSUME NEW d \in Devices, NEW j \in jobs[d], Derive(d, j) PROVE Shapes'
  <2>1. jobs' \in [Devices -> SUBSET Jobs] /\ j \in Jobs
    BY <1>12, JobUpdates DEF Derive, Shapes, Pcs
  <2>2. j.hs \in Nat
    BY <2>1 DEF Jobs
  <2> QED BY <1>12, <2>1, <2>2 DEF Derive, Shapes, database, memory, network, relay, ghosts
<1>13. ASSUME NEW d \in Devices, NEW j \in jobs[d], MarkSeen(d, j) PROVE Shapes'
  <2>1. jobs' \in [Devices -> SUBSET Jobs] /\ j \in Jobs
    BY <1>13, JobUpdates DEF MarkSeen, Shapes, Pcs
  <2>2. j.hs \in Nat
    BY <2>1 DEF Jobs
  <2> QED BY <1>13, <2>1, <2>2 DEF MarkSeen, Shapes, database, memory, network, relay, ghosts
<1>14. ASSUME NEW d \in Devices, NEW j \in jobs[d], BurnOpk(d, j) PROVE Shapes'
  <2>1. jobs' \in [Devices -> SUBSET Jobs] /\ j \in Jobs
    BY <1>14, JobUpdates DEF BurnOpk, Shapes, Pcs
  <2>2. j.hs \in Nat
    BY <2>1 DEF Jobs
  <2> QED BY <1>14, <2>1, <2>2 DEF BurnOpk, Shapes, database, memory, network, relay, ghosts
<1>15. ASSUME NEW d \in Devices, NEW j \in jobs[d], StoreSession(d, j) PROVE Shapes'
  <2>1. jobs' \in [Devices -> SUBSET Jobs] /\ j \in Jobs
    BY <1>15, JobUpdates DEF StoreSession, Shapes, Pcs
  <2>2. j.hs \in Nat
    BY <2>1 DEF Jobs
  <2>3. session' \in [Devices -> [Devices -> Nat]]
    BY <1>15, <2>2 DEF StoreSession, Shapes
  <2> QED BY <1>15, <2>1, <2>3 DEF StoreSession, Shapes, database, memory, network, relay, ghosts
<1>16. ASSUME NEW d \in Devices, NEW j \in jobs[d], ReadSessions(d, j) PROVE Shapes'
  <2>1. jobs' \in [Devices -> SUBSET Jobs] /\ j \in Jobs
    BY <1>16, JobUpdates DEF ReadSessions, Shapes, Pcs
  <2>2. j.hs \in Nat
    BY <2>1 DEF Jobs
  <2> QED BY <1>16, <2>1, <2>2 DEF ReadSessions, Shapes, database, memory, network, relay, ghosts
<1>17. ASSUME NEW d \in Devices, NEW j \in jobs[d], Show(d, j) PROVE Shapes'
  <2>1. jobs' \in [Devices -> SUBSET Jobs] /\ j \in Jobs
    BY <1>17, JobUpdates DEF Show, Shapes, Pcs
  <2>2. j.hs \in Nat
    BY <2>1 DEF Jobs
  <2> QED BY <1>17, <2>1, <2>2 DEF Show, Shapes, database, memory, network, relay, ghosts
<1>18. ASSUME NEW t \in Texts, Look(t) PROVE Shapes'
  BY <1>18, TextsAssumption, BoundsAssumption DEF Look, Shapes, database, memory, network, relay, ghosts, Stages
<1>19. ASSUME NEW t \in Texts, Compose(t) PROVE Shapes'
  <2>1. From[t] \in Devices /\ To[t] \in Devices
    BY TextsAssumption
  <2>2. session[From[t]][To[t]] \in Nat
    BY <2>1 DEF Shapes
  <2>3. with' \in [Texts -> Numbers]
    BY <1>19, <2>2 DEF Compose, Shapes, Numbers
  <2> QED BY <1>19, <2>3 DEF Compose, Shapes, Stages, database, memory, network, relay, ghosts
<1>20. ASSUME NEW t \in Texts, EmitChat(t) PROVE Shapes'
  <2>1. wire' \in [Devices -> Seq(Frames)]
    <3>1. To[t] \in Devices /\ with[t][1] \in Nat
      BY TextsAssumption DEF Shapes, Numbers
    <3>2. Frame("init", with[t][1], t) \in Frames /\ Frame("chat", with[t][1], t) \in Frames
      BY <3>1 DEF Frame, Frames
    <3> QED BY <1>20, <3>1, <3>2, WireAppend DEF EmitChat, Shapes
  <2> QED BY <1>20, <2>1 DEF EmitChat, Shapes, Stages, Fault, database, memory, network, relay, ghosts
<1>21. ASSUME NEW t \in Texts, Ask(t) PROVE Shapes'
  BY <1>21, TextsAssumption, BoundsAssumption DEF Ask, Shapes, database, memory, network, relay, ghosts, Stages
<1>22. ASSUME NEW t \in Texts, Build(t) PROVE Shapes'
  <2>1. From[t] \in Devices /\ To[t] \in Devices /\ Len(made) + 1 \in Nat
    BY TextsAssumption DEF Shapes
  <2>2. [from |-> From[t], to |-> To[t], opk |-> with[t], text |-> t] \in Handshakes
    BY <2>1 DEF Shapes, Handshakes
  <2>3. made' \in Seq(Handshakes)
    <3>1. PICK h \in Handshakes : h = [from |-> From[t], to |-> To[t], opk |-> with[t], text |-> t]
      BY <2>2
    <3>2. made' = Append(made, h)
      BY <1>22, <3>1 DEF Build
    <3> QED BY <3>1, <3>2 DEF Shapes
  <2>4. with' \in [Texts -> Numbers]
    <3>1. <<Len(made) + 1, 0>> \in Numbers
      BY <2>1 DEF Numbers
    <3> QED BY <1>22, <3>1 DEF Build, Shapes
  <2>5. session' \in [Devices -> [Devices -> Nat]]
    BY <1>22, <2>1 DEF Build, Shapes
  <2> QED BY <1>22, <2>3, <2>4, <2>5 DEF Build, Shapes, Stages, database, memory, network, relay, ghosts
<1>23. ASSUME NEW t \in Texts, BuildFails(t) PROVE Shapes'
  BY <1>23, TextsAssumption, BoundsAssumption DEF BuildFails, Shapes, database, memory, network, relay, ghosts, Stages
<1>24. ASSUME NEW t \in Texts, EmitInitial(t) PROVE Shapes'
  <2>1. wire' \in [Devices -> Seq(Frames)]
    <3>1. To[t] \in Devices /\ with[t][1] \in Nat
      BY TextsAssumption DEF Shapes, Numbers
    <3>2. Frame("init", with[t][1], t) \in Frames /\ Frame("chat", with[t][1], t) \in Frames
      BY <3>1 DEF Frame, Frames
    <3> QED BY <1>24, <3>1, <3>2, WireAppend DEF EmitInitial, Shapes
  <2> QED BY <1>24, <2>1 DEF EmitInitial, Shapes, Stages, Fault, database, memory, network, relay, ghosts
<1>25. ASSUME NEW t \in Texts, Redeliver(t) PROVE Shapes'
  <2>1. wire' \in [Devices -> Seq(Frames)]
    <3>1. To[t] \in Devices /\ with[t][1] \in Nat
      BY TextsAssumption DEF Shapes, Numbers
    <3>2. Frame("init", with[t][1], t) \in Frames /\ Frame("chat", with[t][1], t) \in Frames
      BY <3>1 DEF Frame, Frames
    <3> QED BY <1>25, <3>1, <3>2, WireAppend DEF Redeliver, Shapes
  <2> QED BY <1>25, <2>1 DEF Redeliver, Shapes, Stages, Fault, database, memory, network, relay, ghosts
<1>26. CASE UNCHANGED vars
  BY <1>26 DEF Shapes, vars, database, memory, network, relay, ghosts
<1> QED
  BY <1>1, <1>2, <1>3, <1>4, <1>5, <1>6, <1>7, <1>8, <1>9, <1>10, <1>11, <1>12,
     <1>13, <1>14, <1>15, <1>16, <1>17, <1>18, <1>19, <1>20, <1>21, <1>22,
     <1>23, <1>24, <1>25, <1>26 DEF Next, JobStep

LEMMA MovedElements ==
  ASSUME jobs \in [Devices -> SUBSET Jobs], NEW d \in Devices, NEW j \in jobs[d], NEW pc \in Pcs,
         jobs' = Ended(d, j) \/ jobs' = Moved(d, j, pc)
  PROVE  \A p \in Devices : \A i \in jobs'[p] :
           \/ i \in jobs[p] /\ (p = d => i # j)
           \/ p = d /\ jobs' = Moved(d, j, pc) /\ i = [j EXCEPT !.pc = pc]
BY DEF Ended, Moved

\* jobs' holds coroutines of before, with the same handshake and kind.
LEMMA StillAddressed ==
  ASSUME JobsAddressed, made' = made,
         \A d \in Devices : \A i \in jobs'[d] :
           \E j \in jobs[d] : i.hs = j.hs /\ i.kind = j.kind
  PROVE  JobsAddressed'
BY DEF JobsAddressed, Addressed

\* A coroutine that ends or moves on keeps its handshake.
LEMMA JobsMoved ==
  ASSUME Shapes, JobsAddressed, made' = made, NEW d \in Devices, NEW j \in jobs[d],
         NEW pc \in Pcs, jobs' = Ended(d, j) \/ jobs' = Moved(d, j, pc)
  PROVE  JobsAddressed'
<1>1. \A p \in Devices : \A i \in jobs'[p] :
        i \in jobs[p] \/ (p = d /\ i = [j EXCEPT !.pc = pc])
  BY MovedElements DEF Shapes
<1>2. j \in Jobs
  BY DEF Shapes
<1>3. [j EXCEPT !.pc = pc].hs = j.hs /\ [j EXCEPT !.pc = pc].kind = j.kind
  BY <1>2 DEF Jobs
<1> QED BY <1>1, <1>3, StillAddressed

\* A frame that is appended names a handshake its text knows.
LEMMA FrameAdded ==
  ASSUME Shapes, Known, made' = made, NEW t \in Texts, NEW kind \in {"init", "chat"},
         with[t][1] \in DOMAIN made, kind = "init" => made[with[t][1]].to = To[t],
         wire' = [wire EXCEPT ![To[t]] = Append(@, Frame(kind, with[t][1], t))]
  PROVE  FramesAddressed'
<1>1. To[t] \in Devices /\ with[t][1] \in Nat
  BY TextsAssumption DEF Shapes, Numbers
<1>2. PICK f \in Frames : f = Frame(kind, with[t][1], t)
  BY <1>1 DEF Frame, Frames
<1>3. f.hs = with[t][1] /\ f.kind = kind
  BY <1>2 DEF Frame
<1>4. \A p \in Devices : \A i \in DOMAIN wire'[p] :
        \/ p = To[t] /\ wire'[p][i] = f
        \/ i \in DOMAIN wire[p] /\ wire'[p][i] = wire[p][i]
  BY <1>1, <1>2, WireAppend DEF Shapes
<1> QED BY <1>3, <1>4 DEF Known, FramesAddressed, Addressed

\* Handshakes carry texts, the stash holds texts.
LEMMA TextsOfHandshakes ==
  ASSUME Shapes
  PROVE  /\ \A n \in DOMAIN made : made[n].text \in Texts /\ made[n].to \in Devices
         /\ \A d, p \in Devices : pending[d][p] \in Texts \cup {None}
         /\ DOMAIN made = 1..Len(made) /\ Len(made) \in Nat
<1>1. made \in Seq(Handshakes)
  BY DEF Shapes
<1>2. \A n \in DOMAIN made : made[n] \in Handshakes
  BY <1>1
<1>3. \A h \in Handshakes : h.text \in Texts /\ h.to \in Devices
  BY DEF Handshakes
<1>4. \A d, p \in Devices : pending[d][p] \in Texts \cup {None}
  BY DEF Shapes
<1> QED BY <1>1, <1>2, <1>3, <1>4

\* A step of one text: what it must not disturb.
LEMMA OneText ==
  ASSUME Shapes, TextsKnown, NEW t \in Texts, made' = made, StashKnown',
         \A u \in Texts \ {t} : stage'[u] = stage[u] /\ with'[u] = with[u],
         stage'[t] \in {"composed", "built", "out"} => with'[t][1] \in DOMAIN made,
         stage'[t] = "built" => made[with'[t][1]].text = t,
         stage[t] \in {"built", "out", "lost"} =>
           stage'[t] \in {"built", "out", "lost"} /\ with'[t] = with[t]
  PROVE  TextsKnown'
<1>1. CoroutinesKnow'
  BY DEF TextsKnown, CoroutinesKnow
<1>2. BuiltOnce'
  BY TextsOfHandshakes DEF TextsKnown, BuiltOnce
<1> QED BY <1>1, <1>2 DEF TextsKnown

\* The stash stays as it is while no text leaves the stage "asked".
LEMMA SameStash ==
  ASSUME Shapes, TextsKnown, pending' = pending,
         \A u \in Texts : stage[u] = "asked" => stage'[u] = "asked"
  PROVE  StashKnown'
<1>1. \A d, p \in Devices : pending[d][p] \in Texts \cup {None}
  BY TextsOfHandshakes
<1> QED BY <1>1 DEF TextsKnown, StashKnown

\* Parts of Known stay while nothing they speak of changes.
LEMMA Undisturbed ==
  ASSUME Known, made' = made
  PROVE  /\ UNCHANGED <<session, seen, stored, failed>> => NumbersKnown'
         /\ UNCHANGED wire => FramesAddressed'
         /\ UNCHANGED jobs => JobsAddressed'
         /\ UNCHANGED <<stage, with, pending>> => TextsKnown'
BY DEF Known, NumbersKnown, FramesAddressed, JobsAddressed, Addressed, TextsKnown,
       CoroutinesKnow, BuiltOnce, StashKnown

\* Every step keeps what frames, coroutines and texts know of handshakes.
LEMMA KnownStep ==
  ASSUME Shapes, Known, [Next]_vars PROVE Known'

<1>1. ASSUME NEW d \in Devices, Identify(d) PROVE Known'
  BY <1>1, Undisturbed DEF Identify, Known, Fault, database, memory, network, relay, ghosts
<1>2. ASSUME NEW d \in Devices, Bootstrap(d) PROVE Known'
  BY <1>2, Undisturbed DEF Bootstrap, Known, Fault, database, memory, network, relay, ghosts
<1>3. ASSUME NEW d \in Devices, Publish(d) PROVE Known'
  BY <1>3, Undisturbed DEF Publish, Known, Fault, database, memory, network, relay, ghosts
<1>4. ASSUME NEW d \in Devices, RelayUpload(d) PROVE Known'
  BY <1>4, Undisturbed DEF RelayUpload, Known, Fault, database, memory, network, relay, ghosts
<1>5. ASSUME NEW d \in Devices, Disconnect(d) PROVE Known'
  BY <1>5, Undisturbed DEF Disconnect, Known, Fault, database, memory, network, relay, ghosts
<1>6. ASSUME NEW d \in Devices, NEW p \in Devices, RelayRequest(d, p) PROVE Known'
  BY <1>6, Undisturbed DEF RelayRequest, Known, database, memory, network, relay, ghosts
<1>7. ASSUME NEW d \in Devices, Reset(d) PROVE Known'
  <2>1. NumbersKnown'
    BY <1>7 DEF Reset, Known, NumbersKnown, Shapes, database, memory, network, relay, ghosts
  <2> QED BY <1>7, <2>1, Undisturbed DEF Reset, Known, database, memory, network, relay, ghosts
<1>8. ASSUME NEW d \in Devices, NEW j \in jobs[d], CheckSeen(d, j) PROVE Known'
  <2>1. made' = made /\ (jobs' = Ended(d, j) \/ jobs' = Moved(d, j, "keys"))
    BY <1>8 DEF CheckSeen, database, memory, network, relay, ghosts
  <2>2. JobsAddressed'
    BY <2>1, JobsMoved DEF Known, Pcs
  <2> QED BY <1>8, <2>1, <2>2, Undisturbed DEF CheckSeen, Known, database, memory, network, relay, ghosts
<1>9. ASSUME NEW d \in Devices, NEW j \in jobs[d], Derive(d, j) PROVE Known'
  <2>1. made' = made /\ (jobs' = Ended(d, j) \/ jobs' = Moved(d, j, "mark"))
    BY <1>9 DEF Derive, database, memory, network, relay, ghosts
  <2>2. JobsAddressed'
    BY <2>1, JobsMoved DEF Known, Pcs
  <2>3. NumbersKnown'
    <3>1. j.hs \in DOMAIN made /\ j.hs \in 0..Len(made)
      BY TextsOfHandshakes DEF Known, JobsAddressed, Addressed
    <3> QED BY <1>9, <3>1 DEF Derive, Known, NumbersKnown, Shapes, database, memory, network, relay, ghosts
  <2> QED BY <1>9, <2>1, <2>2, <2>3, Undisturbed DEF Derive, Known, database, memory, network, relay, ghosts
<1>10. ASSUME NEW d \in Devices, NEW j \in jobs[d], MarkSeen(d, j) PROVE Known'
  <2>1. made' = made /\ (jobs' = Ended(d, j) \/ jobs' = Moved(d, j, "burn"))
    BY <1>10 DEF MarkSeen, database, memory, network, relay, ghosts
  <2>2. JobsAddressed'
    BY <2>1, JobsMoved DEF Known, Pcs
  <2>3. NumbersKnown'
    <3>1. j.hs \in DOMAIN made /\ j.hs \in 0..Len(made)
      BY TextsOfHandshakes DEF Known, JobsAddressed, Addressed
    <3> QED BY <1>10, <3>1 DEF MarkSeen, Known, NumbersKnown, Shapes, database, memory, network, relay, ghosts
  <2> QED BY <1>10, <2>1, <2>2, <2>3, Undisturbed DEF MarkSeen, Known, database, memory, network, relay, ghosts
<1>11. ASSUME NEW d \in Devices, NEW j \in jobs[d], BurnOpk(d, j) PROVE Known'
  <2>1. made' = made /\ (jobs' = Ended(d, j) \/ jobs' = Moved(d, j, "store"))
    BY <1>11 DEF BurnOpk, database, memory, network, relay, ghosts
  <2>2. JobsAddressed'
    BY <2>1, JobsMoved DEF Known, Pcs
  <2> QED BY <1>11, <2>1, <2>2, Undisturbed DEF BurnOpk, Known, database, memory, network, relay, ghosts
<1>12. ASSUME NEW d \in Devices, NEW j \in jobs[d], StoreSession(d, j) PROVE Known'
  <2>1. made' = made /\ (jobs' = Ended(d, j) \/ jobs' = Moved(d, j, "show"))
    BY <1>12 DEF StoreSession, database, memory, network, relay, ghosts
  <2>2. JobsAddressed'
    BY <2>1, JobsMoved DEF Known, Pcs
  <2>3. NumbersKnown'
    <3>1. j.hs \in DOMAIN made /\ j.hs \in 0..Len(made)
      BY TextsOfHandshakes DEF Known, JobsAddressed, Addressed
    <3> QED BY <1>12, <3>1 DEF StoreSession, Known, NumbersKnown, Shapes, database, memory, network, relay, ghosts
  <2> QED BY <1>12, <2>1, <2>2, <2>3, Undisturbed DEF StoreSession, Known, database, memory, network, relay, ghosts
<1>13. ASSUME NEW d \in Devices, NEW j \in jobs[d], ReadSessions(d, j) PROVE Known'
  <2>1. made' = made /\ (jobs' = Ended(d, j) \/ jobs' = Moved(d, j, "show"))
    BY <1>13 DEF ReadSessions, database, memory, network, relay, ghosts
  <2>2. JobsAddressed'
    BY <2>1, JobsMoved DEF Known, Pcs
  <2> QED BY <1>13, <2>1, <2>2, Undisturbed DEF ReadSessions, Known, database, memory, network, relay, ghosts
<1>14. ASSUME NEW d \in Devices, NEW j \in jobs[d], Show(d, j) PROVE Known'
  <2>1. made' = made /\ (jobs' = Ended(d, j) \/ jobs' = Moved(d, j, "show"))
    BY <1>14 DEF Show, database, memory, network, relay, ghosts
  <2>2. JobsAddressed'
    BY <2>1, JobsMoved DEF Known, Pcs
  <2> QED BY <1>14, <2>1, <2>2, Undisturbed DEF Show, Known, database, memory, network, relay, ghosts
<1>15. ASSUME NEW t \in Texts, Look(t) PROVE Known'
  <2>1. TextsKnown'
    <3>1. /\ made' = made /\ pending' = pending
          /\ \A u \in Texts \ {t} : stage'[u] = stage[u] /\ with'[u] = with[u]
      BY <1>15 DEF Look, Shapes, database, memory, network, relay, ghosts
    <3>2. stage[t] # "asked"
      BY <1>15 DEF Look
    <3>3. StashKnown'
      BY <3>1, <3>2, SameStash DEF Known
    <3>4. stage[t] \in {"composed", "built"} => with[t][1] \in DOMAIN made
      BY DEF Known, TextsKnown, CoroutinesKnow
    <3>5. /\ stage'[t] \in {"composed", "built", "out"} => with'[t][1] \in DOMAIN made
          /\ stage'[t] # "built" /\ stage[t] # "lost" /\ stage[t] # "out"
          /\ stage[t] = "built" => stage'[t] = "out" /\ with' = with
      BY <1>15, <3>4 DEF Look, Shapes, database, memory, network, relay, ghosts
    <3> QED BY <3>1, <3>3, <3>5, OneText DEF Known
  <2> QED BY <1>15, <2>1, Undisturbed DEF Look, Known, database, memory, network, relay, ghosts
<1>16. ASSUME NEW t \in Texts, Compose(t) PROVE Known'
  <2>1. TextsKnown'
    <3>1. /\ made' = made /\ pending' = pending
          /\ \A u \in Texts \ {t} : stage'[u] = stage[u] /\ with'[u] = with[u]
      BY <1>16 DEF Compose, Shapes, database, memory, network, relay, ghosts
    <3>2. stage[t] # "asked"
      BY <1>16 DEF Compose
    <3>3. StashKnown'
      BY <3>1, <3>2, SameStash DEF Known
    <3>4. session[From[t]][To[t]] \in 0..Len(made) /\ DOMAIN made = 1..Len(made)
      BY TextsAssumption, TextsOfHandshakes DEF Known, NumbersKnown
    <3>5. /\ stage'[t] \in {"composed", "built", "out"} => with'[t][1] \in DOMAIN made
          /\ stage'[t] # "built" /\ stage[t] # "lost" /\ stage[t] # "out"
          /\ stage[t] = "built" => stage'[t] = "out" /\ with' = with
      BY <1>16, <3>4 DEF Compose, Shapes, database, memory, network, relay, ghosts
    <3> QED BY <3>1, <3>3, <3>5, OneText DEF Known
  <2> QED BY <1>16, <2>1, Undisturbed DEF Compose, Known, database, memory, network, relay, ghosts
<1>17. ASSUME NEW t \in Texts, BuildFails(t) PROVE Known'
  <2>1. TextsKnown'
    <3>1. /\ made' = made /\ pending' = pending
          /\ \A u \in Texts \ {t} : stage'[u] = stage[u] /\ with'[u] = with[u]
      BY <1>17 DEF BuildFails, Shapes, database, memory, network, relay, ghosts
    <3>2. stage[t] # "asked"
      BY <1>17 DEF BuildFails
    <3>3. StashKnown'
      BY <3>1, <3>2, SameStash DEF Known
    <3>4. stage[t] \in {"composed", "built"} => with[t][1] \in DOMAIN made
      BY DEF Known, TextsKnown, CoroutinesKnow
    <3>5. /\ stage'[t] \in {"composed", "built", "out"} => with'[t][1] \in DOMAIN made
          /\ stage'[t] # "built" /\ stage[t] # "lost" /\ stage[t] # "out"
          /\ stage[t] = "built" => stage'[t] = "out" /\ with' = with
      BY <1>17, <3>4 DEF BuildFails, Shapes, database, memory, network, relay, ghosts
    <3> QED BY <3>1, <3>3, <3>5, OneText DEF Known
  <2> QED BY <1>17, <2>1, Undisturbed DEF BuildFails, Known, database, memory, network, relay, ghosts
<1>18. ASSUME NEW t \in Texts, EmitChat(t) PROVE Known'
  <2>1. TextsKnown'
    <3>1. /\ made' = made /\ pending' = pending
          /\ \A u \in Texts \ {t} : stage'[u] = stage[u] /\ with'[u] = with[u]
      BY <1>18 DEF EmitChat, Shapes, database, memory, network, relay, ghosts
    <3>2. stage[t] # "asked"
      BY <1>18 DEF EmitChat
    <3>3. StashKnown'
      BY <3>1, <3>2, SameStash DEF Known
    <3>4. stage[t] \in {"composed", "built"} => with[t][1] \in DOMAIN made
      BY DEF Known, TextsKnown, CoroutinesKnow
    <3>5. /\ stage'[t] \in {"composed", "built", "out"} => with'[t][1] \in DOMAIN made
          /\ stage'[t] # "built" /\ stage[t] # "lost" /\ stage[t] # "out"
          /\ stage[t] = "built" => stage'[t] = "out" /\ with' = with
      BY <1>18, <3>4 DEF EmitChat, Shapes, database, memory, network, relay, ghosts
    <3> QED BY <3>1, <3>3, <3>5, OneText DEF Known
  <2>2. FramesAddressed'
    <3>1. made' = made /\ with[t][1] \in DOMAIN made
      BY <1>18 DEF EmitChat, Known, TextsKnown, CoroutinesKnow, database, memory, network, relay, ghosts
    <3>2. "chat" = "init" => made[with[t][1]].to = To[t]
      BY <1>18, <3>1 DEF EmitChat, Known, TextsKnown, CoroutinesKnow, BuiltOnce
    <3>3. wire' = [wire EXCEPT ![To[t]] = Append(@, Frame("chat", with[t][1], t))]
      BY <1>18 DEF EmitChat
    <3> QED BY <3>1, <3>2, <3>3, FrameAdded
  <2> QED BY <1>18, <2>1, <2>2, Undisturbed DEF EmitChat, Known, database, memory, network, relay, ghosts
<1>19. ASSUME NEW t \in Texts, EmitInitial(t) PROVE Known'
  <2>1. TextsKnown'
    <3>1. /\ made' = made /\ pending' = pending
          /\ \A u \in Texts \ {t} : stage'[u] = stage[u] /\ with'[u] = with[u]
      BY <1>19 DEF EmitInitial, Shapes, database, memory, network, relay, ghosts
    <3>2. stage[t] # "asked"
      BY <1>19 DEF EmitInitial
    <3>3. StashKnown'
      BY <3>1, <3>2, SameStash DEF Known
    <3>4. stage[t] \in {"composed", "built"} => with[t][1] \in DOMAIN made
      BY DEF Known, TextsKnown, CoroutinesKnow
    <3>5. /\ stage'[t] \in {"composed", "built", "out"} => with'[t][1] \in DOMAIN made
          /\ stage'[t] # "built" /\ stage[t] # "lost" /\ stage[t] # "out"
          /\ stage[t] = "built" => stage'[t] = "out" /\ with' = with
      BY <1>19, <3>4 DEF EmitInitial, Shapes, database, memory, network, relay, ghosts
    <3> QED BY <3>1, <3>3, <3>5, OneText DEF Known
  <2>2. FramesAddressed'
    <3>1. made' = made /\ with[t][1] \in DOMAIN made
      BY <1>19 DEF EmitInitial, Known, TextsKnown, CoroutinesKnow, database, memory, network, relay, ghosts
    <3>2. "init" = "init" => made[with[t][1]].to = To[t]
      BY <1>19, <3>1 DEF EmitInitial, Known, TextsKnown, CoroutinesKnow, BuiltOnce
    <3>3. wire' = [wire EXCEPT ![To[t]] = Append(@, Frame("init", with[t][1], t))]
      BY <1>19 DEF EmitInitial
    <3> QED BY <3>1, <3>2, <3>3, FrameAdded
  <2> QED BY <1>19, <2>1, <2>2, Undisturbed DEF EmitInitial, Known, database, memory, network, relay, ghosts
<1>20. ASSUME NEW t \in Texts, Ask(t) PROVE Known'
  <2>1. TextsKnown'
    <3>1. /\ made' = made /\ with' = with /\ stage[t] = "ask" /\ stage'[t] = "asked"
          /\ \A u \in Texts \ {t} : stage'[u] = stage[u]
          /\ pending' = [pending EXCEPT ![From[t]][To[t]] = t]
      BY <1>20 DEF Ask, Shapes, database, memory, network, relay, ghosts
    <3>2. StashKnown'
      <4>1. ASSUME NEW d \in Devices, NEW p \in Devices
            PROVE  \/ d = From[t] /\ p = To[t] /\ pending'[d][p] = t
                   \/ pending'[d][p] = pending[d][p]
        BY <3>1, TextsAssumption DEF Shapes
      <4>2. \A d, p \in Devices : pending[d][p] \in Texts \cup {None}
        BY TextsOfHandshakes
      <4> QED BY <3>1, <4>1, <4>2 DEF Known, TextsKnown, StashKnown
    <3> QED BY <3>1, <3>2, OneText DEF Known
  <2> QED BY <1>20, <2>1, Undisturbed DEF Ask, Known, database, memory, network, relay, ghosts
<1>21. ASSUME NEW t \in Texts, Redeliver(t) PROVE Known'
  <2>1. made' = made /\ with[t][1] \in DOMAIN made
    BY <1>21 DEF Redeliver, Known, TextsKnown, CoroutinesKnow, database, memory, network, relay, ghosts
  <2>2. PICK kind \in {"init", "chat"} :
          /\ kind = "init" => \E m \in DOMAIN made : made[m].text = t
          /\ wire' = [wire EXCEPT ![To[t]] = Append(@, Frame(kind, with[t][1], t))]
    BY <1>21 DEF Redeliver
  <2>3. kind = "init" => made[with[t][1]].to = To[t]
    BY <2>2 DEF Known, TextsKnown, BuiltOnce
  <2>4. FramesAddressed'
    BY <2>1, <2>2, <2>3, FrameAdded
  <2>5. UNCHANGED <<session, seen, stored, failed, jobs, stage, with, pending>>
    BY <1>21 DEF Redeliver, database, memory, network, relay, ghosts
  <2> QED BY <2>1, <2>4, <2>5, Undisturbed DEF Known
<1>22. ASSUME NEW t \in Texts, Build(t) PROVE Known'
  <2>1. made' = Append(made, [from |-> From[t], to |-> To[t], opk |-> with[t], text |-> t])
    BY <1>22 DEF Build
  <2>2. /\ Len(made') = Len(made) + 1 /\ Len(made) \in Nat
        /\ DOMAIN made = 1..Len(made) /\ DOMAIN made' = DOMAIN made \cup {Len(made) + 1}
        /\ \A m \in DOMAIN made : made'[m] = made[m]
        /\ made'[Len(made) + 1].to = To[t] /\ made'[Len(made) + 1].text = t
    BY <2>1 DEF Shapes
  <2>3. NumbersKnown'
    <3>1. \A e, q \in Devices : session'[e][q] \in {session[e][q], Len(made) + 1}
      BY <1>22, TextsAssumption DEF Build, Shapes
    <3>2. \A e, q \in Devices : session'[e][q] \in 0..Len(made')
      BY <3>1, <2>2 DEF Known, NumbersKnown
    <3>3. seen' = seen /\ stored' = stored /\ failed' = failed
      BY <1>22 DEF Build
    <3> QED BY <3>2, <3>3, <2>2 DEF Known, NumbersKnown
  <2>4. FramesAddressed' /\ JobsAddressed'
    BY <1>22, <2>2 DEF Build, Known, FramesAddressed, JobsAddressed, Addressed, network
  <2>5. TextsKnown'
    <3>1. /\ stage[t] = "building" /\ stage'[t] = "built" /\ with'[t][1] = Len(made) + 1
          /\ \A u \in Texts \ {t} : stage'[u] = stage[u] /\ with'[u] = with[u]
          /\ pending' = pending
      BY <1>22 DEF Build, Shapes
    <3>2. StashKnown'
      BY <3>1, SameStash DEF Known
    <3>3. \A m \in DOMAIN made : made[m].text \in Texts \ {t}
      BY <3>1, TextsOfHandshakes DEF Known, TextsKnown, BuiltOnce
    <3>4. CoroutinesKnow'
      BY <3>1, <2>2 DEF Known, TextsKnown, CoroutinesKnow
    <3>5. BuiltOnce'
      BY <3>1, <3>3, <2>2 DEF Known, TextsKnown, BuiltOnce
    <3> QED BY <3>2, <3>4, <3>5 DEF TextsKnown
  <2> QED BY <2>3, <2>4, <2>5 DEF Known
<1>23. ASSUME NEW d \in Devices, OnResponse(d) PROVE Known'
  <2>1. PICK p \in Devices : p = Head(responses[d]).of
    <3>1. Head(responses[d]) \in Answers
      BY <1>23 DEF OnResponse, Shapes
    <3> QED BY <3>1 DEF Answers
  <2>2. made' = made /\ pending' = [pending EXCEPT ![d][p] = None]
    BY <1>23, <2>1 DEF OnResponse, ghosts
  <2>3. \A c, q \in Devices : pending'[c][q] # None =>
          pending'[c][q] = pending[c][q] /\ (c # d \/ q # p)
    BY <2>2 DEF Shapes
  <2>4. TextsKnown'
    <3>1. CASE pending[d][p] = None
      <4>1. stage' = stage /\ with' = with
        BY <1>23, <2>1, <3>1 DEF OnResponse
      <4>2. StashKnown'
        BY <2>3, <4>1 DEF Known, TextsKnown, StashKnown
      <4> QED BY <2>2, <4>1, <4>2 DEF Known, TextsKnown, CoroutinesKnow, BuiltOnce
    <3>2. CASE pending[d][p] # None
      <4>1. PICK t \in Texts : t = pending[d][p]
        BY <3>2, TextsOfHandshakes
      <4>2. From[t] = d /\ To[t] = p /\ stage[t] = "asked"
        BY <3>2, <4>1 DEF Known, TextsKnown, StashKnown
      <4>3. /\ stage'[t] \in {"building", "refused"}
            /\ \A u \in Texts \ {t} : stage'[u] = stage[u] /\ with'[u] = with[u]
        BY <1>23, <2>1, <3>2, <4>1 DEF OnResponse, Shapes
      <4>4. StashKnown'
        <5>1. ASSUME NEW c \in Devices, NEW q \in Devices, pending'[c][q] # None
              PROVE  /\ From[pending'[c][q]] = c /\ To[pending'[c][q]] = q
                     /\ stage'[pending'[c][q]] = "asked"
          <6>1. pending'[c][q] = pending[c][q] /\ (c # d \/ q # p)
            BY <2>3, <5>1
          <6>2. pending[c][q] \in Texts
            BY <5>1, <6>1, TextsOfHandshakes
          <6>3. From[pending[c][q]] = c /\ To[pending[c][q]] = q /\ stage[pending[c][q]] = "asked"
            BY <5>1, <6>1 DEF Known, TextsKnown, StashKnown
          <6>4. pending[c][q] # t
            BY <6>1, <6>3, <4>2
          <6> QED BY <6>1, <6>2, <6>3, <6>4, <4>3
        <5> QED BY <5>1 DEF StashKnown
      <4> QED BY <2>2, <4>2, <4>3, <4>4, OneText DEF Known
    <3> QED BY <3>1, <3>2
  <2> QED BY <1>23, <2>2, <2>4, Undisturbed DEF OnResponse, Known, database, memory, network, relay, ghosts
<1>24. ASSUME NEW d \in Devices, OnFrame(d) PROVE Known'
  <2>1. /\ wire[d] \in Seq(Frames) /\ wire[d] # <<>>
        /\ made' = made /\ wire' = [wire EXCEPT ![d] = Tail(@)]
    BY <1>24 DEF OnFrame, Shapes
  <2>2. FramesAddressed'
    <3>1. \A i \in DOMAIN Tail(wire[d]) : i + 1 \in DOMAIN wire[d] /\ Tail(wire[d])[i] = wire[d][i + 1]
      BY <2>1
    <3>2. ASSUME NEW p \in Devices, NEW i \in DOMAIN wire'[p]
          PROVE  \E m \in DOMAIN wire[p] : wire'[p][i] = wire[p][m]
      BY <2>1, <3>1 DEF Shapes
    <3> QED BY <2>1, <3>2 DEF Known, FramesAddressed, Addressed
  <2>3. JobsAddressed'
    <3>1. 1 \in DOMAIN wire[d] /\ Head(wire[d]) = wire[d][1]
      BY <2>1
    <3>2. Addressed(d, Head(wire[d]))
      BY <3>1 DEF Known, FramesAddressed
    <3>3. Addressed(d, Job(arrived[d] + 1, Head(wire[d]), "start"))
      BY <3>2 DEF Addressed, Job
    <3>4. \A p \in Devices : \A i \in jobs'[p] :
            i \in jobs[p] \/ (p = d /\ i = Job(arrived[d] + 1, Head(wire[d]), "start"))
      BY <1>24 DEF OnFrame, Shapes
    <3> QED BY <2>1, <3>3, <3>4 DEF Known, JobsAddressed, Addressed
  <2> QED BY <1>24, <2>1, <2>2, <2>3, Undisturbed DEF OnFrame, Known, database, memory, network, relay, ghosts
<1>25. ASSUME NEW d \in Devices, Kill(d) PROVE Known'
  <2>1. /\ made' = made /\ with' = with
        /\ \A p \in Devices : pending'[d][p] = None
        /\ \A c \in Devices \ {d} : pending'[c] = pending[c]
    BY <1>25 DEF Kill, Shapes
  <2>2. \A t \in Texts : /\ stage'[t] \in {stage[t], "lost"}
                         /\ From[t] # d => stage'[t] = stage[t]
    BY <1>25 DEF Kill
  <2>3. CoroutinesKnow'
    BY <2>1, <2>2 DEF Known, TextsKnown, CoroutinesKnow
  <2>4. BuiltOnce'
    BY <2>1, <2>2, TextsOfHandshakes DEF Known, TextsKnown, BuiltOnce
  <2>5. StashKnown'
    <3>1. ASSUME NEW c \in Devices, NEW q \in Devices, pending'[c][q] # None
          PROVE  c # d /\ pending'[c][q] = pending[c][q]
      BY <2>1, <3>1
    <3> QED BY <3>1, <2>2, TextsOfHandshakes DEF Known, TextsKnown, StashKnown
  <2>6. JobsAddressed'
    BY <1>25 DEF Kill, Known, JobsAddressed, Addressed, Shapes
  <2> QED BY <1>25, <2>1, <2>3, <2>4, <2>5, <2>6, Undisturbed DEF Kill, Known, TextsKnown, database, memory, network, relay, ghosts
<1>26. CASE UNCHANGED vars
  BY <1>26, Undisturbed DEF Known, vars, database, memory, network, relay, ghosts
<1> QED
  BY <1>1, <1>2, <1>3, <1>4, <1>5, <1>6, <1>7, <1>8, <1>9, <1>10, <1>11, <1>12,
     <1>13, <1>14, <1>15, <1>16, <1>17, <1>18, <1>19, <1>20, <1>21, <1>22,
     <1>23, <1>24, <1>25, <1>26 DEF Next, JobStep

-----------------------------------------------------------------------------
\* Steps that accept and store nothing keep who accepted what.
LEMMA NothingAccepted ==
  ASSUME Known, SeenFirst, AcceptedOnce, seen' = seen, stored' = stored,
         \A n \in DOMAIN made : made'[n].to = made[n].to,
         \A d \in Devices : \A i \in jobs'[d] : Accepting(i) => i \in jobs[d]
  PROVE  SeenFirst' /\ AcceptedOnce'
<1>1. SeenFirst'
  BY DEF SeenFirst, Known, NumbersKnown, Accepting
<1>2. AcceptedOnce'
  BY DEF AcceptedOnce, Accepting
<1> QED BY <1>1, <1>2

\* A coroutine that moves on without accepting its handshake.
LEMMA MovesUnaccepted ==
  ASSUME Shapes, NEW d \in Devices, NEW j \in jobs[d], NEW pc \in Pcs \ {"burn", "store"},
         jobs' = Ended(d, j) \/ jobs' = Moved(d, j, pc)
  PROVE  \A p \in Devices : \A i \in jobs'[p] : Accepting(i) => i \in jobs[p]
<1>1. PICK k \in Jobs : k = [j EXCEPT !.pc = pc] /\ k.pc = pc
  <2>1. jobs \in [Devices -> SUBSET Jobs] /\ pc \in Pcs
    BY DEF Shapes
  <2>2. [j EXCEPT !.pc = pc] \in Jobs /\ [j EXCEPT !.pc = pc].pc = pc
    BY <2>1, JobUpdates
  <2> QED BY <2>2
<1>2. ~Accepting(k)
  BY <1>1 DEF Accepting
<1>3. \A p \in Devices : \A i \in jobs'[p] : i \in jobs[p] \/ i = k
  BY <1>1, MovedElements DEF Shapes
<1> QED BY <1>2, <1>3

\* Every step keeps SeenFirst and AcceptedOnce.
LEMMA AcceptedStep ==
  ASSUME HInv, [Next]_vars PROVE SeenFirst' /\ AcceptedOnce'
<1> USE DEF HInv
<1>1. CASE UNCHANGED <<jobs, seen, stored, made>>
  BY <1>1, NothingAccepted
<1>2. ASSUME NEW t \in Texts, Build(t) PROVE SeenFirst' /\ AcceptedOnce'
  <2>1. \A n \in DOMAIN made : made'[n].to = made[n].to
    BY <1>2 DEF Build, Shapes
  <2> QED BY <1>2, <2>1, NothingAccepted DEF Build
<1>3. ASSUME NEW d \in Devices, OnFrame(d) PROVE SeenFirst' /\ AcceptedOnce'
  <2>1. ~Accepting(Job(arrived[d] + 1, Head(wire[d]), "start"))
    BY DEF Accepting, Job
  <2>2. \A p \in Devices : \A i \in jobs'[p] : Accepting(i) => i \in jobs[p]
    BY <1>3, <2>1 DEF OnFrame, Shapes
  <2> QED BY <1>3, <2>2, NothingAccepted DEF OnFrame, database
<1>4. ASSUME NEW d \in Devices, Kill(d) PROVE SeenFirst' /\ AcceptedOnce'
  <2>1. \A p \in Devices : \A i \in jobs'[p] : i \in jobs[p]
    BY <1>4 DEF Kill, Shapes
  <2> QED BY <1>4, <2>1, NothingAccepted DEF Kill, database
<1>5. ASSUME NEW d \in Devices, NEW j \in jobs[d], CheckSeen(d, j)
      PROVE  SeenFirst' /\ AcceptedOnce'
  <2>1. \A p \in Devices : \A i \in jobs'[p] : Accepting(i) => i \in jobs[p]
    BY <1>5, MovesUnaccepted DEF CheckSeen, Pcs
  <2> QED BY <1>5, <2>1, NothingAccepted DEF CheckSeen, database, ghosts
<1>6. ASSUME NEW d \in Devices, NEW j \in jobs[d], Derive(d, j)
      PROVE  SeenFirst' /\ AcceptedOnce'
  <2>1. \A p \in Devices : \A i \in jobs'[p] : Accepting(i) => i \in jobs[p]
    BY <1>6, MovesUnaccepted DEF Derive, Pcs
  <2> QED BY <1>6, <2>1, NothingAccepted DEF Derive, database
<1>7. ASSUME NEW d \in Devices, NEW j \in jobs[d], MarkSeen(d, j)
      PROVE  SeenFirst' /\ AcceptedOnce'
  <2>1. /\ j.kind = "init" /\ made[j.hs].to = d /\ j.hs \in DOMAIN made
        /\ made' = made /\ stored' = stored
    BY <1>7 DEF MarkSeen, Known, JobsAddressed, Addressed, ghosts
  <2>2. \A p \in Devices : seen[p] \subseteq seen'[p]
    BY <1>7 DEF MarkSeen, Shapes
  <2>3. CASE j.hs \in seen[d]
    <3>1. \A p \in Devices : \A i \in jobs'[p] : i \in jobs[p]
      BY <1>7, <2>3, MovedElements DEF MarkSeen, Shapes, Ended
    <3>2. SeenFirst'
      BY <2>1, <2>2, <3>1, TextsOfHandshakes DEF SeenFirst, Accepting, Known, NumbersKnown
    <3>3. AcceptedOnce'
      BY <2>1, <3>1 DEF AcceptedOnce, Accepting
    <3> QED BY <3>2, <3>3
  <2>4. CASE j.hs \notin seen[d]
    <3>1. PICK k \in Jobs : k = [j EXCEPT !.pc = "burn"]
      BY JobUpdates DEF Shapes, Pcs
    <3>2. k.hs = j.hs /\ j.hs \in seen'[d]
      BY <1>7, <3>1 DEF MarkSeen, Shapes, Jobs
    <3>3. \A p \in Devices : \A i \in jobs'[p] : i \in jobs[p] \/ (p = d /\ i = k)
      BY <1>7, <2>4, <3>1, MovedElements DEF MarkSeen, Shapes, Pcs
    <3>4. j.hs \notin stored
      BY <2>1, <2>4 DEF SeenFirst
    <3>5. \A i \in jobs[d] : Accepting(i) => i.hs # j.hs
      BY <2>4 DEF SeenFirst
    <3>6. SeenFirst'
      BY <2>1, <2>2, <3>2, <3>3, <3>4, TextsOfHandshakes DEF SeenFirst, Accepting, Known, NumbersKnown
    <3>7. AcceptedOnce'
      BY <2>1, <3>2, <3>3, <3>4, <3>5 DEF AcceptedOnce, Accepting
    <3> QED BY <3>6, <3>7
  <2> QED BY <2>3, <2>4
<1>8. ASSUME NEW d \in Devices, NEW j \in jobs[d], BurnOpk(d, j)
      PROVE  SeenFirst' /\ AcceptedOnce'
  <2>1. seen' = seen /\ stored' = stored /\ made' = made /\ Accepting(j)
    BY <1>8 DEF BurnOpk, Accepting, ghosts
  <2>2. PICK k \in Jobs : k = [j EXCEPT !.pc = "store"]
    BY JobUpdates DEF Shapes, Pcs
  <2>3. k.hs = j.hs
    BY <2>2 DEF Shapes, Jobs
  <2>4. \A p \in Devices : \A i \in jobs'[p] :
          (i \in jobs[p] /\ (p = d => i # j)) \/ (p = d /\ i = k)
    BY <1>8, <2>2, MovedElements DEF BurnOpk, Shapes, Pcs
  <2>5. SeenFirst'
    BY <2>1, <2>3, <2>4 DEF SeenFirst, Accepting
  <2>6. AcceptedOnce'
    BY <2>1, <2>3, <2>4 DEF AcceptedOnce, Accepting
  <2> QED BY <2>5, <2>6
<1>9. ASSUME NEW d \in Devices, NEW j \in jobs[d], StoreSession(d, j)
      PROVE  SeenFirst' /\ AcceptedOnce'
  <2>1. seen' = seen /\ stored' = stored \cup {j.hs} /\ made' = made /\ Accepting(j)
    BY <1>9 DEF StoreSession, Accepting
  <2>2. j.hs \in seen[d] /\ made[j.hs].to = d
    BY <2>1 DEF SeenFirst, Accepting, Known, JobsAddressed, Addressed
  <2>3. PICK k \in Jobs : k = [j EXCEPT !.pc = "show"] /\ k.pc = "show"
    <3>1. jobs \in [Devices -> SUBSET Jobs] /\ "show" \in Pcs
      BY DEF Shapes, Pcs
    <3>2. [j EXCEPT !.pc = "show"] \in Jobs /\ [j EXCEPT !.pc = "show"].pc = "show"
      BY <3>1, JobUpdates
    <3> QED BY <3>2
  <2>4. \A p \in Devices : \A i \in jobs'[p] :
          Accepting(i) => i \in jobs[p] /\ (p = d => i # j)
    <3>1. \A p \in Devices : \A i \in jobs'[p] :
            (i \in jobs[p] /\ (p = d => i # j)) \/ i = k
      BY <1>9, <2>3, MovedElements DEF StoreSession, Shapes, Pcs
    <3> QED BY <2>3, <3>1 DEF Accepting
  <2>5. \A p \in Devices : \A i \in jobs'[p] : Accepting(i) => i.hs # j.hs
    <3>1. SUFFICES ASSUME NEW p \in Devices, NEW i \in jobs'[p], Accepting(i), i.hs = j.hs
                   PROVE  FALSE
      OBVIOUS
    <3>2. i \in jobs[p] /\ (p = d => i # j)
      BY <3>1, <2>4
    <3>3. made[i.hs].to = p
      BY <3>1, <3>2 DEF Accepting, Known, JobsAddressed, Addressed
    <3>4. p = d
      BY <3>1, <3>3, <2>2
    <3> QED BY <3>1, <3>2, <3>4, <2>1 DEF AcceptedOnce
  <2>6. SeenFirst'
    BY <2>1, <2>2, <2>4, <2>5 DEF SeenFirst, Accepting
  <2>7. AcceptedOnce'
    BY <2>1, <2>4, <2>5 DEF AcceptedOnce, Accepting
  <2> QED BY <2>6, <2>7
<1>10. ASSUME NEW d \in Devices, NEW j \in jobs[d], ReadSessions(d, j)
       PROVE  SeenFirst' /\ AcceptedOnce'
  <2>1. \A p \in Devices : \A i \in jobs'[p] : Accepting(i) => i \in jobs[p]
    BY <1>10, MovesUnaccepted DEF ReadSessions, Pcs
  <2> QED BY <1>10, <2>1, NothingAccepted DEF ReadSessions, database, ghosts
<1>11. ASSUME NEW d \in Devices, NEW j \in jobs[d], Show(d, j)
       PROVE  SeenFirst' /\ AcceptedOnce'
  <2>1. \A p \in Devices : \A i \in jobs'[p] : Accepting(i) => i \in jobs[p]
    BY <1>11, MovesUnaccepted DEF Show, Pcs
  <2> QED BY <1>11, <2>1, NothingAccepted DEF Show, database
<1>12. ASSUME NEW d \in Devices,
              \/ Identify(d) \/ Bootstrap(d) \/ Publish(d) \/ RelayUpload(d)
              \/ OnResponse(d) \/ Disconnect(d) \/ Reset(d)
              \/ \E p \in Devices : RelayRequest(d, p)
       PROVE  SeenFirst' /\ AcceptedOnce'
  <2>1. UNCHANGED <<jobs, seen, stored, made>>
    BY <1>12 DEF Identify, Bootstrap, Publish, RelayUpload, OnResponse, Disconnect, Reset,
                 RelayRequest, Fault, database, memory, network, relay, ghosts
  <2> QED BY <2>1, <1>1
<1>13. ASSUME NEW t \in Texts,
              \/ Look(t) \/ Compose(t) \/ EmitChat(t) \/ Ask(t)
              \/ BuildFails(t) \/ EmitInitial(t) \/ Redeliver(t)
       PROVE  SeenFirst' /\ AcceptedOnce'
  <2>1. UNCHANGED <<jobs, seen, stored, made>>
    BY <1>13 DEF Look, Compose, EmitChat, Ask, BuildFails, EmitInitial, Redeliver,
                 Fault, database, memory, network, relay, ghosts
  <2> QED BY <2>1, <1>1
<1>14. CASE UNCHANGED vars
  BY <1>1, <1>14 DEF vars, database, memory, ghosts
<1> QED
  BY <1>2, <1>3, <1>4, <1>5, <1>6, <1>7, <1>8, <1>9, <1>10, <1>11, <1>12, <1>13, <1>14
     DEF Next, JobStep

\* HInv holds at the start.
LEMMA HInvInit == Init => HInv
<1> SUFFICES ASSUME Init PROVE HInv
  OBVIOUS
<1>1. Shapes
  <2>1. <<0, 0>> \in Numbers
    BY DEF Numbers
  <2>2. (1..Batch) \X {1} \subseteq Opks
    BY BoundsAssumption DEF Opks
  <2> QED BY <2>1, <2>2, TextsAssumption, BoundsAssumption DEF Init, Shapes, Stages, NoOpk
<1>2. Known
  BY DEF Init, Known, NumbersKnown, FramesAddressed, JobsAddressed, Addressed, TextsKnown,
         CoroutinesKnow, BuiltOnce, StashKnown
<1>3. SeenFirst /\ AcceptedOnce
  BY DEF Init, SeenFirst, AcceptedOnce
<1> QED BY <1>1, <1>2, <1>3 DEF HInv

\* HInv is an invariant of every behaviour of Spec.
LEMMA HInvAlways == Spec => []HInv
<1>1. HInv /\ [Next]_vars => HInv'
  BY ShapesStep, KnownStep, AcceptedStep DEF HInv
<1> QED BY <1>1, HInvInit, PTL DEF Spec

-----------------------------------------------------------------------------
\* The values of all variables, and that sessions, seen_nonces and coroutines
\* name handshakes that were built.
THEOREM HandshakeTypes == Spec => []TypeOK
<1>1. HInv => TypeOK
  <2> SUFFICES ASSUME HInv PROVE TypeOK
    OBVIOUS
  <2> USE DEF HInv
  <2>1. session \in [Devices -> [Devices -> 0..Len(made)]]
    <3>1. \A d \in Devices : session[d] \in [Devices -> 0..Len(made)]
      BY DEF Shapes, Known, NumbersKnown
    <3> QED BY <3>1 DEF Shapes
  <2>2. seen \in [Devices -> SUBSET DOMAIN made]
    BY DEF Shapes, Known, NumbersKnown
  <2>3. \A d \in Devices : \A j \in jobs[d] : j \in JobSet
    <3>1. \A d \in Devices : \A j \in jobs[d] : j \in Jobs /\ j.hs \in DOMAIN made
      BY DEF Shapes, Known, JobsAddressed, Addressed
    <3> QED BY <3>1 DEF Jobs, JobSet, Pcs
  <2>4. stored \cup failed \subseteq DOMAIN made
    BY DEF Known, NumbersKnown
  <2> QED BY <2>1, <2>2, <2>3, <2>4 DEF TypeOK, Shapes
<1> QED BY <1>1, HInvAlways, PTL

\* A handshake delivered twice is accepted by at most one coroutine, and by none
\* once its session was stored, whatever coroutines run between isSeen, markSeen,
\* deleteOpkById and the upsert of the session.
THEOREM AcceptedAtMostOnce == Spec => []AcceptedOnce
<1>1. HInv => AcceptedOnce
  BY DEF HInv
<1> QED BY <1>1, HInvAlways, PTL

\* No step puts a session back to a handshake whose responder had stored it:
\* a replayed INITIAL_HANDSHAKE does not roll the session back.
THEOREM NeverRollsBack == Spec => NoRollback
<1> DEFINE Kept == \A d, p \in Devices :
       session'[d][p] \notin {0, session[d][p]} => session'[d][p] \notin stored
<1>1. HInv /\ [Next]_vars => [Kept]_vars
  <2> SUFFICES ASSUME HInv, Next PROVE Kept
    OBVIOUS
  <2> USE DEF HInv
  <2>1. CASE UNCHANGED session
    BY <2>1
  <2>2. ASSUME NEW t \in Texts, Build(t) PROVE Kept
    <3>1. \A d, p \in Devices : session'[d][p] \in {session[d][p], Len(made) + 1}
      BY <2>2, TextsAssumption DEF Build, Shapes
    <3>2. Len(made) + 1 \notin stored
      BY TextsOfHandshakes DEF Known, NumbersKnown
    <3> QED BY <3>1, <3>2
  <2>3. ASSUME NEW e \in Devices, Reset(e) PROVE Kept
    <3>1. \A d, p \in Devices : session'[d][p] \in {session[d][p], 0}
      BY <2>3 DEF Reset, Shapes
    <3> QED BY <3>1
  <2>4. ASSUME NEW e \in Devices, NEW j \in jobs[e], StoreSession(e, j) PROVE Kept
    <3>1. \A d, p \in Devices : session'[d][p] \in {session[d][p], j.hs}
      BY <2>4 DEF StoreSession, Shapes
    <3>2. j.hs \notin stored
      BY <2>4 DEF StoreSession, SeenFirst, Accepting
    <3> QED BY <3>1, <3>2
  <2>5. ASSUME NEW e \in Devices,
               \/ Identify(e) \/ Bootstrap(e) \/ Publish(e) \/ RelayUpload(e)
               \/ OnResponse(e) \/ OnFrame(e) \/ Kill(e) \/ Disconnect(e)
               \/ \E p \in Devices : RelayRequest(e, p)
        PROVE  Kept
    <3>1. UNCHANGED session
      BY <2>5 DEF Identify, Bootstrap, Publish, RelayUpload, OnResponse, OnFrame, Kill,
                  Disconnect, RelayRequest, database
    <3> QED BY <3>1, <2>1
  <2>6. ASSUME NEW e \in Devices, NEW j \in jobs[e],
               \/ CheckSeen(e, j) \/ Derive(e, j) \/ MarkSeen(e, j) \/ BurnOpk(e, j)
               \/ ReadSessions(e, j) \/ Show(e, j)
        PROVE  Kept
    <3>1. UNCHANGED session
      BY <2>6 DEF CheckSeen, Derive, MarkSeen, BurnOpk, ReadSessions, Show, database
    <3> QED BY <3>1, <2>1
  <2>7. ASSUME NEW t \in Texts,
               \/ Look(t) \/ Compose(t) \/ EmitChat(t) \/ Ask(t)
               \/ BuildFails(t) \/ EmitInitial(t) \/ Redeliver(t)
        PROVE  Kept
    <3>1. UNCHANGED session
      BY <2>7 DEF Look, Compose, EmitChat, Ask, BuildFails, EmitInitial, Redeliver, database
    <3> QED BY <3>1, <2>1
  <2> QED BY <2>2, <2>3, <2>4, <2>5, <2>6, <2>7 DEF Next, JobStep
<1> QED BY <1>1, HInvAlways, PTL DEF Spec, NoRollback
-----------------------------------------------------------------------------
(* One-time keys.  A key given out once is in one place: a response, the   *)
(* coroutine that will build with it, or a handshake.  As long as no key   *)
(* of an id was given out twice, the device keeps every key of that id     *)
(* which somebody has or can get, until a recorded decryption burns it.    *)

InResponse(d, i, p, k) ==
  i \in DOMAIN responses[d] /\ responses[d][i].of = p /\ responses[d][i].opk = k
InCoroutine(t, p, k) == stage[t] = "building" /\ To[t] = p /\ with[t] = k
InHandshake(n, p, k) == n \in DOMAIN made /\ made[n].to = p /\ made[n].opk = k

\* What is held was given out.
HeldIssued ==
  \A p \in Devices, k \in Opks :
    /\ \A d \in Devices, i \in Nat : InResponse(d, i, p, k) => <<p, k>> \in issued
    /\ \A t \in Texts : InCoroutine(t, p, k) => <<p, k>> \in issued
    /\ \A n \in Nat : InHandshake(n, p, k) => <<p, k>> \in issued

Once(p, k) ==
  /\ \A d, e \in Devices, i, j \in Nat :
       InResponse(d, i, p, k) /\ InResponse(e, j, p, k) => d = e /\ i = j
  /\ \A d \in Devices, i \in Nat, t \in Texts : ~(InResponse(d, i, p, k) /\ InCoroutine(t, p, k))
  /\ \A d \in Devices, i, n \in Nat : ~(InResponse(d, i, p, k) /\ InHandshake(n, p, k))
  /\ \A s, t \in Texts : InCoroutine(s, p, k) /\ InCoroutine(t, p, k) => s = t
  /\ \A t \in Texts, n \in Nat : ~(InCoroutine(t, p, k) /\ InHandshake(n, p, k))
  /\ \A m, n \in Nat : InHandshake(m, p, k) /\ InHandshake(n, p, k) => m = n
HeldOnce == \A p \in Devices, k \in Opks : <<p, k>> \notin reissued => Once(p, k)

\* Held numbers are keys, or say that there was none.
HeldKeys ==
  /\ \A d \in Devices : \A i \in DOMAIN responses[d] : responses[d][i].opk \in Opks \cup {NoOpk}
  /\ \A t \in Texts : stage[t] = "building" => with[t] \in Opks \cup {NoOpk}
  /\ \A n \in DOMAIN made : made[n].opk \in Opks \cup {NoOpk}

OneVersion == \A d \in Devices : \A k, l \in opks[d] : k[1] = l[1] => k = l

Spoilt(d, id) == \E k \in Opks : k[1] = id /\ <<d, k>> \in reissued
Wanted(d, k) ==
  k \in pool[d] \/ <<d, k>> \in issued \/ \E u \in upload[d] : k \in u.opks
Spent(d, k) ==
  \E n \in seen[d] : /\ InHandshake(n, d, k)
                     /\ \A j \in jobs[d] : j.kind = "init" /\ j.hs = n => j.pc # "burn"
KeysKept ==
  \A d \in Devices, k \in Opks :
    Wanted(d, k) /\ ~Spoilt(d, k[1]) => k \in opks[d] \/ Spent(d, k)

KInv == HeldKeys /\ HeldIssued /\ HeldOnce /\ OneVersion /\ KeysKept /\ OneTimeKeysSuffice

LEMMA NoOpkIsNoKey == NoOpk \notin Opks /\ \A k \in Opks : k[1] # 0 /\ k = <<k[1], k[2]>>
<1>1. \A k \in Opks : k[1] \in 1..Batch /\ k = <<k[1], k[2]>>
  BY DEF Opks
<1>2. Batch \in Nat
  BY BoundsAssumption
<1>3. \A k \in Opks : k[1] # 0
  BY <1>1, <1>2
<1>4. NoOpk[1] = 0
  BY DEF NoOpk
<1> QED BY <1>1, <1>3, <1>4

-----------------------------------------------------------------------------
\* Where a key is held.
Held == HeldKeys /\ HeldIssued /\ HeldOnce

\* Steps after which every key is where it was, or nowhere.
LEMMA HeldQuiet ==
  ASSUME Held, UNCHANGED made, issued \subseteq issued', reissued \subseteq reissued',
         \A d \in Devices : responses'[d] = responses[d] \/ responses'[d] = <<>>,
         \A t \in Texts : stage'[t] = "building" => stage[t] = "building" /\ with'[t] = with[t]
  PROVE  Held'
<1>1. \A d \in Devices, i \in Nat : \A p, k : InResponse(d, i, p, k)' => InResponse(d, i, p, k)
  BY DEF InResponse
<1>2. \A t \in Texts : \A p, k : InCoroutine(t, p, k)' => InCoroutine(t, p, k)
  BY DEF InCoroutine
<1>3. \A n \in Nat : \A p, k : InHandshake(n, p, k)' => InHandshake(n, p, k)
  BY DEF InHandshake
<1>4. HeldKeys'
  BY DEF Held, HeldKeys
<1>5. HeldIssued'
  BY <1>1, <1>2, <1>3 DEF Held, HeldIssued
<1>6. HeldOnce'
  <2> SUFFICES ASSUME NEW p \in Devices, NEW k \in Opks, <<p, k>> \notin reissued'
               PROVE  Once(p, k)'
    BY DEF HeldOnce
  <2>1. Once(p, k)
    BY DEF Held, HeldOnce
  <2> QED BY <1>1, <1>2, <1>3, <2>1 DEF Once
<1> QED BY <1>4, <1>5, <1>6 DEF Held

\* The relay gives a key out.
LEMMA HeldRequest ==
  ASSUME HInv, Held, NEW d \in Devices, NEW p \in Devices, RelayRequest(d, p)
  PROVE  Held'
<1>1. PICK k \in IF pool[p] = {} THEN {NoOpk} ELSE pool[p] :
        /\ responses' = [responses EXCEPT ![d] =
             Append(@, [of |-> p, opk |-> k, keys |-> p \in listed])]
        /\ issued' = issued \cup ({<<p, k>>} \ {<<p, NoOpk>>})
        /\ reissued' = reissued \cup ({<<p, k>>} \cap issued)
  BY DEF RelayRequest
<1>2. UNCHANGED <<stage, with, made>>
  BY DEF RelayRequest, memory
<1>3. k \in Opks \cup {NoOpk} /\ (k # NoOpk => k \in Opks)
  BY DEF HInv, Shapes
<1>4. PICK x : x = [of |-> p, opk |-> k, keys |-> p \in listed]
  OBVIOUS
<1>5. x.of = p /\ x.opk = k
  BY <1>4
<1>6. PICK n \in Nat : n = Len(responses[d]) + 1
  BY DEF HInv, Shapes
<1>7. \A e \in Devices : \A i \in DOMAIN responses'[e] :
        \/ i \in DOMAIN responses[e] /\ responses'[e][i] = responses[e][i]
        \/ e = d /\ i = n /\ responses'[e][i] = x
  <2>1. responses \in [Devices -> Seq(Answers)]
    BY DEF HInv, Shapes
  <2>2. responses' = [responses EXCEPT ![d] = Append(@, x)]
    BY <1>1, <1>4
  <2>3. \A i \in DOMAIN Append(responses[d], x) :
          \/ i \in DOMAIN responses[d] /\ Append(responses[d], x)[i] = responses[d][i]
          \/ i = n /\ Append(responses[d], x)[i] = x
    BY <1>6, <2>1
  <2>4. responses'[d] = Append(responses[d], x) /\ \A e \in Devices \ {d} : responses'[e] = responses[e]
    BY <2>1, <2>2
  <2> QED BY <2>3, <2>4
<1>8. \A e \in Devices, i \in Nat : \A q, l :
        InResponse(e, i, q, l)' => InResponse(e, i, q, l) \/ (e = d /\ i = n /\ q = p /\ l = k)
  BY <1>5, <1>7 DEF InResponse
<1>9. /\ \A t \in Texts : \A q, l : InCoroutine(t, q, l)' <=> InCoroutine(t, q, l)
      /\ \A m \in Nat : \A q, l : InHandshake(m, q, l)' <=> InHandshake(m, q, l)
  BY <1>2 DEF InCoroutine, InHandshake
<1>10. HeldKeys'
  <2>1. \A e \in Devices : \A i \in DOMAIN responses'[e] : responses'[e][i].opk \in Opks \cup {NoOpk}
    BY <1>3, <1>5, <1>7 DEF Held, HeldKeys
  <2> QED BY <1>2, <2>1 DEF Held, HeldKeys
<1>11. HeldIssued'
  <2>1. k \in Opks => <<p, k>> \in issued'
    BY <1>1, NoOpkIsNoKey
  <2>2. issued \subseteq issued'
    BY <1>1
  <2> QED BY <1>8, <1>9, <2>1, <2>2 DEF Held, HeldIssued
<1>12. HeldOnce'
  <2> SUFFICES ASSUME NEW q \in Devices, NEW l \in Opks, <<q, l>> \notin reissued'
               PROVE  Once(q, l)'
    BY DEF HeldOnce
  <2>1. Once(q, l)
    BY <1>1 DEF Held, HeldOnce
  <2>2. CASE q = p /\ l = k
    <3>1. <<q, l>> \notin issued
      BY <1>1, <2>2
    <3>2. /\ \A e \in Devices, i \in Nat : ~InResponse(e, i, q, l)
          /\ \A t \in Texts : ~InCoroutine(t, q, l)
          /\ \A m \in Nat : ~InHandshake(m, q, l)
      BY <3>1 DEF Held, HeldIssued
    <3> QED BY <1>8, <1>9, <3>2 DEF Once
  <2>3. CASE ~(q = p /\ l = k)
    <3>1. \A e \in Devices, i \in Nat : InResponse(e, i, q, l)' => InResponse(e, i, q, l)
      BY <1>8, <2>3
    <3>2. /\ \A t \in Texts : InCoroutine(t, q, l)' => InCoroutine(t, q, l)
          /\ \A m \in Nat : InHandshake(m, q, l)' => InHandshake(m, q, l)
      BY <1>9
    <3> QED BY <2>1, <3>1, <3>2 DEF Once
  <2> QED BY <2>2, <2>3
<1> QED BY <1>10, <1>11, <1>12 DEF Held

\* A response becomes the coroutine of the stashed text.
LEMMA HeldResponse ==
  ASSUME HInv, Held, NEW d \in Devices, OnResponse(d)
  PROVE  Held'
<1>a. PICK r : r = Head(responses[d])
  OBVIOUS
<1>b. PICK t : t = pending[d][r.of]
  OBVIOUS
<1>1. /\ responses[d] # <<>> /\ responses' = [responses EXCEPT ![d] = Tail(@)]
      /\ IF t = None THEN UNCHANGED <<stage, with>>
         ELSE /\ stage' = [stage EXCEPT ![t] = IF r.keys THEN "building" ELSE "refused"]
              /\ with' = [with EXCEPT ![t] = r.opk]
      /\ UNCHANGED <<made, issued, reissued>>
  BY <1>a, <1>b DEF OnResponse, ghosts
<1>2. /\ responses \in [Devices -> Seq(Answers)] /\ stage \in [Texts -> Stages]
      /\ with \in [Texts -> Numbers]
  BY DEF HInv, Shapes
<1>3. r \in Answers /\ 1 \in DOMAIN responses[d] /\ responses[d][1] = r
  BY <1>1, <1>2, <1>a
<1>4. t # None => t \in Texts /\ To[t] = r.of /\ stage[t] = "asked"
  <2>1. r.of \in Devices
    BY <1>3 DEF Answers
  <2> QED BY <1>b, <2>1 DEF HInv, Shapes, Known, TextsKnown, StashKnown
<1>5. \A e \in Devices, i \in Nat : i \in DOMAIN responses'[e] =>
        \/ e # d /\ i \in DOMAIN responses[e] /\ responses'[e][i] = responses[e][i]
        \/ /\ e = d /\ i + 1 \in Nat /\ i + 1 # 1 /\ i + 1 \in DOMAIN responses[d]
           /\ responses'[d][i] = responses[d][i + 1]
  <2>1. \A i \in DOMAIN Tail(responses[d]) :
          /\ i + 1 \in Nat /\ i + 1 # 1 /\ i + 1 \in DOMAIN responses[d]
          /\ Tail(responses[d])[i] = responses[d][i + 1]
    BY <1>1, <1>2
  <2>2. responses'[d] = Tail(responses[d]) /\ \A e \in Devices \ {d} : responses'[e] = responses[e]
    BY <1>1, <1>2
  <2> QED BY <2>1, <2>2
<1>6. \A e \in Devices, i \in Nat : \A q, l : InResponse(e, i, q, l)' =>
        \/ e # d /\ InResponse(e, i, q, l)
        \/ e = d /\ i + 1 \in Nat /\ i + 1 # 1 /\ InResponse(d, i + 1, q, l)
  BY <1>5 DEF InResponse
<1>7. \A u \in Texts : \A q, l : InCoroutine(u, q, l)' =>
        \/ (t = None \/ u # t) /\ InCoroutine(u, q, l)
        \/ t # None /\ u = t /\ InResponse(d, 1, q, l)
  <2> SUFFICES ASSUME NEW u \in Texts, NEW q, NEW l, InCoroutine(u, q, l)'
               PROVE  \/ (t = None \/ u # t) /\ InCoroutine(u, q, l)
                      \/ t # None /\ u = t /\ InResponse(d, 1, q, l)
    OBVIOUS
  <2>1. CASE t = None
    BY <1>1, <2>1 DEF InCoroutine
  <2>2. CASE t # None /\ u # t
    BY <1>1, <1>2, <2>2 DEF InCoroutine
  <2>3. CASE t # None /\ u = t
    <3>1. q = r.of /\ l = r.opk
      BY <1>1, <1>2, <1>4, <2>3 DEF InCoroutine
    <3> QED BY <1>3, <2>3, <3>1 DEF InResponse
  <2> QED BY <2>1, <2>2, <2>3
<1>8. \A n \in Nat : \A q, l : InHandshake(n, q, l)' <=> InHandshake(n, q, l)
  BY <1>1 DEF InHandshake
<1>9. HeldKeys'
  <2>1. \A i \in DOMAIN responses[d] : responses[d][i].opk \in Opks \cup {NoOpk}
    BY DEF Held, HeldKeys
  <2>2. r.opk \in Opks \cup {NoOpk}
    BY <1>3, <2>1
  <2>3. \A e \in Devices : \A i \in DOMAIN responses'[e] : responses'[e][i].opk \in Opks \cup {NoOpk}
    <3>1. \A e \in Devices : DOMAIN responses'[e] \subseteq Nat
      <4>1. Tail(responses[d]) \in Seq(Answers)
        BY <1>1, <1>2
      <4>2. responses' \in [Devices -> Seq(Answers)]
        BY <1>1, <1>2, <4>1
      <4> QED BY <4>2
    <3> QED BY <1>5, <2>1, <3>1 DEF Held, HeldKeys
  <2>4. \A u \in Texts : stage'[u] = "building" => with'[u] \in Opks \cup {NoOpk}
    BY <1>1, <1>2, <2>2 DEF Held, HeldKeys
  <2> QED BY <1>1, <2>3, <2>4 DEF Held, HeldKeys
<1>10. HeldIssued'
  <2>1. issued' = issued /\ 1 \in Nat
    BY <1>1
  <2> QED BY <1>6, <1>7, <1>8, <2>1 DEF Held, HeldIssued
<1>11. HeldOnce'
  <2> SUFFICES ASSUME NEW q \in Devices, NEW l \in Opks, <<q, l>> \notin reissued'
               PROVE  Once(q, l)'
    BY DEF HeldOnce
  <2>1. Once(q, l)
    BY <1>1 DEF Held, HeldOnce
  <2>2. \A e, f \in Devices, i, j \in Nat :
          InResponse(e, i, q, l)' /\ InResponse(f, j, q, l)' => e = f /\ i = j
    BY <1>6, <2>1 DEF Once
  <2>3. \A e \in Devices, i \in Nat, u \in Texts : ~(InResponse(e, i, q, l)' /\ InCoroutine(u, q, l)')
    BY <1>6, <1>7, <2>1 DEF Once
  <2>4. \A e \in Devices, i, n \in Nat : ~(InResponse(e, i, q, l)' /\ InHandshake(n, q, l)')
    BY <1>6, <1>8, <2>1 DEF Once
  <2>5. \A u, v \in Texts : InCoroutine(u, q, l)' /\ InCoroutine(v, q, l)' => u = v
    BY <1>7, <2>1 DEF Once
  <2>6. \A u \in Texts, n \in Nat : ~(InCoroutine(u, q, l)' /\ InHandshake(n, q, l)')
    BY <1>7, <1>8, <2>1 DEF Once
  <2>7. \A m, n \in Nat : InHandshake(m, q, l)' /\ InHandshake(n, q, l)' => m = n
    BY <1>8, <2>1 DEF Once
  <2> QED BY <2>2, <2>3, <2>4, <2>5, <2>6, <2>7 DEF Once
<1> QED BY <1>9, <1>10, <1>11 DEF Held

\* The coroutine of a text builds its handshake.
LEMMA HeldBuild ==
  ASSUME HInv, Held, NEW t \in Texts, Build(t)
  PROVE  Held'
<1>1. /\ stage[t] = "building" /\ stage' = [stage EXCEPT ![t] = "built"]
      /\ with' = [with EXCEPT ![t] = <<Len(made) + 1, 0>>]
      /\ made' = Append(made, [from |-> From[t], to |-> To[t], opk |-> with[t], text |-> t])
      /\ UNCHANGED <<responses, issued, reissued>>
  BY DEF Build, network
<1>2. /\ stage \in [Texts -> Stages] /\ with \in [Texts -> Numbers]
      /\ made \in Seq(Handshakes)
  BY DEF HInv, Shapes
<1>3. PICK h : h = [from |-> From[t], to |-> To[t], opk |-> with[t], text |-> t]
  OBVIOUS
<1>4. PICK n \in Nat : n = Len(made) + 1
  BY <1>2
<1>5. \A m \in DOMAIN made' : \/ m \in DOMAIN made /\ made'[m] = made[m]
                              \/ m = n /\ made'[m] = h
  BY <1>1, <1>2, <1>3, <1>4
<1>6. h.to = To[t] /\ h.opk = with[t]
  BY <1>3
<1>7. \A m \in Nat : \A q, l : InHandshake(m, q, l)' =>
        InHandshake(m, q, l) \/ (m = n /\ InCoroutine(t, q, l))
  BY <1>1, <1>5, <1>6 DEF InHandshake, InCoroutine
<1>8. \A u \in Texts : \A q, l : InCoroutine(u, q, l)' => u # t /\ InCoroutine(u, q, l)
  BY <1>1, <1>2 DEF InCoroutine
<1>9. \A e \in Devices, i \in Nat : \A q, l : InResponse(e, i, q, l)' <=> InResponse(e, i, q, l)
  BY <1>1 DEF InResponse
<1>10. HeldKeys'
  <2>1. with[t] \in Opks \cup {NoOpk}
    BY <1>1 DEF Held, HeldKeys
  <2>2. \A u \in Texts : stage'[u] = "building" => with'[u] \in Opks \cup {NoOpk}
    BY <1>1, <1>2 DEF Held, HeldKeys
  <2>3. \A m \in DOMAIN made' : made'[m].opk \in Opks \cup {NoOpk}
    BY <1>5, <1>6, <2>1 DEF Held, HeldKeys
  <2> QED BY <1>1, <2>2, <2>3 DEF Held, HeldKeys
<1>11. HeldIssued'
  <2>1. issued' = issued
    BY <1>1
  <2> QED BY <1>7, <1>8, <1>9, <2>1 DEF Held, HeldIssued
<1>12. HeldOnce'
  <2> SUFFICES ASSUME NEW q \in Devices, NEW l \in Opks, <<q, l>> \notin reissued'
               PROVE  Once(q, l)'
    BY DEF HeldOnce
  <2>1. Once(q, l)
    BY <1>1 DEF Held, HeldOnce
  <2>2. /\ \A e, f \in Devices, i, j \in Nat :
             InResponse(e, i, q, l)' /\ InResponse(f, j, q, l)' => e = f /\ i = j
        /\ \A e \in Devices, i \in Nat, u \in Texts : ~(InResponse(e, i, q, l)' /\ InCoroutine(u, q, l)')
        /\ \A u, v \in Texts : InCoroutine(u, q, l)' /\ InCoroutine(v, q, l)' => u = v
    BY <1>8, <1>9, <2>1 DEF Once
  <2>3. \A e \in Devices, i, m \in Nat : ~(InResponse(e, i, q, l)' /\ InHandshake(m, q, l)')
    BY <1>7, <1>9, <2>1 DEF Once
  <2>4. \A u \in Texts, m \in Nat : ~(InCoroutine(u, q, l)' /\ InHandshake(m, q, l)')
    BY <1>7, <1>8, <2>1 DEF Once
  <2>5. \A m, k \in Nat : InHandshake(m, q, l)' /\ InHandshake(k, q, l)' => m = k
    BY <1>7, <2>1 DEF Once
  <2> QED BY <2>2, <2>3, <2>4, <2>5 DEF Once
<1> QED BY <1>10, <1>11, <1>12 DEF Held

LEMMA HeldStep ==
  ASSUME HInv, Held, [Next]_vars PROVE Held'
<1>t. stage \in [Texts -> Stages] /\ with \in [Texts -> Numbers]
      /\ responses \in [Devices -> Seq(Answers)]
  BY DEF HInv, Shapes
<1>1. CASE UNCHANGED <<made, issued, reissued, responses, stage, with>>
  BY <1>1, HeldQuiet
<1>2. ASSUME NEW d \in Devices, Kill(d) \/ Disconnect(d) PROVE Held'
  <2>1. /\ UNCHANGED <<made, issued, reissued, with>>
        /\ responses' = [responses EXCEPT ![d] = <<>>]
        /\ \A t \in Texts : stage'[t] = "building" => stage[t] = "building"
    <3>1. CASE Kill(d)
      BY <3>1, <1>t DEF Kill
    <3>2. CASE Disconnect(d)
      BY <3>2 DEF Disconnect, memory
    <3> QED BY <1>2, <3>1, <3>2
  <2>2. \A e \in Devices : responses'[e] = responses[e] \/ responses'[e] = <<>>
    BY <1>t, <2>1
  <2> QED BY <2>1, <2>2, HeldQuiet
<1>3. ASSUME NEW t \in Texts,
             \/ Look(t) \/ Compose(t) \/ EmitChat(t) \/ Ask(t) \/ BuildFails(t)
             \/ EmitInitial(t) \/ Redeliver(t)
      PROVE  Held'
  <2>1. UNCHANGED <<made, issued, reissued, responses>>
    BY <1>3 DEF Look, Compose, EmitChat, Ask, BuildFails, EmitInitial, Redeliver, network, ghosts
  <2>2. \/ UNCHANGED <<stage, with>>
        \/ stage'[t] # "building" /\ \A u \in Texts \ {t} : stage'[u] = stage[u] /\ with'[u] = with[u]
    BY <1>3, <1>t DEF Look, Compose, EmitChat, Ask, BuildFails, EmitInitial, Redeliver, memory
  <2> QED BY <2>1, <2>2, HeldQuiet
<1>4. ASSUME NEW d \in Devices,
             \/ Identify(d) \/ Bootstrap(d) \/ Publish(d) \/ RelayUpload(d) \/ OnFrame(d) \/ Reset(d)
             \/ \E j \in jobs[d] : JobStep(d, j)
      PROVE  Held'
  <2>1. CASE \/ Identify(d) \/ Bootstrap(d) \/ Publish(d) \/ RelayUpload(d) \/ OnFrame(d) \/ Reset(d)
    <3>1. UNCHANGED <<made, issued, reissued, responses, stage, with>>
      BY <2>1 DEF Identify, Bootstrap, Publish, RelayUpload, OnFrame, Reset, memory, network, ghosts
    <3> QED BY <1>1, <3>1
  <2>2. CASE \E j \in jobs[d] : JobStep(d, j)
    <3>1. UNCHANGED <<made, issued, reissued, responses, stage, with>>
      BY <2>2 DEF JobStep, CheckSeen, Derive, MarkSeen, BurnOpk, StoreSession, ReadSessions,
         Show, memory, network, ghosts
    <3> QED BY <1>1, <3>1
  <2> QED BY <1>4, <2>1, <2>2
<1>5. CASE UNCHANGED vars
  BY <1>1, <1>5 DEF vars, memory, network, ghosts
<1> QED BY <1>2, <1>3, <1>4, <1>5, HeldRequest, HeldResponse, HeldBuild DEF Next

-----------------------------------------------------------------------------
\* bootstrap adds only ids that are free.
LEMMA OneVersionStep ==
  ASSUME HInv, OneVersion, [Next]_vars PROVE OneVersion'
<1>t. opks \in [Devices -> SUBSET Opks]
  BY DEF HInv, Shapes
<1>1. CASE \A d \in Devices : opks'[d] \subseteq opks[d]
  BY <1>1 DEF OneVersion
<1>2. ASSUME NEW d \in Devices, Bootstrap(d) PROVE OneVersion'
  <2>1. opks' = [opks EXCEPT ![d] = @ \cup (FreeIds(opks[d]) \X {version[d] + 1})]
    BY <1>2 DEF Bootstrap
  <2>2. \A k \in FreeIds(opks[d]) \X {version[d] + 1} :
          /\ k = <<k[1], version[d] + 1>> /\ \A l \in opks[d] : l[1] # k[1]
    BY DEF FreeIds
  <2>3. \A k, l \in opks'[d] : k[1] = l[1] => k = l
    <3> SUFFICES ASSUME NEW k \in opks'[d], NEW l \in opks'[d], k[1] = l[1] PROVE k = l
      OBVIOUS
    <3>1. /\ k \in opks[d] \/ k \in FreeIds(opks[d]) \X {version[d] + 1}
          /\ l \in opks[d] \/ l \in FreeIds(opks[d]) \X {version[d] + 1}
      BY <1>t, <2>1
    <3>2. CASE k \in opks[d] /\ l \in opks[d]
      BY <3>2 DEF OneVersion
    <3>3. CASE ~(k \in opks[d] /\ l \in opks[d])
      BY <2>2, <3>1, <3>3
    <3> QED BY <3>2, <3>3
  <2> QED BY <1>t, <2>1, <2>3 DEF OneVersion
<1>3. ASSUME NEW d \in Devices, NEW j \in jobs[d], BurnOpk(d, j) PROVE OneVersion'
  <2>1. opks' = [opks EXCEPT ![d] = {k \in @ : k[1] # made[j.hs].opk[1]}]
    BY <1>3 DEF BurnOpk
  <2> QED BY <1>1, <1>t, <2>1
<1>4. ASSUME NEW d \in Devices,
             \/ Identify(d) \/ Publish(d) \/ RelayUpload(d) \/ OnResponse(d) \/ OnFrame(d)
             \/ Kill(d) \/ Disconnect(d) \/ Reset(d) \/ \E p \in Devices : RelayRequest(d, p)
      PROVE  OneVersion'
  <2>1. opks' = opks
    BY <1>4 DEF Identify, Publish, RelayUpload, OnResponse, OnFrame, Kill, Disconnect, Reset,
       RelayRequest, database
  <2> QED BY <1>1, <2>1
<1>5. ASSUME NEW d \in Devices, NEW j \in jobs[d],
             \/ CheckSeen(d, j) \/ Derive(d, j) \/ MarkSeen(d, j) \/ StoreSession(d, j)
             \/ ReadSessions(d, j) \/ Show(d, j)
      PROVE  OneVersion'
  <2>1. opks' = opks
    BY <1>5 DEF CheckSeen, Derive, MarkSeen, StoreSession, ReadSessions, Show, database
  <2> QED BY <1>1, <2>1
<1>6. ASSUME NEW t \in Texts,
             \/ Look(t) \/ Compose(t) \/ EmitChat(t) \/ Ask(t) \/ Build(t) \/ BuildFails(t)
             \/ EmitInitial(t) \/ Redeliver(t)
      PROVE  OneVersion'
  <2>1. opks' = opks
    BY <1>6 DEF Look, Compose, EmitChat, Ask, Build, BuildFails, EmitInitial, Redeliver, database
  <2> QED BY <1>1, <2>1
<1>7. CASE UNCHANGED vars
  BY <1>1, <1>7 DEF vars, database
<1> QED BY <1>2, <1>3, <1>4, <1>5, <1>6, <1>7 DEF Next, JobStep

-----------------------------------------------------------------------------
\* A handshake that was built stays what it is.
LEMMA MadeStays ==
  ASSUME HInv, [Next]_vars
  PROVE  \A n \in DOMAIN made : n \in DOMAIN made' /\ made'[n] = made[n]
<1>1. ASSUME NEW t \in Texts, Build(t) PROVE \A n \in DOMAIN made : n \in DOMAIN made' /\ made'[n] = made[n]
  <2>1. made' = Append(made, [from |-> From[t], to |-> To[t], opk |-> with[t], text |-> t])
    BY <1>1 DEF Build
  <2>2. PICK h : h = [from |-> From[t], to |-> To[t], opk |-> with[t], text |-> t]
    OBVIOUS
  <2>3. made' = Append(made, h) /\ made \in Seq(Handshakes)
    BY <2>1, <2>2 DEF HInv, Shapes
  <2> QED BY <2>3
<1>2. ASSUME NEW d \in Devices,
             \/ Identify(d) \/ Bootstrap(d) \/ Publish(d) \/ RelayUpload(d) \/ OnResponse(d)
             \/ OnFrame(d) \/ Kill(d) \/ Disconnect(d) \/ Reset(d)
             \/ \E p \in Devices : RelayRequest(d, p)
      PROVE  made' = made
  BY <1>2 DEF Identify, Bootstrap, Publish, RelayUpload, OnResponse, OnFrame, Kill, Disconnect,
     Reset, RelayRequest, ghosts
<1>3. ASSUME NEW d \in Devices, NEW j \in jobs[d], JobStep(d, j) PROVE made' = made
  BY <1>3 DEF JobStep, CheckSeen, Derive, MarkSeen, BurnOpk, StoreSession, ReadSessions, Show, ghosts
<1>4. ASSUME NEW t \in Texts,
             \/ Look(t) \/ Compose(t) \/ EmitChat(t) \/ Ask(t) \/ BuildFails(t)
             \/ EmitInitial(t) \/ Redeliver(t)
      PROVE  made' = made
  BY <1>4 DEF Look, Compose, EmitChat, Ask, BuildFails, EmitInitial, Redeliver, ghosts
<1>5. CASE UNCHANGED vars
  BY <1>5 DEF vars, ghosts
<1> QED BY <1>1, <1>2, <1>3, <1>4, <1>5 DEF Next

LEMMA HandshakeStays ==
  ASSUME HInv, [Next]_vars
  PROVE  \A n, p, k : InHandshake(n, p, k) => InHandshake(n, p, k)'
BY MadeStays DEF InHandshake

\* A spent key stays spent while coroutines end, start, or move on, but only
\* to "burn" with a handshake not seen before.
LEMMA SpentStays ==
  ASSUME HInv, [Next]_vars, NEW d \in Devices, NEW k,
         seen[d] \subseteq seen'[d],
         \A i \in jobs'[d] : i.kind = "init" /\ i.pc = "burn" => i \in jobs[d] \/ i.hs \notin seen[d]
  PROVE  Spent(d, k) => Spent(d, k)'
<1> SUFFICES ASSUME Spent(d, k) PROVE Spent(d, k)'
  OBVIOUS
<1>1. PICK n \in seen[d] : /\ InHandshake(n, d, k)
                           /\ \A j \in jobs[d] : j.kind = "init" /\ j.hs = n => j.pc # "burn"
  BY DEF Spent
<1>2. InHandshake(n, d, k)'
  BY <1>1, HandshakeStays
<1>3. \A j \in jobs'[d] : j.kind = "init" /\ j.hs = n => j.pc # "burn"
  BY <1>1
<1> QED BY <1>1, <1>2, <1>3 DEF Spent
-----------------------------------------------------------------------------
\* Coroutines of d end, start, or move on, to "burn" with a new handshake only.
NoOldBurn(d) ==
  \A i \in jobs'[d] : i.kind = "init" /\ i.pc = "burn" => i \in jobs[d] \/ i.hs \notin seen[d]

\* Steps that delete no key, and want none but those there are.
LEMMA KeptQuiet ==
  ASSUME HInv, KeysKept, [Next]_vars, reissued \subseteq reissued',
         \A d \in Devices : /\ opks[d] \subseteq opks'[d] /\ seen[d] \subseteq seen'[d]
                            /\ NoOldBurn(d),
         \A d \in Devices, k \in Opks : Wanted(d, k)' => Wanted(d, k) \/ k \in opks[d]
  PROVE  KeysKept'
<1> SUFFICES ASSUME NEW d \in Devices, NEW k \in Opks, Wanted(d, k)', ~Spoilt(d, k[1])'
             PROVE  k \in opks'[d] \/ Spent(d, k)'
  BY DEF KeysKept
<1>1. ~Spoilt(d, k[1])
  BY DEF Spoilt
<1>2. k \in opks[d] \/ Spent(d, k)
  BY <1>1 DEF KeysKept
<1>3. Spent(d, k) => Spent(d, k)'
  BY SpentStays DEF NoOldBurn
<1> QED BY <1>2, <1>3

\* Steps of no coroutine of the inbound lane.
LEMMA KeptOutside ==
  ASSUME HInv, KeysKept, [Next]_vars, UNCHANGED seen,
         \A d \in Devices : \A i \in jobs'[d] : i \in jobs[d] \/ i.pc = "start",
         \A d \in Devices : opks[d] \subseteq opks'[d], reissued \subseteq reissued',
         \A d \in Devices, k \in Opks : Wanted(d, k)' => Wanted(d, k) \/ k \in opks[d]
  PROVE  KeysKept'
<1>1. \A d \in Devices : NoOldBurn(d)
  BY DEF NoOldBurn
<1> QED BY <1>1, KeptQuiet

\* What a coroutine that moves on leaves in the jobs of its device.
LEMMA MovedOf ==
  ASSUME jobs \in [Devices -> SUBSET Jobs], NEW d \in Devices, NEW j \in jobs[d]
  PROVE  \A pc \in Pcs : \A i \in Moved(d, j, pc)[d] :
           (i \in jobs[d] /\ i # j) \/ (i.pc = pc /\ i.hs = j.hs)
<1> SUFFICES ASSUME NEW pc \in Pcs, NEW i \in Moved(d, j, pc)[d]
             PROVE  (i \in jobs[d] /\ i # j) \/ (i.pc = pc /\ i.hs = j.hs)
  OBVIOUS
<1>1. PICK k : k = [j EXCEPT !.pc = pc]
  OBVIOUS
<1>2. j \in Jobs
  OBVIOUS
<1>3. k.pc = pc /\ k.hs = j.hs
  BY <1>1, <1>2 DEF Jobs
<1>4. Moved(d, j, pc) = [jobs EXCEPT ![d] = (jobs[d] \ {j}) \cup {k}]
  BY <1>1 DEF Moved
<1>5. i \in (jobs[d] \ {j}) \cup {k}
  BY <1>4
<1> QED BY <1>3, <1>5

\* Steps of a coroutine other than the deletion.
LEMMA KeptInside ==
  ASSUME HInv, KeysKept, [Next]_vars, NEW d \in Devices, NEW j \in jobs[d],
         \/ CheckSeen(d, j) \/ Derive(d, j) \/ MarkSeen(d, j) \/ StoreSession(d, j)
         \/ ReadSessions(d, j) \/ Show(d, j)
  PROVE  KeysKept'
<1>t. jobs \in [Devices -> SUBSET Jobs] /\ seen \in [Devices -> SUBSET Nat]
  BY DEF HInv, Shapes
<1>1. UNCHANGED <<opks, pool, issued, reissued, upload>>
  BY DEF CheckSeen, Derive, MarkSeen, StoreSession, ReadSessions, Show, database, network, relay, ghosts
<1>2. \A e \in Devices, k \in Opks : Wanted(e, k)' => Wanted(e, k)
  BY <1>1 DEF Wanted
<1>3. \/ UNCHANGED seen
      \/ MarkSeen(d, j) /\ seen' = [seen EXCEPT ![d] = @ \cup {j.hs}]
  BY DEF CheckSeen, Derive, MarkSeen, StoreSession, ReadSessions, Show, database
<1>4. \A e \in Devices : seen[e] \subseteq seen'[e]
  BY <1>t, <1>3
<1>5. \A pc \in Pcs : \A i \in Moved(d, j, pc)[d] : i \in jobs[d] \/ (i.pc = pc /\ i.hs = j.hs)
  BY <1>t, MovedOf
<1>6. \A i \in jobs'[d] : i.pc = "burn" => i \in jobs[d] \/ i.hs \notin seen[d]
  <2>1. CASE MarkSeen(d, j)
    <3>1. CASE j.hs \in seen[d]
      BY <2>1, <3>1, <1>t DEF MarkSeen, Ended
    <3>2. CASE j.hs \notin seen[d]
      BY <2>1, <3>2, <1>5 DEF MarkSeen, Pcs
    <3> QED BY <3>1, <3>2
  <2>2. CASE \/ CheckSeen(d, j) \/ Derive(d, j) \/ StoreSession(d, j)
             \/ ReadSessions(d, j) \/ Show(d, j)
    <3>1. jobs' = Ended(d, j) \/ \E pc \in {"keys", "mark", "show"} : jobs' = Moved(d, j, pc)
      BY <2>2 DEF CheckSeen, Derive, StoreSession, ReadSessions, Show
    <3>2. CASE jobs' = Ended(d, j)
      BY <3>2, <1>t DEF Ended
    <3>3. CASE \E pc \in {"keys", "mark", "show"} : jobs' = Moved(d, j, pc)
      BY <3>3, <1>5 DEF Pcs
    <3> QED BY <3>1, <3>2, <3>3
  <2> QED BY <2>1, <2>2
<1>7. \A e \in Devices \ {d} : jobs'[e] = jobs[e]
  BY <1>t DEF CheckSeen, Derive, MarkSeen, StoreSession, ReadSessions, Show, Moved, Ended
<1>8. \A e \in Devices : NoOldBurn(e)
  BY <1>6, <1>7 DEF NoOldBurn
<1> QED BY <1>1, <1>2, <1>4, <1>8, KeptQuiet

\* deleteOpkById: the handshake it deletes for is the only one that has the key.
LEMMA KeptBurning ==
  ASSUME HInv, Held, OneVersion, KeysKept, [Next]_vars,
         NEW d \in Devices, NEW j \in jobs[d], BurnOpk(d, j)
  PROVE  KeysKept'
<1>t. /\ jobs \in [Devices -> SUBSET Jobs] /\ opks \in [Devices -> SUBSET Opks]
      /\ j \in Jobs /\ j.hs \in Nat
  BY DEF HInv, Shapes, Jobs
<1>1. /\ j.kind = "init" /\ j.pc = "burn" /\ jobs' = Moved(d, j, "store")
      /\ opks' = [opks EXCEPT ![d] = {k \in @ : k[1] # made[j.hs].opk[1]}]
      /\ UNCHANGED <<seen, pool, upload, issued, reissued, made>>
  BY DEF BurnOpk, network, relay, ghosts
<1>2. PICK K : K = made[j.hs].opk
  OBVIOUS
<1>3. j.hs \in DOMAIN made /\ made[j.hs].to = d
  BY <1>1 DEF HInv, Known, JobsAddressed, Addressed
<1>4. InHandshake(j.hs, d, K)
  BY <1>2, <1>3 DEF InHandshake
<1>5. Accepting(j) /\ j.hs \in seen[d]
  BY <1>1 DEF HInv, SeenFirst, Accepting
<1>6. \A pc \in Pcs : \A i \in Moved(d, j, pc)[d] :
        (i \in jobs[d] /\ i # j) \/ (i.pc = pc /\ i.hs = j.hs)
  BY <1>t, MovedOf
<1>7. \A i \in jobs'[d] : i.pc = "burn" => i \in jobs[d] /\ i # j
  BY <1>1, <1>6 DEF Pcs
<1>8. \A e \in Devices \ {d} : jobs'[e] = jobs[e] /\ opks'[e] = opks[e]
  BY <1>1, <1>t DEF Moved
<1>9. \A e \in Devices : \A k : Spent(e, k) => Spent(e, k)'
  <2>1. \A e \in Devices : NoOldBurn(e)
    BY <1>7, <1>8 DEF NoOldBurn
  <2> QED BY <1>1, <2>1, SpentStays DEF NoOldBurn
<1>10. Spent(d, K)'
  <2>1. InHandshake(j.hs, d, K)'
    BY <1>4, HandshakeStays
  <2>2. \A i \in jobs'[d] : i.kind = "init" /\ i.hs = j.hs => i.pc # "burn"
    <3> SUFFICES ASSUME NEW i \in jobs'[d], i.kind = "init", i.hs = j.hs, i.pc = "burn" PROVE FALSE
      OBVIOUS
    <3>1. i \in jobs[d] /\ i # j
      BY <1>7
    <3>2. Accepting(i)
      BY DEF Accepting
    <3> QED BY <1>5, <3>1, <3>2 DEF HInv, AcceptedOnce
  <2> QED BY <1>1, <1>5, <2>1, <2>2 DEF Spent
<1>11. ASSUME NEW k \in Opks, k \in opks[d], k[1] = K[1], ~Spoilt(d, k[1]) PROVE k = K
  <2>1. K \in Opks
    <3>1. K # NoOpk
      BY <1>11, NoOpkIsNoKey DEF NoOpk
    <3> QED BY <1>2, <1>3, <3>1 DEF Held, HeldKeys
  <2>2. <<d, K>> \in issued
    BY <1>4, <1>t, <2>1 DEF Held, HeldIssued
  <2>3. <<d, K>> \notin reissued
    BY <1>11, <2>1 DEF Spoilt
  <2>4. ~Spent(d, K)
    <3> SUFFICES ASSUME NEW n \in seen[d], InHandshake(n, d, K),
                        \A i \in jobs[d] : i.kind = "init" /\ i.hs = n => i.pc # "burn"
                 PROVE  FALSE
      BY DEF Spent
    <3>1. n \in Nat
      BY DEF HInv, Shapes
    <3>2. Once(d, K)
      BY <2>1, <2>3 DEF Held, HeldOnce
    <3>3. n = j.hs
      BY <1>4, <1>t, <3>1, <3>2 DEF Once
    <3> QED BY <1>1, <3>3
  <2>5. K \in opks[d]
    BY <1>11, <2>1, <2>2, <2>4 DEF KeysKept, Wanted
  <2> QED BY <1>11, <2>5 DEF OneVersion
<1>12. \A e \in Devices, k \in Opks : /\ Wanted(e, k)' => Wanted(e, k)
                                      /\ Spoilt(e, k[1])' <=> Spoilt(e, k[1])
  BY <1>1 DEF Wanted, Spoilt
<1> SUFFICES ASSUME NEW e \in Devices, NEW k \in Opks, Wanted(e, k), ~Spoilt(e, k[1])
             PROVE  k \in opks'[e] \/ Spent(e, k)'
  BY <1>12 DEF KeysKept
<1>13. k \in opks[e] \/ Spent(e, k)
  BY DEF KeysKept
<1>14. CASE e # d
  BY <1>8, <1>9, <1>13, <1>14
<1>15. CASE e = d /\ k \in opks[d] /\ k[1] = K[1]
  BY <1>10, <1>11, <1>15
<1>16. CASE e = d /\ k \in opks[d] /\ k[1] # K[1]
  BY <1>1, <1>2, <1>t, <1>16
<1> QED BY <1>9, <1>13, <1>14, <1>15, <1>16

LEMMA KeysKeptStep ==
  ASSUME HInv, Held, OneVersion, KeysKept, [Next]_vars PROVE KeysKept'
<1>t. /\ opks \in [Devices -> SUBSET Opks] /\ upload \in [Devices -> SUBSET Snapshots]
      /\ pool \in [Devices -> SUBSET Opks] /\ jobs \in [Devices -> SUBSET Jobs]
      /\ wire \in [Devices -> Seq(Frames)]
  BY DEF HInv, Shapes
<1>1. CASE UNCHANGED <<opks, seen, jobs, pool, issued, reissued, upload>>
  <2>1. \A d \in Devices, k \in Opks : Wanted(d, k)' => Wanted(d, k)
    BY <1>1 DEF Wanted
  <2> QED BY <1>1, <2>1, KeptOutside
<1>2. ASSUME NEW d \in Devices, Bootstrap(d) PROVE KeysKept'
  <2>1. UNCHANGED <<seen, jobs, pool, issued, reissued, upload>>
    BY <1>2 DEF Bootstrap, memory, network, relay, ghosts
  <2>2. opks' = [opks EXCEPT ![d] = @ \cup (FreeIds(opks[d]) \X {version[d] + 1})]
    BY <1>2 DEF Bootstrap
  <2>3. \A e \in Devices : opks[e] \subseteq opks'[e]
    BY <1>t, <2>2
  <2>4. \A e \in Devices, k \in Opks : Wanted(e, k)' => Wanted(e, k)
    BY <2>1 DEF Wanted
  <2> QED BY <2>1, <2>3, <2>4, KeptOutside
<1>3. ASSUME NEW d \in Devices, Publish(d) PROVE KeysKept'
  <2>1. UNCHANGED <<opks, seen, jobs, pool, issued, reissued>>
    BY <1>3 DEF Publish, database, memory, relay
  <2>2. PICK u : u = [opks |-> opks[d], full |-> d \in identity]
    OBVIOUS
  <2>3. u.opks = opks[d] /\ upload' = [upload EXCEPT ![d] = {u}]
    BY <1>3, <2>2 DEF Publish
  <2>4. \A e \in Devices : upload'[e] = upload[e] \/ (e = d /\ upload'[e] = {u})
    BY <1>t, <2>3
  <2>5. \A e \in Devices, k \in Opks : Wanted(e, k)' => Wanted(e, k) \/ k \in opks[e]
    BY <2>1, <2>3, <2>4 DEF Wanted
  <2> QED BY <2>1, <2>5, KeptOutside
<1>4. ASSUME NEW d \in Devices, RelayUpload(d) PROVE KeysKept'
  <2>1. UNCHANGED <<opks, seen, jobs, issued, reissued>>
    BY <1>4 DEF RelayUpload, database, memory, ghosts
  <2>2. PICK u \in upload[d] :
          /\ upload' = [upload EXCEPT ![d] = {}]
          /\ pool' = [pool EXCEPT ![d] = IF u.opks = {} THEN @ ELSE u.opks]
    BY <1>4 DEF RelayUpload
  <2>3. \A e \in Devices : /\ upload'[e] \subseteq upload[e]
                           /\ pool'[e] = pool[e] \/ (e = d /\ pool'[e] = u.opks)
    BY <1>t, <2>2
  <2>4. \A e \in Devices, k \in Opks : Wanted(e, k)' => Wanted(e, k)
    BY <2>1, <2>3 DEF Wanted
  <2> QED BY <2>1, <2>4, KeptOutside
<1>5. ASSUME NEW d \in Devices, NEW p \in Devices, RelayRequest(d, p) PROVE KeysKept'
  <2>1. UNCHANGED <<opks, seen, jobs, upload>>
    BY <1>5 DEF RelayRequest, database, memory
  <2>2. PICK k \in IF pool[p] = {} THEN {NoOpk} ELSE pool[p] :
          /\ pool' = [pool EXCEPT ![p] = @ \ {k}]
          /\ issued' = issued \cup ({<<p, k>>} \ {<<p, NoOpk>>})
          /\ reissued' = reissued \cup ({<<p, k>>} \cap issued)
    BY <1>5 DEF RelayRequest
  <2>3. \A e \in Devices : pool'[e] \subseteq pool[e]
    BY <1>t, <2>2
  <2>4. k # NoOpk => k \in pool[p]
    BY <2>2
  <2>5. \A e \in Devices, l \in Opks : <<e, l>> \in issued' => <<e, l>> \in issued \/ l \in pool[e]
    BY <2>2, <2>4
  <2>6. \A e \in Devices, l \in Opks : Wanted(e, l)' => Wanted(e, l)
    BY <2>1, <2>3, <2>5 DEF Wanted
  <2> QED BY <2>1, <2>2, <2>6, KeptOutside
<1>6. ASSUME NEW d \in Devices, OnFrame(d) PROVE KeysKept'
  <2>1. UNCHANGED <<opks, seen, pool, issued, reissued, upload>>
    BY <1>6 DEF OnFrame, database, relay
  <2>2. PICK x : x = Job(arrived[d] + 1, Head(wire[d]), "start")
    OBVIOUS
  <2>3. x.pc = "start" /\ jobs' = [jobs EXCEPT ![d] = @ \cup {x}]
    BY <1>6, <2>2 DEF OnFrame, Job
  <2>4. \A e \in Devices : \A i \in jobs'[e] : i \in jobs[e] \/ i.pc = "start"
    BY <1>t, <2>3
  <2>5. \A e \in Devices, l \in Opks : Wanted(e, l)' => Wanted(e, l)
    BY <2>1 DEF Wanted
  <2> QED BY <2>1, <2>4, <2>5, KeptOutside
<1>7. ASSUME NEW d \in Devices, Kill(d) \/ Disconnect(d) PROVE KeysKept'
  <2>1. /\ UNCHANGED <<opks, seen, pool, issued, reissued>>
        /\ upload' = [upload EXCEPT ![d] = {}]
        /\ UNCHANGED jobs \/ jobs' = [jobs EXCEPT ![d] = {}]
    BY <1>7 DEF Kill, Disconnect, database, memory, relay
  <2>2. \A e \in Devices : upload'[e] \subseteq upload[e] /\ jobs'[e] \subseteq jobs[e]
    BY <1>t, <2>1
  <2>3. \A e \in Devices, l \in Opks : Wanted(e, l)' => Wanted(e, l)
    BY <2>1, <2>2 DEF Wanted
  <2> QED BY <2>1, <2>2, <2>3, KeptOutside
<1>8. ASSUME NEW d \in Devices, Identify(d) \/ OnResponse(d) \/ Reset(d) PROVE KeysKept'
  <2>1. UNCHANGED <<opks, seen, jobs, pool, issued, reissued, upload>>
    BY <1>8 DEF Identify, OnResponse, Reset, database, memory, network, relay, ghosts
  <2> QED BY <1>1, <2>1
<1>9. ASSUME NEW t \in Texts,
             \/ Look(t) \/ Compose(t) \/ EmitChat(t) \/ Ask(t) \/ Build(t) \/ BuildFails(t)
             \/ EmitInitial(t) \/ Redeliver(t)
      PROVE  KeysKept'
  <2>1. UNCHANGED <<opks, seen, jobs, pool, issued, reissued, upload>>
    BY <1>9 DEF Look, Compose, EmitChat, Ask, Build, BuildFails, EmitInitial, Redeliver,
       database, memory, network, relay, ghosts
  <2> QED BY <1>1, <2>1
<1>10. CASE UNCHANGED vars
  BY <1>1, <1>10 DEF vars, database, memory, network, relay, ghosts
<1> QED BY <1>2, <1>3, <1>4, <1>5, <1>6, <1>7, <1>8, <1>9, <1>10, KeptInside, KeptBurning
     DEF Next, JobStep

-----------------------------------------------------------------------------
\* A handshake that does not decrypt had a key of a spoilt id.
LEMMA DeriveSuffices ==
  ASSUME HInv, Held, KeysKept, OneVersion, OneTimeKeysSuffice,
         NEW d \in Devices, NEW j \in jobs[d], Derive(d, j)
  PROVE  OneTimeKeysSuffice'
<1>1. PICK K : K = made[j.hs].opk
  OBVIOUS
<1>2. PICK mine : mine = {k \in opks[d] : k[1] = K[1]}
  OBVIOUS
<1>3. /\ failed' = failed \/ (failed' = failed \cup {j.hs} /\ j.hs \notin seen[d] /\ mine # {K} \ {NoOpk})
      /\ j.kind = "init" /\ UNCHANGED <<made, reissued>>
  BY <1>1, <1>2 DEF Derive
<1>4. j.hs \in DOMAIN made /\ made[j.hs].to = d /\ j.hs \in Nat
  BY <1>3 DEF HInv, Known, JobsAddressed, Addressed, Shapes, Jobs
<1>5. InHandshake(j.hs, d, K)
  BY <1>1, <1>4 DEF InHandshake
<1>6. OneTimeKeysSuffice' <=> \A n \in failed' : \E k \in Opks : k[1] = made[n].opk[1] /\ <<Responder(n), k>> \in reissued
  BY <1>3 DEF OneTimeKeysSuffice, Responder
<1>7. CASE failed' = failed
  BY <1>6, <1>7 DEF OneTimeKeysSuffice
<1>8. CASE j.hs \notin seen[d] /\ mine # {K} \ {NoOpk} /\ failed' = failed \cup {j.hs}
  <2>1. Spoilt(d, K[1])
    <3> SUFFICES ASSUME ~Spoilt(d, K[1]) PROVE FALSE
      OBVIOUS
    <3>1. opks[d] \subseteq Opks
      BY DEF HInv, Shapes
    <3>2. CASE K = NoOpk
      <4>1. mine = {}
        BY <1>2, <3>1, <3>2, NoOpkIsNoKey DEF NoOpk
      <4> QED BY <1>8, <3>2, <4>1
    <3>3. CASE K # NoOpk
      <4>1. K \in Opks
        BY <1>1, <1>4, <3>3 DEF Held, HeldKeys
      <4>2. <<d, K>> \in issued /\ <<d, K>> \notin reissued
        BY <1>4, <1>5, <4>1 DEF Held, HeldIssued, Spoilt
      <4>3. ~Spent(d, K)
        <5> SUFFICES ASSUME NEW n \in seen[d], InHandshake(n, d, K) PROVE FALSE
          BY DEF Spent
        <5>1. n \in Nat
          BY DEF HInv, Shapes
        <5>2. Once(d, K)
          BY <4>1, <4>2 DEF Held, HeldOnce
        <5>3. n = j.hs
          BY <1>4, <1>5, <5>1, <5>2 DEF Once
        <5> QED BY <1>8, <5>3
      <4>4. K \in opks[d]
        BY <4>1, <4>2, <4>3 DEF KeysKept, Wanted
      <4>5. mine = {K}
        BY <1>2, <4>4 DEF OneVersion
      <4> QED BY <1>8, <3>3, <4>5
    <3> QED BY <3>2, <3>3
  <2>2. \E k \in Opks : k[1] = made[j.hs].opk[1] /\ <<Responder(j.hs), k>> \in reissued
    BY <1>1, <1>4, <2>1 DEF Spoilt, Responder
  <2> QED BY <1>6, <1>8, <2>2 DEF OneTimeKeysSuffice
<1> QED BY <1>3, <1>7, <1>8

LEMMA SufficeStep ==
  ASSUME HInv, Held, KeysKept, OneVersion, OneTimeKeysSuffice, [Next]_vars
  PROVE  OneTimeKeysSuffice'
<1>1. CASE failed' = failed /\ reissued \subseteq reissued'
  <2> SUFFICES ASSUME NEW n \in failed
               PROVE  \E k \in Opks : k[1] = made'[n].opk[1] /\ <<made'[n].to, k>> \in reissued'
    BY <1>1 DEF OneTimeKeysSuffice, Responder
  <2>1. PICK k \in Opks : k[1] = made[n].opk[1] /\ <<made[n].to, k>> \in reissued
    BY DEF OneTimeKeysSuffice, Responder
  <2>2. InHandshake(n, made[n].to, made[n].opk)
    BY DEF InHandshake, HInv, Known, NumbersKnown
  <2>3. made'[n].to = made[n].to /\ made'[n].opk = made[n].opk
    BY <2>2, HandshakeStays DEF InHandshake
  <2> QED BY <1>1, <2>1, <2>3
<1>2. ASSUME NEW d \in Devices,
             \/ Identify(d) \/ Bootstrap(d) \/ Publish(d) \/ RelayUpload(d) \/ OnResponse(d)
             \/ OnFrame(d) \/ Kill(d) \/ Disconnect(d) \/ Reset(d)
      PROVE  failed' = failed /\ reissued' = reissued
  BY <1>2 DEF Identify, Bootstrap, Publish, RelayUpload, OnResponse, OnFrame, Kill, Disconnect,
     Reset, ghosts
<1>3. ASSUME NEW d \in Devices, NEW p \in Devices, RelayRequest(d, p)
      PROVE  failed' = failed /\ reissued \subseteq reissued'
  BY <1>3 DEF RelayRequest
<1>4. ASSUME NEW d \in Devices, NEW j \in jobs[d],
             \/ CheckSeen(d, j) \/ MarkSeen(d, j) \/ BurnOpk(d, j) \/ StoreSession(d, j)
             \/ ReadSessions(d, j) \/ Show(d, j)
      PROVE  failed' = failed /\ reissued' = reissued
  BY <1>4 DEF CheckSeen, MarkSeen, BurnOpk, StoreSession, ReadSessions, Show, ghosts
<1>5. ASSUME NEW t \in Texts,
             \/ Look(t) \/ Compose(t) \/ EmitChat(t) \/ Ask(t) \/ Build(t) \/ BuildFails(t)
             \/ EmitInitial(t) \/ Redeliver(t)
      PROVE  failed' = failed /\ reissued' = reissued
  BY <1>5 DEF Look, Compose, EmitChat, Ask, Build, BuildFails, EmitInitial, Redeliver, ghosts
<1>6. CASE UNCHANGED vars
  BY <1>1, <1>6 DEF vars, ghosts
<1> QED BY <1>1, <1>2, <1>3, <1>4, <1>5, <1>6, DeriveSuffices DEF Next, JobStep

LEMMA KInvInit == Init => KInv
<1> SUFFICES ASSUME Init PROVE KInv
  OBVIOUS
<1>1. /\ responses = [d \in Devices |-> <<>>] /\ stage = [t \in Texts |-> "new"]
      /\ made = <<>> /\ issued = {} /\ failed = {}
      /\ pool = [d \in Devices |-> {}] /\ upload = [d \in Devices |-> {}]
      /\ opks = [d \in Devices |-> IF d \in Ready THEN (1..Batch) \X {1} ELSE {}]
  BY DEF Init
<1>2. HeldKeys
  BY <1>1 DEF HeldKeys
<1>3. /\ \A d \in Devices, i \in Nat : \A p, k : ~InResponse(d, i, p, k)
      /\ \A t \in Texts : \A p, k : ~InCoroutine(t, p, k)
      /\ \A n \in Nat : \A p, k : ~InHandshake(n, p, k)
  BY <1>1 DEF InResponse, InCoroutine, InHandshake
<1>4. HeldIssued /\ HeldOnce
  BY <1>3 DEF HeldIssued, HeldOnce, Once
<1>5. OneVersion
  <2>1. \A d \in Devices : opks[d] \subseteq (1..Batch) \X {1}
    BY <1>1
  <2>2. \A k \in (1..Batch) \X {1} : k = <<k[1], 1>>
    OBVIOUS
  <2> QED BY <2>1, <2>2 DEF OneVersion
<1>6. KeysKept
  BY <1>1 DEF KeysKept, Wanted
<1>7. OneTimeKeysSuffice
  BY <1>1 DEF OneTimeKeysSuffice
<1> QED BY <1>2, <1>4, <1>5, <1>6, <1>7 DEF KInv

\* A handshake that reaches its responder decrypts there, unless the relay had
\* given a key of that id to two initiators (deleteOpkById deletes by key id,
\* bootstrap takes free ids again).
THEOREM KeysSuffice == Spec => []OneTimeKeysSuffice
<1>1. HInv /\ KInv /\ [Next]_vars => KInv'
  BY HeldStep, OneVersionStep, KeysKeptStep, SufficeStep DEF KInv, Held
<1>2. KInv => OneTimeKeysSuffice
  BY DEF KInv
<1> QED BY <1>1, <1>2, KInvInit, HInvAlways, PTL DEF Spec

-----------------------------------------------------------------------------
(* Sessions agree.  A handshake that may still be stored is the newest of   *)
(* its pair, or the pair is noted as one that overlapped; so what a device  *)
(* stores is newer than all its sessions with the peer have been.           *)

MadeBy == \A n \in DOMAIN made : made[n].from = From[made[n].text]

\* A session belongs to the pair that made its handshake.
OfPair ==
  \A d, p \in Devices : session[d][p] # 0 =>
    LET n == session[d][p] IN
    \/ made[n].from = d /\ made[n].to = p
    \/ made[n].from = p /\ made[n].to = d

Newest ==
  \A m, n \in DOMAIN made :
    Pair(m) = Pair(n) /\ n < m /\ UnderWay(n) /\ n \notin stored => Pair(n) \in overlapped

\* No session of a pair is older than a handshake that its device made or stored.
NotOlder(d, p, n) == session[d][p] = 0 \/ n <= session[d][p]
NeverBehind ==
  \A n \in DOMAIN made : Pair(n) \notin overlapped =>
    /\ NotOlder(Sender(n), Responder(n), n)
    /\ n \in stored => NotOlder(Responder(n), Sender(n), n)

SInv == MadeBy /\ OfPair /\ Newest /\ NeverBehind

\* The devices of a handshake.
LEMMA PairDevices ==
  ASSUME HInv
  PROVE  /\ DOMAIN made = 1..Len(made) /\ Len(made) \in Nat
         /\ \A n \in DOMAIN made : /\ n \in Nat
                                   /\ made[n] \in Handshakes /\ made[n].text \in Texts
                                   /\ made[n].from \in Devices /\ made[n].to \in Devices
         /\ \A n \in stored : n \in DOMAIN made
         /\ \A d, p \in Devices : session[d][p] \in Nat /\ (session[d][p] # 0 => session[d][p] \in DOMAIN made)
         /\ session \in [Devices -> [Devices -> Nat]]
<1>1. made \in Seq(Handshakes) /\ session \in [Devices -> [Devices -> Nat]]
  BY DEF HInv, Shapes
<1>2. \A n \in DOMAIN made : made[n] \in Handshakes
  BY <1>1
<1>3. \A d, p \in Devices : session[d][p] \in 0..Len(made)
  BY DEF HInv, Known, NumbersKnown
<1>4. stored \subseteq DOMAIN made
  BY DEF HInv, Known, NumbersKnown
<1>5. DOMAIN made = 1..Len(made) /\ Len(made) \in Nat
  BY <1>1
<1>6. \A n \in DOMAIN made : n \in Nat
  BY <1>5
<1>7. \A h \in Handshakes : h.text \in Texts /\ h.from \in Devices /\ h.to \in Devices
  BY DEF Handshakes
<1>8. \A d, p \in Devices : session[d][p] \in Nat /\ (session[d][p] # 0 => session[d][p] \in DOMAIN made)
  BY <1>3, <1>5
<1> QED BY <1>1, <1>2, <1>4, <1>5, <1>6, <1>7, <1>8

\* What is under way was so before, or came to be just now.
LEMMA NowUnderWay ==
  ASSUME HInv, [Next]_vars, NEW n \in DOMAIN made, UnderWay(n)'
  PROVE  \/ UnderWay(n)
         \/ \E t \in Texts : Redeliver(t) /\ made[n].text = t
<1> DEFINE Stays == UnderWay(n) \/ \E t \in Texts : Redeliver(t) /\ made[n].text = t
<1>p. PICK p \in Devices : p = made[n].to
  BY PairDevices
<1>q. made'[n] = made[n]
  BY MadeStays
<1>a. \/ \E t \in Texts : stage'[t] = "built" /\ with'[t][1] = n
      \/ \E i \in DOMAIN wire'[p] : wire'[p][i].kind = "init" /\ wire'[p][i].hs = n
      \/ \E j \in jobs'[p] : j.kind = "init" /\ j.hs = n /\ j.pc # "show"
  BY <1>p, <1>q DEF UnderWay, Responder
<1>b. /\ \A t \in Texts : stage[t] = "built" /\ with[t][1] = n => UnderWay(n)
      /\ \A i \in DOMAIN wire[p] : wire[p][i].kind = "init" /\ wire[p][i].hs = n => UnderWay(n)
      /\ \A j \in jobs[p] : j.kind = "init" /\ j.hs = n /\ j.pc # "show" => UnderWay(n)
  BY <1>p DEF UnderWay, Responder
<1>t. /\ stage \in [Texts -> Stages] /\ with \in [Texts -> Numbers]
      /\ wire \in [Devices -> Seq(Frames)] /\ jobs \in [Devices -> SUBSET Jobs]
      /\ DOMAIN made = 1..Len(made) /\ Len(made) \in Nat
  BY PairDevices DEF HInv, Shapes
<1>1. CASE /\ \A t \in Texts : stage'[t] = "built" => stage[t] = "built" /\ with'[t] = with[t]
           /\ \A i \in DOMAIN wire'[p] : i \in DOMAIN wire[p] /\ wire'[p][i] = wire[p][i]
           /\ \A j \in jobs'[p] : j.pc # "show" =>
                \E k \in jobs[p] : k.kind = j.kind /\ k.hs = j.hs /\ k.pc # "show"
  BY <1>1, <1>a, <1>b
<1>2. ASSUME NEW d \in Devices,
             \/ Identify(d) \/ Bootstrap(d) \/ Publish(d) \/ RelayUpload(d) \/ Disconnect(d)
             \/ Reset(d) \/ \E q \in Devices : RelayRequest(d, q)
      PROVE  Stays
  <2>1. UNCHANGED <<stage, with, wire, jobs>>
    BY <1>2 DEF Identify, Bootstrap, Publish, RelayUpload, Disconnect, Reset, RelayRequest,
       memory, network
  <2> QED BY <1>1, <2>1
<1>3. ASSUME NEW d \in Devices, OnResponse(d) \/ Kill(d) PROVE Stays
  <2>1. CASE Kill(d)
    <3>1. /\ UNCHANGED <<with, wire>> /\ jobs' = [jobs EXCEPT ![d] = {}]
          /\ \A t \in Texts : stage'[t] = "built" => stage[t] = "built"
      BY <2>1, <1>t DEF Kill
    <3>2. jobs'[p] \subseteq jobs[p]
      BY <1>t, <3>1
    <3> QED BY <1>1, <3>1, <3>2
  <2>2. CASE OnResponse(d)
    <3>1. PICK u : u = pending[d][Head(responses[d]).of]
      OBVIOUS
    <3>2. /\ UNCHANGED <<wire, jobs>>
          /\ \/ UNCHANGED <<stage, with>>
             \/ \E x \in {"building", "refused"} : \E y :
                  stage' = [stage EXCEPT ![u] = x] /\ with' = [with EXCEPT ![u] = y]
      BY <2>2, <3>1 DEF OnResponse
    <3>3. \A t \in Texts : stage'[t] = "built" => stage[t] = "built" /\ with'[t] = with[t]
      BY <1>t, <3>2
    <3> QED BY <1>1, <3>2, <3>3
  <2> QED BY <1>3, <2>1, <2>2
<1>4. ASSUME NEW t \in Texts, Look(t) \/ Compose(t) \/ Ask(t) \/ BuildFails(t) PROVE Stays
  <2>1. /\ UNCHANGED <<wire, jobs>>
        /\ \E x \in Stages \ {"built"} : stage' = [stage EXCEPT ![t] = x]
        /\ \A u \in Texts \ {t} : with'[u] = with[u]
    BY <1>4, <1>t DEF Look, Compose, Ask, BuildFails, network, Stages
  <2>2. \A u \in Texts : stage'[u] = "built" => stage[u] = "built" /\ with'[u] = with[u]
    BY <1>t, <2>1
  <2> QED BY <1>1, <2>1, <2>2
<1>5. ASSUME NEW t \in Texts, Build(t) PROVE Stays
  <2>1. /\ UNCHANGED <<wire, jobs>> /\ stage' = [stage EXCEPT ![t] = "built"]
        /\ with' = [with EXCEPT ![t] = <<Len(made) + 1, 0>>]
    BY <1>5 DEF Build, network
  <2>2. n # Len(made) + 1
    BY <1>t
  <2>3. \A u \in Texts : stage'[u] = "built" /\ with'[u][1] = n => stage[u] = "built" /\ with[u][1] = n
    BY <1>t, <2>1, <2>2
  <2> QED BY <1>a, <1>b, <2>1, <2>3
<1>6. ASSUME NEW t \in Texts, EmitChat(t) \/ EmitInitial(t) PROVE Stays
  <2>1. PICK f : f = IF stage[t] = "built" THEN Frame("init", with[t][1], t)
                                           ELSE Frame("chat", with[t][1], t)
    OBVIOUS
  <2>2. /\ UNCHANGED <<with, jobs>> /\ stage' = [stage EXCEPT ![t] = "out"]
        /\ wire' = [wire EXCEPT ![To[t]] = Append(@, f)]
    BY <1>6, <2>1 DEF EmitChat, EmitInitial
  <2>3. f \in Frames /\ To[t] \in Devices /\ f.hs = with[t][1] /\ (f.kind = "init" => stage[t] = "built")
    <3>1. To[t] \in Devices /\ with[t][1] \in Nat
      BY <1>t, TextsAssumption DEF Numbers
    <3> QED BY <2>1, <3>1 DEF Frame, Frames
  <2>4. \A i \in DOMAIN wire'[p] : \/ wire'[p][i] = f
                                   \/ i \in DOMAIN wire[p] /\ wire'[p][i] = wire[p][i]
    BY <1>t, <2>2, <2>3, WireAppend
  <2>5. \A u \in Texts : stage'[u] = "built" => stage[u] = "built" /\ with'[u] = with[u]
    BY <1>t, <2>2
  <2> QED BY <1>a, <1>b, <2>2, <2>3, <2>4, <2>5
<1>7. ASSUME NEW t \in Texts, Redeliver(t) PROVE Stays
  <2>1. PICK kind \in {"init", "chat"} :
          /\ kind = "init" <=> \E m \in DOMAIN made : made[m].text = t
          /\ wire' = [wire EXCEPT ![To[t]] = Append(@, Frame(kind, with[t][1], t))]
    BY <1>7 DEF Redeliver
  <2>2. PICK f : f = Frame(kind, with[t][1], t)
    OBVIOUS
  <2>3. UNCHANGED <<stage, with, jobs>>
    BY <1>7 DEF Redeliver, memory
  <2>4. f \in Frames /\ To[t] \in Devices /\ f.hs = with[t][1] /\ f.kind = kind
    <3>1. To[t] \in Devices /\ with[t][1] \in Nat
      BY <1>t, TextsAssumption DEF Numbers
    <3> QED BY <2>2, <3>1 DEF Frame, Frames
  <2>5. \A i \in DOMAIN wire'[p] : \/ wire'[p][i] = f
                                   \/ i \in DOMAIN wire[p] /\ wire'[p][i] = wire[p][i]
    BY <1>t, <2>1, <2>2, <2>4, WireAppend
  <2>6. \A m \in DOMAIN made : with[made[m].text][1] = m
    BY DEF HInv, Known, TextsKnown, BuiltOnce
  <2>7. f.kind = "init" /\ f.hs = n => made[n].text = t
    BY <2>1, <2>4, <2>6
  <2> QED BY <1>7, <1>a, <1>b, <2>3, <2>5, <2>7
<1>8. ASSUME NEW d \in Devices, OnFrame(d) PROVE Stays
  <2>1. PICK f : f = Head(wire[d])
    OBVIOUS
  <2>2. PICK x : x = Job(arrived[d] + 1, f, "start")
    OBVIOUS
  <2>3. /\ wire[d] # <<>> /\ UNCHANGED <<stage, with>>
        /\ wire' = [wire EXCEPT ![d] = Tail(@)] /\ jobs' = [jobs EXCEPT ![d] = @ \cup {x}]
    BY <1>8, <2>1, <2>2 DEF OnFrame
  <2>4. 1 \in DOMAIN wire[d] /\ wire[d][1] = f
    BY <1>t, <2>1, <2>3
  <2>5. x.kind = f.kind /\ x.hs = f.hs
    BY <2>2 DEF Job
  <2>6. \A j \in jobs'[p] : j \in jobs[p] \/ (p = d /\ j = x)
    BY <1>t, <2>3
  <2>7. \A i \in DOMAIN wire'[p] : \E k \in DOMAIN wire[p] : wire'[p][i] = wire[p][k]
    <3>1. CASE p = d
      <4>1. wire'[p] = Tail(wire[d])
        BY <1>t, <2>3, <3>1
      <4>2. \A i \in DOMAIN Tail(wire[d]) : i + 1 \in DOMAIN wire[d] /\ Tail(wire[d])[i] = wire[d][i + 1]
        BY <1>t, <2>3
      <4> QED BY <3>1, <4>1, <4>2
    <3>2. CASE p # d
      BY <1>t, <2>3, <3>2
    <3> QED BY <3>1, <3>2
  <2> QED BY <1>a, <1>b, <2>3, <2>4, <2>5, <2>6, <2>7
<1>9. ASSUME NEW d \in Devices, NEW j \in jobs[d], JobStep(d, j) PROVE Stays
  <2>1. UNCHANGED <<stage, with, wire>>
    BY <1>9 DEF JobStep, CheckSeen, Derive, MarkSeen, BurnOpk, StoreSession, ReadSessions, Show, network
  <2>2. \/ jobs' = Ended(d, j)
        \/ j.pc # "show" /\ \E pc \in Pcs : jobs' = Moved(d, j, pc)
    BY <1>9 DEF JobStep, CheckSeen, Derive, MarkSeen, BurnOpk, StoreSession, ReadSessions, Show, Pcs
  <2>3. \A i \in jobs'[p] : i \in jobs[p] \/ (p = d /\ i.kind = j.kind /\ i.hs = j.hs /\ j.pc # "show")
    <3>1. CASE jobs' = Ended(d, j)
      BY <1>t, <3>1 DEF Ended
    <3>2. ASSUME NEW pc \in Pcs, j.pc # "show", jobs' = Moved(d, j, pc)
          PROVE  \A i \in jobs'[p] : i \in jobs[p] \/ (p = d /\ i.kind = j.kind /\ i.hs = j.hs /\ j.pc # "show")
      <4>1. PICK k : k = [j EXCEPT !.pc = pc]
        OBVIOUS
      <4>2. k.kind = j.kind /\ k.hs = j.hs
        BY <4>1, <1>t DEF Jobs
      <4>3. jobs' = [jobs EXCEPT ![d] = (jobs[d] \ {j}) \cup {k}]
        BY <3>2, <4>1 DEF Moved
      <4> QED BY <1>t, <3>2, <4>2, <4>3
    <3> QED BY <2>2, <3>1, <3>2
  <2> QED BY <1>a, <1>b, <2>1, <2>3
<1>10. CASE UNCHANGED vars
  <2>1. UNCHANGED <<stage, with, wire, jobs>>
    BY <1>10 DEF vars, memory, network
  <2> QED BY <1>1, <2>1
<1> QED BY <1>2, <1>3, <1>4, <1>5, <1>6, <1>7, <1>8, <1>9, <1>10 DEF Next

\* What steps do to the variables of SInv.
LEMMA SessionEffects ==
  ASSUME HInv, [Next]_vars
  PROVE  \/ made' = made /\ session' = session /\ stored' = stored /\ overlapped \subseteq overlapped'
         \/ \E d \in Devices : Reset(d)
         \/ \E t \in Texts : Build(t)
         \/ \E d \in Devices : \E j \in jobs[d] : StoreSession(d, j)
<1>1. ASSUME NEW d \in Devices,
             \/ Identify(d) \/ Bootstrap(d) \/ Publish(d) \/ RelayUpload(d) \/ OnResponse(d)
             \/ OnFrame(d) \/ Kill(d) \/ Disconnect(d)
             \/ \E p \in Devices : RelayRequest(d, p)
      PROVE  UNCHANGED <<made, session, stored, overlapped>>
  BY <1>1 DEF Identify, Bootstrap, Publish, RelayUpload, OnResponse, OnFrame, Kill, Disconnect,
     RelayRequest, database, ghosts
<1>2. ASSUME NEW d \in Devices, NEW j \in jobs[d],
             \/ CheckSeen(d, j) \/ Derive(d, j) \/ MarkSeen(d, j) \/ BurnOpk(d, j)
             \/ ReadSessions(d, j) \/ Show(d, j)
      PROVE  UNCHANGED <<made, session, stored, overlapped>>
  BY <1>2 DEF CheckSeen, Derive, MarkSeen, BurnOpk, ReadSessions, Show, database, ghosts
<1>3. ASSUME NEW t \in Texts,
             \/ Look(t) \/ Compose(t) \/ EmitChat(t) \/ Ask(t) \/ BuildFails(t) \/ EmitInitial(t)
      PROVE  UNCHANGED <<made, session, stored, overlapped>>
  BY <1>3 DEF Look, Compose, EmitChat, Ask, BuildFails, EmitInitial, database, ghosts
<1>4. ASSUME NEW t \in Texts, Redeliver(t)
      PROVE  UNCHANGED <<made, session, stored>> /\ overlapped \subseteq overlapped'
  BY <1>4 DEF Redeliver, database
<1>5. CASE UNCHANGED vars
  BY <1>5 DEF vars, database, ghosts
<1> QED BY <1>1, <1>2, <1>3, <1>4, <1>5 DEF Next, JobStep

\* What Build adds.
LEMMA Built ==
  ASSUME HInv, NEW t \in Texts, Build(t)
  PROVE  \E n \in Nat :
           /\ n = Len(made) + 1 /\ n \notin DOMAIN made /\ n \notin stored
           /\ DOMAIN made' = DOMAIN made \cup {n}
           /\ \A m \in DOMAIN made : made'[m] = made[m] /\ m < n
           /\ made'[n].from = From[t] /\ made'[n].to = To[t] /\ made'[n].text = t
           /\ From[t] \in Devices /\ To[t] \in Devices
           /\ session' = [session EXCEPT ![From[t]][To[t]] = n]
           /\ overlapped' = IF \E m \in DOMAIN made : Pair(m) = {From[t], To[t]} /\ UnderWay(m)
                            THEN overlapped \cup {{From[t], To[t]}} ELSE overlapped
           /\ stored' = stored
<1>1. PICK h : h = [from |-> From[t], to |-> To[t], opk |-> with[t], text |-> t]
  OBVIOUS
<1>2. h.from = From[t] /\ h.to = To[t] /\ h.text = t
  BY <1>1
<1>3. PICK n \in Nat : n = Len(made) + 1
  BY PairDevices
<1>4. made' = Append(made, h) /\ made \in Seq(Handshakes)
  BY <1>1 DEF Build, HInv, Shapes
<1>5. /\ DOMAIN made' = DOMAIN made \cup {n} /\ made'[n] = h
      /\ \A m \in DOMAIN made : made'[m] = made[m] /\ m < n
  BY <1>3, <1>4
<1>6. n \notin DOMAIN made /\ n \notin stored
  BY <1>3, PairDevices
<1>7. From[t] \in Devices /\ To[t] \in Devices
  BY TextsAssumption
<1> QED BY <1>2, <1>3, <1>5, <1>6, <1>7 DEF Build

\* What StoreSession stores.
LEMMA Stored ==
  ASSUME HInv, NEW d \in Devices, NEW j \in jobs[d], StoreSession(d, j)
  PROVE  /\ j.hs \in DOMAIN made /\ j.hs \notin stored /\ UnderWay(j.hs) /\ Responder(j.hs) = d
         /\ session' = [session EXCEPT ![d][Sender(j.hs)] = j.hs]
         /\ stored' = stored \cup {j.hs} /\ made' = made /\ overlapped' = overlapped
<1>1. /\ j.kind = "init" /\ j.pc = "store"
      /\ session' = [session EXCEPT ![d][Sender(j.hs)] = j.hs]
      /\ stored' = stored \cup {j.hs} /\ made' = made /\ overlapped' = overlapped
  BY DEF StoreSession
<1>2. j.hs \in DOMAIN made /\ made[j.hs].to = d
  BY <1>1 DEF HInv, Known, JobsAddressed, Addressed
<1>3. j.hs \notin stored
  BY <1>1 DEF HInv, SeenFirst, Accepting
<1>4. UnderWay(j.hs)
  BY <1>1, <1>2 DEF UnderWay, Responder
<1> QED BY <1>1, <1>2, <1>3, <1>4 DEF Responder

LEMMA MadeByStep ==
  ASSUME HInv, MadeBy, [Next]_vars PROVE MadeBy'
<1>1. CASE made' = made
  BY <1>1 DEF MadeBy
<1>2. ASSUME NEW t \in Texts, Build(t) PROVE MadeBy'
  <2>1. PICK k \in Nat :
           /\ DOMAIN made' = DOMAIN made \cup {k}
           /\ \A m \in DOMAIN made : made'[m] = made[m]
           /\ made'[k].from = From[t] /\ made'[k].text = t
    BY <1>2, Built
  <2> SUFFICES ASSUME NEW n \in DOMAIN made' PROVE made'[n].from = From[made'[n].text]
    BY DEF MadeBy
  <2>2. CASE n = k
    BY <2>1, <2>2
  <2>3. CASE n \in DOMAIN made
    BY <2>1, <2>3 DEF MadeBy
  <2> QED BY <2>1, <2>2, <2>3
<1>3. ASSUME NEW d \in Devices, Reset(d) PROVE made' = made
  BY <1>3 DEF Reset
<1> QED BY <1>1, <1>2, <1>3, SessionEffects, Stored

LEMMA OfPairStep ==
  ASSUME HInv, OfPair, [Next]_vars PROVE OfPair'
<1>s. session \in [Devices -> [Devices -> Nat]]
  BY PairDevices
<1>1. CASE made' = made /\ session' = session
  BY <1>1 DEF OfPair
<1>2. ASSUME NEW t \in Texts, Build(t) PROVE OfPair'
  <2>1. PICK n \in Nat :
           /\ n = Len(made) + 1 /\ n \notin DOMAIN made
           /\ \A m \in DOMAIN made : made'[m] = made[m]
           /\ made'[n].from = From[t] /\ made'[n].to = To[t]
           /\ From[t] \in Devices /\ To[t] \in Devices
           /\ session' = [session EXCEPT ![From[t]][To[t]] = n]
    BY <1>2, Built
  <2> SUFFICES ASSUME NEW d \in Devices, NEW p \in Devices, session'[d][p] # 0
               PROVE  \/ made'[session'[d][p]].from = d /\ made'[session'[d][p]].to = p
                      \/ made'[session'[d][p]].from = p /\ made'[session'[d][p]].to = d
    BY DEF OfPair
  <2>2. CASE d = From[t] /\ p = To[t]
    <3>1. session'[d][p] = n
      BY <1>s, <2>1, <2>2
    <3> QED BY <2>1, <2>2, <3>1
  <2>3. CASE ~(d = From[t] /\ p = To[t])
    <3>1. session'[d][p] = session[d][p]
      BY <1>s, <2>1, <2>3
    <3>2. session[d][p] \in DOMAIN made
      BY <3>1, PairDevices
    <3> QED BY <2>1, <3>1, <3>2 DEF OfPair
  <2> QED BY <2>2, <2>3
<1>3. ASSUME NEW d \in Devices, Reset(d) PROVE OfPair'
  <2>1. /\ made' = made
        /\ session' = [session EXCEPT ![d] = [p \in Devices |-> 0]]
    BY <1>3 DEF Reset
  <2>2. \A e, p \in Devices : session'[e][p] = session[e][p] \/ session'[e][p] = 0
    BY <1>s, <2>1
  <2> QED BY <2>1, <2>2 DEF OfPair
<1>4. ASSUME NEW d \in Devices, NEW j \in jobs[d], StoreSession(d, j) PROVE OfPair'
  <2>1. PICK f \in Devices : f = Sender(j.hs)
    BY <1>4, Stored, PairDevices DEF Sender
  <2>2. \A e, p \in Devices : \/ session'[e][p] = session[e][p]
                              \/ e = d /\ p = f /\ session'[e][p] = j.hs
    BY <1>s, <1>4, <2>1, Stored
  <2>3. made[j.hs].from = f /\ made[j.hs].to = d /\ made' = made
    BY <1>4, <2>1, Stored DEF Sender, Responder
  <2> QED BY <2>2, <2>3 DEF OfPair
<1> QED BY <1>1, <1>2, <1>3, <1>4, SessionEffects

LEMMA NewestStep ==
  ASSUME HInv, MadeBy, Newest, [Next]_vars PROVE Newest'
<1> SUFFICES ASSUME NEW m \in DOMAIN made', NEW n \in DOMAIN made', Pair(m)' = Pair(n)', n < m,
                    UnderWay(n)', n \notin stored'
             PROVE  Pair(n)' \in overlapped'
  BY DEF Newest
<1>o. overlapped \subseteq overlapped' /\ stored \subseteq stored'
  <2>1. ASSUME NEW t \in Texts, Build(t) PROVE overlapped \subseteq overlapped' /\ stored \subseteq stored'
    BY <2>1, Built
  <2>2. ASSUME NEW d \in Devices, Reset(d) PROVE overlapped \subseteq overlapped' /\ stored \subseteq stored'
    BY <2>2 DEF Reset
  <2> QED BY <2>1, <2>2, SessionEffects, Stored
<1>1. CASE m \in DOMAIN made /\ n \in DOMAIN made
  <2>1. Pair(m)' = Pair(m) /\ Pair(n)' = Pair(n)
    BY <1>1, MadeStays DEF Pair, Sender, Responder
  <2>2. CASE UnderWay(n)
    BY <1>1, <1>o, <2>1, <2>2 DEF Newest
  <2>3. ASSUME NEW t \in Texts, Redeliver(t), made[n].text = t PROVE Pair(n) \in overlapped'
    <3>1. overlapped' = IF \E k, l \in DOMAIN made : made[k].text = t /\ k \notin stored
                                               /\ l > k /\ Pair(l) = Pair(k)
                        THEN overlapped \cup {{From[t], To[t]}} ELSE overlapped
      BY <2>3 DEF Redeliver
    <3>2. made[n].to = To[t] /\ made[n].from = From[t]
      BY <1>1, <2>3 DEF HInv, Known, TextsKnown, BuiltOnce, MadeBy
    <3>3. Pair(n) = {From[t], To[t]}
      BY <3>2 DEF Pair, Sender, Responder
    <3>4. n \notin stored /\ m > n
      BY <1>1, <1>o, PairDevices
    <3> QED BY <1>1, <2>1, <2>3, <3>1, <3>3, <3>4
  <2> QED BY <1>1, <2>1, <2>2, <2>3, NowUnderWay
<1>2. CASE ~(m \in DOMAIN made /\ n \in DOMAIN made)
  <2>1. PICK t \in Texts : Build(t)
    <3>1. ASSUME NEW d \in Devices, Reset(d) PROVE made' = made
      BY <3>1 DEF Reset
    <3> QED BY <1>2, <3>1, SessionEffects, Stored
  <2>2. PICK k \in Nat :
           /\ k = Len(made) + 1 /\ k \notin DOMAIN made
           /\ DOMAIN made' = DOMAIN made \cup {k}
           /\ \A i \in DOMAIN made : made'[i] = made[i] /\ i < k
           /\ made'[k].from = From[t] /\ made'[k].to = To[t]
           /\ overlapped' = IF \E i \in DOMAIN made : Pair(i) = {From[t], To[t]} /\ UnderWay(i)
                            THEN overlapped \cup {{From[t], To[t]}} ELSE overlapped
    BY <2>1, Built
  <2>3. m = k /\ n \in DOMAIN made
    <3>1. ASSUME n = k PROVE FALSE
      <4>1. m = k \/ m < k
        BY <2>2
      <4>2. m \in Nat
        BY <2>2, PairDevices
      <4> QED BY <3>1, <4>1, <4>2
    <3> QED BY <1>2, <2>2, <3>1
  <2>4. Pair(n)' = Pair(n) /\ Pair(m)' = {From[t], To[t]}
    BY <2>2, <2>3 DEF Pair, Sender, Responder
  <2>5. UnderWay(n)
    <3>1. ASSUME NEW u \in Texts, Redeliver(u) PROVE FALSE
      <4>1. made' = made
        BY <3>1 DEF Redeliver
      <4> QED BY <2>2, <4>1
    <3> QED BY <2>3, <3>1, NowUnderWay
  <2> QED BY <2>2, <2>3, <2>4, <2>5
<1> QED BY <1>1, <1>2

LEMMA NeverBehindStep ==
  ASSUME HInv, SInv, [Next]_vars PROVE NeverBehind'
<1>s. session \in [Devices -> [Devices -> Nat]]
  BY PairDevices
<1> SUFFICES ASSUME NEW n \in DOMAIN made', Pair(n)' \notin overlapped'
             PROVE  /\ NotOlder(Sender(n), Responder(n), n)'
                    /\ n \in stored' => NotOlder(Responder(n), Sender(n), n)'
  BY DEF NeverBehind
<1>1. CASE made' = made /\ session' = session /\ stored' = stored /\ overlapped \subseteq overlapped'
  BY <1>1 DEF SInv, NeverBehind, NotOlder, Pair, Sender, Responder
<1>2. ASSUME NEW d \in Devices, Reset(d)
      PROVE  /\ NotOlder(Sender(n), Responder(n), n)'
             /\ n \in stored' => NotOlder(Responder(n), Sender(n), n)'
  <2>1. /\ UNCHANGED <<made, stored, overlapped>>
        /\ session' = [session EXCEPT ![d] = [p \in Devices |-> 0]]
    BY <1>2 DEF Reset
  <2>2. \A e, p \in Devices : session'[e][p] = session[e][p] \/ session'[e][p] = 0
    BY <1>s, <2>1
  <2>3. made[n].from \in Devices /\ made[n].to \in Devices
    BY <2>1, PairDevices
  <2> QED BY <2>1, <2>2, <2>3 DEF SInv, NeverBehind, NotOlder, Pair, Sender, Responder
<1>3. ASSUME NEW t \in Texts, Build(t)
      PROVE  /\ NotOlder(Sender(n), Responder(n), n)'
             /\ n \in stored' => NotOlder(Responder(n), Sender(n), n)'
  <2>1. PICK k \in Nat :
           /\ k = Len(made) + 1 /\ k \notin DOMAIN made /\ k \notin stored
           /\ DOMAIN made' = DOMAIN made \cup {k}
           /\ \A m \in DOMAIN made : made'[m] = made[m] /\ m < k
           /\ made'[k].from = From[t] /\ made'[k].to = To[t]
           /\ From[t] \in Devices /\ To[t] \in Devices
           /\ session' = [session EXCEPT ![From[t]][To[t]] = k]
           /\ overlapped' = IF \E m \in DOMAIN made : Pair(m) = {From[t], To[t]} /\ UnderWay(m)
                            THEN overlapped \cup {{From[t], To[t]}} ELSE overlapped
           /\ stored' = stored
    BY <1>3, Built
  <2>2. \A d, p \in Devices : \/ session'[d][p] = session[d][p]
                              \/ session'[d][p] = k
    BY <1>s, <2>1
  <2>3. CASE n = k
    <3>1. session'[From[t]][To[t]] = k
      BY <1>s, <2>1
    <3> QED BY <2>1, <2>3, <3>1 DEF NotOlder, Sender, Responder
  <2>4. CASE n \in DOMAIN made
    <3>1. /\ made[n].from \in Devices /\ made[n].to \in Devices /\ made'[n] = made[n]
          /\ n <= k
      BY <2>1, <2>4, PairDevices
    <3>2. Pair(n) \notin overlapped
      BY <2>1, <3>1 DEF Pair, Sender, Responder
    <3>3. /\ NotOlder(made[n].from, made[n].to, n)
          /\ n \in stored => NotOlder(made[n].to, made[n].from, n)
      BY <2>4, <3>2 DEF SInv, NeverBehind, Sender, Responder
    <3>4. \A d, p \in Devices : NotOlder(d, p, n) => NotOlder(d, p, n)'
      BY <2>2, <3>1 DEF NotOlder
    <3>5. Sender(n)' = made[n].from /\ Responder(n)' = made[n].to
      BY <3>1 DEF Sender, Responder
    <3> QED BY <2>1, <3>1, <3>3, <3>4, <3>5 DEF NotOlder
  <2> QED BY <2>1, <2>3, <2>4
<1>4. ASSUME NEW d \in Devices, NEW j \in jobs[d], StoreSession(d, j)
      PROVE  /\ NotOlder(Sender(n), Responder(n), n)'
             /\ n \in stored' => NotOlder(Responder(n), Sender(n), n)'
  <2>1. PICK h \in Nat : h = j.hs
    BY <1>4, Stored, PairDevices
  <2>2. /\ h \in DOMAIN made /\ h \notin stored /\ UnderWay(h) /\ made[h].to = d
        /\ stored' = stored \cup {h} /\ made' = made /\ overlapped' = overlapped
    BY <1>4, <2>1, Stored DEF Responder
  <2>3. PICK f \in Devices : f = made[h].from
    BY <2>2, PairDevices
  <2>4. session' = [session EXCEPT ![d][f] = h]
    BY <1>4, <2>1, <2>3, Stored DEF Sender
  <2>5. /\ session'[d][f] = h
        /\ \A e, p \in Devices : ~(e = d /\ p = f) => session'[e][p] = session[e][p]
    BY <1>s, <2>4
  <2>6. /\ n \in DOMAIN made /\ n \in Nat /\ made[n].from \in Devices /\ made[n].to \in Devices
        /\ Pair(n) \notin overlapped
    BY <2>2, PairDevices DEF Pair, Sender, Responder
  <2>7. Pair(n) = {d, f} => n <= h
    <3>1. Pair(h) = {d, f}
      BY <2>2, <2>3 DEF Pair, Sender, Responder
    <3> QED BY <2>2, <2>6, <3>1 DEF SInv, Newest
  <2>8. PICK x \in Devices, y \in Devices : x = made[n].from /\ y = made[n].to
    BY <2>6
  <2>9. Pair(n) = {x, y} /\ Sender(n)' = x /\ Responder(n)' = y
    BY <2>2, <2>8 DEF Pair, Sender, Responder
  <2>10. ASSUME NEW e \in Devices, NEW p \in Devices, {e, p} = {x, y},
                session[e][p] = 0 \/ n <= session[e][p]
         PROVE  session'[e][p] = 0 \/ n <= session'[e][p]
    <3>1. CASE e = d /\ p = f
      BY <2>5, <2>7, <2>9, <2>10, <3>1
    <3>2. CASE ~(e = d /\ p = f)
      BY <2>5, <2>10, <3>2
    <3> QED BY <3>1, <3>2
  <2>11. /\ session[x][y] = 0 \/ n <= session[x][y]
         /\ n \in stored => (session[y][x] = 0 \/ n <= session[y][x])
    BY <2>6, <2>8 DEF SInv, NeverBehind, NotOlder, Sender, Responder
  <2>12. session'[x][y] = 0 \/ n <= session'[x][y]
    BY <2>10, <2>11
  <2>13. n \in stored' => (session'[y][x] = 0 \/ n <= session'[y][x])
    <3>1. CASE n \in stored
      <4>1. {y, x} = {x, y}
        OBVIOUS
      <4> QED BY <2>10, <2>11, <3>1, <4>1
    <3>2. CASE n = h
      BY <2>2, <2>3, <2>5, <2>8, <3>2
    <3> QED BY <2>2, <3>1, <3>2
  <2> QED BY <2>9, <2>12, <2>13 DEF NotOlder
<1> QED BY <1>1, <1>2, <1>3, <1>4, SessionEffects

\* The sessions of two devices are one key when both handshakes were stored,
\* unless two handshakes of the pair overlapped (the upsert of buildInitialMessage
\* on one side, that of the responder's coroutine on the other).
THEOREM SessionsAgreeAlways == Spec => []SessionsAgree
<1>1. Init => SInv
  BY DEF Init, SInv, MadeBy, OfPair, Newest, NeverBehind
<1>2. HInv /\ SInv /\ [Next]_vars => SInv'
  BY MadeByStep, OfPairStep, NewestStep, NeverBehindStep DEF SInv
<1>3. HInv /\ SInv => SessionsAgree
  <2> SUFFICES ASSUME HInv, SInv, NEW a \in Devices, NEW b \in Devices,
                      session[a][b] # 0, session[b][a] # 0,
                      session[a][b] \in stored, session[b][a] \in stored, {a, b} \notin overlapped
               PROVE  session[a][b] = session[b][a]
    BY DEF SessionsAgree
  <2>1. ASSUME NEW d \in Devices, NEW p \in Devices, {d, p} = {a, b}
        PROVE  session[d][p] <= session[p][d]
    <3>1. PICK n \in DOMAIN made : n = session[d][p] /\ n \in Nat /\ n \in stored
      BY <2>1, PairDevices
    <3>2. \/ made[n].from = d /\ made[n].to = p
          \/ made[n].from = p /\ made[n].to = d
      BY <2>1, <3>1, PairDevices DEF SInv, OfPair
    <3>3. Pair(n) = {a, b}
      BY <2>1, <3>2 DEF Pair, Sender, Responder
    <3>4. NotOlder(p, d, n)
      BY <3>1, <3>2, <3>3 DEF SInv, NeverBehind, Sender, Responder
    <3> QED BY <2>1, <3>1, <3>4 DEF NotOlder
  <2>2. session[a][b] <= session[b][a] /\ session[b][a] <= session[a][b]
    BY <2>1
  <2> QED BY <2>2, PairDevices
<1> QED BY <1>1, <1>2, <1>3, HInvAlways, PTL DEF Spec
-----------------------------------------------------------------------------
(* The two promises of X3DH, for any number of keys: why the number of a     *)
(* handshake and its one-time key may stand for the session key.            *)

CONSTANTS Identity, Signed, Ephemeral, OneTime
X3dh == INSTANCE KeyExchange

\* The two sides of a handshake derive the same keys: each secret is that of
\* the same two key pairs, in the same place.
THEOREM X3dhAgrees == X3dh!Disjoint => X3dh!Agreement
<1> SUFFICES ASSUME X3dh!Disjoint,
                    NEW ikA \in Identity, NEW ikB \in Identity, NEW spk \in Signed,
                    NEW ek \in Ephemeral, NEW opk \in OneTime \cup {None}
             PROVE  /\ X3dh!x3dh_initiator(ikA, ek, ikB, spk, opk) # {}
                    /\ X3dh!x3dh_initiator(ikA, ek, ikB, spk, opk) = X3dh!x3dh_responder(ikB, spk, ikA, ek, opk)
  BY DEF X3dh!Agreement
<1>1. X3dh!Parses(ikA) /\ X3dh!Parses(ikB) /\ X3dh!Parses(spk) /\ X3dh!Parses(ek) /\ (opk # None => X3dh!Parses(opk))
  BY DEF X3dh!Parses, X3dh!Pairs
<1>2. /\ X3dh!RawDh(ikA, spk) = X3dh!RawDh(spk, ikA)
      /\ X3dh!RawDh(ek, ikB) = X3dh!RawDh(ikB, ek)
      /\ X3dh!RawDh(ek, spk) = X3dh!RawDh(spk, ek)
      /\ X3dh!RawDh(ek, opk) = X3dh!RawDh(opk, ek)
  BY DEF X3dh!RawDh
<1> QED
  BY <1>1, <1>2 DEF X3dh!x3dh_initiator, X3dh!x3dh_responder

\* A secret tells which pairs agreed on it, if the two are of different use.
LEMMA SecretIdentifies ==
  ASSUME NEW S, NEW T, S \cap T = {},
         NEW a \in S, NEW b \in T, NEW c \in S, NEW d \in T,
         X3dh!RawDh(a, b) = X3dh!RawDh(d, c)
  PROVE  a = c /\ b = d
<1>1. a \in {d, c} /\ b \in {d, c}
  BY DEF X3dh!RawDh
<1> QED
  BY <1>1

\* Equal keys of an initiator and a responder were made from the same five keys:
\* by the length of the IKM both have a one-time key or neither.
LEMMA KeysIdentify ==
  ASSUME X3dh!Disjoint,
         NEW ikA \in Identity, NEW ikB \in Identity, NEW ikA2 \in Identity, NEW ikB2 \in Identity,
         NEW spk \in Signed, NEW spk2 \in Signed, NEW ek \in Ephemeral, NEW ek2 \in Ephemeral,
         NEW opk \in OneTime \cup {None}, NEW opk2 \in OneTime \cup {None},
         NEW k \in X3dh!x3dh_initiator(ikA, ek, ikB, spk, opk),
         NEW k2 \in X3dh!x3dh_responder(ikB2, spk2, ikA2, ek2, opk2),
         k.k_enc = k2.k_enc
  PROVE  ikA = ikA2 /\ ikB = ikB2 /\ spk = spk2 /\ ek = ek2 /\ opk = opk2
<1> DEFINE three  == <<X3dh!RawDh(ikA, spk), X3dh!RawDh(ek, ikB), X3dh!RawDh(ek, spk)>>
           four   == <<X3dh!RawDh(ikA, spk), X3dh!RawDh(ek, ikB), X3dh!RawDh(ek, spk), X3dh!RawDh(ek, opk)>>
           three2 == <<X3dh!RawDh(spk2, ikA2), X3dh!RawDh(ikB2, ek2), X3dh!RawDh(spk2, ek2)>>
           four2  == <<X3dh!RawDh(spk2, ikA2), X3dh!RawDh(ikB2, ek2), X3dh!RawDh(spk2, ek2), X3dh!RawDh(opk2, ek2)>>
<1>1. k = X3dh!DeriveSessionKeys(IF opk = None THEN three ELSE four)
  BY DEF X3dh!x3dh_initiator
<1>2. k2 = X3dh!DeriveSessionKeys(IF opk2 = None THEN three2 ELSE four2)
  BY DEF X3dh!x3dh_responder
<1>3. (IF opk = None THEN three ELSE four) = (IF opk2 = None THEN three2 ELSE four2)
  <2> HIDE DEF three, four, three2, four2
  <2> QED BY <1>1, <1>2 DEF X3dh!DeriveSessionKeys
<1>4. opk = None <=> opk2 = None
  <2> HIDE DEF X3dh!RawDh
  <2>1. Len(three) = 3 /\ Len(three2) = 3 /\ Len(four) = 4 /\ Len(four2) = 4
    OBVIOUS
  <2> QED BY <1>3, <2>1
<1>5. /\ X3dh!RawDh(ikA, spk) = X3dh!RawDh(spk2, ikA2)
      /\ X3dh!RawDh(ek, ikB) = X3dh!RawDh(ikB2, ek2)
      /\ X3dh!RawDh(ek, spk) = X3dh!RawDh(spk2, ek2)
      /\ opk # None => X3dh!RawDh(ek, opk) = X3dh!RawDh(opk2, ek2)
  BY <1>3, <1>4
<1>6. ikA = ikA2 /\ spk = spk2
  BY <1>5, SecretIdentifies DEF X3dh!Disjoint
<1>7. ek = ek2 /\ ikB = ikB2
  BY <1>5, SecretIdentifies DEF X3dh!Disjoint
<1>8. opk = opk2
  BY <1>4, <1>5, SecretIdentifies DEF X3dh!Disjoint
<1> QED
  BY <1>6, <1>7, <1>8

\* The first message opens for the keys of its own handshake and for no others.
THEOREM X3dhOpensForItsOwn == X3dh!Disjoint => X3dh!OpensForItsOwn
<1> SUFFICES ASSUME X3dh!Disjoint,
                    NEW ikA \in Identity, NEW ikB \in Identity,
                    NEW ikA2 \in Identity, NEW ikB2 \in Identity,
                    NEW spk \in Signed, NEW spk2 \in Signed,
                    NEW ek \in Ephemeral, NEW ek2 \in Ephemeral,
                    NEW opk \in OneTime \cup {None}, NEW opk2 \in OneTime \cup {None},
                    NEW text \in Texts,
                    NEW k \in X3dh!x3dh_initiator(ikA, ek, ikB, spk, opk),
                    NEW k2 \in X3dh!x3dh_responder(ikB2, spk2, ikA2, ek2, opk2)
             PROVE  X3dh!Decrypt(k2.k_enc, X3dh!Encrypt(k.k_enc, text)) =
                      IF <<ikA, ikB, spk, ek, opk>> = <<ikA2, ikB2, spk2, ek2, opk2>>
                      THEN {text} ELSE {}
  BY DEF X3dh!OpensForItsOwn
<1>1. CASE k.k_enc = k2.k_enc
  <2>1. ikA = ikA2 /\ ikB = ikB2 /\ spk = spk2 /\ ek = ek2 /\ opk = opk2
    BY <1>1, KeysIdentify, SMTT(60)
  <2> QED
    BY <1>1, <2>1 DEF X3dh!Decrypt, X3dh!Encrypt
<1>2. CASE k.k_enc # k2.k_enc
  <2>1. ASSUME <<ikA, ikB, spk, ek, opk>> = <<ikA2, ikB2, spk2, ek2, opk2>>
        PROVE  FALSE
    <3>1. X3dh!x3dh_initiator(ikA, ek, ikB, spk, opk) = X3dh!x3dh_responder(ikB2, spk2, ikA2, ek2, opk2)
      BY <2>1, X3dhAgrees DEF X3dh!Agreement
    <3>2. k = k2
      BY <3>1 DEF X3dh!x3dh_initiator
    <3> QED
      BY <1>2, <3>2
  <2> QED
    BY <1>2, <2>1 DEF X3dh!Decrypt, X3dh!Encrypt
<1> QED
  BY <1>1, <1>2
=============================================================================
