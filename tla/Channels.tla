------------------------------ MODULE Channels ------------------------------
(***************************************************************************)
(* News channels: ChannelRepository and PostDao of the owner of a channel   *)
(* and of its readers, and the shelf of signed posts the relay keeps.  One  *)
(* channel.  The relay does not know readers from owners, so a reader's     *)
(* copy depends only on what it asks for, when, and what becomes of the     *)
(* answers.                                                                 *)
(*                                                                         *)
(* A post is its draft: the button starts a coroutine for each, and a       *)
(* second tap before the first ends starts another (MainActivity).  The     *)
(* signature covers the draft and its number, and only the owner has the    *)
(* key: every post here carries a good one.                                 *)
(***************************************************************************)
EXTENDS Integers, Sequences, FiniteSets

CONSTANTS
  Drafts,     \* posts the owner writes
  Readers,
  None,       \* no post under a number
  LIMIT,      \* posts in one answer of the relay
  MaxFaults   \* bound: broken sockets, lost requests, kills, failed inserts, deletions

ASSUME ChannelsAssumption ==
  /\ IsFiniteSet(Drafts) /\ None \notin Drafts
  /\ LIMIT \in Nat \ {0} /\ MaxFaults \in Nat

VARIABLES
  \* ---- the owner ----
  draft,       \* where the coroutine of each draft is
  seq,         \* the number it took, 0 before
  own,         \* the owner's table of posts
  online,      \* isConnected
  outbox,      \* posts written offline
  uplink,      \* posts given to the socket
  \* ---- the relay ----
  shelf,       \* channel_posts
  \* ---- each reader ----
  subscribed,  \* the channel has a row
  store,       \* its table of posts
  asked,       \* sinceSeq of the channel_fetch frames under way
  saving,      \* answers under way or being saved, by a coroutine each
  \* ---- history ----
  overlapped,  \* drafts numbered while another was numbered and not yet kept
  late,        \* numbers that reached the relay after a higher one
  excused,     \* numbers a reader may miss: a failed insert, a deletion with answers to come
  faults

ownerVars == <<draft, seq, own, online, outbox, uplink>>
readerVars == <<subscribed, store, asked, saving>>
vars == <<ownerVars, shelf, readerVars, overlapped, late, excused, faults>>

Numbers == 1..Cardinality(Drafts)
Posts == Drafts \cup {None}
Table == [Numbers -> Posts]
Empty == [k \in Numbers |-> None]

Held(table) == {k \in Numbers : table[k] # None}

\* Mutant: the last post stays.
InsertReplacing(table, k, d) == [table EXCEPT ![k] = d]

\* INSERT OR IGNORE under the key (channel, seq), on the devices and on the relay.
Insert(table, k, d) == IF table[k] = None THEN [table EXCEPT ![k] = d] ELSE table

\* SELECT MAX(seq), 0 for an empty table.
LastSeq(table) ==
  IF Held(table) = {} THEN 0 ELSE CHOOSE k \in Held(table) : \A j \in Held(table) : j <= k

\* Mutant: one too many.
NextSeqSkipping == LastSeq(own) + 2

NextSeq == LastSeq(own) + 1

Init ==
  /\ draft = [d \in Drafts |-> "new"] /\ seq = [d \in Drafts |-> 0] /\ own = Empty
  /\ online = FALSE /\ outbox = <<>> /\ uplink = <<>>
  /\ shelf = Empty
  /\ subscribed = [r \in Readers |-> FALSE] /\ store = [r \in Readers |-> Empty]
  /\ asked = [r \in Readers |-> {}] /\ saving = [r \in Readers |-> {}]
  /\ overlapped = {} /\ late = {} /\ excused = [r \in Readers |-> {}] /\ faults = 0

Fault == faults < MaxFaults /\ faults' = faults + 1

-----------------------------------------------------------------------------
(* The owner. *)

\* publishPost: the highest number of the table and one more.
Number(d) ==
  /\ draft[d] = "new"
  /\ draft' = [draft EXCEPT ![d] = "numbered"]
  /\ seq' = [seq EXCEPT ![d] = NextSeq]
  /\ LET others == {e \in Drafts : draft[e] = "numbered"} IN
       overlapped' = IF others = {} THEN overlapped ELSE overlapped \cup others \cup {d}
  /\ UNCHANGED <<own, online, outbox, uplink, shelf, readerVars, late, excused, faults>>

\* publishPost inserts the signed post and returns it, ignored or not.
Keep(d) ==
  /\ draft[d] = "numbered"
  /\ draft' = [draft EXCEPT ![d] = "kept"]
  /\ own' = Insert(own, seq[d], d)
  /\ UNCHANGED <<seq, online, outbox, uplink, shelf, readerVars, overlapped, late, excused, faults>>

\* sendPostToRelay: sendJson gives it to the socket, or to the outbox.
Post(d) ==
  /\ draft[d] = "kept"
  /\ draft' = [draft EXCEPT ![d] = "posted"]
  /\ IF online
     THEN uplink' = Append(uplink, d) /\ UNCHANGED outbox
     ELSE outbox' = Append(outbox, d) /\ UNCHANGED uplink
  /\ UNCHANGED <<seq, own, online, shelf, readerVars, overlapped, late, excused, faults>>

\* onOpen sets isConnected first ...
Open ==
  /\ ~online /\ online' = TRUE
  /\ UNCHANGED <<draft, seq, own, outbox, uplink, shelf, readerVars, overlapped, late, excused, faults>>

\* ... and flushOutbox then sends what was written offline.
Flush ==
  /\ online /\ outbox # <<>>
  /\ uplink' = Append(uplink, Head(outbox)) /\ outbox' = Tail(outbox)
  /\ UNCHANGED <<draft, seq, own, online, shelf, readerVars, overlapped, late, excused, faults>>

\* The socket dies with what it had taken; a post is not sent again.
Break ==
  /\ Fault /\ online
  /\ online' = FALSE /\ uplink' = <<>>
  /\ UNCHANGED <<draft, seq, own, outbox, shelf, readerVars, overlapped, late, excused>>

\* The owner's process dies: its coroutines, the outbox and the socket with it.
OwnerKilled ==
  /\ Fault
  /\ draft' = [d \in Drafts |-> IF draft[d] \in {"numbered", "kept"} THEN "gone" ELSE draft[d]]
  /\ online' = FALSE /\ outbox' = <<>> /\ uplink' = <<>>
  /\ UNCHANGED <<seq, own, shelf, readerVars, overlapped, late, excused>>

-----------------------------------------------------------------------------
(* The relay. *)

\* channel_post: the first post under a number stays.
Shelve ==
  /\ uplink # <<>>
  /\ LET d == Head(uplink) IN
       /\ shelf' = Insert(shelf, seq[d], d)
       /\ late' = IF shelf[seq[d]] = None /\ LastSeq(shelf) > seq[d]
                  THEN late \cup {seq[d]} ELSE late
  /\ uplink' = Tail(uplink)
  /\ UNCHANGED <<draft, seq, own, online, outbox, readerVars, overlapped, excused, faults>>

\* SELECT ... WHERE seq > n
Above(n) == {k \in Held(shelf) : k > n}
\* Mutant: the newest first.
Descending(S) == CHOOSE s \in [1..Cardinality(S) -> S] : \A i, j \in DOMAIN s : i < j => s[i] > s[j]

\* ... ORDER BY seq ASC
Ascending(S) == CHOOSE s \in [1..Cardinality(S) -> S] : \A i, j \in DOMAIN s : i < j => s[i] < s[j]
\* ... LIMIT
Answer(n) ==
  LET all == Ascending(Above(n)) IN
    [i \in 1..(IF Len(all) < LIMIT THEN Len(all) ELSE LIMIT) |-> [seq |-> all[i], post |-> shelf[all[i]]]]

\* channel_fetch.  An empty answer changes nothing at the reader.
Serve(r, n) ==
  /\ n \in asked[r]
  /\ asked' = [asked EXCEPT ![r] = @ \ {n}]
  /\ saving' = IF Above(n) = {} THEN saving ELSE [saving EXCEPT ![r] = @ \cup {Answer(n)}]
  /\ UNCHANGED <<ownerVars, shelf, subscribed, store, overlapped, late, excused, faults>>

-----------------------------------------------------------------------------
(* A reader. *)

Fetching(r) == [asked EXCEPT ![r] = @ \cup {LastSeq(store[r])}]

\* doSubscribe: the row, and a first fetch.
Subscribe(r) ==
  /\ ~subscribed[r]
  /\ subscribed' = [subscribed EXCEPT ![r] = TRUE]
  /\ asked' = Fetching(r)
  /\ UNCHANGED <<ownerVars, shelf, store, saving, overlapped, late, excused, faults>>

\* Mutant: only an empty table is filled.
FetchFirst(r) ==
  /\ subscribed[r] /\ LastSeq(store[r]) = 0
  /\ asked' = Fetching(r)
  /\ UNCHANGED <<ownerVars, shelf, subscribed, store, saving, overlapped, late, excused, faults>>

\* fetchChannelFromRelay, of the poll or of the channel opened.
Fetch(r) ==
  /\ subscribed[r]
  /\ asked' = Fetching(r)
  /\ UNCHANGED <<ownerVars, shelf, subscribed, store, saving, overlapped, late, excused, faults>>

\* onChannelPosts: the answer without the post just handled.
Handled(r, list) ==
  saving' = [saving EXCEPT ![r] = (@ \ {list}) \cup (IF Len(list) = 1 THEN {} ELSE {Tail(list)})]

\* saveIncomingPost: one post after the other, whether or not the channel still has a row.
Save(r, list) ==
  /\ list \in saving[r]
  /\ store' = [store EXCEPT ![r] = Insert(@, Head(list).seq, Head(list).post)]
  /\ Handled(r, list)
  /\ UNCHANGED <<ownerVars, shelf, subscribed, asked, overlapped, late, excused, faults>>

\* An insert that fails is caught, and the posts after it are saved.
SaveFails(r, list) ==
  /\ Fault /\ list \in saving[r]
  /\ Handled(r, list)
  /\ excused' = [excused EXCEPT ![r] = @ \cup {Head(list).seq}]
  /\ UNCHANGED <<ownerVars, shelf, subscribed, store, asked, overlapped, late>>

\* deleteChannel: the row and the posts.  Answers still to come are saved nevertheless.
Delete(r) ==
  /\ Fault /\ subscribed[r]
  /\ subscribed' = [subscribed EXCEPT ![r] = FALSE]
  /\ store' = [store EXCEPT ![r] = Empty]
  /\ excused' = [excused EXCEPT ![r] = IF asked[r] = {} /\ saving[r] = {} THEN @ ELSE Numbers]
  /\ UNCHANGED <<ownerVars, shelf, asked, saving, overlapped, late>>

\* A request is lost with the reader's socket; so would its answer be.
RequestLost(r, n) ==
  /\ Fault /\ n \in asked[r]
  /\ asked' = [asked EXCEPT ![r] = @ \ {n}]
  /\ UNCHANGED <<ownerVars, shelf, subscribed, store, saving, overlapped, late, excused>>

\* The reader's process dies: the answers are half saved.
ReaderKilled(r) ==
  /\ Fault
  /\ asked' = [asked EXCEPT ![r] = {}] /\ saving' = [saving EXCEPT ![r] = {}]
  /\ UNCHANGED <<ownerVars, shelf, subscribed, store, overlapped, late, excused>>

-----------------------------------------------------------------------------
Next ==
  \/ \E d \in Drafts : Number(d) \/ Keep(d) \/ Post(d)
  \/ Open \/ Flush \/ Break \/ OwnerKilled \/ Shelve
  \/ \E r \in Readers :
       \/ Subscribe(r) \/ Fetch(r) \/ Delete(r) \/ ReaderKilled(r)
       \/ \E n \in asked[r] : Serve(r, n) \/ RequestLost(r, n)
       \/ \E list \in saving[r] : Save(r, list) \/ SaveFails(r, list)

\* The poll of an open screen comes round, the relay answers what it is asked
\* (any of it), an answer is saved.
Fairness ==
  \A r \in Readers :
    /\ WF_vars(Fetch(r))
    /\ WF_vars(\E n \in asked[r] : Serve(r, n))
    /\ WF_vars(\E list \in saving[r] : Save(r, list))

Spec == Init /\ [][Next]_vars /\ Fairness

-----------------------------------------------------------------------------
(* Properties. *)

\* The values of the variables.
TypeOK ==
  /\ draft \in [Drafts -> {"new", "numbered", "kept", "posted", "gone"}]
  /\ seq \in [Drafts -> 0..Cardinality(Drafts)]
  /\ \A d \in Drafts : draft[d] \in {"numbered", "kept", "posted"} => seq[d] \in Numbers
  /\ own \in Table /\ shelf \in Table /\ online \in BOOLEAN
  /\ outbox \in Seq(Drafts) /\ uplink \in Seq(Drafts)
  /\ \A d \in Drafts, q \in {outbox, uplink} : (\E i \in DOMAIN q : q[i] = d) => draft[d] = "posted"
  /\ subscribed \in [Readers -> BOOLEAN] /\ store \in [Readers -> Table]
  /\ asked \in [Readers -> SUBSET (0..Cardinality(Drafts))]
  /\ DOMAIN saving = Readers
  /\ \A r \in Readers : \A list \in saving[r] :
       list # <<>> /\ list \in Seq([seq : Numbers, post : Drafts])
  /\ overlapped \subseteq Drafts /\ late \subseteq Numbers
  /\ excused \in [Readers -> SUBSET Numbers] /\ faults \in 0..MaxFaults

\* Whatever was lost, repeated, deleted or half saved, a reader has under a
\* number what the relay has there, and so has the owner unless two of its
\* publications overlapped: then both got the same number, each table kept the
\* one that came to it first, and the owner may read another post than its
\* readers (publishPost, the double tap).
OnePostPerNumber ==
  \A k \in Held(shelf) :
    /\ \A r \in Readers : store[r][k] \in {None, shelf[k]}
    /\ own[k] # shelf[k] => shelf[k] \in overlapped

\* The cursor of a reader never passes a post: what the relay has and the reader
\* has not lies above the highest number it has, so the next fetch brings it.
\* Except posts that reached the relay after a higher one (written offline,
\* overtaken by one written while the outbox was being flushed), a failed insert,
\* and a channel deleted while answers were coming: those are never fetched.
NothingSkipped ==
  \A r \in Readers : \A k \in Held(shelf) \ (Held(store[r]) \cup late \cup excused[r]) :
    LastSeq(store[r]) < k

\* A post on the relay comes to every subscribed reader, by as many fetches as
\* it takes, unless the reader leaves the channel or the post is one of the exceptions.
EverythingArrives ==
  \A r \in Readers, k \in Numbers :
    (shelf[k] # None /\ k \notin late /\ subscribed[r])
      ~> (store[r][k] # None \/ ~subscribed[r] \/ k \in excused[r])
=============================================================================
