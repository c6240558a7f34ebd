--------------------------- MODULE ChannelsProofs ----------------------------
(***************************************************************************)
(* Proofs about Channels for any drafts, readers, faults and any LIMIT.     *)
(***************************************************************************)
EXTENDS Channels, FiniteSetTheorems, TLAPS

\* The table of the owner has no gaps, and no publication is ahead of it.
OwnTable ==
  /\ Held(own) = 1..LastSeq(own)
  /\ \A k \in Held(own) : draft[own[k]] \notin {"new", "numbered"} /\ seq[own[k]] = k
  /\ \A d \in Drafts : draft[d] = "numbered" => seq[d] <= LastSeq(own) + 1

\* A publication that overlaps no other has its number to itself.
Alone ==
  \A d \in Drafts \ overlapped :
    /\ draft[d] = "numbered" => /\ seq[d] = LastSeq(own) + 1
                                /\ \A e \in Drafts : draft[e] = "numbered" => e = d
    /\ draft[d] \in {"kept", "posted"} => own[seq[d]] = d

\* What the relay has under a number was posted under it.
Shelved == \A k \in Held(shelf) : draft[shelf[k]] = "posted" /\ seq[shelf[k]] = k

\* What a reader has or is about to save is the relay's.
FromShelf ==
  \A r \in Readers :
    /\ \A k \in Held(store[r]) : shelf[k] # None /\ store[r][k] = shelf[k]
    /\ \A n \in asked[r] : n = 0 \/ n \in Held(shelf)
    /\ \A list \in saving[r] : \A i \in DOMAIN list :
         shelf[list[i].seq] # None /\ list[i].post = shelf[list[i].seq]

\* A post that a reader lacks, and should not, lies above its cursor and above
\* what it asked, and in an answer above it there is no gap.
Missing(r) == Held(shelf) \ (Held(store[r]) \cup late \cup excused[r])
InReach(r, k) ==
  /\ LastSeq(store[r]) < k
  /\ \A n \in asked[r] : n < k
  /\ \A list \in saving[r] : \A i \in DOMAIN list :
       k < list[i].seq => \E j \in 1..i-1 : list[j].seq = k
Reachable == \A r \in Readers : \A k \in Missing(r) : InReach(r, k)

ChannelsInv == TypeOK /\ OwnTable /\ Alone /\ Shelved /\ FromShelf /\ Reachable

Size == Cardinality(Drafts)

LEMMA SizeType == Size \in Nat /\ Numbers = 1..Size /\ IsFiniteSet(Numbers)
<1>1. Size \in Nat
  BY ChannelsAssumption, FS_CardinalityType DEF ChannelsAssumption, Size
<1> QED
  BY <1>1, FS_Interval DEF Numbers, Size

-----------------------------------------------------------------------------
(* Sets of numbers in their order.                                          *)

Increasing(s) == \A i, j \in DOMAIN s : i < j => s[i] < s[j]

\* The elements of a set, smallest first: the i-th is the one of rank i.
LEMMA Ranking ==
  ASSUME NEW S \in SUBSET Numbers
  PROVE  /\ IsFiniteSet(S) /\ Cardinality(S) \in Nat
         /\ \E s \in [1..Cardinality(S) -> S] : Increasing(s)
<1> DEFINE Upto(k) == {j \in S : j <= k}
           rank == [k \in S |-> Cardinality(Upto(k))]
           n == Cardinality(S)
<1>1. IsFiniteSet(S) /\ n \in Nat
  BY SizeType, FS_Subset, FS_CardinalityType
<1>2. \A k \in S : k \in Nat
  BY SizeType
<1>3. ASSUME NEW k \in S PROVE IsFiniteSet(Upto(k)) /\ Cardinality(Upto(k)) \in 1..n
  <2>1. Upto(k) \in SUBSET S /\ k \in Upto(k)
    BY <1>2
  <2>2. IsFiniteSet(Upto(k)) /\ Cardinality(Upto(k)) <= n
    BY <1>1, <2>1, FS_Subset
  <2>3. Cardinality(Upto(k)) \in Nat /\ Cardinality(Upto(k)) # 0
    BY <2>1, <2>2, FS_CardinalityType, FS_EmptySet
  <2> QED
    BY <1>1, <2>2, <2>3
<1>4. ASSUME NEW j \in S, NEW k \in S, j < k PROVE Cardinality(Upto(j)) < Cardinality(Upto(k))
  <2>1. Upto(j) \in SUBSET Upto(k) /\ k \in Upto(k) /\ k \notin Upto(j)
    BY <1>2, <1>4
  <2>2. /\ Cardinality(Upto(j)) <= Cardinality(Upto(k))
        /\ Cardinality(Upto(k)) = Cardinality(Upto(j)) => Upto(k) = Upto(j)
    BY <1>3, <2>1, FS_Subset
  <2>3. Cardinality(Upto(j)) \in Nat /\ Cardinality(Upto(k)) \in Nat
    BY <1>3
  <2> HIDE DEF Upto
  <2> QED
    BY <2>1, <2>2, <2>3
<1> HIDE DEF Upto
<1>5. rank \in [S -> 1..n] /\ \A j, k \in S : j < k => rank[j] < rank[k]
  BY <1>3, <1>4
<1> HIDE DEF rank
<1>6. rank \in Injection(S, 1..n)
  <2>1. \A j, k \in S : rank[j] = rank[k] => j = k
    BY <1>1, <1>2, <1>5
  <2> QED
    BY <1>5, <2>1 DEF Injection, IsInjective
<1>7. \A i \in 1..n : \E k \in S : rank[k] = i
  <2>1. IsFiniteSet(1..n) /\ Cardinality(1..n) = n
    BY <1>1, FS_Interval
  <2>2. rank \in Surjection(S, 1..n)
    BY <1>6, <2>1, FS_Injection
  <2> QED
    BY <2>2 DEF Surjection
<1> DEFINE s == [i \in 1..n |-> CHOOSE k \in S : rank[k] = i]
<1>8. \A i \in 1..n : s[i] \in S /\ rank[s[i]] = i
  BY <1>7
<1>9. s \in [1..n -> S] /\ DOMAIN s = 1..n
  BY <1>8
<1> HIDE DEF s
<1>10. Increasing(s)
  <2> SUFFICES ASSUME NEW i \in 1..n, NEW j \in 1..n, i < j PROVE s[i] < s[j]
    BY <1>9 DEF Increasing
  <2>1. s[i] \in Nat /\ s[j] \in Nat
    BY <1>2, <1>8
  <2>2. s[i] # s[j]
    BY <1>1, <1>8
  <2>3. ~(s[j] < s[i])
    BY <1>1, <1>5, <1>8
  <2> QED
    BY <2>1, <2>2, <2>3
<1> QED
  BY <1>1, <1>9, <1>10

LEMMA IncreasingOnto ==
  ASSUME NEW S \in SUBSET Numbers, NEW s \in [1..Cardinality(S) -> S], Increasing(s)
  PROVE  \A k \in S : \E i \in 1..Cardinality(S) : s[i] = k
<1>1. IsFiniteSet(S) /\ Cardinality(S) \in Nat
  BY Ranking
<1>2. \A i \in 1..Cardinality(S) : s[i] \in S /\ s[i] \in Nat
  <2>1. \A k \in S : k \in Nat
    BY SizeType
  <2> QED
    BY <2>1
<1>3. \A i, j \in 1..Cardinality(S) : s[i] = s[j] => i = j
  BY <1>1, <1>2 DEF Increasing
<1>4. s \in Injection(1..Cardinality(S), S)
  BY <1>3 DEF Injection, IsInjective
<1>5. Cardinality(1..Cardinality(S)) = Cardinality(S)
  BY <1>1, FS_Interval
<1> QED
  BY <1>1, <1>4, <1>5, FS_Injection DEF Surjection

\* Ascending lists a set completely and in order.
LEMMA AscendingFacts ==
  ASSUME NEW S \in SUBSET Numbers
  PROVE  /\ Cardinality(S) \in Nat
         /\ Ascending(S) \in [1..Cardinality(S) -> S] /\ Increasing(Ascending(S))
         /\ \A k \in S : \E i \in 1..Cardinality(S) : Ascending(S)[i] = k
<1>1. \E s \in [1..Cardinality(S) -> S] : \A i, j \in DOMAIN s : i < j => s[i] < s[j]
  BY Ranking DEF Increasing
<1>2. Ascending(S) \in [1..Cardinality(S) -> S] /\ Increasing(Ascending(S))
  BY <1>1 DEF Ascending, Increasing
<1> QED
  BY <1>2, Ranking, IncreasingOnto

\* LastSeq is the greatest number of a table, 0 if it has none.
LEMMA LastSeqFacts ==
  ASSUME NEW table
  PROVE  /\ LastSeq(table) \in 0..Size
         /\ Held(table) = {} => LastSeq(table) = 0
         /\ Held(table) # {} => LastSeq(table) \in Held(table)
         /\ \A k \in Held(table) : k <= LastSeq(table)
<1>1. Held(table) \in SUBSET Numbers /\ Size \in Nat
  BY SizeType DEF Held
<1>2. CASE Held(table) = {}
  BY <1>1, <1>2 DEF LastSeq
<1>3. CASE Held(table) # {}
  <2> DEFINE H == Held(table)
             n == Cardinality(H)
             s == Ascending(H)
  <2>1. n \in Nat /\ s \in [1..n -> H] /\ Increasing(s) /\ \A k \in H : \E i \in 1..n : s[i] = k
    BY <1>1, AscendingFacts
  <2>2. n # 0
    BY <1>3, <2>1
  <2>3. n \in 1..n /\ s[n] \in H
    BY <2>1, <2>2
  <2>4. ASSUME NEW k \in H PROVE k <= s[n]
    <3>1. PICK i \in 1..n : s[i] = k
      BY <2>1
    <3>2. i < n => s[i] < s[n]
      BY <2>1, <2>3, <3>1 DEF Increasing
    <3>3. k \in Nat /\ s[n] \in Nat
      BY <1>1, <2>3, SizeType
    <3>4. i < n \/ i = n
      BY <2>1, <3>1
    <3> HIDE DEF n, s
    <3> QED
      BY <3>1, <3>2, <3>3, <3>4
  <2>5. LastSeq(table) \in H /\ \A k \in H : k <= LastSeq(table)
    BY <1>3, <2>3, <2>4 DEF LastSeq
  <2> QED
    BY <1>1, <1>3, <2>5, SizeType
<1> QED
  BY <1>2, <1>3

LEMMA InsertFacts ==
  ASSUME NEW table \in Table, NEW k \in Numbers, NEW d \in Drafts
  PROVE  /\ Insert(table, k, d) \in Table
         /\ Held(Insert(table, k, d)) = Held(table) \cup {k}
         /\ \A j \in Held(table) : Insert(table, k, d)[j] = table[j]
         /\ \A j \in Numbers \ {k} : Insert(table, k, d)[j] = table[j]
         /\ table[k] = None => Insert(table, k, d)[k] = d
         /\ Insert(table, k, d)[k] # None
<1>1. d # None /\ d \in Posts
  BY ChannelsAssumption DEF ChannelsAssumption, Posts
<1>2. CASE table[k] = None
  BY <1>1, <1>2 DEF Insert, Table, Held
<1>3. CASE table[k] # None
  BY <1>3 DEF Insert, Table, Held
<1> QED
  BY <1>2, <1>3

LEMMA InsertLast ==
  ASSUME NEW table \in Table, NEW k \in Numbers, NEW d \in Drafts
  PROVE  LastSeq(Insert(table, k, d)) = IF k > LastSeq(table) THEN k ELSE LastSeq(table)
<1> DEFINE t == Insert(table, k, d)
<1>1. Held(t) = Held(table) \cup {k}
  BY InsertFacts
<1>2. /\ LastSeq(t) \in Held(t) /\ LastSeq(t) \in 0..Size
      /\ \A j \in Held(t) : j <= LastSeq(t)
  BY <1>1, LastSeqFacts
<1>3. /\ LastSeq(table) \in 0..Size /\ \A j \in Held(table) : j <= LastSeq(table)
      /\ Held(table) = {} => LastSeq(table) = 0
      /\ Held(table) # {} => LastSeq(table) \in Held(table)
  BY LastSeqFacts
<1>4. k \in 1..Size /\ Size \in Nat
  BY SizeType
<1> HIDE DEF t
<1>5. LastSeq(t) = IF k > LastSeq(table) THEN k ELSE LastSeq(table)
  <2>1. k <= LastSeq(t) /\ (LastSeq(t) = k \/ LastSeq(t) \in Held(table))
    BY <1>1, <1>2
  <2>2. LastSeq(t) = k \/ LastSeq(t) <= LastSeq(table)
    BY <1>3, <2>1
  <2>3. LastSeq(table) = 0 \/ LastSeq(table) <= LastSeq(t)
    BY <1>1, <1>2, <1>3
  <2> QED
    BY <1>2, <1>3, <1>4, <2>1, <2>2, <2>3
<1> QED
  BY <1>5 DEF t

\* An answer: the posts above a number in their order, without a gap.
LEMMA AnswerFacts ==
  ASSUME shelf \in Table, NEW n, Above(n) # {}
  PROVE  /\ Answer(n) # <<>> /\ Answer(n) \in Seq([seq : Numbers, post : Drafts])
         /\ \A i \in DOMAIN Answer(n) : /\ Answer(n)[i].seq \in Above(n)
                                        /\ Answer(n)[i].post = shelf[Answer(n)[i].seq]
         /\ \A i \in DOMAIN Answer(n), k \in Above(n) :
              k < Answer(n)[i].seq => \E j \in 1..i-1 : Answer(n)[j].seq = k
<1> DEFINE S == Above(n)
           c == Cardinality(S)
           all == Ascending(S)
           many == IF c < LIMIT THEN c ELSE LIMIT
<1>1. S \in SUBSET Numbers /\ \A k \in S : k \in Nat /\ shelf[k] \in Drafts
  BY SizeType DEF Above, Held, Table, Posts
<1>2. /\ c \in Nat /\ all \in [1..c -> S] /\ Increasing(all)
      /\ \A k \in S : \E i \in 1..c : all[i] = k
  BY <1>1, AscendingFacts
<1>3. c # 0
  BY <1>2
<1>4. Len(all) = c
  BY <1>2
<1>5. Answer(n) = [i \in 1..many |-> [seq |-> all[i], post |-> shelf[all[i]]]]
  BY <1>4 DEF Answer
<1>6. many \in Nat /\ many # 0 /\ many <= c
  BY <1>2, <1>3, ChannelsAssumption DEF ChannelsAssumption
<1> HIDE DEF S, c, all, many
<1>7. \A i \in 1..many : /\ all[i] \in S
                         /\ Answer(n)[i] = [seq |-> all[i], post |-> shelf[all[i]]]
                         /\ Answer(n)[i].seq = all[i]
                         /\ Answer(n)[i] \in [seq : Numbers, post : Drafts]
  <2> TAKE i \in 1..many
  <2>1. i \in 1..c
    BY <1>2, <1>6
  <2>2. all[i] \in S
    BY <1>2, <2>1
  <2> QED
    BY <1>1, <1>5, <2>2
<1>8. Answer(n) \in Seq([seq : Numbers, post : Drafts]) /\ DOMAIN Answer(n) = 1..many
  BY <1>5, <1>6, <1>7
<1>9. ASSUME NEW i \in 1..many, NEW k \in S, k < all[i]
      PROVE  \E j \in 1..i-1 : Answer(n)[j].seq = k
  <2>1. PICK j \in 1..c : all[j] = k
    BY <1>2
  <2>2. i \in 1..c
    BY <1>2, <1>6
  <2>3. i < j => all[i] < k
    BY <1>2, <2>1, <2>2 DEF Increasing
  <2>4. all[i] \in Nat /\ k \in Nat
    BY <1>1, <1>7
  <2>5. ~(i < j) /\ i # j
    BY <1>9, <2>1, <2>3, <2>4
  <2>6. j \in 1..i-1 /\ j \in 1..many
    BY <1>2, <1>6, <2>1, <2>2, <2>5
  <2>7. Answer(n)[j].seq = all[j]
    BY <1>7, <2>6
  <2> QED
    BY <2>1, <2>6, <2>7
<1>10. Answer(n) # <<>>
  BY <1>6, <1>8
<1> QED
  BY <1>7, <1>8, <1>9, <1>10 DEF S

-----------------------------------------------------------------------------
(* The owner.                                                               *)

\* The numbers taken are fewer than the drafts while one is new.
LEMMA NumbersSuffice ==
  ASSUME TypeOK, OwnTable, NEW d \in Drafts, draft[d] = "new"
  PROVE  NextSeq \in Numbers
<1> DEFINE H == Held(own)
           L == LastSeq(own)
           f == [k \in H |-> own[k]]
<1>1. L \in 0..Size /\ Size \in Nat /\ Numbers = 1..Size
  BY LastSeqFacts, SizeType
<1>2. H = 1..L
  BY DEF OwnTable
<1>3. \A k \in H : own[k] \in Drafts \ {d} /\ seq[own[k]] = k
  BY DEF OwnTable, TypeOK, Table, Posts, Held
<1>4. f \in Injection(H, Drafts \ {d})
  BY <1>3 DEF Injection, IsInjective
<1>5. IsFiniteSet(Drafts \ {d}) /\ Cardinality(Drafts \ {d}) = Size - 1
  BY ChannelsAssumption, FS_RemoveElement DEF ChannelsAssumption, Size
<1>6. Cardinality(H) <= Size - 1
  BY <1>4, <1>5, FS_Injection
<1>7. Cardinality(H) = L
  BY <1>1, <1>2, FS_Interval
<1> HIDE DEF L, H
<1>8. L + 1 \in 1..Size
  BY <1>1, <1>6, <1>7
<1> QED
  BY <1>1, <1>8 DEF NextSeq, L

-----------------------------------------------------------------------------
(* Types, in parts that change together.                                    *)

OwnerTypes ==
  /\ draft \in [Drafts -> {"new", "numbered", "kept", "posted", "gone"}]
  /\ seq \in [Drafts -> 0..Size]
  /\ \A d \in Drafts : draft[d] \in {"numbered", "kept", "posted"} => seq[d] \in Numbers
  /\ own \in Table /\ online \in BOOLEAN /\ overlapped \subseteq Drafts
QueueTypes ==
  /\ outbox \in Seq(Drafts) /\ uplink \in Seq(Drafts)
  /\ \A i \in DOMAIN outbox : draft[outbox[i]] = "posted"
  /\ \A i \in DOMAIN uplink : draft[uplink[i]] = "posted"
RelayTypes == shelf \in Table /\ late \subseteq Numbers /\ faults \in 0..MaxFaults
ReaderTypes ==
  /\ subscribed \in [Readers -> BOOLEAN] /\ store \in [Readers -> Table]
  /\ asked \in [Readers -> SUBSET (0..Size)] /\ excused \in [Readers -> SUBSET Numbers]
  /\ DOMAIN saving = Readers
  /\ \A r \in Readers : \A list \in saving[r] :
       list # <<>> /\ list \in Seq([seq : Numbers, post : Drafts])

LEMMA TypeParts == TypeOK <=> OwnerTypes /\ QueueTypes /\ RelayTypes /\ ReaderTypes
<1>1. TypeOK => OwnerTypes /\ QueueTypes /\ RelayTypes /\ ReaderTypes
  <2> SUFFICES ASSUME TypeOK PROVE OwnerTypes /\ QueueTypes /\ RelayTypes /\ ReaderTypes
    OBVIOUS
  <2>1. OwnerTypes /\ RelayTypes
    BY DEF TypeOK, OwnerTypes, RelayTypes, Size
  <2>2. ReaderTypes
    BY DEF TypeOK, ReaderTypes, Size
  <2>3. /\ outbox \in Seq(Drafts) /\ uplink \in Seq(Drafts)
        /\ \A d \in Drafts, q \in {outbox, uplink} : (\E i \in DOMAIN q : q[i] = d) => draft[d] = "posted"
    BY DEF TypeOK
  <2>4. QueueTypes
    BY <2>3 DEF QueueTypes
  <2> QED
    BY <2>1, <2>2, <2>4
<1>2. OwnerTypes /\ QueueTypes /\ RelayTypes /\ ReaderTypes => TypeOK
  <2> SUFFICES ASSUME OwnerTypes, QueueTypes, RelayTypes, ReaderTypes PROVE TypeOK
    OBVIOUS
  <2>1. \A d \in Drafts, q \in {outbox, uplink} : (\E i \in DOMAIN q : q[i] = d) => draft[d] = "posted"
    BY DEF QueueTypes
  <2> QED
    BY <2>1 DEF TypeOK, OwnerTypes, QueueTypes, RelayTypes, ReaderTypes, Size
<1> QED
  BY <1>1, <1>2

LEMMA TailFacts ==
  ASSUME NEW R, NEW list \in Seq(R), list # <<>>
  PROVE  /\ Head(list) \in R /\ Head(list) = list[1] /\ 1 \in DOMAIN list
         /\ Len(list) # 1 => Tail(list) # <<>>
         /\ Tail(list) \in Seq(R)
         /\ \A i \in DOMAIN Tail(list) : i + 1 \in DOMAIN list /\ Tail(list)[i] = list[i + 1]
<1>1. Len(list) \in Nat /\ Len(list) # 0 /\ DOMAIN list = 1..Len(list)
  OBVIOUS
<1>2. Head(list) \in R /\ Head(list) = list[1] /\ 1 \in DOMAIN list
  BY <1>1
<1>3. Tail(list) \in Seq(R) /\ Len(Tail(list)) = Len(list) - 1
  OBVIOUS
<1>4. DOMAIN Tail(list) = 1..Len(list) - 1
  BY <1>3
<1>5. \A i \in 1..Len(list) - 1 : Tail(list)[i] = list[i + 1]
  OBVIOUS
<1>6. ASSUME Len(list) # 1 PROVE Tail(list) # <<>>
  <2>1. 1 \in DOMAIN Tail(list)
    BY <1>1, <1>4, <1>6
  <2>2. DOMAIN << >> = {}
    OBVIOUS
  <2> QED
    BY <2>1, <2>2
<1> QED
  BY <1>1, <1>2, <1>3, <1>4, <1>5, <1>6

LEMMA Item ==
  ASSUME NEW R, NEW list \in Seq(R), NEW i \in DOMAIN list
  PROVE  list[i] \in R
OBVIOUS

LEMMA OwnerTypesStep ==
  ASSUME ChannelsInv, [Next]_vars
  PROVE  OwnerTypes'
<1>t. OwnerTypes /\ QueueTypes /\ RelayTypes /\ ReaderTypes
  BY TypeParts DEF ChannelsInv
<1>s. Size \in Nat /\ Numbers = 1..Size
  BY SizeType
<1>1. CASE UNCHANGED vars
  BY <1>1, <1>t DEF OwnerTypes, vars, ownerVars, readerVars
<1>2. ASSUME NEW d \in Drafts, Number(d) PROVE OwnerTypes'
  <2>1. draft[d] = "new" /\ OwnTable /\ TypeOK
    BY <1>2 DEF Number, ChannelsInv
  <2>2. NextSeq \in Numbers
    BY <2>1, NumbersSuffice
  <2>3. /\ draft' = [draft EXCEPT ![d] = "numbered"] /\ seq' = [seq EXCEPT ![d] = NextSeq]
        /\ overlapped' \subseteq overlapped \cup Drafts /\ UNCHANGED <<own, online>>
    BY <1>2 DEF Number
  <2> QED
    BY <1>t, <1>s, <2>2, <2>3 DEF OwnerTypes
<1>3. ASSUME NEW d \in Drafts, Keep(d) PROVE OwnerTypes'
  <2>1. seq[d] \in Numbers
    BY <1>3, <1>t DEF Keep, OwnerTypes
  <2>2. own' \in Table
    BY <1>3, <1>t, <2>1, InsertFacts DEF Keep, OwnerTypes
  <2>3. draft' = [draft EXCEPT ![d] = "kept"] /\ UNCHANGED <<seq, online, overlapped>>
    BY <1>3 DEF Keep
  <2> QED
    BY <1>t, <2>1, <2>2, <2>3 DEF OwnerTypes
<1>4. ASSUME NEW d \in Drafts, Post(d) PROVE OwnerTypes'
  BY <1>4, <1>t DEF Post, OwnerTypes, ownerVars, readerVars
<1>5. CASE Open
  BY <1>5, <1>t DEF Open, OwnerTypes, ownerVars, readerVars
<1>6. CASE Flush
  BY <1>6, <1>t DEF Flush, OwnerTypes, ownerVars, readerVars
<1>7. CASE Break
  BY <1>7, <1>t DEF Break, Fault, OwnerTypes, ownerVars, readerVars
<1>8. CASE OwnerKilled
  BY <1>8, <1>t DEF OwnerKilled, Fault, OwnerTypes, ownerVars, readerVars
<1>9. CASE Shelve
  BY <1>9, <1>t DEF Shelve, OwnerTypes, ownerVars, readerVars
<1>10. ASSUME NEW r \in Readers, Subscribe(r) PROVE OwnerTypes'
  BY <1>10, <1>t DEF Subscribe, Fetching, OwnerTypes, ownerVars, readerVars
<1>11. ASSUME NEW r \in Readers, Fetch(r) PROVE OwnerTypes'
  BY <1>11, <1>t DEF Fetch, Fetching, OwnerTypes, ownerVars, readerVars
<1>12. ASSUME NEW r \in Readers, Delete(r) PROVE OwnerTypes'
  BY <1>12, <1>t DEF Delete, Fault, OwnerTypes, ownerVars, readerVars
<1>13. ASSUME NEW r \in Readers, ReaderKilled(r) PROVE OwnerTypes'
  BY <1>13, <1>t DEF ReaderKilled, Fault, OwnerTypes, ownerVars, readerVars
<1>14. ASSUME NEW r \in Readers, NEW n \in asked[r], Serve(r, n) PROVE OwnerTypes'
  BY <1>14, <1>t DEF Serve, OwnerTypes, ownerVars, readerVars
<1>15. ASSUME NEW r \in Readers, NEW n \in asked[r], RequestLost(r, n) PROVE OwnerTypes'
  BY <1>15, <1>t DEF RequestLost, Fault, OwnerTypes, ownerVars, readerVars
<1>16. ASSUME NEW r \in Readers, NEW list \in saving[r], Save(r, list) PROVE OwnerTypes'
  BY <1>16, <1>t DEF Save, Handled, OwnerTypes, ownerVars, readerVars
<1>17. ASSUME NEW r \in Readers, NEW list \in saving[r], SaveFails(r, list) PROVE OwnerTypes'
  BY <1>17, <1>t DEF SaveFails, Fault, Handled, OwnerTypes, ownerVars, readerVars
<1> QED
  BY <1>1, <1>2, <1>3, <1>4, <1>5, <1>6, <1>7, <1>8, <1>9, <1>10, <1>11, <1>12, <1>13, <1>14,
    <1>15, <1>16, <1>17 DEF Next

LEMMA QueueTypesStep ==
  ASSUME ChannelsInv, [Next]_vars
  PROVE  QueueTypes'
<1>t. OwnerTypes /\ QueueTypes /\ RelayTypes /\ ReaderTypes
  BY TypeParts DEF ChannelsInv
<1>1. CASE UNCHANGED vars
  BY <1>1, <1>t DEF OwnerTypes, QueueTypes, vars, ownerVars, readerVars
<1>2. ASSUME NEW d \in Drafts, Number(d) PROVE QueueTypes'
  BY <1>2, <1>t DEF Number, OwnerTypes, QueueTypes, ownerVars, readerVars
<1>3. ASSUME NEW d \in Drafts, Keep(d) PROVE QueueTypes'
  BY <1>3, <1>t DEF Keep, OwnerTypes, QueueTypes, ownerVars, readerVars
<1>4. ASSUME NEW d \in Drafts, Post(d) PROVE QueueTypes'
  <2>1. /\ draft' = [draft EXCEPT ![d] = "posted"] /\ draft[d] = "kept"
        /\ \/ outbox' = outbox /\ uplink' = Append(uplink, d)
           \/ uplink' = uplink /\ outbox' = Append(outbox, d)
    BY <1>4 DEF Post
  <2>2. \A e \in Drafts : draft[e] = "posted" => draft'[e] = "posted"
    BY <1>t, <2>1 DEF OwnerTypes
  <2>3. draft'[d] = "posted"
    BY <1>t, <2>1 DEF OwnerTypes
  <2>4. CASE outbox' = outbox /\ uplink' = Append(uplink, d)
    BY <1>t, <2>2, <2>3, <2>4 DEF QueueTypes
  <2>5. CASE uplink' = uplink /\ outbox' = Append(outbox, d)
    BY <1>t, <2>2, <2>3, <2>5 DEF QueueTypes
  <2> QED
    BY <2>1, <2>4, <2>5
<1>5. CASE Open
  BY <1>5, <1>t DEF Open, OwnerTypes, QueueTypes, ownerVars, readerVars
<1>6. CASE Flush
  BY <1>6, <1>t DEF Flush, OwnerTypes, QueueTypes, ownerVars, readerVars
<1>7. CASE Break
  BY <1>7, <1>t DEF Break, Fault, OwnerTypes, QueueTypes, ownerVars, readerVars
<1>8. CASE OwnerKilled
  BY <1>8, <1>t DEF OwnerKilled, Fault, OwnerTypes, QueueTypes, ownerVars, readerVars
<1>9. CASE Shelve
  BY <1>9, <1>t DEF Shelve, OwnerTypes, QueueTypes, ownerVars, readerVars
<1>10. ASSUME NEW r \in Readers, Subscribe(r) PROVE QueueTypes'
  BY <1>10, <1>t DEF Subscribe, Fetching, OwnerTypes, QueueTypes, ownerVars, readerVars
<1>11. ASSUME NEW r \in Readers, Fetch(r) PROVE QueueTypes'
  BY <1>11, <1>t DEF Fetch, Fetching, OwnerTypes, QueueTypes, ownerVars, readerVars
<1>12. ASSUME NEW r \in Readers, Delete(r) PROVE QueueTypes'
  BY <1>12, <1>t DEF Delete, Fault, OwnerTypes, QueueTypes, ownerVars, readerVars
<1>13. ASSUME NEW r \in Readers, ReaderKilled(r) PROVE QueueTypes'
  BY <1>13, <1>t DEF ReaderKilled, Fault, OwnerTypes, QueueTypes, ownerVars, readerVars
<1>14. ASSUME NEW r \in Readers, NEW n \in asked[r], Serve(r, n) PROVE QueueTypes'
  BY <1>14, <1>t DEF Serve, OwnerTypes, QueueTypes, ownerVars, readerVars
<1>15. ASSUME NEW r \in Readers, NEW n \in asked[r], RequestLost(r, n) PROVE QueueTypes'
  BY <1>15, <1>t DEF RequestLost, Fault, OwnerTypes, QueueTypes, ownerVars, readerVars
<1>16. ASSUME NEW r \in Readers, NEW list \in saving[r], Save(r, list) PROVE QueueTypes'
  BY <1>16, <1>t DEF Save, Handled, OwnerTypes, QueueTypes, ownerVars, readerVars
<1>17. ASSUME NEW r \in Readers, NEW list \in saving[r], SaveFails(r, list) PROVE QueueTypes'
  BY <1>17, <1>t DEF SaveFails, Fault, Handled, OwnerTypes, QueueTypes, ownerVars, readerVars
<1> QED
  BY <1>1, <1>2, <1>3, <1>4, <1>5, <1>6, <1>7, <1>8, <1>9, <1>10, <1>11, <1>12, <1>13, <1>14,
    <1>15, <1>16, <1>17 DEF Next

LEMMA RelayTypesStep ==
  ASSUME ChannelsInv, [Next]_vars
  PROVE  RelayTypes'
<1>t. OwnerTypes /\ QueueTypes /\ RelayTypes /\ ReaderTypes
  BY TypeParts DEF ChannelsInv
<1>m. MaxFaults \in Nat
  BY ChannelsAssumption DEF ChannelsAssumption
<1>1. CASE UNCHANGED vars
  BY <1>1, <1>t, <1>m DEF RelayTypes, vars, ownerVars, readerVars
<1>2. ASSUME NEW d \in Drafts, Number(d) PROVE RelayTypes'
  BY <1>2, <1>t, <1>m DEF Number, RelayTypes, ownerVars, readerVars
<1>3. ASSUME NEW d \in Drafts, Keep(d) PROVE RelayTypes'
  BY <1>3, <1>t, <1>m DEF Keep, RelayTypes, ownerVars, readerVars
<1>4. ASSUME NEW d \in Drafts, Post(d) PROVE RelayTypes'
  BY <1>4, <1>t, <1>m DEF Post, RelayTypes, ownerVars, readerVars
<1>5. CASE Open
  BY <1>5, <1>t, <1>m DEF Open, RelayTypes, ownerVars, readerVars
<1>6. CASE Flush
  BY <1>6, <1>t, <1>m DEF Flush, RelayTypes, ownerVars, readerVars
<1>7. CASE Break
  BY <1>7, <1>t, <1>m DEF Break, Fault, RelayTypes, ownerVars, readerVars
<1>8. CASE OwnerKilled
  BY <1>8, <1>t, <1>m DEF OwnerKilled, Fault, RelayTypes, ownerVars, readerVars
<1>9. CASE Shelve
  <2>1. PICK d \in Drafts : d = Head(uplink) /\ draft[d] = "posted" /\ seq[d] \in Numbers
    BY <1>9, <1>t DEF Shelve, OwnerTypes, QueueTypes
  <2>2. shelf' \in Table
    BY <1>9, <1>t, <2>1, InsertFacts DEF Shelve, RelayTypes
  <2>3. late' \subseteq Numbers /\ faults' = faults
    BY <1>9, <1>t, <2>1 DEF Shelve, RelayTypes
  <2> QED
    BY <1>t, <2>2, <2>3 DEF RelayTypes
<1>10. ASSUME NEW r \in Readers, Subscribe(r) PROVE RelayTypes'
  BY <1>10, <1>t, <1>m DEF Subscribe, Fetching, RelayTypes, ownerVars, readerVars
<1>11. ASSUME NEW r \in Readers, Fetch(r) PROVE RelayTypes'
  BY <1>11, <1>t, <1>m DEF Fetch, Fetching, RelayTypes, ownerVars, readerVars
<1>12. ASSUME NEW r \in Readers, Delete(r) PROVE RelayTypes'
  BY <1>12, <1>t, <1>m DEF Delete, Fault, RelayTypes, ownerVars, readerVars
<1>13. ASSUME NEW r \in Readers, ReaderKilled(r) PROVE RelayTypes'
  BY <1>13, <1>t, <1>m DEF ReaderKilled, Fault, RelayTypes, ownerVars, readerVars
<1>14. ASSUME NEW r \in Readers, NEW n \in asked[r], Serve(r, n) PROVE RelayTypes'
  BY <1>14, <1>t, <1>m DEF Serve, RelayTypes, ownerVars, readerVars
<1>15. ASSUME NEW r \in Readers, NEW n \in asked[r], RequestLost(r, n) PROVE RelayTypes'
  BY <1>15, <1>t, <1>m DEF RequestLost, Fault, RelayTypes, ownerVars, readerVars
<1>16. ASSUME NEW r \in Readers, NEW list \in saving[r], Save(r, list) PROVE RelayTypes'
  BY <1>16, <1>t, <1>m DEF Save, Handled, RelayTypes, ownerVars, readerVars
<1>17. ASSUME NEW r \in Readers, NEW list \in saving[r], SaveFails(r, list) PROVE RelayTypes'
  BY <1>17, <1>t, <1>m DEF SaveFails, Fault, Handled, RelayTypes, ownerVars, readerVars
<1> QED
  BY <1>1, <1>2, <1>3, <1>4, <1>5, <1>6, <1>7, <1>8, <1>9, <1>10, <1>11, <1>12, <1>13, <1>14,
    <1>15, <1>16, <1>17 DEF Next

LEMMA ReaderTypesStep ==
  ASSUME ChannelsInv, [Next]_vars
  PROVE  ReaderTypes'
<1>t. OwnerTypes /\ QueueTypes /\ RelayTypes /\ ReaderTypes
  BY TypeParts DEF ChannelsInv
<1>s. Size \in Nat /\ Numbers = 1..Size
  BY SizeType
<1>l. \A r \in Readers : LastSeq(store[r]) \in 0..Size
  BY LastSeqFacts
<1>1. CASE UNCHANGED vars
  BY <1>1, <1>t, <1>s, <1>l DEF ReaderTypes, vars, ownerVars, readerVars
<1>2. ASSUME NEW d \in Drafts, Number(d) PROVE ReaderTypes'
  BY <1>2, <1>t, <1>s, <1>l DEF Number, ReaderTypes, ownerVars, readerVars
<1>3. ASSUME NEW d \in Drafts, Keep(d) PROVE ReaderTypes'
  BY <1>3, <1>t, <1>s, <1>l DEF Keep, ReaderTypes, ownerVars, readerVars
<1>4. ASSUME NEW d \in Drafts, Post(d) PROVE ReaderTypes'
  BY <1>4, <1>t, <1>s, <1>l DEF Post, ReaderTypes, ownerVars, readerVars
<1>5. CASE Open
  BY <1>5, <1>t, <1>s, <1>l DEF Open, ReaderTypes, ownerVars, readerVars
<1>6. CASE Flush
  BY <1>6, <1>t, <1>s, <1>l DEF Flush, ReaderTypes, ownerVars, readerVars
<1>7. CASE Break
  BY <1>7, <1>t, <1>s, <1>l DEF Break, Fault, ReaderTypes, ownerVars, readerVars
<1>8. CASE OwnerKilled
  BY <1>8, <1>t, <1>s, <1>l DEF OwnerKilled, Fault, ReaderTypes, ownerVars, readerVars
<1>9. CASE Shelve
  BY <1>9, <1>t, <1>s, <1>l DEF Shelve, ReaderTypes, ownerVars, readerVars
<1>10. ASSUME NEW r \in Readers, Subscribe(r) PROVE ReaderTypes'
  BY <1>10, <1>t, <1>s, <1>l DEF Subscribe, Fetching, ReaderTypes, ownerVars, readerVars
<1>11. ASSUME NEW r \in Readers, Fetch(r) PROVE ReaderTypes'
  BY <1>11, <1>t, <1>s, <1>l DEF Fetch, Fetching, ReaderTypes, ownerVars, readerVars
<1>12. ASSUME NEW r \in Readers, Delete(r) PROVE ReaderTypes'
  <2>1. Empty \in Table
    BY DEF Empty, Table, Posts
  <2> QED
    BY <1>12, <1>t, <2>1 DEF Delete, ReaderTypes
<1>13. ASSUME NEW r \in Readers, ReaderKilled(r) PROVE ReaderTypes'
  BY <1>13, <1>t, <1>s, <1>l DEF ReaderKilled, Fault, ReaderTypes, ownerVars, readerVars
<1>14. ASSUME NEW r \in Readers, NEW n \in asked[r], Serve(r, n) PROVE ReaderTypes'
  <2>1. Above(n) # {} => Answer(n) # <<>> /\ Answer(n) \in Seq([seq : Numbers, post : Drafts])
    BY <1>t, AnswerFacts DEF RelayTypes
  <2>2. UNCHANGED <<subscribed, store, excused>> /\ asked' \in [Readers -> SUBSET (0..Size)]
    BY <1>14, <1>t DEF Serve, ReaderTypes
  <2>3. /\ DOMAIN saving' = Readers
        /\ \A q \in Readers : \A l \in saving'[q] :
             l \in saving[q] \/ (l = Answer(n) /\ Above(n) # {})
    BY <1>14, <1>t DEF Serve, ReaderTypes
  <2>4. \A q \in Readers : \A l \in saving'[q] :
          l # <<>> /\ l \in Seq([seq : Numbers, post : Drafts])
    BY <1>t, <2>1, <2>3 DEF ReaderTypes
  <2> QED
    BY <1>t, <2>2, <2>3, <2>4 DEF ReaderTypes
<1>15. ASSUME NEW r \in Readers, NEW n \in asked[r], RequestLost(r, n) PROVE ReaderTypes'
  BY <1>15, <1>t, <1>s, <1>l DEF RequestLost, Fault, ReaderTypes, ownerVars, readerVars
<1>16. ASSUME NEW r \in Readers, NEW list \in saving[r], Save(r, list) PROVE ReaderTypes'
  <2>0. list # <<>> /\ list \in Seq([seq : Numbers, post : Drafts])
    BY <1>t DEF ReaderTypes
  <2>1. /\ Head(list) \in [seq : Numbers, post : Drafts]
        /\ Len(list) # 1 => Tail(list) # <<>> /\ Tail(list) \in Seq([seq : Numbers, post : Drafts])
    BY <2>0, TailFacts
  <2>2. saving' = [saving EXCEPT ![r] = (saving[r] \ {list}) \cup (IF Len(list) = 1 THEN {} ELSE {Tail(list)})]
    BY <1>16 DEF Save, SaveFails, Handled
  <2>3. /\ DOMAIN saving' = Readers
        /\ \A q \in Readers : \A l \in saving'[q] :
             l \in saving[q] \/ (l = Tail(list) /\ Len(list) # 1)
    BY <1>t, <2>2 DEF ReaderTypes
  <2>4. \A q \in Readers : \A l \in saving'[q] :
          l # <<>> /\ l \in Seq([seq : Numbers, post : Drafts])
    BY <1>t, <2>1, <2>3 DEF ReaderTypes
  
  <2>5. store' \in [Readers -> Table]
    BY <1>16, <1>t, <2>1, InsertFacts DEF Save, ReaderTypes
  <2>6. UNCHANGED <<subscribed, asked, excused>>
    BY <1>16 DEF Save
  <2> QED
    BY <1>t, <2>3, <2>4, <2>5, <2>6 DEF ReaderTypes
<1>17. ASSUME NEW r \in Readers, NEW list \in saving[r], SaveFails(r, list) PROVE ReaderTypes'
  <2>0. list # <<>> /\ list \in Seq([seq : Numbers, post : Drafts])
    BY <1>t DEF ReaderTypes
  <2>1. /\ Head(list) \in [seq : Numbers, post : Drafts]
        /\ Len(list) # 1 => Tail(list) # <<>> /\ Tail(list) \in Seq([seq : Numbers, post : Drafts])
    BY <2>0, TailFacts
  <2>2. saving' = [saving EXCEPT ![r] = (saving[r] \ {list}) \cup (IF Len(list) = 1 THEN {} ELSE {Tail(list)})]
    BY <1>17 DEF Save, SaveFails, Handled
  <2>3. /\ DOMAIN saving' = Readers
        /\ \A q \in Readers : \A l \in saving'[q] :
             l \in saving[q] \/ (l = Tail(list) /\ Len(list) # 1)
    BY <1>t, <2>2 DEF ReaderTypes
  <2>4. \A q \in Readers : \A l \in saving'[q] :
          l # <<>> /\ l \in Seq([seq : Numbers, post : Drafts])
    BY <1>t, <2>1, <2>3 DEF ReaderTypes
  
  <2>5. excused' \in [Readers -> SUBSET Numbers]
    BY <1>17, <1>t, <2>1 DEF SaveFails, ReaderTypes
  <2>6. UNCHANGED <<subscribed, store, asked>>
    BY <1>17 DEF SaveFails
  <2> QED
    BY <1>t, <2>3, <2>4, <2>5, <2>6 DEF ReaderTypes
<1> QED
  BY <1>1, <1>2, <1>3, <1>4, <1>5, <1>6, <1>7, <1>8, <1>9, <1>10, <1>11, <1>12, <1>13, <1>14,
    <1>15, <1>16, <1>17 DEF Next

LEMMA TypeStep ==
  ASSUME ChannelsInv, [Next]_vars
  PROVE  TypeOK'
<1>1. (OwnerTypes /\ QueueTypes /\ RelayTypes /\ ReaderTypes)'
  BY OwnerTypesStep, QueueTypesStep, RelayTypesStep, ReaderTypesStep
<1> QED
  BY <1>1, TypeParts, PTL

-----------------------------------------------------------------------------
(* The owner's table and the shelf.                                         *)

LEMMA OwnTableStep ==
  ASSUME ChannelsInv, [Next]_vars
  PROVE  OwnTable'
<1>t. OwnerTypes /\ OwnTable
  BY TypeParts DEF ChannelsInv
<1>d. \A k \in Held(own) : own[k] \in Drafts
  BY <1>t DEF OwnerTypes, Table, Posts, Held
<1>1. CASE UNCHANGED vars
  BY <1>1, <1>t, <1>d DEF OwnerTypes, OwnTable, vars, ownerVars, readerVars
<1>2. ASSUME NEW d \in Drafts, Number(d) PROVE OwnTable'
  <2>1. /\ draft' = [draft EXCEPT ![d] = "numbered"] /\ draft[d] = "new"
        /\ seq' = [seq EXCEPT ![d] = LastSeq(own) + 1] /\ own' = own
    BY <1>2 DEF Number, NextSeq
  <2>2. LastSeq(own) \in 0..Size
    BY LastSeqFacts
  <2> QED
    BY <1>t, <1>d, <2>1, <2>2, SizeType DEF OwnerTypes, OwnTable
<1>3. ASSUME NEW d \in Drafts, Keep(d) PROVE OwnTable'
  <2> DEFINE k == seq[d]
             L == LastSeq(own)
  <2>1. draft[d] = "numbered" /\ draft' = [draft EXCEPT ![d] = "kept"] /\ seq' = seq
    BY <1>3 DEF Keep
  <2>2. own' = Insert(own, k, d)
    BY <1>3 DEF Keep
  <2>3. k \in Numbers /\ k <= L + 1 /\ own \in Table
    BY <1>t, <2>1 DEF OwnerTypes, OwnTable
  <2>4. L \in 0..Size /\ Size \in Nat /\ Numbers = 1..Size
    BY LastSeqFacts, SizeType
  <2>5. /\ Held(own') = Held(own) \cup {k} /\ \A j \in Held(own) : own'[j] = own[j]
        /\ own[k] = None => own'[k] = d
        /\ LastSeq(own') = IF k > L THEN k ELSE L
    BY <2>2, <2>3, InsertFacts, InsertLast
  <2>6. Held(own) = 1..L
    BY <1>t DEF OwnTable
  <2>7. k \notin Held(own) => own[k] = None
    BY <2>3 DEF Held
  <2>8. Held(own)' = 1..LastSeq(own')
    BY <2>3, <2>4, <2>5, <2>6 DEF Held
  <2>9. ASSUME NEW j \in Held(own') PROVE draft'[own'[j]] \notin {"new", "numbered"} /\ seq'[own'[j]] = j
    <3>1. CASE j \in Held(own)
      BY <1>t, <1>d, <2>1, <2>5, <3>1 DEF OwnTable, OwnerTypes
    <3>2. CASE j \notin Held(own)
      BY <1>t, <2>1, <2>5, <2>7, <3>2 DEF OwnerTypes
    <3> QED
      BY <3>1, <3>2
  <2>10. \A e \in Drafts : draft'[e] = "numbered" => seq'[e] <= LastSeq(own') + 1
    BY <1>t, <2>1, <2>3, <2>4, <2>5 DEF OwnTable, OwnerTypes
  <2> QED
    BY <2>8, <2>9, <2>10 DEF OwnTable, Held
<1>4. ASSUME NEW d \in Drafts, Post(d) PROVE OwnTable'
  BY <1>4, <1>t, <1>d DEF Post, OwnerTypes, OwnTable, ownerVars, readerVars
<1>5. CASE Open
  BY <1>5, <1>t, <1>d DEF Open, OwnerTypes, OwnTable, ownerVars, readerVars
<1>6. CASE Flush
  BY <1>6, <1>t, <1>d DEF Flush, OwnerTypes, OwnTable, ownerVars, readerVars
<1>7. CASE Break
  BY <1>7, <1>t, <1>d DEF Break, Fault, OwnerTypes, OwnTable, ownerVars, readerVars
<1>8. CASE OwnerKilled
  BY <1>8, <1>t, <1>d DEF OwnerKilled, Fault, OwnerTypes, OwnTable, ownerVars, readerVars
<1>9. CASE Shelve
  BY <1>9, <1>t, <1>d DEF Shelve, OwnerTypes, OwnTable, ownerVars, readerVars
<1>10. ASSUME NEW r \in Readers, Subscribe(r) PROVE OwnTable'
  BY <1>10, <1>t, <1>d DEF Subscribe, Fetching, OwnerTypes, OwnTable, ownerVars, readerVars
<1>11. ASSUME NEW r \in Readers, Fetch(r) PROVE OwnTable'
  BY <1>11, <1>t, <1>d DEF Fetch, Fetching, OwnerTypes, OwnTable, ownerVars, readerVars
<1>12. ASSUME NEW r \in Readers, Delete(r) PROVE OwnTable'
  BY <1>12, <1>t, <1>d DEF Delete, Fault, OwnerTypes, OwnTable, ownerVars, readerVars
<1>13. ASSUME NEW r \in Readers, ReaderKilled(r) PROVE OwnTable'
  BY <1>13, <1>t, <1>d DEF ReaderKilled, Fault, OwnerTypes, OwnTable, ownerVars, readerVars
<1>14. ASSUME NEW r \in Readers, NEW n \in asked[r], Serve(r, n) PROVE OwnTable'
  BY <1>14, <1>t, <1>d DEF Serve, OwnerTypes, OwnTable, ownerVars, readerVars
<1>15. ASSUME NEW r \in Readers, NEW n \in asked[r], RequestLost(r, n) PROVE OwnTable'
  BY <1>15, <1>t, <1>d DEF RequestLost, Fault, OwnerTypes, OwnTable, ownerVars, readerVars
<1>16. ASSUME NEW r \in Readers, NEW list \in saving[r], Save(r, list) PROVE OwnTable'
  BY <1>16, <1>t, <1>d DEF Save, Handled, OwnerTypes, OwnTable, ownerVars, readerVars
<1>17. ASSUME NEW r \in Readers, NEW list \in saving[r], SaveFails(r, list) PROVE OwnTable'
  BY <1>17, <1>t, <1>d DEF SaveFails, Fault, Handled, OwnerTypes, OwnTable, ownerVars, readerVars
<1> QED
  BY <1>1, <1>2, <1>3, <1>4, <1>5, <1>6, <1>7, <1>8, <1>9, <1>10, <1>11, <1>12, <1>13, <1>14,
    <1>15, <1>16, <1>17 DEF Next

LEMMA AloneStep ==
  ASSUME ChannelsInv, [Next]_vars
  PROVE  Alone'
<1>t. OwnerTypes /\ OwnTable /\ Alone
  BY TypeParts DEF ChannelsInv
<1>o. \A d \in Drafts : d # None
  BY ChannelsAssumption DEF ChannelsAssumption
<1>1. CASE UNCHANGED vars
  BY <1>1, <1>t DEF OwnerTypes, Alone, vars, ownerVars, readerVars
<1>2. ASSUME NEW d \in Drafts, Number(d) PROVE Alone'
  <2> DEFINE others == {e \in Drafts : draft[e] = "numbered"}
  <2>1. /\ draft' = [draft EXCEPT ![d] = "numbered"] /\ draft[d] = "new"
        /\ seq' = [seq EXCEPT ![d] = LastSeq(own) + 1] /\ own' = own
        /\ overlapped' = IF others = {} THEN overlapped ELSE overlapped \cup others \cup {d}
    BY <1>2 DEF Number, NextSeq
  <2>2. CASE others = {}
    BY <1>t, <2>1, <2>2 DEF OwnerTypes, Alone
  <2>3. CASE others # {}
    BY <1>t, <2>1, <2>3 DEF OwnerTypes, Alone
  <2> QED
    BY <2>2, <2>3
<1>3. ASSUME NEW d \in Drafts, Keep(d) PROVE Alone'
  <2> DEFINE k == seq[d]
  <2>1. /\ draft[d] = "numbered" /\ draft' = [draft EXCEPT ![d] = "kept"]
        /\ UNCHANGED <<seq, overlapped>>
    BY <1>3 DEF Keep
  <2>2. own' = Insert(own, k, d)
    BY <1>3 DEF Keep
  <2>3. k \in Numbers /\ own \in Table
    BY <1>t, <2>1 DEF OwnerTypes
  <2>4. /\ \A j \in Held(own) : own'[j] = own[j]
        /\ own[k] = None => own'[k] = d
    BY <2>2, <2>3, InsertFacts
  <2>5. ASSUME NEW e \in Drafts \ overlapped PROVE draft'[e] # "numbered"
    BY <1>t, <2>1, <2>5 DEF OwnerTypes, Alone
  <2>6. ASSUME NEW e \in Drafts \ overlapped, draft'[e] \in {"kept", "posted"} PROVE own'[seq[e]] = e
    <3>1. CASE e = d
      <4>1. k = LastSeq(own) + 1
        BY <1>t, <2>1, <2>6, <3>1 DEF Alone
      <4>2. k \notin Held(own)
        BY <2>3, <4>1, LastSeqFacts, SizeType
      <4>3. own[k] = None
        BY <2>3, <4>2 DEF Held
      <4> QED
        BY <2>4, <3>1, <4>3
    <3>2. CASE e # d
      <4>1. draft[e] \in {"kept", "posted"}
        BY <1>t, <2>1, <2>6, <3>2 DEF OwnerTypes
      <4>2. own[seq[e]] = e /\ seq[e] \in Numbers
        BY <1>t, <4>1 DEF OwnerTypes, Alone
      <4>3. seq[e] \in Held(own)
        BY <1>o, <4>2 DEF Held
      <4> QED
        BY <2>4, <4>2, <4>3
    <3> QED
      BY <3>1, <3>2
  <2> QED
    BY <2>1, <2>5, <2>6 DEF Alone
<1>4. ASSUME NEW d \in Drafts, Post(d) PROVE Alone'
  BY <1>4, <1>t DEF Post, OwnerTypes, Alone, ownerVars, readerVars
<1>5. CASE Open
  BY <1>5, <1>t DEF Open, OwnerTypes, Alone, ownerVars, readerVars
<1>6. CASE Flush
  BY <1>6, <1>t DEF Flush, OwnerTypes, Alone, ownerVars, readerVars
<1>7. CASE Break
  BY <1>7, <1>t DEF Break, Fault, OwnerTypes, Alone, ownerVars, readerVars
<1>8. CASE OwnerKilled
  BY <1>8, <1>t DEF OwnerKilled, Fault, OwnerTypes, Alone, ownerVars, readerVars
<1>9. CASE Shelve
  BY <1>9, <1>t DEF Shelve, OwnerTypes, Alone, ownerVars, readerVars
<1>10. ASSUME NEW r \in Readers, Subscribe(r) PROVE Alone'
  BY <1>10, <1>t DEF Subscribe, Fetching, OwnerTypes, Alone, ownerVars, readerVars
<1>11. ASSUME NEW r \in Readers, Fetch(r) PROVE Alone'
  BY <1>11, <1>t DEF Fetch, Fetching, OwnerTypes, Alone, ownerVars, readerVars
<1>12. ASSUME NEW r \in Readers, Delete(r) PROVE Alone'
  BY <1>12, <1>t DEF Delete, Fault, OwnerTypes, Alone, ownerVars, readerVars
<1>13. ASSUME NEW r \in Readers, ReaderKilled(r) PROVE Alone'
  BY <1>13, <1>t DEF ReaderKilled, Fault, OwnerTypes, Alone, ownerVars, readerVars
<1>14. ASSUME NEW r \in Readers, NEW n \in asked[r], Serve(r, n) PROVE Alone'
  BY <1>14, <1>t DEF Serve, OwnerTypes, Alone, ownerVars, readerVars
<1>15. ASSUME NEW r \in Readers, NEW n \in asked[r], RequestLost(r, n) PROVE Alone'
  BY <1>15, <1>t DEF RequestLost, Fault, OwnerTypes, Alone, ownerVars, readerVars
<1>16. ASSUME NEW r \in Readers, NEW list \in saving[r], Save(r, list) PROVE Alone'
  BY <1>16, <1>t DEF Save, Handled, OwnerTypes, Alone, ownerVars, readerVars
<1>17. ASSUME NEW r \in Readers, NEW list \in saving[r], SaveFails(r, list) PROVE Alone'
  BY <1>17, <1>t DEF SaveFails, Fault, Handled, OwnerTypes, Alone, ownerVars, readerVars
<1> QED
  BY <1>1, <1>2, <1>3, <1>4, <1>5, <1>6, <1>7, <1>8, <1>9, <1>10, <1>11, <1>12, <1>13, <1>14,
    <1>15, <1>16, <1>17 DEF Next

\* The relay takes the next post: what it has stays, and it has that number.
LEMMA ShelveFacts ==
  ASSUME ChannelsInv, Shelve
  PROVE  \E d \in Drafts :
           /\ draft[d] = "posted" /\ seq[d] \in Numbers
           /\ Held(shelf') = Held(shelf) \cup {seq[d]}
           /\ \A k \in Held(shelf) : shelf'[k] = shelf[k]
           /\ shelf[seq[d]] = None => shelf'[seq[d]] = d
           /\ late' = IF shelf[seq[d]] = None /\ LastSeq(shelf) > seq[d]
                      THEN late \cup {seq[d]} ELSE late
<1>t. OwnerTypes /\ QueueTypes /\ RelayTypes
  BY TypeParts DEF ChannelsInv
<1>1. PICK d \in Drafts : d = Head(uplink) /\ draft[d] = "posted" /\ seq[d] \in Numbers
  BY <1>t DEF Shelve, OwnerTypes, QueueTypes
<1>2. /\ shelf' = Insert(shelf, seq[d], d)
      /\ late' = IF shelf[seq[d]] = None /\ LastSeq(shelf) > seq[d]
                 THEN late \cup {seq[d]} ELSE late
  BY <1>1 DEF Shelve
<1>3. shelf \in Table
  BY <1>t DEF RelayTypes
<1>4. /\ Held(shelf') = Held(shelf) \cup {seq[d]}
      /\ \A k \in Held(shelf) : shelf'[k] = shelf[k]
      /\ shelf[seq[d]] = None => shelf'[seq[d]] = d
  BY <1>1, <1>2, <1>3, InsertFacts
<1> QED
  BY <1>1, <1>2, <1>4

LEMMA ShelvedStep ==
  ASSUME ChannelsInv, [Next]_vars
  PROVE  Shelved'
<1>t. OwnerTypes /\ RelayTypes /\ Shelved
  BY TypeParts DEF ChannelsInv
<1>d. \A k \in Held(shelf) : shelf[k] \in Drafts
  BY <1>t DEF RelayTypes, Table, Posts, Held
<1>1. CASE UNCHANGED vars
  BY <1>1, <1>t, <1>d DEF OwnerTypes, Shelved, vars, ownerVars, readerVars
<1>2. ASSUME NEW d \in Drafts, Number(d) PROVE Shelved'
  BY <1>2, <1>t, <1>d DEF Number, OwnerTypes, Shelved, ownerVars, readerVars
<1>3. ASSUME NEW d \in Drafts, Keep(d) PROVE Shelved'
  BY <1>3, <1>t, <1>d DEF Keep, OwnerTypes, Shelved, ownerVars, readerVars
<1>4. ASSUME NEW d \in Drafts, Post(d) PROVE Shelved'
  BY <1>4, <1>t, <1>d DEF Post, OwnerTypes, Shelved, ownerVars, readerVars
<1>5. CASE Open
  BY <1>5, <1>t, <1>d DEF Open, OwnerTypes, Shelved, ownerVars, readerVars
<1>6. CASE Flush
  BY <1>6, <1>t, <1>d DEF Flush, OwnerTypes, Shelved, ownerVars, readerVars
<1>7. CASE Break
  BY <1>7, <1>t, <1>d DEF Break, Fault, OwnerTypes, Shelved, ownerVars, readerVars
<1>8. CASE OwnerKilled
  BY <1>8, <1>t, <1>d DEF OwnerKilled, Fault, OwnerTypes, Shelved, ownerVars, readerVars
<1>9. CASE Shelve
  <2>1. PICK d \in Drafts :
          /\ draft[d] = "posted" /\ seq[d] \in Numbers
          /\ Held(shelf') = Held(shelf) \cup {seq[d]}
          /\ \A k \in Held(shelf) : shelf'[k] = shelf[k]
          /\ shelf[seq[d]] = None => shelf'[seq[d]] = d
    BY <1>9, ShelveFacts
  <2>2. UNCHANGED <<draft, seq>>
    BY <1>9 DEF Shelve
  <2>3. seq[d] \notin Held(shelf) => shelf[seq[d]] = None
    BY <2>1 DEF Held
  <2>4. \A k \in Held(shelf') : draft[shelf'[k]] = "posted" /\ seq[shelf'[k]] = k
    BY <1>t, <2>1, <2>3 DEF Shelved
  <2> QED
    BY <2>2, <2>4 DEF Shelved, Held
<1>10. ASSUME NEW r \in Readers, Subscribe(r) PROVE Shelved'
  BY <1>10, <1>t, <1>d DEF Subscribe, Fetching, OwnerTypes, Shelved, ownerVars, readerVars
<1>11. ASSUME NEW r \in Readers, Fetch(r) PROVE Shelved'
  BY <1>11, <1>t, <1>d DEF Fetch, Fetching, OwnerTypes, Shelved, ownerVars, readerVars
<1>12. ASSUME NEW r \in Readers, Delete(r) PROVE Shelved'
  BY <1>12, <1>t, <1>d DEF Delete, Fault, OwnerTypes, Shelved, ownerVars, readerVars
<1>13. ASSUME NEW r \in Readers, ReaderKilled(r) PROVE Shelved'
  BY <1>13, <1>t, <1>d DEF ReaderKilled, Fault, OwnerTypes, Shelved, ownerVars, readerVars
<1>14. ASSUME NEW r \in Readers, NEW n \in asked[r], Serve(r, n) PROVE Shelved'
  BY <1>14, <1>t, <1>d DEF Serve, OwnerTypes, Shelved, ownerVars, readerVars
<1>15. ASSUME NEW r \in Readers, NEW n \in asked[r], RequestLost(r, n) PROVE Shelved'
  BY <1>15, <1>t, <1>d DEF RequestLost, Fault, OwnerTypes, Shelved, ownerVars, readerVars
<1>16. ASSUME NEW r \in Readers, NEW list \in saving[r], Save(r, list) PROVE Shelved'
  BY <1>16, <1>t, <1>d DEF Save, Handled, OwnerTypes, Shelved, ownerVars, readerVars
<1>17. ASSUME NEW r \in Readers, NEW list \in saving[r], SaveFails(r, list) PROVE Shelved'
  BY <1>17, <1>t, <1>d DEF SaveFails, Fault, Handled, OwnerTypes, Shelved, ownerVars, readerVars
<1> QED
  BY <1>1, <1>2, <1>3, <1>4, <1>5, <1>6, <1>7, <1>8, <1>9, <1>10, <1>11, <1>12, <1>13, <1>14,
    <1>15, <1>16, <1>17 DEF Next

-----------------------------------------------------------------------------
(* The readers.                                                             *)

\* The shelf only grows, and what it has under a number stays.
LEMMA ShelfStays ==
  ASSUME ChannelsInv, [Next]_vars, NEW k \in Held(shelf)
  PROVE  shelf'[k] = shelf[k] /\ k \in Held(shelf')
<1>1. CASE Shelve
  BY <1>1, ShelveFacts
<1>2. CASE ~Shelve
  <2>1. shelf' = shelf
    BY <1>2 DEF Next, Number, Keep, Post, Open, Flush, Break, OwnerKilled, Subscribe, Fetch, Delete,
      ReaderKilled, Serve, RequestLost, Save, SaveFails, vars
  <2> QED
    BY <2>1
<1> QED
  BY <1>1, <1>2

\* After a post of an answer was handled.
LEMMA HandledFacts ==
  ASSUME ReaderTypes, NEW r \in Readers, NEW list \in saving[r], Handled(r, list)
  PROVE  /\ Head(list) = list[1] /\ 1 \in DOMAIN list /\ list \in Seq([seq : Numbers, post : Drafts])
         /\ list[1].seq \in Numbers /\ list[1].post \in Drafts
         /\ \A i \in DOMAIN Tail(list) : i + 1 \in DOMAIN list /\ Tail(list)[i] = list[i + 1]
         /\ \A q \in Readers : \A l \in saving'[q] : l \in saving[q] \/ (q = r /\ l = Tail(list))
<1>1. list # <<>> /\ list \in Seq([seq : Numbers, post : Drafts]) /\ DOMAIN saving = Readers
  BY DEF ReaderTypes
<1>2. /\ Head(list) \in [seq : Numbers, post : Drafts] /\ Head(list) = list[1] /\ 1 \in DOMAIN list
      /\ \A i \in DOMAIN Tail(list) : i + 1 \in DOMAIN list /\ Tail(list)[i] = list[i + 1]
  BY <1>1, TailFacts
<1>3. saving' = [saving EXCEPT ![r] = (saving[r] \ {list}) \cup (IF Len(list) = 1 THEN {} ELSE {Tail(list)})]
  BY DEF Handled
<1>4. \A q \in Readers : \A l \in saving'[q] : l \in saving[q] \/ (q = r /\ l = Tail(list))
  BY <1>1, <1>3
<1> QED
  BY <1>1, <1>2, <1>4

LEMMA FromShelfStep ==
  ASSUME ChannelsInv, [Next]_vars
  PROVE  FromShelf'
<1>t. OwnerTypes /\ RelayTypes /\ ReaderTypes /\ FromShelf
  BY TypeParts DEF ChannelsInv
<1>n. \A k \in Held(shelf) : shelf[k] # None
  BY DEF Held
<1>l. \A r \in Readers : LastSeq(store[r]) = 0 \/ LastSeq(store[r]) \in Held(shelf)
  <2>1. \A r \in Readers : Held(store[r]) \subseteq Held(shelf)
    BY <1>t DEF FromShelf, Held
  <2> QED
    BY <2>1, LastSeqFacts
<1>1. CASE UNCHANGED vars
  BY <1>1, <1>t, <1>l DEF ReaderTypes, FromShelf, vars, ownerVars, readerVars
<1>2. ASSUME NEW d \in Drafts, Number(d) PROVE FromShelf'
  BY <1>2, <1>t, <1>l DEF Number, ReaderTypes, FromShelf, ownerVars, readerVars
<1>3. ASSUME NEW d \in Drafts, Keep(d) PROVE FromShelf'
  BY <1>3, <1>t, <1>l DEF Keep, ReaderTypes, FromShelf, ownerVars, readerVars
<1>4. ASSUME NEW d \in Drafts, Post(d) PROVE FromShelf'
  BY <1>4, <1>t, <1>l DEF Post, ReaderTypes, FromShelf, ownerVars, readerVars
<1>5. CASE Open
  BY <1>5, <1>t, <1>l DEF Open, ReaderTypes, FromShelf, ownerVars, readerVars
<1>6. CASE Flush
  BY <1>6, <1>t, <1>l DEF Flush, ReaderTypes, FromShelf, ownerVars, readerVars
<1>7. CASE Break
  BY <1>7, <1>t, <1>l DEF Break, Fault, ReaderTypes, FromShelf, ownerVars, readerVars
<1>8. CASE OwnerKilled
  BY <1>8, <1>t, <1>l DEF OwnerKilled, Fault, ReaderTypes, FromShelf, ownerVars, readerVars
<1>9. CASE Shelve
  <2>1. UNCHANGED <<store, asked, saving>>
    BY <1>9 DEF Shelve, readerVars
  <2>2. \A k \in Held(shelf) : shelf'[k] = shelf[k] /\ k \in Held(shelf') /\ shelf'[k] # None
    BY <1>n, ShelfStays
  <2>3. \A r \in Readers : \A k \in Held(store[r]) : k \in Held(shelf)
    BY <1>t DEF FromShelf, Held
  <2>4. ASSUME NEW r \in Readers, NEW list \in saving[r], NEW i \in DOMAIN list PROVE list[i].seq \in Numbers
    <3>1. list \in Seq([seq : Numbers, post : Drafts])
      BY <1>t DEF ReaderTypes
    <3>2. list[i] \in [seq : Numbers, post : Drafts]
      BY <3>1, Item
    <3> QED
      BY <3>2
  <2>5. \A r \in Readers : \A list \in saving[r] : \A i \in DOMAIN list : list[i].seq \in Held(shelf)
    BY <1>t, <2>4 DEF FromShelf, Held
  <2>6. \A r \in Readers : \A k \in Held(store[r]) : shelf'[k] # None /\ store[r][k] = shelf'[k]
    BY <1>t, <2>2, <2>3 DEF FromShelf
  <2>7. \A r \in Readers : \A n \in asked[r] : n = 0 \/ n \in Held(shelf')
    BY <1>t, <2>2 DEF FromShelf
  <2>8. \A r \in Readers : \A list \in saving[r] : \A i \in DOMAIN list :
          shelf'[list[i].seq] # None /\ list[i].post = shelf'[list[i].seq]
    BY <1>t, <2>2, <2>5 DEF FromShelf
  <2> QED
    BY <2>1, <2>6, <2>7, <2>8 DEF FromShelf, Held
<1>10. ASSUME NEW r \in Readers, Subscribe(r) PROVE FromShelf'
  BY <1>10, <1>t, <1>l DEF Subscribe, Fetching, ReaderTypes, FromShelf, ownerVars, readerVars
<1>11. ASSUME NEW r \in Readers, Fetch(r) PROVE FromShelf'
  BY <1>11, <1>t, <1>l DEF Fetch, Fetching, ReaderTypes, FromShelf, ownerVars, readerVars
<1>12. ASSUME NEW r \in Readers, Delete(r) PROVE FromShelf'
  <2>1. /\ store' = [store EXCEPT ![r] = Empty] /\ UNCHANGED <<shelf, asked, saving>>
    BY <1>12 DEF Delete
  <2>2. Held(Empty) = {}
    BY DEF Held, Empty
  <2>3. \A q \in Readers : \A k \in Held(store'[q]) : shelf[k] # None /\ store'[q][k] = shelf[k]
    BY <1>t, <2>1, <2>2 DEF ReaderTypes, FromShelf
  <2> QED
    BY <1>t, <2>1, <2>3 DEF FromShelf, Held
<1>13. ASSUME NEW r \in Readers, ReaderKilled(r) PROVE FromShelf'
  BY <1>13, <1>t, <1>l DEF ReaderKilled, Fault, ReaderTypes, FromShelf, ownerVars, readerVars
<1>14. ASSUME NEW r \in Readers, NEW n \in asked[r], Serve(r, n) PROVE FromShelf'
  <2>1. Above(n) # {} => \A i \in DOMAIN Answer(n) :
          Answer(n)[i].seq \in Held(shelf) /\ Answer(n)[i].post = shelf[Answer(n)[i].seq]
    BY <1>t, AnswerFacts DEF RelayTypes, Above
  <2>2. UNCHANGED <<shelf, store>> /\ \A q \in Readers : asked'[q] \subseteq asked[q]
    BY <1>14, <1>t DEF Serve, ReaderTypes
  <2>3. \A q \in Readers : \A l \in saving'[q] : l \in saving[q] \/ (l = Answer(n) /\ Above(n) # {})
    BY <1>14, <1>t DEF Serve, ReaderTypes
  <2>4. \A q \in Readers : \A l \in saving'[q] : \A i \in DOMAIN l :
          shelf[l[i].seq] # None /\ l[i].post = shelf[l[i].seq]
    BY <1>t, <1>n, <2>1, <2>3 DEF FromShelf
  <2> QED
    BY <1>t, <2>2, <2>4 DEF FromShelf, Held
<1>15. ASSUME NEW r \in Readers, NEW n \in asked[r], RequestLost(r, n) PROVE FromShelf'
  BY <1>15, <1>t, <1>l DEF RequestLost, Fault, ReaderTypes, FromShelf, ownerVars, readerVars
<1>16. ASSUME NEW r \in Readers, NEW list \in saving[r], Save(r, list) PROVE FromShelf'
  <2> DEFINE k == list[1].seq
  <2>1. /\ store' = [store EXCEPT ![r] = Insert(store[r], Head(list).seq, Head(list).post)]
        /\ Handled(r, list) /\ UNCHANGED <<shelf, asked>>
    BY <1>16 DEF Save
  <2>2. /\ Head(list) = list[1] /\ 1 \in DOMAIN list /\ k \in Numbers /\ list[1].post \in Drafts
        /\ \A i \in DOMAIN Tail(list) : i + 1 \in DOMAIN list /\ Tail(list)[i] = list[i + 1]
        /\ \A q \in Readers : \A l \in saving'[q] : l \in saving[q] \/ (q = r /\ l = Tail(list))
    BY <1>t, <2>1, HandledFacts
  <2>3. shelf[k] # None /\ list[1].post = shelf[k] /\ store[r] \in Table
    BY <1>t, <2>2 DEF FromShelf, ReaderTypes
  <2>4. store'[r] = Insert(store[r], k, shelf[k]) /\ \A q \in Readers \ {r} : store'[q] = store[q]
    BY <1>t, <2>1, <2>2, <2>3 DEF ReaderTypes
  <2>5. /\ Held(store'[r]) = Held(store[r]) \cup {k}
        /\ \A j \in Held(store[r]) : store'[r][j] = store[r][j]
        /\ store[r][k] = None => store'[r][k] = shelf[k]
    BY <2>2, <2>3, <2>4, InsertFacts
  <2>6. k \notin Held(store[r]) => store[r][k] = None
    BY <2>2 DEF Held
  <2>7. \A j \in Held(store'[r]) : shelf[j] # None /\ store'[r][j] = shelf[j]
    BY <1>t, <2>3, <2>5, <2>6 DEF FromShelf
  <2>8. \A q \in Readers : \A j \in Held(store'[q]) : shelf[j] # None /\ store'[q][j] = shelf[j]
    BY <1>t, <2>4, <2>7 DEF FromShelf
  <2>9. \A q \in Readers : \A l \in saving'[q] : \A i \in DOMAIN l :
          shelf[l[i].seq] # None /\ l[i].post = shelf[l[i].seq]
    BY <1>t, <2>2 DEF FromShelf
  <2> QED
    BY <1>t, <2>1, <2>8, <2>9 DEF FromShelf, Held
<1>17. ASSUME NEW r \in Readers, NEW list \in saving[r], SaveFails(r, list) PROVE FromShelf'
  <2>1. Handled(r, list) /\ UNCHANGED <<shelf, store, asked>>
    BY <1>17 DEF SaveFails
  <2>2. /\ \A i \in DOMAIN Tail(list) : i + 1 \in DOMAIN list /\ Tail(list)[i] = list[i + 1]
        /\ \A q \in Readers : \A l \in saving'[q] : l \in saving[q] \/ (q = r /\ l = Tail(list))
    BY <1>t, <2>1, HandledFacts
  <2>3. \A i \in DOMAIN list : shelf[list[i].seq] # None /\ list[i].post = shelf[list[i].seq]
    BY <1>t DEF FromShelf
  <2>4. \A i \in DOMAIN Tail(list) :
          shelf[Tail(list)[i].seq] # None /\ Tail(list)[i].post = shelf[Tail(list)[i].seq]
    BY <2>2, <2>3
  <2>5. \A q \in Readers : \A l \in saving'[q] : \A i \in DOMAIN l :
          shelf[l[i].seq] # None /\ l[i].post = shelf[l[i].seq]
    BY <1>t, <2>2, <2>4 DEF FromShelf
  <2> QED
    BY <1>t, <2>1, <2>5 DEF FromShelf, Held
<1> QED
  BY <1>1, <1>2, <1>3, <1>4, <1>5, <1>6, <1>7, <1>8, <1>9, <1>10, <1>11, <1>12, <1>13, <1>14,
    <1>15, <1>16, <1>17 DEF Next

\* More questions from the cursor.
LEMMA FetchReach ==
  ASSUME Reachable, UNCHANGED <<shelf, store, saving, late, excused>>,
         \A q \in Readers : asked'[q] \subseteq asked[q] \cup {LastSeq(store[q])}
  PROVE  Reachable'
<1>1. ASSUME NEW q \in Readers, NEW k \in Missing(q)
      PROVE  /\ LastSeq(store[q]) < k /\ \A n \in asked'[q] : n < k
             /\ \A l \in saving[q] : \A i \in DOMAIN l :
                  k < l[i].seq => \E j \in 1..i-1 : l[j].seq = k
  BY DEF Reachable, InReach
<1> QED
  BY <1>1 DEF Reachable, InReach, Missing, Held

\* An answer without its first post, which is not missing any more.
LEMMA TailReach ==
  ASSUME ReaderTypes, Reachable, NEW r \in Readers, NEW list \in saving[r], Handled(r, list),
         NEW q \in Readers, NEW k \in Missing(q), q = r => k # list[1].seq
  PROVE  \A l \in saving'[q] : \A i \in DOMAIN l :
           k < l[i].seq => \E j \in 1..i-1 : l[j].seq = k
<1> SUFFICES ASSUME NEW l \in saving'[q], NEW i \in DOMAIN l, k < l[i].seq
             PROVE  \E j \in 1..i-1 : l[j].seq = k
  OBVIOUS
<1>1. CASE l \in saving[q]
  BY <1>1 DEF Reachable, InReach
<1>2. CASE l \notin saving[q]
  <2>1. /\ q = r /\ l = Tail(list) /\ i + 1 \in DOMAIN list /\ l[i] = list[i + 1]
        /\ \A j \in DOMAIN l : l[j] = list[j + 1]
        /\ list \in Seq([seq : Numbers, post : Drafts])
    BY <1>2, HandledFacts
  <2>2. i \in Nat /\ l \in Seq([seq : Numbers, post : Drafts]) /\ DOMAIN l = 1..Len(l)
    BY <2>1
  <2>3. PICK j \in 1..(i + 1) - 1 : list[j].seq = k
    BY <2>1 DEF Reachable, InReach
  <2>4. j # 1 /\ j \in 1..i
    BY <2>1, <2>2, <2>3
  <2>5. j - 1 \in 1..i-1 /\ j - 1 \in DOMAIN l /\ (j - 1) + 1 = j
    BY <2>2, <2>4
  <2>6. l[j - 1] = list[j]
    BY <2>1, <2>5
  <2> QED
    BY <2>3, <2>5, <2>6
<1> QED
  BY <1>1, <1>2

LEMMA ReachableStep ==
  ASSUME ChannelsInv, [Next]_vars
  PROVE  Reachable'
<1>t. RelayTypes /\ ReaderTypes /\ FromShelf /\ Reachable
  BY TypeParts DEF ChannelsInv
<1>s. Size \in Nat /\ Numbers = 1..Size
  BY SizeType
<1>l. \A r \in Readers : LastSeq(store[r]) \in 0..Size
  BY LastSeqFacts
<1>1. CASE UNCHANGED vars
  BY <1>1, <1>t, <1>l DEF Reachable, Missing, InReach, vars, ownerVars, readerVars
<1>2. ASSUME NEW d \in Drafts, Number(d) PROVE Reachable'
  BY <1>2, <1>t, <1>l DEF Number, Reachable, Missing, InReach, ownerVars, readerVars
<1>3. ASSUME NEW d \in Drafts, Keep(d) PROVE Reachable'
  BY <1>3, <1>t, <1>l DEF Keep, Reachable, Missing, InReach, ownerVars, readerVars
<1>4. ASSUME NEW d \in Drafts, Post(d) PROVE Reachable'
  BY <1>4, <1>t, <1>l DEF Post, Reachable, Missing, InReach, ownerVars, readerVars
<1>5. CASE Open
  BY <1>5, <1>t, <1>l DEF Open, Reachable, Missing, InReach, ownerVars, readerVars
<1>6. CASE Flush
  BY <1>6, <1>t, <1>l DEF Flush, Reachable, Missing, InReach, ownerVars, readerVars
<1>7. CASE Break
  BY <1>7, <1>t, <1>l DEF Break, Fault, Reachable, Missing, InReach, ownerVars, readerVars
<1>8. CASE OwnerKilled
  BY <1>8, <1>t, <1>l DEF OwnerKilled, Fault, Reachable, Missing, InReach, ownerVars, readerVars
<1>9. CASE Shelve
  <2>1. PICK d \in Drafts :
          /\ seq[d] \in Numbers /\ Held(shelf') = Held(shelf) \cup {seq[d]}
          /\ late' = IF shelf[seq[d]] = None /\ LastSeq(shelf) > seq[d]
                     THEN late \cup {seq[d]} ELSE late
    BY <1>9, ShelveFacts
  <2>2. UNCHANGED <<store, asked, saving, excused>>
    BY <1>9 DEF Shelve, readerVars
  <2>3. ASSUME NEW r \in Readers, seq[d] \notin Held(shelf), seq[d] \notin late'
        PROVE  InReach(r, seq[d])
    <3>1. shelf[seq[d]] = None
      BY <2>1, <2>3 DEF Held
    <3>2. LastSeq(shelf) <= seq[d] /\ LastSeq(shelf) \in 0..Size
      BY <1>s, <2>1, <2>3, <3>1, LastSeqFacts
    <3>3. \A k \in Held(shelf) : k <= LastSeq(shelf) /\ k \in Numbers
      BY LastSeqFacts DEF Held
    <3>4. \A k \in Held(shelf) : k < seq[d]
      BY <1>s, <2>1, <2>3, <3>2, <3>3
    <3>5. LastSeq(store[r]) = 0 \/ LastSeq(store[r]) \in Held(shelf)
      BY <1>t, LastSeqFacts DEF FromShelf, Held
    <3>6. LastSeq(store[r]) < seq[d]
      BY <1>s, <2>1, <3>4, <3>5
    <3>7. \A n \in asked[r] : n < seq[d]
      BY <1>s, <1>t, <2>1, <3>4 DEF FromShelf
    <3>8. ASSUME NEW list \in saving[r], NEW i \in DOMAIN list PROVE list[i].seq < seq[d]
      <4>1. list \in Seq([seq : Numbers, post : Drafts])
        BY <1>t DEF ReaderTypes
      <4>2. list[i] \in [seq : Numbers, post : Drafts]
        BY <4>1, Item
      <4>3. list[i].seq \in Held(shelf)
        BY <1>t, <4>2 DEF FromShelf, Held
      <4> QED
        BY <3>4, <4>3
    <3>9. ASSUME NEW list \in saving[r], NEW i \in DOMAIN list PROVE ~(seq[d] < list[i].seq)
      <4>1. list[i].seq < seq[d] /\ seq[d] \in Nat
        BY <1>s, <2>1, <3>8
      <4>2. list \in Seq([seq : Numbers, post : Drafts])
        BY <1>t DEF ReaderTypes
      <4>3. list[i] \in [seq : Numbers, post : Drafts]
        BY <4>2, Item
      <4>4. list[i].seq \in Nat
        BY <1>s, <4>3
      <4> QED
        BY <4>1, <4>4
    <3> QED
      BY <3>6, <3>7, <3>9 DEF InReach
  <2>4. ASSUME NEW r \in Readers,
               NEW k \in Held(shelf') \ (Held(store[r]) \cup late' \cup excused[r])
        PROVE  InReach(r, k)
    <3>1. late \subseteq late'
      BY <2>1
    <3>2. CASE k \in Held(shelf)
      BY <1>t, <3>1, <3>2 DEF Reachable, Missing
    <3>3. CASE k \notin Held(shelf)
      BY <2>1, <2>3, <3>3
    <3> QED
      BY <3>2, <3>3
  <2> QED
    BY <2>2, <2>4 DEF Reachable, Missing, InReach, Held
<1>10. ASSUME NEW r \in Readers, Subscribe(r) PROVE Reachable'
  <2>1. UNCHANGED <<shelf, store, saving, late, excused>>
    BY <1>10 DEF Subscribe
  <2>2. \A q \in Readers : asked'[q] \subseteq asked[q] \cup {LastSeq(store[q])}
    BY <1>10, <1>t DEF Subscribe, Fetching, ReaderTypes
  <2> QED
    BY <1>t, <2>1, <2>2, FetchReach
<1>11. ASSUME NEW r \in Readers, Fetch(r) PROVE Reachable'
  <2>1. UNCHANGED <<shelf, store, saving, late, excused>>
    BY <1>11 DEF Fetch
  <2>2. \A q \in Readers : asked'[q] \subseteq asked[q] \cup {LastSeq(store[q])}
    BY <1>11, <1>t DEF Fetch, Fetching, ReaderTypes
  <2> QED
    BY <1>t, <2>1, <2>2, FetchReach
<1>12. ASSUME NEW r \in Readers, Delete(r) PROVE Reachable'
  <2>1. /\ store' = [store EXCEPT ![r] = Empty]
        /\ excused' = [excused EXCEPT ![r] = IF asked[r] = {} /\ saving[r] = {} THEN excused[r] ELSE Numbers]
        /\ UNCHANGED <<shelf, asked, saving, late>>
    BY <1>12 DEF Delete
  <2>2. Held(Empty) = {} /\ LastSeq(Empty) = 0
    BY LastSeqFacts DEF Held, Empty
  <2>3. Held(shelf) \subseteq Numbers
    BY DEF Held
  <2>4. ASSUME NEW q \in Readers,
               NEW k \in Held(shelf) \ (Held(store'[q]) \cup late \cup excused'[q])
        PROVE  /\ LastSeq(store'[q]) < k /\ \A n \in asked[q] : n < k
               /\ \A l \in saving[q] : \A i \in DOMAIN l :
                    k < l[i].seq => \E j \in 1..i-1 : l[j].seq = k
    <3>1. CASE q = r
      <4>1. asked[r] = {} /\ saving[r] = {}
        BY <1>t, <2>1, <2>3, <2>4, <3>1 DEF ReaderTypes
      <4>2. store'[q] = Empty /\ k \in Nat /\ k # 0
        BY <1>s, <1>t, <2>1, <2>3, <3>1 DEF ReaderTypes
      <4> QED
        BY <2>2, <3>1, <4>1, <4>2
    <3>2. CASE q # r
      <4>1. store'[q] = store[q] /\ excused'[q] = excused[q]
        BY <1>t, <2>1, <3>2 DEF ReaderTypes
      <4> QED
        BY <1>t, <2>4, <4>1 DEF Reachable, Missing, InReach
    <3> QED
      BY <3>1, <3>2
  <2> QED
    BY <2>1, <2>4 DEF Reachable, InReach, Missing, Held
<1>13. ASSUME NEW r \in Readers, ReaderKilled(r) PROVE Reachable'
  <2>1. UNCHANGED <<shelf, store, late, excused>>
    BY <1>13 DEF ReaderKilled
  <2>2. \A q \in Readers : asked'[q] \subseteq asked[q] /\ saving'[q] \subseteq saving[q]
    BY <1>13, <1>t DEF ReaderKilled, ReaderTypes
  <2>3. ASSUME NEW q \in Readers, NEW k \in Missing(q)
        PROVE  /\ LastSeq(store[q]) < k /\ \A n \in asked'[q] : n < k
               /\ \A l \in saving'[q] : \A i \in DOMAIN l :
                    k < l[i].seq => \E j \in 1..i-1 : l[j].seq = k
    BY <1>t, <2>2 DEF Reachable, InReach
  <2> QED
    BY <2>1, <2>3 DEF Reachable, InReach, Missing, Held
<1>14. ASSUME NEW r \in Readers, NEW n \in asked[r], Serve(r, n) PROVE Reachable'
  <2>1. UNCHANGED <<shelf, store, late, excused>> /\ \A q \in Readers : asked'[q] \subseteq asked[q]
    BY <1>14, <1>t DEF Serve, ReaderTypes
  <2>2. \A q \in Readers : \A l \in saving'[q] :
          l \in saving[q] \/ (q = r /\ l = Answer(n) /\ Above(n) # {})
    BY <1>14, <1>t DEF Serve, ReaderTypes
  <2>3. ASSUME NEW k \in Missing(r), Above(n) # {}, NEW i \in DOMAIN Answer(n), k < Answer(n)[i].seq
        PROVE  \E j \in 1..i-1 : Answer(n)[j].seq = k
    <3>1. n < k /\ n \in 0..Size /\ k \in Numbers /\ k \in Held(shelf)
      BY <1>t DEF Reachable, InReach, ReaderTypes, Missing, Held
    <3>2. k \in Above(n)
      BY <1>s, <3>1 DEF Above
    <3> QED
      BY <1>t, <2>3, <3>2, AnswerFacts DEF RelayTypes
  <2>4. ASSUME NEW q \in Readers, NEW k \in Missing(q)
        PROVE  /\ LastSeq(store[q]) < k /\ \A a \in asked'[q] : a < k
               /\ \A l \in saving'[q] : \A i \in DOMAIN l :
                    k < l[i].seq => \E j \in 1..i-1 : l[j].seq = k
    BY <1>t, <2>1, <2>2, <2>3 DEF Reachable, InReach
  <2> QED
    BY <2>1, <2>4 DEF Reachable, InReach, Missing, Held
<1>15. ASSUME NEW r \in Readers, NEW n \in asked[r], RequestLost(r, n) PROVE Reachable'
  <2>1. UNCHANGED <<shelf, store, saving, late, excused>>
    BY <1>15 DEF RequestLost
  <2>2. \A q \in Readers : asked'[q] \subseteq asked[q] \cup {LastSeq(store[q])}
    BY <1>15, <1>t DEF RequestLost, ReaderTypes
  <2> QED
    BY <1>t, <2>1, <2>2, FetchReach
<1>16. ASSUME NEW r \in Readers, NEW list \in saving[r], Save(r, list) PROVE Reachable'
  <2> DEFINE p == list[1].seq
  <2>1. /\ store' = [store EXCEPT ![r] = Insert(store[r], Head(list).seq, Head(list).post)]
        /\ Handled(r, list) /\ UNCHANGED <<shelf, asked, late, excused>>
    BY <1>16 DEF Save
  <2>2. Head(list) = list[1] /\ 1 \in DOMAIN list /\ p \in Numbers /\ list[1].post \in Drafts
    BY <1>t, <2>1, HandledFacts
  <2>3. store'[r] = Insert(store[r], p, list[1].post) /\ \A q \in Readers \ {r} : store'[q] = store[q]
    BY <1>t, <2>1, <2>2 DEF ReaderTypes
  <2>4. /\ Held(store'[r]) = Held(store[r]) \cup {p}
        /\ LastSeq(store'[r]) = IF p > LastSeq(store[r]) THEN p ELSE LastSeq(store[r])
    BY <1>t, <2>2, <2>3, InsertFacts, InsertLast DEF ReaderTypes
  <2>5. ASSUME NEW q \in Readers,
               NEW k \in Held(shelf) \ (Held(store'[q]) \cup late \cup excused[q])
        PROVE  /\ k \in Missing(q) /\ LastSeq(store'[q]) < k
               /\ q = r => k # p
    <3>1. k \in Missing(q) /\ (q = r => k # p)
      BY <2>3, <2>4 DEF Missing
    <3>2. InReach(q, k) /\ k \in Nat
      BY <1>s, <1>t, <3>1 DEF Reachable, Missing, Held
    <3>3. CASE q = r
      <4>1. ~(k < p)
        <5>1. k < p => \E j \in 1..1-1 : list[j].seq = k
          BY <2>2, <3>2, <3>3 DEF InReach
        <5> QED
          BY <5>1
      <4>2. p < k
        BY <1>s, <2>2, <3>1, <3>2, <3>3, <4>1
      <4> QED
        BY <2>4, <3>1, <3>2, <3>3, <4>2 DEF InReach
    <3>4. CASE q # r
      BY <2>3, <3>1, <3>2, <3>4 DEF InReach
    <3> QED
      BY <3>3, <3>4
  <2>6. ASSUME NEW q \in Readers, NEW k \in Missing(q), q = r => k # p
        PROVE  \A l \in saving'[q] : \A i \in DOMAIN l :
                 k < l[i].seq => \E j \in 1..i-1 : l[j].seq = k
    BY <1>t, <2>1, <2>6, TailReach DEF Reachable, InReach
  <2>7. ASSUME NEW q \in Readers, NEW k \in Missing(q) PROVE \A n \in asked[q] : n < k
    BY <1>t DEF Reachable, InReach
  <2> QED
    BY <2>1, <2>5, <2>6, <2>7 DEF Reachable, InReach, Missing, Held
<1>17. ASSUME NEW r \in Readers, NEW list \in saving[r], SaveFails(r, list) PROVE Reachable'
  <2> DEFINE p == list[1].seq
  <2>1. /\ excused' = [excused EXCEPT ![r] = excused[r] \cup {Head(list).seq}]
        /\ Handled(r, list) /\ UNCHANGED <<shelf, store, asked, late>>
    BY <1>17 DEF SaveFails
  <2>2. Head(list) = list[1] /\ p \in Numbers
    BY <1>t, <2>1, HandledFacts
  <2>3. excused'[r] = excused[r] \cup {p} /\ \A q \in Readers \ {r} : excused'[q] = excused[q]
    BY <1>t, <2>1, <2>2 DEF ReaderTypes
  <2>5. ASSUME NEW q \in Readers,
               NEW k \in Held(shelf) \ (Held(store[q]) \cup late \cup excused'[q])
        PROVE  k \in Missing(q) /\ (q = r => k # p)
    BY <2>3 DEF Missing
  <2>6. ASSUME NEW q \in Readers, NEW k \in Missing(q), q = r => k # p
        PROVE  \A l \in saving'[q] : \A i \in DOMAIN l :
                 k < l[i].seq => \E j \in 1..i-1 : l[j].seq = k
    BY <1>t, <2>1, <2>6, TailReach DEF Reachable, InReach
  <2>7. ASSUME NEW q \in Readers, NEW k \in Missing(q)
        PROVE  LastSeq(store[q]) < k /\ \A n \in asked[q] : n < k
    BY <1>t DEF Reachable, InReach
  <2> QED
    BY <2>1, <2>5, <2>6, <2>7 DEF Reachable, InReach, Missing, Held
<1> QED
  BY <1>1, <1>2, <1>3, <1>4, <1>5, <1>6, <1>7, <1>8, <1>9, <1>10, <1>11, <1>12, <1>13, <1>14,
    <1>15, <1>16, <1>17 DEF Next

-----------------------------------------------------------------------------
(* The properties.                                                          *)

LEMMA InitInv == Init => ChannelsInv
<1> SUFFICES ASSUME Init PROVE ChannelsInv
  OBVIOUS
<1>1. Empty \in Table /\ Held(Empty) = {} /\ LastSeq(Empty) = 0
  BY LastSeqFacts DEF Empty, Table, Posts, Held
<1>2. Size \in Nat /\ MaxFaults \in Nat
  BY SizeType, ChannelsAssumption DEF ChannelsAssumption
<1>3. OwnerTypes /\ RelayTypes
  <2>1. draft \in [Drafts -> {"new", "numbered", "kept", "posted", "gone"}]
    BY DEF Init
  <2>2. seq \in [Drafts -> 0..Size] /\ \A d \in Drafts : draft[d] = "new"
    BY <1>2 DEF Init
  <2>3. own \in Table /\ shelf \in Table /\ online = FALSE /\ overlapped = {} /\ late = {}
    BY <1>1 DEF Init
  <2>4. faults \in 0..MaxFaults
    BY <1>2 DEF Init
  <2> QED
    BY <2>1, <2>2, <2>3, <2>4 DEF OwnerTypes, RelayTypes
<1>7. ReaderTypes
  BY <1>1, <1>2 DEF Init, ReaderTypes
<1>4. QueueTypes
  BY DEF Init, QueueTypes
<1>5. OwnTable /\ Shelved /\ Alone
  BY <1>1 DEF Init, OwnTable, Shelved, Alone
<1>6. FromShelf /\ Reachable
  BY <1>1 DEF Init, FromShelf, Reachable, Missing
<1> QED
  BY <1>3, <1>4, <1>5, <1>6, <1>7, TypeParts DEF ChannelsInv

\* One invariant of the owner, the relay and the readers.
THEOREM ChannelsInvariance == Spec => []ChannelsInv
<1>1. ChannelsInv /\ [Next]_vars => ChannelsInv'
  <2> SUFFICES ASSUME ChannelsInv, [Next]_vars PROVE ChannelsInv'
    OBVIOUS
  <2>1. TypeOK' /\ OwnTable' /\ Alone' /\ Shelved' /\ FromShelf' /\ Reachable'
    BY TypeStep, OwnTableStep, AloneStep, ShelvedStep, FromShelfStep, ReachableStep
  <2> QED
    BY <2>1 DEF ChannelsInv
<1> QED
  BY <1>1, InitInv, PTL DEF Spec

\* Every variable of the channel keeps its kind; the numbers never exceed the
\* drafts.
THEOREM ChannelsTypes == Spec => []TypeOK
<1>1. ChannelsInv => TypeOK
  BY DEF ChannelsInv
<1> QED
  BY <1>1, ChannelsInvariance, PTL

\* A number names the same post on the relay, at every reader and, unless
\* publications overlapped, at the owner (publishPost, INSERT OR IGNORE).
THEOREM OnePost == Spec => []OnePostPerNumber
<1>1. ASSUME ChannelsInv PROVE OnePostPerNumber
  <2>t. OwnerTypes /\ RelayTypes /\ ReaderTypes /\ Alone /\ Shelved /\ FromShelf
    BY <1>1, TypeParts DEF ChannelsInv
  <2> SUFFICES ASSUME NEW k \in Held(shelf)
               PROVE  /\ \A r \in Readers : store[r][k] \in {None, shelf[k]}
                      /\ own[k] # shelf[k] => shelf[k] \in overlapped
    BY DEF OnePostPerNumber
  <2>1. k \in Numbers /\ shelf[k] # None /\ shelf[k] \in Drafts
    BY <2>t DEF Held, RelayTypes, Table, Posts
  <2>2. \A r \in Readers : store[r][k] \in {None, shelf[k]}
    BY <2>t, <2>1 DEF FromShelf, Held
  <2>3. shelf[k] \notin overlapped => own[k] = shelf[k]
    BY <2>t, <2>1 DEF Alone, Shelved
  <2> QED
    BY <2>2, <2>3
<1> QED
  BY <1>1, ChannelsInvariance, PTL

\* The cursor MAX(seq) of a reader never passes a post, whatever requests and
\* answers overlap and however small an answer is (channel_fetch).
THEOREM CursorSkipsNothing == Spec => []NothingSkipped
<1>1. ASSUME ChannelsInv PROVE NothingSkipped
  BY <1>1 DEF ChannelsInv, Reachable, InReach, Missing, NothingSkipped
<1> QED
  BY <1>1, ChannelsInvariance, PTL
=============================================================================
