------------------------------ MODULE Custody -------------------------------
(***************************************************************************)
(* What the transport promises, whatever sockets and frames do: an         *)
(* envelope is released by the party that holds it only after the next     *)
(* party has it.  The sender holds it until the relay has stored it, the   *)
(* relay until the recipient has it.  A party that cannot keep it (full    *)
(* map, dead process, TTL) forfeits it, and only then may it be lost.      *)
(***************************************************************************)
CONSTANT Msgs

VARIABLES
  atSender,     \* held in the sender's memory
  stored,       \* has been stored by the relay at some time
  atRelay,      \* stored there now
  atRecipient,  \* has reached the recipient's inbound lane
  forfeited     \* a holder gave it up before the next one confirmed

vars == <<atSender, stored, atRelay, atRecipient, forfeited>>

Init ==
  /\ atSender = {} /\ stored = {} /\ atRelay = {} /\ atRecipient = {}
  /\ forfeited = {}

\* A new envelope; a full map gives up others.
Submit(m, evicted) ==
  /\ m \notin atSender \cup stored \cup atRecipient
  /\ evicted \subseteq atSender
  /\ atSender' = (atSender \ evicted) \cup {m}
  /\ forfeited' = forfeited \cup evicted
  /\ UNCHANGED <<stored, atRelay, atRecipient>>

\* The relay stores a copy; a copy may also come after the sender let go.
Store(m) ==
  /\ m \in atSender \cup stored \cup forfeited
  /\ stored' = stored \cup {m}
  /\ atRelay' = atRelay \cup {m}
  /\ UNCHANGED <<atSender, atRecipient, forfeited>>

Confirm(m) ==
  /\ m \in stored
  /\ atSender' = atSender \ {m}
  /\ UNCHANGED <<stored, atRelay, atRecipient, forfeited>>

Hand(m) ==
  /\ m \in stored
  /\ atRecipient' = atRecipient \cup {m}
  /\ UNCHANGED <<atSender, stored, atRelay, forfeited>>

Release(m) ==
  /\ m \in atRelay /\ m \in atRecipient
  /\ atRelay' = atRelay \ {m}
  /\ UNCHANGED <<atSender, stored, atRecipient, forfeited>>

\* The sender's process dies with the envelopes given.
ForfeitAtSender(given) ==
  /\ given \subseteq atSender
  /\ atSender' = atSender \ given
  /\ forfeited' = forfeited \cup given
  /\ UNCHANGED <<stored, atRelay, atRecipient>>

\* The relay's copy expires; another copy of it may remain there.
ForfeitAtRelay(m) ==
  /\ m \in atRelay
  /\ atRelay' \in {atRelay, atRelay \ {m}}
  /\ forfeited' = forfeited \cup {m}
  /\ UNCHANGED <<atSender, stored, atRecipient>>

Next ==
  \/ \E m \in Msgs : \/ \E evicted \in SUBSET atSender : Submit(m, evicted)
                     \/ Store(m) \/ Confirm(m) \/ Hand(m) \/ Release(m)
                     \/ ForfeitAtRelay(m)
  \/ \E given \in SUBSET atSender : ForfeitAtSender(given)

Spec == Init /\ [][Next]_vars
=============================================================================
