----------------------------- MODULE MCHandshake ----------------------------
(* Finite instances of Handshake. *)
EXTENDS Handshake, TLC

CONSTANTS a, b, c, t1, t2, t3

PairFrom == (t1 :> a) @@ (t2 :> a)
PairTo   == (t1 :> b) @@ (t2 :> b)
BothFrom == PairFrom @@ (t3 :> b)
BothTo   == PairTo @@ (t3 :> a)
FanFrom  == (t1 :> a) @@ (t2 :> c)
FanTo    == (t1 :> b) @@ (t2 :> b)

\* The keys of a handshake, for two of each kind.
X3DH == INSTANCE KeyExchange WITH
  Identity <- {"ikA", "ikB"}, Signed <- {"spk", "spk'"}, Ephemeral <- {"ek", "ek'"},
  OneTime <- {"opk", "opk'"}, Texts <- {"text"}, None <- "none"
ASSUME X3DHKeepsItsPromises == X3DH!Disjoint /\ X3DH!Agreement /\ X3DH!OpensForItsOwn

\* The apps of the two devices were started before, or were not.
New == INSTANCE Handshake WITH Ready <- {}
MCSpec == (Init \/ New!Init) /\ [][Next]_vars

\* Two texts from a to b are explored to the full, from ready devices; with a
\* text from b to a, or with a device that connected before it had its keys,
\* one fault and one version of the keys.
Unsent == {t \in Texts : stage[t] = "new"}
Small == t2 \in Unsent /\ faults <= 1 /\ \A d \in Devices : version[d] <= 1
Equipped ==
  \A d \in Devices :
    /\ d \in identity /\ version[d] > 0
    /\ \A u \in upload[d] : u.full /\ (u.opks # {} \/ seen[d] # {})
    /\ d \in listed \/ published[d] = 0 \/ upload[d] # {} \/ faults > 0
Scope == (t3 \in Unsent /\ Equipped) \/ Small
=============================================================================
