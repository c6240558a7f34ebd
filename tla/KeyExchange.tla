---------------------------- MODULE KeyExchange ------------------------------
(***************************************************************************)
(* The key agreement of X3DH and the box a message travels in: KeyExchange  *)
(* and Cryptor of the C++ library, called through jni_bridge.  Pure         *)
(* functions, and the reason why module Handshake may let the number of a   *)
(* handshake and its one-time key stand for the session key.                *)
(*                                                                         *)
(* A key pair is a value, and its public part with it; a secret is the pair *)
(* of the two keys it was agreed with, whichever of the two was the private *)
(* one; what is derived or sealed is the term itself.  The primitives       *)
(* (ECDH on P-256, HKDF, AES-GCM) are assumed perfect: different terms are  *)
(* different bytes.  A function that throws has no result: its value is the *)
(* set of its results, empty or of one element.                             *)
(***************************************************************************)
CONSTANTS
  Identity,   \* IK_DH pairs
  Signed,     \* SPK pairs
  Ephemeral,  \* EK pairs, one made by each call of x3dh_initiator
  OneTime,    \* OPK pairs
  Texts,
  None        \* no one-time key: null, an empty vector

Pairs == Identity \cup Signed \cup Ephemeral \cup OneTime

\* Every pair is generated for one use.
Disjoint ==
  /\ Identity \cap Signed = {} /\ Identity \cap Ephemeral = {} /\ Signed \cap Ephemeral = {}
  /\ Ephemeral \cap OneTime = {} /\ None \notin Pairs

\* compute_raw_dh: the secret of one's own pair and the peer's public key.
RawDh(own, peer) == {own, peer}

\* parse_peer_p256: only a point of the curve is taken for a key.
Parses(peer) == peer \in Pairs

\* derive_x3dh_session_keys: IKM = F || DH1 || DH2 || DH3 || [DH4], in this
\* order, expanded under a label for either use.
DeriveSessionKeys(dh) ==
  [k_enc |-> <<"AES_GCM", dh>>, k_auth |-> <<"HMAC", dh>>]

x3dh_initiator(ik, ek, peer_ik, peer_spk, peer_opk) ==
  IF ~(Parses(peer_ik) /\ Parses(peer_spk) /\ (peer_opk # None => Parses(peer_opk))) THEN {}
  ELSE LET dh1 == RawDh(ik, peer_spk)
           dh2 == RawDh(ek, peer_ik)
           dh3 == RawDh(ek, peer_spk)
       IN {DeriveSessionKeys(IF peer_opk = None THEN <<dh1, dh2, dh3>>
                             ELSE <<dh1, dh2, dh3, RawDh(ek, peer_opk)>>)}

x3dh_responder(ik, spk, peer_ik, peer_ek, opk) ==
  IF ~(Parses(peer_ik) /\ Parses(peer_ek)) THEN {}
  ELSE LET dh1 == RawDh(spk, peer_ik)
           dh2 == RawDh(ik, peer_ek)
           dh3 == RawDh(spk, peer_ek)
       IN {DeriveSessionKeys(IF opk = None THEN <<dh1, dh2, dh3>>
                             ELSE <<dh1, dh2, dh3, RawDh(opk, peer_ek)>>)}

\* Cryptor: a message under a key, and its text for the one who has the key;
\* any other key fails the tag.
Encrypt(key, text) == [key |-> key, text |-> text]
Decrypt(key, box) == IF box.key = key THEN {box.text} ELSE {}

-----------------------------------------------------------------------------
(* What x3dh promises. *)

\* Both sides of a handshake derive the same keys, with and without a one-time
\* key, and neither throws (test_x3dh_symmetry.cpp shows it for one run).
Agreement ==
  \A ikA, ikB \in Identity, spk \in Signed, ek \in Ephemeral, opk \in OneTime \cup {None} :
    /\ x3dh_initiator(ikA, ek, ikB, spk, opk) # {}
    /\ x3dh_initiator(ikA, ek, ikB, spk, opk) = x3dh_responder(ikB, spk, ikA, ek, opk)

\* The first message of a handshake opens exactly for a responder that brings
\* together the identities of both, the signed key, the ephemeral key and the
\* one-time key of that handshake: with another one-time key, or with none where
\* one was used (deleted, or made anew under its id), the tag fails.
OpensForItsOwn ==
  \A ikA, ikB, ikA2, ikB2 \in Identity, spk, spk2 \in Signed, ek, ek2 \in Ephemeral,
     opk, opk2 \in OneTime \cup {None}, text \in Texts :
    \A k \in x3dh_initiator(ikA, ek, ikB, spk, opk), k2 \in x3dh_responder(ikB2, spk2, ikA2, ek2, opk2) :
      Decrypt(k2.k_enc, Encrypt(k.k_enc, text)) =
        IF <<ikA, ikB, spk, ek, opk>> = <<ikA2, ikB2, spk2, ek2, opk2>> THEN {text} ELSE {}
=============================================================================
