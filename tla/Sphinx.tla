------------------------------- MODULE Sphinx -------------------------------
(***************************************************************************)
(* The Sphinx packet format (core/sphinx), symbolically: packets built on  *)
(* a non-interactive key exchange (sphinx.go) or on a KEM (kemsphinx.go),  *)
(* what a hop makes of one, and single use reply blocks (surb.go).         *)
(*                                                                         *)
(* A secret stands for all the keys that KDF derives from it.  A public    *)
(* key and its private key are the same value.  Lengths and the padding    *)
(* that keeps them are left out, and so are the commands' encodings.       *)
(***************************************************************************)
EXTENDS Naturals, Sequences, SequencesExt

CONSTANT Nil        \* no next hop, no element, nothing left to route by

(* A path is a sequence of hops [id, key, cmds]; cmds is [delay, recipient, *)
(* surbID], each of them Nil unless the command is there.                  *)

-----------------------------------------------------------------------------
(* Key agreement. *)

(* The secret between the client whose key pair is r, blinded by the       *)
(* factors in blinds, and the owner of key.                                *)
DeriveSecret(key, element) == [element |-> element, key |-> key]

(* Decapsulating with another key yields a secret that nobody else has. *)
Decapsulate(key, ct) ==
    [element |-> ct, key |-> IF ct.key = key THEN key ELSE [wrong |-> key]]

(* The blinding factor is derived from the secret it is named by. *)
Blind(element, secret) == [element EXCEPT !.blinds = @ \cup {secret}]

sharedSecret(kem, key, element) ==
    IF kem THEN Decapsulate(key, element) ELSE DeriveSecret(key, element)

(* What the header holds for each hop: the client's public key, blinded    *)
(* with the factor of every hop before ...                                 *)
groupElements(r, path) ==
    LET e[i \in 1..Len(path)] ==
            IF i = 1 THEN [client |-> r, blinds |-> {}]
            ELSE Blind(e[i - 1], DeriveSecret(path[i - 1].key, e[i - 1]))
    IN [i \in 1..Len(path) |-> e[i]]

(* ... or an encapsulation of its own. *)
kemElements(r, path) == [i \in 1..Len(path) |-> [client |-> r, hop |-> i, key |-> path[i].key]]

elements(kem, r, path) == IF kem THEN kemElements(r, path) ELSE groupElements(r, path)

secrets(kem, r, path) ==
    LET e == elements(kem, r, path)
    IN [i \in 1..Len(path) |-> sharedSecret(kem, path[i].key, e[i])]

-----------------------------------------------------------------------------
(* The payload: what it holds, and the ciphers applied to it, the last one *)
(* first.  Encrypting and decrypting with one key undo each other.         *)

apply(op, undo, secret, b) ==
    [b EXCEPT !.layers = IF @ # <<>> /\ Head(@) = <<undo, secret>> THEN Tail(@)
                         ELSE <<<<op, secret>>>> \o @]

SPRPEncrypt(secret, b) == apply("enc", "dec", secret, b)

SPRPDecrypt(secret, b) == apply("dec", "enc", secret, b)

(* The payload behind its tag of zeros. *)
tagged(body) == [layers |-> <<>>, body |-> body]

isTagged(b) == b.layers = <<>>

-----------------------------------------------------------------------------
(* The header.  The routing information of a hop is encrypted to it and    *)
(* authenticated together with the element.                                *)

MAC(secret, element, routing) ==
    [secret |-> secret, element |-> element, routing |-> routing]

(* The hops' routing information from the last to the first, each with the *)
(* rest inside; inner[i] is what hop i has to pass on as the next element. *)
routingInfo(path, e, s, inner) ==
    LET n == Len(path)
        hdr[i \in 1..n] ==
            LET last == i = n
                routing == [cmds |-> path[i].cmds,
                            next |-> IF last THEN Nil ELSE path[i + 1].id,
                            mac |-> IF last THEN Nil ELSE hdr[i + 1].mac,
                            element |-> inner[i],
                            rest |-> IF last THEN Nil ELSE hdr[i + 1].routing]
            IN [element |-> e[i], routing |-> routing,
                mac |-> MAC(s[i], e[i], routing)]
    IN hdr[1]

createHeader(r, path) ==
    routingInfo(path, groupElements(r, path), secrets(FALSE, r, path),
                [i \in 1..Len(path) |-> Nil])

createKEMHeader(r, path) ==
    LET e == kemElements(r, path)
    IN routingInfo(path, e, secrets(TRUE, r, path),
                   [i \in 1..Len(path) |-> IF i = Len(path) THEN Nil ELSE e[i + 1]])

newHeader(kem, r, path) == IF kem THEN createKEMHeader(r, path) ELSE createHeader(r, path)

(* The payload encrypted for every hop, the first hop's cipher outermost. *)
newPayload(secs, body) == FoldRight(SPRPEncrypt, secs, tagged(body))

NewPacket(kem, r, path, body) ==
    [hdr |-> newHeader(kem, r, path), payload |-> newPayload(secrets(kem, r, path), body)]

(* The header authenticates under this key. *)
authentic(kem, key, pkt) ==
    pkt.hdr.mac = MAC(sharedSecret(kem, key, pkt.hdr.element), pkt.hdr.element, pkt.hdr.routing)

(* What unwrapping an authentic packet leaves: the packet for the next     *)
(* hop, with the element that the next hop finds in place of this one's.   *)
transformed(secret, element, pkt) ==
    [hdr |-> [element |-> element,
              routing |-> pkt.hdr.routing.rest,
              mac |-> pkt.hdr.routing.mac],
     payload |-> SPRPDecrypt(secret, pkt.payload)]

unwrapNike(key, pkt) ==
    LET secret == DeriveSecret(key, pkt.hdr.element)
    IN transformed(secret, Blind(pkt.hdr.element, secret), pkt)

unwrapKem(key, pkt) ==
    transformed(Decapsulate(key, pkt.hdr.element), pkt.hdr.routing.element, pkt)

unwrapped(kem, key, pkt) == IF kem THEN unwrapKem(key, pkt) ELSE unwrapNike(key, pkt)

(* The last hop accepts the payload: a reply's is checked by the client. *)
acceptsPayload(cmds, b) == cmds.surbID = Nil => isTagged(b)

-----------------------------------------------------------------------------
(* Single use reply blocks. *)

NewSURB(kem, r, path) ==
    [hdr |-> newHeader(kem, r, path), first |-> path[1].id, key |-> [payload |-> r]]

(* Fault: the keys are kept in the order of the path. *)
surbKeysInOrder(kem, r, path) == secrets(kem, r, path) \o <<[payload |-> r]>>

(* The client keeps the secrets in reverse order, then the payload's key. *)
surbKeys(kem, r, path) == Reverse(secrets(kem, r, path)) \o <<[payload |-> r]>>

NewPacketFromSURB(surb, body) ==
    [hdr |-> surb.hdr, payload |-> SPRPEncrypt(surb.key, tagged(body))]

(* Every hop has decrypted the payload; the client undoes that. *)
DecryptSURBPayload(b, keys) ==
    SPRPDecrypt(Last(keys),
                FoldLeft(LAMBDA p, k : SPRPEncrypt(k, p), b, Front(keys)))
=============================================================================
