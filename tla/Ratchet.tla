------------------------------- MODULE Ratchet -------------------------------
(***************************************************************************)
(* The double ratchet (doubleratchet/ratchet.go) of two contacts over a    *)
(* network that reorders, duplicates and drops.  Keys are symbolic: a key  *)
(* pair is <<party, number>>, a Diffie-Hellman value is the set of the two *)
(* pairs, a root is the sequence of the values hashed into it, a header    *)
(* key is a label and a root, and the message key of number n in a chain   *)
(* is the chain's root and n (the chain key's position is the count kept   *)
(* beside it, with which the code moves it in lockstep).  Of the           *)
(* post-quantum key agreement, which goes the same way at every step, the  *)
(* model keeps nothing.                                                    *)
(***************************************************************************)
EXTENDS Integers, Sequences, FiniteSets

CONSTANTS
    Alice, Bob,             \* Alice is the one with the smaller public key
    Zero,                   \* a buffer of zeros
    MaxMissingMessages,
    MaxSent                 \* bound on the messages of a party, by party

Parties == {Alice, Bob}
Other(p) == CHOOSE q \in Parties : q # p

(* The values of the key schedule. *)
Keys       == (Parties \X Nat) \cup {Zero}
Roots      == Seq(SUBSET Keys)
HeaderKeys == ({"header", "nextHeader"} \X Roots) \cup {Zero}

ASSUME RatchetAssumption ==
    /\ Alice # Bob
    /\ Zero \notin Roots /\ Zero \notin {"header", "nextHeader"} \X Roots
    /\ MaxMissingMessages \in Nat
    /\ MaxSent \in [Parties -> Nat]

VARIABLES
    ratchet,        \* ratchet[p]: the Ratchet of p
    exchange,       \* the parties that created their key exchange
    sent,           \* the messages that were sent
    decrypted,      \* decrypted[m]: how often the peer decrypted m
    expired,        \* the message keys that marshal left out as too old
    broken          \* the parties whose root moved in a failed Decrypt

vars == <<ratchet, exchange, sent, decrypted, expired, broken>>

-----------------------------------------------------------------------------
(* The key schedule.                                                       *)

HeaderKey(root) == <<"header", root>>
NextHeaderKey(root) == <<"nextHeader", root>>

InitRatchet ==
    [kxPrivate |-> TRUE, rootKey |-> Zero,
     sendHeaderKey |-> Zero, recvHeaderKey |-> Zero,
     nextSendHeaderKey |-> Zero, nextRecvHeaderKey |-> Zero,
     sendChainKey |-> Zero, recvChainKey |-> Zero,
     sendRatchetPrivate |-> Zero, recvRatchetPublic |-> Zero,
     sendCount |-> 0, recvCount |-> 0, prevSendCount |-> 0,
     ratchet |-> FALSE, saved |-> {}, fresh |-> 2]

completeKeyExchange(p, r) ==
    LET root == << {<<p, 0>>, <<Other(p), 0>>} >>
        common == [r EXCEPT !.kxPrivate = FALSE, !.rootKey = root,
                            !.nextSendHeaderKey = NextHeaderKey(root),
                            !.nextRecvHeaderKey = NextHeaderKey(root)]
    IN  IF p = Alice
        THEN [common EXCEPT !.recvHeaderKey = HeaderKey(root),
                            !.recvChainKey = root,
                            !.recvRatchetPublic = <<Other(p), 1>>,
                            !.ratchet = TRUE]
        ELSE [common EXCEPT !.sendHeaderKey = HeaderKey(root),
                            !.sendChainKey = root,
                            !.sendRatchetPrivate = <<p, 1>>]

(* The first part of Encrypt: the sender's step of the DH ratchet.         *)
sendStep(p, r) ==
    LET root == Append(r.rootKey, {<<p, r.fresh>>, r.recvRatchetPublic})
    IN  [r EXCEPT !.sendRatchetPrivate = <<p, r.fresh>>, !.fresh = @ + 1,
                  !.sendHeaderKey = r.nextSendHeaderKey,
                  !.rootKey = root, !.nextSendHeaderKey = HeaderKey(root),
                  !.sendChainKey = root,
                  !.prevSendCount = r.sendCount, !.sendCount = 0,
                  !.ratchet = FALSE]

ratcheted(p) ==
    IF ratchet[p].ratchet THEN sendStep(p, ratchet[p]) ELSE ratchet[p]

sealed(p, r) ==
    [to |-> Other(p), headerKey |-> r.sendHeaderKey, num |-> r.sendCount,
     prev |-> r.prevSendCount, public |-> r.sendRatchetPrivate,
     key |-> <<r.sendChainKey, r.sendCount>>]

-----------------------------------------------------------------------------
(* Decrypt.  An outcome is the error and the ratchet that remains; there   *)
(* are several where the code ranges over the map of saved keys.           *)

Outcome(err, r) == [err |-> err, ratchet |-> r]

(* saveKeys: the entry for the keys skipped in a chain, none if there are  *)
(* none.                                                                   *)
skippedKeys(headerKey, chain, num, count) ==
    IF num = count THEN {}
    ELSE {[headerKey |-> headerKey, chain |-> chain, nums |-> count..num - 1]}

saveKeysErr(num, count) ==
    IF num < count THEN "duplicateOrDelayed"
    ELSE IF num - count > MaxMissingMessages THEN "reorderingLimit" ELSE "nil"

(* Fault: an entry of a header key replaces the one before it. *)
replaceSavedKeys(r, new) ==
    [r EXCEPT !.saved =
        {e \in @ : \A f \in new : f.headerKey # e.headerKey} \cup new]

(* mergeSavedKeys: r.saved is a map from pointers, so a header key that is *)
(* there already is not found and gets a second entry.                     *)
mergeSavedKeys(r, new) == [r EXCEPT !.saved = @ \cup new]

(* Fault: the used key is kept. *)
keptSaved(r, e, m) == r

(* The saved key of m in entry e is used up, and e with its last key.      *)
usedSaved(r, e, m) ==
    [r EXCEPT !.saved = (@ \ {e}) \cup
        {f \in {[e EXCEPT !.nums = @ \ {m.num}]} : f.nums # {}}]

inChain(r, m) ==
    LET err == saveKeysErr(m.num, r.recvCount)
    IN  IF err # "nil" THEN Outcome(err, r)
        ELSE IF m.key # <<r.recvChainKey, m.num>> THEN Outcome("corrupt", r)
        ELSE Outcome("nil", mergeSavedKeys(
                 [r EXCEPT !.recvCount = m.num + 1],
                 skippedKeys(r.recvHeaderKey, r.recvChainKey, m.num, r.recvCount)))

(* The receiver's step of the DH ratchet; the root key is derived in place *)
(* before the last two errors are known.                                   *)
recvStep(r, m) ==
    LET root == Append(r.rootKey, {r.sendRatchetPrivate, m.public})
        moved == [r EXCEPT !.rootKey = root]
        oldErr == saveKeysErr(m.prev, r.recvCount)
        newErr == saveKeysErr(m.num, 0)
    IN  IF r.ratchet THEN Outcome("noRatchetFlag", r)
        ELSE IF oldErr # "nil" THEN Outcome(oldErr, r)
        ELSE IF newErr # "nil" THEN Outcome(newErr, moved)
        ELSE IF m.key # <<root, m.num>> THEN Outcome("corrupt", moved)
        ELSE Outcome("nil", mergeSavedKeys(
                 [moved EXCEPT !.recvChainKey = root,
                               !.recvHeaderKey = r.nextRecvHeaderKey,
                               !.nextRecvHeaderKey = HeaderKey(root),
                               !.sendRatchetPrivate = Zero,
                               !.recvRatchetPublic = m.public,
                               !.recvCount = m.num + 1,
                               !.ratchet = TRUE],
                 skippedKeys(r.recvHeaderKey, r.recvChainKey, m.prev, r.recvCount)
                 \cup skippedKeys(r.nextRecvHeaderKey, root, m.num, 0)))

advance(r, m) ==
    IF r.recvHeaderKey = m.headerKey /\ r.recvHeaderKey # Zero THEN inChain(r, m)
    ELSE IF r.nextRecvHeaderKey = m.headerKey THEN recvStep(r, m)
    ELSE Outcome("cannotDecrypt", r)

(* trySavedKeys looks into the first entry whose header key opens the      *)
(* header, and into no other.                                              *)
DecryptWith(r, m) ==
    LET hits == {e \in r.saved : e.headerKey = m.headerKey}
        try(e) == IF m.num \notin e.nums THEN advance(r, m)
                  ELSE IF m.key # <<e.chain, m.num>> THEN Outcome("corrupt", r)
                  ELSE Outcome("nil", usedSaved(r, e, m))
    IN  IF hits = {} THEN {advance(r, m)} ELSE {try(e) : e \in hits}

-----------------------------------------------------------------------------
Init ==
    /\ ratchet = [p \in Parties |-> InitRatchet]
    /\ exchange = {} /\ sent = {} /\ expired = {} /\ broken = {}
    /\ decrypted = <<>>

CreateKeyExchange(p) ==
    /\ ratchet[p].kxPrivate
    /\ exchange' = exchange \cup {p}
    /\ UNCHANGED <<ratchet, sent, decrypted, expired, broken>>

ProcessKeyExchange(p) ==
    /\ Other(p) \in exchange /\ ratchet[p].kxPrivate
    /\ p \in exchange           \* the contact's exchange is created first
    /\ ratchet' = [ratchet EXCEPT ![p] = completeKeyExchange(p, @)]
    /\ UNCHANGED <<exchange, sent, decrypted, expired, broken>>

Encrypt(p) ==
    LET r == ratcheted(p)
        m == sealed(p, r)
    IN  /\ ~ratchet[p].kxPrivate
        /\ Cardinality({n \in sent : n.to = Other(p)}) < MaxSent[p]
        /\ ratchet' = [ratchet EXCEPT ![p] = [r EXCEPT !.sendCount = @ + 1]]
        /\ sent' = sent \cup {m}
        /\ decrypted' = [n \in sent' |-> IF n \in sent THEN decrypted[n] ELSE 0]
        /\ UNCHANGED <<exchange, expired, broken>>

(* The network delivers any message, at any time and again.                *)
Decrypt(p) ==
    /\ ~ratchet[p].kxPrivate
    /\ p \notin broken         \* bound: every further failure moves the root
    /\ \E m \in {n \in sent : n.to = p} : \E o \in DecryptWith(ratchet[p], m) :
        /\ ratchet' = [ratchet EXCEPT ![p] = o.ratchet]
        /\ decrypted' = [decrypted EXCEPT ![m] =
                            IF o.err = "nil" THEN @ + 1 ELSE @]
        /\ broken' = IF o.err # "nil" /\ o.ratchet # ratchet[p]
                     THEN broken \cup {p} ELSE broken
    /\ UNCHANGED <<exchange, sent, expired>>

(* The state that Save writes: marshal leaves out the keys of entries that *)
(* are too old, and keeps their header keys.                               *)
marshal(r, old) ==
    [state |-> r,
     savedKeys |-> (r.saved \ old) \cup {[e EXCEPT !.nums = {}] : e \in old}]

newRatchetFromState(s) == [s.state EXCEPT !.saved = s.savedKeys]

(* The client is restarted from the state it saved.                        *)
Reload(p) ==
    \E old \in SUBSET ratchet[p].saved :
        /\ ratchet' = [ratchet EXCEPT ![p] = newRatchetFromState(marshal(@, old))]
        /\ expired' = expired \cup
               UNION {{<<e.chain, n>> : n \in e.nums} : e \in old}
        /\ UNCHANGED <<exchange, sent, decrypted, broken>>

Next == \E p \in Parties :
            \/ CreateKeyExchange(p) \/ ProcessKeyExchange(p)
            \/ Encrypt(p) \/ Decrypt(p) \/ Reload(p)

Spec == Init /\ [][Next]_vars

-----------------------------------------------------------------------------
(* No message is decrypted twice, however often it is delivered, in        *)
(* whatever order, and across a Save: each key of Decrypt is used once.    *)
AtMostOnce == \A m \in sent : decrypted[m] <= 1

(* A message that was not decrypted can be, by some order of ranging over  *)
(* the saved keys, unless its key expired, it is too far ahead, or a       *)
(* failed Decrypt moved the root: skipped keys are kept for it across both *)
(* ratchets, and the ratchet flag never stands in its way.                 *)
NoneLost ==
    \A p \in Parties : \A m \in sent :
        (/\ m.to = p /\ decrypted[m] = 0 /\ ~ratchet[p].kxPrivate
         /\ p \notin broken /\ m.key \notin expired)
        => \E o \in DecryptWith(ratchet[p], m) :
               o.err \in {"nil", "reorderingLimit"}

=============================================================================
