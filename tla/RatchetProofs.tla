---------------------------- MODULE RatchetProofs ----------------------------
(***************************************************************************)
(* Proofs about the double ratchet, for any number of messages and any     *)
(* limit on the keys that are skipped.                                     *)
(***************************************************************************)
EXTENDS Ratchet, TLAPS

Chains == Roots \cup {Zero}

SavedKeys == [headerKey : HeaderKeys, chain : Chains, nums : SUBSET Nat]

Ratchets ==
    [kxPrivate : BOOLEAN, rootKey : Chains,
     sendHeaderKey : HeaderKeys, recvHeaderKey : HeaderKeys,
     nextSendHeaderKey : HeaderKeys, nextRecvHeaderKey : HeaderKeys,
     sendChainKey : Chains, recvChainKey : Chains,
     sendRatchetPrivate : Keys, recvRatchetPublic : Keys,
     sendCount : Nat, recvCount : Nat, prevSendCount : Nat,
     ratchet : BOOLEAN, saved : SUBSET SavedKeys, fresh : Nat]

Messages ==
    [to : Parties, headerKey : HeaderKeys, num : Nat, prev : Nat, public : Keys,
     key : Chains \X Nat]

(* The message key is the one of the number in the header. *)
TypeOK ==
    /\ ratchet \in [Parties -> Ratchets]
    /\ \A p \in Parties : /\ ratchet[p].kxPrivate = FALSE => ratchet[p].rootKey \in Roots
                          /\ ratchet[p].kxPrivate = TRUE => ratchet[p].rootKey = Zero
    /\ sent \subseteq Messages /\ \A m \in sent : m.key[2] = m.num
    /\ decrypted \in [sent -> Nat]

(* No chain that ratchet r will derive is ch: every step of the DH ratchet *)
(* makes the root longer.                                                  *)
past(r, ch) == ch = Zero \/ (r.rootKey \in Roots /\ Len(ch) <= Len(r.rootKey))

(* Decrypt would accept number n of chain ch. *)
usable(r, ch, n) ==
    \/ \E e \in r.saved : e.chain = ch /\ n \in e.nums
    \/ ch = r.recvChainKey /\ n >= r.recvCount

(* Each key is in one place: saved in one entry, or ahead in the chain. *)
KeysOnce(r) ==
    /\ past(r, r.recvChainKey)
    /\ \A e \in r.saved :
          /\ past(r, e.chain)
          /\ e.chain = r.recvChainKey => \A n \in e.nums : n < r.recvCount
    /\ \A e, f \in r.saved : e # f /\ e.chain = f.chain => e.nums \cap f.nums = {}

(* The key of a message that was decrypted is nowhere any more. *)
Spent(r, m) == past(r, m.key[1]) /\ ~usable(r, m.key[1], m.num)

IInv ==
    /\ TypeOK
    /\ \A p \in Parties : KeysOnce(ratchet[p])
    /\ \A m \in sent : decrypted[m] # 0 => decrypted[m] = 1 /\ Spent(ratchet[m.to], m)
-----------------------------------------------------------------------------
(* The other party is a party. *)
LEMMA OtherParty == \A p \in Parties : Other(p) \in Parties
<1> SUFFICES ASSUME NEW p \in Parties PROVE Other(p) \in Parties
  OBVIOUS
<1>1. \E q \in Parties : q # p
  BY RatchetAssumption DEF Parties
<1> QED
  BY <1>1 DEF Other

(* A root is extended by a Diffie-Hellman value to a longer one. *)
LEMMA LongerRoot ==
    ASSUME NEW root \in Roots, NEW k \in Keys, NEW l \in Keys
    PROVE  /\ Append(root, {k, l}) \in Roots /\ Len(Append(root, {k, l})) = Len(root) + 1
           /\ Len(root) \in Nat
<1>1. {k, l} \in SUBSET Keys
  OBVIOUS
<1> QED
  BY <1>1 DEF Roots

(* A root or a chain is a root's header key. *)
LEMMA HeaderKeyType ==
    ASSUME NEW root \in Roots
    PROVE  HeaderKey(root) \in HeaderKeys /\ NextHeaderKey(root) \in HeaderKeys
BY DEF HeaderKey, NextHeaderKey, HeaderKeys

(* The root of the key exchange is a root. *)
LEMMA FirstRoot ==
    ASSUME NEW p \in Parties
    PROVE  << {<<p, 0>>, <<Other(p), 0>>} >> \in Roots
<1>1. <<p, 0>> \in Keys /\ <<Other(p), 0>> \in Keys
  BY OtherParty DEF Keys
<1>2. \A k \in SUBSET Keys : <<k>> \in Seq(SUBSET Keys)
  OBVIOUS
<1> QED
  BY <1>1, <1>2, Zenon DEF Roots

(* completeKeyExchange and the sender's step keep the shape of a ratchet. *)
LEMMA ExchangeType ==
    ASSUME NEW p \in Parties, NEW r \in Ratchets
    PROVE  /\ completeKeyExchange(p, r) \in Ratchets
           /\ completeKeyExchange(p, r).rootKey \in Roots
<1> DEFINE root == << {<<p, 0>>, <<Other(p), 0>>} >>
<1>1. root \in Roots
  BY FirstRoot
<1>2. <<Other(p), 1>> \in Keys /\ <<p, 1>> \in Keys
  BY OtherParty DEF Keys
<1>3. HeaderKey(root) \in HeaderKeys /\ NextHeaderKey(root) \in HeaderKeys
  BY <1>1, HeaderKeyType
<1> HIDE DEF root
<1>4. /\ completeKeyExchange(p, r) \in Ratchets
      /\ completeKeyExchange(p, r).rootKey = root
  BY <1>1, <1>2, <1>3, ZenonT(60) DEF completeKeyExchange, root, Ratchets, Chains
<1> QED
  BY <1>1, <1>4

-----------------------------------------------------------------------------
(* Decrypt. *)

(* The keys that are skipped are the ones from the count to the number. *)
LEMMA Skipped ==
    ASSUME NEW h \in HeaderKeys, NEW ch \in Chains, NEW num \in Nat, NEW count \in Nat
    PROVE  /\ skippedKeys(h, ch, num, count) \subseteq SavedKeys
           /\ \A e \in skippedKeys(h, ch, num, count) :
                 e.chain = ch /\ \A n \in e.nums : n >= count /\ n < num
           /\ \A e, f \in skippedKeys(h, ch, num, count) : e = f
<1>1. count..num - 1 \in SUBSET Nat /\ \A n \in count..num - 1 : n >= count /\ n < num
  OBVIOUS
<1> DEFINE e == [headerKey |-> h, chain |-> ch, nums |-> count..num - 1]
<1>2. e \in SavedKeys /\ e.chain = ch /\ \A n \in e.nums : n >= count /\ n < num
  BY <1>1 DEF SavedKeys
<1>3. skippedKeys(h, ch, num, count) \subseteq {e}
  BY DEF skippedKeys
<1> HIDE DEF e
<1> QED
  BY <1>2, <1>3

(* Every key from the count to the number is there, in an entry of its     *)
(* header key and chain.                                                   *)
LEMMA SkippedAll ==
    ASSUME NEW h, NEW ch, NEW num \in Nat, NEW count \in Nat
    PROVE  /\ \A e \in skippedKeys(h, ch, num, count) : e.headerKey = h /\ e.chain = ch
           /\ \A n \in Nat : n >= count /\ n < num =>
                 \E e \in skippedKeys(h, ch, num, count) : n \in e.nums
<1> DEFINE e == [headerKey |-> h, chain |-> ch, nums |-> count..num - 1]
<1>1. \A f \in skippedKeys(h, ch, num, count) : f = e
  BY DEF skippedKeys
<1>2. num # count => e \in skippedKeys(h, ch, num, count)
  BY DEF skippedKeys
<1>3. e.headerKey = h /\ e.chain = ch /\ e.nums = count..num - 1
  OBVIOUS
<1> HIDE DEF e
<1>4. \A n \in Nat : n >= count /\ n < num => n \in e.nums /\ num # count
  BY <1>3
<1> QED
  BY <1>1, <1>2, <1>3, <1>4

(* What a step of Decrypt from r to s must do: keep every key in one place *)
(* and every key that was used up, used up.                                *)
Sound(r, s) ==
    /\ s \in Ratchets /\ s.rootKey \in Roots /\ s.kxPrivate = r.kxPrivate
    /\ KeysOnce(s)
    /\ \A m \in Messages : Spent(r, m) => Spent(s, m)

(* The root has moved, and nothing else. *)
LEMMA MovedRoot ==
    ASSUME NEW r \in Ratchets, r.rootKey \in Roots, KeysOnce(r), NEW root \in Roots,
           Len(root) > Len(r.rootKey)
    PROVE  Sound(r, [r EXCEPT !.rootKey = root])
<1> DEFINE s == [r EXCEPT !.rootKey = root]
<1>1. /\ s \in Ratchets /\ s.rootKey = root /\ s.kxPrivate = r.kxPrivate /\ s.saved = r.saved
      /\ s.recvChainKey = r.recvChainKey /\ s.recvCount = r.recvCount
  BY DEF Ratchets, Chains
<1> HIDE DEF s
<1>2. \A ch \in Chains : past(r, ch) => past(s, ch)
  BY <1>1 DEF past, Chains, Roots
<1>3. r.recvChainKey \in Chains /\ \A e \in r.saved : e.chain \in Chains
  BY DEF Ratchets, SavedKeys
<1>4. KeysOnce(s)
  BY <1>1, <1>2, <1>3 DEF KeysOnce
<1>5. \A m \in Messages : Spent(r, m) => Spent(s, m)
  BY <1>1, <1>2 DEF Spent, usable, Messages
<1> QED
  BY <1>1, <1>4, <1>5 DEF Sound, s

(* A saved key is used up. *)
LEMMA UsedSaved ==
    ASSUME NEW r \in Ratchets, r.rootKey \in Roots, KeysOnce(r), NEW m \in Messages,
           NEW e \in r.saved, m.num \in e.nums, e.chain = m.key[1]
    PROVE  /\ Sound(r, usedSaved(r, e, m))
           /\ Spent(usedSaved(r, e, m), m) /\ ~Spent(r, m)
<1> DEFINE s == usedSaved(r, e, m)
           f == [e EXCEPT !.nums = @ \ {m.num}]
<1>1. e \in SavedKeys /\ f \in SavedKeys /\ f.chain = e.chain /\ f.nums = e.nums \ {m.num}
  BY DEF Ratchets, SavedKeys
<1>2. /\ s \in Ratchets /\ s.rootKey = r.rootKey /\ s.kxPrivate = r.kxPrivate
      /\ s.recvChainKey = r.recvChainKey /\ s.recvCount = r.recvCount
      /\ s.saved \subseteq (r.saved \ {e}) \cup {f}
  <2> DEFINE new == (r.saved \ {e}) \cup {g \in {f} : g.nums # {}}
  <2>1. s = [r EXCEPT !.saved = new]
    BY DEF usedSaved
  <2>2. new \subseteq SavedKeys /\ new \subseteq (r.saved \ {e}) \cup {f}
    BY <1>1 DEF Ratchets
  <2> HIDE DEF new, s
  <2> QED
    BY <2>1, <2>2 DEF Ratchets
<1> HIDE DEF s, f
<1>3. \A ch \in Chains : past(r, ch) => past(s, ch)
  BY <1>2 DEF past
<1>4. KeysOnce(s)
  <2>1. /\ past(s, s.recvChainKey)
        /\ \A g \in s.saved :
              /\ past(s, g.chain)
              /\ g.chain = s.recvChainKey => \A n \in g.nums : n < s.recvCount
    BY <1>1, <1>2 DEF KeysOnce, past
  <2>2. \A g, h \in s.saved : g # h /\ g.chain = h.chain => g.nums \cap h.nums = {}
    BY <1>1, <1>2 DEF KeysOnce
  <2> QED
    BY <2>1, <2>2 DEF KeysOnce
<1>5. \A k \in Messages : Spent(r, k) => Spent(s, k)
  BY <1>1, <1>2, <1>3 DEF Spent, usable, Messages
<1>6. Spent(s, m) /\ ~Spent(r, m)
  <2>1. past(s, m.key[1]) /\ usable(r, m.key[1], m.num)
    BY <1>2 DEF KeysOnce, past, usable
  <2>2. m.num \in Nat /\ r.recvCount \in Nat
    BY DEF Messages, Ratchets
  <2>3. ~usable(s, m.key[1], m.num)
    BY <1>1, <1>2, <2>2 DEF KeysOnce, usable
  <2> QED
    BY <2>1, <2>3 DEF Spent
<1> QED
  BY <1>2, <1>4, <1>5, <1>6 DEF Sound, s

(* The sending sides of r and s are the same, up to the key pair. *)
SendSide(r, s) ==
    /\ s.sendChainKey = r.sendChainKey /\ s.sendHeaderKey = r.sendHeaderKey
    /\ s.nextSendHeaderKey = r.nextSendHeaderKey
    /\ s.sendCount = r.sendCount /\ s.prevSendCount = r.prevSendCount

(* So are the chains and keys that r and s receive with. *)
RecvSide(r, s) ==
    /\ s.recvChainKey = r.recvChainKey /\ s.recvHeaderKey = r.recvHeaderKey
    /\ s.nextRecvHeaderKey = r.nextRecvHeaderKey

(* No step of the DH ratchet lies between r and s. *)
SameLink(r, s) ==
    /\ SendSide(r, s) /\ RecvSide(r, s) /\ s.ratchet = r.ratchet
    /\ s.sendRatchetPrivate = r.sendRatchetPrivate
    /\ s.recvRatchetPublic = r.recvRatchetPublic

(* Saved keys are merged into a ratchet, which keeps its other fields. *)
LEMMA Merged ==
    ASSUME NEW r \in Ratchets, NEW new \in SUBSET SavedKeys
    PROVE  LET s == mergeSavedKeys(r, new)
           IN  /\ s \in Ratchets /\ s.saved = r.saved \cup new
               /\ s.rootKey = r.rootKey /\ s.kxPrivate = r.kxPrivate
               /\ s.recvCount = r.recvCount /\ SameLink(r, s)
<1>1. r.saved \cup new \in SUBSET SavedKeys
  BY DEF Ratchets
<1> DEFINE both == r.saved \cup new
<1>2. mergeSavedKeys(r, new) = [r EXCEPT !.saved = both]
  BY DEF mergeSavedKeys
<1> HIDE DEF both
<1>3. both \in SUBSET SavedKeys
  BY <1>1 DEF both
<1>4. SameLink(r, [r EXCEPT !.saved = both])
  BY DEF Ratchets, SameLink, SendSide, RecvSide
<1> QED
  BY <1>2, <1>3, <1>4 DEF Ratchets, both

(* The ratchet after a message of the current chain is decrypted, and      *)
(* after the receiver's step of the DH ratchet.                            *)
readOn(r, m) ==
    mergeSavedKeys([r EXCEPT !.recvCount = m.num + 1],
                   skippedKeys(r.recvHeaderKey, r.recvChainKey, m.num, r.recvCount))

received(r, m) == Append(r.rootKey, {r.sendRatchetPrivate, m.public})

stepped(r, m) ==
    LET root == received(r, m)
        moved == [r EXCEPT !.rootKey = root]
    IN  mergeSavedKeys([moved EXCEPT !.recvChainKey = root,
                                     !.recvHeaderKey = r.nextRecvHeaderKey,
                                     !.nextRecvHeaderKey = HeaderKey(root),
                                     !.sendRatchetPrivate = Zero,
                                     !.recvRatchetPublic = m.public,
                                     !.recvCount = m.num + 1,
                                     !.ratchet = TRUE],
                       skippedKeys(r.recvHeaderKey, r.recvChainKey, m.prev, r.recvCount)
                       \cup skippedKeys(r.nextRecvHeaderKey, root, m.num, 0))

(* The outcomes of a message whose header the current header key opens. *)
LEMMA InChainCases ==
    ASSUME NEW r \in Ratchets, NEW m \in Messages
    PROVE  LET o == inChain(r, m)
           IN  \/ o.err # "nil" /\ o.ratchet = r
               \/ /\ o.err = "nil" /\ o.ratchet = readOn(r, m)
                  /\ m.num >= r.recvCount /\ m.key[1] = r.recvChainKey
<1> DEFINE o == inChain(r, m)
           s == readOn(r, m)
<1>1. m.num \in Nat /\ r.recvCount \in Nat
  BY DEF Messages, Ratchets
<1>2. m.key = <<r.recvChainKey, m.num>> => m.key[1] = r.recvChainKey
  OBVIOUS
<1>3. saveKeysErr(m.num, r.recvCount) = "nil" => m.num >= r.recvCount
  BY <1>1 DEF saveKeysErr
<1> HIDE DEF s
<1>4. \/ o = Outcome("nil", s) /\ saveKeysErr(m.num, r.recvCount) = "nil"
         /\ m.key = <<r.recvChainKey, m.num>>
      \/ \E err : err # "nil" /\ o = Outcome(err, r)
  BY DEF inChain, s, readOn
<1> QED
  BY <1>2, <1>3, <1>4 DEF Outcome, s

(* A message of the current chain moves the count and saves what it skips. *)
LEMMA ReadOnFields ==
    ASSUME NEW r \in Ratchets, NEW m \in Messages
    PROVE  LET s == readOn(r, m)
           IN  /\ s \in Ratchets /\ s.rootKey = r.rootKey /\ s.kxPrivate = r.kxPrivate
               /\ s.recvCount = m.num + 1 /\ SameLink(r, s)
               /\ s.saved = r.saved
                            \cup skippedKeys(r.recvHeaderKey, r.recvChainKey, m.num, r.recvCount)
<1> DEFINE new == skippedKeys(r.recvHeaderKey, r.recvChainKey, m.num, r.recvCount)
           q == [r EXCEPT !.recvCount = m.num + 1]
<1>1. /\ m.num \in Nat /\ r.recvCount \in Nat
      /\ r.recvChainKey \in Chains /\ r.recvHeaderKey \in HeaderKeys
  BY DEF Messages, Ratchets
<1>2. new \in SUBSET SavedKeys
  BY <1>1, Skipped
<1>3. /\ q \in Ratchets /\ q.rootKey = r.rootKey /\ q.kxPrivate = r.kxPrivate
      /\ q.recvCount = m.num + 1 /\ q.saved = r.saved
  BY <1>1 DEF Ratchets
<1>4. SameLink(r, q)
  BY DEF Ratchets, SameLink, SendSide, RecvSide
<1>5. readOn(r, m) = mergeSavedKeys(q, new)
  BY DEF readOn
<1> HIDE DEF new, q
<1>6. SameLink(q, readOn(r, m))
  BY <1>2, <1>3, <1>5, Merged
<1>7. SameLink(r, readOn(r, m))
  BY <1>4, <1>6, Zenon DEF SameLink, SendSide, RecvSide
<1> QED
  BY <1>2, <1>3, <1>5, <1>7, Merged DEF new

(* A message of the current chain, at or after the count. *)
LEMMA InChain ==
    ASSUME NEW r \in Ratchets, r.rootKey \in Roots, KeysOnce(r), NEW m \in Messages,
           m.key[2] = m.num
    PROVE  LET o == inChain(r, m)
           IN  /\ Sound(r, o.ratchet)
               /\ o.err = "nil" => Spent(o.ratchet, m) /\ ~Spent(r, m)
<1> DEFINE o == inChain(r, m)
           new == skippedKeys(r.recvHeaderKey, r.recvChainKey, m.num, r.recvCount)
           s == readOn(r, m)
<1>1. Sound(r, r)
  BY DEF Sound
<1>2. /\ m.num \in Nat /\ r.recvCount \in Nat
      /\ r.recvChainKey \in Chains /\ r.recvHeaderKey \in HeaderKeys
  BY DEF Messages, Ratchets
<1>3. \/ o.err # "nil" /\ o.ratchet = r
      \/ /\ o.err = "nil" /\ o.ratchet = s
         /\ m.num >= r.recvCount /\ m.key[1] = r.recvChainKey
  BY InChainCases
<1>4. /\ new \subseteq SavedKeys
      /\ \A e \in new :
            e.chain = r.recvChainKey /\ \A n \in e.nums : n >= r.recvCount /\ n < m.num
      /\ \A e, f \in new : e = f
  BY <1>2, Skipped
<1> HIDE DEF new, o
<1>5. /\ s \in Ratchets /\ s.rootKey = r.rootKey /\ s.kxPrivate = r.kxPrivate
      /\ s.recvChainKey = r.recvChainKey /\ s.recvCount = m.num + 1
      /\ s.saved = r.saved \cup new
  BY ReadOnFields, Zenon DEF SameLink, RecvSide, new
<1> HIDE DEF s
<1>6. ASSUME m.num >= r.recvCount, m.key[1] = r.recvChainKey
      PROVE  Sound(r, s) /\ Spent(s, m) /\ ~Spent(r, m)
  <2>1. \A e \in r.saved : e.nums \subseteq Nat
    BY DEF Ratchets, SavedKeys
  <2>2. \A ch : past(r, ch) => past(s, ch)
    BY <1>5 DEF past
  <2>3. \A e \in s.saved :
           /\ past(s, e.chain)
           /\ e.chain = s.recvChainKey => \A n \in e.nums : n < s.recvCount
    <3>1. ASSUME NEW e \in r.saved
          PROVE  past(s, e.chain) /\ (e.chain = s.recvChainKey => \A n \in e.nums : n < s.recvCount)
      BY <1>2, <1>5, <1>6, <2>1, <2>2 DEF KeysOnce
    <3>2. ASSUME NEW e \in new
          PROVE  past(s, e.chain) /\ \A n \in e.nums : n < s.recvCount
      <4>1. e.nums \subseteq Nat
        BY <1>4 DEF SavedKeys
      <4> QED
        BY <1>2, <1>4, <1>5, <2>2, <4>1 DEF KeysOnce
    <3> QED
      BY <1>5, <3>1, <3>2
  <2>4. \A e, f \in s.saved : e # f /\ e.chain = f.chain => e.nums \cap f.nums = {}
    BY <1>2, <1>4, <1>5, <2>1 DEF KeysOnce
  <2>5. KeysOnce(s)
    BY <1>5, <2>2, <2>3, <2>4 DEF KeysOnce
  <2>6. ASSUME NEW k \in Messages, Spent(r, k) PROVE Spent(s, k)
    <3>1. k.num \in Nat
      BY DEF Messages
    <3> QED
      BY <1>2, <1>4, <1>5, <1>6, <2>2, <2>6, <3>1 DEF Spent, usable
  <2>7. past(s, m.key[1])
    BY <1>6, <2>2 DEF KeysOnce
  <2>8. ~usable(s, m.key[1], m.num)
    BY <1>2, <1>4, <1>5, <1>6, <2>1 DEF usable, KeysOnce
  <2>9. usable(r, m.key[1], m.num)
    BY <1>6 DEF usable
  <2> QED
    BY <1>5, <2>5, <2>6, <2>7, <2>8, <2>9 DEF Sound, Spent
<1> QED
  BY <1>1, <1>3, <1>6 DEF o

(* The outcomes of a message whose header the next header key opens. *)
LEMMA RecvStepCases ==
    ASSUME NEW r \in Ratchets, NEW m \in Messages
    PROVE  LET o == recvStep(r, m)
           IN  \/ o.err # "nil" /\ o.ratchet = r
               \/ /\ o.err # "nil" /\ r.ratchet = FALSE
                  /\ o.ratchet = [r EXCEPT !.rootKey = received(r, m)]
               \/ /\ o.err = "nil" /\ o.ratchet = stepped(r, m) /\ r.ratchet = FALSE
                  /\ m.key[1] = received(r, m) /\ m.prev >= r.recvCount
<1> DEFINE o == recvStep(r, m)
           root == received(r, m)
           moved == [r EXCEPT !.rootKey = root]
           s == stepped(r, m)
<1>1. m.prev \in Nat /\ r.recvCount \in Nat
  BY DEF Messages, Ratchets
<1>2. m.key = <<root, m.num>> => m.key[1] = root
  OBVIOUS
<1>3. saveKeysErr(m.prev, r.recvCount) = "nil" => m.prev >= r.recvCount
  BY <1>1 DEF saveKeysErr
<1> HIDE DEF s
<1> DEFINE oldErr == saveKeysErr(m.prev, r.recvCount)
           newErr == saveKeysErr(m.num, 0)
           corrupt == m.key # <<root, m.num>>
<1>4. o = IF r.ratchet THEN Outcome("noRatchetFlag", r)
          ELSE IF oldErr # "nil" THEN Outcome(oldErr, r)
          ELSE IF newErr # "nil" THEN Outcome(newErr, moved)
          ELSE IF corrupt THEN Outcome("corrupt", moved)
          ELSE Outcome("nil", s)
  BY DEF recvStep, s, stepped, received
<1>5. r.ratchet \in BOOLEAN
  BY DEF Ratchets
<1> HIDE DEF o, oldErr, newErr, corrupt, moved
<1>6. CASE r.ratchet \/ oldErr # "nil" \/ newErr # "nil" \/ corrupt
  <2>1. \/ o = Outcome("noRatchetFlag", r)
        \/ o = Outcome("corrupt", moved) /\ r.ratchet = FALSE
        \/ oldErr # "nil" /\ o = Outcome(oldErr, r)
        \/ newErr # "nil" /\ o = Outcome(newErr, moved) /\ r.ratchet = FALSE
    BY <1>4, <1>5, <1>6
  <2>2. \/ o.err # "nil" /\ o.ratchet = r
        \/ o.err # "nil" /\ r.ratchet = FALSE /\ o.ratchet = moved
    BY <2>1 DEF Outcome
  <2> QED
    BY <2>2, Zenon DEF o, moved
<1>7. CASE ~(r.ratchet \/ oldErr # "nil" \/ newErr # "nil" \/ corrupt)
  <2>1. o = Outcome("nil", s) /\ oldErr = "nil" /\ ~corrupt /\ r.ratchet = FALSE
    BY <1>4, <1>5, <1>7
  <2>2. /\ o.err = "nil" /\ o.ratchet = s /\ r.ratchet = FALSE
        /\ m.key[1] = root /\ m.prev >= r.recvCount
    BY <1>2, <1>3, <2>1 DEF Outcome, oldErr, corrupt
  <2> QED
    BY <2>2, Zenon DEF o, s
<1> QED
  BY <1>6, <1>7, Zenon

(* The receiver's step moves to the chain of the new root, and saves what  *)
(* it skips in both chains.                                                *)
LEMMA SteppedFields ==
    ASSUME NEW r \in Ratchets, r.rootKey \in Roots, NEW m \in Messages
    PROVE  LET s == stepped(r, m)
               root == received(r, m)
           IN  /\ root \in Roots /\ Len(root) = Len(r.rootKey) + 1 /\ Len(r.rootKey) \in Nat
               /\ s \in Ratchets /\ s.rootKey = root /\ s.kxPrivate = r.kxPrivate
               /\ s.recvChainKey = root /\ s.recvHeaderKey = r.nextRecvHeaderKey
               /\ s.nextRecvHeaderKey = HeaderKey(root) /\ s.recvRatchetPublic = m.public
               /\ s.recvCount = m.num + 1 /\ s.ratchet = TRUE /\ SendSide(r, s)
               /\ s.saved = r.saved
                     \cup skippedKeys(r.recvHeaderKey, r.recvChainKey, m.prev, r.recvCount)
                     \cup skippedKeys(r.nextRecvHeaderKey, root, m.num, 0)
<1> DEFINE root == received(r, m)
           n == m.num + 1
           sk == skippedKeys(r.recvHeaderKey, r.recvChainKey, m.prev, r.recvCount)
           sn == skippedKeys(r.nextRecvHeaderKey, root, m.num, 0)
           a == [r EXCEPT !.rootKey = root]
           b == [a EXCEPT !.recvChainKey = root, !.recvHeaderKey = r.nextRecvHeaderKey,
                          !.nextRecvHeaderKey = HeaderKey(root)]
           c == [b EXCEPT !.sendRatchetPrivate = Zero, !.recvRatchetPublic = m.public]
           d == [c EXCEPT !.recvCount = n, !.ratchet = TRUE]
           s == stepped(r, m)
<1>1. /\ m.num \in Nat /\ m.prev \in Nat /\ m.public \in Keys /\ r.recvCount \in Nat
      /\ r.recvChainKey \in Chains /\ r.recvHeaderKey \in HeaderKeys
      /\ r.nextRecvHeaderKey \in HeaderKeys /\ r.sendRatchetPrivate \in Keys
      /\ Zero \in Keys /\ n \in Nat
  BY DEF Messages, Ratchets, Keys
<1>2. root \in Roots /\ Len(root) = Len(r.rootKey) + 1 /\ Len(r.rootKey) \in Nat
  BY <1>1, LongerRoot DEF received
<1>3. HeaderKey(root) \in HeaderKeys /\ root \in Chains
  BY <1>2, HeaderKeyType, Zenon DEF Chains
<1>4. sk \cup sn \in SUBSET SavedKeys
  BY <1>1, <1>3, Skipped
<1>5. s = mergeSavedKeys(d, sk \cup sn)
  BY Zenon DEF stepped
<1> HIDE DEF root, sk, sn, n, s
<1>6. /\ a \in Ratchets /\ a.rootKey = root /\ a.kxPrivate = r.kxPrivate /\ a.saved = r.saved
      /\ SendSide(r, a)
  BY <1>3, Zenon DEF Ratchets, SendSide
<1> HIDE DEF a
<1>7. /\ b \in Ratchets /\ b.rootKey = a.rootKey /\ b.kxPrivate = a.kxPrivate /\ b.saved = a.saved
      /\ b.recvChainKey = root /\ b.recvHeaderKey = r.nextRecvHeaderKey
      /\ b.nextRecvHeaderKey = HeaderKey(root) /\ SendSide(a, b)
  BY <1>1, <1>3, <1>6, Zenon DEF Ratchets, SendSide
<1> HIDE DEF b
<1>8. /\ c \in Ratchets /\ c.rootKey = b.rootKey /\ c.kxPrivate = b.kxPrivate /\ c.saved = b.saved
      /\ RecvSide(b, c) /\ c.recvRatchetPublic = m.public /\ SendSide(b, c)
  BY <1>1, <1>7, Zenon DEF Ratchets, SendSide, RecvSide
<1> HIDE DEF c
<1>9. /\ d \in Ratchets /\ d.rootKey = c.rootKey /\ d.kxPrivate = c.kxPrivate /\ d.saved = c.saved
      /\ RecvSide(c, d) /\ d.recvRatchetPublic = c.recvRatchetPublic /\ SendSide(c, d)
      /\ d.recvCount = n /\ d.ratchet = TRUE
  BY <1>1, <1>8, Zenon DEF Ratchets, SendSide, RecvSide
<1> HIDE DEF d
<1>10. /\ s \in Ratchets /\ s.rootKey = d.rootKey /\ s.kxPrivate = d.kxPrivate
       /\ s.recvCount = d.recvCount /\ SameLink(d, s) /\ s.saved = d.saved \cup sk \cup sn
  BY <1>4, <1>5, <1>9, Merged
<1>11. SendSide(r, s)
  BY <1>6, <1>7, <1>8, <1>9, <1>10, ZenonT(60) DEF SameLink, SendSide
<1>12. /\ s.recvChainKey = root /\ s.recvHeaderKey = r.nextRecvHeaderKey
       /\ s.nextRecvHeaderKey = HeaderKey(root) /\ s.recvRatchetPublic = m.public
       /\ s.ratchet = TRUE
  BY <1>7, <1>8, <1>9, <1>10, Zenon DEF SameLink, RecvSide
<1>13. s.saved = r.saved \cup sk \cup sn
  BY <1>6, <1>7, <1>8, <1>9, <1>10, Zenon
<1> QED
  BY <1>2, <1>6, <1>7, <1>8, <1>9, <1>10, <1>11, <1>12, <1>13, Zenon DEF root, sk, sn, s, n

(* The receiver's step of the DH ratchet: the chain of the new root has    *)
(* never been seen.                                                        *)
LEMMA RecvStep ==
    ASSUME NEW r \in Ratchets, r.rootKey \in Roots, KeysOnce(r), NEW m \in Messages,
           m.key[2] = m.num
    PROVE  LET o == recvStep(r, m)
           IN  /\ Sound(r, o.ratchet)
               /\ o.err = "nil" => Spent(o.ratchet, m) /\ ~Spent(r, m)
<1> DEFINE o == recvStep(r, m)
           root == received(r, m)
           moved == [r EXCEPT !.rootKey = root]
           sk == skippedKeys(r.recvHeaderKey, r.recvChainKey, m.prev, r.recvCount)
           sn == skippedKeys(r.nextRecvHeaderKey, root, m.num, 0)
           s == stepped(r, m)
<1>1. Sound(r, r)
  BY DEF Sound
<1>2. /\ m.num \in Nat /\ m.prev \in Nat /\ m.public \in Keys /\ r.recvCount \in Nat
      /\ r.recvChainKey \in Chains /\ r.recvHeaderKey \in HeaderKeys
      /\ r.nextRecvHeaderKey \in HeaderKeys /\ r.sendRatchetPrivate \in Keys
      /\ Zero \in Keys
  BY DEF Messages, Ratchets, Keys
<1>3. root \in Roots /\ Len(root) = Len(r.rootKey) + 1 /\ Len(r.rootKey) \in Nat
  BY <1>2, LongerRoot DEF received
<1>4. HeaderKey(root) \in HeaderKeys /\ root \in Chains /\ root # Zero
  BY <1>3, HeaderKeyType, RatchetAssumption, Zenon DEF Chains
<1>5. \/ o.err # "nil" /\ o.ratchet \in {r, moved}
      \/ o.err = "nil" /\ o.ratchet = s /\ m.key[1] = root /\ m.prev >= r.recvCount
  BY RecvStepCases, Zenon
<1> HIDE DEF o, root
<1>6. Sound(r, moved)
  BY <1>3, MovedRoot
<1>7. /\ sk \subseteq SavedKeys
      /\ \A e \in sk :
            e.chain = r.recvChainKey /\ \A n \in e.nums : n >= r.recvCount /\ n < m.prev
      /\ \A e, f \in sk : e = f
  BY <1>2, Skipped
<1>8. /\ sn \subseteq SavedKeys
      /\ \A e \in sn : e.chain = root /\ \A n \in e.nums : n >= 0 /\ n < m.num
      /\ \A e, f \in sn : e = f
  BY <1>2, <1>4, Skipped
<1> HIDE DEF sk, sn
<1>9. /\ s \in Ratchets /\ s.rootKey = root /\ s.kxPrivate = r.kxPrivate
      /\ s.recvChainKey = root /\ s.recvCount = m.num + 1
      /\ s.saved = r.saved \cup sk \cup sn
  BY SteppedFields, Zenon DEF root, sk, sn
<1> HIDE DEF s
<1>10. ~past(r, root) /\ past(s, root) /\ \A ch \in Chains : past(r, ch) => past(s, ch)
  BY <1>3, <1>4, <1>9 DEF past, Chains, Roots
<1>11. ASSUME m.key[1] = root, m.prev >= r.recvCount
       PROVE  Sound(r, s) /\ Spent(s, m) /\ ~Spent(r, m)
  <2>1. \A e \in r.saved : e.nums \subseteq Nat /\ e.chain \in Chains
    BY DEF Ratchets, SavedKeys
  <2>2. \A e \in r.saved \cup sk : past(r, e.chain) /\ e.chain \in Chains
    BY <1>2, <1>7, <2>1 DEF KeysOnce
  <2>3. \A e \in s.saved :
           /\ past(s, e.chain)
           /\ e.chain = s.recvChainKey => \A n \in e.nums : n < s.recvCount
    BY <1>2, <1>8, <1>9, <1>10, <2>2 DEF SavedKeys
  <2>4. \A e, f \in r.saved \cup sk : e # f /\ e.chain = f.chain => e.nums \cap f.nums = {}
    BY <1>2, <1>7, <2>1 DEF KeysOnce
  <2>5. \A e, f \in s.saved : e # f /\ e.chain = f.chain => e.nums \cap f.nums = {}
    BY <1>8, <1>9, <1>10, <2>2, <2>4
  <2>6. KeysOnce(s)
    BY <1>9, <1>10, <2>3, <2>5 DEF KeysOnce
  <2>7. ASSUME NEW k \in Messages, Spent(r, k) PROVE Spent(s, k)
    <3>1. k.num \in Nat /\ k.key[1] \in Chains
      BY DEF Messages
    <3>2. k.key[1] # root
      BY <1>10, <2>7 DEF Spent
    <3> QED
      BY <1>2, <1>7, <1>8, <1>9, <1>10, <2>7, <3>1, <3>2 DEF Spent, usable
  <2>8. ~usable(s, m.key[1], m.num)
    BY <1>2, <1>8, <1>9, <1>10, <1>11, <2>2 DEF usable, SavedKeys
  <2>9. past(s, m.key[1]) /\ ~past(r, m.key[1])
    BY <1>10, <1>11
  <2> QED
    BY <1>3, <1>9, <2>6, <2>7, <2>8, <2>9 DEF Sound, Spent
<1> QED
  BY <1>1, <1>5, <1>6, <1>11 DEF o

(* Every outcome of Decrypt is sound, and a key that was used up is not    *)
(* accepted.                                                               *)
LEMMA DecryptSound ==
    ASSUME NEW r \in Ratchets, r.rootKey \in Roots, KeysOnce(r), NEW m \in Messages,
           m.key[2] = m.num, NEW o \in DecryptWith(r, m)
    PROVE  /\ Sound(r, o.ratchet)
           /\ o.err = "nil" => Spent(o.ratchet, m) /\ ~Spent(r, m)
<1>1. Sound(r, r)
  BY DEF Sound
<1>2. LET a == advance(r, m)
      IN  /\ Sound(r, a.ratchet)
          /\ a.err = "nil" => Spent(a.ratchet, m) /\ ~Spent(r, m)
  <2>1. CASE advance(r, m) = inChain(r, m)
    BY <2>1, InChain
  <2>2. CASE advance(r, m) = recvStep(r, m)
    BY <2>2, RecvStep
  <2>3. CASE advance(r, m) = Outcome("cannotDecrypt", r)
    BY <1>1, <2>3 DEF Outcome
  <2> QED
    BY <2>1, <2>2, <2>3 DEF advance
<1>3. CASE o = advance(r, m)
  BY <1>2, <1>3
<1>4. CASE o = Outcome("corrupt", r)
  BY <1>1, <1>4 DEF Outcome
<1>5. ASSUME NEW e \in r.saved, m.num \in e.nums, m.key = <<e.chain, m.num>>,
             o = Outcome("nil", usedSaved(r, e, m))
      PROVE  /\ Sound(r, o.ratchet)
             /\ o.err = "nil" => Spent(o.ratchet, m) /\ ~Spent(r, m)
  <2>1. m.key[1] = e.chain
    BY <1>5
  <2>2. Sound(r, usedSaved(r, e, m)) /\ Spent(usedSaved(r, e, m), m) /\ ~Spent(r, m)
    BY <1>5, <2>1, UsedSaved
  <2> QED
    BY <1>5, <2>2 DEF Outcome
<1> QED
  BY <1>3, <1>4, <1>5 DEF DecryptWith

-----------------------------------------------------------------------------
(* What the other operations change leaves the receiving side as it is. *)
LEMMA SameKeys ==
    ASSUME NEW r \in Ratchets, NEW s \in Ratchets, KeysOnce(r), s.rootKey \in Roots,
           \/ s.rootKey = r.rootKey
           \/ r.rootKey \in Roots /\ Len(r.rootKey) <= Len(s.rootKey),
           s.recvChainKey = r.recvChainKey, s.recvCount = r.recvCount, s.saved = r.saved
    PROVE  KeysOnce(s) /\ \A m \in Messages : Spent(r, m) => Spent(s, m)
<1>1. \A ch \in Chains : past(r, ch) => past(s, ch)
  BY DEF past, Chains, Roots
<1>2. r.recvChainKey \in Chains /\ \A e \in r.saved : e.chain \in Chains
  BY DEF Ratchets, SavedKeys
<1>3. KeysOnce(s)
  BY <1>1, <1>2 DEF KeysOnce
<1>4. \A m \in Messages : Spent(r, m) => Spent(s, m)
  BY <1>1 DEF Spent, usable, Messages
<1> QED
  BY <1>3, <1>4

(* The sender's step moves to the chain of a new root. *)
LEMMA SendStepFields ==
    ASSUME NEW p \in Parties, NEW r \in Ratchets, r.rootKey \in Roots
    PROVE  LET s == sendStep(p, r)
               root == Append(r.rootKey, {<<p, r.fresh>>, r.recvRatchetPublic})
           IN  /\ root \in Roots /\ Len(root) = Len(r.rootKey) + 1 /\ Len(r.rootKey) \in Nat
               /\ s \in Ratchets /\ s.rootKey = root /\ s.kxPrivate = r.kxPrivate
               /\ s.ratchet = FALSE /\ s.saved = r.saved
               /\ s.recvCount = r.recvCount /\ RecvSide(r, s)
               /\ s.sendRatchetPrivate = <<p, r.fresh>> /\ s.sendChainKey = root
               /\ s.sendHeaderKey = r.nextSendHeaderKey
               /\ s.nextSendHeaderKey = HeaderKey(root)
               /\ s.prevSendCount = r.sendCount /\ s.sendCount = 0
<1> DEFINE root == Append(r.rootKey, {<<p, r.fresh>>, r.recvRatchetPublic})
           key == <<p, r.fresh>>
           n == r.fresh + 1
           a == [r EXCEPT !.sendRatchetPrivate = key, !.fresh = n]
           b == [a EXCEPT !.sendHeaderKey = r.nextSendHeaderKey, !.rootKey = root,
                          !.nextSendHeaderKey = HeaderKey(root)]
           c == [b EXCEPT !.sendChainKey = root, !.prevSendCount = r.sendCount]
           d == [c EXCEPT !.sendCount = 0, !.ratchet = FALSE]
           s == sendStep(p, r)
<1>1. /\ key \in Keys /\ r.recvRatchetPublic \in Keys /\ r.sendCount \in Nat
      /\ n \in Nat /\ r.nextSendHeaderKey \in HeaderKeys /\ 0 \in Nat
  BY DEF Ratchets, Keys
<1>2. root \in Roots /\ Len(root) = Len(r.rootKey) + 1 /\ Len(r.rootKey) \in Nat
  BY <1>1, LongerRoot
<1>3. root \in Chains /\ HeaderKey(root) \in HeaderKeys
  BY <1>2, HeaderKeyType, Zenon DEF Chains
<1>4. s = d
  BY DEF sendStep
<1> HIDE DEF root, key, n, s
<1>5. /\ a \in Ratchets /\ a.kxPrivate = r.kxPrivate /\ a.saved = r.saved
      /\ a.recvCount = r.recvCount /\ RecvSide(r, a) /\ a.sendRatchetPrivate = key
  BY <1>1, Zenon DEF Ratchets, RecvSide
<1> HIDE DEF a
<1>6. /\ b \in Ratchets /\ b.kxPrivate = a.kxPrivate /\ b.saved = a.saved /\ b.rootKey = root
      /\ b.recvCount = a.recvCount /\ RecvSide(a, b)
      /\ b.sendRatchetPrivate = a.sendRatchetPrivate
      /\ b.sendHeaderKey = r.nextSendHeaderKey /\ b.nextSendHeaderKey = HeaderKey(root)
  BY <1>1, <1>3, <1>5, Zenon DEF Ratchets, RecvSide
<1> HIDE DEF b
<1>7. /\ c \in Ratchets /\ c.kxPrivate = b.kxPrivate /\ c.saved = b.saved
      /\ c.rootKey = b.rootKey /\ c.recvCount = b.recvCount /\ RecvSide(b, c)
      /\ c.sendRatchetPrivate = b.sendRatchetPrivate
      /\ c.sendHeaderKey = b.sendHeaderKey /\ c.nextSendHeaderKey = b.nextSendHeaderKey
      /\ c.sendChainKey = root /\ c.prevSendCount = r.sendCount
  BY <1>1, <1>3, <1>6, Zenon DEF Ratchets, RecvSide
<1> HIDE DEF c
<1>8. /\ d \in Ratchets /\ d.kxPrivate = c.kxPrivate /\ d.saved = c.saved
      /\ d.rootKey = c.rootKey /\ d.recvCount = c.recvCount /\ RecvSide(c, d)
      /\ d.sendRatchetPrivate = c.sendRatchetPrivate
      /\ d.sendHeaderKey = c.sendHeaderKey /\ d.nextSendHeaderKey = c.nextSendHeaderKey
      /\ d.sendChainKey = c.sendChainKey /\ d.prevSendCount = c.prevSendCount
      /\ d.sendCount = 0 /\ d.ratchet = FALSE
  BY <1>1, <1>7, Zenon DEF Ratchets, RecvSide
<1> HIDE DEF d
<1>9. RecvSide(r, s)
  BY <1>4, <1>5, <1>6, <1>7, <1>8, Zenon DEF RecvSide
<1> QED
  BY <1>2, <1>4, <1>5, <1>6, <1>7, <1>8, <1>9, Zenon DEF root, key, s

(* Encrypt, with or without a step of the DH ratchet. *)
LEMMA EncryptSound ==
    ASSUME NEW p \in Parties, NEW r \in Ratchets, r.rootKey \in Roots, KeysOnce(r)
    PROVE  LET q == IF r.ratchet THEN sendStep(p, r) ELSE r
               s == [q EXCEPT !.sendCount = @ + 1]
           IN  /\ Sound(r, s) /\ q \in Ratchets
               /\ sealed(p, q) \in Messages /\ sealed(p, q).key[2] = sealed(p, q).num
<1> DEFINE root == Append(r.rootKey, {<<p, r.fresh>>, r.recvRatchetPublic})
           st == sendStep(p, r)
<1>4. /\ root \in Roots /\ Len(root) = Len(r.rootKey) + 1 /\ Len(r.rootKey) \in Nat
      /\ st \in Ratchets /\ st.rootKey = root /\ st.kxPrivate = r.kxPrivate /\ st.saved = r.saved
      /\ st.recvChainKey = r.recvChainKey /\ st.recvCount = r.recvCount
  BY SendStepFields, Zenon DEF RecvSide
<1> HIDE DEF root, st
<1> DEFINE q == IF r.ratchet THEN st ELSE r
           s == [q EXCEPT !.sendCount = @ + 1]
<1>5. /\ q \in Ratchets /\ q.rootKey \in Roots /\ Len(r.rootKey) <= Len(q.rootKey)
      /\ q.kxPrivate = r.kxPrivate /\ q.saved = r.saved
      /\ q.recvChainKey = r.recvChainKey /\ q.recvCount = r.recvCount
  BY <1>4
<1> HIDE DEF q
<1> DEFINE n == q.sendCount + 1
<1>9. n \in Nat /\ s = [q EXCEPT !.sendCount = n]
  BY <1>5 DEF Ratchets
<1> HIDE DEF n, s
<1>6. /\ s \in Ratchets /\ s.rootKey = q.rootKey /\ s.kxPrivate = q.kxPrivate
      /\ s.saved = q.saved /\ s.recvChainKey = q.recvChainKey /\ s.recvCount = q.recvCount
  BY <1>5, <1>9, Zenon DEF Ratchets
<1>7. Sound(r, s)
  <2>1. KeysOnce(s) /\ \A m \in Messages : Spent(r, m) => Spent(s, m)
    BY <1>5, <1>6, SameKeys
  <2> QED
    BY <1>5, <1>6, <2>1 DEF Sound
<1>8. sealed(p, q) \in Messages /\ sealed(p, q).key[2] = sealed(p, q).num
  BY <1>5, OtherParty DEF sealed, Messages, Ratchets
<1> QED
  BY <1>5, <1>7, <1>8 DEF q, s, st

(* ProcessKeyExchange, from a ratchet that has no root yet. *)
LEMMA ExchangeSound ==
    ASSUME NEW p \in Parties, NEW r \in Ratchets, r.rootKey = Zero, KeysOnce(r)
    PROVE  LET s == completeKeyExchange(p, r)
           IN  /\ s \in Ratchets /\ s.rootKey \in Roots /\ s.kxPrivate = FALSE
               /\ KeysOnce(s) /\ \A m \in Messages : Spent(r, m) => Spent(s, m)
<1> DEFINE s == completeKeyExchange(p, r)
           root == << {<<p, 0>>, <<Other(p), 0>>} >>
<1>1. root \in Roots /\ root # Zero
  BY FirstRoot, RatchetAssumption, Zenon
<1>2. s \in Ratchets /\ s.rootKey \in Roots
  BY ExchangeType
<1>3. /\ s.rootKey = root /\ s.saved = r.saved /\ s.recvCount = r.recvCount
      /\ s.kxPrivate = FALSE /\ s.recvChainKey \in {root, r.recvChainKey}
  <2> HIDE DEF root
  <2> QED
    BY DEF completeKeyExchange, root, Ratchets
<1> HIDE DEF s, root
<1>4. \A ch : past(r, ch) => ch = Zero
  BY RatchetAssumption DEF past
<1>5. past(s, Zero) /\ past(s, root)
  BY <1>1, <1>3 DEF past, Roots
<1>6. r.recvChainKey = Zero /\ \A e \in r.saved : e.chain = Zero
  BY <1>4 DEF KeysOnce
<1>7. KeysOnce(s)
  BY <1>1, <1>3, <1>5, <1>6 DEF KeysOnce
<1>8. \A m \in Messages : Spent(r, m) => Spent(s, m)
  BY <1>1, <1>3, <1>4, <1>5, <1>6 DEF Spent, usable
<1> QED
  BY <1>2, <1>3, <1>7, <1>8 DEF s

(* Reload leaves out keys and adds none. *)
LEMMA ReloadSound ==
    ASSUME NEW r \in Ratchets, KeysOnce(r), NEW old \in SUBSET r.saved
    PROVE  LET s == newRatchetFromState(marshal(r, old))
           IN  /\ s \in Ratchets /\ s.rootKey = r.rootKey /\ s.kxPrivate = r.kxPrivate
               /\ KeysOnce(s) /\ \A m \in Messages : Spent(r, m) => Spent(s, m)
<1> DEFINE kept == (r.saved \ old) \cup {[e EXCEPT !.nums = {}] : e \in old}
           s == [r EXCEPT !.saved = kept]
<1>1. newRatchetFromState(marshal(r, old)) = s
  BY DEF newRatchetFromState, marshal
<1>2. r.saved \subseteq SavedKeys
  BY DEF Ratchets
<1>3. \A e \in old : LET f == [e EXCEPT !.nums = {}]
                     IN  f \in SavedKeys /\ f.chain = e.chain /\ f.nums = {}
  BY <1>2 DEF SavedKeys
<1>4. kept \subseteq SavedKeys
  BY <1>2, <1>3
<1>5. \A f \in kept : f \in r.saved \/ (f.nums = {} /\ \E e \in r.saved : f.chain = e.chain)
  BY <1>3, Zenon
<1> HIDE DEF kept
<1>6. /\ s \in Ratchets /\ s.rootKey = r.rootKey /\ s.kxPrivate = r.kxPrivate /\ s.saved = kept
      /\ s.recvChainKey = r.recvChainKey /\ s.recvCount = r.recvCount
  BY <1>4 DEF Ratchets
<1> HIDE DEF s
<1>7. \A ch : past(s, ch) = past(r, ch)
  BY <1>6 DEF past
<1>8. KeysOnce(s)
  BY <1>5, <1>6, <1>7 DEF KeysOnce
<1>9. \A m \in Messages : Spent(r, m) => Spent(s, m)
  BY <1>5, <1>6, <1>7 DEF Spent, usable
<1> QED
  BY <1>1, <1>6, <1>8, <1>9

-----------------------------------------------------------------------------
(* A ratchet is well formed: it has a root once the key exchange is done.  *)
(* Replacing it by one in which what was spent still is keeps the          *)
(* invariant, when no message is added or decrypted.                       *)
LEMMA OneRatchet ==
    ASSUME IInv, NEW p \in Parties, NEW s \in Ratchets, KeysOnce(s),
           s.kxPrivate = FALSE => s.rootKey \in Roots, s.kxPrivate = TRUE => s.rootKey = Zero,
           \A m \in Messages : Spent(ratchet[p], m) => Spent(s, m),
           ratchet' = [ratchet EXCEPT ![p] = s], UNCHANGED <<sent, decrypted>>
    PROVE  IInv'
<1>1. /\ ratchet' \in [Parties -> Ratchets]
      /\ \A q \in Parties : ratchet'[q] = IF q = p THEN s ELSE ratchet[q]
  BY DEF IInv, TypeOK
<1>2. TypeOK'
  BY <1>1 DEF IInv, TypeOK
<1>3. \A q \in Parties : KeysOnce(ratchet'[q])
  BY <1>1 DEF IInv
<1>4. ASSUME NEW m \in sent', decrypted'[m] # 0
      PROVE  decrypted'[m] = 1 /\ Spent(ratchet'[m.to], m)
  <2>1. m \in sent /\ m \in Messages /\ m.to \in Parties
    BY DEF IInv, TypeOK, Messages
  <2>2. decrypted[m] = 1 /\ Spent(ratchet[m.to], m)
    BY <1>4, <2>1 DEF IInv
  <2> QED
    BY <1>1, <2>1, <2>2
<1> QED
  BY <1>2, <1>3, <1>4 DEF IInv

(* The ratchet of a party, from the invariant. *)
LEMMA RatchetOf ==
    ASSUME IInv, NEW p \in Parties
    PROVE  /\ ratchet[p] \in Ratchets /\ KeysOnce(ratchet[p]) /\ ratchet[p].kxPrivate \in BOOLEAN
           /\ ratchet[p].kxPrivate = FALSE => ratchet[p].rootKey \in Roots
           /\ ratchet[p].kxPrivate = TRUE => ratchet[p].rootKey = Zero
BY DEF IInv, TypeOK, Ratchets

(* Init. *)
LEMMA InitIInv == Init => IInv
<1> SUFFICES ASSUME Init PROVE IInv
  OBVIOUS
<1>1. InitRatchet \in Ratchets
  BY DEF InitRatchet, Ratchets, Chains, Keys, HeaderKeys
<1>2. KeysOnce(InitRatchet) /\ InitRatchet.kxPrivate = TRUE /\ InitRatchet.rootKey = Zero
  BY DEF InitRatchet, KeysOnce, past
<1>3. ratchet \in [Parties -> Ratchets] /\ \A p \in Parties : ratchet[p] = InitRatchet
  BY <1>1 DEF Init
<1>4. sent = {} /\ decrypted \in [sent -> Nat]
  BY DEF Init
<1> HIDE DEF Init
<1> QED
  BY <1>2, <1>3, <1>4 DEF IInv, TypeOK

(* ProcessKeyExchange. *)
LEMMA ProcessStep ==
    ASSUME IInv, NEW p \in Parties, ProcessKeyExchange(p)
    PROVE  IInv'
<1>1. ratchet[p].kxPrivate = TRUE
  BY RatchetOf DEF ProcessKeyExchange
<1>2. ratchet[p] \in Ratchets /\ KeysOnce(ratchet[p]) /\ ratchet[p].rootKey = Zero
  BY <1>1, RatchetOf, Zenon
<1> DEFINE s == completeKeyExchange(p, ratchet[p])
<1>3. /\ s \in Ratchets /\ s.rootKey \in Roots /\ s.kxPrivate = FALSE
      /\ KeysOnce(s) /\ \A m \in Messages : Spent(ratchet[p], m) => Spent(s, m)
  BY <1>2, ExchangeSound, Zenon
<1>4. ratchet' = [ratchet EXCEPT ![p] = s] /\ UNCHANGED <<sent, decrypted>>
  BY DEF ProcessKeyExchange
<1> HIDE DEF s
<1> QED
  BY <1>3, <1>4, OneRatchet, Zenon

(* Reload. *)
LEMMA ReloadStep ==
    ASSUME IInv, NEW p \in Parties, Reload(p)
    PROVE  IInv'
<1>1. PICK old \in SUBSET ratchet[p].saved :
         ratchet' = [ratchet EXCEPT ![p] = newRatchetFromState(marshal(ratchet[p], old))]
  BY Zenon DEF Reload
<1> DEFINE s == newRatchetFromState(marshal(ratchet[p], old))
<1>2. ratchet[p] \in Ratchets /\ KeysOnce(ratchet[p])
  BY RatchetOf, Zenon
<1>3. /\ s \in Ratchets /\ s.rootKey = ratchet[p].rootKey /\ s.kxPrivate = ratchet[p].kxPrivate
      /\ KeysOnce(s) /\ \A m \in Messages : Spent(ratchet[p], m) => Spent(s, m)
  BY <1>2, ReloadSound
<1>4. ratchet' = [ratchet EXCEPT ![p] = s] /\ UNCHANGED <<sent, decrypted>>
  BY <1>1, Zenon DEF Reload
<1> HIDE DEF s
<1> QED
  BY <1>3, <1>4, RatchetOf, OneRatchet, Zenon

(* Encrypt. *)
LEMMA EncryptStep ==
    ASSUME IInv, NEW p \in Parties, Encrypt(p)
    PROVE  IInv'
<1> DEFINE r == ratchet[p]
           q == IF r.ratchet THEN sendStep(p, r) ELSE r
           s == [q EXCEPT !.sendCount = @ + 1]
           m == sealed(p, q)
<1>1. r \in Ratchets /\ KeysOnce(r) /\ r.kxPrivate = FALSE /\ r.rootKey \in Roots
  BY RatchetOf, Zenon DEF Encrypt
<1>2. Sound(r, s) /\ m \in Messages /\ m.key[2] = m.num
  BY <1>1, EncryptSound
<1>3. /\ ratchet' = [ratchet EXCEPT ![p] = s] /\ sent' = sent \cup {m}
      /\ decrypted' = [n \in sent' |-> IF n \in sent THEN decrypted[n] ELSE 0]
  BY DEF Encrypt, ratcheted
<1> HIDE DEF s, m, q
<1>4. /\ s \in Ratchets /\ s.rootKey \in Roots /\ s.kxPrivate = FALSE
      /\ KeysOnce(s) /\ \A n \in Messages : Spent(r, n) => Spent(s, n)
  BY <1>1, <1>2 DEF Sound
<1>5. /\ ratchet' \in [Parties -> Ratchets]
      /\ \A x \in Parties : ratchet'[x] = IF x = p THEN s ELSE ratchet[x]
  BY <1>3, <1>4 DEF IInv, TypeOK
<1>6. decrypted' \in [sent' -> Nat]
  BY <1>3 DEF IInv, TypeOK
<1>7. TypeOK'
  BY <1>2, <1>3, <1>4, <1>5, <1>6 DEF IInv, TypeOK
<1>8. \A x \in Parties : KeysOnce(ratchet'[x])
  BY <1>4, <1>5 DEF IInv
<1>9. ASSUME NEW n \in sent', decrypted'[n] # 0
      PROVE  decrypted'[n] = 1 /\ Spent(ratchet'[n.to], n)
  <2>1. n \in sent /\ decrypted'[n] = decrypted[n]
    BY <1>3, <1>9
  <2>2. n \in Messages /\ n.to \in Parties
    BY <2>1 DEF IInv, TypeOK, Messages
  <2>3. decrypted[n] = 1 /\ Spent(ratchet[n.to], n)
    BY <1>9, <2>1 DEF IInv
  <2> QED
    BY <1>4, <1>5, <2>1, <2>2, <2>3
<1> QED
  BY <1>7, <1>8, <1>9 DEF IInv

(* Decrypt: a message whose key is spent is not decrypted, and the key of  *)
(* one that is decrypted is spent.                                         *)
LEMMA DecryptStep ==
    ASSUME IInv, NEW p \in Parties, Decrypt(p)
    PROVE  IInv'
<1> DEFINE r == ratchet[p]
<1>1. PICK m \in {n \in sent : n.to = p} : \E o \in DecryptWith(r, m) :
        /\ ratchet' = [ratchet EXCEPT ![p] = o.ratchet]
        /\ decrypted' = [decrypted EXCEPT ![m] = IF o.err = "nil" THEN @ + 1 ELSE @]
  BY Zenon DEF Decrypt
<1>2. PICK o \in DecryptWith(r, m) :
        /\ ratchet' = [ratchet EXCEPT ![p] = o.ratchet]
        /\ decrypted' = [decrypted EXCEPT ![m] = IF o.err = "nil" THEN @ + 1 ELSE @]
  BY <1>1, Zenon
<1>3. r \in Ratchets /\ KeysOnce(r) /\ r.kxPrivate = FALSE /\ r.rootKey \in Roots
  BY RatchetOf, Zenon DEF Decrypt
<1>4. m \in sent /\ m.to = p /\ m \in Messages /\ m.key[2] = m.num /\ decrypted[m] \in Nat
  BY DEF IInv, TypeOK
<1>5. Sound(r, o.ratchet) /\ (o.err = "nil" => Spent(o.ratchet, m) /\ ~Spent(r, m))
  BY <1>3, <1>4, DecryptSound
<1> DEFINE s == o.ratchet
           ok == o.err = "nil"
<1>6. sent' = sent
  BY DEF Decrypt
<1>7. /\ s \in Ratchets /\ s.rootKey \in Roots /\ s.kxPrivate = FALSE
      /\ KeysOnce(s) /\ \A n \in Messages : Spent(r, n) => Spent(s, n)
  BY <1>3, <1>5 DEF Sound
<1>8. ok => decrypted[m] = 0
  BY <1>4, <1>5 DEF IInv
<1>9. /\ decrypted' \in [sent -> Nat]
      /\ \A n \in sent : decrypted'[n] = IF n = m /\ ok THEN 1 ELSE decrypted[n]
  BY <1>2, <1>4, <1>8 DEF IInv, TypeOK
<1>10. /\ ratchet' \in [Parties -> Ratchets]
       /\ \A x \in Parties : ratchet'[x] = IF x = p THEN s ELSE ratchet[x]
  BY <1>2, <1>7 DEF IInv, TypeOK
<1> HIDE DEF s, ok
<1>11. TypeOK'
  BY <1>6, <1>7, <1>9, <1>10 DEF IInv, TypeOK
<1>12. \A x \in Parties : KeysOnce(ratchet'[x])
  BY <1>7, <1>10 DEF IInv
<1>13. ASSUME NEW n \in sent', decrypted'[n] # 0
       PROVE  decrypted'[n] = 1 /\ Spent(ratchet'[n.to], n)
  <2>1. n \in sent /\ n \in Messages /\ n.to \in Parties
    BY <1>6 DEF IInv, TypeOK, Messages
  <2>2. CASE n = m /\ ok
    BY <1>4, <1>5, <1>9, <1>10, <2>1, <2>2 DEF s, ok
  <2>3. CASE ~(n = m /\ ok)
    <3>1. decrypted[n] = 1 /\ Spent(ratchet[n.to], n) /\ decrypted'[n] = decrypted[n]
      BY <1>9, <1>13, <2>1, <2>3 DEF IInv
    <3> QED
      BY <1>7, <1>10, <2>1, <3>1
  <2> QED
    BY <2>2, <2>3
<1> QED
  BY <1>11, <1>12, <1>13 DEF IInv

(* Every step keeps the keys in one place. *)
LEMMA NextIInv == IInv /\ [Next]_vars => IInv'
<1> SUFFICES ASSUME IInv, [Next]_vars PROVE IInv'
  OBVIOUS
<1>1. ASSUME NEW p \in Parties, CreateKeyExchange(p) PROVE IInv'
  BY <1>1 DEF CreateKeyExchange, IInv, TypeOK
<1>2. ASSUME NEW p \in Parties, ProcessKeyExchange(p) PROVE IInv'
  BY <1>2, ProcessStep
<1>3. ASSUME NEW p \in Parties, Encrypt(p) PROVE IInv'
  BY <1>3, EncryptStep
<1>4. ASSUME NEW p \in Parties, Decrypt(p) PROVE IInv'
  BY <1>4, DecryptStep
<1>5. ASSUME NEW p \in Parties, Reload(p) PROVE IInv'
  BY <1>5, ReloadStep
<1>6. CASE UNCHANGED vars
  BY <1>6 DEF vars, IInv, TypeOK
<1> QED
  BY <1>1, <1>2, <1>3, <1>4, <1>5, <1>6 DEF Next

-----------------------------------------------------------------------------
(* No message is decrypted twice by Decrypt (doubleratchet/ratchet.go),    *)
(* in any order of deliveries, duplicates, steps of the DH ratchet, failed *)
(* calls and restarts from a saved state: a message key is either ahead in *)
(* the receiving chain or in exactly one entry of the saved keys, and once *)
(* saveKeys passes it or trySavedKeys deletes it no chain contains it.     *)
THEOREM AtMostOnceHolds == Spec => []AtMostOnce
<1>1. Init => IInv
  BY InitIInv
<1>2. IInv /\ [Next]_vars => IInv'
  BY NextIInv
<1>3. IInv => AtMostOnce
  BY DEF IInv, TypeOK, AtMostOnce
<1> QED
  BY <1>1, <1>2, <1>3, PTL DEF Spec

-----------------------------------------------------------------------------
(* NoneLost: the two ratchets keep in step with each other. *)

(* The ratchet of a party, or the one that it will have once it completes  *)
(* its key exchange: a peer may be ahead of it and send already.           *)
full(p) == IF ratchet[p].kxPrivate = TRUE THEN completeKeyExchange(p, InitRatchet)
           ELSE ratchet[p]

(* The last root that the party has agreed on: that of the chain it has    *)
(* received from if it is going to step, otherwise that of its own.  The   *)
(* rootKey is another one only after a failed Decrypt.                     *)
top(r) == IF r.ratchet = TRUE THEN r.recvChainKey ELSE r.sendChainKey

(* How many steps lead to a chain, and to the root of a header key. *)
len(ch) == IF ch = Zero THEN 0 ELSE Len(ch)
hlen(h) == IF h = Zero THEN 0 ELSE Len(h[2])

(* r receives from the chain to which s sends. *)
Caught(r, s) ==
    /\ r.recvChainKey = s.sendChainKey /\ r.recvHeaderKey = s.sendHeaderKey
    /\ r.nextRecvHeaderKey = s.nextSendHeaderKey /\ r.recvCount <= s.sendCount

(* It is the turn of r to step (ratchet.ratchet). *)
Turn(r, s) ==
    /\ r.ratchet = TRUE /\ s.ratchet = FALSE /\ Caught(r, s) /\ Caught(s, r)
    /\ r.recvRatchetPublic = s.sendRatchetPrivate

(* r has stepped, and s has not received from its new chain yet. *)
Ahead(r, s) ==
    /\ r.ratchet = FALSE /\ s.ratchet = FALSE /\ Caught(r, s)
    /\ r.sendChainKey = Append(s.sendChainKey,
                               {s.sendRatchetPrivate, r.sendRatchetPrivate})
    /\ r.sendHeaderKey = s.nextRecvHeaderKey
    /\ r.nextSendHeaderKey = HeaderKey(r.sendChainKey)
    /\ s.recvCount <= r.prevSendCount

Pair(r, s) == Turn(r, s) \/ Turn(s, r) \/ Ahead(r, s) \/ Ahead(s, r)

(* A header key opens the headers of one chain only: the next header key   *)
(* is not among the ones in use, and no key that will be derived is.       *)
Headers(r) ==
    /\ r.nextRecvHeaderKey # Zero /\ hlen(r.nextRecvHeaderKey) <= len(top(r))
    /\ r.recvHeaderKey # r.nextRecvHeaderKey /\ hlen(r.recvHeaderKey) <= len(top(r))
    /\ len(r.recvChainKey) <= len(top(r))
    /\ r.ratchet = FALSE => r.sendHeaderKey # Zero
    /\ \A e \in r.saved :
          /\ hlen(e.headerKey) <= len(top(r)) /\ e.headerKey # r.nextRecvHeaderKey
          /\ e.headerKey = r.recvHeaderKey => e.chain = r.recvChainKey

(* What is known of a message m from s to r. *)
Written(s, r, m) ==
    /\ m.headerKey # Zero /\ m.key[1] \in Roots /\ len(m.key[1]) <= len(top(s))
    /\ m.key[1] = s.sendChainKey =>
          /\ m.num < s.sendCount /\ m.headerKey = s.sendHeaderKey /\ m.prev = s.prevSendCount
          /\ s.ratchet = FALSE => m.public = s.sendRatchetPrivate
    /\ m.headerKey = r.nextRecvHeaderKey => Ahead(s, r) /\ m.key[1] = s.sendChainKey
    /\ Ahead(s, r) /\ m.key[1] = r.recvChainKey => m.num < s.prevSendCount
    /\ hlen(m.headerKey) <= len(top(r))
    /\ m.headerKey = r.recvHeaderKey => m.key[1] = r.recvChainKey
    /\ \A e \in r.saved : e.headerKey = m.headerKey => e.chain = m.key[1]

(* The key of m is saved, or ahead in the receiving chain or in the next.  *)
Reach(s, r, m) ==
    \/ \E e \in r.saved : e.headerKey = m.headerKey /\ e.chain = m.key[1] /\ m.num \in e.nums
    \/ m.key[1] = r.recvChainKey /\ m.headerKey = r.recvHeaderKey /\ m.num >= r.recvCount
    \/ Ahead(s, r) /\ m.key[1] = s.sendChainKey

(* The party derives the next root from the last one, unless a failed      *)
(* Decrypt moved its root; it does not step then.                          *)
Rooted(p) ==
    /\ full(p) \in Ratchets /\ top(full(p)) \in Roots
    /\ IF p \in broken THEN full(p).ratchet = FALSE ELSE full(p).rootKey = top(full(p))
    /\ ratchet[p].kxPrivate = TRUE => ratchet[p] = InitRatchet

(* No two messages to a party have the same key. *)
OneKey == \A m, k \in sent : m.to = k.to /\ m.key = k.key => m = k

(* What holds of the message m, as long as it may be decrypted. *)
Kept(m) == decrypted[m] = 0 /\ m.key \notin expired => Reach(full(Other(m.to)), full(m.to), m)

(* The two ratchets are in step, and so are the messages between them. *)
LinkInv ==
    /\ \A p \in Parties : Rooted(p) /\ Headers(full(p)) /\ Pair(full(p), full(Other(p)))
    /\ \A m \in sent : Written(full(Other(m.to)), full(m.to), m) /\ Kept(m)
    /\ OneKey
-----------------------------------------------------------------------------
(* There are two parties. *)
LEMMA TwoParties ==
    ASSUME NEW p \in Parties
    PROVE  /\ Other(p) \in Parties /\ Other(p) # p /\ Other(Other(p)) = p
           /\ \A q \in Parties : q = p \/ q = Other(p)
<1>1. \A q \in Parties : Other(q) \in Parties /\ Other(q) # q
  <2> SUFFICES ASSUME NEW q \in Parties PROVE Other(q) \in Parties /\ Other(q) # q
    OBVIOUS
  <2>1. \E s \in Parties : s # q
    BY RatchetAssumption DEF Parties
  <2> QED
    BY <2>1 DEF Other
<1> QED
  BY <1>1 DEF Parties

(* The number of steps is a natural number, and longer chains have longer  *)
(* header keys.                                                            *)
LEMMA RootLen ==
    ASSUME NEW root \in Roots
    PROVE  /\ root # Zero /\ root \in Chains /\ len(root) = Len(root) /\ len(root) \in Nat
           /\ HeaderKey(root) # Zero /\ hlen(HeaderKey(root)) = len(root)
           /\ NextHeaderKey(root) # Zero /\ hlen(NextHeaderKey(root)) = len(root)
<1>1. root # Zero /\ root \in Chains /\ Len(root) \in Nat
  BY RatchetAssumption DEF Chains, Roots
<1>2. HeaderKey(root) # Zero /\ NextHeaderKey(root) # Zero
  BY RatchetAssumption DEF HeaderKey, NextHeaderKey
<1>3. HeaderKey(root)[2] = root /\ NextHeaderKey(root)[2] = root
  BY DEF HeaderKey, NextHeaderKey
<1> QED
  BY <1>1, <1>2, <1>3, Zenon DEF len, hlen

(* So do the chains and header keys that are not set. *)
LEMMA KeyLen ==
    /\ \A ch \in Chains : len(ch) \in Nat
    /\ \A h \in HeaderKeys : hlen(h) \in Nat
<1>1. \A ch \in Roots : Len(ch) \in Nat
  BY DEF Roots
<1>2. \A h \in HeaderKeys : h # Zero => h[2] \in Roots
  BY DEF HeaderKeys
<1> QED
  BY <1>1, <1>2 DEF len, hlen, Chains

(* The types of a ratchet, as far as they are needed here. *)
LEMMA Fields ==
    ASSUME NEW r \in Ratchets
    PROVE  /\ r.sendCount \in Nat /\ r.recvCount \in Nat /\ r.prevSendCount \in Nat
           /\ r.ratchet \in BOOLEAN /\ r.sendRatchetPrivate \in Keys /\ r.recvRatchetPublic \in Keys
           /\ r.recvChainKey \in Chains /\ r.sendChainKey \in Chains /\ top(r) \in Chains
           /\ len(r.recvChainKey) \in Nat /\ len(top(r)) \in Nat
           /\ r.recvHeaderKey \in HeaderKeys /\ r.nextRecvHeaderKey \in HeaderKeys
           /\ hlen(r.recvHeaderKey) \in Nat /\ hlen(r.nextRecvHeaderKey) \in Nat
           /\ r.saved \subseteq SavedKeys
           /\ \A e \in r.saved : hlen(e.headerKey) \in Nat
<1>1. /\ r.sendCount \in Nat /\ r.recvCount \in Nat /\ r.prevSendCount \in Nat
      /\ r.ratchet \in BOOLEAN /\ r.sendRatchetPrivate \in Keys /\ r.recvRatchetPublic \in Keys
      /\ r.recvChainKey \in Chains /\ r.sendChainKey \in Chains
      /\ r.recvHeaderKey \in HeaderKeys /\ r.nextRecvHeaderKey \in HeaderKeys
      /\ r.saved \subseteq SavedKeys
  BY DEF Ratchets
<1>2. top(r) \in Chains
  BY <1>1 DEF top
<1>3. \A e \in r.saved : e.headerKey \in HeaderKeys
  BY <1>1 DEF SavedKeys
<1> QED
  BY <1>1, <1>2, <1>3, KeyLen, Zenon

(* A party that is ahead has taken one step more. *)
LEMMA AheadLonger ==
    ASSUME NEW r \in Ratchets, NEW s \in Ratchets, top(s) \in Roots, Ahead(r, s)
    PROVE  /\ len(top(r)) = len(top(s)) + 1 /\ top(r) = r.sendChainKey /\ top(s) = s.sendChainKey
           /\ ~Ahead(s, r) /\ top(r) \in Roots
<1>1. top(r) = r.sendChainKey /\ top(s) = s.sendChainKey
  BY DEF Ahead, top
<1>2. /\ r.sendChainKey \in Roots
      /\ Len(r.sendChainKey) = Len(s.sendChainKey) + 1 /\ Len(s.sendChainKey) \in Nat
  <2>1. s.sendChainKey \in Roots /\ s.sendRatchetPrivate \in Keys /\ r.sendRatchetPrivate \in Keys
    BY <1>1, Fields
  <2>2. r.sendChainKey = Append(s.sendChainKey, {s.sendRatchetPrivate, r.sendRatchetPrivate})
    BY DEF Ahead
  <2> QED
    BY <2>1, <2>2, LongerRoot
<1>3. len(top(r)) = len(top(s)) + 1 /\ len(top(s)) \in Nat
  BY <1>1, <1>2, RootLen
<1>4. ASSUME Ahead(s, r) PROVE FALSE
  <2>1. r.sendChainKey \in Roots /\ s.sendRatchetPrivate \in Keys /\ r.sendRatchetPrivate \in Keys
    BY <1>2, Fields
  <2>2. s.sendChainKey = Append(r.sendChainKey, {r.sendRatchetPrivate, s.sendRatchetPrivate})
    BY <1>4 DEF Ahead
  <2>3. Len(s.sendChainKey) = Len(r.sendChainKey) + 1
    BY <2>1, <2>2, LongerRoot
  <2> QED
    BY <1>2, <2>3
<1> QED
  BY <1>1, <1>2, <1>3, <1>4

-----------------------------------------------------------------------------
(* Steps that stay in the chains. *)

(* r has received no more in s than the peer q has sent. *)
Fits(s, r, q) ==
    /\ r.recvCount <= s.recvCount
    /\ Ahead(q, r) => s.recvCount <= q.prevSendCount
    /\ Caught(r, q) => s.recvCount <= q.sendCount

(* The entries of s are those of r, with other numbers, and new ones of    *)
(* the current chain.                                                      *)
SavedLike(r, s) ==
    \A e \in s.saved :
        \/ \E f \in r.saved : e.headerKey = f.headerKey /\ e.chain = f.chain
        \/ e.headerKey = r.recvHeaderKey /\ e.chain = r.recvChainKey

(* m can be reached in s if it could in r. *)
KeepsReach(q, r, s, m) ==
    Reach(q, r, m) /\ (Ahead(q, s) <=> Ahead(q, r)) => Reach(q, s, m)

(* What is known of the messages in r is known in s, with the peer q. *)
Carries(r, s, q) ==
    \A m \in Messages : /\ Written(q, r, m) => Written(q, s, m)
                        /\ Written(r, q, m) => Written(s, q, m)
                        /\ Reach(r, q, m) => Reach(s, q, m)

(* A step from r to s that stays in the chains, with the peer q. *)
Continues(r, s, q) == SameLink(r, s) /\ SavedLike(r, s) /\ Fits(s, r, q)

(* The two parties keep in step. *)
LEMMA SamePair ==
    ASSUME NEW r \in Ratchets, NEW s \in Ratchets, NEW q \in Ratchets,
           SameLink(r, s), Fits(s, r, q), Pair(r, q)
    PROVE  /\ Pair(s, q) /\ Pair(q, s) /\ top(s) = top(r)
           /\ (Ahead(s, q) <=> Ahead(r, q)) /\ (Ahead(q, s) <=> Ahead(q, r))
<1>1. /\ r.recvCount \in Nat /\ s.recvCount \in Nat
      /\ q.sendCount \in Nat /\ q.prevSendCount \in Nat
  BY Fields
<1>2. Caught(s, q) <=> Caught(r, q)
  BY <1>1 DEF SameLink, RecvSide, Fits, Caught
<1>3. Caught(q, s) <=> Caught(q, r)
  BY Zenon DEF SameLink, SendSide, Caught
<1>4. Ahead(s, q) <=> Ahead(r, q)
  BY <1>2, Zenon DEF SameLink, SendSide, Ahead
<1>5. Ahead(q, s) <=> Ahead(q, r)
  <2>1. s.nextRecvHeaderKey = r.nextRecvHeaderKey
    BY DEF SameLink, RecvSide
  <2>2. Ahead(q, r) => s.recvCount <= q.prevSendCount
    BY DEF Fits
  <2>3. s.recvCount <= q.prevSendCount => r.recvCount <= q.prevSendCount
    BY <1>1 DEF Fits
  <2> QED
    BY <1>3, <2>1, <2>2, <2>3, Zenon DEF SameLink, SendSide, Ahead
<1>6. (Turn(s, q) <=> Turn(r, q)) /\ (Turn(q, s) <=> Turn(q, r))
  BY <1>2, <1>3, Zenon DEF SameLink, Turn
<1>7. top(s) = top(r)
  BY Zenon DEF SameLink, SendSide, RecvSide, top
<1> QED
  BY <1>4, <1>5, <1>6, <1>7, Zenon DEF Pair

(* What is known of the messages is known still. *)
LEMMA SameMessages ==
    ASSUME NEW r \in Ratchets, NEW s \in Ratchets, NEW q \in Ratchets,
           SameLink(r, s), SavedLike(r, s), Fits(s, r, q), Pair(r, q), Headers(r)
    PROVE  Headers(s) /\ Carries(r, s, q)
<1>1. top(s) = top(r) /\ (Ahead(s, q) <=> Ahead(r, q)) /\ (Ahead(q, s) <=> Ahead(q, r))
  BY SamePair, Zenon
<1>2. /\ s.recvChainKey = r.recvChainKey /\ s.recvHeaderKey = r.recvHeaderKey
      /\ s.nextRecvHeaderKey = r.nextRecvHeaderKey
  BY Zenon DEF SameLink, RecvSide
<1>3. /\ s.sendChainKey = r.sendChainKey /\ s.sendHeaderKey = r.sendHeaderKey
      /\ s.sendCount = r.sendCount /\ s.prevSendCount = r.prevSendCount
      /\ s.ratchet = r.ratchet /\ s.sendRatchetPrivate = r.sendRatchetPrivate
  BY Zenon DEF SameLink, SendSide
<1>4. Headers(s)
  <2> SUFFICES ASSUME NEW e \in s.saved
               PROVE  /\ hlen(e.headerKey) <= len(top(s)) /\ e.headerKey # s.nextRecvHeaderKey
                      /\ e.headerKey = s.recvHeaderKey => e.chain = s.recvChainKey
    BY <1>1, <1>2, <1>3, Zenon DEF Headers
  <2> QED
    BY <1>1, <1>2, Zenon DEF Headers, SavedLike
<1>5. ASSUME NEW m, Written(q, r, m) PROVE Written(q, s, m)
  <2>1. \A e \in s.saved : e.headerKey = m.headerKey => e.chain = m.key[1]
    BY <1>5, Zenon DEF Written, SavedLike
  <2> QED
    BY <1>1, <1>2, <1>5, <2>1, Zenon DEF Written
<1>6. ASSUME NEW m, Written(r, q, m) PROVE Written(s, q, m)
  BY <1>1, <1>3, <1>6, Zenon DEF Written
<1>7. ASSUME NEW m, Reach(r, q, m) PROVE Reach(s, q, m)
  BY <1>1, <1>3, <1>7, Zenon DEF Reach
<1> QED
  BY <1>4, <1>5, <1>6, <1>7, Zenon DEF Carries

(* A saved key is used up, and the others are kept. *)
LEMMA UsedLink ==
    ASSUME NEW r \in Ratchets, NEW m \in Messages, NEW e \in r.saved, NEW q \in Ratchets,
           m.num \in e.nums, e.chain = m.key[1]
    PROVE  LET s == usedSaved(r, e, m)
           IN  /\ SameLink(r, s) /\ s.recvCount = r.recvCount /\ SavedLike(r, s)
               /\ s.rootKey = r.rootKey /\ s.kxPrivate = r.kxPrivate
               /\ \A k \in Messages : k.key[1] # m.key[1] \/ k.num # m.num =>
                                         KeepsReach(q, r, s, k)
<1> DEFINE f == [e EXCEPT !.nums = @ \ {m.num}]
           new == (r.saved \ {e}) \cup {g \in {f} : g.nums # {}}
           s == [r EXCEPT !.saved = new]
<1>1. e \in SavedKeys
  BY DEF Ratchets
<1>2. f.headerKey = e.headerKey /\ f.chain = e.chain /\ f.nums = e.nums \ {m.num}
  BY <1>1 DEF SavedKeys
<1>3. usedSaved(r, e, m) = s
  BY DEF usedSaved
<1> HIDE DEF f
<1>4. \A g \in new : g \in r.saved \/ g = f
  OBVIOUS
<1>5. \A g \in r.saved : g \in new \/ (g = e /\ (f.nums # {} => f \in new))
  OBVIOUS
<1> HIDE DEF new
<1>6. /\ s.saved = new /\ s.recvCount = r.recvCount
      /\ s.rootKey = r.rootKey /\ s.kxPrivate = r.kxPrivate
  BY DEF Ratchets
<1>7. SameLink(r, s)
  BY DEF Ratchets, SameLink, SendSide, RecvSide
<1> HIDE DEF s
<1>8. SavedLike(r, s)
  BY <1>2, <1>4, <1>6, Zenon DEF SavedLike
<1>9. ASSUME NEW k \in Messages, Reach(q, r, k), (Ahead(q, s) <=> Ahead(q, r)),
             k.key[1] # m.key[1] \/ k.num # m.num
      PROVE  Reach(q, s, k)
  <2>1. ASSUME NEW g \in r.saved, g.headerKey = k.headerKey, g.chain = k.key[1], k.num \in g.nums
        PROVE  \E h \in s.saved : h.headerKey = k.headerKey /\ h.chain = k.key[1] /\ k.num \in h.nums
    <3>1. CASE g \in new
      BY <1>6, <2>1, <3>1
    <3>2. CASE g = e /\ (f.nums # {} => f \in new)
      <4>1. k.num \in f.nums
        BY <1>2, <1>9, <2>1, <3>2
      <4> QED
        BY <1>2, <1>6, <2>1, <3>2, <4>1
    <3> QED
      BY <1>5, <3>1, <3>2
  <2>2. s.recvChainKey = r.recvChainKey /\ s.recvHeaderKey = r.recvHeaderKey
    BY <1>7, Zenon DEF SameLink, RecvSide
  <2> QED
    BY <1>6, <1>9, <2>1, <2>2, Zenon DEF Reach
<1> QED
  BY <1>3, <1>6, <1>7, <1>8, <1>9, Zenon DEF KeepsReach

(* A message of the current chain: the keys that it skips are saved. *)
LEMMA ReadOnLink ==
    ASSUME NEW r \in Ratchets, NEW m \in Messages, NEW q \in Ratchets, Written(q, r, m),
           m.key[1] = r.recvChainKey, m.num >= r.recvCount, m.headerKey = r.recvHeaderKey
    PROVE  LET s == readOn(r, m)
           IN  /\ SavedLike(r, s) /\ Fits(s, r, q)
               /\ \A k \in Messages : k.key[1] # m.key[1] \/ k.num # m.num =>
                                         KeepsReach(q, r, s, k)
<1> DEFINE s == readOn(r, m)
           new == skippedKeys(r.recvHeaderKey, r.recvChainKey, m.num, r.recvCount)
<1>1. /\ m.num \in Nat /\ r.recvCount \in Nat /\ q.sendCount \in Nat /\ q.prevSendCount \in Nat
      /\ \A k \in Messages : k.num \in Nat
  BY Fields DEF Messages
<1>2. s.recvCount = m.num + 1 /\ SameLink(r, s) /\ s.saved = r.saved \cup new
  BY ReadOnFields
<1>3. /\ \A e \in new : e.headerKey = r.recvHeaderKey /\ e.chain = r.recvChainKey
      /\ \A n \in Nat : n >= r.recvCount /\ n < m.num => \E e \in new : n \in e.nums
  BY <1>1, SkippedAll
<1> HIDE DEF s, new
<1>4. SavedLike(r, s)
  BY <1>2, <1>3, Zenon DEF SavedLike
<1>5. Fits(s, r, q)
  <2>1. Ahead(q, r) => m.num < q.prevSendCount
    BY DEF Written
  <2>2. Caught(r, q) => m.num < q.sendCount
    BY DEF Written, Caught
  <2> QED
    BY <1>1, <1>2, <2>1, <2>2 DEF Fits
<1>6. ASSUME NEW k \in Messages, Reach(q, r, k), (Ahead(q, s) <=> Ahead(q, r)),
             k.key[1] # m.key[1] \/ k.num # m.num
      PROVE  Reach(q, s, k)
  <2>1. s.recvChainKey = r.recvChainKey /\ s.recvHeaderKey = r.recvHeaderKey
    BY <1>2, Zenon DEF SameLink, RecvSide
  <2>2. CASE \E e \in r.saved : e.headerKey = k.headerKey /\ e.chain = k.key[1] /\ k.num \in e.nums
    BY <1>2, <2>2, Zenon DEF Reach
  <2>3. CASE k.key[1] = r.recvChainKey /\ k.headerKey = r.recvHeaderKey /\ k.num >= r.recvCount
    <3>1. CASE k.num > m.num
      BY <1>1, <1>2, <2>1, <2>3, <3>1 DEF Reach
    <3>2. CASE k.num < m.num
      <4>1. PICK e \in new : k.num \in e.nums
        BY <1>1, <1>3, <2>3, <3>2
      <4> QED
        BY <1>2, <1>3, <2>3, <4>1, Zenon DEF Reach
    <3> QED
      BY <1>1, <1>6, <2>3, <3>1, <3>2
  <2>4. CASE Ahead(q, r) /\ k.key[1] = q.sendChainKey
    BY <1>6, <2>4, Zenon DEF Reach
  <2> QED
    BY <1>6, <2>2, <2>3, <2>4 DEF Reach
<1> QED
  BY <1>4, <1>5, <1>6, Zenon DEF s, KeepsReach

-----------------------------------------------------------------------------
(* Steps of the DH ratchet, and what is sent. *)

(* The receiver's step: the root that it derives is the one of the peer,   *)
(* the rest of the old chain and the start of the new one are saved, and   *)
(* the next turn is the receiver's.                                        *)
LEMMA SteppedLink ==
    ASSUME NEW r \in Ratchets, NEW q \in Ratchets, NEW m \in Messages,
           Headers(r), Headers(q), top(r) \in Roots, r.rootKey = top(r), r.ratchet = FALSE,
           Written(q, r, m), m.headerKey = r.nextRecvHeaderKey
    PROVE  LET s == stepped(r, m)
           IN  /\ s \in Ratchets /\ top(s) \in Roots /\ s.rootKey = top(s)
               /\ s.kxPrivate = r.kxPrivate
               /\ Turn(s, q) /\ Headers(s) /\ Carries(r, s, q)
               /\ \A k \in Messages : /\ Reach(q, r, k) /\ Written(q, r, k)
                                      /\ k.key[1] # m.key[1] \/ k.num # m.num
                                      => Reach(q, s, k)
<1> DEFINE s == stepped(r, m)
           root == received(r, m)
           sk == skippedKeys(r.recvHeaderKey, r.recvChainKey, m.prev, r.recvCount)
           sn == skippedKeys(r.nextRecvHeaderKey, root, m.num, 0)
<1>1. Ahead(q, r) /\ m.key[1] = q.sendChainKey
  BY Zenon DEF Written
<1>2. /\ m.num < q.sendCount /\ m.prev = q.prevSendCount /\ m.public = q.sendRatchetPrivate
      /\ q.ratchet = FALSE
  BY <1>1, Zenon DEF Written, Ahead
<1>3. /\ root \in Roots /\ Len(root) = Len(r.rootKey) + 1 /\ Len(r.rootKey) \in Nat
      /\ s \in Ratchets /\ s.rootKey = root /\ s.kxPrivate = r.kxPrivate
      /\ s.recvChainKey = root /\ s.recvHeaderKey = r.nextRecvHeaderKey
      /\ s.nextRecvHeaderKey = HeaderKey(root) /\ s.recvRatchetPublic = m.public
      /\ s.recvCount = m.num + 1 /\ s.ratchet = TRUE /\ SendSide(r, s)
      /\ s.saved = r.saved \cup sk \cup sn
  BY SteppedFields, Zenon
<1>4. root = q.sendChainKey
  BY <1>1, <1>2, Zenon DEF received, top, Ahead
<1>5. /\ m.num \in Nat /\ m.prev \in Nat /\ r.recvCount \in Nat /\ q.sendCount \in Nat
      /\ \A k \in Messages : k.num \in Nat /\ k.headerKey \in HeaderKeys
  BY Fields DEF Messages
<1>6. /\ \A e \in sk : e.headerKey = r.recvHeaderKey /\ e.chain = r.recvChainKey
      /\ \A n \in Nat : n >= r.recvCount /\ n < m.prev => \E e \in sk : n \in e.nums
  BY <1>5, SkippedAll
<1>7. /\ \A e \in sn : e.headerKey = r.nextRecvHeaderKey /\ e.chain = root
      /\ \A n \in Nat : n >= 0 /\ n < m.num => \E e \in sn : n \in e.nums
  BY <1>5, SkippedAll
<1> HIDE DEF s, root, sk, sn
<1>8. top(s) = root /\ top(r) = r.sendChainKey
  BY <1>3, Zenon DEF top
<1>9. /\ len(root) = len(top(r)) + 1 /\ len(top(r)) \in Nat
      /\ HeaderKey(root) # Zero /\ hlen(HeaderKey(root)) = len(root)
  BY <1>3, RootLen
<1>10. Turn(s, q)
  <2>1. Caught(s, q)
    BY <1>1, <1>2, <1>3, <1>4, <1>5 DEF Ahead, Caught
  <2>2. Caught(q, s)
    BY <1>1, <1>3, Zenon DEF Ahead, Caught, SendSide
  <2> QED
    BY <1>2, <1>3, <2>1, <2>2, ZenonT(60) DEF Turn
<1>11. /\ hlen(r.nextRecvHeaderKey) \in Nat /\ hlen(r.recvHeaderKey) \in Nat
       /\ \A e \in r.saved : hlen(e.headerKey) \in Nat
       /\ \A k \in Messages : hlen(k.headerKey) \in Nat
  BY <1>5, Fields, KeyLen
<1>12. \A h : hlen(h) \in Nat /\ hlen(h) <= len(top(r)) =>
              hlen(h) <= len(root) /\ h # HeaderKey(root)
  BY <1>9
<1>13. Headers(s)
  <2>1. \A e \in s.saved :
           /\ hlen(e.headerKey) <= len(root) /\ e.headerKey # HeaderKey(root)
           /\ e.headerKey = r.nextRecvHeaderKey => e.chain = root
    <3>1. ASSUME NEW e \in r.saved
          PROVE  /\ hlen(e.headerKey) <= len(root) /\ e.headerKey # HeaderKey(root)
                 /\ e.headerKey # r.nextRecvHeaderKey
      BY <1>11, <1>12, Zenon DEF Headers
    <3>2. ASSUME NEW e \in sk
          PROVE  /\ hlen(e.headerKey) <= len(root) /\ e.headerKey # HeaderKey(root)
                 /\ e.headerKey # r.nextRecvHeaderKey
      BY <1>6, <1>11, <1>12, Zenon DEF Headers
    <3>3. ASSUME NEW e \in sn
          PROVE  /\ hlen(e.headerKey) <= len(root) /\ e.headerKey # HeaderKey(root)
                 /\ e.chain = root
      BY <1>7, <1>11, <1>12, Zenon DEF Headers
    <3> QED
      BY <1>3, <3>1, <3>2, <3>3
  <2>2. hlen(r.nextRecvHeaderKey) <= len(root) /\ r.nextRecvHeaderKey # HeaderKey(root)
    BY <1>11, <1>12, Zenon DEF Headers
  <2>3. len(root) <= len(root) /\ hlen(HeaderKey(root)) <= len(root)
    BY <1>9
  <2> QED
    BY <1>3, <1>8, <1>9, <2>1, <2>2, <2>3, ZenonT(60) DEF Headers
<1>14. ~Ahead(q, s) /\ ~Ahead(s, q) /\ ~Ahead(r, q)
  <2>1. ~Ahead(r, q)
    BY <1>1, AheadLonger, Zenon
  <2> QED
    BY <1>3, <2>1 DEF Ahead
<1>15. ASSUME NEW k \in Messages, Written(q, r, k) PROVE Written(q, s, k)
  <2>1. hlen(k.headerKey) <= len(root) /\ k.headerKey # HeaderKey(root)
    BY <1>11, <1>12, <1>15, Zenon DEF Written
  <2>2. k.headerKey = r.nextRecvHeaderKey => k.key[1] = root
    BY <1>4, <1>15, ZenonT(60) DEF Written
  <2>3. \A e \in s.saved : e.headerKey = k.headerKey => e.chain = k.key[1]
    <3>1. \A e \in r.saved : e.headerKey = k.headerKey => e.chain = k.key[1]
      BY <1>15, Zenon DEF Written
    <3>2. \A e \in sk : e.headerKey = k.headerKey => e.chain = k.key[1]
      BY <1>6, <1>15, Zenon DEF Written
    <3>3. \A e \in sn : e.headerKey = k.headerKey => e.chain = k.key[1]
      BY <1>7, <2>2, Zenon
    <3> QED
      BY <1>3, <3>1, <3>2, <3>3
  <2> QED
    BY <1>3, <1>8, <1>14, <1>15, <2>1, <2>2, <2>3, Zenon DEF Written
<1>16. ASSUME NEW k \in Messages, Written(r, q, k) PROVE Written(s, q, k)
  <2>1. len(k.key[1]) <= len(top(s))
    BY <1>8, <1>9, <1>16, RootLen DEF Written
  <2>2. k.headerKey # q.nextRecvHeaderKey
    BY <1>14, <1>16, Zenon DEF Written
  <2>3. s.ratchet # FALSE
    BY <1>3, Zenon
  <2> QED
    BY <1>3, <1>14, <1>16, <2>1, <2>2, <2>3, ZenonT(60) DEF Written, SendSide
<1>17. ASSUME NEW k \in Messages, Reach(r, q, k) PROVE Reach(s, q, k)
  BY <1>14, <1>17, Zenon DEF Reach
<1>18. ASSUME NEW k \in Messages, Reach(q, r, k), Written(q, r, k),
              k.key[1] # m.key[1] \/ k.num # m.num
       PROVE  Reach(q, s, k)
  <2>1. CASE \E e \in r.saved : e.headerKey = k.headerKey /\ e.chain = k.key[1] /\ k.num \in e.nums
    BY <1>3, <2>1, Zenon DEF Reach
  <2>2. CASE k.key[1] = r.recvChainKey /\ k.headerKey = r.recvHeaderKey /\ k.num >= r.recvCount
    <3>1. k.num < m.prev
      BY <1>1, <1>2, <1>18, <2>2, ZenonT(60) DEF Written
    <3>2. PICK e \in sk : k.num \in e.nums
      <4>1. k.num \in Nat /\ k.num >= r.recvCount
        BY <1>5, <2>2, Zenon
      <4> QED
        BY <3>1, <4>1, <1>6
    <3>3. e \in s.saved /\ e.headerKey = k.headerKey /\ e.chain = k.key[1]
      BY <1>3, <1>6, <2>2
    <3> QED
      BY <3>2, <3>3, Zenon DEF Reach
  <2>3. CASE Ahead(q, r) /\ k.key[1] = q.sendChainKey
    <3>1. k.key[1] = root /\ k.headerKey = r.nextRecvHeaderKey /\ k.key[1] = m.key[1]
      BY <1>1, <1>4, <1>18, <2>3, Zenon DEF Written, Ahead
    <3>2. CASE k.num > m.num
      BY <1>3, <1>5, <3>1, <3>2 DEF Reach
    <3>3. CASE k.num < m.num
      <4>1. PICK e \in sn : k.num \in e.nums
        BY <1>5, <1>7, <3>3
      <4>2. e \in s.saved /\ e.headerKey = k.headerKey /\ e.chain = k.key[1]
        BY <1>3, <1>7, <3>1
      <4> QED
        BY <4>1, <4>2, Zenon DEF Reach
    <3> QED
      BY <1>5, <1>18, <3>1, <3>2, <3>3
  <2> QED
    BY <1>18, <2>1, <2>2, <2>3, Zenon DEF Reach
<1> QED
  BY <1>3, <1>8, <1>10, <1>13, <1>15, <1>16, <1>17, <1>18, Zenon DEF s, Carries

(* The sender's step: the chain that it leaves is the one from which the   *)
(* peer receives, and the peer knows the header key of the new one.        *)
LEMMA SendStepLink ==
    ASSUME NEW p \in Parties, NEW r \in Ratchets, NEW q \in Ratchets,
           Headers(r), Headers(q), top(r) \in Roots, r.rootKey = top(r), r.ratchet = TRUE,
           top(q) \in Roots, Pair(r, q)
    PROVE  LET s == sendStep(p, r)
           IN  /\ s \in Ratchets /\ top(s) \in Roots /\ s.rootKey = top(s)
               /\ s.kxPrivate = r.kxPrivate /\ s.ratchet = FALSE
               /\ Ahead(s, q) /\ Headers(s) /\ Carries(r, s, q)
               /\ \A k \in Messages : Reach(q, r, k) => Reach(q, s, k)
<1> DEFINE s == sendStep(p, r)
           root == Append(r.rootKey, {<<p, r.fresh>>, r.recvRatchetPublic})
<1>1. Turn(r, q) /\ ~Ahead(r, q) /\ ~Ahead(q, r)
  BY Zenon DEF Pair, Turn, Ahead
<1>2. /\ root \in Roots /\ Len(root) = Len(r.rootKey) + 1 /\ Len(r.rootKey) \in Nat
      /\ s \in Ratchets /\ s.rootKey = root /\ s.kxPrivate = r.kxPrivate /\ s.ratchet = FALSE
      /\ s.saved = r.saved /\ s.recvCount = r.recvCount /\ RecvSide(r, s)
      /\ s.sendRatchetPrivate = <<p, r.fresh>> /\ s.sendChainKey = root
      /\ s.sendHeaderKey = r.nextSendHeaderKey /\ s.nextSendHeaderKey = HeaderKey(root)
      /\ s.prevSendCount = r.sendCount /\ s.sendCount = 0
  BY SendStepFields, ZenonT(60)
<1>3. top(r) = q.sendChainKey /\ r.recvRatchetPublic = q.sendRatchetPrivate
  BY <1>1, Zenon DEF Turn, Caught, top
<1>4. root = Append(q.sendChainKey, {q.sendRatchetPrivate, <<p, r.fresh>>})
  <2>1. {<<p, r.fresh>>, r.recvRatchetPublic} = {q.sendRatchetPrivate, <<p, r.fresh>>}
    BY <1>3
  <2> QED
    BY <1>3, <2>1, Zenon
<1> HIDE DEF s, root
<1>5. top(s) = root
  BY <1>2, Zenon DEF top
<1>6. len(root) = len(top(r)) + 1 /\ len(top(r)) \in Nat
  BY <1>2, RootLen
<1>7. Ahead(s, q)
  <2>1. q.recvCount <= s.prevSendCount /\ s.sendHeaderKey = q.nextRecvHeaderKey /\ q.ratchet = FALSE
    BY <1>1, <1>2, Zenon DEF Turn, Caught
  <2>2. Caught(s, q)
    BY <1>1, <1>2, Zenon DEF Turn, Caught, RecvSide
  <2> QED
    BY <1>2, <1>4, <2>1, <2>2, Zenon DEF Ahead
<1>8. ~Ahead(q, s)
  BY <1>2, <1>7, AheadLonger, Zenon
<1>9. \A n \in Nat : n <= len(top(r)) => n <= len(root)
  BY <1>6
<1>10. Headers(s)
  <2>1. /\ hlen(r.nextRecvHeaderKey) <= len(root) /\ hlen(r.recvHeaderKey) <= len(root)
        /\ len(r.recvChainKey) <= len(root)
        /\ \A e \in r.saved : hlen(e.headerKey) <= len(root)
    BY <1>9, Fields, Zenon DEF Headers
  <2>2. s.sendHeaderKey # Zero
    BY <1>1, <1>2, Zenon DEF Headers, Turn, Caught
  <2> QED
    BY <1>2, <1>5, <2>1, <2>2, Zenon DEF Headers, RecvSide
<1>11. ASSUME NEW k \in Messages, Written(q, r, k) PROVE Written(q, s, k)
  <2>1. hlen(k.headerKey) <= len(top(s))
    BY <1>5, <1>9, <1>11, KeyLen, Zenon DEF Written, Messages
  <2> QED
    BY <1>1, <1>2, <1>8, <1>11, <2>1, Zenon DEF Written, RecvSide
<1>12. ASSUME NEW k \in Messages, Written(r, q, k) PROVE Written(s, q, k)
  <2>1. len(k.key[1]) <= len(top(s)) /\ k.key[1] # s.sendChainKey
    <3>1. len(k.key[1]) \in Nat /\ len(k.key[1]) <= len(top(r))
      BY <1>12, RootLen, Zenon DEF Written
    <3> QED
      BY <1>2, <1>5, <1>6, <3>1
  <2>2. k.headerKey # q.nextRecvHeaderKey
    BY <1>1, <1>12, Zenon DEF Written
  <2>3. k.key[1] = q.recvChainKey => k.num < s.prevSendCount
    BY <1>1, <1>2, <1>12, Zenon DEF Written, Turn, Caught
  <2> QED
    BY <1>12, <2>1, <2>2, <2>3, Zenon DEF Written
<1>13. ASSUME NEW k \in Messages, Reach(r, q, k) PROVE Reach(s, q, k)
  BY <1>1, <1>13, Zenon DEF Reach
<1>14. ASSUME NEW k \in Messages, Reach(q, r, k) PROVE Reach(q, s, k)
  BY <1>1, <1>2, <1>14, Zenon DEF Reach, RecvSide
<1> QED
  BY <1>2, <1>5, <1>7, <1>10, <1>11, <1>12, <1>13, <1>14, Zenon DEF s, Carries

(* A message is sent in the current chain: the peer can reach its key, and *)
(* no message of the chain has its number.                                 *)
LEMMA SentLink ==
    ASSUME NEW p \in Parties, NEW r \in Ratchets, NEW q \in Ratchets, Headers(r), Headers(q),
           top(r) \in Roots, top(q) \in Roots, r.ratchet = FALSE, Pair(r, q)
    PROVE  LET s == [r EXCEPT !.sendCount = @ + 1]
               k == sealed(p, r)
           IN  /\ s \in Ratchets /\ top(s) = top(r) /\ s.rootKey = r.rootKey
               /\ s.kxPrivate = r.kxPrivate /\ s.ratchet = FALSE /\ s.saved = r.saved
               /\ Pair(s, q) /\ Headers(s) /\ Carries(r, s, q)
               /\ \A m \in Messages : Written(r, q, m) /\ m.key[2] = m.num => m.key # k.key
               /\ \A m \in Messages : Reach(q, r, m) => Reach(q, s, m)
               /\ Written(s, q, k) /\ Reach(s, q, k)
<1> DEFINE n == r.sendCount + 1
           s == [r EXCEPT !.sendCount = n]
           k == sealed(p, r)
<1>1. /\ r.sendCount \in Nat /\ n \in Nat /\ r.sendCount < n /\ q.recvCount \in Nat
      /\ \A m \in Messages : m.num \in Nat /\ m.num < r.sendCount => m.num < n
      /\ q.recvCount <= r.sendCount => q.recvCount <= n
  BY Fields DEF Messages
<1>2. [r EXCEPT !.sendCount = @ + 1] = s
  BY DEF Ratchets
<1>3. /\ k.headerKey = r.sendHeaderKey /\ k.num = r.sendCount /\ k.prev = r.prevSendCount
      /\ k.public = r.sendRatchetPrivate /\ k.key = <<r.sendChainKey, r.sendCount>>
      /\ k.key[1] = r.sendChainKey
  BY DEF sealed
<1> HIDE DEF n, k
<1>4. /\ s \in Ratchets /\ s.rootKey = r.rootKey /\ s.kxPrivate = r.kxPrivate
      /\ s.ratchet = FALSE /\ s.saved = r.saved /\ s.recvCount = r.recvCount /\ RecvSide(r, s)
      /\ s.sendCount = n /\ s.sendRatchetPrivate = r.sendRatchetPrivate
      /\ s.sendChainKey = r.sendChainKey /\ s.sendHeaderKey = r.sendHeaderKey
      /\ s.nextSendHeaderKey = r.nextSendHeaderKey /\ s.prevSendCount = r.prevSendCount
  BY <1>1, Zenon DEF Ratchets, RecvSide
<1> HIDE DEF s
<1>5. top(s) = top(r) /\ top(r) = r.sendChainKey
  BY <1>4, Zenon DEF top
<1>6. (Caught(s, q) <=> Caught(r, q)) /\ (Caught(q, r) => Caught(q, s))
  BY <1>1, <1>4, Zenon DEF Caught, RecvSide
<1>7. Ahead(s, q) <=> Ahead(r, q)
  BY <1>4, <1>6, Zenon DEF Ahead
<1>8. Ahead(q, r) => Ahead(q, s)
  BY <1>4, <1>6, Zenon DEF Ahead, RecvSide
<1>9. Turn(q, r) => Turn(q, s)
  BY <1>4, <1>6, Zenon DEF Turn
<1>10. Turn(q, r) \/ Ahead(r, q) \/ Ahead(q, r)
  BY Zenon DEF Pair, Turn
<1>11. Ahead(q, s) => Ahead(q, r)
  <2>1. Ahead(q, s) => ~Ahead(s, q)
    BY <1>4, <1>5, AheadLonger, Zenon
  <2>2. Ahead(q, s) => ~Turn(q, r)
    BY DEF Ahead, Turn
  <2> QED
    BY <1>7, <1>10, <2>1, <2>2
<1>12. Pair(s, q)
  BY <1>7, <1>8, <1>9, <1>10, Zenon DEF Pair
<1>13. Headers(s)
  BY <1>4, <1>5, Zenon DEF Headers, RecvSide
<1>14. ASSUME NEW m \in Messages, Written(q, r, m) PROVE Written(q, s, m)
  BY <1>4, <1>5, <1>8, <1>11, <1>14, Zenon DEF Written, RecvSide
<1>15. ASSUME NEW m \in Messages, Written(r, q, m)
       PROVE  Written(s, q, m) /\ (m.key[2] = m.num => m.key # k.key)
  <2>1. m.key[1] = r.sendChainKey => m.num < n
    BY <1>1, <1>15, Zenon DEF Written, Messages
  <2>2. Written(s, q, m)
    BY <1>4, <1>5, <1>7, <1>15, <2>1, Zenon DEF Written
  <2>3. m.key[1] = r.sendChainKey => m.num # r.sendCount
    BY <1>1, <1>15 DEF Written, Messages
  <2>4. k.key[2] = r.sendCount
    BY <1>3
  <2> QED
    BY <1>3, <2>2, <2>3, <2>4, Zenon
<1>16. ASSUME NEW m \in Messages, Reach(r, q, m) PROVE Reach(s, q, m)
  BY <1>4, <1>7, <1>16, Zenon DEF Reach
<1>17. ASSUME NEW m \in Messages, Reach(q, r, m) PROVE Reach(q, s, m)
  BY <1>4, <1>8, <1>17, Zenon DEF Reach, RecvSide
<1>18. /\ k.headerKey # Zero /\ k.key[1] \in Roots /\ k.key[1] = top(s)
       /\ len(top(s)) <= len(top(s))
  <2>1. len(top(s)) <= len(top(s))
    BY <1>4, Fields
  <2> QED
    BY <1>3, <1>5, <2>1, Zenon DEF Headers
<1>19. CASE Ahead(r, q)
  <2>1. Ahead(s, q) /\ k.headerKey = q.nextRecvHeaderKey /\ k.key[1] = s.sendChainKey
    BY <1>3, <1>4, <1>7, <1>19, Zenon DEF Ahead
  <2>2. k.key[1] # q.recvChainKey
    <3>1. len(k.key[1]) = len(top(q)) + 1
      BY <1>3, <1>5, <1>19, AheadLonger, ZenonT(60)
    <3>2. len(q.recvChainKey) <= len(top(q)) /\ len(q.recvChainKey) \in Nat /\ len(top(q)) \in Nat
      BY Fields DEF Headers
    <3> QED
      BY <3>1, <3>2
  <2>3. /\ hlen(k.headerKey) <= len(top(q)) /\ k.headerKey # q.recvHeaderKey
        /\ \A e \in q.saved : e.headerKey # k.headerKey
    BY <2>1, Zenon DEF Headers
  <2>4. Written(s, q, k)
    BY <1>1, <1>3, <1>4, <1>18, <2>1, <2>2, <2>3, Zenon DEF Written
  <2> QED
    BY <1>2, <1>4, <1>5, <1>12, <1>13, <1>14, <1>15, <1>16, <1>17, <2>1, <2>4, Zenon
    DEF Reach, k, Carries
<1>20. CASE Caught(q, r) /\ ~Ahead(r, q)
  <2>1. k.headerKey = q.recvHeaderKey /\ k.key[1] = q.recvChainKey /\ k.num >= q.recvCount
    BY <1>1, <1>3, <1>20 DEF Caught
  <2>2. /\ hlen(k.headerKey) <= len(top(q)) /\ k.headerKey # q.nextRecvHeaderKey
        /\ \A e \in q.saved : e.headerKey = k.headerKey => e.chain = k.key[1]
    BY <2>1, Zenon DEF Headers
  <2>3. Written(s, q, k)
    BY <1>1, <1>3, <1>4, <1>7, <1>18, <1>20, <2>1, <2>2, Zenon DEF Written
  <2> QED
    BY <1>2, <1>4, <1>5, <1>12, <1>13, <1>14, <1>15, <1>16, <1>17, <2>1, <2>3, ZenonT(60)
    DEF Reach, k, Carries
<1> QED
  BY <1>10, <1>19, <1>20, Zenon DEF Turn, Ahead

-----------------------------------------------------------------------------
(* The steps of the protocol. *)

(* A step of x to a ratchet that keeps the two in step: what has to be     *)
(* shown of it.                                                            *)
LEMMA Recombine ==
    ASSUME LinkInv, NEW x \in Parties, NEW s, full(x)' = s,
           full(Other(x))' = full(Other(x)), Rooted(x)', Rooted(Other(x))',
           Headers(s), Pair(s, full(Other(x))), \A m \in sent' : m.to \in Parties, OneKey',
           \A m \in sent' : m.to = x =>
               /\ Written(full(Other(x)), s, m)
               /\ decrypted'[m] = 0 /\ m.key \notin expired' => Reach(full(Other(x)), s, m),
           \A m \in sent' : m.to = Other(x) =>
               /\ Written(s, full(Other(x)), m)
               /\ decrypted'[m] = 0 /\ m.key \notin expired' => Reach(s, full(Other(x)), m)
    PROVE  LinkInv'
<1> DEFINE y == Other(x)
<1>1. y \in Parties /\ y # x /\ Other(y) = x /\ \A p \in Parties : p = x \/ p = y
  BY TwoParties, Zenon
<1>2. Headers(full(y)) /\ Pair(full(y), s)
  BY <1>1, Zenon DEF LinkInv, Pair
<1> HIDE DEF y
<1>3. \A p \in Parties : Rooted(p)' /\ Headers(full(p)') /\ Pair(full(p)', full(Other(p))')
  <2>1. Rooted(x)' /\ Headers(full(x)') /\ Pair(full(x)', full(Other(x))')
    BY Zenon
  <2>2. Rooted(y)' /\ Headers(full(y)') /\ Pair(full(y)', full(Other(y))')
    BY <1>1, <1>2, Zenon DEF y
  <2> QED
    BY <1>1, <2>1, <2>2, Zenon
<1>4. ASSUME NEW m \in sent'
      PROVE  Written(full(Other(m.to))', full(m.to)', m) /\ Kept(m)'
  <2>1. CASE m.to = x
    <3>1. full(m.to)' = s /\ full(Other(m.to))' = full(Other(x))
      BY <2>1, Zenon
    <3> QED
      BY <2>1, <3>1, Zenon DEF Kept
  <2>2. CASE m.to = y
    <3>1. full(m.to)' = full(Other(x)) /\ full(Other(m.to))' = s
      BY <1>1, <2>2, Zenon DEF y
    <3> QED
      BY <2>2, <3>1, Zenon DEF Kept, y
  <2> QED
    BY <1>1, <2>1, <2>2
<1> QED
  BY <1>3, <1>4, Zenon DEF LinkInv

(* The ratchet of a party, and the invariant for it. *)
LEMMA LinkOf ==
    ASSUME IInv, LinkInv, NEW x \in Parties, ratchet[x].kxPrivate = FALSE
    PROVE  LET r == ratchet[x]
               q == full(Other(x))
           IN  /\ r = full(x) /\ r \in Ratchets /\ q \in Ratchets
               /\ Headers(r) /\ Headers(q) /\ Pair(r, q) /\ top(r) \in Roots /\ top(q) \in Roots
               /\ IF x \in broken THEN r.ratchet = FALSE ELSE r.rootKey = top(r)
               /\ \A m \in sent :
                     /\ m \in Messages /\ m.key[2] = m.num
                     /\ m.to = x \/ m.to = Other(x)
                     /\ m.to = x => /\ Written(q, r, m)
                                    /\ decrypted[m] = 0 /\ m.key \notin expired => Reach(q, r, m)
                     /\ m.to = Other(x) =>
                           /\ Written(r, q, m)
                           /\ decrypted[m] = 0 /\ m.key \notin expired => Reach(r, q, m)
<1> DEFINE q == full(Other(x))
<1>1. ratchet[x] = full(x)
  BY DEF full
<1>2. /\ Other(x) \in Parties /\ Other(Other(x)) = x
      /\ \A p \in Parties : p = x \/ p = Other(x)
  BY TwoParties, Zenon
<1>3. Rooted(x) /\ Headers(full(x)) /\ Pair(full(x), q)
  BY Zenon DEF LinkInv
<1>4. Rooted(Other(x)) /\ Headers(q)
  BY <1>2, Zenon DEF LinkInv
<1>5. \A m \in sent : m \in Messages /\ m.key[2] = m.num /\ m.to \in Parties
  BY DEF IInv, TypeOK, Messages
<1>6. ASSUME NEW m \in sent, m.to = x
      PROVE  /\ Written(q, full(x), m)
             /\ decrypted[m] = 0 /\ m.key \notin expired => Reach(q, full(x), m)
  BY <1>6, Zenon DEF LinkInv, Kept
<1>7. ASSUME NEW m \in sent, m.to = Other(x)
      PROVE  /\ Written(full(x), q, m)
             /\ decrypted[m] = 0 /\ m.key \notin expired => Reach(full(x), q, m)
  BY <1>2, <1>7, Zenon DEF LinkInv, Kept
<1> HIDE DEF q
<1>8. \A m \in sent : m.to = x \/ m.to = Other(x)
  BY <1>2, <1>5, Zenon
<1>9. /\ full(x) \in Ratchets /\ top(full(x)) \in Roots
      /\ IF x \in broken THEN full(x).ratchet = FALSE ELSE full(x).rootKey = top(full(x))
  BY <1>3, Zenon DEF Rooted
<1>10. q \in Ratchets /\ top(q) \in Roots
  BY <1>4, Zenon DEF Rooted, q
<1> QED
  BY <1>1, <1>3, <1>4, <1>5, <1>6, <1>7, <1>8, <1>9, <1>10, Zenon DEF q

(* A step that replaces the ratchet of x leaves the peer as it is. *)
LEMMA FullStep ==
    ASSUME IInv, LinkInv, NEW x \in Parties, NEW s, s.kxPrivate = FALSE,
           ratchet' = [ratchet EXCEPT ![x] = s],
           \A p \in Parties : p # x => (p \in broken' <=> p \in broken)
    PROVE  /\ ratchet'[x] = s /\ full(x)' = s
           /\ full(Other(x))' = full(Other(x)) /\ Rooted(Other(x))'
<1>1. Other(x) \in Parties /\ Other(x) # x
  BY TwoParties, Zenon
<1>2. ratchet'[x] = s /\ ratchet'[Other(x)] = ratchet[Other(x)]
  BY <1>1 DEF IInv, TypeOK
<1>3. full(x)' = s
  BY <1>2 DEF full
<1>4. full(Other(x))' = full(Other(x))
  BY <1>2, Zenon DEF full
<1>5. Rooted(Other(x))
  BY <1>1, Zenon DEF LinkInv
<1>6. Rooted(Other(x))'
  BY <1>1, <1>2, <1>4, <1>5, Zenon DEF Rooted
<1> QED
  BY <1>2, <1>3, <1>4, <1>6

(* A step of x that stays in its chains. *)
LEMMA SameStep ==
    ASSUME IInv, LinkInv, NEW x \in Parties, NEW s \in Ratchets, ratchet[x].kxPrivate = FALSE,
           s.kxPrivate = FALSE, ratchet' = [ratchet EXCEPT ![x] = s], sent' = sent,
           Continues(ratchet[x], s, full(Other(x))),
           \/ broken' = broken /\ s.rootKey = ratchet[x].rootKey
           \/ broken' = broken \cup {x} /\ s.ratchet = FALSE,
           \A m \in sent : decrypted'[m] = 0 /\ m.key \notin expired' =>
                              decrypted[m] = 0 /\ m.key \notin expired,
           \A m \in sent : m.to = x /\ decrypted'[m] = 0 /\ m.key \notin expired' =>
                              KeepsReach(full(Other(x)), ratchet[x], s, m)
    PROVE  LinkInv'
<1> DEFINE r == ratchet[x]
           q == full(Other(x))
<1>1. /\ r \in Ratchets /\ q \in Ratchets /\ Headers(r) /\ Pair(r, q) /\ top(r) \in Roots
      /\ IF x \in broken THEN r.ratchet = FALSE ELSE r.rootKey = top(r)
      /\ \A m \in sent :
            /\ m \in Messages /\ (m.to = x \/ m.to = Other(x))
            /\ m.to = x => /\ Written(q, r, m)
                           /\ decrypted[m] = 0 /\ m.key \notin expired => Reach(q, r, m)
            /\ m.to = Other(x) =>
                  /\ Written(r, q, m)
                  /\ decrypted[m] = 0 /\ m.key \notin expired => Reach(r, q, m)
  BY LinkOf, Zenon
<1>2. /\ ratchet'[x] = s /\ full(x)' = s
      /\ full(Other(x))' = q /\ Rooted(Other(x))'
  <2>1. \A p \in Parties : p # x => (p \in broken' <=> p \in broken)
    OBVIOUS
  <2> QED
    BY <2>1, FullStep, Zenon
<1>3. SameLink(r, s) /\ SavedLike(r, s) /\ Fits(s, r, q)
  BY DEF Continues
<1>4. \A m \in sent : m.to = x /\ decrypted'[m] = 0 /\ m.key \notin expired' =>
                         KeepsReach(q, r, s, m)
  BY Zenon
<1> HIDE DEF r, q
<1>5. Pair(s, q) /\ top(s) = top(r) /\ (Ahead(q, s) <=> Ahead(q, r))
  BY <1>1, <1>3, SamePair, Zenon
<1>6. Headers(s) /\ Carries(r, s, q)
  BY <1>1, <1>3, SameMessages, Zenon
<1>7. Rooted(x)'
  <2>1. s.ratchet = r.ratchet
    BY <1>3, Zenon DEF SameLink
  <2>2. IF x \in broken' THEN s.ratchet = FALSE ELSE s.rootKey = top(s)
    BY <1>1, <1>5, <2>1, Zenon DEF r
  <2>3. s.kxPrivate # TRUE
    BY Zenon
  <2> QED
    BY <1>1, <1>2, <1>5, <2>2, <2>3, Zenon DEF Rooted
<1>8. \A m \in sent' : m.to \in Parties
  BY <1>1, OtherParty, Zenon
<1>9. OneKey'
  BY Zenon DEF LinkInv, OneKey
<1>10. ASSUME NEW m \in sent', m.to = x
       PROVE  /\ Written(q, s, m)
              /\ decrypted'[m] = 0 /\ m.key \notin expired' => Reach(q, s, m)
  BY <1>1, <1>4, <1>5, <1>6, <1>10, Zenon DEF KeepsReach, Carries
<1>11. ASSUME NEW m \in sent', m.to = Other(x)
       PROVE  /\ Written(s, q, m)
              /\ decrypted'[m] = 0 /\ m.key \notin expired' => Reach(s, q, m)
  BY <1>1, <1>6, <1>11, Zenon DEF Carries
<1> QED
  BY <1>2, <1>5, <1>6, <1>7, <1>8, <1>9, <1>10, <1>11, Recombine, Zenon DEF q

(* A step that leaves the ratchets as they are, or completes the key       *)
(* exchange.                                                               *)
LEMMA StutterStep ==
    ASSUME LinkInv, IInv, \A p \in Parties : full(p)' = full(p) /\ Rooted(p)', sent' = sent,
           \A m \in sent : decrypted'[m] = 0 /\ m.key \notin expired' =>
                              decrypted[m] = 0 /\ m.key \notin expired
    PROVE  LinkInv'
<1>1. \A p \in Parties : Other(p) \in Parties
  BY OtherParty
<1>2. \A p \in Parties : Rooted(p)' /\ Headers(full(p)') /\ Pair(full(p)', full(Other(p))')
  BY <1>1, Zenon DEF LinkInv
<1>3. \A m \in sent : m.to \in Parties
  BY DEF IInv, TypeOK, Messages
<1>4. ASSUME NEW m \in sent'
      PROVE  Written(full(Other(m.to))', full(m.to)', m) /\ Kept(m)'
  <2>1. full(m.to)' = full(m.to) /\ full(Other(m.to))' = full(Other(m.to))
    BY <1>1, <1>3, Zenon
  <2>2. Written(full(Other(m.to)), full(m.to), m) /\ Kept(m)
    BY Zenon DEF LinkInv
  <2> QED
    BY <2>1, <2>2, Zenon DEF Kept
<1>5. OneKey'
  BY Zenon DEF LinkInv, OneKey
<1> QED
  BY <1>2, <1>4, <1>5, Zenon DEF LinkInv

(* The outcomes of Decrypt. *)
LEMMA Outcomes ==
    ASSUME NEW r \in Ratchets, NEW m \in Messages, m.key[2] = m.num, NEW o \in DecryptWith(r, m)
    PROVE  \/ o.err # "nil" /\ o.ratchet = r
           \/ /\ o.err # "nil" /\ r.ratchet = FALSE
              /\ o.ratchet = [r EXCEPT !.rootKey = received(r, m)]
           \/ /\ o.err = "nil"
              /\ \E e \in r.saved : /\ m.num \in e.nums /\ e.chain = m.key[1]
                                    /\ o.ratchet = usedSaved(r, e, m)
           \/ /\ o.err = "nil" /\ o.ratchet = readOn(r, m) /\ m.headerKey = r.recvHeaderKey
              /\ m.num >= r.recvCount /\ m.key[1] = r.recvChainKey
           \/ /\ o.err = "nil" /\ o.ratchet = stepped(r, m) /\ r.ratchet = FALSE
              /\ m.headerKey = r.nextRecvHeaderKey
<1>1. CASE o = advance(r, m)
  <2>1. CASE m.headerKey = r.recvHeaderKey /\ advance(r, m) = inChain(r, m)
    <3>1. \/ o.err # "nil" /\ o.ratchet = r
          \/ /\ o.err = "nil" /\ o.ratchet = readOn(r, m)
             /\ m.num >= r.recvCount /\ m.key[1] = r.recvChainKey
      BY <1>1, <2>1, InChainCases
    <3> QED
      BY <2>1, <3>1, Zenon
  <2>2. CASE m.headerKey = r.nextRecvHeaderKey /\ advance(r, m) = recvStep(r, m)
    BY <1>1, <2>2, RecvStepCases, ZenonT(60)
  <2>3. CASE advance(r, m) = Outcome("cannotDecrypt", r)
    BY <1>1, <2>3 DEF Outcome
  <2> QED
    BY <2>1, <2>2, <2>3, Zenon DEF advance
<1>2. CASE o = Outcome("corrupt", r)
  BY <1>2 DEF Outcome
<1>3. ASSUME NEW e \in r.saved, m.num \in e.nums, m.key = <<e.chain, m.num>>,
             o = Outcome("nil", usedSaved(r, e, m))
      PROVE  o.err = "nil" /\ e.chain = m.key[1] /\ o.ratchet = usedSaved(r, e, m)
  BY <1>3 DEF Outcome
<1> QED
  BY <1>1, <1>2, <1>3, Zenon DEF DecryptWith

(* Two messages to the same party have different keys. *)
LEMMA OtherKey ==
    ASSUME IInv, LinkInv, NEW m \in sent, NEW k \in sent, m.to = k.to, k # m
    PROVE  k.key[1] # m.key[1] \/ k.num # m.num
<1>1. m.key \in Chains \X Nat /\ k.key \in Chains \X Nat /\ m.key[2] = m.num /\ k.key[2] = k.num
  BY DEF IInv, TypeOK, Messages
<1>2. m.key # k.key
  BY Zenon DEF LinkInv, OneKey
<1> QED
  BY <1>1, <1>2

(* Decrypt. *)
LEMMA DecryptLink ==
    ASSUME IInv, LinkInv, NEW x \in Parties, Decrypt(x)
    PROVE  LinkInv'
<1> DEFINE r == ratchet[x]
           q == full(Other(x))
<1>1. r.kxPrivate = FALSE /\ x \notin broken /\ sent' = sent /\ expired' = expired
  BY RatchetOf, Zenon DEF Decrypt
<1>2. PICK m \in sent : m.to = x /\ \E o \in DecryptWith(r, m) :
         /\ ratchet' = [ratchet EXCEPT ![x] = o.ratchet]
         /\ decrypted' = [decrypted EXCEPT ![m] = IF o.err = "nil" THEN @ + 1 ELSE @]
         /\ broken' = IF o.err # "nil" /\ o.ratchet # r THEN broken \cup {x} ELSE broken
  BY Zenon DEF Decrypt
<1>3. PICK o \in DecryptWith(r, m) :
         /\ ratchet' = [ratchet EXCEPT ![x] = o.ratchet]
         /\ decrypted' = [decrypted EXCEPT ![m] = IF o.err = "nil" THEN @ + 1 ELSE @]
         /\ broken' = IF o.err # "nil" /\ o.ratchet # r THEN broken \cup {x} ELSE broken
  BY <1>2, Zenon
<1>4. /\ r = full(x) /\ r \in Ratchets /\ q \in Ratchets
      /\ Headers(r) /\ Headers(q) /\ Pair(r, q) /\ top(r) \in Roots /\ top(q) \in Roots
      /\ r.rootKey = top(r)
  BY <1>1, LinkOf, Zenon
<1>5. \A k \in sent :
         /\ k \in Messages /\ k.key[2] = k.num /\ (k.to = x \/ k.to = Other(x))
         /\ k.to = x => /\ Written(q, r, k)
                        /\ decrypted[k] = 0 /\ k.key \notin expired => Reach(q, r, k)
         /\ k.to = Other(x) =>
               /\ Written(r, q, k)
               /\ decrypted[k] = 0 /\ k.key \notin expired => Reach(r, q, k)
  BY <1>1, LinkOf, Zenon
<1>6. decrypted \in [sent -> Nat]
  BY DEF IInv, TypeOK
<1>7. \A k \in sent : decrypted'[k] = 0 => decrypted[k] = 0 /\ (o.err = "nil" => k # m)
  BY <1>3, <1>6
<1>8. \A k \in sent : k.to = x /\ k # m => k.key[1] # m.key[1] \/ k.num # m.num
  BY <1>2, OtherKey, ZenonT(60)
<1> HIDE DEF r, q
<1>9. ASSUME NEW s, s.recvCount = r.recvCount, s \in Ratchets PROVE Fits(s, r, q)
  <2>1. r.recvCount \in Nat
    BY <1>4, Fields, Zenon
  <2>2. /\ Ahead(q, r) => r.recvCount <= q.prevSendCount
        /\ Caught(r, q) => r.recvCount <= q.sendCount
    BY Zenon DEF Ahead, Caught
  <2> QED
    BY <1>9, <2>1, <2>2 DEF Fits
<1>10. CASE o.err # "nil" /\ o.ratchet = r
  <2>1. ratchet' = ratchet /\ broken' = broken
    BY <1>3, <1>10 DEF r, IInv, TypeOK
  <2>2. \A p \in Parties : full(p)' = full(p) /\ Rooted(p)'
    BY <2>1, Zenon DEF full, Rooted, LinkInv
  <2> QED
    BY <1>1, <1>7, <2>2, StutterStep, Zenon
<1>11. ASSUME o.err # "nil", r.ratchet = FALSE, NEW root, o.ratchet = [r EXCEPT !.rootKey = root],
              o.ratchet # r
       PROVE  LinkInv'
  <2> DEFINE s == o.ratchet
  <2>1. s.rootKey = root
    BY <1>4, <1>11, Zenon DEF Ratchets
  <2>2. s \in Ratchets
    BY <1>3, DecryptSound, RatchetOf, <1>1, <1>4, <1>5, Zenon DEF Sound, r
  <2>3. /\ SameLink(r, s) /\ s.saved = r.saved /\ s.recvCount = r.recvCount
        /\ s.kxPrivate = r.kxPrivate
    BY <1>4, <1>11 DEF Ratchets, SameLink, SendSide, RecvSide
  <2> HIDE DEF s
  <2>4. SavedLike(r, s)
    BY <2>3, Zenon DEF SavedLike
  <2>5. Fits(s, r, q)
    BY <1>9, <2>2, <2>3, Zenon
  <2>6. broken' = broken \cup {x} /\ s.ratchet = FALSE /\ ratchet' = [ratchet EXCEPT ![x] = s]
    BY <1>3, <1>11, <2>3, Zenon DEF s, SameLink
  <2>7. \A k : KeepsReach(q, r, s, k)
    BY <2>3, Zenon DEF Reach, SameLink, RecvSide, KeepsReach
  <2>8. s.kxPrivate = FALSE /\ Continues(r, s, q)
    BY <1>1, <2>3, <2>4, <2>5, Zenon DEF Continues
  <2> QED
    BY <1>1, <1>7, <2>2, <2>6, <2>7, <2>8, SameStep, Zenon DEF r, q
<1>12. ASSUME o.err = "nil", NEW e \in r.saved, m.num \in e.nums, e.chain = m.key[1],
              o.ratchet = usedSaved(r, e, m)
       PROVE  LinkInv'
  <2> DEFINE s == usedSaved(r, e, m)
  <2>1. /\ SameLink(r, s) /\ s.recvCount = r.recvCount /\ SavedLike(r, s)
        /\ s.rootKey = r.rootKey /\ s.kxPrivate = r.kxPrivate
        /\ \A k \in Messages : k.key[1] # m.key[1] \/ k.num # m.num =>
                                  KeepsReach(q, r, s, k)
    BY <1>4, <1>5, <1>12, UsedLink, ZenonT(60)
  <2>2. s \in Ratchets
    BY <1>1, <1>4, <1>5, <1>12, RatchetOf, UsedSaved, Zenon DEF Sound, r
  <2> HIDE DEF s
  <2>3. Fits(s, r, q)
    BY <1>9, <2>1, <2>2, Zenon
  <2>4. broken' = broken /\ ratchet' = [ratchet EXCEPT ![x] = s]
    BY <1>3, <1>12, Zenon DEF s
  <2>5. \A k \in sent : k.to = x /\ decrypted'[k] = 0 => KeepsReach(q, r, s, k)
    BY <1>5, <1>7, <1>8, <1>12, <2>1, Zenon
  <2>6. s.kxPrivate = FALSE /\ Continues(r, s, q)
    BY <1>1, <2>1, <2>3, Zenon DEF Continues
  <2> QED
    BY <1>1, <1>7, <2>1, <2>2, <2>4, <2>5, <2>6, SameStep, Zenon DEF r, q
<1>13. ASSUME o.err = "nil", o.ratchet = readOn(r, m), m.headerKey = r.recvHeaderKey,
              m.num >= r.recvCount, m.key[1] = r.recvChainKey
       PROVE  LinkInv'
  <2> DEFINE s == readOn(r, m)
  <2>1. /\ SavedLike(r, s) /\ Fits(s, r, q)
        /\ \A k \in Messages : k.key[1] # m.key[1] \/ k.num # m.num =>
                                  KeepsReach(q, r, s, k)
    BY <1>2, <1>4, <1>5, <1>13, ReadOnLink, Zenon
  <2>2. /\ s \in Ratchets /\ s.rootKey = r.rootKey /\ s.kxPrivate = r.kxPrivate
        /\ SameLink(r, s)
    BY <1>4, <1>5, ReadOnFields, Zenon
  <2> HIDE DEF s
  <2>3. broken' = broken /\ ratchet' = [ratchet EXCEPT ![x] = s]
    BY <1>3, <1>13, Zenon DEF s
  <2>4. \A k \in sent : k.to = x /\ decrypted'[k] = 0 => KeepsReach(q, r, s, k)
    BY <1>5, <1>7, <1>8, <1>13, <2>1, Zenon
  <2>5. s.kxPrivate = FALSE /\ Continues(r, s, q)
    BY <1>1, <2>1, <2>2, Zenon DEF Continues
  <2> QED
    BY <1>1, <1>7, <2>2, <2>3, <2>4, <2>5, SameStep, Zenon DEF r, q
<1>14. ASSUME o.err = "nil", o.ratchet = stepped(r, m), r.ratchet = FALSE,
              m.headerKey = r.nextRecvHeaderKey
       PROVE  LinkInv'
  <2> DEFINE s == stepped(r, m)
  <2>1. /\ s \in Ratchets /\ top(s) \in Roots /\ s.rootKey = top(s) /\ s.kxPrivate = r.kxPrivate
        /\ Turn(s, q) /\ Headers(s) /\ Carries(r, s, q)
        /\ \A k \in Messages : /\ Reach(q, r, k) /\ Written(q, r, k)
                               /\ k.key[1] # m.key[1] \/ k.num # m.num
                               => Reach(q, s, k)
    <3>1. /\ m \in Messages /\ Written(q, r, m) /\ r.ratchet = FALSE
          /\ m.headerKey = r.nextRecvHeaderKey
      BY <1>2, <1>5, <1>14, Zenon
    <3>2. /\ r \in Ratchets /\ q \in Ratchets /\ Headers(r) /\ Headers(q)
          /\ top(r) \in Roots /\ r.rootKey = top(r)
      BY <1>4, Zenon
    <3> HIDE DEF s
    <3>3. /\ s \in Ratchets /\ top(s) \in Roots /\ s.rootKey = top(s)
          /\ s.kxPrivate = r.kxPrivate
          /\ Turn(s, q) /\ Headers(s) /\ Carries(r, s, q)
      BY <3>1, <3>2, SteppedLink, ZenonT(60) DEF s
    <3>4. \A k \in Messages : /\ Reach(q, r, k) /\ Written(q, r, k)
                              /\ k.key[1] # m.key[1] \/ k.num # m.num
                              => Reach(q, s, k)
      BY <3>1, <3>2, SteppedLink, Zenon DEF s
    <3> QED
      BY <3>3, <3>4, Zenon
  <2> HIDE DEF s
  <2>2. broken' = broken /\ ratchet' = [ratchet EXCEPT ![x] = s] /\ s.kxPrivate = FALSE
    BY <1>1, <1>3, <1>14, <2>1, Zenon DEF s, r
  <2>3. ratchet'[x] = s /\ full(x)' = s /\ full(Other(x))' = full(Other(x)) /\ Rooted(Other(x))'
    BY <2>2, FullStep, Zenon
  <2>4. Rooted(x)'
    BY <1>1, <2>1, <2>2, <2>3, Zenon DEF Rooted
  <2>5. \A k \in sent' : k.to \in Parties
    BY <1>1, <1>5, OtherParty, Zenon
  <2>6. OneKey'
    BY <1>1, Zenon DEF LinkInv, OneKey
  <2>7. ASSUME NEW k \in sent', k.to = x
        PROVE  /\ Written(q, s, k)
               /\ decrypted'[k] = 0 /\ k.key \notin expired' => Reach(q, s, k)
    BY <1>1, <1>5, <1>7, <1>8, <1>14, <2>1, <2>7, Zenon DEF Carries
  <2>8. ASSUME NEW k \in sent', k.to = Other(x)
        PROVE  /\ Written(s, q, k)
               /\ decrypted'[k] = 0 /\ k.key \notin expired' => Reach(s, q, k)
    BY <1>1, <1>5, <1>7, <2>1, <2>8, Zenon DEF Carries
  <2> QED
    BY <2>1, <2>3, <2>4, <2>5, <2>6, <2>7, <2>8, Recombine, Zenon DEF q, Pair
<1>15. \/ o.err # "nil" /\ o.ratchet = r
       \/ /\ o.err # "nil" /\ r.ratchet = FALSE
          /\ o.ratchet = [r EXCEPT !.rootKey = received(r, m)]
       \/ /\ o.err = "nil"
          /\ \E e \in r.saved : /\ m.num \in e.nums /\ e.chain = m.key[1]
                                /\ o.ratchet = usedSaved(r, e, m)
       \/ /\ o.err = "nil" /\ o.ratchet = readOn(r, m) /\ m.headerKey = r.recvHeaderKey
          /\ m.num >= r.recvCount /\ m.key[1] = r.recvChainKey
       \/ /\ o.err = "nil" /\ o.ratchet = stepped(r, m) /\ r.ratchet = FALSE
          /\ m.headerKey = r.nextRecvHeaderKey
  <2>1. m \in Messages /\ m.key[2] = m.num
    BY <1>5
  <2> QED
    BY <1>4, <2>1, Outcomes, ZenonT(60)
<1> QED
  BY <1>10, <1>11, <1>12, <1>13, <1>14, <1>15, Zenon

(* Encrypt, as far as the two ratchets and the messages go. *)
LEMMA EncryptKeeps ==
    ASSUME NEW p \in Parties, NEW r \in Ratchets, NEW q \in Ratchets, Headers(r), Headers(q),
           top(r) \in Roots, top(q) \in Roots, Pair(r, q), r.ratchet = TRUE => r.rootKey = top(r)
    PROVE  LET u == IF r.ratchet THEN sendStep(p, r) ELSE r
               s == [u EXCEPT !.sendCount = @ + 1]
               k == sealed(p, u)
           IN  /\ s \in Ratchets /\ top(s) \in Roots /\ s.kxPrivate = r.kxPrivate
               /\ s.ratchet = FALSE /\ (r.rootKey = top(r) => s.rootKey = top(s))
               /\ Pair(s, q) /\ Headers(s) /\ Carries(r, s, q)
               /\ \A m \in Messages : Written(r, q, m) /\ m.key[2] = m.num => m.key # k.key
               /\ \A m \in Messages : Reach(q, r, m) => Reach(q, s, m)
               /\ Written(s, q, k) /\ Reach(s, q, k)
<1> DEFINE u == IF r.ratchet THEN sendStep(p, r) ELSE r
           s == [u EXCEPT !.sendCount = @ + 1]
           k == sealed(p, u)
<1>1. r.ratchet \in BOOLEAN
  BY Fields
<1>2. /\ u \in Ratchets /\ top(u) \in Roots /\ u.kxPrivate = r.kxPrivate /\ u.ratchet = FALSE
      /\ r.rootKey = top(r) => u.rootKey = top(u)
      /\ Pair(u, q) /\ Headers(u) /\ Carries(r, u, q)
      /\ \A m \in Messages : Reach(q, r, m) => Reach(q, u, m)
  <2>1. CASE r.ratchet = TRUE
    BY <2>1, SendStepLink, Zenon DEF Pair
  <2>2. CASE r.ratchet = FALSE
    BY <2>2, Zenon DEF Carries
  <2> QED
    BY <1>1, <2>1, <2>2, Zenon
<1> HIDE DEF u
<1>3. /\ s \in Ratchets /\ top(s) = top(u) /\ s.rootKey = u.rootKey
      /\ s.kxPrivate = u.kxPrivate /\ s.ratchet = FALSE
      /\ Pair(s, q) /\ Headers(s) /\ Carries(u, s, q)
      /\ \A m \in Messages : Written(u, q, m) /\ m.key[2] = m.num => m.key # k.key
      /\ \A m \in Messages : Reach(q, u, m) => Reach(q, s, m)
      /\ Written(s, q, k) /\ Reach(s, q, k)
  BY <1>2, SentLink, Zenon
<1> HIDE DEF s, k
<1>4. /\ s \in Ratchets /\ top(s) \in Roots /\ s.kxPrivate = r.kxPrivate
      /\ s.ratchet = FALSE /\ (r.rootKey = top(r) => s.rootKey = top(s))
  BY <1>2, <1>3, Zenon
<1>5. /\ Carries(r, s, q)
      /\ \A m \in Messages : Written(r, q, m) /\ m.key[2] = m.num => m.key # k.key
      /\ \A m \in Messages : Reach(q, r, m) => Reach(q, s, m)
  BY <1>2, <1>3, Zenon DEF Carries
<1> QED
  BY <1>3, <1>4, <1>5, Zenon DEF s, k, u

(* Encrypt. *)
LEMMA EncryptLink ==
    ASSUME IInv, LinkInv, NEW x \in Parties, Encrypt(x)
    PROVE  LinkInv'
<1> DEFINE r == ratchet[x]
           q == full(Other(x))
           u == IF r.ratchet THEN sendStep(x, r) ELSE r
           s == [u EXCEPT !.sendCount = @ + 1]
           k == sealed(x, u)
<1>1. r.kxPrivate = FALSE /\ expired' = expired /\ broken' = broken
  BY RatchetOf, Zenon DEF Encrypt
<1>2. /\ ratchet' = [ratchet EXCEPT ![x] = s] /\ sent' = sent \cup {k}
      /\ decrypted' = [n \in sent' |-> IF n \in sent THEN decrypted[n] ELSE 0]
  BY DEF Encrypt, ratcheted
<1>3. k.to = Other(x) /\ Other(x) # x /\ Other(x) \in Parties
  BY TwoParties DEF sealed
<1>4. /\ r = full(x) /\ r \in Ratchets /\ q \in Ratchets
      /\ Headers(r) /\ Headers(q) /\ Pair(r, q) /\ top(r) \in Roots /\ top(q) \in Roots
      /\ IF x \in broken THEN r.ratchet = FALSE ELSE r.rootKey = top(r)
  BY <1>1, LinkOf, Zenon
<1>5. \A m \in sent :
         /\ m \in Messages /\ m.key[2] = m.num /\ (m.to = x \/ m.to = Other(x))
         /\ m.to = x => /\ Written(q, r, m)
                        /\ decrypted[m] = 0 /\ m.key \notin expired => Reach(q, r, m)
         /\ m.to = Other(x) =>
               /\ Written(r, q, m)
               /\ decrypted[m] = 0 /\ m.key \notin expired => Reach(r, q, m)
  BY <1>1, LinkOf, Zenon
<1> HIDE DEF r, q
<1>6. r.ratchet = TRUE => r.rootKey = top(r)
  BY <1>4
<1>7. /\ s \in Ratchets /\ top(s) \in Roots /\ s.kxPrivate = r.kxPrivate
      /\ s.ratchet = FALSE /\ (r.rootKey = top(r) => s.rootKey = top(s))
      /\ Pair(s, q) /\ Headers(s) /\ Carries(r, s, q)
      /\ \A m \in Messages : Written(r, q, m) /\ m.key[2] = m.num => m.key # k.key
      /\ \A m \in Messages : Reach(q, r, m) => Reach(q, s, m)
      /\ Written(s, q, k) /\ Reach(s, q, k)
  BY <1>4, <1>6, EncryptKeeps, ZenonT(60)
<1> HIDE DEF u, s, k
<1>8. ratchet'[x] = s /\ full(x)' = s /\ full(Other(x))' = q /\ Rooted(Other(x))'
  <2>1. s.kxPrivate = FALSE /\ \A p \in Parties : p # x => (p \in broken' <=> p \in broken)
    BY <1>1, <1>7, Zenon
  <2> QED
    BY <1>2, <2>1, FullStep, Zenon DEF q
<1>9. Rooted(x)'
  <2>1. IF x \in broken' THEN s.ratchet = FALSE ELSE s.rootKey = top(s)
    BY <1>1, <1>4, <1>7, Zenon
  <2>2. s.kxPrivate # TRUE
    BY <1>1, <1>7, Zenon
  <2> QED
    BY <1>7, <1>8, <2>1, <2>2, Zenon DEF Rooted
<1>10. \A m \in sent' : m.to \in Parties
  BY <1>2, <1>3, <1>5
<1>11. OneKey'
  <2> SUFFICES ASSUME NEW m \in sent', NEW n \in sent', m.to = n.to, m.key = n.key
               PROVE  m = n
    BY DEF OneKey
  <2>1. \A l \in sent : l.to = k.to => l.key # k.key
    BY <1>3, <1>5, <1>7, Zenon
  <2>2. m \in sent /\ n \in sent => m = n
    BY Zenon DEF LinkInv, OneKey
  <2> QED
    BY <1>2, <2>1, <2>2
<1>12. \A m \in sent : decrypted'[m] = decrypted[m]
  BY <1>2
<1>13. ASSUME NEW m \in sent', m.to = x
       PROVE  /\ Written(q, s, m)
              /\ decrypted'[m] = 0 /\ m.key \notin expired' => Reach(q, s, m)
  <2>1. m \in sent
    BY <1>2, <1>3, <1>13
  <2> QED
    BY <1>1, <1>5, <1>7, <1>12, <1>13, <2>1, Zenon DEF Carries
<1>14. ASSUME NEW m \in sent', m.to = Other(x)
       PROVE  /\ Written(s, q, m)
              /\ decrypted'[m] = 0 /\ m.key \notin expired' => Reach(s, q, m)
  <2>1. CASE m \in sent
    BY <1>1, <1>5, <1>7, <1>12, <1>14, <2>1, Zenon DEF Carries
  <2>2. CASE m = k
    BY <1>7, <2>2, Zenon
  <2> QED
    BY <1>2, <2>1, <2>2
<1> QED
  BY <1>7, <1>8, <1>9, <1>10, <1>11, <1>13, <1>14, Recombine, Zenon DEF q

(* ProcessKeyExchange: the ratchet is now the one that it was going to be. *)
LEMMA ProcessLink ==
    ASSUME IInv, LinkInv, NEW x \in Parties, ProcessKeyExchange(x)
    PROVE  LinkInv'
<1> DEFINE s == completeKeyExchange(x, InitRatchet)
<1>1. /\ ratchet[x].kxPrivate = TRUE
      /\ UNCHANGED <<sent, decrypted, expired, broken>>
  BY RatchetOf, Zenon DEF ProcessKeyExchange
<1>2. ratchet[x] = InitRatchet
  BY <1>1, Zenon DEF LinkInv, Rooted
<1>3. ratchet' = [ratchet EXCEPT ![x] = s]
  BY <1>2 DEF ProcessKeyExchange
<1>4. s.kxPrivate = FALSE
  BY <1>2, RatchetOf, ExchangeSound, <1>1, Zenon
<1>5. full(x) = s
  BY <1>1, Zenon DEF full
<1> HIDE DEF s
<1>6. full(x)' = s /\ full(Other(x))' = full(Other(x)) /\ Rooted(Other(x))' /\ ratchet'[x] = s
  BY <1>1, <1>3, <1>4, FullStep, Zenon
<1>7. Rooted(x)'
  <2>1. Rooted(x) /\ s.kxPrivate # TRUE
    BY <1>4, Zenon DEF LinkInv
  <2> QED
    BY <1>1, <1>5, <1>6, <2>1, Zenon DEF Rooted
<1>8. \A p \in Parties : full(p)' = full(p) /\ Rooted(p)'
  BY <1>5, <1>6, <1>7, TwoParties, Zenon
<1> QED
  BY <1>1, <1>8, StutterStep, Zenon

(* Reload: a key that is left out has expired. *)
LEMMA ReloadLink ==
    ASSUME IInv, LinkInv, NEW x \in Parties, Reload(x)
    PROVE  LinkInv'
<1> DEFINE r == ratchet[x]
           q == full(Other(x))
<1>1. PICK old \in SUBSET r.saved :
         /\ ratchet' = [ratchet EXCEPT ![x] = newRatchetFromState(marshal(r, old))]
         /\ expired' = expired \cup UNION {{<<e.chain, n>> : n \in e.nums} : e \in old}
         /\ UNCHANGED <<sent, decrypted, broken>>
  BY Zenon DEF Reload
<1> DEFINE kept == (r.saved \ old) \cup {[e EXCEPT !.nums = {}] : e \in old}
           s == [r EXCEPT !.saved = kept]
<1>2. r \in Ratchets /\ KeysOnce(r) /\ r.kxPrivate \in BOOLEAN
  BY RatchetOf, Zenon
<1>3. newRatchetFromState(marshal(r, old)) = s
  BY DEF newRatchetFromState, marshal
<1>4. s \in Ratchets /\ s.rootKey = r.rootKey /\ s.kxPrivate = r.kxPrivate
  BY <1>2, <1>3, ReloadSound
<1>5. \A m \in sent : decrypted'[m] = 0 /\ m.key \notin expired' =>
                         decrypted[m] = 0 /\ m.key \notin expired
  BY <1>1
<1>6. CASE r.kxPrivate = TRUE
  <2>1. r = InitRatchet
    BY <1>6, ZenonT(60) DEF LinkInv, Rooted
  <2>2. r.saved = {}
    BY <2>1 DEF InitRatchet
  <2>3. kept = r.saved
    BY <2>2
  <2>4. s = r
    BY <1>2, <2>3, Zenon DEF Ratchets
  <2>5. ratchet' = ratchet
    BY <1>1, <1>3, <2>4 DEF IInv, TypeOK
  <2>6. \A p \in Parties : full(p)' = full(p) /\ Rooted(p)'
    BY <1>1, <2>5, Zenon DEF full, Rooted, LinkInv
  <2> QED
    BY <1>1, <1>5, <2>6, StutterStep, Zenon
<1>7. CASE r.kxPrivate = FALSE
  <2>1. s.saved = kept /\ s.recvCount = r.recvCount /\ SameLink(r, s)
    <3> HIDE DEF kept
    <3> QED
      BY <1>2 DEF Ratchets, SameLink, SendSide, RecvSide
  <2>2. \A e \in r.saved : e \in SavedKeys
    BY <1>2 DEF Ratchets
  <2>3. SavedLike(r, s)
    <3>1. ASSUME NEW e \in old
          PROVE  /\ [e EXCEPT !.nums = {}].headerKey = e.headerKey
                 /\ [e EXCEPT !.nums = {}].chain = e.chain
      BY <2>2 DEF SavedKeys
    <3>2. \A f \in kept : \/ f \in r.saved
                          \/ \E e \in r.saved : f.headerKey = e.headerKey /\ f.chain = e.chain
      BY <3>1, Zenon
    <3> QED
      BY <2>1, <3>2, Zenon DEF SavedLike
  <2>4. r \in Ratchets /\ q \in Ratchets
    BY <1>7, LinkOf, Zenon
  <2>5. Fits(s, r, q)
    BY <2>1, <2>4, Fields DEF Fits, Ahead, Caught
  <2>6. ASSUME NEW m \in sent, m.key \notin expired'
        PROVE  KeepsReach(q, r, s, m)
    <3>1. m.key = <<m.key[1], m.num>>
      BY DEF IInv, TypeOK, Messages
    <3>2. ASSUME NEW e \in r.saved, e.headerKey = m.headerKey, e.chain = m.key[1], m.num \in e.nums
          PROVE  e \in s.saved
      <4>1. ASSUME e \in old PROVE FALSE
        <5>1. m.key \in {<<e.chain, n>> : n \in e.nums}
          BY <3>1, <3>2
        <5>2. m.key \in UNION {{<<f.chain, n>> : n \in f.nums} : f \in old}
          BY <4>1, <5>1
        <5> QED
          BY <1>1, <2>6, <5>2
      <4> QED
        BY <2>1, <4>1
    <3> QED
      BY <2>1, <3>2, ZenonT(60) DEF KeepsReach, Reach, SameLink, RecvSide
  <2> HIDE DEF s, kept
  <2>7. s.kxPrivate = FALSE /\ Continues(r, s, q)
    BY <1>4, <1>7, <2>1, <2>3, <2>5, Zenon DEF Continues
  <2> QED
    BY <1>1, <1>3, <1>4, <1>5, <1>7, <2>6, <2>7, SameStep, Zenon
<1> QED
  BY <1>2, <1>6, <1>7, Zenon

(* Init: it will be Alice's turn. *)
LEMMA InitLink == Init => LinkInv
<1> SUFFICES ASSUME Init PROVE LinkInv
  OBVIOUS
<1>1. \A p \in Parties : ratchet[p] = InitRatchet /\ InitRatchet.kxPrivate = TRUE
  BY DEF Init, InitRatchet
<1>2. sent = {} /\ broken = {}
  BY DEF Init
<1> DEFINE root == << {<<Alice, 0>>, <<Bob, 0>>} >>
           a == full(Alice)
           b == full(Bob)
<1>3. Other(Alice) = Bob /\ Other(Bob) = Alice /\ Alice \in Parties /\ Bob \in Parties
  BY RatchetAssumption, TwoParties DEF Parties
<1>4. /\ << {<<Alice, 0>>, <<Other(Alice), 0>>} >> = root
      /\ << {<<Bob, 0>>, <<Other(Bob), 0>>} >> = root
  <2>1. {<<Bob, 0>>, <<Alice, 0>>} = {<<Alice, 0>>, <<Bob, 0>>}
    OBVIOUS
  <2> QED
    BY <1>3, <2>1
<1>5. root \in Roots
  BY <1>3, <1>4, FirstRoot
<1> HIDE DEF root
<1>6. /\ a.rootKey = root /\ a.nextSendHeaderKey = NextHeaderKey(root)
      /\ a.nextRecvHeaderKey = NextHeaderKey(root) /\ a.recvHeaderKey = HeaderKey(root)
      /\ a.recvChainKey = root /\ a.recvRatchetPublic = <<Bob, 1>> /\ a.ratchet = TRUE
      /\ a.sendHeaderKey = Zero /\ a.sendChainKey = Zero /\ a.sendCount = 0 /\ a.recvCount = 0
      /\ a.saved = {}
  BY <1>1, <1>3, <1>4, Zenon DEF full, completeKeyExchange, InitRatchet
<1>7. /\ b.rootKey = root /\ b.nextSendHeaderKey = NextHeaderKey(root)
      /\ b.nextRecvHeaderKey = NextHeaderKey(root) /\ b.sendHeaderKey = HeaderKey(root)
      /\ b.sendChainKey = root /\ b.sendRatchetPrivate = <<Bob, 1>> /\ b.ratchet = FALSE
      /\ b.recvHeaderKey = Zero /\ b.recvChainKey = Zero /\ b.sendCount = 0 /\ b.recvCount = 0
      /\ b.saved = {}
  BY <1>1, <1>3, <1>4, RatchetAssumption, Zenon DEF full, completeKeyExchange, InitRatchet
<1>8. a \in Ratchets /\ b \in Ratchets
  <2>1. InitRatchet \in Ratchets
    BY <1>1, <1>3, InitIInv, RatchetOf, ZenonT(60)
  <2> QED
    BY <1>1, <1>3, <2>1, ExchangeType, Zenon DEF full
<1> HIDE DEF a, b
<1>9. top(a) = root /\ top(b) = root
  BY <1>6, <1>7 DEF top
<1>10. Turn(a, b)
  BY <1>6, <1>7 DEF Turn, Caught
<1>11. /\ HeaderKey(root) # Zero /\ NextHeaderKey(root) # Zero /\ HeaderKey(root) # NextHeaderKey(root)
       /\ hlen(HeaderKey(root)) <= len(root) /\ hlen(NextHeaderKey(root)) <= len(root)
       /\ len(root) <= len(root) /\ len(Zero) <= len(root) /\ hlen(Zero) <= len(root)
  <2>1. HeaderKey(root) # NextHeaderKey(root)
    BY DEF HeaderKey, NextHeaderKey
  <2>2. len(Zero) = 0 /\ hlen(Zero) = 0
    BY DEF len, hlen
  <2> QED
    BY <1>5, <2>1, <2>2, RootLen
<1>12. Headers(a) /\ Headers(b)
  BY <1>6, <1>7, <1>9, <1>11 DEF Headers
<1>13. Rooted(Alice) /\ Rooted(Bob)
  BY <1>1, <1>2, <1>3, <1>5, <1>6, <1>7, <1>8, <1>9, Zenon DEF Rooted, a, b
<1>14. \A p \in Parties : Rooted(p) /\ Headers(full(p)) /\ Pair(full(p), full(Other(p)))
  BY <1>3, <1>10, <1>12, <1>13, Zenon DEF Pair, a, b, Parties
<1> QED
  BY <1>2, <1>14, ZenonT(60) DEF LinkInv, OneKey

(* Every step keeps the two ratchets in step. *)
LEMMA NextLink == IInv /\ LinkInv /\ [Next]_vars => LinkInv'
<1> SUFFICES ASSUME IInv, LinkInv, [Next]_vars PROVE LinkInv'
  OBVIOUS
<1>1. ASSUME ratchet' = ratchet, UNCHANGED <<sent, decrypted, expired, broken>> PROVE LinkInv'
  <2>1. \A p \in Parties : full(p)' = full(p) /\ Rooted(p)'
    BY <1>1, Zenon DEF full, Rooted, LinkInv
  <2> QED
    BY <1>1, <2>1, StutterStep, Zenon
<1>2. ASSUME NEW x \in Parties, CreateKeyExchange(x) PROVE LinkInv'
  BY <1>1, <1>2, Zenon DEF CreateKeyExchange
<1>3. CASE UNCHANGED vars
  BY <1>1, <1>3 DEF vars
<1> QED
  BY <1>2, <1>3, ProcessLink, EncryptLink, DecryptLink, ReloadLink, Zenon DEF Next

(* A message that the receiver can reach is decrypted, unless too much is  *)
(* skipped.                                                                *)
LEMMA ReachDecrypts ==
    ASSUME NEW r \in Ratchets, NEW q \in Ratchets, NEW m \in Messages, m.key[2] = m.num,
           KeysOnce(r), Headers(r), r.rootKey = top(r), Written(q, r, m), Reach(q, r, m)
    PROVE  \E o \in DecryptWith(r, m) : o.err \in {"nil", "reorderingLimit"}
<1> DEFINE hits == {e \in r.saved : e.headerKey = m.headerKey}
           try(e) == IF m.num \notin e.nums THEN advance(r, m)
                     ELSE IF m.key # <<e.chain, m.num>> THEN Outcome("corrupt", r)
                     ELSE Outcome("nil", usedSaved(r, e, m))
<1>1. DecryptWith(r, m) = IF hits = {} THEN {advance(r, m)} ELSE {try(e) : e \in hits}
  BY Zenon DEF DecryptWith
<1>2. /\ m.num \in Nat /\ m.prev \in Nat /\ r.recvCount \in Nat /\ m.key = <<m.key[1], m.num>>
      /\ MaxMissingMessages \in Nat
  BY Fields, RatchetAssumption DEF Messages
<1>3. \A e \in hits : try(e) \in DecryptWith(r, m)
  BY <1>1
<1>4. (\A e \in hits : m.num \notin e.nums) => advance(r, m) \in DecryptWith(r, m)
  BY <1>1
<1>5. \A n, c \in Nat : n >= c => saveKeysErr(n, c) \in {"nil", "reorderingLimit"}
  BY <1>2 DEF saveKeysErr
<1>6. CASE \E e \in r.saved : e.headerKey = m.headerKey /\ e.chain = m.key[1] /\ m.num \in e.nums
  <2>1. PICK e \in hits : e.chain = m.key[1] /\ m.num \in e.nums
    BY <1>6, ZenonT(60)
  <2>2. try(e) = Outcome("nil", usedSaved(r, e, m))
    BY <1>2, <2>1
  <2>3. Outcome("nil", usedSaved(r, e, m)).err = "nil"
    BY DEF Outcome
  <2> HIDE DEF try, hits
  <2> QED
    BY <1>3, <2>1, <2>2, <2>3
<1>7. CASE m.key[1] = r.recvChainKey /\ m.headerKey = r.recvHeaderKey /\ m.num >= r.recvCount
  <2>1. \A e \in hits : m.num \notin e.nums
    <3> SUFFICES ASSUME NEW e \in hits, m.num \in e.nums PROVE FALSE
      OBVIOUS
    <3>1. e.chain = r.recvChainKey
      BY <1>7, Zenon DEF Headers
    <3>2. m.num < r.recvCount
      BY <3>1, Zenon DEF KeysOnce
    <3> QED
      BY <1>2, <1>7, <3>2
  <2>2. advance(r, m) = inChain(r, m)
    BY <1>7, Zenon DEF advance, Written
  <2>3. inChain(r, m).err \in {"nil", "reorderingLimit"}
    <3> DEFINE err == saveKeysErr(m.num, r.recvCount)
    <3>1. err \in {"nil", "reorderingLimit"}
      BY <1>2, <1>5, <1>7
    <3>2. m.key = <<r.recvChainKey, m.num>>
      BY <1>2, <1>7
    <3>3. \E s : inChain(r, m) = Outcome(err, s)
      <4> HIDE DEF err
      <4> QED
        BY <3>2, Zenon DEF inChain, err
    <3> QED
      BY <3>1, <3>3 DEF Outcome
  <2> QED
    BY <1>4, <2>1, <2>2, <2>3, ZenonT(60)
<1>8. CASE Ahead(q, r) /\ m.key[1] = q.sendChainKey
  <2>1. /\ m.headerKey = r.nextRecvHeaderKey /\ m.prev >= r.recvCount /\ r.ratchet = FALSE
        /\ m.public = q.sendRatchetPrivate
    <3>1. m.headerKey = q.sendHeaderKey /\ m.prev = q.prevSendCount /\ q.ratchet = FALSE
      BY <1>8, ZenonT(60) DEF Written, Ahead
    <3>2. r.recvCount <= q.prevSendCount /\ q.prevSendCount \in Nat
      BY <1>8, Fields, Zenon DEF Ahead
    <3>3. r.ratchet = FALSE /\ q.sendHeaderKey = r.nextRecvHeaderKey
      BY <1>8, Zenon DEF Ahead
    <3>4. m.public = q.sendRatchetPrivate
      BY <1>8, <3>1, ZenonT(60) DEF Written
    <3> QED
      BY <1>2, <3>1, <3>2, <3>3, <3>4
  <2>2. hits = {}
    BY <2>1, ZenonT(60) DEF Headers
  <2>3. advance(r, m) = recvStep(r, m)
    BY <2>1 DEF advance, Headers
  <2>4. received(r, m) = m.key[1]
    BY <1>8, <2>1, Zenon DEF received, top, Ahead
  <2>5. recvStep(r, m).err \in {"nil", "reorderingLimit"}
    <3> DEFINE oldErr == saveKeysErr(m.prev, r.recvCount)
               newErr == saveKeysErr(m.num, 0)
    <3>1. oldErr \in {"nil", "reorderingLimit"} /\ newErr \in {"nil", "reorderingLimit"}
      BY <1>2, <1>5, <2>1
    <3>2. m.key = <<received(r, m), m.num>>
      BY <1>2, <2>4
    <3>3. \E s : recvStep(r, m) = Outcome(oldErr, s) \/ recvStep(r, m) = Outcome(newErr, s)
      <4> HIDE DEF oldErr, newErr
      <4>1. m.key = <<Append(r.rootKey, {r.sendRatchetPrivate, m.public}), m.num>>
        BY <3>2, Zenon DEF received
      <4> QED
        BY <2>1, <4>1, Zenon DEF recvStep, oldErr, newErr
    <3> QED
      BY <3>1, <3>3 DEF Outcome
  <2> QED
    BY <1>4, <2>2, <2>3, <2>5, ZenonT(60)
<1> QED
  BY <1>6, <1>7, <1>8, Zenon DEF Reach

(* A message that was not decrypted can be, unless its key expired, it is  *)
(* too far ahead, or a failed Decrypt moved the root: however messages are *)
(* reordered, lost and delivered again, for any number of messages and of  *)
(* steps of the ratchet (doubleratchet/ratchet.go, Decrypt).               *)
THEOREM NoneLostHolds == Spec => []NoneLost
<1>1. Init => IInv /\ LinkInv
  BY InitIInv, InitLink
<1>2. (IInv /\ LinkInv) /\ [Next]_vars => (IInv /\ LinkInv)'
  BY NextIInv, NextLink
<1>3. IInv /\ LinkInv => NoneLost
  <2> SUFFICES ASSUME IInv, LinkInv, NEW p \in Parties, NEW m \in sent, m.to = p,
                      decrypted[m] = 0, ~ratchet[p].kxPrivate, p \notin broken,
                      m.key \notin expired
               PROVE  \E o \in DecryptWith(ratchet[p], m) : o.err \in {"nil", "reorderingLimit"}
    BY Zenon DEF NoneLost
  <2> DEFINE r == ratchet[p]
             q == full(Other(p))
  <2>1. r.kxPrivate = FALSE /\ KeysOnce(r)
    BY RatchetOf, Zenon
  <2>2. /\ r \in Ratchets /\ q \in Ratchets /\ Headers(r) /\ r.rootKey = top(r)
        /\ m \in Messages /\ m.key[2] = m.num /\ Written(q, r, m) /\ Reach(q, r, m)
    BY <2>1, LinkOf, Zenon
  <2> QED
    BY <2>1, <2>2, ReachDecrypts, Zenon
<1> QED
  BY <1>1, <1>2, <1>3, PTL DEF Spec
=============================================================================
