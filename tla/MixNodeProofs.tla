--------------------------- MODULE MixNodeProofs ----------------------------
(***************************************************************************)
(* Proofs about the mix keys, for any number of crypto workers and epochs; *)
(* about the replay filter, for any number of tags, workers and arrivals   *)
(* and any capacity of the Bloom filter; and about the two together: each  *)
(* takes only steps of its own, so that its theorems hold in the           *)
(* composition.                                                            *)
(***************************************************************************)
EXTENDS MixNode, FiniteSetTheorems, TLAPS

-----------------------------------------------------------------------------
(* The mix keys.                                                           *)
(* The shape of the state, in which a count may be any integer, and the    *)
(* epochs that a round of publication can be about.                        *)
Shape ==
    /\ now \in 1..MaxEpoch /\ last \in 0..(MaxEpoch + 1)
    /\ keys \subseteq Epochs /\ files \subseteq Epochs
    /\ refCount \in [Epochs -> Int]
    /\ held \in [Workers -> SUBSET Epochs]
    /\ worker \in [Workers -> {"run", "shadow", "halted"}]
    /\ pki \in {"idle", "generate", "prune", "reshadow", "halted"}
    /\ base \in 0..(MaxEpoch + 1) /\ next \in 0..(MaxEpoch + 1 + NumMixKeys)
    /\ todo \in 1..(NumWorkers + 1)
    /\ halt \in {"no", "workers", "pki", "complete"}
    /\ pace \in {"kept", "lost", "failed"}

RoundBounds == pki = "generate" => 1 <= base /\ base <= next

FlagOK == didGen \in BOOLEAN

IInv == Shape /\ RoundBounds /\ FlagOK /\ RefCounted

holders(h, e) == {w \in Workers : e \in h[w]}

listed(K, e) == IF e \in K THEN 1 ELSE 0

-----------------------------------------------------------------------------
(* There are at most as many holders of a key as workers. *)
LEMMA HoldersBounded ==
    ASSUME NEW h, NEW e
    PROVE  IsFiniteSet(holders(h, e)) /\ Cardinality(holders(h, e)) \in 0..NumWorkers
<1>1. IsFiniteSet(Workers) /\ Cardinality(Workers) = NumWorkers
  BY MixKeysAssumption, FS_Interval DEF Workers
<1>2. holders(h, e) \in SUBSET Workers
  BY DEF holders
<1>3. IsFiniteSet(holders(h, e)) /\ Cardinality(holders(h, e)) <= NumWorkers
  BY <1>1, <1>2, FS_Subset
<1> QED
  BY <1>3, FS_CardinalityType, MixKeysAssumption

(* Everybody holds a key, or nobody. *)
LEMMA HoldersUniform ==
    ASSUME NEW K, NEW e
    PROVE  Cardinality(holders([w \in Workers |-> K], e)) = IF e \in K THEN NumWorkers ELSE 0
<1>1. CASE e \in K
  <2>1. holders([w \in Workers |-> K], e) = Workers
    BY <1>1 DEF holders
  <2> QED
    BY <1>1, <2>1, MixKeysAssumption, FS_Interval DEF Workers
<1>2. CASE e \notin K
  <2>1. holders([w \in Workers |-> K], e) = {}
    BY <1>2 DEF holders
  <2> QED
    BY <1>2, <2>1, FS_EmptySet
<1> QED
  BY <1>1, <1>2

(* What happens to the number of holders when one worker changes its set. *)
LEMMA HoldersExcept ==
    ASSUME NEW h \in [Workers -> SUBSET Epochs], NEW w \in Workers,
           NEW S \in SUBSET Epochs, NEW e \in Epochs
    PROVE  Cardinality(holders([h EXCEPT ![w] = S], e)) =
             IF e \in S /\ e \notin h[w] THEN Cardinality(holders(h, e)) + 1
             ELSE IF e \notin S /\ e \in h[w] THEN Cardinality(holders(h, e)) - 1
             ELSE Cardinality(holders(h, e))
<1> DEFINE g == [h EXCEPT ![w] = S]
<1>1. IsFiniteSet(holders(h, e))
  BY HoldersBounded
<1>2. CASE e \in S
  <2>1. holders(g, e) = holders(h, e) \cup {w}
    BY <1>2 DEF holders
  <2>2. w \in holders(h, e) <=> e \in h[w]
    BY DEF holders
  <2> HIDE DEF g
  <2>3. Cardinality(holders(g, e)) = IF e \in h[w] THEN Cardinality(holders(h, e))
                                     ELSE Cardinality(holders(h, e)) + 1
    <3>1. Cardinality(holders(h, e) \cup {w}) =
            IF w \in holders(h, e) THEN Cardinality(holders(h, e))
            ELSE Cardinality(holders(h, e)) + 1
      BY <1>1, FS_AddElement, Zenon
    <3> QED
      BY <2>1, <2>2, <3>1
  <2> QED
    BY <1>2, <2>3 DEF g
<1>3. CASE e \notin S
  <2>1. holders(g, e) = holders(h, e) \ {w}
    BY <1>3 DEF holders
  <2>2. w \in holders(h, e) <=> e \in h[w]
    BY DEF holders
  <2> HIDE DEF g
  <2>3. Cardinality(holders(g, e)) = IF e \in h[w] THEN Cardinality(holders(h, e)) - 1
                                     ELSE Cardinality(holders(h, e))
    <3>1. Cardinality(holders(h, e) \ {w}) =
            IF w \in holders(h, e) THEN Cardinality(holders(h, e)) - 1
            ELSE Cardinality(holders(h, e))
      BY <1>1, FS_RemoveElement
    <3> QED
      BY <2>1, <2>2, <3>1
  <2> QED
    BY <1>3, <2>3 DEF g
<1> QED
  BY <1>2, <1>3

(* RefCounted, in terms of holders. *)
LEMMA CountedAlt ==
    RefCounted <=> \A e \in Epochs :
                     refCount[e] = Cardinality(holders(held, e)) + listed(keys, e)
  BY DEF RefCounted, holders, listed

(* A correct count is within its type. *)
LEMMA CountedIsTyped == IInv => TypeOK
<1> SUFFICES ASSUME IInv PROVE TypeOK
  OBVIOUS
<1>1. \A e \in Epochs : refCount[e] \in 0..(NumWorkers + 1)
  BY CountedAlt, HoldersBounded, MixKeysAssumption DEF IInv, listed
<1>2. refCount \in [Epochs -> 0..(NumWorkers + 1)]
  BY <1>1 DEF IInv, Shape
<1> QED
  BY <1>2 DEF IInv, Shape, FlagOK, TypeOK

-----------------------------------------------------------------------------
(* Every step preserves the shape of the state and the bounds of a round. *)
LEMMA ShapeStep == Shape /\ RoundBounds /\ [Next]_vars => Shape' /\ RoundBounds'
<1> SUFFICES ASSUME Shape, RoundBounds, [Next]_vars PROVE Shape' /\ RoundBounds'
  OBVIOUS
<1> USE MixKeysAssumption DEF Shape, RoundBounds, NumMixKeys, pkiVars
<1>1. CASE publishDescriptorIfNeeded
  BY <1>1 DEF publishDescriptorIfNeeded, doPublishEpoch
<1>2. CASE Generate
  <2>1. next \in Epochs
    BY <1>2 DEF Generate, Epochs
  <2>2. keys' \subseteq Epochs /\ files' \subseteq Epochs /\ refCount' \in [Epochs -> Int]
    <3>1. CASE next \in keys
      <4>1. keys' = keys /\ files' = files /\ refCount' = refCount
        BY <1>2, <3>1 DEF Generate
      <4> QED
        BY <4>1
    <3>2. CASE next \notin keys
      <4>1. /\ keys' = keys \cup {next} /\ files' = files \cup {next}
            /\ refCount' = [refCount EXCEPT ![next] = 1]
        BY <1>2, <3>2 DEF Generate
      <4> QED
        BY <2>1, <4>1
    <3> QED
      BY <3>1, <3>2
  <2> QED
    BY <1>2, <2>2 DEF Generate
<1>3. CASE generateFails
  <2>1. next \in Epochs
    BY <1>3 DEF generateFails, Epochs
  <2>2. files' \subseteq Epochs /\ refCount' \in [Epochs -> Int]
    <3>1. refCount' = dereferenced(keys \cap window(base))
      BY <1>3 DEF generateFails
    <3>2. PICK created \in SUBSET {next} :
            files' = (files \cup created) \ unlinked(keys \cap window(base))
      BY <1>3 DEF generateFails
    <3>3. files' \subseteq Epochs
      BY <2>1, <3>2, Zenon
    <3> QED
      BY <3>1, <3>3 DEF dereferenced
  <2> QED
    BY <1>3, <2>2, Zenon DEF generateFails, roundOver
<1>4. CASE generated
  BY <1>4 DEF generated
<1>5. CASE Prune
  <2>1. files' \subseteq Epochs /\ refCount' \in [Epochs -> Int]
    BY <1>5 DEF Prune, dereferenced
  <2>2. pki' \in {"reshadow", "idle", "halted"} /\ todo' \in 1..(NumWorkers + 1)
    BY <1>5 DEF Prune, roundOver
  <2> QED
    BY <1>5, <2>1, <2>2 DEF Prune
<1>6. CASE UpdateMixKeys
  <2>1. worker' \in [Workers -> {"run", "shadow", "halted"}]
    BY <1>6, Zenon DEF UpdateMixKeys
  <2>2. todo' \in 1..(NumWorkers + 1)
    BY <1>6 DEF UpdateMixKeys
  <2> QED
    BY <1>6, <2>1, <2>2 DEF UpdateMixKeys
<1>7. CASE Post
  BY <1>7 DEF Post, roundOver
<1>8. CASE pkiHalts
  BY <1>8 DEF pkiHalts
<1>9. CASE tick
  BY <1>9 DEF tick
<1>10. CASE restart
  <2>1. \A e : window(e) \subseteq Epochs
    BY DEF window
  <2>2. keys' \subseteq Epochs /\ files' \subseteq Epochs
    BY <1>10, <2>1 DEF restart, notStale
  <2>3. refCount' \in [Epochs -> Int] /\ held' \in [Workers -> SUBSET Epochs]
    BY <1>10, <2>1 DEF restart, startRefs
  <2> QED
    BY <1>10, <2>2, <2>3 DEF restart
<1>11. CASE haltWorkers \/ haltPKI
  BY <1>11 DEF haltWorkers, haltPKI
<1>12. CASE haltKeys
  BY <1>12 DEF haltKeys, dereferenced
<1>13. ASSUME NEW w \in Workers, Shadow(w) PROVE Shape' /\ RoundBounds'
  <2>1. refCount' \in [Epochs -> Int] /\ files' \subseteq Epochs
    BY <1>13 DEF Shadow, dereferenced
  <2> QED
    BY <1>13, <2>1, Zenon DEF Shadow
<1>14. ASSUME NEW w \in Workers, derefKeys(w) PROVE Shape' /\ RoundBounds'
  <2>1. refCount' \in [Epochs -> Int] /\ files' \subseteq Epochs
    BY <1>14 DEF derefKeys, dereferenced
  <2> QED
    BY <1>14, <2>1 DEF derefKeys
<1>15. CASE UNCHANGED vars
  BY <1>15 DEF vars
<1> QED
  BY <1>1, <1>2, <1>3, <1>4, <1>5, <1>6, <1>7, <1>8, <1>9, <1>10, <1>11, <1>12, <1>13,
     <1>14, <1>15, Zenon DEF Next, pkiWorker

(* didGen is a flag. *)
LEMMA FlagStep == FlagOK /\ [Next]_vars => FlagOK'
<1> SUFFICES ASSUME FlagOK, [Next]_vars PROVE FlagOK'
  OBVIOUS
<1> USE DEF FlagOK, pkiVars
<1>1. CASE didGen' = didGen
  BY <1>1
<1>2. CASE didGen' = FALSE
  BY <1>2, Zenon
<1>3. CASE didGen' = TRUE
  BY <1>3, Zenon
<1>4. didGen' = didGen \/ didGen' = FALSE \/ didGen' = TRUE
  BY DEF Next, pkiWorker, publishDescriptorIfNeeded, Generate, generateFails, generated,
     Prune, UpdateMixKeys, Post, pkiHalts, tick, restart, haltWorkers, haltPKI, haltKeys,
     Shadow, derefKeys, vars
<1> QED
  BY <1>1, <1>2, <1>3, <1>4, Zenon

-----------------------------------------------------------------------------
(* Every step preserves the equality of counts and holders. *)
LEMMA CountStep == IInv /\ [Next]_vars => RefCounted'
<1> SUFFICES ASSUME IInv, [Next]_vars, NEW e \in Epochs
             PROVE  refCount'[e] = Cardinality(holders(held', e)) + listed(keys', e)
  BY DEF RefCounted, holders, listed
<1> DEFINE Goal == refCount'[e] = Cardinality(holders(held', e)) + listed(keys', e)
<1>a. refCount[e] = Cardinality(holders(held, e)) + listed(keys, e)
  BY CountedAlt DEF IInv
<1>b. Cardinality(holders(held, e)) \in 0..NumWorkers
  BY HoldersBounded
<1> USE MixKeysAssumption DEF listed
<1>1. CASE UNCHANGED <<refCount, held, keys>>
  BY <1>1, <1>a
<1>2. CASE Generate
  <2>1. held' = held
    BY <1>2 DEF Generate
  <2>2. CASE next \in keys
    BY <1>1, <1>2, <2>1, <2>2 DEF Generate
  <2>3. CASE next \notin keys
    BY <1>2, <1>a, <1>b, <2>1, <2>3 DEF Generate, IInv, Shape
  <2> QED
    BY <2>2, <2>3
<1>3. CASE generateFails
  BY <1>3, <1>a, <1>b DEF generateFails, dereferenced
<1>4. CASE Prune
  BY <1>4, <1>a, <1>b DEF Prune, dereferenced, expired
<1>5. CASE restart
  <2>1. Cardinality(holders(held', e)) = IF e \in window(now) THEN NumWorkers ELSE 0
    BY <1>5, HoldersUniform DEF restart
  <2> QED
    BY <1>5, <2>1 DEF restart, startRefs
<1>6. CASE haltKeys
  BY <1>6, <1>a, <1>b DEF haltKeys, dereferenced
<1>7. ASSUME NEW w \in Workers, Shadow(w) PROVE Goal
  <2>1. keys \subseteq Epochs /\ held \in [Workers -> SUBSET Epochs]
    BY DEF IInv, Shape
  <2>2. held' = [held EXCEPT ![w] = keys] /\ keys' = keys
    BY <1>7 DEF Shadow
  <2>3. Cardinality(holders(held', e)) =
             IF e \in keys /\ e \notin held[w] THEN Cardinality(holders(held, e)) + 1
             ELSE IF e \notin keys /\ e \in held[w] THEN Cardinality(holders(held, e)) - 1
             ELSE Cardinality(holders(held, e))
    BY <2>1, <2>2, HoldersExcept, Zenon
  <2>4. refCount'[e] = IF e \in keys \ held[w] THEN refCount[e] + 1
                       ELSE IF e \in held[w] \ keys THEN refCount[e] - 1 ELSE refCount[e]
    BY <1>7 DEF Shadow, dereferenced
  <2> QED
    BY <1>a, <1>b, <2>2, <2>3, <2>4
<1>8. ASSUME NEW w \in Workers, derefKeys(w) PROVE Goal
  <2>1. held \in [Workers -> SUBSET Epochs]
    BY DEF IInv, Shape
  <2>2. held' = [held EXCEPT ![w] = {}] /\ keys' = keys
    BY <1>8 DEF derefKeys
  <2>3. Cardinality(holders(held', e)) =
             IF e \in held[w] THEN Cardinality(holders(held, e)) - 1
             ELSE Cardinality(holders(held, e))
    BY <2>1, <2>2, HoldersExcept, Zenon
  <2>4. refCount'[e] = IF e \in held[w] THEN refCount[e] - 1 ELSE refCount[e]
    BY <1>8 DEF derefKeys, dereferenced
  <2> QED
    BY <1>a, <1>b, <2>2, <2>3, <2>4
<1> QED
  <2>1. CASE \/ publishDescriptorIfNeeded \/ generated \/ UpdateMixKeys \/ Post
             \/ pkiHalts \/ tick \/ haltWorkers \/ haltPKI \/ UNCHANGED vars
    BY <2>1, <1>1 DEF publishDescriptorIfNeeded, generated, UpdateMixKeys, Post, pkiHalts,
       tick, haltWorkers, haltPKI, vars
  <2> QED
    BY <2>1, <1>2, <1>3, <1>4, <1>5, <1>6, <1>7, <1>8, Zenon DEF Next, pkiWorker

-----------------------------------------------------------------------------
(* The invariant holds initially. *)
LEMMA Initially == Init => IInv
<1> SUFFICES ASSUME Init PROVE IInv
  OBVIOUS
<1>1. window(1) \subseteq Epochs
  BY DEF window
<1>2. Shape /\ RoundBounds
  BY <1>1, MixKeysAssumption DEF Init, Shape, RoundBounds, startRefs, NumMixKeys
<1>3. \A e \in Epochs :
        Cardinality(holders(held, e)) = IF e \in window(1) THEN NumWorkers ELSE 0
  BY HoldersUniform, Zenon DEF Init
<1>4. RefCounted
  BY <1>3, CountedAlt, MixKeysAssumption DEF Init, startRefs, listed
<1> QED
  BY <1>2, <1>4, Zenon DEF IInv, FlagOK, Init

(* Every step preserves the invariant. *)
LEMMA Preserved == IInv /\ [Next]_vars => IInv'
  BY ShapeStep, FlagStep, CountStep DEF IInv

(* The invariant holds in every state. *)
THEOREM Invariance == Spec => []IInv
  BY Initially, Preserved, PTL DEF Spec

(* Type correctness; in particular no reference count is ever negative.    *)
THEOREM TypeCorrect == Spec => []TypeOK
  BY Invariance, CountedIsTyped, PTL

(* The reference count of every key is the number of its holders, for any  *)
(* number of crypto workers: neither panic of Ref and Deref is reachable.  *)
THEOREM RefCountedHolds == Spec => []RefCounted
<1>1. IInv => RefCounted
  BY DEF IInv
<1> QED
  BY <1>1, Invariance, PTL

-----------------------------------------------------------------------------
(* The current key. *)

(* Once the PKI worker is halted, so are the crypto workers. *)
HaltOrder == halt \in {"pki", "complete"} => \A w \in Workers : worker[w] = "halted"

(* The PKI worker publishes for this epoch, or, that done, for the next. *)
RoundInTime == pki \in {"generate", "prune", "reshadow"} =>
    /\ base \in {now, now + 1}
    /\ pki = "generate" => \A e \in Epochs : base <= e /\ e < next => e \in keys
    /\ pki \in {"prune", "reshadow"} => window(base) \subseteq keys

(* The key of this epoch exists, and all that the last published           *)
(* descriptor promises.                                                    *)
PublishedKept ==
    /\ now \in keys
    /\ last # 0 => last \in {now - 1, now, now + 1} /\ window(last) \subseteq keys

(* Whether worker w, once in its select, has all the keys: it is told of   *)
(* the new ones before the round is over.                                  *)
told(w) ==
    \/ pki = "idle"
    \/ pki \in {"generate", "prune"} /\ didGen = FALSE
    \/ pki = "reshadow" /\ w < todo

Told == \A w \in Workers : worker[w] = "run" /\ told(w) => keys \subseteq held[w]

KeptInv ==
    /\ HaltOrder
    /\ pace = "kept" /\ halt \in {"no", "workers"} => RoundInTime /\ PublishedKept /\ Told
    /\ CurrentKey

(* Every step preserves what CurrentKey rests on. *)
LEMMA KeptStep == IInv /\ KeptInv /\ [Next]_vars => KeptInv'
<1> SUFFICES ASSUME IInv, KeptInv, [Next]_vars PROVE KeptInv'
  OBVIOUS
<1> DEFINE Running == halt \in {"no", "workers"}
<1>a. /\ now \in 1..MaxEpoch /\ keys \subseteq Epochs
      /\ held \in [Workers -> SUBSET Epochs]
      /\ worker \in [Workers -> {"run", "shadow", "halted"}]
      /\ pki \in {"idle", "generate", "prune", "reshadow", "halted"}
      /\ halt \in {"no", "workers", "pki", "complete"}
      /\ todo \in 1..(NumWorkers + 1)
      /\ base \in 0..(MaxEpoch + 1) /\ next \in 0..(MaxEpoch + 1 + NumMixKeys)
      /\ last \in 0..(MaxEpoch + 1)
  BY DEF IInv, Shape
<1>b. HaltOrder /\ CurrentKey
  BY DEF KeptInv
<1> USE MixKeysAssumption DEF NumMixKeys, pkiVars
<1>1. CASE publishDescriptorIfNeeded
  <2>1. HaltOrder' /\ CurrentKey'
    BY <1>1, <1>b DEF publishDescriptorIfNeeded, HaltOrder, CurrentKey
  <2>2. ASSUME pace = "kept", Running PROVE RoundInTime' /\ PublishedKept' /\ Told'
    <3>1. PublishedKept /\ Told /\ pki = "idle"
      BY <1>1, <2>2 DEF KeptInv, publishDescriptorIfNeeded
    <3>2. Told' /\ PublishedKept'
      BY <1>1, <3>1 DEF publishDescriptorIfNeeded, Told, told, PublishedKept, window
    <3>3. RoundInTime'
      BY <1>1, <1>a DEF publishDescriptorIfNeeded, doPublishEpoch, RoundInTime, Epochs
    <3> QED
      BY <3>2, <3>3
  <2> QED
    BY <1>1, <2>1, <2>2 DEF KeptInv, publishDescriptorIfNeeded
<1>2. CASE Generate
  <2>1. HaltOrder' /\ CurrentKey'
    BY <1>2, <1>b DEF Generate, HaltOrder, CurrentKey
  <2>2. ASSUME pace = "kept", Running PROVE RoundInTime' /\ PublishedKept' /\ Told'
    <3>1. RoundInTime /\ PublishedKept /\ Told /\ pki = "generate" /\ pki' = "generate"
      BY <1>2, <2>2 DEF KeptInv, Generate
    <3>2. keys \subseteq keys' /\ next \in keys'
      BY <1>2 DEF Generate
    <3>3. RoundInTime'
      BY <1>2, <1>a, <3>1, <3>2 DEF Generate, RoundInTime
    <3>4. PublishedKept'
      BY <1>2, <3>1, <3>2 DEF Generate, PublishedKept, window
    <3>5. didGen' = FALSE => keys' = keys /\ didGen = FALSE
      BY <1>2 DEF Generate
    <3>6. Told'
      BY <1>2, <3>1, <3>5 DEF Generate, Told, told
    <3> QED
      BY <3>3, <3>4, <3>6
  <2> QED
    BY <1>2, <2>1, <2>2 DEF KeptInv, Generate
<1>3. CASE generateFails
  BY <1>3, <1>b DEF generateFails, KeptInv, HaltOrder, CurrentKey
<1>4. CASE generated
  <2>1. HaltOrder' /\ CurrentKey'
    BY <1>4, <1>b DEF generated, HaltOrder, CurrentKey
  <2>2. ASSUME pace = "kept", Running PROVE RoundInTime' /\ PublishedKept' /\ Told'
    <3>1. RoundInTime /\ PublishedKept /\ Told
      BY <2>2 DEF KeptInv
    <3>2. RoundInTime'
      BY <1>4, <1>a, <3>1 DEF generated, RoundInTime, window
    <3>3. PublishedKept' /\ Told'
      BY <1>4, <3>1 DEF generated, PublishedKept, Told, told, window
    <3> QED
      BY <3>2, <3>3
  <2> QED
    BY <1>4, <2>1, <2>2 DEF KeptInv, generated
<1>5. CASE Prune
  <2>1. HaltOrder' /\ CurrentKey'
    BY <1>5, <1>b DEF Prune, HaltOrder, CurrentKey
  <2>2. ASSUME pace = "kept", Running PROVE RoundInTime' /\ PublishedKept' /\ Told'
    <3>1. RoundInTime /\ PublishedKept /\ Told /\ pki = "prune"
      BY <1>5, <2>2 DEF KeptInv, Prune
    <3>2. keys' = {e \in keys : ~(e < now - 1)}
      BY <1>5 DEF Prune, expired
    <3>3. base \in {now, now + 1} /\ window(base) \subseteq keys
      BY <3>1 DEF RoundInTime
    <3>4. window(base) \subseteq keys'
      BY <1>a, <3>2, <3>3 DEF window, Epochs
    <3>5. pki' = "reshadow"
      BY <1>5, <3>4 DEF Prune
    <3>6. RoundInTime'
      BY <1>5, <3>3, <3>4, <3>5 DEF Prune, RoundInTime, window
    <3>7. PublishedKept'
      BY <1>5, <1>a, <3>1, <3>2 DEF Prune, PublishedKept, window, Epochs
    <3>8. Told'
      <4> SUFFICES ASSUME NEW w \in Workers, worker'[w] = "run", told(w)'
                   PROVE  keys' \subseteq held'[w]
        BY DEF Told
      <4>1. w < todo' /\ w \in 1..NumWorkers
        BY <3>5 DEF told, Workers
      <4>2. didGen = FALSE
        BY <1>5, <4>1 DEF IInv, FlagOK, Prune
      <4> QED
        BY <1>5, <3>1, <3>2, <4>2 DEF Prune, Told, told
    <3> QED
      BY <3>6, <3>7, <3>8
  <2> QED
    BY <1>5, <2>1, <2>2, Zenon DEF KeptInv, Prune
<1>6. CASE UpdateMixKeys
  <2>1. HaltOrder' /\ CurrentKey'
    BY <1>6, <1>a, <1>b DEF UpdateMixKeys, HaltOrder, CurrentKey, Workers
  <2>2. ASSUME pace = "kept", Running PROVE RoundInTime' /\ PublishedKept' /\ Told'
    <3>1. RoundInTime /\ PublishedKept /\ Told
      BY <2>2 DEF KeptInv
    <3>2. RoundInTime' /\ PublishedKept'
      BY <1>6, <3>1 DEF UpdateMixKeys, RoundInTime, PublishedKept, window
    <3>3. Told'
      BY <1>6, <1>a, <3>1 DEF UpdateMixKeys, Told, told, Workers
    <3> QED
      BY <3>2, <3>3
  <2> QED
    BY <1>6, <2>1, <2>2 DEF KeptInv, UpdateMixKeys
<1>7. CASE Post
  <2>1. HaltOrder' /\ CurrentKey'
    BY <1>7, <1>b DEF Post, HaltOrder, CurrentKey
  <2>2. ASSUME pace = "kept", Running PROVE RoundInTime' /\ PublishedKept' /\ Told'
    <3>1. RoundInTime /\ PublishedKept /\ Told /\ pki' = "idle"
      BY <1>7, <2>2 DEF KeptInv, Post, roundOver
    <3>2. RoundInTime'
      BY <3>1 DEF RoundInTime
    <3>3. PublishedKept'
      BY <1>7, <3>1 DEF Post, RoundInTime, PublishedKept, window
    <3>4. Told'
      BY <1>7, <3>1 DEF Post, Told, told, Workers
    <3> QED
      BY <3>2, <3>3, <3>4
  <2> QED
    BY <1>7, <2>1, <2>2 DEF KeptInv, Post
<1>8. CASE pkiHalts
  BY <1>8, <1>b DEF pkiHalts, KeptInv, HaltOrder, CurrentKey
<1>9. CASE tick
  <2>1. HaltOrder'
    BY <1>9, <1>b DEF tick, HaltOrder
  <2>2. CASE pace' # "kept"
    BY <2>1, <2>2 DEF KeptInv, CurrentKey
  <2>3. CASE pace' = "kept" /\ ~Running
    <3>1. \A w \in Workers : worker'[w] = "halted"
      BY <1>9, <1>a, <1>b, <2>3 DEF tick, HaltOrder
    <3> QED
      BY <1>9, <2>1, <2>3, <3>1 DEF KeptInv, CurrentKey, tick
  <2>4. CASE pace' = "kept" /\ Running
    <3>1. pace = "kept" /\ upToDate
      BY <1>9, <2>4 DEF tick
    <3>2. PublishedKept /\ Told
      BY <2>4, <3>1 DEF KeptInv
    <3>3. last \in {now, now + 1} /\ window(last) \subseteq keys /\ now + 1 \in Epochs
      BY <1>a, <3>1, <3>2 DEF upToDate, PublishedKept, Epochs
    <3>4. now + 1 \in keys
      BY <1>a, <3>3 DEF window
    <3>5. RoundInTime' /\ PublishedKept' /\ Told'
      BY <1>9, <1>a, <3>1, <3>2, <3>3, <3>4
         DEF tick, upToDate, RoundInTime, PublishedKept, Told, told, window
    <3>6. CurrentKey'
      BY <1>9, <1>a, <3>1, <3>2, <3>4 DEF tick, upToDate, Told, told, CurrentKey
    <3> QED
      BY <2>1, <3>5, <3>6 DEF KeptInv
  <2> QED
    BY <2>2, <2>3, <2>4
<1>10. CASE restart
  <2>1. now \in window(now)
    BY <1>a DEF window, Epochs
  <2>2. HaltOrder' /\ CurrentKey'
    BY <1>10, <2>1 DEF restart, HaltOrder, CurrentKey
  <2>3. RoundInTime' /\ PublishedKept' /\ Told'
    BY <1>10, <2>1 DEF restart, RoundInTime, PublishedKept, Told
  <2> QED
    BY <2>2, <2>3 DEF KeptInv
<1>11. CASE haltWorkers \/ haltPKI
  <2>1. HaltOrder' /\ CurrentKey'
    BY <1>11, <1>b DEF haltWorkers, haltPKI, HaltOrder, CurrentKey
  <2>2. ASSUME pace = "kept", Running PROVE RoundInTime' /\ PublishedKept' /\ Told'
    <3>1. RoundInTime /\ PublishedKept /\ Told
      BY <2>2 DEF KeptInv
    <3> QED
      BY <1>11, <3>1, Zenon
         DEF haltWorkers, haltPKI, RoundInTime, PublishedKept, Told, told, window
  <2> QED
    BY <1>11, <2>1, <2>2 DEF KeptInv, haltWorkers, haltPKI
<1>12. CASE haltKeys
  BY <1>12, <1>b DEF haltKeys, KeptInv, HaltOrder, CurrentKey
<1>13. ASSUME NEW w \in Workers, Shadow(w) PROVE KeptInv'
  <2>1. Running
    BY <1>13, <1>a, <1>b DEF Shadow, HaltOrder
  <2>2. HaltOrder'
    BY <1>13, <2>1 DEF Shadow, HaltOrder
  <2>3. ASSUME pace = "kept"
        PROVE  RoundInTime' /\ PublishedKept' /\ Told' /\ CurrentKey'
    <3>1. RoundInTime /\ PublishedKept /\ Told
      BY <2>1, <2>3 DEF KeptInv
    <3>2. RoundInTime' /\ PublishedKept'
      BY <1>13, <3>1 DEF Shadow, RoundInTime, PublishedKept, window
    <3>3. Told'
      BY <1>13, <1>a, <3>1 DEF Shadow, Told, told
    <3>4. CurrentKey'
      BY <1>13, <1>a, <1>b, <3>1 DEF Shadow, PublishedKept, CurrentKey
    <3> QED
      BY <3>2, <3>3, <3>4
  <2> QED
    BY <1>13, <2>2, <2>3, Zenon DEF KeptInv, CurrentKey, Shadow
<1>14. ASSUME NEW w \in Workers, derefKeys(w) PROVE KeptInv'
  <2>1. HaltOrder' /\ CurrentKey'
    BY <1>14, <1>a, <1>b DEF derefKeys, HaltOrder, CurrentKey
  <2>2. ASSUME pace = "kept", Running PROVE RoundInTime' /\ PublishedKept' /\ Told'
    <3>1. RoundInTime /\ PublishedKept /\ Told
      BY <2>2 DEF KeptInv
    <3>2. RoundInTime' /\ PublishedKept'
      BY <1>14, <3>1 DEF derefKeys, RoundInTime, PublishedKept, window
    <3>3. Told'
      BY <1>14, <1>a, <3>1, Zenon DEF derefKeys, Told, told
    <3> QED
      BY <3>2, <3>3
  <2> QED
    BY <1>14, <2>1, <2>2 DEF KeptInv, derefKeys
<1>15. CASE UNCHANGED vars
  BY <1>15 DEF vars, KeptInv, HaltOrder, RoundInTime, PublishedKept, Told, told, window,
     CurrentKey
<1> QED
  BY <1>1, <1>2, <1>3, <1>4, <1>5, <1>6, <1>7, <1>8, <1>9, <1>10, <1>11, <1>12, <1>13,
     <1>14, <1>15 DEF Next, pkiWorker

(* "There always will be a key for the current epoch": every running       *)
(* crypto worker holds it, for any number of workers and epochs, as long   *)
(* as the PKI worker publishes in every epoch and no key failed to be      *)
(* created (publishDescriptorIfNeeded, Generate, Prune,                    *)
(* ReshadowCryptoWorkers).                                                 *)
THEOREM CurrentKeyHolds == Spec => []CurrentKey
<1>1. Init => KeptInv
  <2> SUFFICES ASSUME Init PROVE KeptInv
    OBVIOUS
  <2>1. 1 \in window(1)
    BY MixKeysAssumption DEF window, Epochs, NumMixKeys
  <2> QED
    BY <2>1 DEF Init, KeptInv, HaltOrder, RoundInTime, PublishedKept, Told, CurrentKey
<1>2. KeptInv => CurrentKey
  BY Zenon DEF KeptInv
<1> QED
  BY <1>1, <1>2, KeptStep, Invariance, PTL DEF Spec

-----------------------------------------------------------------------------
(* The replay filter.                                                      *)
(* Whatever is stored anywhere has been accepted. *)
StoredWasAccepted ==
    \A t \in Tags : t \in db \cup writeBack \cup flushing => accepted[t] > 0

FaultInv == FilterTypeOK /\ StoredWasAccepted /\ NoFalseReplay

(* Every acceptance of a tag but one was lost or overlooked, and that one  *)
(* is stored.  The filter knows what is stored unless it is saturated; a   *)
(* tag that is being looked up cannot enter the write-back cache any more. *)
AcceptedIsStored ==
    \A t \in Tags :
        /\ accepted[t] <= lost[t] + 1
        /\ t \notin db \cup writeBack \cup flushing => accepted[t] <= lost[t]

FilterKnows ==
    /\ writeBack \cup flushing \subseteq bloom
    /\ db \subseteq bloom \/ isSaturated

LookupKnown ==
    \A w \in Users : lookup[w] # None =>
        /\ lookup[w] \in bloom \/ isSaturated
        /\ lookup[w] \notin writeBack

OnceInv ==
    FaultInv /\ AcceptedIsStored /\ FilterKnows /\ LookupKnown /\ AtMostOnce

-----------------------------------------------------------------------------
(* The type of the state is preserved by every step. *)
LEMMA TypeStep == FilterTypeOK /\ [FilterNext]_filterVars => FilterTypeOK'
<1> SUFFICES ASSUME FilterTypeOK, [FilterNext]_filterVars PROVE FilterTypeOK'
  OBVIOUS
<1> USE ReplayAssumption DEF FilterTypeOK
<1>1. ASSUME NEW w \in Users, Lookup(w) PROVE FilterTypeOK'
  BY <1>1 DEF Lookup, accept, reject
<1>2. ASSUME NEW w \in Users, NEW t \in Tags, IsNew(w, t) PROVE FilterTypeOK'
  BY <1>2 DEF IsNew, arrive, accept
<1>3. ASSUME NEW w \in Users, NEW t \in Tags, InWriteBack(w, t) PROVE FilterTypeOK'
  BY <1>3 DEF InWriteBack, arrive, reject
<1>4. ASSUME NEW w \in Users, NEW t \in Tags, MaybeReplay(w, t) PROVE FilterTypeOK'
  BY <1>4 DEF MaybeReplay, arrive
<1>5. CASE doFlush
  BY <1>5 DEF doFlush
<1>6. CASE flushed
  BY <1>6 DEF flushed
<1>7. CASE close
  BY <1>7 DEF close, closed
<1>8. CASE New
  BY <1>8 DEF New, stop, rebuilt
<1>9. CASE gone
  BY <1>9 DEF gone, stop
<1>10. CASE UNCHANGED filterVars
  BY <1>10, Zenon DEF filterVars
<1> QED
  BY <1>1, <1>2, <1>3, <1>4, <1>5, <1>6, <1>7, <1>8, <1>9, <1>10 DEF FilterNext, IsReplay

(* Every step keeps what is stored accepted, and rejects only what is      *)
(* stored.                                                                 *)
LEMMA FaultStep == FaultInv /\ [FilterNext]_filterVars => FaultInv'
<1> SUFFICES ASSUME FaultInv, [FilterNext]_filterVars PROVE StoredWasAccepted' /\ NoFalseReplay'
  BY TypeStep DEF FaultInv
<1> USE DEF FaultInv, FilterTypeOK, StoredWasAccepted, NoFalseReplay
<1>1. ASSUME NEW w \in Users, Lookup(w)
      PROVE  StoredWasAccepted' /\ NoFalseReplay'
  BY <1>1, ReplayAssumption DEF Lookup, accept, reject
<1>2. ASSUME NEW w \in Users, NEW t \in Tags, IsNew(w, t)
      PROVE  StoredWasAccepted' /\ NoFalseReplay'
  BY <1>2 DEF IsNew, accept
<1>3. ASSUME NEW w \in Users, NEW t \in Tags, InWriteBack(w, t)
      PROVE  StoredWasAccepted' /\ NoFalseReplay'
  BY <1>3 DEF InWriteBack, reject
<1>4. ASSUME NEW w \in Users, NEW t \in Tags, MaybeReplay(w, t)
      PROVE  StoredWasAccepted' /\ NoFalseReplay'
  BY <1>4 DEF MaybeReplay
<1>5. CASE doFlush
  BY <1>5 DEF doFlush
<1>6. CASE flushed
  BY <1>6 DEF flushed
<1>7. CASE close
  BY <1>7 DEF close, closed
<1>8. CASE New
  BY <1>8 DEF New, stop
<1>9. CASE gone
  BY <1>9 DEF gone, stop
<1>10. CASE UNCHANGED filterVars
  BY <1>10 DEF filterVars
<1> QED
  BY <1>1, <1>2, <1>3, <1>4, <1>5, <1>6, <1>7, <1>8, <1>9, <1>10 DEF FilterNext, IsReplay

(* IsReplay never calls a tag a replay that it has not accepted before:    *)
(* with lookups that overtake a flush, crashes, false positives and a      *)
(* saturated filter.                                                       *)
THEOREM NoFalseReplayHolds == FilterSpec => []NoFalseReplay
<1>1. FilterInit => FaultInv
  BY ReplayAssumption DEF FilterInit, FaultInv, FilterTypeOK, StoredWasAccepted, NoFalseReplay
<1>2. FaultInv => NoFalseReplay
  BY DEF FaultInv
<1> QED
  BY <1>1, <1>2, FaultStep, PTL DEF FilterSpec

-----------------------------------------------------------------------------
(* Every step keeps the filter, the cache and the database consistent with *)
(* the answers.                                                            *)
LEMMA OnceStep ==
    ASSUME OnceInv, [FilterNext]_filterVars
    PROVE  OnceInv'
<1>a. FaultInv'
  BY FaultStep DEF OnceInv
<1> SUFFICES AcceptedIsStored' /\ FilterKnows' /\ LookupKnown' /\ AtMostOnce'
  BY <1>a DEF OnceInv
<1> DEFINE Goal == AcceptedIsStored' /\ FilterKnows' /\ LookupKnown' /\ AtMostOnce'
<1> USE DEF OnceInv, FaultInv, FilterTypeOK, AcceptedIsStored, FilterKnows, LookupKnown,
            AtMostOnce, isSaturated
<1>1. ASSUME NEW w \in Users, Lookup(w) PROVE Goal
  <2> DEFINE t == lookup[w]
  <2>1. /\ t \in Tags /\ lookup' = [lookup EXCEPT ![w] = None] /\ db' = db \cup {t}
        /\ UNCHANGED <<bloom, entries, writeBack, flushing>>
    BY <1>1 DEF Lookup
  <2>2. /\ accepted' = IF t \in db THEN accepted ELSE [accepted EXCEPT ![t] = @ + 1]
        /\ lost' = IF t \in flushing \ db THEN [lost EXCEPT ![t] = @ + 1] ELSE lost
    BY <1>1 DEF Lookup, accept, reject
  <2>3. t \notin writeBack /\ (t \in bloom \/ isSaturated)
    BY <1>1 DEF Lookup
  <2>4. FilterKnows' /\ LookupKnown'
    BY <2>1, <2>3
  <2>5. AcceptedIsStored'
    BY <2>1, <2>2, <2>3
  <2>6. AtMostOnce'
    BY <1>a, <2>5
  <2> QED
    BY <2>4, <2>5, <2>6, Zenon
<1>2. ASSUME NEW w \in Users, NEW t \in Tags, IsNew(w, t) PROVE Goal
  <2>1. t \notin bloom /\ ~isSaturated
    BY <1>2 DEF IsNew, maybeReplay
  <2>2. accepted[t] <= lost[t]
    BY <2>1
  <2>3. AcceptedIsStored' /\ AtMostOnce'
    BY <1>2, <2>2 DEF IsNew, accept
  <2>4. FilterKnows'
    BY <1>2, <2>1 DEF IsNew
  <2>5. LookupKnown'
    BY <1>2, <2>1 DEF IsNew
  <2> QED
    BY <2>3, <2>4, <2>5
<1>3. ASSUME NEW w \in Users, NEW t \in Tags, InWriteBack(w, t) PROVE Goal
  BY <1>3 DEF InWriteBack, reject
<1>4. ASSUME NEW w \in Users, NEW t \in Tags, MaybeReplay(w, t) PROVE Goal
  BY <1>4 DEF MaybeReplay, maybeReplay
<1>5. CASE doFlush
  BY <1>5 DEF doFlush
<1>6. CASE flushed
  BY <1>6, Zenon DEF flushed
<1>7. CASE close
  BY <1>7 DEF close, closed
<1>8. CASE New
  BY <1>8 DEF New, stop, rebuilt
<1>9. CASE gone
  BY <1>9 DEF gone, stop
<1>10. CASE UNCHANGED filterVars
  BY <1>10 DEF filterVars
<1> QED
  BY <1>1, <1>2, <1>3, <1>4, <1>5, <1>6, <1>7, <1>8, <1>9, <1>10, Zenon DEF FilterNext, IsReplay

(* IsReplay is a test and set: a tag is accepted at most once, and once    *)
(* more for every crash that lost it and every lookup that overtook its    *)
(* flush, also after the key was closed and opened again.                  *)
THEOREM AtMostOnceHolds == FilterSpec => []AtMostOnce
<1>1. FilterInit => OnceInv
  BY ReplayAssumption DEF FilterInit, OnceInv, FaultInv, FilterTypeOK, StoredWasAccepted,
     NoFalseReplay, AcceptedIsStored, FilterKnows, LookupKnown, AtMostOnce
<1>2. OnceInv /\ [FilterNext]_filterVars => OnceInv'
  BY OnceStep
<1>3. OnceInv => AtMostOnce
  BY DEF OnceInv
<1> QED
  BY <1>1, <1>2, <1>3, PTL DEF FilterSpec

-----------------------------------------------------------------------------
(* The composition.                                                        *)
(* A worker that looks up a tag has shadowed the key and is not on its way *)
(* to drop it.                                                             *)
LookupHeld ==
    \A w \in Workers : lookup[w] # None => worker[w] = "run" /\ FilterEpoch \in held[w]

NodeInv == IInv /\ FilterTypeOK /\ LookupHeld

-----------------------------------------------------------------------------
(* Every step is one of the mix keys or leaves them alone, and one of the  *)
(* filter or leaves it alone.                                              *)
LEMMA NodeSteps == [NodeNext]_nodeVars => [Next]_vars /\ [FilterNext]_filterVars
<1> SUFFICES ASSUME [NodeNext]_nodeVars PROVE [Next]_vars /\ [FilterNext]_filterVars
  OBVIOUS
<1>1. closeIfUnused \/ openIfGenerated \/ openAtStart => [FilterNext]_filterVars
  BY DEF closeIfUnused, openIfGenerated, openAtStart, FilterNext
<1>2. CASE nodePKI
  BY <1>1, <1>2 DEF nodePKI, Next, pkiWorker
<1>3. ASSUME NEW w \in Workers, nodeWorker(w)
      PROVE  [Next]_vars /\ [FilterNext]_filterVars
  BY <1>1, <1>3, MixNodeAssumption DEF nodeWorker, Next, FilterNext
<1>4. ASSUME NEW w \in Workers, unwrap(w)
      PROVE  [Next]_vars /\ [FilterNext]_filterVars
  BY <1>4, MixNodeAssumption DEF unwrap, FilterNext
<1>5. CASE \/ tick /\ UNCHANGED filterVars
           \/ restart /\ openAtStart
           \/ haltWorkers /\ UNCHANGED filterVars
           \/ haltPKI /\ UNCHANGED filterVars
           \/ haltKeys /\ closeIfUnused
  BY <1>1, <1>5 DEF Next
<1>6. CASE \/ opened /\ doFlush /\ UNCHANGED vars
           \/ flushed /\ UNCHANGED vars
  BY <1>6 DEF FilterNext
<1>7. CASE UNCHANGED nodeVars
  BY <1>7 DEF nodeVars
<1> QED
  BY <1>2, <1>3, <1>4, <1>5, <1>6, <1>7 DEF NodeNext

(* The composition implements the mix keys. *)
THEOREM NodeImplementsKeys == NodeSpec => Spec
  BY NodeSteps, PTL DEF NodeSpec, NodeInit, Spec

(* The composition implements the replay filter. *)
THEOREM NodeImplementsFilter == NodeSpec => FilterSpec
  BY NodeSteps, PTL DEF NodeSpec, NodeInit, FilterSpec

-----------------------------------------------------------------------------
(* What leaves the lookups alone, and the keys of the workers that look up *)
(* something.                                                              *)
LEMMA LookupStep == NodeInv /\ [NodeNext]_nodeVars => LookupHeld'
<1> SUFFICES ASSUME NodeInv, [NodeNext]_nodeVars PROVE LookupHeld'
  OBVIOUS
<1> USE DEF NodeInv, LookupHeld, IInv, Shape, FilterTypeOK
<1>a. closeIfUnused => lookup' = lookup
  BY DEF closeIfUnused, close, filterVars
<1>b. New \/ gone => \A w \in Workers : lookup'[w] = None
  BY MixNodeAssumption DEF New, gone, stop
<1>c. UNCHANGED filterVars => lookup' = lookup
  BY DEF filterVars
<1>d. openIfGenerated => lookup' = lookup \/ \A w \in Workers : lookup'[w] = None
  BY <1>b, <1>c, Zenon DEF openIfGenerated
<1>1. CASE nodePKI
  <2>1. CASE UpdateMixKeys /\ free(todo) /\ UNCHANGED filterVars
    BY <2>1, <1>c, Zenon DEF UpdateMixKeys, free
  <2>2. CASE Generate /\ openIfGenerated
    BY <2>2, <1>d DEF Generate
  <2>3. CASE generateFails /\ closeIfUnused
    BY <2>3, <1>a, Zenon DEF generateFails
  <2>4. CASE Prune /\ closeIfUnused
    BY <2>4, <1>a DEF Prune
  <2>5. CASE publishDescriptorIfNeeded /\ UNCHANGED filterVars
    BY <2>5, <1>c DEF publishDescriptorIfNeeded
  <2>6. CASE generated /\ UNCHANGED filterVars
    BY <2>6, <1>c DEF generated
  <2>7. CASE Post /\ UNCHANGED filterVars
    BY <2>7, <1>c DEF Post
  <2>8. CASE pkiHalts /\ UNCHANGED filterVars
    BY <2>8, <1>c DEF pkiHalts
  <2> QED
    BY <1>1, <2>1, <2>2, <2>3, <2>4, <2>5, <2>6, <2>7, <2>8, Zenon DEF nodePKI
<1>2. ASSUME NEW w \in Workers, nodeWorker(w) PROVE LookupHeld'
  <2>1. CASE Shadow(w) /\ closeIfUnused
    BY <2>1, <1>a DEF Shadow
  <2>2. CASE free(w) /\ derefKeys(w) /\ closeIfUnused
    BY <2>2, <1>a, Zenon DEF derefKeys, free
  <2>3. CASE Lookup(w) /\ UNCHANGED vars
    BY <2>3, MixNodeAssumption, Zenon DEF Lookup, vars
  <2> QED
    BY <1>2, <2>1, <2>2, <2>3, Zenon DEF nodeWorker
<1>3. ASSUME NEW w \in Workers, unwrap(w) PROVE LookupHeld'
  BY <1>3, MixNodeAssumption
     DEF unwrap, candidate, IsReplay, IsNew, InWriteBack, MaybeReplay, vars
<1>4. CASE restart /\ openAtStart
  BY <1>4, <1>b, Zenon DEF openAtStart
<1>5. CASE haltKeys /\ closeIfUnused
  BY <1>5, <1>a, Zenon DEF haltKeys
<1>6. CASE (tick \/ haltWorkers \/ haltPKI) /\ UNCHANGED filterVars
  BY <1>6, <1>c, Zenon DEF tick, haltWorkers, haltPKI
<1>7. CASE \/ opened /\ doFlush /\ UNCHANGED vars
           \/ flushed /\ UNCHANGED vars
  BY <1>7, Zenon DEF doFlush, flushed, vars
<1>8. CASE UNCHANGED nodeVars
  BY <1>8, Zenon DEF nodeVars, vars, filterVars
<1> QED
  BY <1>1, <1>2, <1>3, <1>4, <1>5, <1>6, <1>7, <1>8, Zenon DEF NodeNext

(* A key that somebody holds has a positive count. *)
LEMMA HeldIsCounted ==
    ASSUME IInv, NEW w \in Workers, NEW e \in Epochs, e \in held[w]
    PROVE  refCount[e] > 0
<1>1. refCount[e] = Cardinality(holders(held, e)) + listed(keys, e)
  BY CountedAlt DEF IInv
<1>2. IsFiniteSet(holders(held, e)) /\ Cardinality(holders(held, e)) \in 0..NumWorkers
  BY HoldersBounded, Zenon
<1>3. holders(held, e) # {}
  BY DEF holders
<1>4. Cardinality(holders(held, e)) # 0
  BY <1>2, <1>3, FS_EmptySet
<1>5. listed(keys, e) \in Nat
  BY DEF listed
<1>6. \A n, c, l : c \in 0..NumWorkers /\ c # 0 /\ l \in Nat /\ n = c + l => n > 0
  BY MixKeysAssumption
<1> QED
  BY <1>1, <1>2, <1>4, <1>5, <1>6, Zenon

(* No worker ever looks up a tag in a database that is closed, for any     *)
(* number of crypto workers, epochs and tags.                              *)
THEOREM UsedIsOpenHolds == NodeSpec => []UsedIsOpen
<1>1. Init => IInv
  BY Initially
<1>2. NodeInit => NodeInv
  BY <1>1, ReplayAssumption, MixNodeAssumption
     DEF NodeInit, FilterInit, NodeInv, FilterTypeOK, LookupHeld
<1>3. NodeInv /\ [NodeNext]_nodeVars => NodeInv'
  BY NodeSteps, Preserved, TypeStep, LookupStep, Zenon DEF NodeInv
<1>4. NodeInv => UsedIsOpen
  BY HeldIsCounted, MixNodeAssumption DEF NodeInv, LookupHeld, UsedIsOpen
<1> QED
  BY <1>2, <1>3, <1>4, PTL DEF NodeSpec

(* In the composition, too, the counts are right, every running worker     *)
(* holds the current key, and a tag is accepted once.                      *)
THEOREM NodeSafe ==
    NodeSpec => []RefCounted /\ []CurrentKey /\ []AtMostOnce /\ []NoFalseReplay
  BY NodeImplementsKeys, NodeImplementsFilter, RefCountedHolds, CurrentKeyHolds,
     AtMostOnceHolds, NoFalseReplayHolds, PTL
=============================================================================
