---------------------------- MODULE ReplayFilter ----------------------------
(***************************************************************************)
(* The replay filter of one mix key (server/internal/mixkey): crypto       *)
(* workers test and set tags in a Bloom filter and a write-back cache      *)
(* under the key's lock, fall back to the database, and the key's own      *)
(* worker flushes the cache.  The filter is rebuilt from the database when *)
(* the key is opened again.                                                *)
(***************************************************************************)
EXTENDS Integers, FiniteSets

CONSTANTS
    Tags,
    Users,          \* the crypto workers that hold the key
    None,           \* no tag
    MaxEntries,     \* entries at which the Bloom filter is saturated
    MaxPackets      \* bound on the packets that arrive

ASSUME ReplayAssumption ==
    /\ None \notin Tags
    /\ MaxEntries \in Nat /\ MaxPackets \in Nat

VARIABLES
    bloom,          \* the tags that test positive
    entries,        \* entries added to the Bloom filter
    writeBack,      \* the write-back cache
    flushing,       \* the cache that doFlush writes to the database
    db,             \* the tags in the database
    lookup,         \* lookup[w]: the tag that worker w looks up in the database
    arrived,        \* how many packets have arrived
    accepted,       \* accepted[t]: how often IsReplay said that t is new
    rejected,       \* the tags that it said are replays
    lost            \* lost[t]: how often t was accepted and is not known: a
                    \* crash lost it before it was flushed, or a lookup
                    \* overtook the flush that writes it

filterVars == <<bloom, entries, writeBack, flushing, db, lookup, arrived, accepted,
                rejected, lost>>

FilterTypeOK ==
    /\ bloom \subseteq Tags /\ writeBack \subseteq Tags
    /\ flushing \subseteq Tags /\ db \subseteq Tags
    /\ entries \in Nat
    /\ lookup \in [Users -> Tags \cup {None}]
    /\ arrived \in 0..MaxPackets
    /\ accepted \in [Tags -> Nat] /\ rejected \subseteq Tags
    /\ lost \in [Tags -> Nat]

FilterInit ==
    /\ bloom = {} /\ entries = 0
    /\ writeBack = {} /\ flushing = {} /\ db = {}
    /\ lookup = [w \in Users |-> None]
    /\ arrived = 0
    /\ accepted = [t \in Tags |-> 0] /\ rejected = {}
    /\ lost = [t \in Tags |-> 0]

-----------------------------------------------------------------------------
accept(t) == accepted' = [accepted EXCEPT ![t] = @ + 1] /\ UNCHANGED rejected
reject(t) == rejected' = rejected \cup {t} /\ UNCHANGED accepted

isSaturated == entries >= MaxEntries

arrive(w) ==
    /\ lookup[w] = None
    /\ arrived < MaxPackets /\ arrived' = arrived + 1

(* testAndSetTagMemory's answer: a saturated filter forces a lookup. *)
maybeReplay(t) == isSaturated \/ t \in bloom

(* A tag that is not in the filter is new.  Its bits may make other tags   *)
(* test positive as well.                                                  *)
IsNew(w, t) ==
    /\ arrive(w)
    /\ ~maybeReplay(t)
    /\ bloom' \in {b \in SUBSET Tags : bloom \cup {t} \subseteq b}
    /\ entries' = entries + 1
    /\ writeBack' = writeBack \cup {t}
    /\ accept(t)
    /\ UNCHANGED <<flushing, db, lookup, lost>>

(* The tag is in the write-back cache: a replay. *)
InWriteBack(w, t) ==
    /\ arrive(w)
    /\ maybeReplay(t) /\ t \in writeBack
    /\ reject(t)
    /\ UNCHANGED <<bloom, entries, writeBack, flushing, db, lookup, lost>>

(* Fault: what the filter has seen is a replay, false positive or not. *)
dropMaybe(w, t) ==
    /\ arrive(w)
    /\ maybeReplay(t) /\ t \notin writeBack
    /\ reject(t)
    /\ UNCHANGED <<bloom, entries, writeBack, flushing, db, lookup, lost>>

(* Neither: the lock is released and the database decides. *)
MaybeReplay(w, t) ==
    /\ arrive(w)
    /\ maybeReplay(t) /\ t \notin writeBack
    /\ lookup' = [lookup EXCEPT ![w] = t]
    /\ UNCHANGED <<bloom, entries, writeBack, flushing, db, accepted, rejected, lost>>

(* testAndSetTagDB in a transaction of its own, which may come before that *)
(* of a flush that has already emptied the cache.                          *)
Lookup(w) ==
    LET t == lookup[w] IN
    /\ t # None
    /\ IF t \in db THEN reject(t) ELSE accept(t)
    /\ lost' = IF t \in flushing \ db THEN [lost EXCEPT ![t] = @ + 1] ELSE lost
    /\ db' = db \cup {t}
    /\ lookup' = [lookup EXCEPT ![w] = None]
    /\ UNCHANGED <<bloom, entries, writeBack, flushing, arrived>>

-----------------------------------------------------------------------------
(* The key's worker: the ticker forces a flush of any size. *)
doFlush ==
    /\ flushing = {} /\ writeBack # {}
    /\ flushing' = writeBack /\ writeBack' = {}
    /\ UNCHANGED <<bloom, entries, db, lookup, arrived, accepted, rejected, lost>>

flushed ==
    /\ flushing # {}
    /\ db' = db \cup flushing /\ flushing' = {}
    /\ UNCHANGED <<bloom, entries, writeBack, lookup, arrived, accepted, rejected, lost>>

(* Fault: the worker returns without the last flush. *)
closedUnflushed == db \cup flushing

(* What is in the database once the key is closed. *)
closed == db \cup flushing \cup writeBack

(* The last reference is dropped: forceClose waits for the key's worker,   *)
(* whose deferred flush writes the cache.                                  *)
close ==
    /\ db' = closed
    /\ writeBack' = {} /\ flushing' = {}
    /\ UNCHANGED <<bloom, entries, lookup, arrived, accepted, rejected, lost>>

(* The process stops at any point.  What has not been written is lost. *)
stop ==
    /\ lost' = [t \in Tags |->
                   IF t \in (writeBack \cup flushing) \ db THEN lost[t] + 1 ELSE lost[t]]
    /\ writeBack' = {} /\ flushing' = {}
    /\ lookup' = [w \in Users |-> None]
    /\ UNCHANGED <<db, arrived, accepted, rejected>>

(* The process stops, and the key is not opened again. *)
gone == stop /\ UNCHANGED <<bloom, entries>>

(* New's filter over the tags of the database: a tag that tests positive   *)
(* before it is added does not count as an entry.                          *)
rebuilt(S) ==
    /\ bloom' \in {b \in SUBSET Tags : S \subseteq b /\ (S = {} => b = {})}
    /\ entries' \in 0..Cardinality(S)

(* The key is opened, after it was closed or the process stopped. *)
New == stop /\ rebuilt(db)

IsReplay(w, t) == IsNew(w, t) \/ InWriteBack(w, t) \/ MaybeReplay(w, t)

FilterNext ==
    \/ \E w \in Users : Lookup(w) \/ \E t \in Tags : IsReplay(w, t)
    \/ doFlush \/ flushed \/ close \/ New \/ gone

FilterSpec == FilterInit /\ [][FilterNext]_filterVars

-----------------------------------------------------------------------------
(* IsReplay is a test and set ("returns true iff the tag has been seen     *)
(* previously", mixkey.go): whatever the workers and the flushes do, and   *)
(* after the key was closed and opened again, a tag is new at most once.   *)
(* There are two ways to one more chance, and no other: a crash that loses *)
(* it with the write-back cache (a crash after it was flushed does not),   *)
(* and a lookup between the moment at which the cache is emptied and the   *)
(* transaction of the flush.                                               *)
AtMostOnce == \A t \in Tags : accepted[t] <= 1 + lost[t]

(* A tag that was never accepted is never called a replay, however many    *)
(* false positives the Bloom filter has and whether it is saturated.       *)
NoFalseReplay == \A t \in rejected : accepted[t] > 0
=============================================================================
