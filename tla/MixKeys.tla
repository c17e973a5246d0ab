------------------------------ MODULE MixKeys -------------------------------
(***************************************************************************)
(* The mix keys of a server (server/mixkey.go, server/internal/mixkey):    *)
(* generated and pruned by the PKI worker when it publishes a descriptor   *)
(* (server/internal/pki), shadowed by the crypto workers                   *)
(* (server/internal/cryptoworker), reference counted, kept in one database *)
(* file per epoch, and torn down by Server.halt.                           *)
(*                                                                         *)
(* A key's database is open exactly while its reference count is positive, *)
(* and bolt.Open waits for the file lock of an open database, so a key is  *)
(* named by its epoch.                                                     *)
(***************************************************************************)
EXTENDS Integers, FiniteSets

CONSTANTS
    NumWorkers,     \* crypto workers
    MaxEpoch        \* bound on the clock

(* Fault: no key is generated in advance. *)
OneMixKey == 1

NumMixKeys == 3

ASSUME MixKeysAssumption == NumWorkers \in Nat \ {0} /\ MaxEpoch \in Nat \ {0}

Workers == 1..NumWorkers
Epochs  == 1..(MaxEpoch + NumMixKeys)

VARIABLES
    now,            \* the current epoch
    last,           \* lastPublishedEpoch
    keys,           \* mixKeys.keys
    files,          \* the key databases on disk
    refCount,       \* refCount[e]: references to the key of epoch e
    held,           \* held[w]: the keys that worker w has shadowed
    worker,         \* worker[w]: where crypto worker w is
    pki,            \* where the PKI worker is
    base,           \* the epoch it publishes for
    next,           \* the epoch whose key it generates next
    didGen,         \* whether it has generated a key
    todo,           \* the next worker that it tells to reshadow
    halt,           \* how far Server.halt has come
    pace            \* whether the PKI worker has kept up with the clock since
                    \* the server was started, and could create all keys

vars == <<now, last, keys, files, refCount, held, worker, pki, base, next,
          didGen, todo, halt, pace>>

pkiVars == <<last, base, next, didGen, todo>>

TypeOK ==
    /\ now \in 1..MaxEpoch /\ last \in 0..(MaxEpoch + 1)
    /\ keys \subseteq Epochs /\ files \subseteq Epochs
    /\ refCount \in [Epochs -> 0..(NumWorkers + 1)]
    /\ held \in [Workers -> SUBSET Epochs]
    /\ worker \in [Workers -> {"run", "shadow", "halted"}]
    /\ pki \in {"idle", "generate", "prune", "reshadow", "halted"}
    /\ base \in 0..(MaxEpoch + 1) /\ next \in 0..(MaxEpoch + 1 + NumMixKeys)
    /\ didGen \in BOOLEAN /\ todo \in 1..(NumWorkers + 1)
    /\ halt \in {"no", "workers", "pki", "complete"}
    /\ pace \in {"kept", "lost", "failed"}

window(e) == {k \in Epochs : e <= k /\ k < e + NumMixKeys}

(* The references after mixKeys.init and the first Shadow of every worker. *)
startRefs(e) == [k \in Epochs |-> IF k \in window(e) THEN NumWorkers + 1 ELSE 0]

Init ==
    /\ now = 1
    /\ keys = window(1) /\ files = window(1) /\ refCount = startRefs(1)
    /\ held = [w \in Workers |-> window(1)]
    /\ worker = [w \in Workers |-> "run"]
    /\ pki = "idle" /\ last = 0 /\ base = 0 /\ next = 0 /\ didGen = FALSE /\ todo = 1
    /\ halt = "no" /\ pace = "kept"

-----------------------------------------------------------------------------
(* Reference counts. *)

(* Deref of every key in S: the last reference closes the database, and    *)
(* unlinks it if the key has expired.                                      *)
dereferenced(S) == [e \in Epochs |-> IF e \in S THEN refCount[e] - 1 ELSE refCount[e]]

unlinked(S) == {e \in S : refCount[e] = 1 /\ e < now - 1}

-----------------------------------------------------------------------------
(* The PKI worker: publishDescriptorIfNeeded. *)

(* After a round the worker sleeps, or returns if it has been cancelled. *)
roundOver == IF halt = "pki" THEN "halted" ELSE "idle"

(* The epoch to publish for.  The descriptor for the next epoch is         *)
(* published once the one for this epoch has been.                         *)
doPublishEpoch == IF last = now THEN now + 1 ELSE now

publishDescriptorIfNeeded ==
    /\ pki = "idle"
    /\ last # now + 1
    /\ base' = doPublishEpoch /\ next' = doPublishEpoch
    /\ didGen' = FALSE
    /\ pki' = "generate"
    /\ UNCHANGED <<now, last, keys, files, refCount, held, worker, todo, halt, pace>>

(* One turn of Generate's loop, which holds the lock throughout.  Opening  *)
(* a database that is still open elsewhere blocks.                         *)
Generate ==
    /\ pki = "generate"
    /\ next < base + NumMixKeys
    /\ next' = next + 1
    /\ IF next \in keys
       THEN UNCHANGED <<keys, files, refCount, didGen>>
       ELSE /\ refCount[next] = 0
            /\ keys' = keys \cup {next}
            /\ files' = files \cup {next}
            /\ refCount' = [refCount EXCEPT ![next] = 1]
            /\ didGen' = TRUE
    /\ UNCHANGED <<now, last, held, worker, pki, base, todo, halt, pace>>

(* mixkey.New fails: every key of the window is dropped and the worker     *)
(* tries again later.  This happens once between two starts at most.       *)
generateFails ==
    /\ pki = "generate" /\ pace # "failed"
    /\ next < base + NumMixKeys /\ next \notin keys /\ refCount[next] = 0
    /\ LET dropped == keys \cap window(base) IN
       /\ refCount' = dereferenced(dropped)
       /\ \E created \in SUBSET {next} : files' = (files \cup created) \ unlinked(dropped)
    /\ keys' = keys \ window(base)
    /\ pki' = roundOver
    /\ pace' = "failed"
    /\ UNCHANGED <<now, held, worker, pkiVars, halt>>

generated ==
    /\ pki = "generate"
    /\ next = base + NumMixKeys
    /\ pki' = "prune"
    /\ UNCHANGED <<now, keys, files, refCount, held, worker, pkiVars, halt, pace>>

expired == {e \in keys : e < now - 1}

(* Prune, and the check that the keys to publish are still there. *)
Prune ==
    /\ pki = "prune"
    /\ refCount' = dereferenced(expired)
    /\ files' = files \ unlinked(expired)
    /\ keys' = keys \ expired
    /\ pki' = IF window(base) \subseteq keys' THEN "reshadow" ELSE roundOver
    /\ todo' = IF didGen \/ expired # {} THEN 1 ELSE NumWorkers + 1
    /\ UNCHANGED <<now, last, held, worker, base, next, didGen, halt, pace>>

(* ReshadowCryptoWorkers: the send waits for the worker's select.  Once    *)
(* halt has stopped the worker nothing receives, and the slot of the       *)
(* worker is nil soon after: the PKI worker waits for ever or panics.      *)
UpdateMixKeys ==
    /\ pki = "reshadow" /\ todo <= NumWorkers
    /\ worker[todo] = "run"
    /\ worker' = [worker EXCEPT ![todo] = "shadow"]
    /\ todo' = todo + 1
    /\ UNCHANGED <<now, last, keys, files, refCount, held, pki, base, next, didGen, halt, pace>>

(* Post: whatever the authorities answer counts as published. *)
Post ==
    /\ pki = "reshadow" /\ todo = NumWorkers + 1
    /\ last' = base
    /\ pki' = roundOver
    /\ UNCHANGED <<now, keys, files, refCount, held, worker, base, next, didGen, todo, halt, pace>>

-----------------------------------------------------------------------------
(* A crypto worker takes over the current set of keys. *)
Shadow(w) ==
    /\ worker[w] = "shadow"
    /\ pki # "generate"
    /\ LET gone == held[w] \ keys  new == keys \ held[w] IN
       /\ refCount' = [e \in Epochs |-> IF e \in new THEN refCount[e] + 1
                                       ELSE dereferenced(gone)[e]]
       /\ files' = files \ unlinked(gone)
    /\ held' = [held EXCEPT ![w] = keys]
    /\ worker' = [worker EXCEPT ![w] = "run"]
    /\ UNCHANGED <<now, keys, pki, pkiVars, halt, pace>>

(* A crypto worker sees HaltCh and drops its keys.  The workers are halted *)
(* one after the other.                                                    *)
derefKeys(w) ==
    /\ halt = "workers"
    /\ worker[w] = "run"
    /\ \A v \in Workers : v < w => worker[v] = "halted"
    /\ refCount' = dereferenced(held[w])
    /\ files' = files \ unlinked(held[w])
    /\ held' = [held EXCEPT ![w] = {}]
    /\ worker' = [worker EXCEPT ![w] = "halted"]
    /\ UNCHANGED <<now, keys, pki, pkiVars, halt, pace>>

(* Server.halt: the crypto workers, then the PKI worker, then the keys. *)
haltWorkers ==
    /\ halt = "no" /\ halt' = "workers"
    /\ UNCHANGED <<now, keys, files, refCount, held, worker, pki, pkiVars, pace>>

haltPKI ==
    /\ halt = "workers" /\ \A w \in Workers : worker[w] = "halted"
    /\ halt' = "pki"
    /\ UNCHANGED <<now, keys, files, refCount, held, worker, pki, pkiVars, pace>>

(* Fault: HaltCh is not looked at between two rounds. *)
pkiHaltsLate ==
    /\ halt = "complete" /\ pki = "idle"
    /\ pki' = "halted"
    /\ UNCHANGED <<now, keys, files, refCount, held, worker, pkiVars, halt, pace>>

(* The PKI worker sees HaltCh between two rounds. *)
pkiHalts ==
    /\ halt = "pki" /\ pki = "idle"
    /\ pki' = "halted"
    /\ UNCHANGED <<now, keys, files, refCount, held, worker, pkiVars, halt, pace>>

haltKeys ==
    /\ halt = "pki" /\ pki = "halted"
    /\ refCount' = dereferenced(keys)
    /\ files' = files \ unlinked(keys)
    /\ keys' = {}
    /\ halt' = "complete"
    /\ UNCHANGED <<now, held, worker, pki, pkiVars, pace>>

(* What init keeps of the files of other keys: it removes past epochs'. *)
notStale == {f \in files : f >= now}

(* The server stops at any point, or completes its shutdown, and is        *)
(* started again: only the files are left.                                 *)
restart ==
    /\ keys' = window(now)
    /\ files' = window(now) \cup notStale
    /\ refCount' = startRefs(now)
    /\ held' = [w \in Workers |-> window(now)]
    /\ worker' = [w \in Workers |-> "run"]
    /\ pki' = "idle" /\ last' = 0 /\ base' = 0 /\ next' = 0 /\ didGen' = FALSE /\ todo' = 1
    /\ halt' = "no" /\ pace' = "kept"
    /\ UNCHANGED now

(* The PKI worker has published in this epoch, and the workers have taken  *)
(* over the keys.                                                          *)
upToDate ==
    /\ pki = "idle" /\ last \in {now, now + 1}
    /\ \A w \in Workers : worker[w] # "shadow"

tick ==
    /\ now < MaxEpoch
    /\ pace' = IF pace = "kept" /\ ~upToDate THEN "lost" ELSE pace
    /\ now' = now + 1
    /\ UNCHANGED <<keys, files, refCount, held, worker, pki, pkiVars, halt>>

pkiWorker ==
    \/ publishDescriptorIfNeeded \/ Generate \/ generateFails \/ generated
    \/ Prune \/ UpdateMixKeys \/ Post \/ pkiHalts

Next ==
    \/ pkiWorker \/ tick \/ restart
    \/ haltWorkers \/ haltPKI \/ haltKeys
    \/ \E w \in Workers : Shadow(w) \/ derefKeys(w)

Spec == Init /\ [][Next]_vars

-----------------------------------------------------------------------------
(* The reference count of a key is the number of its holders, through      *)
(* generation, pruning, failures, shutdown and restart.  So no worker uses *)
(* a key whose database is closed, and neither panic of Ref and Deref can  *)
(* happen.                                                                 *)
RefCounted ==
    \A e \in Epochs :
        refCount[e] = Cardinality({w \in Workers : e \in held[w]})
                      + (IF e \in keys THEN 1 ELSE 0)

(* "There always will be a key for the current epoch" (crypto_worker.go):  *)
(* every running crypto worker holds it, as long as the PKI worker         *)
(* publishes in every epoch and no key failed to be created.               *)
CurrentKey == pace = "kept" => \A w \in Workers : worker[w] # "halted" => now \in held[w]

(* Server.Shutdown returns ("Shutdown cleanly shuts down a given Server    *)
(* instance.", server.go), unless the PKI worker is about to tell a crypto *)
(* worker that has been halted already to reshadow, or waits for the file  *)
(* lock of a key that it dropped when it failed to create another.         *)
ShutdownCompletes ==
    halt = "workers" ~>
        \/ halt \in {"no", "complete"}
        \/ (pki = "reshadow" /\ todo <= NumWorkers /\ worker[todo] = "halted")
        \/ (pki = "generate" /\ next \notin keys /\ next \in Epochs /\ refCount[next] > 0)
=============================================================================
