------------------------------ MODULE MixNode -------------------------------
(***************************************************************************)
(* The mix keys of a server together with the replay filter that one of    *)
(* them owns: a crypto worker (server/internal/cryptoworker) tests the     *)
(* tags of packets against the filter of a key that it has shadowed, and   *)
(* takes no new keys and does not halt meanwhile; the last reference       *)
(* closes the filter, and mixkey.New opens it again.                       *)
(***************************************************************************)
EXTENDS MixKeys, ReplayFilter

CONSTANT FilterEpoch    \* the epoch of the key whose filter is followed

ASSUME MixNodeAssumption == FilterEpoch \in Epochs /\ Users = Workers

nodeVars == <<vars, filterVars>>

NodeInit == Init /\ FilterInit

-----------------------------------------------------------------------------
(* doUnwrap tries the key of the epoch, which must be there, and that of   *)
(* the epoch before or after.                                              *)
candidate(w) ==
    /\ worker[w] = "run" /\ now \in held[w]
    /\ FilterEpoch \in held[w] \cap {now - 1, now, now + 1}

(* Fault: the lookup goes on in another goroutine. *)
freeAlways(w) == TRUE

(* The worker is in its select. *)
free(w) == lookup[w] = None

(* The last Deref of the key closes it. *)
closeIfUnused ==
    IF refCount[FilterEpoch] > 0 /\ refCount'[FilterEpoch] = 0 THEN close ELSE UNCHANGED filterVars

(* A new reference where there was none: New has opened the key. *)
openIfGenerated ==
    IF refCount[FilterEpoch] = 0 /\ refCount'[FilterEpoch] > 0 THEN New ELSE UNCHANGED filterVars

(* The process is gone; init opens the keys from the current epoch on. *)
openAtStart ==
    IF FilterEpoch \in window(now) THEN New ELSE gone

opened == refCount[FilterEpoch] > 0

nodePKI ==
    \/ publishDescriptorIfNeeded /\ UNCHANGED filterVars
    \/ Generate /\ openIfGenerated
    \/ generateFails /\ closeIfUnused
    \/ generated /\ UNCHANGED filterVars
    \/ Prune /\ closeIfUnused
    \/ UpdateMixKeys /\ free(todo) /\ UNCHANGED filterVars
    \/ Post /\ UNCHANGED filterVars
    \/ pkiHalts /\ UNCHANGED filterVars

nodeWorker(w) ==
    \/ Shadow(w) /\ closeIfUnused
    \/ free(w) /\ derefKeys(w) /\ closeIfUnused
    \/ Lookup(w) /\ UNCHANGED vars

unwrap(w) == \E t \in Tags : candidate(w) /\ IsReplay(w, t) /\ UNCHANGED vars

NodeNext ==
    \/ nodePKI
    \/ tick /\ UNCHANGED filterVars
    \/ restart /\ openAtStart
    \/ haltWorkers /\ UNCHANGED filterVars
    \/ haltPKI /\ UNCHANGED filterVars
    \/ haltKeys /\ closeIfUnused
    \/ \E w \in Workers : nodeWorker(w) \/ unwrap(w)
    \/ opened /\ doFlush /\ UNCHANGED vars
    \/ flushed /\ UNCHANGED vars

NodeSpec == NodeInit /\ [][NodeNext]_nodeVars

(* Every goroutine is scheduled, and a shutdown once begun goes on. *)
NodeFairSpec ==
    /\ NodeSpec
    /\ WF_nodeVars(nodePKI)
    /\ WF_nodeVars(haltPKI /\ UNCHANGED filterVars) /\ WF_nodeVars(haltKeys /\ closeIfUnused)
    /\ \A w \in Workers : WF_nodeVars(nodeWorker(w))

-----------------------------------------------------------------------------
(* A worker that looks up a tag finds the database of the key open: nobody *)
(* drops the last reference meanwhile, whichever way keys are pruned,      *)
(* dropped after a failure or given up in a shutdown.  IsReplay would      *)
(* panic otherwise.                                                        *)
UsedIsOpen == \A w \in Workers : lookup[w] # None => refCount[FilterEpoch] > 0
=============================================================================
