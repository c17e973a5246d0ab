------------------------------ MODULE MemSpool ------------------------------
(***************************************************************************)
(* The remote message spool (memspool/server/spool.go): a map of entries   *)
(* in memory, appended to by request handlers that run concurrently, and   *)
(* written back to the database by a worker, one entry per transaction, in *)
(* the arbitrary order of sync.Map.Range.  One spool is modelled.  The     *)
(* write-back is seen by nobody until the process dies, so its progress is *)
(* chosen then.                                                            *)
(***************************************************************************)
EXTENDS Integers, Sequences, FiniteSets

CONSTANT Nothing        \* no value

VARIABLES
    spool,      \* the spool's place in the map and in the database
    items,      \* items[id]: the payload under a message ID
    current,    \* the last message ID that was given out
    bucket      \* the payloads of the messages bucket by message ID

spoolVars == <<spool, items, current, bucket>>

SpoolInit ==
    /\ spool \in [inMap : {TRUE}, inBucket : BOOLEAN]
    /\ items = <<>> /\ current = 0 /\ bucket = <<>>

(* CreateSpool has the spool in the map first and in the database second.  *)
(* Sent again it returns the ID as soon as the spool is in the map, where  *)
(* every other handler finds it.                                           *)
createSpoolBucket ==
    /\ spool.inMap /\ ~spool.inBucket
    /\ spool' = [spool EXCEPT !.inBucket = TRUE]
    /\ UNCHANGED <<items, current, bucket>>

With(f, id, x) == [i \in DOMAIN f \cup {id} |-> IF i = id THEN x ELSE f[i]]

(* Append, of a spool that is in the map.                                  *)
AppendToSpool(payload) ==
    /\ current' = current + 1
    /\ items' = With(items, current + 1, payload)
    /\ UNCHANGED <<spool, bucket>>

(* The payload under the ID, if there is one.                              *)
ReadFromSpool(id) ==
    IF spool.inMap /\ id \in DOMAIN items THEN items[id] ELSE Nothing

(* doFlush writes the entries that are not in the database, in any order:  *)
(* by the time this is seen it has written any of them.                    *)
doFlush ==
    \E d \in IF spool.inBucket THEN SUBSET DOMAIN items ELSE {{}} :
        bucket' = [i \in DOMAIN bucket \cup d |-> IF i \in d THEN items[i] ELSE bucket[i]]

(* It panics on an entry of a spool that has no bucket.                    *)
FlushPanics == spool.inMap /\ ~spool.inBucket /\ items # <<>>

(* PurgeSpool takes the spool out of the map, and leaves the database.     *)
PurgeSpool ==
    /\ spool.inMap
    /\ spool' = [spool EXCEPT !.inMap = FALSE]
    /\ items' = <<>> /\ current' = 0
    /\ doFlush

Last(ids) == IF ids = {} THEN 0 ELSE CHOOSE i \in ids : \A j \in ids : j <= i

(* The process dies, and load fills the map from the database.             *)
load ==
    /\ doFlush
    /\ items' = bucket' /\ current' = Last(DOMAIN bucket')
    /\ spool' = [spool EXCEPT !.inMap = spool.inBucket]
=============================================================================
