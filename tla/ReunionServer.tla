---------------------------- MODULE ReunionServer ---------------------------
(***************************************************************************)
(* The Reunion DB (reunion/server): one ReunionState per epoch, with the   *)
(* T1 messages posted in it and, for every T1, a list of the T2 and T3     *)
(* messages addressed to it.  A query runs in a goroutine of its own.  The *)
(* maps are sync.Maps and a list has a lock, but what a query does with    *)
(* them takes several steps.                                               *)
(*                                                                         *)
(* All the exchanges are in one epoch, and only the ReunionState of that   *)
(* epoch is modelled.  A T1 is named by the exchange that posts it.        *)
(***************************************************************************)
EXTENDS Integers, Sequences, SequencesExt, FiniteSets

CONSTANTS
    Exchanges,      \* the exchanges; each posts one T1
    Epoch,          \* their epoch
    MaxEpoch,       \* bound on the clock
    MaxFaults,      \* bound on what goes wrong
    None

ASSUME ReunionServerAssumption ==
    Epoch \in Nat \ {0} /\ MaxEpoch \in Nat /\ MaxFaults \in Nat /\ None \notin Exchanges

VARIABLES
    epoch,          \* the current epoch
    served,         \* states has a ReunionState for Epoch
    t1Map,          \* t1Map[x]: the T1 of x, or None
    messageMap,     \* messageMap[x]: the list for the T1 of x, or None
    lists,          \* lists[l]: the contents of list l
    work            \* the queries being processed

serverVars == <<epoch, served, t1Map, messageMap, lists, work>>

(* A list is made by appendT1 for its own T1, or by the first appendT2 or  *)
(* appendT3 that finds none.                                               *)
ListOf(dst, maker, copy) == <<dst, maker, copy>>
ListIDs == Exchanges \X Exchanges \X (0..(MaxFaults + 1))

NoMessages == [l \in ListIDs |-> <<>>]

(* The server has been running since the epoch before. *)
ServerInit ==
    /\ epoch = Epoch
    /\ served = FALSE
    /\ t1Map = [x \in Exchanges |-> None]
    /\ messageMap = [x \in Exchanges |-> None]
    /\ lists = NoMessages
    /\ work = {}

ServerTypeOK ==
    /\ epoch \in Epoch..MaxEpoch 
    /\ served \in BOOLEAN
    /\ DOMAIN t1Map = Exchanges
    /\ messageMap \in [Exchanges -> ListIDs \cup {None}]
    /\ DOMAIN lists = ListIDs
    /\ \A q \in work : q.step \in {"start", "store", "orphan"} /\ q.from \in Exchanges

(* What a fetch finds: the messages it has read, and the T1s. *)
snapshot(q) == [t1s |-> {t1Map[x] : x \in Exchanges} \ {None}, messages |-> q.list]

RequestedReunionState(q) == IF q.step = "orphan" THEN q.list ELSE snapshot(q)

-----------------------------------------------------------------------------
(* The epochs. *)

(* The epochs served besides the current one: the previous one at its end, *)
(* the next one at its beginning.                                          *)
validEpochs(part) ==
    {epoch} \cup (IF part = "end" THEN {epoch - 1}
                  ELSE IF part = "beginning" THEN {epoch + 1} ELSE {})

PartsOfEpoch == {"beginning", "middle", "end"}

MaybeAddEpochs ==
    /\ ~served /\ \E part \in PartsOfEpoch : Epoch \in validEpochs(part)
    /\ served' = TRUE
    /\ UNCHANGED <<epoch, t1Map, messageMap, lists, work>>

(* A query that has looked up the state goes on with it. *)
orphaned == {IF q.step = "store" THEN [q EXCEPT !.step = "orphan", !.list = snapshot(q)] ELSE q :
                q \in work}

forgetState ==
    /\ t1Map' = [x \in Exchanges |-> None]
    /\ messageMap' = [x \in Exchanges |-> None]
    /\ lists' = NoMessages

GarbageCollectOldEpochs ==
    /\ served /\ \E part \in PartsOfEpoch : Epoch \notin validEpochs(part)
    /\ served' = FALSE
    /\ forgetState /\ work' = orphaned
    /\ UNCHANGED epoch

tick ==
    /\ epoch < MaxEpoch /\ epoch' = epoch + 1
    /\ UNCHANGED <<served, t1Map, messageMap, lists, work>>

(* The server is started again with NewServer, which reads no file. *)
restartServer ==
    /\ \E part \in PartsOfEpoch : served' = (Epoch \in validEpochs(part))
    /\ forgetState
    /\ work' = {}
    /\ UNCHANGED epoch

-----------------------------------------------------------------------------
(* The commands. *)
FetchState == [type |-> "fetch"]
SendT1(t1) == [type |-> "t1", payload |-> t1]
SendT2(dst, t2) == [type |-> "t2", dst |-> dst, payload |-> t2]
SendT3(dst, t2, t3) == [type |-> "t3", dst |-> dst, t2 |-> t2, payload |-> t3]

(* The queries.  A query is a command, the exchange it comes from, the     *)
(* number of the transmission and how far the goroutine has come.          *)
Queued(x, n, cmd) == [from |-> x, copy |-> n, cmd |-> cmd, step |-> "start", list |-> None]

(* The goroutine is done: OnCommand answers with the reply of ProcessQuery *)
(* or with ResponseInvalidCommand.                                         *)
finish(q) == work' = work \ {q}

(* Every query but these fails: its epoch has no state, the T1 is present  *)
(* already, or there is no list to fetch.                                  *)
accepted(q) ==
    CASE q.cmd.type = "t1"    -> served /\ t1Map[q.from] = None
      [] q.cmd.type = "fetch" -> served /\ messageMap[q.from] # None
      [] OTHER                -> served

ProcessQueryFails(q) ==
    /\ q.step = "start" /\ ~accepted(q)
    /\ finish(q)
    /\ UNCHANGED <<epoch, served, t1Map, messageMap, lists>>

(* appendT1: t1Map.Store, then messageMap.Store. *)
appendT1(q) ==
    /\ q.cmd.type = "t1" /\ q.step = "start" /\ accepted(q)
    /\ t1Map' = [t1Map EXCEPT ![q.from] = q.cmd.payload]
    /\ work' = (work \ {q}) \cup {[q EXCEPT !.step = "store"]}
    /\ UNCHANGED <<epoch, served, messageMap, lists>>

storeT1(q) ==
    /\ q.cmd.type = "t1" /\ q.step = "store"
    /\ messageMap' = [messageMap EXCEPT ![q.from] = ListOf(q.from, q.from, 0)]
    /\ finish(q)
    /\ UNCHANGED <<epoch, served, t1Map, lists>>

(* appendT2 and appendT3: messageMap.Load, or a new list. *)
loadList(q) ==
    /\ q.cmd.type \in {"t2", "t3"} /\ q.step = "start" /\ accepted(q)
    /\ LET dst == q.cmd.dst
           l == IF messageMap[dst] # None THEN messageMap[dst] ELSE ListOf(dst, q.from, q.copy) IN
       work' = (work \ {q}) \cup {[q EXCEPT !.step = "store", !.list = l]}
    /\ UNCHANGED <<epoch, served, t1Map, messageMap, lists>>

(* Append, and messageMap.Store of the list. *)
storeList(q) ==
    /\ q.cmd.type \in {"t2", "t3"} /\ q.step = "store"
    /\ lists' = [lists EXCEPT ![q.list] =
                    Append(@, [type |-> q.cmd.type, src |-> q.from, payload |-> q.cmd.payload])]
    /\ messageMap' = [messageMap EXCEPT ![q.cmd.dst] = q.list]
    /\ finish(q)
    /\ UNCHANGED <<epoch, served, t1Map>>

(* The state that the goroutine holds has been deleted meanwhile. *)
storeOrphan(q) ==
    /\ q.cmd.type # "fetch" /\ q.step = "orphan"
    /\ finish(q)
    /\ UNCHANGED <<epoch, served, t1Map, messageMap, lists>>

(* fetchState: the messages for the T1, then all the T1s. *)
fetchMessages(q) ==
    /\ q.cmd.type = "fetch" /\ q.step = "start" /\ accepted(q)
    /\ work' = (work \ {q}) \cup {[q EXCEPT !.step = "store", !.list = lists[messageMap[q.from]]]}
    /\ UNCHANGED <<epoch, served, t1Map, messageMap, lists>>

fetchState(q) ==
    /\ q.cmd.type = "fetch" /\ q.step \in {"store", "orphan"}
    /\ finish(q)
    /\ UNCHANGED <<epoch, served, t1Map, messageMap, lists>>
=============================================================================
