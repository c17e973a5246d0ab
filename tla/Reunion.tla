------------------------------ MODULE Reunion -------------------------------
(***************************************************************************)
(* Reunion exchanges (reunion/client, reunion/crypto) over a Reunion DB.   *)
(* An exchange posts a T1, answers every other T1 with a T2, answers every *)
(* T2 that opens the beta of its sender's T1 with a T3, and is complete    *)
(* when a T3 opens the gamma of a T1 whose beta it has opened.             *)
(*                                                                         *)
(* Keys are symbolic: a ciphertext is a record of its key and contents,    *)
(* and opens to Garbage, or not at all, with any other key.  The salt of   *)
(* every key derivation holds the date.                                    *)
(***************************************************************************)
EXTENDS ReunionServer

CONSTANTS
    Passphrases,    \* the ways to give each exchange a passphrase
    Garbage         \* what decryption with a wrong key gives

ASSUME ReunionAssumption == \A p \in Passphrases : DOMAIN p = Exchanges

VARIABLES
    passphrase,     \* passphrase[x]: the passphrase of exchange x
    day,            \* getLatestMidnight
    pc,             \* pc[x]: where Run of exchange x is
    asked,          \* asked[x]: the command whose reply x awaits, or None
    copy,           \* copy[x]: the number of the transmission awaited
    ex,             \* ex[x]: what exchange x has sent and received
    saved,          \* saved[x]: the last snapshot of ex[x], or None
    result,         \* result[x]: the payload received, or None
    faults,         \* how much has gone wrong
    excuse          \* what has kept an exchange from being completed

clientVars == <<passphrase, day, pc, asked, copy, ex, saved, result, faults, excuse>>
vars == <<serverVars, clientVars>>

NewExchange ==
    [sentT1      |-> None,
     receivedT1s |-> {}, receivedT2s |-> {}, receivedT3s |-> {},
     repliedT1s  |-> {}, repliedT2s |-> {},
     alphas      |-> [y \in Exchanges |-> None],
     betas       |-> {}]

Init ==
    /\ ServerInit
    /\ passphrase \in Passphrases /\ day = 0
    /\ pc = [x \in Exchanges |-> "t1"]
    /\ asked = [x \in Exchanges |-> None] /\ copy = [x \in Exchanges |-> 1]
    /\ ex = [x \in Exchanges |-> NewExchange]
    /\ saved = [x \in Exchanges |-> None] /\ result = [x \in Exchanges |-> None]
    /\ faults = 0 /\ excuse = {}

-----------------------------------------------------------------------------
(* The cryptography (crypto/session.go, crypto.go). *)

(* NewSession derives the key from the passphrase and the date, once. *)
sharedEpochKey(x) == <<passphrase[x], 0>>

deriveSprpKey(type, x) == <<type, sharedEpochKey(x), day>>

SPRPEncrypt(k, text) == [key |-> k, text |-> text]

(* No integrity: another key gives garbage. *)
SPRPDecrypt(k, c) == IF c # Garbage /\ c.key = k THEN c.text ELSE Garbage

(* The Diffie-Hellman value of two keys, in the salt of the date. *)
innerKey(type, x, pub) ==
    <<type, day, {x, pub}>>

sessionKey(i, x) == <<i, x>>

(* chacha20poly1305: only its key opens a ciphertext. *)
Opens(k, c) == c.key = k

GenerateType1Message(x) ==
    [from  |-> x,
     alpha |-> SPRPEncrypt(deriveSprpKey("t1", x), x),
     beta  |-> [key |-> sessionKey(1, x), text |-> x],
     gamma |-> [key |-> sessionKey(2, x), text |-> x]]

alphaPubKey(x, t1) == SPRPDecrypt(deriveSprpKey("t1", x), t1.alpha)

(* The T2 for a T1: the key of the beta of x's own T1. *)
ProcessType1MessageAlpha(x, t1) ==
    SPRPEncrypt(deriveSprpKey("t2", x),
                SPRPEncrypt(innerKey("t2", x, alphaPubKey(x, t1)), sessionKey(1, x)))

GetCandidateKey(x, t2, alpha) ==
    SPRPDecrypt(innerKey("t2", x, alpha), SPRPDecrypt(deriveSprpKey("t2", x), t2))

ComposeType3Message(x, beta) ==
    SPRPEncrypt(deriveSprpKey("t3", x),
                SPRPEncrypt(innerKey("t3", x, beta), sessionKey(2, x)))

gammaKey(x, t3, beta) ==
    SPRPDecrypt(innerKey("t3", x, beta), SPRPDecrypt(deriveSprpKey("t3", x), t3))

-----------------------------------------------------------------------------
(* Queries, and what the exchange does with the reply. *)

(* Exchanges that have lost something are followed no further, but for     *)
(* those that go on past midnight.                                         *)
Followed == excuse \subseteq {"midnight"}

Query(x, cmd) ==
    /\ Followed /\ asked[x] = None
    /\ asked' = [asked EXCEPT ![x] = cmd]
    /\ work' = work \cup {Queued(x, copy[x], cmd)}
    /\ UNCHANGED <<epoch, served, t1Map, messageMap, lists, passphrase, day, copy, saved, result, faults, excuse>>

(* The transmission sent last is the one whose reply counts. *)
awaited(q) == asked[q.from] = q.cmd /\ copy[q.from] = q.copy

goto(x, step) == pc' = [pc EXCEPT ![x] = step]

(* sentUpdateOK: the application gets a snapshot. *)
sentUpdateOK(x, step) == goto(x, step) /\ saved' = [saved EXCEPT ![x] = ex'[x]]

(* The T2 and T3 messages of a state: the first of every sender is kept. *)
firsts(known, msgs, type) ==
    LET mine == SelectSeq(msgs, LAMBDA msg : msg.type = type)
        first(i) == \A j \in 1..(i - 1) : mine[j].src # mine[i].src IN
    known \cup {mine[i] : i \in {j \in DOMAIN mine :
                    first(j) /\ \A msg \in known : msg.src # mine[j].src}}

processState(e, state) ==
    [e EXCEPT !.receivedT1s = @ \cup state.t1s,
              !.receivedT2s = firsts(@, state.messages, "t2"),
              !.receivedT3s = firsts(@, state.messages, "t3")]

onResponse(q) ==
    LET x == q.from  e == ex[x] IN
    CASE q.cmd.type = "t1" ->
             UNCHANGED ex /\ sentUpdateOK(x, "fetch")
      [] q.cmd.type = "fetch" ->
             /\ ex' = [ex EXCEPT ![x] = processState(e, RequestedReunionState(q))]
             /\ goto(x, "t2") /\ UNCHANGED saved
      [] q.cmd.type = "t2" ->
             /\ ex' = [ex EXCEPT ![x].repliedT1s = @ \cup {q.cmd.dst}]
             /\ UNCHANGED <<pc, saved>>
      [] q.cmd.type = "t3" ->
             /\ ex' = [ex EXCEPT ![x].repliedT2s = @ \cup {q.cmd.t2},
                                 ![x].betas = @ \cup {q.cmd.dst}]
             /\ UNCHANGED <<pc, saved>>

(* An error, or ResponseInvalidCommand: it ends the exchange, or the loop  *)
(* over the T2s or the T3s.                                                *)
onError(x, type) ==
    /\ UNCHANGED ex
    /\ CASE type \in {"t1", "fetch"} -> goto(x, "failed") /\ UNCHANGED saved
         [] type = "t2" -> sentUpdateOK(x, "t3")
         [] type = "t3" -> sentUpdateOK(x, "process")

reply(q, ok) ==
    IF awaited(q)
    THEN /\ asked' = [asked EXCEPT ![q.from] = None]
         /\ IF ok THEN onResponse(q) ELSE onError(q.from, q.cmd.type)
         /\ UNCHANGED <<passphrase, day, copy, result, faults>>
    ELSE UNCHANGED <<passphrase, day, pc, asked, copy, ex, saved, result, faults>>

(* A list with messages in it is replaced by another one. *)
overwrites(dst, l) ==
    messageMap[dst] \notin {None, l} /\ lists[messageMap[dst]] # <<>>

noteOverwritten(dst, l) ==
    excuse' = IF overwrites(dst, l) THEN excuse \cup {"overwritten"} ELSE excuse

(* One step of the goroutine of a query. *)
serve(q) ==
    \/ ProcessQueryFails(q) /\ reply(q, FALSE) /\ UNCHANGED excuse
    \/ appendT1(q) /\ UNCHANGED clientVars
    \/ storeT1(q) /\ reply(q, TRUE) /\ noteOverwritten(q.from, ListOf(q.from, q.from, 0))
    \/ loadList(q) /\ UNCHANGED clientVars
    \/ storeList(q) /\ reply(q, TRUE) /\ noteOverwritten(q.cmd.dst, q.list)
    \/ storeOrphan(q) /\ reply(q, TRUE) /\ UNCHANGED excuse
    \/ fetchMessages(q) /\ UNCHANGED clientVars
    \/ fetchState(q) /\ reply(q, TRUE) /\ UNCHANGED excuse

-----------------------------------------------------------------------------
(* Exchange.Run. *)

sendT1(x) ==
    /\ pc[x] = "t1"
    /\ Query(x, SendT1(GenerateType1Message(x)))
    /\ ex' = [ex EXCEPT ![x].sentT1 = GenerateType1Message(x)]
    /\ UNCHANGED pc

fetch(x) ==
    /\ pc[x] = "fetch"
    /\ Query(x, FetchState)
    /\ UNCHANGED <<pc, ex>>

(* Fault: its own T1 as well. *)
newT1sAll(x) == {t1 \in ex[x].receivedT1s : t1.from \notin ex[x].repliedT1s}

(* The T1s to reply to. *)
newT1s(x) ==
    {t1 \in ex[x].receivedT1s : t1 # ex[x].sentT1 /\ t1.from \notin ex[x].repliedT1s}

(* Fault: the T1 counts as replied to before the query has succeeded. *)
sendT2Once(x, t1) ==
    /\ pc[x] = "t2" /\ t1 \in newT1s(x)
    /\ Query(x, SendT2(t1.from, ProcessType1MessageAlpha(x, t1)))
    /\ ex' = [ex EXCEPT ![x].alphas[t1.from] = alphaPubKey(x, t1),
                        ![x].repliedT1s = @ \cup {t1.from}]
    /\ UNCHANGED pc

sendT2(x, t1) ==
    /\ pc[x] = "t2" /\ t1 \in newT1s(x)
    /\ Query(x, SendT2(t1.from, ProcessType1MessageAlpha(x, t1)))
    /\ ex' = [ex EXCEPT ![x].alphas[t1.from] = alphaPubKey(x, t1)]
    /\ UNCHANGED pc

sentT2Messages(x) ==
    /\ Followed /\ pc[x] = "t2" /\ asked[x] = None /\ newT1s(x) = {}
    /\ UNCHANGED ex /\ sentUpdateOK(x, "t3")
    /\ UNCHANGED <<serverVars, passphrase, day, asked, copy, result, faults, excuse>>

(* The T2s to reply to, and those among them that open a beta. *)
newT2s(x) == {t2 \in ex[x].receivedT2s : t2 \notin ex[x].repliedT2s}

t1Of(x, src) == {t1 \in ex[x].receivedT1s : t1.from = src}

(* The T1 or its alpha is missing: sendT3Messages gives up. *)
unprepared(x, t2) == t1Of(x, t2.src) = {} \/ ex[x].alphas[t2.src] = None

DecryptT1Beta(x, t2) ==
    \E t1 \in t1Of(x, t2.src) :
        Opens(GetCandidateKey(x, t2.payload, ex[x].alphas[t2.src]), t1.beta)

sendT3(x, t2) ==
    /\ pc[x] = "t3" /\ t2 \in newT2s(x) /\ ~unprepared(x, t2)
    /\ DecryptT1Beta(x, t2)
    /\ Query(x, SendT3(t2.src, t2, ComposeType3Message(x, t2.src)))
    /\ UNCHANGED <<pc, ex>>

sentT3Messages(x) ==
    /\ Followed /\ pc[x] = "t3" /\ asked[x] = None
    /\ \/ \E t2 \in newT2s(x) : unprepared(x, t2)
       \/ \A t2 \in newT2s(x) : ~DecryptT1Beta(x, t2)
    /\ UNCHANGED ex /\ sentUpdateOK(x, "process")
    /\ UNCHANGED <<serverVars, passphrase, day, asked, copy, result, faults, excuse>>

(* The T3s of the exchanges whose beta has been opened. *)
processT3Messages(x) ==
    LET ready == {t3 \in ex[x].receivedT3s : t3.src \in ex[x].betas}
        opens(t3) == \E t1 \in t1Of(x, t3.src) :
                         Opens(gammaKey(x, t3.payload, t3.src), t1.gamma) IN
    /\ Followed /\ pc[x] = "process"
    /\ IF ready # {} /\ \A t3 \in ready : opens(t3)
       THEN /\ goto(x, "done")
            /\ \E t3 \in ready : result' = [result EXCEPT ![x] = t3.src]
       ELSE goto(x, "fetch") /\ UNCHANGED result
    /\ UNCHANGED <<serverVars, passphrase, day, asked, copy, ex, saved, faults, excuse>>

Run(x) ==
    \/ sendT1(x) \/ fetch(x)
    \/ \E t1 \in ex[x].receivedT1s : sendT2(x, t1)
    \/ sentT2Messages(x)
    \/ \E t2 \in ex[x].receivedT2s : sendT3(x, t2)
    \/ sentT3Messages(x) \/ processT3Messages(x)

-----------------------------------------------------------------------------
(* What goes wrong. *)

unfinished(x) == pc[x] \notin {"done", "failed"}
posted(x) == saved[x] # None
excused(why) ==
    excuse' = IF \E x \in Exchanges : ex[x].sentT1 # None THEN excuse \cup {why} ELSE excuse

fault == Followed /\ faults < MaxFaults /\ faults' = faults + 1

(* The query never reaches the server, or it is there. *)
mayBeLost(x) == {work, {q \in work : ~(awaited(q) /\ q.from = x /\ q.step = "start")}}

(* The reply does not come in time: the client session sends the query     *)
(* once more.                                                              *)
retransmit(x) ==
    /\ asked[x] # None /\ fault
    /\ copy' = [copy EXCEPT ![x] = @ + 1]
    /\ \E rest \in mayBeLost(x) : work' = rest \cup {Queued(x, copy[x] + 1, asked[x])}
    /\ UNCHANGED <<epoch, served, t1Map, messageMap, lists, passphrase, day, pc, asked, ex, saved, result,
                   excuse>>

(* Query returns an error.  The server may process the query all the same. *)
queryFails(x) ==
    /\ asked[x] # None /\ fault
    /\ onError(x, asked[x].type)
    /\ asked' = [asked EXCEPT ![x] = None]
    /\ copy' = [copy EXCEPT ![x] = @ + 1]
    /\ work' \in mayBeLost(x)
    /\ excuse' = IF asked[x].type = "fetch" THEN excuse \cup {"fetch"} ELSE excuse
    /\ UNCHANGED <<epoch, served, t1Map, messageMap, lists, passphrase, day, result>>

(* shouldStop, after an update. *)
shouldStop(x) ==
    /\ pc[x] \in {"fetch", "t3", "process"} /\ asked[x] = None /\ fault
    /\ goto(x, "failed")
    /\ excused("stopped")
    /\ UNCHANGED <<serverVars, passphrase, day, asked, copy, ex, saved, result>>

(* The client stops and is started again: NewExchangeFromSnapshot, if there *)
(* is a snapshot and its epoch is still among those announced.             *)
NewExchangeFromSnapshot(x) ==
    /\ unfinished(x) /\ fault
    /\ asked' = [asked EXCEPT ![x] = None]
    /\ copy' = [copy EXCEPT ![x] = @ + 1]
    /\ IF posted(x) /\ Epoch \in (epoch - 1)..(epoch + 1)
       THEN goto(x, "fetch") /\ ex' = [ex EXCEPT ![x] = saved[x]]
       ELSE goto(x, "failed") /\ UNCHANGED ex
    /\ UNCHANGED <<serverVars, passphrase, day, saved, result, excuse>>

midnight ==
    /\ day = 0 /\ day' = 1 /\ fault
    /\ excused("midnight")
    /\ UNCHANGED <<serverVars, passphrase, pc, asked, copy, ex, saved, result>>

restart ==
    /\ fault
    /\ restartServer
    /\ excused("restart")
    /\ UNCHANGED <<passphrase, day, pc, asked, copy, ex, saved, result>>

(* The timer of a query that no server has in work fires. *)
resend(x) ==
    /\ asked[x] # None /\ \A q \in work : ~(q.from = x /\ awaited(q))
    /\ work' = work \cup {Queued(x, copy[x], asked[x])}
    /\ UNCHANGED <<epoch, served, t1Map, messageMap, lists, clientVars>>

serverWorker ==
    \/ MaybeAddEpochs /\ UNCHANGED clientVars
    \/ /\ tick /\ fault
       /\ UNCHANGED <<passphrase, day, pc, asked, copy, ex, saved, result, excuse>>
    \/ /\ GarbageCollectOldEpochs
       /\ excused("collected")
       /\ UNCHANGED <<passphrase, day, pc, asked, copy, ex, saved, result, faults>>

Next ==
    \/ \E x \in Exchanges :
          \/ Run(x) \/ resend(x)
          \/ retransmit(x) \/ queryFails(x) \/ shouldStop(x) \/ NewExchangeFromSnapshot(x)
    \/ \E q \in work : serve(q)
    \/ serverWorker \/ midnight \/ restart

Spec == Init /\ [][Next]_vars

(* Exchanges and goroutines are scheduled, and timers fire. *)
FairSpec ==
    /\ Spec
    /\ \A x \in Exchanges :
          /\ WF_vars(Run(x) \/ resend(x))
          /\ WF_vars(\E q \in work : q.from = x /\ serve(q))

-----------------------------------------------------------------------------
(* Whom an exchange meets: the payload it reports is that of another       *)
(* exchange with the same passphrase, never its own.                       *)
MeetsPeer ==
    \A x \in Exchanges : result[x] # None =>
        result[x] # x /\ passphrase[result[x]] = passphrase[x]

(* Two exchanges that have posted their T1s for the same passphrase both   *)
(* complete, although queries are sent twice or fail, and clients are      *)
(* restarted from their snapshots.  What is excused: a fetch fails, the    *)
(* exchange is stopped, the epoch is collected, the server is restarted,   *)
(* it is midnight, or a list of messages is overwritten by appendT1.       *)
BothComplete ==
    \A pair \in {p \in SUBSET Exchanges : Cardinality(p) = 2} :
        /\ \A x \in pair : posted(x)
        /\ \A x, y \in pair : passphrase[x] = passphrase[y]
        ~> (\A x \in pair : pc[x] = "done") \/ excuse # {}
=============================================================================
