----------------------------- MODULE Messaging -----------------------------
(***************************************************************************)
(* A message of a catshadow client on its way to another (catshadow/       *)
(* client.go, worker.go, queue.go, disk.go): the queue of the contact, the *)
(* session that sends its head and retransmits, the remote spool of the    *)
(* receiver, and the receiver that reads its spool and decrypts.  Alice    *)
(* sends and Bob reads; each is one worker goroutine, whose every case is  *)
(* an action here, and a StateWriter that takes a snapshot when it is idle *)
(* and has it on disk some time later.  The ratchet is kept as the number  *)
(* that each ciphertext carries: Decrypt accepts a number once (module     *)
(* Ratchet).  The session is the one of module ClientSession, reduced to   *)
(* the events that it hands to the worker.                                 *)
(***************************************************************************)
EXTENDS MemSpool, TLC

CONSTANTS
    MaxQueueSize,           \* of a contact's outbound queue
    OpCap,                  \* capacity of opCh
    Names,                  \* the nicknames a contact may have
    MaxMsgs, MaxReqs,       \* bounds: messages of the user, requests sent
    MaxFaults               \* bound on the faults of a behaviour

ASSUME MessagingAssumption ==
    /\ MaxQueueSize \in Nat \ {0} /\ OpCap \in Nat \ {0} /\ Names # {}
    /\ MaxMsgs \in Nat /\ MaxReqs \in Nat /\ MaxFaults \in Nat

VARIABLES
    alice,      \* what Alice's state file holds of her contact Bob
    aSaved,     \* the snapshot that is in the file, and the one being written
    ackID,      \* contact.ackID
    online,     \* c.session # nil
    connected,  \* the worker's isConnected
    reqs,       \* the requests by message ID, with their sendMap entry
    events,     \* the session's EventSink
    opCh, restarting,   \* the worker's queue; it is in restartSending
    stall,      \* why no request will pop the queue's head, since it was sent
    net, acks,  \* appends and their answers under way
    bob,        \* what Bob's state file holds
    bSaved,
    answer,     \* to a read request, under way
    made,       \* how many messages the user has sent
    faults,     \* how many faults happened
    happened    \* which of them, as far as a property excepts them

aliceVars == <<alice, aSaved, ackID, online, connected, reqs, events,
               opCh, restarting, stall>>
bobVars == <<bob, bSaved, answer>>
netVars == <<net, acks>>
histVars == <<made, faults, happened>>
vars == <<aliceVars, bobVars, netVars, histVars, spoolVars>>

-----------------------------------------------------------------------------
(* Alice has been connected for some time, or has just been started from a *)
(* file with a message in the queue.  Bob's spool may be one whose creation *)
(* is not complete, because the request came twice: that is a fault.       *)
Init ==
    /\ SpoolInit
    /\ made \in {0, 1}
    /\ alice = [queue |-> [i \in 1..made |-> [msg |-> i, num |-> i]], count |-> made,
                nick |-> CHOOSE n \in Names : TRUE, conv |-> [i \in 1..made |-> {}]]
    /\ aSaved = <<alice, alice>>
    /\ ackID = 0 /\ online = TRUE /\ connected = (made = 0)
    /\ events = [i \in 1..made |-> [ev |-> "conn", up |-> TRUE]]
    /\ reqs = <<>> /\ opCh = <<>> /\ restarting = FALSE
    /\ stall = {}
    /\ net = {} /\ acks = {}
    /\ bob = [offset |-> 1, seen |-> {}, conv |-> <<>>, pending |-> TRUE]
    /\ bSaved = <<bob, bob>>
    /\ answer = Nothing
    /\ faults = IF spool.inBucket THEN 0 ELSE MaxFaults
    /\ happened = {}

Excepted == {"spoolCrash", "purged", "numberReused", "sentTwice", "answeredTwice"}

Gone == [item |-> Nothing, nick |-> Nothing, st |-> "gone", surb |-> 0, unreported |-> FALSE]

Fault(what) ==
    /\ faults < MaxFaults /\ faults' = faults + 1
    /\ happened' = happened \cup ({what} \cap Excepted)

NoFault == UNCHANGED <<faults, happened>>

-----------------------------------------------------------------------------
(* Alice's state file.  save hands its snapshot over when the one before   *)
(* is written, and does not wait for its own.                              *)

save == aSaved' = <<aSaved[2], alice'>>

(* The process dies, by itself or on a nil session, and is started again   *)
(* from the file.  A number that was handed out after the snapshot is      *)
(* handed out again.                                                       *)
reloaded ==
    /\ \E file \in {aSaved[1], aSaved[2]} : alice' = file /\ aSaved' = <<file, file>>
    /\ ackID' = 0 /\ online' = FALSE /\ connected' = FALSE
    /\ reqs' = [r \in DOMAIN reqs |-> Gone]
    /\ events' = <<>> /\ opCh' = <<>> /\ restarting' = FALSE /\ stall' = {}
    /\ acks' = {}
    /\ happened' = happened \cup
           (IF alice'.count < alice.count THEN {"numberReused"} ELSE {})
    /\ UNCHANGED <<bobVars, net, made, spoolVars>>

aliceCrash == reloaded /\ faults < MaxFaults /\ faults' = faults + 1

-----------------------------------------------------------------------------
(* The outbound queue.                                                     *)

Push(q, item) == Append(q, item)
Full(q) == Len(q) >= MaxQueueSize
Pop(q) == Tail(q)
Peek(q) == Head(q)

Live(r) == reqs[r].st \in {"queued", "waiting"}

(* sendMessage: the head goes to the session, which may refuse it (there   *)
(* is no document for it), in which case nothing more is done.             *)
sendHead(queue, nick) ==
    \/ /\ Len(reqs) < MaxReqs
       /\ reqs' = Append(reqs, [item |-> Peek(queue), nick |-> nick,
                                st |-> "queued", surb |-> 0, unreported |-> FALSE])
       /\ stall' = {}
       /\ happened' = happened \cup
              {"sentTwice" : r \in {r \in DOMAIN reqs : reqs[r].item = Peek(queue)}}
       /\ UNCHANGED faults
    \/ Fault("sendError") /\ stall' = {"sendError"} /\ UNCHANGED reqs

sendMessage(queue, nick) ==
    IF queue = <<>> THEN UNCHANGED <<reqs, stall>> /\ NoFault ELSE sendHead(queue, nick)

-----------------------------------------------------------------------------
(* The operations of opCh.                                                 *)

Enqueue(op) == Len(opCh) < OpCap /\ opCh' = Append(opCh, op)

SendMessage ==
    /\ made < MaxMsgs
    /\ Enqueue([op |-> "send", msg |-> made + 1, name |-> alice.nick])
    /\ made' = made + 1
    /\ UNCHANGED <<alice, aSaved, ackID, online, connected, reqs, events, restarting, stall>>
    /\ UNCHANGED <<bobVars, netVars, faults, happened, spoolVars>>

Ask(op) ==
    /\ Enqueue([op |-> op])
    /\ UNCHANGED <<alice, aSaved, ackID, online, connected, reqs, events, restarting, stall>>
    /\ UNCHANGED <<bobVars, netVars, made, spoolVars>>

RenameContact == Ask("rename") /\ Fault("rename")
Offline == Ask("offline") /\ Fault("offline")

TakeOp(op) ==
    /\ ~restarting /\ opCh # <<>> /\ Head(opCh).op = op
    /\ opCh' = Tail(opCh)
    /\ UNCHANGED <<restarting, bobVars, net, made, spoolVars>>

(* Nothing is done if there is no contact of that name any more.  The      *)
(* ratchet moves before the queue is found full.                           *)
doSendMessage ==
    /\ TakeOp("send")
    /\ LET item == [msg |-> Head(opCh).msg, num |-> alice.count + 1]
           sealed == [alice EXCEPT !.count = @ + 1]
       IN  IF Head(opCh).name # alice.nick
           THEN UNCHANGED <<alice, aSaved, reqs, stall, faults, happened>>
           ELSE IF Full(alice.queue)
           THEN /\ alice' = sealed
                /\ UNCHANGED <<aSaved, reqs, stall, faults, happened>>
           ELSE /\ alice' = [sealed EXCEPT
                       !.queue = Push(@, item), !.conv = (item.msg :> {}) @@ @]
                /\ save
                /\ IF alice.queue = <<>> /\ online
                   THEN sendHead(alice'.queue, alice.nick)
                   ELSE UNCHANGED <<reqs, stall>> /\ NoFault
    /\ UNCHANGED <<ackID, online, connected, events, acks>>

(* opRestartSending.  The session may be gone by now: SendReliableMessage  *)
(* on a nil session ends the process.                                      *)
doRestartSending ==
    \/ /\ online \/ alice.queue = <<>>
       /\ TakeOp("restart")
       /\ sendMessage(alice.queue, alice.nick)
       /\ UNCHANGED <<alice, aSaved, ackID, online, connected, events, acks>>
    \/ /\ ~online /\ alice.queue # <<>>
       /\ ~restarting /\ opCh # <<>> /\ Head(opCh).op = "restart"
       /\ reloaded /\ UNCHANGED faults

(* doContactRename does not save; the sendMap keeps the old name.          *)
doContactRename ==
    /\ TakeOp("rename")
    /\ \E n \in Names \ {alice.nick} : alice' = [alice EXCEPT !.nick = n]
    /\ stall' = stall \cup {"renamed"}
    /\ UNCHANGED <<aSaved, ackID, online, connected, reqs, events, acks, faults, happened>>

(* The session is shut down with everything that is in it.                 *)
goOffline ==
    /\ TakeOp("offline")
    /\ online' = FALSE /\ connected' = FALSE /\ events' = <<>> /\ acks' = {}
    /\ reqs' = [r \in DOMAIN reqs |-> Gone]
    /\ UNCHANGED <<alice, aSaved, ackID, stall, faults, happened>>

(* goOnline has a goroutine of its own; the session reports its connection.*)
goOnline ==
    /\ ~online
    /\ online' = TRUE /\ events' = <<[ev |-> "conn", up |-> TRUE]>>
    /\ UNCHANGED <<alice, aSaved, ackID, connected, reqs, opCh, restarting, stall>>
    /\ UNCHANGED <<bobVars, netVars, histVars, spoolVars>>

-----------------------------------------------------------------------------
(* The session: a request is sent, retransmitted while there is no answer, *)
(* and answered once.  The event that it was sent comes after the packet   *)
(* has left, and may be later than the answer.                             *)

SessionStep(r, st, new) ==
    /\ online /\ r \in DOMAIN reqs /\ reqs[r].st = st
    /\ reqs' = [reqs EXCEPT ![r] = new]
    /\ UNCHANGED <<alice, aSaved, ackID, online, connected, opCh, restarting, stall>>
    /\ UNCHANGED <<bobVars, made, spoolVars>>

doSend(r) ==
    \/ /\ SessionStep(r, "queued", [reqs[r] EXCEPT
              !.st = "waiting", !.surb = @ + 1, !.unreported = TRUE])
       /\ net' = net \cup {[id |-> r, surb |-> reqs[r].surb + 1, item |-> reqs[r].item]}
       /\ UNCHANGED <<acks, events>> /\ NoFault
    \/ /\ SessionStep(r, "queued", [reqs[r] EXCEPT !.st = "failed"])
       /\ events' = Append(events, [ev |-> "sent", id |-> r, ok |-> FALSE])
       /\ Fault("sendFailed") /\ UNCHANGED <<net, acks>>

reportSent(r) ==
    /\ online /\ r \in DOMAIN reqs /\ reqs[r].unreported /\ reqs[r].st # "gone"
    /\ reqs' = [reqs EXCEPT ![r].unreported = FALSE]
    /\ events' = Append(events, [ev |-> "sent", id |-> r, ok |-> TRUE])
    /\ UNCHANGED <<alice, aSaved, ackID, online, connected, opCh, restarting, stall>>
    /\ UNCHANGED <<bobVars, netVars, histVars, spoolVars>>

Retransmit(r) ==
    /\ SessionStep(r, "waiting", [reqs[r] EXCEPT !.st = "queued"])
    /\ ~reqs[r].unreported
    /\ acks' = {a \in acks : a.id # r}
    /\ Fault("retransmission") /\ UNCHANGED <<net, events>>

(* onACK: the answer to the last transmission.  The race of the timer with *)
(* onACK may have it sent again, and answered again.                       *)
onACK(r, again) ==
    /\ SessionStep(r, "waiting", [reqs[r] EXCEPT !.st = IF again THEN "queued" ELSE "answered"])
    /\ \E a \in acks :
           /\ a.id = r
           /\ acks' = acks \ {a}
           /\ events' = Append(events, [ev |-> "reply", id |-> r, ok |-> a.ok])
    /\ IF again THEN Fault("answeredTwice") ELSE NoFault
    /\ UNCHANGED net

(* The connection is lost and found again.                                 *)
Reconnect ==
    /\ online /\ Fault("reconnect")
    /\ events' = events \o <<[ev |-> "conn", up |-> FALSE], [ev |-> "conn", up |-> TRUE]>>
    /\ UNCHANGED <<alice, aSaved, ackID, online, connected, reqs, opCh, restarting, stall>>
    /\ UNCHANGED <<bobVars, netVars, made, spoolVars>>

-----------------------------------------------------------------------------
(* The session's events, as the worker handles them.                       *)

TakeEvent(ev) ==
    /\ ~restarting /\ events # <<>> /\ Head(events).ev = ev
    /\ events' = Tail(events)
    /\ UNCHANGED <<online, opCh, bobVars, netVars, made, spoolVars>>

onConnectionStatus ==
    /\ TakeEvent("conn")
    /\ connected' = Head(events).up
    /\ restarting' = (Head(events).up /\ ~connected /\ alice.queue # <<>>)
    /\ UNCHANGED <<alice, aSaved, ackID, reqs, stall, faults, happened>>

(* restartSending: the worker sends to the channel that it alone receives  *)
(* from.                                                                   *)
restartSending ==
    /\ restarting /\ restarting' = FALSE
    /\ Enqueue([op |-> "restart"])
    /\ UNCHANGED <<alice, aSaved, ackID, online, connected, reqs, events, stall>>
    /\ UNCHANGED <<bobVars, netVars, histVars, spoolVars>>

setMark(conv, msg, mark) ==
    IF msg \in DOMAIN conv THEN [conv EXCEPT ![msg] = @ \cup {mark}] ELSE conv

handleSent ==
    LET e == Head(events)
        named == reqs[e.id].nick = alice.nick
    IN  /\ TakeEvent("sent")
        /\ ackID' = IF named /\ e.ok THEN e.id ELSE ackID
        /\ alice' = IF named /\ e.ok
                    THEN [alice EXCEPT !.conv = setMark(@, reqs[e.id].item.msg, "sent")]
                    ELSE alice
        /\ stall' = IF e.ok THEN stall ELSE stall \cup {"sendFailed"}
        /\ UNCHANGED <<aSaved, connected, reqs, restarting, faults, happened>>

(* handleReply pops the head if the spool has accepted, the contact still  *)
(* has the name, and the request is the last that was reported sent.       *)
pops(e) ==
    /\ e.ok
    /\ reqs[e.id].nick = alice.nick
    /\ ackID = e.id
    /\ alice.queue # <<>>

(* Fault: the next message is left in the queue. *)
sendNextNever(queue, nick) == UNCHANGED <<reqs, stall>> /\ NoFault

sendNext(queue, nick) == sendMessage(queue, nick)

handleReplySent ==
    LET e == Head(events)
    IN  /\ TakeEvent("reply")
        /\ IF pops(e)
           THEN /\ alice' = [alice EXCEPT !.queue = Pop(@),
                        !.conv = setMark(@, reqs[e.id].item.msg, "delivered")]
                /\ save
                /\ sendNext(alice'.queue, alice.nick)
           ELSE /\ stall' = stall \cup {IF e.ok THEN "ACKDropped" ELSE "spoolError"}
                /\ UNCHANGED <<alice, aSaved, reqs, faults, happened>>
        /\ UNCHANGED <<ackID, connected, restarting>>

-----------------------------------------------------------------------------
(* The spool service.  Each request is handled in a goroutine of its own.  *)

(* The answer to a transmission is dropped when the request was sent again. *)
spoolAppend ==
    \E n \in net :
        /\ net' = net \ {n}
        /\ acks' = IF reqs[n.id].st = "waiting" /\ reqs[n.id].surb = n.surb
                   THEN acks \cup {[id |-> n.id, ok |-> spool.inMap]} ELSE acks
        /\ IF spool.inMap THEN AppendToSpool(n.item) ELSE UNCHANGED spoolVars
        /\ UNCHANGED <<aliceVars, bobVars, histVars>>

spoolCrash ==
    load /\ Fault("spoolCrash") /\ UNCHANGED <<aliceVars, bobVars, netVars, made>>

spoolCreated == createSpoolBucket /\ UNCHANGED <<aliceVars, bobVars, netVars, histVars>>

spoolPanic ==
    /\ FlushPanics /\ load
    /\ happened' = happened \cup {"spoolCrash"}
    /\ UNCHANGED <<aliceVars, bobVars, netVars, made, faults>>

spoolPurge ==
    PurgeSpool /\ Fault("purged") /\ UNCHANGED <<aliceVars, bobVars, netVars, made>>

-----------------------------------------------------------------------------
(* Bob.                                                                    *)

bobRest == <<aliceVars, netVars, made, spoolVars>>

(* sendReadInbox, and the spool's answer (bound: one is under way).  A     *)
(* request that reaches the spool after the offset has moved gets an       *)
(* answer that handleReply drops, as it does one that comes after that.    *)
sendReadInbox ==
    /\ answer = Nothing /\ ReadFromSpool(bob.offset) # Nothing
    /\ answer' = [id |-> bob.offset, item |-> ReadFromSpool(bob.offset)]
    /\ UNCHANGED <<bob, bSaved, bobRest, faults, happened>>

bSave == bSaved' = <<bSaved[2], bob'>>

bobCrash ==
    /\ \E file \in {bSaved[1], bSaved[2]} : bob' = file /\ bSaved' = <<file, file>>
    /\ answer' = Nothing
    /\ Fault("bob") /\ UNCHANGED bobRest

(* What Decrypt of some contact says: a number is accepted once; the       *)
(* header of one that was may or may not open any more (module Ratchet).   *)
Verdicts(item) ==
    IF bob.pending THEN {"trialFailed"}
    ELSE IF item.num \notin bob.seen THEN {"decrypted"}
    ELSE {"duplicate", "trialFailed"}

(* Fault: a message that no contact can decrypt is always passed over. *)
keepsOffsetNever(verdict) == FALSE

(* The offset stays if the message may be of a contact still pending.      *)
keepsOffset(verdict) == verdict = "trialFailed" /\ bob.pending

(* Fault: the ratchet stays where it was. *)
decryptAgain(item) == [bob EXCEPT !.conv = Append(@, item.msg)]

decryptMessage(item) ==
    [bob EXCEPT !.seen = @ \cup {item.num}, !.conv = Append(@, item.msg)]

IncrementOffset(b) == [b EXCEPT !.offset = @ + 1]

(* Fault: the answer to an earlier read is not told apart. *)
anyOffset(a) == FALSE

dup(a) == a.id < bob.offset

(* handleReply of a read.  What was decrypted is saved before the offset   *)
(* is, and then once more: the file may hold either.                       *)
handleReplyRead ==
    /\ answer # Nothing
    /\ answer' \in {answer, Nothing}      \* there may have been two requests
    /\ IF dup(answer) THEN UNCHANGED <<bob, bSaved>>
       ELSE \E v \in Verdicts(answer.item) :
            \/ /\ v = "decrypted"
               /\ bob' = IncrementOffset(decryptMessage(answer.item))
               /\ bSaved' = <<decryptMessage(answer.item), bob'>>
            \/ keepsOffset(v) /\ UNCHANGED <<bob, bSaved>>
            \/ /\ v # "decrypted" /\ ~keepsOffset(v)
               /\ bob' = IncrementOffset(bob) /\ bSave
    /\ UNCHANGED <<bobRest, faults, happened>>

(* processPANDAUpdate: a contact's key exchange is complete.               *)
exchangeDone ==
    /\ bob.pending
    /\ bob' = [bob EXCEPT !.pending = FALSE]
    /\ bSave
    /\ UNCHANGED <<answer, bobRest, faults, happened>>

-----------------------------------------------------------------------------
Alice ==
    \/ aliceCrash \/ SendMessage \/ RenameContact \/ Offline
    \/ doSendMessage \/ doRestartSending \/ doContactRename \/ goOffline \/ goOnline
    \/ onConnectionStatus \/ restartSending \/ handleSent \/ handleReplySent

Session ==
    \/ Reconnect
    \/ \E r \in DOMAIN reqs :
           \/ doSend(r) \/ reportSent(r) \/ Retransmit(r)
           \/ \E again \in BOOLEAN : onACK(r, again)

Spool == spoolAppend \/ spoolCreated \/ spoolCrash \/ spoolPanic \/ spoolPurge

Bob == sendReadInbox \/ bobCrash \/ handleReplyRead \/ exchangeDone

Next == Alice \/ Session \/ Spool \/ Bob

Spec == Init /\ [][Next]_vars

-----------------------------------------------------------------------------
(* No message is in Bob's conversation twice, although the session appends *)
(* it to the spool again when an answer is late, the queue's head is sent  *)
(* again after a reconnect, and Bob reads a message again when he dies     *)
(* between the two saves of handleReply.                                   *)
ReceivedOnce ==
    \A i, j \in 1..Len(bob.conv) : bob.conv[i] = bob.conv[j] => i = j

Received == {bob.conv[i] : i \in 1..Len(bob.conv)}

Kept(m) ==
    m \in Received \/ \E id \in DOMAIN items : items[id].msg = m /\ id >= bob.offset

Queued == {alice.queue[i].msg : i \in 1..Len(alice.queue)}

(* A message of Alice's conversation is in her queue until it is in Bob's  *)
(* conversation, or in the spool where he has not read yet; and there it   *)
(* is once it is shown as delivered: no duplicate, late answer or message  *)
(* of a pending contact makes him pass over it.  The exceptions are a      *)
(* spool that died or was purged, a ratchet number that Alice used again   *)
(* after she died, and, for the queue, a head that the session had or      *)
(* answered twice: then the answer to one message pops the next.           *)
NoneLost ==
    \A m \in DOMAIN alice.conv :
        \/ Kept(m)
        \/ happened \cap {"spoolCrash", "purged", "numberReused"} # {}
        \/ /\ "delivered" \notin alice.conv[m]
           /\ m \in Queued \/ happened \cap {"sentTwice", "answeredTwice"} # {}

Coming(r, ev) == \E i \in DOMAIN events : events[i].ev = ev /\ events[i].id = r

(* The queue never stands still by itself: while Alice is connected, its   *)
(* head is with the session, or its answer is among the events, or the     *)
(* worker is about to send it.  The exceptions are in stall, since the     *)
(* head was last sent (it is until the next connection that nothing        *)
(* happens then), and a worker waiting for room in its own channel.        *)
Flowing ==
    (/\ online /\ connected /\ alice.queue # <<>>
     /\ ~\E i \in DOMAIN events : events[i].ev = "conn")
    => \/ \E r \in DOMAIN reqs :
              /\ reqs[r].item = Peek(alice.queue)
              /\ Live(r) \/ reqs[r].unreported \/ Coming(r, "reply") \/ Coming(r, "sent")
       \/ restarting
       \/ \E i \in DOMAIN opCh : opCh[i].op \in {"restart", "offline"}
       \/ stall # {}
=============================================================================
