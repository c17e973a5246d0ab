--------------------------- MODULE ClientSession ----------------------------
(***************************************************************************)
(* A client session (client/session.go, send.go, worker.go): callers push  *)
(* messages on the egress queue, the session worker sends them with a      *)
(* single use reply block (SURB), the mix network may answer, and reliable *)
(* messages are sent again until they are.  Blocking callers wait on       *)
(* channels that they register by message ID.                              *)
(***************************************************************************)
EXTENDS TimerQueue

CONSTANTS
    Msgs,           \* messages, each sent by one caller
    Reliable,       \* those sent with retransmission
    Blocking,       \* those whose caller waits for the reply
    MaxSends,       \* bound on the transmissions of a message
    QueueSize,      \* MaxEgressQueueSize
    OpSize          \* capacity of opCh

ASSUME ClientSessionAssumption ==
    /\ Reliable \subseteq Msgs /\ Blocking \subseteq Msgs
    /\ None \notin Msgs \cup (Msgs \X Nat)
    /\ MaxSends \in Nat /\ QueueSize \in Nat /\ OpSize \in Nat

VARIABLES
    caller,         \* caller[m]: where the caller of m is
    egress,         \* the egress queue
    worker,         \* where the session worker is
    sends,          \* sends[m]: transmissions of m; numbers its SURB IDs
    surbIDMap,      \* the SURB IDs whose reply is expected
    push,           \* the message that the timer queue forwards, and how far
    opCh,           \* the retransmissions in opCh
    key,            \* key[m]: the transmission whose SURB key m holds
    net,            \* the replies that may still arrive
    ack,            \* the SURB ID that onACK has found, or None
    panicked,       \* onACK has sent on a closed channel
    closed,         \* the messages whose replyWaitChan is closed
    dropped,        \* reliable messages that the session has given up on
    watching,       \* fatalErr has not received an error yet
    halt            \* how far Shutdown has come

vars == <<caller, egress, worker, sends, surbIDMap, timerVars, push, opCh, key, net, ack,
          panicked, closed, dropped, watching, halt>>

SURBIDs == Msgs \X (1..MaxSends)

Waiting == {"pushed", "waitSent", "waitReply"}

Returned == {"replied", "empty", "failed", "timeout", "halted"}

Idle == [step |-> "idle", msg |-> None]

TypeOK ==
    /\ caller \in [Msgs -> {"idle", "sent"} \cup Waiting \cup Returned]
    /\ egress \in Seq(Msgs) /\ Len(egress) <= QueueSize
    /\ worker \in {"select", "sending", "stored", "fatal", "return"}
    /\ sends \in [Msgs -> 0..MaxSends] /\ key \in [Msgs -> 0..MaxSends]
    /\ surbIDMap \subseteq SURBIDs /\ net \subseteq SURBIDs
    /\ queued \in Seq(Reliable)
    /\ push \in [step : {"idle", "load", "delete", "send", "return"}, msg : Msgs \cup {None}]
    /\ opCh \in Seq(Msgs) /\ Len(opCh) <= OpSize
    /\ ack \in SURBIDs \cup {None}
    /\ closed \subseteq Msgs /\ dropped \subseteq Reliable
    /\ watching \in BOOLEAN /\ panicked \in BOOLEAN
    /\ halt \in {"no", "session", "timer", "complete"}

Init ==
    /\ caller = [m \in Msgs |-> "idle"]
    /\ egress = <<>> /\ worker = "select"
    /\ sends = [m \in Msgs |-> 0] /\ key = [m \in Msgs |-> 0]
    /\ surbIDMap = {} /\ TimerInit /\ push = Idle /\ opCh = <<>>
    /\ net = {} /\ ack = None /\ panicked = FALSE /\ closed = {} /\ dropped = {}
    /\ watching = TRUE /\ halt = "no"

(* A panic ends the process. *)
running == ~panicked

-----------------------------------------------------------------------------
(* The callers. *)

(* SendReliableMessage and its siblings: the queue may be full.  Calls     *)
(* made, and replies that arrive, once Shutdown has begun are not followed. *)
Send(m) ==
    /\ caller[m] = "idle" /\ halt = "no"
    /\ IF Len(egress) < QueueSize
       THEN /\ egress' = Append(egress, m)
            /\ caller' = [caller EXCEPT ![m] = IF m \in Blocking THEN "pushed" ELSE "sent"]
       ELSE /\ caller' = [caller EXCEPT ![m] = "failed"]
            /\ UNCHANGED egress
    /\ UNCHANGED <<worker, sends, surbIDMap, timerVars, push, opCh, key, net, ack, panicked,
                   closed, dropped, watching, halt>>

waitSent(m) ==
    /\ caller[m] = "pushed"
    /\ caller' = [caller EXCEPT ![m] = "waitSent"]
    /\ UNCHANGED <<egress, worker, sends, surbIDMap, timerVars, push, opCh, key, net, ack,
                   panicked, closed, dropped, watching, halt>>

(* Fault: the wait for the reply does not look at the context. *)
waitReplyForever(m) ==
    /\ caller[m] = "waitReply"
    /\ \/ m \in closed /\ caller' = [caller EXCEPT ![m] = "empty"]
       \/ halt # "no" /\ caller' = [caller EXCEPT ![m] = "halted"]
    /\ UNCHANGED <<egress, worker, sends, surbIDMap, timerVars, push, opCh, key, net, ack,
                   panicked, closed, dropped, watching, halt>>

(* The wait for the reply ends: the channel was closed, the context of an  *)
(* unreliable message is done, or the session halts.                       *)
waitReply(m) ==
    /\ caller[m] = "waitReply"
    /\ \/ m \in closed /\ caller' = [caller EXCEPT ![m] = "empty"]
       \/ m \notin Reliable /\ caller' = [caller EXCEPT ![m] = "timeout"]
       \/ halt # "no" /\ caller' = [caller EXCEPT ![m] = "halted"]
    /\ UNCHANGED <<egress, worker, sends, surbIDMap, timerVars, push, opCh, key, net, ack,
                   panicked, closed, dropped, watching, halt>>

-----------------------------------------------------------------------------
(* The session worker. *)

(* sendNext up to SendCiphertext: the packet leaves with a new SURB ID. *)
sendNext ==
    /\ worker = "select" /\ egress # <<>>
    /\ LET m == Head(egress) IN
       /\ sends' = [sends EXCEPT ![m] = @ + 1]
       /\ net' = IF halt = "no" THEN net \cup {<<m, sends[m] + 1>>} ELSE net
    /\ worker' = "sending"
    /\ UNCHANGED <<caller, egress, surbIDMap, timerVars, push, opCh, key, ack, panicked, closed,
                   dropped, watching, halt>>

(* Fault: only the first transmission of a message is timed. *)
timedOnce(m) ==
    IF m \in Reliable /\ sends[m] = 1 THEN Enqueue(m) /\ UNCHANGED <<timer, wakeup, missed>>
    ELSE UNCHANGED timerVars

(* TimerQueue.Push as far as Unlock. *)
timed(m) ==
    IF m \in Reliable THEN Enqueue(m) /\ UNCHANGED <<timer, wakeup, missed>>
    ELSE UNCHANGED timerVars

(* doSend after SendCiphertext: a reply is expected, a reliable message is *)
(* timed.                                                                  *)
doSend ==
    /\ worker = "sending"
    /\ LET m == Head(egress) IN
       /\ key' = [key EXCEPT ![m] = sends[m]]
       /\ surbIDMap' = surbIDMap \cup {<<m, sends[m]>>}
       /\ timed(m)
    /\ worker' = "stored"
    /\ UNCHANGED <<caller, egress, sends, push, opCh, net, ack, panicked, closed, dropped,
                   watching, halt>>

(* The rest of doSend, and Pop: the timer queue is signalled, and a        *)
(* blocking caller is told only if it is receiving already.                *)
sent ==
    /\ worker = "stored"
    /\ LET m == Head(egress) IN
       /\ IF m \in Reliable THEN Signal /\ UNCHANGED <<queued, timer>> ELSE UNCHANGED timerVars
       /\ caller' = IF caller[m] = "waitSent" THEN [caller EXCEPT ![m] = "waitReply"] ELSE caller
    /\ egress' = Tail(egress)
    /\ worker' = "select"
    /\ UNCHANGED <<sends, surbIDMap, push, opCh, key, net, ack, panicked, closed, dropped,
                   watching, halt>>

(* SendCiphertext fails: the message is popped all the same.  The caller   *)
(* learns of it unless it waits for a reply already.                       *)
doSendFails ==
    /\ worker = "sending"
    /\ LET m == Head(egress) IN
       /\ net' = net \ {<<m, sends[m]>>}
       /\ caller' = IF caller[m] \in {"sent", "pushed", "waitSent"}
                    THEN [caller EXCEPT ![m] = "failed"] ELSE caller
       /\ dropped' = IF caller[m] = "waitReply" THEN dropped \cup ({m} \cap Reliable)
                     ELSE dropped
    /\ egress' = Tail(egress)
    /\ worker' = "select"
    /\ UNCHANGED <<sends, surbIDMap, timerVars, push, opCh, key, ack, panicked, closed, watching,
                   halt>>

(* A message that does not fit on the queue is dropped without notice. *)
doRetransmit ==
    /\ worker = "select" /\ opCh # <<>>
    /\ opCh' = Tail(opCh)
    /\ IF Len(egress) < QueueSize
       THEN egress' = Append(egress, Head(opCh)) /\ UNCHANGED dropped
       ELSE dropped' = dropped \cup {Head(opCh)} /\ UNCHANGED egress
    /\ UNCHANGED <<caller, worker, sends, surbIDMap, timerVars, push, key, net, ack, panicked,
                   closed, watching, halt>>

(* A document that some, or even every, provider of is without the loop    *)
(* service: the worker sends one or two errors on fatalErrCh.  fatalErr    *)
(* receives one and shuts the client down; nobody receives another.        *)
opNewDocument ==
    /\ worker = "select"
    /\ \E everyProvider \in BOOLEAN :
          worker' = IF everyProvider \/ ~watching THEN "fatal" ELSE "select"
    /\ watching' = FALSE
    /\ halt' = IF halt = "no" THEN "session" ELSE halt
    /\ net' = {}
    /\ UNCHANGED <<caller, egress, sends, surbIDMap, timerVars, push, opCh, key, ack,
                   panicked, closed, dropped>>

workerHalts ==
    /\ worker = "select" /\ halt # "no"
    /\ worker' = "return"
    /\ UNCHANGED <<caller, egress, sends, surbIDMap, timerVars, push, opCh, key, net, ack,
                   panicked, closed, dropped, watching, halt>>

-----------------------------------------------------------------------------
(* onACK, on the connection's goroutine: Load, and the rest. *)
loadACK(m, k) ==
    /\ ack = None /\ <<m, k>> \in net
    /\ net' = net \ {<<m, k>>}
    /\ ack' = IF <<m, k>> \in surbIDMap THEN <<m, k>> ELSE None
    /\ UNCHANGED <<caller, egress, worker, sends, surbIDMap, timerVars, push, opCh, key, panicked,
                   closed, dropped, watching, halt>>

(* The reply is for the caller if the key of its transmission is still in  *)
(* place.  A blocking caller that is not receiving loses it: the channel   *)
(* is closed, and a send on a closed channel panics.                       *)
onACK ==
    /\ ack # None
    /\ LET m == ack[1]
           plain == key[m] = ack[2]
           blocked == plain /\ m \in Blocking /\ caller[m] \in Waiting IN
       /\ panicked' = (panicked \/ (blocked /\ m \in closed))
       /\ closed' = IF blocked /\ caller[m] # "waitReply" THEN closed \cup {m} ELSE closed
       /\ caller' = IF plain /\ caller[m] \in {"sent", "waitReply"}
                    THEN [caller EXCEPT ![m] = "replied"] ELSE caller
    /\ surbIDMap' = surbIDMap \ {ack}
    /\ ack' = None
    /\ UNCHANGED <<egress, worker, sends, timerVars, push, opCh, key, net, dropped, watching,
                   halt>>

-----------------------------------------------------------------------------
(* The worker of the timer queue, which hands messages to Session.Push.    *)
(* MaxSends bounds how often.                                              *)
forward ==
    /\ pop /\ sends[Head(queued)] < MaxSends
    /\ push' = [step |-> "load", msg |-> Head(queued)]

(* At the head of its loop. *)
look == (sleep /\ push' = Idle) \/ forward

fire ==
    /\ push.step = "idle" /\ timer # None
    /\ forward
    /\ UNCHANGED <<caller, egress, worker, sends, surbIDMap, wakeup, opCh, key, net, ack,
                   panicked, closed, dropped, watching, halt>>

wakes ==
    /\ push.step = "idle" /\ woken
    /\ look
    /\ UNCHANGED <<caller, egress, worker, sends, surbIDMap, opCh, key, net, ack, panicked,
                   closed, dropped, watching, halt>>

waits ==
    /\ Wait
    /\ UNCHANGED <<caller, egress, worker, sends, surbIDMap, push, opCh, key, net, ack, panicked,
                   closed, dropped, watching, halt>>

wakeupReturns ==
    /\ halt \in {"timer", "complete"} /\ wakeupHalts
    /\ UNCHANGED <<caller, egress, worker, sends, surbIDMap, push, opCh, key, net, ack, panicked,
                   closed, dropped, watching, halt>>

(* Still waiting for the reply to the last transmission? *)
loadPush ==
    /\ push.step = "load"
    /\ IF <<push.msg, sends[push.msg]>> \in surbIDMap
       THEN push' = [push EXCEPT !.step = "delete"] /\ UNCHANGED timerVars
       ELSE look /\ UNCHANGED wakeup
    /\ UNCHANGED <<caller, egress, worker, sends, surbIDMap, opCh, key, net, ack, panicked,
                   closed, dropped, watching, halt>>

deletePush ==
    /\ push.step = "delete"
    /\ surbIDMap' = surbIDMap \ {<<push.msg, sends[push.msg]>>}
    /\ push' = [push EXCEPT !.step = "send"]
    /\ UNCHANGED <<caller, egress, worker, sends, timerVars, opCh, key, net, ack, panicked,
                   closed, dropped, watching, halt>>

(* Fault: opCh has no buffer. *)
sendPushUnbuffered ==
    /\ push.step = "send" /\ worker = "select" /\ Len(opCh) < OpSize
    /\ opCh' = Append(opCh, push.msg)
    /\ look
    /\ UNCHANGED <<caller, egress, worker, sends, surbIDMap, wakeup, key, net, ack, panicked,
                   closed, dropped, watching, halt>>

(* The send on opCh does not look at HaltCh. *)
sendPush ==
    /\ push.step = "send" /\ Len(opCh) < OpSize
    /\ opCh' = Append(opCh, push.msg)
    /\ look
    /\ UNCHANGED <<caller, egress, worker, sends, surbIDMap, wakeup, key, net, ack, panicked,
                   closed, dropped, watching, halt>>

timerHalts ==
    /\ push.step = "idle" /\ halt = "timer"
    /\ push' = [Idle EXCEPT !.step = "return"]
    /\ Signal
    /\ UNCHANGED <<caller, egress, worker, sends, surbIDMap, queued, timer, opCh, key, net, ack,
                   panicked, closed, dropped, watching, halt>>

(* The reply is overdue, RoundTripTimeSlop after it was expected.  When    *)
(* the timer of a reliable message comes later than that, Push takes the   *)
(* message for answered.                                                   *)
garbageCollect(id) ==
    /\ halt = "no"
    /\ surbIDMap' = surbIDMap \ {id}
    /\ dropped' = IF id[1] \in Reliable /\ ack # id /\ push # [step |-> "delete", msg |-> id[1]]
                  THEN dropped \cup {id[1]} ELSE dropped
    /\ UNCHANGED <<caller, egress, worker, sends, timerVars, push, opCh, key, net, ack, panicked,
                   closed, watching, halt>>

-----------------------------------------------------------------------------
(* Client.Shutdown: the session's workers, then the timer queue, then the  *)
(* connection.                                                             *)
Shutdown ==
    /\ halt = "no" /\ halt' = "session"
    /\ net' = {}
    /\ UNCHANGED <<caller, egress, worker, sends, surbIDMap, timerVars, push, opCh, key, ack,
                   panicked, closed, dropped, watching>>

sessionHalted ==
    /\ halt = "session" /\ worker = "return"
    /\ halt' = "timer"
    /\ UNCHANGED <<caller, egress, worker, sends, surbIDMap, timerVars, push, opCh, key, net, ack,
                   panicked, closed, dropped, watching>>

timerHalted ==
    /\ halt = "timer" /\ push.step = "return"
    /\ halt' = "complete"
    /\ UNCHANGED <<caller, egress, worker, sends, surbIDMap, timerVars, push, opCh, key, net, ack,
                   panicked, closed, dropped, watching>>

workerStep ==
    \/ running /\ sendNext
    \/ running /\ doSend
    \/ running /\ sent
    \/ running /\ doSendFails
    \/ running /\ doRetransmit

timerStep ==
    \/ running /\ fire
    \/ running /\ wakes
    \/ running /\ loadPush
    \/ running /\ deletePush
    \/ running /\ sendPush

Next ==
    \/ \E m \in Msgs :
          \/ running /\ Send(m)
          \/ running /\ waitSent(m)
          \/ running /\ waitReply(m)
    \/ workerStep \/ timerStep
    \/ running /\ opNewDocument
    \/ running /\ workerHalts
    \/ running /\ timerHalts
    \/ running /\ waits
    \/ running /\ wakeupReturns
    \/ running /\ onACK
    \/ \E m \in Msgs, k \in 1..MaxSends : running /\ loadACK(m, k)
    \/ \E id \in surbIDMap : running /\ garbageCollect(id)
    \/ running /\ Shutdown
    \/ running /\ sessionHalted
    \/ running /\ timerHalted

Spec == Init /\ [][Next]_vars

(* Goroutines are scheduled, and contexts expire.  Replies may be lost. *)
FairSpec ==
    /\ Spec
    /\ WF_vars(workerStep) /\ SF_vars(running /\ workerHalts)
    /\ WF_vars(timerStep) /\ SF_vars(running /\ timerHalts) /\ WF_vars(running /\ waits)
    /\ WF_vars(running /\ onACK) /\ WF_vars(running /\ (sessionHalted \/ timerHalted))
    /\ \A m \in Msgs : WF_vars(running /\ (waitSent(m) \/ waitReply(m)))

-----------------------------------------------------------------------------
(* A reliable message that is neither answered nor reported as failed is   *)
(* on its way: queued, being sent, timed, or being retransmitted ("sends a *)
(* message with automatic message retransmission enabled", send.go).  The  *)
(* session gives up on it in three places only: a retransmission that      *)
(* cannot be sent, a full egress queue, and a timer that comes after the   *)
(* garbage collection.                                                     *)
Tracked ==
    \A m \in Reliable \ dropped :
        caller[m] \in Waiting \cup {"sent"} /\ halt = "no" =>
            \/ m \in Range(egress) \cup Range(queued) \cup closed \cup Range(opCh)
            \/ push.msg = m
            \/ ack # None /\ ack[1] = m

(* A call that waits with a context or a timeout returns, unless the       *)
(* client is shut down meanwhile ("wait for reply or round trip timeout",  *)
(* send.go), or the worker had sent the message before the caller came to  *)
(* receive the notice of it.                                               *)
CallsReturn ==
    \A m \in Blocking \ Reliable :
        caller[m] = "pushed" ~>
            \/ caller[m] \in Returned \/ halt # "no" \/ panicked
            \/ (caller[m] = "waitSent" /\ m \notin Range(egress))

(* Client.Shutdown returns ("Shutdown cleanly shuts down a given Client    *)
(* instance.", client.go), unless the worker has reported a fatal error    *)
(* that nobody receives, or the timer queue has filled opCh.               *)
ShutdownCompletes ==
    halt = "session" ~>
        \/ halt = "complete" \/ panicked \/ worker = "fatal"
        \/ (push.step = "send" /\ Len(opCh) = OpSize)

(* A reliable message is retransmitted when its timer expires: every       *)
(* message in the timer queue is forwarded to Push ("a queue that delays   *)
(* messages before forwarding to another queue", timer_queue.go), unless   *)
(* the client is shut down, or the Signal of a push found the goroutine of *)
(* wakeupCh outside Wait and the worker sleeps on.  MaxSends bounds the    *)
(* retransmissions followed.                                               *)
Forwarded ==
    \A m \in Reliable :
        m \in Range(queued) ~>
            \/ m \notin Range(queued) \/ sends[m] = MaxSends
            \/ missed \/ halt # "no" \/ panicked
=============================================================================
