------------------------ MODULE ClientSessionProofs -------------------------
(***************************************************************************)
(* Proofs about the client session, for any messages, queue sizes and      *)
(* numbers of transmissions.                                               *)
(***************************************************************************)
EXTENDS ClientSession, TLAPS

(* The messages on a queue or channel: what a push, a pop and an insertion *)
(* do to the set of them.                                                  *)

(* A sequence with an element after its n-th. *)
Inserted(s, n, x) == SubSeq(s, 1, n) \o <<x>> \o SubSeq(s, n + 1, Len(s))

(* What is in a sequence is at some place of it. *)
LEMMA InRange ==
    ASSUME NEW S, NEW s \in Seq(S)
    PROVE  /\ \A i \in 1..Len(s) : s[i] \in Range(s)
           /\ \A x \in Range(s) : \E i \in 1..Len(s) : x = s[i]
           /\ Range(s) \subseteq S
  BY DEF Range

(* Append: a push on a queue, a send on a channel. *)
LEMMA AppendElements ==
    ASSUME NEW S, NEW s \in Seq(S), NEW x \in S
    PROVE  /\ Append(s, x) \in Seq(S) /\ Append(s, x) # <<>>
           /\ Range(Append(s, x)) = Range(s) \cup {x}
<1>1. /\ Append(s, x) \in Seq(S) /\ Len(Append(s, x)) = Len(s) + 1
      /\ \A i \in 1..Len(s) : Append(s, x)[i] = s[i]
      /\ Append(s, x)[Len(s) + 1] = x
  OBVIOUS
<1>2. DOMAIN Append(s, x) = DOMAIN s \cup {Len(s) + 1}
  BY <1>1
<1> QED
  BY <1>1, <1>2 DEF Range

(* Head and Tail: a pop from a queue, a receive from a channel. *)
LEMMA TailElements ==
    ASSUME NEW S, NEW s \in Seq(S), s # <<>>
    PROVE  /\ Head(s) \in S /\ Tail(s) \in Seq(S)
           /\ Range(s) = {Head(s)} \cup Range(Tail(s))
<1> DEFINE t == Tail(s)
<1>1. /\ Head(s) \in S /\ t \in Seq(S) /\ Len(t) = Len(s) - 1
      /\ Head(s) = s[1] /\ Len(s) \in Nat \ {0}
      /\ \A i \in 1..(Len(s) - 1) : t[i] = s[i + 1]
  OBVIOUS
<1> HIDE DEF t
<1>2. Head(s) \in Range(s)
  BY <1>1, InRange
<1>3. ASSUME NEW x \in Range(t) PROVE x \in Range(s)
  <2>1. PICK i \in 1..Len(t) : x = t[i]
    BY <1>1, <1>3, InRange
  <2>2. i + 1 \in 1..Len(s) /\ x = s[i + 1]
    BY <1>1, <2>1
  <2> QED
    BY <2>2, InRange
<1>4. ASSUME NEW x \in Range(s), x # Head(s) PROVE x \in Range(t)
  <2>1. PICK i \in 1..Len(s) : x = s[i]
    BY <1>4, InRange
  <2>2. i - 1 \in 1..Len(t) /\ x = t[i - 1]
    BY <1>1, <1>4, <2>1
  <2> QED
    BY <1>1, <2>2, InRange
<1> QED
  BY <1>1, <1>2, <1>3, <1>4 DEF t

(* Concatenation. *)
LEMMA ConcatElements ==
    ASSUME NEW S, NEW s \in Seq(S), NEW t \in Seq(S)
    PROVE  s \o t \in Seq(S) /\ Range(s \o t) = Range(s) \cup Range(t)
<1> DEFINE u == s \o t
<1>1. /\ u \in Seq(S) /\ Len(u) = Len(s) + Len(t) /\ Len(s) \in Nat /\ Len(t) \in Nat
      /\ \A i \in 1..Len(s) : u[i] = s[i]
      /\ \A i \in 1..Len(t) : u[Len(s) + i] = t[i]
  OBVIOUS
<1> HIDE DEF u
<1>2. ASSUME NEW x \in Range(s) PROVE x \in Range(u)
  <2>1. PICK i \in 1..Len(s) : x = s[i]
    BY <1>2, InRange
  <2>2. i \in 1..Len(u) /\ x = u[i]
    BY <1>1, <2>1
  <2> QED
    BY <1>1, <2>2, InRange
<1>3. ASSUME NEW x \in Range(t) PROVE x \in Range(u)
  <2>1. PICK i \in 1..Len(t) : x = t[i]
    BY <1>3, InRange
  <2>2. Len(s) + i \in 1..Len(u) /\ x = u[Len(s) + i]
    BY <1>1, <2>1
  <2> QED
    BY <1>1, <2>2, InRange, Zenon
<1>4. ASSUME NEW x \in Range(u) PROVE x \in Range(s) \cup Range(t)
  <2>1. PICK i \in 1..Len(u) : x = u[i]
    BY <1>1, <1>4, InRange
  <2>2. CASE i <= Len(s)
    BY <1>1, <2>1, <2>2, InRange
  <2>3. CASE i > Len(s)
    <3>1. i - Len(s) \in 1..Len(t) /\ x = t[i - Len(s)]
      BY <1>1, <2>1, <2>3
    <3> QED
      BY <3>1, InRange
  <2> QED
    BY <1>1, <2>1, <2>2, <2>3
<1> QED
  BY <1>1, <1>2, <1>3, <1>4 DEF u

(* What is appended to a sequence is appended to its tail. *)
LEMMA AppendTail ==
    ASSUME NEW S, NEW s \in Seq(S), NEW x \in S, s # <<>>
    PROVE  Tail(Append(s, x)) = Append(Tail(s), x)
<1> DEFINE p == Append(s, x)
           t == Tail(s)
           a == Tail(p)
           b == Append(t, x)
           n == Len(s)
<1>1. /\ n \in Nat \ {0}
      /\ p \in Seq(S) /\ Len(p) = n + 1 /\ p[n + 1] = x /\ \A i \in 1..n : p[i] = s[i]
      /\ t \in Seq(S) /\ Len(t) = n - 1 /\ \A i \in 1..(n - 1) : t[i] = s[i + 1]
  OBVIOUS
<1> HIDE DEF p, t, n
<1>2. /\ a \in Seq(S) /\ Len(a) = n /\ \A i \in 1..n : a[i] = p[i + 1]
      /\ b \in Seq(S) /\ Len(b) = n /\ b[n] = x /\ \A i \in 1..(n - 1) : b[i] = t[i]
  BY <1>1
<1> HIDE DEF a, b
<1>3. \A i \in 1..n : a[i] = b[i]
  BY <1>1, <1>2
<1>4. a = b
  <2>1. a = [i \in 1..n |-> a[i]] /\ b = [i \in 1..n |-> b[i]]
    BY <1>2
  <2>2. [i \in 1..n |-> a[i]] = [i \in 1..n |-> b[i]]
    BY <1>3
  <2> QED
    BY <2>1, <2>2
<1> QED
  BY <1>4 DEF a, b, p, t

(* Inserted: a push on a priority queue. *)
LEMMA InsertElements ==
    ASSUME NEW S, NEW s \in Seq(S), NEW x \in S, NEW n \in 0..Len(s)
    PROVE  /\ Inserted(s, n, x) \in Seq(S)
           /\ Range(Inserted(s, n, x)) = Range(s) \cup {x}
<1> DEFINE l == SubSeq(s, 1, n)
           r == SubSeq(s, n + 1, Len(s))
<1>1. /\ l \in Seq(S) /\ r \in Seq(S)
      /\ Len(s) \in Nat /\ Len(l) = n /\ Len(r) = Len(s) - n
      /\ \A i \in 1..n : l[i] = s[i]
      /\ \A i \in 1..(Len(s) - n) : r[i] = s[n + i]
  OBVIOUS
<1>2. Inserted(s, n, x) = l \o <<x>> \o r
  BY DEF Inserted
<1> HIDE DEF l, r
<1>3. <<x>> \in Seq(S) /\ Range(<<x>>) = {x}
  BY DEF Range
<1> DEFINE e == <<x>>
<1> HIDE DEF e
<1>4. l \o e \in Seq(S) /\ Range(l \o e) = Range(l) \cup {x}
  <2>1. e \in Seq(S) /\ Range(e) = {x}
    BY <1>3 DEF e
  <2> QED
    BY <1>1, <2>1, ConcatElements
<1> DEFINE m == l \o e
<1> HIDE DEF m
<1>5. m \o r \in Seq(S) /\ Range(m \o r) = Range(l) \cup {x} \cup Range(r)
  <2>1. m \in Seq(S) /\ Range(m) = Range(l) \cup {x}
    BY <1>4 DEF m
  <2> QED
    BY <1>1, <2>1, ConcatElements
<1>6. ASSUME NEW y \in Range(l) \cup Range(r) PROVE y \in Range(s)
  <2>1. CASE y \in Range(l)
    <3>1. PICK i \in 1..Len(l) : y = l[i]
      BY <1>1, <2>1, InRange
    <3>2. i \in 1..Len(s) /\ y = s[i]
      BY <1>1, <3>1
    <3> QED
      BY <3>2, InRange
  <2>2. CASE y \in Range(r)
    <3>1. PICK i \in 1..Len(r) : y = r[i]
      BY <1>1, <2>2, InRange
    <3>2. n + i \in 1..Len(s) /\ y = s[n + i]
      BY <1>1, <3>1
    <3> QED
      BY <3>2, InRange
  <2> QED
    BY <1>6, <2>1, <2>2
<1>7. ASSUME NEW y \in Range(s) PROVE y \in Range(l) \cup Range(r)
  <2>1. PICK i \in 1..Len(s) : y = s[i]
    BY <1>7, InRange
  <2>2. CASE i <= n
    <3>1. i \in 1..Len(l) /\ y = l[i]
      BY <1>1, <2>1, <2>2
    <3> QED
      BY <1>1, <3>1, InRange, Zenon
  <2>3. CASE i > n
    <3>1. i - n \in 1..Len(r) /\ y = r[i - n]
      BY <1>1, <2>1, <2>3
    <3> QED
      BY <1>1, <3>1, InRange
  <2> QED
    BY <1>1, <2>2, <2>3
<1>8. Inserted(s, n, x) = m \o r
  BY <1>2 DEF m, e
<1> QED
  BY <1>5, <1>6, <1>7, <1>8

-----------------------------------------------------------------------------
(* The SURB ids: the n-th transmission of m has the id <<m, n>>. *)
ids == Msgs \X Nat

(* The caller of a blocking message alone waits. *)
CallersOK ==
    /\ caller \in [Msgs -> {"idle", "sent"} \cup Waiting \cup Returned]
    /\ \A m \in Msgs :
          /\ caller[m] \in Waiting => m \in Blocking
          /\ caller[m] = "sent" => m \notin Blocking

(* The worker has the first message of the queue in its hands while it     *)
(* sends it.                                                               *)
EgressOK ==
    /\ egress \in Seq(Msgs) /\ opCh \in Seq(Msgs)
    /\ worker \in {"sending", "stored"} => egress # <<>>

(* The timer queue knows of reliable messages only. *)
TimerOK ==
    /\ queued \in Seq(Reliable)
    /\ push \in [step : {"idle", "load", "delete", "send", "return"}, msg : Reliable \cup {None}]
    /\ push.step \in {"load", "delete", "send"} => push.msg \in Reliable

RepliesOK ==
    /\ sends \in [Msgs -> Nat] /\ key \in [Msgs -> Nat]
    /\ surbIDMap \subseteq ids /\ net \subseteq ids /\ ack \in ids \cup {None}

(* The shape of the state. *)
Shape == CallersOK /\ EgressOK /\ TimerOK /\ RepliesOK

(* The messages that are still to be sent: the one that the worker has     *)
(* just sent and timed is on the queue, but not among them.                *)
unsent == IF worker = "stored" THEN Tail(egress) ELSE egress

(* The reply to the last transmission of m is expected. *)
expected(m) == key[m] = sends[m] /\ <<m, sends[m]>> \in surbIDMap

(* The reply to the last transmission of m has been found by onACK. *)
answering(m) == key[m] = sends[m] /\ ack = <<m, sends[m]>>

(* A message that is timed is also expected: Push would take it for        *)
(* answered otherwise.                                                     *)
Live(m) ==
    \/ m \in Range(unsent) \cup Range(opCh) \cup closed
    \/ push.step \in {"delete", "send"} /\ push.msg = m
    \/ expected(m) /\ (m \in Range(queued) \/ push = [step |-> "load", msg |-> m])
    \/ answering(m)

pending(m) ==
    m \in Reliable \ dropped /\ caller[m] \in Waiting \cup {"sent"} /\ halt = "no"

AllLive == \A m \in Reliable : pending(m) => Live(m)

IInv == Shape /\ AllLive

-----------------------------------------------------------------------------
(* Every step preserves the shape of the state. *)

(* The callers, the blocking ones included, and what they wait for. *)
LEMMA CallersStep == Shape /\ [Next]_vars => CallersOK'
<1> SUFFICES ASSUME Shape, [Next]_vars PROVE CallersOK'
  OBVIOUS
<1>a. CallersOK /\ EgressOK /\ RepliesOK
  BY DEF Shape
<1> USE DEF CallersOK
<1>1. CASE caller' = caller
  BY <1>a, <1>1
<1>2. ASSUME NEW m \in Msgs, Send(m) PROVE CallersOK'
  BY <1>a, <1>2 DEF Send, Waiting, Returned
<1>3. ASSUME NEW m \in Msgs, waitSent(m) \/ waitReply(m) PROVE CallersOK'
  BY <1>a, <1>3 DEF waitSent, waitReply, Waiting, Returned
<1>4. CASE sent
  <2>1. Head(egress) \in Msgs
    BY <1>a, <1>4, TailElements DEF sent, EgressOK
  <2> QED
    BY <1>a, <1>4, <2>1 DEF sent, Waiting, Returned
<1>5. CASE doSendFails
  <2>1. Head(egress) \in Msgs
    BY <1>a, <1>5, TailElements DEF doSendFails, EgressOK
  <2> QED
    BY <1>a, <1>5, <2>1 DEF doSendFails, Waiting, Returned
<1>6. CASE onACK
  <2>1. ack[1] \in Msgs
    BY <1>a, <1>6 DEF onACK, RepliesOK, ids
  <2> QED
    BY <1>a, <1>6, <2>1 DEF onACK, Waiting, Returned
<1> QED
  <2>1. CASE UNCHANGED vars
    BY <2>1, <1>1 DEF vars
  <2> QED
    BY <2>1, <1>1, <1>2, <1>3, <1>4, <1>5, <1>6
      , Zenon DEF Next, workerStep, timerStep, sendNext, doSend, doRetransmit, opNewDocument,
           workerHalts, timerHalts, waits, wakeupReturns, loadACK, garbageCollect, Shutdown,
           sessionHalted, timerHalted, fire, wakes, loadPush, deletePush, sendPush

(* The egress queue and the message that the worker sends. *)
LEMMA EgressStep == Shape /\ [Next]_vars => EgressOK'
<1> SUFFICES ASSUME Shape, [Next]_vars PROVE EgressOK'
  OBVIOUS
<1>a. EgressOK /\ TimerOK /\ Reliable \subseteq Msgs
  BY ClientSessionAssumption DEF Shape
<1> USE DEF EgressOK
<1>1. CASE UNCHANGED <<egress, opCh, worker>>
  BY <1>a, <1>1
<1>2. ASSUME NEW m \in Msgs, Send(m) PROVE EgressOK'
  <2>1. Append(egress, m) \in Seq(Msgs) /\ Append(egress, m) # <<>>
    BY <1>a, AppendElements
  <2>2. egress' = Append(egress, m) \/ egress' = egress
    BY <1>2 DEF Send
  <2> QED
    BY <1>a, <1>2, <2>1, <2>2 DEF Send
<1>3. CASE sendNext \/ doSend
  BY <1>a, <1>3 DEF sendNext, doSend
<1>4. CASE sent \/ doSendFails
  <2>1. Tail(egress) \in Seq(Msgs)
    BY <1>a, <1>4, TailElements DEF sent, doSendFails
  <2> QED
    BY <1>a, <1>4, <2>1, Zenon DEF sent, doSendFails
<1>5. CASE doRetransmit
  <2>1. Head(opCh) \in Msgs /\ Tail(opCh) \in Seq(Msgs)
    BY <1>a, <1>5, TailElements DEF doRetransmit
  <2>2. Append(egress, Head(opCh)) \in Seq(Msgs)
    BY <1>a, <2>1, AppendElements
  <2>3. egress' = Append(egress, Head(opCh)) \/ egress' = egress
    BY <1>5 DEF doRetransmit
  <2> QED
    BY <1>a, <1>5, <2>1, <2>2, <2>3, Zenon DEF doRetransmit
<1>6. CASE opNewDocument \/ workerHalts
  BY <1>a, <1>6 DEF opNewDocument, workerHalts
<1>7. CASE sendPush
  <2>1. push.msg \in Msgs
    BY <1>a, <1>7 DEF sendPush, TimerOK
  <2>2. Append(opCh, push.msg) \in Seq(Msgs)
    BY <1>a, <2>1, AppendElements
  <2> QED
    BY <1>a, <1>7, <2>2 DEF sendPush
<1> QED
  <2>1. CASE UNCHANGED vars
    BY <2>1, <1>1 DEF vars
  <2> QED
    BY <2>1, <1>1, <1>2, <1>3, <1>4, <1>5, <1>6, <1>7
      , Zenon DEF Next, workerStep, timerStep, waitSent, waitReply, timerHalts, waits, wakeupReturns,
           loadACK, onACK, garbageCollect, Shutdown, sessionHalted, timerHalted, fire, wakes,
           loadPush, deletePush

(* What the timer queue does at the head of its loop. *)
LEMMA LookShape == TimerOK /\ look => TimerOK'
<1> SUFFICES ASSUME TimerOK, look PROVE TimerOK'
  OBVIOUS
<1> USE DEF TimerOK
<1>1. CASE sleep /\ push' = Idle
  BY <1>1 DEF sleep, Idle
<1>2. CASE forward
  <2>1. Head(queued) \in Reliable /\ Tail(queued) \in Seq(Reliable)
    BY <1>2, TailElements DEF forward, pop
  <2> QED
    BY <1>2, <2>1 DEF forward, pop
<1> QED
  BY <1>1, <1>2 DEF look

(* The retransmission queue and its timer. *)
LEMMA TimerStep == Shape /\ [Next]_vars => TimerOK'
<1> SUFFICES ASSUME Shape, [Next]_vars PROVE TimerOK'
  OBVIOUS
<1>a. TimerOK /\ EgressOK
  BY DEF Shape
<1>1. CASE UNCHANGED <<queued, push>>
  BY <1>a, <1>1 DEF TimerOK
<1>2. CASE look
  BY <1>a, <1>2, LookShape
<1>3. CASE doSend
  <2>1. CASE Head(egress) \in Reliable
    <3>1. PICK n \in 0..Len(queued) : queued' = Inserted(queued, n, Head(egress))
      BY <1>3, <2>1, Zenon DEF doSend, timed, Enqueue, Inserted
    <3>2. queued' \in Seq(Reliable)
      BY <1>a, <2>1, <3>1, InsertElements DEF TimerOK
    <3> QED
      BY <1>a, <1>3, <3>2 DEF doSend, TimerOK
  <2>2. CASE Head(egress) \notin Reliable
    BY <1>1, <1>3, <2>2 DEF doSend, timed, timerVars
  <2> QED
    BY <2>1, <2>2
<1>4. CASE loadPush
  <2>1. CASE push' = [push EXCEPT !.step = "delete"] /\ UNCHANGED timerVars
    BY <1>a, <1>4, <2>1 DEF loadPush, TimerOK, timerVars
  <2> QED
    BY <1>2, <1>4, <2>1 DEF loadPush
<1>5. CASE deletePush
  BY <1>a, <1>5 DEF deletePush, TimerOK, timerVars
<1>6. CASE timerHalts
  BY <1>a, <1>6 DEF timerHalts, TimerOK, Idle
<1>7. CASE sent
  BY <1>1, <1>7 DEF sent, timerVars
<1>8. CASE waits \/ wakeupReturns
  BY <1>1, <1>8 DEF waits, Wait, wakeupReturns, wakeupHalts
<1>9. CASE fire \/ wakes \/ sendPush
  BY <1>2, <1>9, Zenon DEF fire, wakes, sendPush, look
<1> QED
  <2>1. CASE UNCHANGED vars
    BY <2>1, <1>1 DEF vars, timerVars
  <2> QED
    BY <2>1, <1>1, <1>3, <1>4, <1>5, <1>6, <1>7, <1>8, <1>9
      , Zenon DEF Next, workerStep, timerStep, Send, waitSent, waitReply, sendNext, doSendFails,
           doRetransmit, opNewDocument, workerHalts, loadACK, onACK, garbageCollect, Shutdown,
           sessionHalted, timerHalted, timerVars

(* The SURBs that replies are expected for, and the replies. *)
LEMMA RepliesStep == Shape /\ [Next]_vars => RepliesOK'
<1> SUFFICES ASSUME Shape, [Next]_vars PROVE RepliesOK'
  OBVIOUS
<1>a. RepliesOK /\ EgressOK
  BY DEF Shape
<1> USE DEF RepliesOK, ids
<1>1. CASE UNCHANGED <<sends, key, surbIDMap, net, ack>>
  BY <1>a, <1>1
<1>2. CASE sendNext
  <2>1. Head(egress) \in Msgs
    BY <1>a, <1>2, TailElements DEF sendNext, EgressOK
  <2>2. sends' = [sends EXCEPT ![Head(egress)] = sends[Head(egress)] + 1]
    BY <1>2 DEF sendNext
  <2>3. net' \subseteq net \cup {<<Head(egress), sends[Head(egress)] + 1>>}
    BY <1>2 DEF sendNext
  <2>4. sends' \in [Msgs -> Nat] /\ net' \subseteq ids
    BY <1>a, <2>1, <2>2, <2>3
  <2> QED
    BY <1>a, <1>2, <2>4 DEF sendNext
<1>3. CASE doSend
  <2>1. Head(egress) \in Msgs
    BY <1>a, <1>3, TailElements DEF doSend, EgressOK
  <2> QED
    BY <1>a, <1>3, <2>1 DEF doSend
<1>4. CASE doSendFails \/ opNewDocument \/ Shutdown
  BY <1>a, <1>4 DEF doSendFails, opNewDocument, Shutdown
<1>5. CASE onACK \/ deletePush
  BY <1>a, <1>5 DEF onACK, deletePush
<1>6. ASSUME NEW m \in Msgs, NEW k \in 1..MaxSends, loadACK(m, k) PROVE RepliesOK'
  BY <1>a, <1>6 DEF loadACK
<1>7. ASSUME NEW id \in surbIDMap, garbageCollect(id) PROVE RepliesOK'
  BY <1>a, <1>7 DEF garbageCollect
<1> QED
  <2>1. CASE UNCHANGED vars
    BY <2>1, <1>1 DEF vars
  <2> QED
    BY <2>1, <1>1, <1>2, <1>3, <1>4, <1>5, <1>6, <1>7
       DEF Next, workerStep, timerStep, Send, waitSent, waitReply, sent, doRetransmit,
           workerHalts, timerHalts, waits, wakeupReturns, sessionHalted, timerHalted, fire,
           wakes, loadPush, sendPush

(* The four together. *)
LEMMA ShapeStep == Shape /\ [Next]_vars => Shape'
  BY CallersStep, EgressStep, TimerStep, RepliesStep DEF Shape

-----------------------------------------------------------------------------
(* Every step preserves that the pending messages are on their way. *)

(* A message that is pushed on the egress queue is to be sent. *)
LEMMA PushedIsUnsent ==
    ASSUME Shape, NEW x \in Msgs, egress' = Append(egress, x), worker' = worker
    PROVE  Range(unsent)' = Range(unsent) \cup {x}
<1>1. CASE worker = "stored"
  <2>1. egress # <<>> /\ egress \in Seq(Msgs) /\ Tail(egress) \in Seq(Msgs)
    BY <1>1, TailElements DEF Shape, EgressOK
  <2>2. Tail(Append(egress, x)) = Append(Tail(egress), x)
    BY <2>1, AppendTail
  <2>3. unsent' = Append(Tail(egress), x) /\ unsent = Tail(egress)
    BY <1>1, <2>2 DEF unsent
  <2> DEFINE t == Tail(egress)
  <2>4. t \in Seq(Msgs)
    BY <2>1
  <2> HIDE DEF t
  <2>5. Range(Append(t, x)) = Range(t) \cup {x}
    BY <2>4, AppendElements
  <2> QED
    BY <2>3, <2>5 DEF t
<1>2. CASE worker # "stored"
  <2>1. unsent' = Append(egress, x) /\ unsent = egress /\ egress \in Seq(Msgs)
    BY <1>2 DEF unsent, Shape, EgressOK
  <2>2. Range(Append(egress, x)) = Range(egress) \cup {x}
    BY <2>1, AppendElements
  <2> QED
    BY <2>1, <2>2
<1> QED
  BY <1>1, <1>2

(* At the head of its loop, the timer queue drops at most a message that   *)
(* has been loaded.                                                        *)
LEMMA LookLive ==
    ASSUME Shape, look, UNCHANGED <<key, sends, surbIDMap>>,
           NEW m \in Reliable, expected(m), m \in Range(queued)
    PROVE  /\ expected(m)'
           /\ m \in Range(queued)' \/ push' = [step |-> "load", msg |-> m]
<1>1. expected(m)'
  BY DEF expected
<1>2. CASE sleep /\ push' = Idle
  BY <1>1, <1>2 DEF sleep
<1>3. CASE forward
  <2>1. Range(queued) = {Head(queued)} \cup Range(Tail(queued))
    BY <1>3, TailElements DEF forward, pop, Shape, TimerOK
  <2> QED
    BY <1>1, <1>3, <2>1 DEF forward, pop
<1> QED
  BY <1>2, <1>3 DEF look

(* Every message that must be answered keeps something that will see to  *)
(* it: one case per step of the session, its worker and its timer.         *)
LEMMA LiveStep == IInv /\ [Next]_vars => AllLive'
<1> SUFFICES ASSUME IInv, [Next]_vars, NEW m \in Reliable, pending(m)'
             PROVE  Live(m)'
  BY DEF AllLive
<1>a. /\ Shape /\ CallersOK /\ EgressOK /\ TimerOK /\ RepliesOK
      /\ m \in Msgs /\ (pending(m) => Live(m))
  BY ClientSessionAssumption DEF IInv, AllLive, Shape
<1> USE ClientSessionAssumption DEF timerVars
<1>1. ASSUME NEW k \in Msgs, Send(k) PROVE Live(m)'
  <2>1. CASE egress' = Append(egress, k)
    <3>1. Range(unsent)' = Range(unsent) \cup {k}
      BY <1>1, <1>a, <2>1, PushedIsUnsent DEF Send
    <3>2. k # m => pending(m)
      BY <1>1, <1>a DEF Send, pending, CallersOK
    <3> QED
      BY <1>1, <1>a, <3>1, <3>2 DEF Send, Live, expected, answering
  <2>2. CASE egress' = egress /\ caller' = [caller EXCEPT ![k] = "failed"]
    <3>1. pending(m)
      BY <1>1, <1>a, <2>2 DEF Send, pending, CallersOK, Waiting
    <3> QED
      BY <1>1, <1>a, <2>2, <3>1 DEF Send, Live, unsent, expected, answering
  <2> QED
    BY <1>1, <2>1, <2>2 DEF Send
<1>2. ASSUME NEW k \in Msgs, waitSent(k) \/ waitReply(k) PROVE Live(m)'
  <2>1. pending(m)
    BY <1>2, <1>a DEF waitSent, waitReply, pending, CallersOK, Waiting
  <2> QED
    BY <1>2, <1>a, <2>1 DEF waitSent, waitReply, Live, unsent, expected, answering
<1>3. CASE sendNext
  <2>1. pending(m) /\ unsent' = unsent /\ unsent = egress
    BY <1>3 DEF sendNext, pending, unsent
  <2>2. Head(egress) \in Msgs /\ Head(egress) \in Range(egress)
    BY <1>3, <1>a, TailElements DEF sendNext, EgressOK
  <2>3. CASE m = Head(egress)
    BY <2>1, <2>2, <2>3 DEF Live
  <2>4. CASE m # Head(egress)
    <3>1. sends'[m] = sends[m]
      BY <1>3, <1>a, <2>2, <2>4 DEF sendNext, RepliesOK
    <3> QED
      BY <1>3, <1>a, <2>1, <3>1 DEF sendNext, Live, expected, answering
  <2> QED
    BY <2>3, <2>4
<1>4. CASE doSend
  <2>1. pending(m) /\ unsent = egress /\ unsent' = Tail(egress)
    BY <1>4 DEF doSend, pending, unsent
  <2>2. /\ Head(egress) \in Msgs
        /\ Range(egress) = {Head(egress)} \cup Range(Tail(egress))
    BY <1>4, <1>a, TailElements DEF doSend, EgressOK
  <2>3. /\ Range(queued) \subseteq Range(queued)'
        /\ Head(egress) \in Reliable => Head(egress) \in Range(queued)'
    <3>1. CASE Head(egress) \in Reliable
      <4>1. PICK n \in 0..Len(queued) : queued' = Inserted(queued, n, Head(egress))
        BY <1>4, <3>1, Zenon DEF doSend, timed, Enqueue, Inserted
      <4>2. Range(Inserted(queued, n, Head(egress))) = Range(queued) \cup {Head(egress)}
        BY <1>a, <3>1, InsertElements DEF TimerOK
      <4> QED
        BY <4>1, <4>2
    <3>2. CASE Head(egress) \notin Reliable
      BY <1>4, <3>2 DEF doSend, timed
    <3> QED
      BY <3>1, <3>2
  <2>4. CASE m = Head(egress)
    <3>1. expected(m)'
      BY <1>4, <1>a, <2>2, <2>4 DEF doSend, expected, RepliesOK
    <3> QED
      BY <2>3, <2>4, <3>1 DEF Live
  <2>5. CASE m # Head(egress)
    <3>1. key'[m] = key[m] /\ sends' = sends /\ surbIDMap \subseteq surbIDMap'
      BY <1>4, <1>a, <2>2, <2>5 DEF doSend, RepliesOK
    <3> QED
      BY <1>4, <1>a, <2>1, <2>2, <2>3, <2>5, <3>1 DEF doSend, Live, expected, answering
  <2> QED
    BY <2>4, <2>5
<1>5. CASE sent
  <2>1. Head(egress) \in Msgs
    BY <1>5, <1>a, TailElements DEF sent, EgressOK
  <2>2. pending(m)
    BY <1>5, <1>a, <2>1 DEF sent, pending, CallersOK, Waiting
  <2>3. unsent' = unsent /\ queued' = queued
    BY <1>5 DEF sent, unsent
  <2> QED
    BY <1>5, <1>a, <2>2, <2>3 DEF sent, Live, expected, answering
<1>6. CASE doSendFails
  <2>1. /\ Head(egress) \in Msgs
        /\ Range(egress) = {Head(egress)} \cup Range(Tail(egress))
    BY <1>6, <1>a, TailElements DEF doSendFails, EgressOK
  <2>2. m # Head(egress) /\ pending(m)
    BY <1>6, <1>a, <2>1 DEF doSendFails, pending, CallersOK, Waiting
  <2>3. unsent = egress /\ unsent' = Tail(egress)
    BY <1>6 DEF doSendFails, unsent
  <2> QED
    BY <1>6, <1>a, <2>1, <2>2, <2>3 DEF doSendFails, Live, expected, answering
<1>7. CASE doRetransmit
  <2>1. /\ Head(opCh) \in Msgs
        /\ Range(opCh) = {Head(opCh)} \cup Range(Tail(opCh))
    BY <1>7, <1>a, TailElements DEF doRetransmit, EgressOK
  <2>2. pending(m)
    BY <1>7 DEF doRetransmit, pending
  <2>3. CASE egress' = Append(egress, Head(opCh))
    <3>1. Range(unsent)' = Range(unsent) \cup {Head(opCh)}
      BY <1>7, <1>a, <2>1, <2>3, PushedIsUnsent DEF doRetransmit
    <3> QED
      BY <1>7, <1>a, <2>1, <2>2, <3>1 DEF doRetransmit, Live, expected, answering
  <2>4. CASE egress' = egress /\ dropped' = dropped \cup {Head(opCh)}
    <3>1. m # Head(opCh) /\ unsent' = unsent
      BY <1>7, <2>4 DEF doRetransmit, pending, unsent
    <3> QED
      BY <1>7, <1>a, <2>1, <2>2, <3>1 DEF doRetransmit, Live, expected, answering
  <2> QED
    BY <1>7, <2>3, <2>4 DEF doRetransmit
<1>8. CASE opNewDocument \/ Shutdown \/ sessionHalted \/ timerHalted \/ timerHalts
  BY <1>8 DEF opNewDocument, Shutdown, sessionHalted, timerHalted, timerHalts, pending
<1>9. CASE workerHalts \/ waits \/ wakeupReturns
  BY <1>9, <1>a DEF workerHalts, waits, Wait, wakeupReturns, wakeupHalts, pending, Live, unsent,
     expected, answering
<1>10. ASSUME NEW k \in Msgs, NEW n \in 1..MaxSends, loadACK(k, n) PROVE Live(m)'
  <2>1. pending(m) /\ ~answering(m)
    BY <1>10, <1>a DEF loadACK, pending, answering, RepliesOK, ids
  <2> QED
    BY <1>10, <1>a, <2>1 DEF loadACK, Live, unsent, expected
<1>11. CASE onACK
  <2>1. PICK k \in Msgs, n \in Nat : ack = <<k, n>>
    BY <1>11, <1>a DEF onACK, RepliesOK, ids
  <2> DEFINE plain == key[k] = n
             blocked == plain /\ k \in Blocking /\ caller[k] \in Waiting
  <2>2. /\ closed' = IF blocked /\ caller[k] # "waitReply" THEN closed \cup {k} ELSE closed
        /\ caller' = IF plain /\ caller[k] \in {"sent", "waitReply"}
                     THEN [caller EXCEPT ![k] = "replied"] ELSE caller
        /\ surbIDMap' = surbIDMap \ {<<k, n>>}
        /\ UNCHANGED <<egress, worker, sends, timerVars, push, opCh, key, dropped, halt>>
    BY <1>11, <2>1 DEF onACK
  <2>3. caller[m] = caller'[m]
    BY <1>a, <2>2 DEF pending, CallersOK, Waiting
  <2>4. pending(m) /\ unsent' = unsent /\ closed \subseteq closed'
    BY <2>2, <2>3 DEF pending, unsent
  <2>5. CASE k = m /\ n = sends[m] /\ key[m] = sends[m]
    <3>1. caller[m] # "sent" /\ caller[m] # "waitReply"
      BY <1>a, <2>2, <2>3, <2>5 DEF CallersOK
    <3>2. caller[m] \in Waiting
      BY <2>4, <3>1 DEF pending
    <3>3. m \in Blocking
      BY <1>a, <3>2 DEF CallersOK
    <3>4. m \in closed'
      BY <2>2, <2>5, <3>1, <3>2, <3>3
    <3> QED
      BY <3>4 DEF Live
  <2>6. CASE ~(k = m /\ n = sends[m] /\ key[m] = sends[m])
    <3>1. ~answering(m) /\ (expected(m) => expected(m)')
      BY <2>1, <2>2, <2>6 DEF expected, answering
    <3> QED
      BY <1>a, <2>2, <2>4, <3>1 DEF Live
  <2> QED
    BY <2>5, <2>6
<1>12. CASE fire \/ wakes
  <2>1. pending(m) /\ unsent' = unsent /\ look /\ push.step = "idle"
    BY <1>12 DEF fire, wakes, look, pending, unsent
  <2>2. UNCHANGED <<key, sends, surbIDMap, opCh, closed, ack>>
    BY <1>12 DEF fire, wakes
  <2> QED
    BY <1>a, <2>1, <2>2, LookLive DEF Live, answering
<1>13. CASE loadPush
  <2>1. pending(m) /\ unsent' = unsent
    BY <1>13 DEF loadPush, pending, unsent
  <2>2. UNCHANGED <<key, sends, surbIDMap, opCh, closed, ack>>
    BY <1>13 DEF loadPush
  <2>3. CASE <<push.msg, sends[push.msg]>> \in surbIDMap
    <3>1. push' = [push EXCEPT !.step = "delete"] /\ queued' = queued
      BY <1>13, <2>3 DEF loadPush
    <3>2. push'.step = "delete" /\ push'.msg = push.msg
      BY <1>a, <3>1 DEF TimerOK
    <3> QED
      BY <1>13, <1>a, <2>1, <2>2, <3>1, <3>2 DEF loadPush, Live, expected, answering
  <2>4. CASE <<push.msg, sends[push.msg]>> \notin surbIDMap
    <3>1. look /\ push.step = "load"
      BY <1>13, <2>4 DEF loadPush
    <3>2. ~(expected(m) /\ push = [step |-> "load", msg |-> m])
      BY <2>4 DEF expected
    <3> QED
      BY <1>a, <2>1, <2>2, <3>1, <3>2, LookLive DEF Live, answering
  <2> QED
    BY <2>3, <2>4
<1>14. CASE deletePush
  <2>1. pending(m) /\ unsent' = unsent
    BY <1>14 DEF deletePush, pending, unsent
  <2>2. push'.step = "send" /\ push'.msg = push.msg
    BY <1>14, <1>a DEF deletePush, TimerOK
  <2>3. m # push.msg => (expected(m) => expected(m)')
    BY <1>14 DEF deletePush, expected
  <2> QED
    BY <1>14, <1>a, <2>1, <2>2, <2>3 DEF deletePush, Live, answering
<1>15. CASE sendPush
  <2>1. pending(m) /\ unsent' = unsent /\ look /\ push.step = "send"
    BY <1>15 DEF sendPush, pending, unsent
  <2>2. UNCHANGED <<key, sends, surbIDMap, closed, ack>>
    BY <1>15 DEF sendPush
  <2>3. Range(opCh)' = Range(opCh) \cup {push.msg}
    BY <1>15, <1>a, AppendElements DEF sendPush, EgressOK, TimerOK
  <2> QED
    BY <1>a, <2>1, <2>2, <2>3, LookLive DEF Live, answering
<1>16. ASSUME NEW id \in surbIDMap, garbageCollect(id) PROVE Live(m)'
  <2>1. pending(m) /\ unsent' = unsent
    BY <1>16 DEF garbageCollect, pending, unsent
  <2>2. CASE id = <<m, sends[m]>>
    <3>1. ack = id \/ push = [step |-> "delete", msg |-> m]
      BY <1>16, <2>2 DEF garbageCollect, pending
    <3> QED
      BY <1>16, <1>a, <2>1, <2>2, <3>1 DEF garbageCollect, Live, expected, answering
  <2>3. CASE id # <<m, sends[m]>>
    BY <1>16, <1>a, <2>1, <2>3 DEF garbageCollect, Live, expected, answering
  <2> QED
    BY <2>2, <2>3
<1>17. CASE UNCHANGED vars
  BY <1>17, <1>a DEF vars, pending, Live, unsent, expected, answering
<1> QED
  BY <1>1, <1>2, <1>3, <1>4, <1>5, <1>6, <1>7, <1>8, <1>9, <1>10, <1>11, <1>12, <1>13, <1>14,
     <1>15, <1>16, <1>17 DEF Next, workerStep, timerStep

-----------------------------------------------------------------------------
(* A reliable message that is neither answered nor reported as failed is   *)
(* on its way, whatever the sizes of the queues and however often it is    *)
(* sent, unless the session has given up on it in one of the three places  *)
(* where it does so (doSend, doRetransmit, garbageCollect).                *)
THEOREM TrackedHolds == Spec => []Tracked
<1>1. Init => IInv
  <2> SUFFICES ASSUME Init PROVE IInv
    OBVIOUS
  <2>1. Shape
    BY DEF Init, Shape, CallersOK, EgressOK, TimerOK, RepliesOK, TimerInit, Idle, Waiting
  <2>2. AllLive
    BY ClientSessionAssumption DEF Init, AllLive, pending, Waiting
  <2> QED
    BY <2>1, <2>2 DEF IInv
<1>2. IInv /\ [Next]_vars => IInv'
  BY ShapeStep, LiveStep DEF IInv
<1>3. IInv => Tracked
  <2> SUFFICES ASSUME IInv, NEW m \in Reliable \ dropped,
                      caller[m] \in Waiting \cup {"sent"} /\ halt = "no"
               PROVE  \/ m \in Range(egress) \cup Range(queued) \cup closed \cup Range(opCh)
                      \/ push.msg = m
                      \/ ack # None /\ ack[1] = m
    BY DEF Tracked
  <2>1. Live(m) /\ Shape
    BY DEF IInv, AllLive, pending
  <2>2. Range(unsent) \subseteq Range(egress)
    BY <2>1, TailElements DEF Shape, EgressOK, unsent
  <2>3. answering(m) => ack # None /\ ack[1] = m
    BY <2>1, ClientSessionAssumption DEF answering, Shape, RepliesOK, ids
  <2> QED
    BY <2>1, <2>2, <2>3 DEF Live
<1> QED
  BY <1>1, <1>2, <1>3, PTL DEF Spec
=============================================================================
