-------------------------- MODULE RetrievalProofs ---------------------------
(***************************************************************************)
(* Proofs about message retrieval, for any number of connections and       *)
(* messages.                                                               *)
(***************************************************************************)
EXTENDS Retrieval, TLAPS

(* The elements of a list or channel: what a push, a pop and a removal do  *)
(* to the set of them.                                                     *)

(* A sequence without its n-th element. *)
Without(s, n) == SubSeq(s, 1, n - 1) \o SubSeq(s, n + 1, Len(s))

(* What is in a sequence is at some place of it. *)
LEMMA InRange ==
    ASSUME NEW S, NEW s \in Seq(S)
    PROVE  /\ \A i \in 1..Len(s) : s[i] \in Range(s)
           /\ \A x \in Range(s) : \E i \in 1..Len(s) : x = s[i]
           /\ Range(s) \subseteq S
  BY DEF Range

(* Nothing is in the empty sequence. *)
LEMMA EmptyElements == Range(<<>>) = {}
  BY DEF Range

(* Append: a push on a queue, a send on a channel. *)
LEMMA AppendElements ==
    ASSUME NEW S, NEW s \in Seq(S), NEW x \in S
    PROVE  /\ Append(s, x) \in Seq(S) /\ Append(s, x) # <<>>
           /\ Range(Append(s, x)) = Range(s) \cup {x}
<1>1. /\ Append(s, x) \in Seq(S) /\ Len(Append(s, x)) = Len(s) + 1
      /\ \A i \in 1..Len(s) : Append(s, x)[i] = s[i]
      /\ Append(s, x)[Len(s) + 1] = x
  OBVIOUS
<1>2. DOMAIN Append(s, x) = DOMAIN s \cup {Len(s) + 1}
  BY <1>1
<1> QED
  BY <1>1, <1>2 DEF Range

(* Head and Tail: a pop from a queue, a receive from a channel. *)
LEMMA TailElements ==
    ASSUME NEW S, NEW s \in Seq(S), s # <<>>
    PROVE  /\ Head(s) \in S /\ Tail(s) \in Seq(S)
           /\ Range(s) = {Head(s)} \cup Range(Tail(s))
<1> DEFINE t == Tail(s)
<1>1. /\ Head(s) \in S /\ t \in Seq(S) /\ Len(t) = Len(s) - 1
      /\ Head(s) = s[1] /\ Len(s) \in Nat \ {0}
      /\ \A i \in 1..(Len(s) - 1) : t[i] = s[i + 1]
  OBVIOUS
<1> HIDE DEF t
<1>2. Head(s) \in Range(s)
  BY <1>1, InRange
<1>3. ASSUME NEW x \in Range(t) PROVE x \in Range(s)
  <2>1. PICK i \in 1..Len(t) : x = t[i]
    BY <1>1, <1>3, InRange
  <2>2. i + 1 \in 1..Len(s) /\ x = s[i + 1]
    BY <1>1, <2>1
  <2> QED
    BY <2>2, InRange
<1>4. ASSUME NEW x \in Range(s), x # Head(s) PROVE x \in Range(t)
  <2>1. PICK i \in 1..Len(s) : x = s[i]
    BY <1>4, InRange
  <2>2. i - 1 \in 1..Len(t) /\ x = t[i - 1]
    BY <1>1, <1>4, <2>1
  <2> QED
    BY <1>1, <2>2, InRange
<1> QED
  BY <1>1, <1>2, <1>3, <1>4 DEF t

(* Concatenation. *)
LEMMA ConcatElements ==
    ASSUME NEW S, NEW s \in Seq(S), NEW t \in Seq(S)
    PROVE  s \o t \in Seq(S) /\ Range(s \o t) = Range(s) \cup Range(t)
<1> DEFINE u == s \o t
<1>1. /\ u \in Seq(S) /\ Len(u) = Len(s) + Len(t) /\ Len(s) \in Nat /\ Len(t) \in Nat
      /\ \A i \in 1..Len(s) : u[i] = s[i]
      /\ \A i \in 1..Len(t) : u[Len(s) + i] = t[i]
  OBVIOUS
<1> HIDE DEF u
<1>2. ASSUME NEW x \in Range(s) PROVE x \in Range(u)
  <2>1. PICK i \in 1..Len(s) : x = s[i]
    BY <1>2, InRange
  <2>2. i \in 1..Len(u) /\ x = u[i]
    BY <1>1, <2>1
  <2> QED
    BY <1>1, <2>2, InRange
<1>3. ASSUME NEW x \in Range(t) PROVE x \in Range(u)
  <2>1. PICK i \in 1..Len(t) : x = t[i]
    BY <1>3, InRange
  <2>2. Len(s) + i \in 1..Len(u) /\ x = u[Len(s) + i]
    BY <1>1, <2>1
  <2> QED
    BY <1>1, <2>2, InRange, Zenon
<1>4. ASSUME NEW x \in Range(u) PROVE x \in Range(s) \cup Range(t)
  <2>1. PICK i \in 1..Len(u) : x = u[i]
    BY <1>1, <1>4, InRange
  <2>2. CASE i <= Len(s)
    BY <1>1, <2>1, <2>2, InRange
  <2>3. CASE i > Len(s)
    <3>1. i - Len(s) \in 1..Len(t) /\ x = t[i - Len(s)]
      BY <1>1, <2>1, <2>3
    <3> QED
      BY <3>1, InRange
  <2> QED
    BY <1>1, <2>1, <2>2, <2>3
<1> QED
  BY <1>1, <1>2, <1>3, <1>4 DEF u

(* Without: an element of a list is removed. *)
LEMMA RemoveElements ==
    ASSUME NEW S, NEW s \in Seq(S), NEW n \in 1..Len(s)
    PROVE  /\ Without(s, n) \in Seq(S)
           /\ Range(s) \ {s[n]} \subseteq Range(Without(s, n))
           /\ Range(Without(s, n)) \subseteq Range(s)
<1> DEFINE l == SubSeq(s, 1, n - 1)
           r == SubSeq(s, n + 1, Len(s))
<1>1. /\ l \in Seq(S) /\ r \in Seq(S)
      /\ Len(s) \in Nat /\ Len(l) = n - 1 /\ Len(r) = Len(s) - n
      /\ \A i \in 1..(n - 1) : l[i] = s[i]
      /\ \A i \in 1..(Len(s) - n) : r[i] = s[n + i]
  OBVIOUS
<1>2. Without(s, n) = l \o r
  BY DEF Without
<1> HIDE DEF l, r
<1>3. l \o r \in Seq(S) /\ Range(l \o r) = Range(l) \cup Range(r)
  BY <1>1, ConcatElements
<1>4. ASSUME NEW y \in Range(l) \cup Range(r) PROVE y \in Range(s)
  <2>1. CASE y \in Range(l)
    <3>1. PICK i \in 1..Len(l) : y = l[i]
      BY <1>1, <2>1, InRange
    <3>2. i \in 1..Len(s) /\ y = s[i]
      BY <1>1, <3>1
    <3> QED
      BY <3>2, InRange
  <2>2. CASE y \in Range(r)
    <3>1. PICK i \in 1..Len(r) : y = r[i]
      BY <1>1, <2>2, InRange
    <3>2. n + i \in 1..Len(s) /\ y = s[n + i]
      BY <1>1, <3>1
    <3> QED
      BY <3>2, InRange
  <2> QED
    BY <1>4, <2>1, <2>2
<1>5. ASSUME NEW y \in Range(s), y # s[n] PROVE y \in Range(l) \cup Range(r)
  <2>1. PICK i \in 1..Len(s) : y = s[i]
    BY <1>5, InRange
  <2>2. CASE i < n
    <3>1. i \in 1..Len(l) /\ y = l[i]
      BY <1>1, <2>1, <2>2
    <3> QED
      BY <1>1, <3>1, InRange
  <2>3. CASE i > n
    <3>1. i - n \in 1..Len(r) /\ y = r[i - n]
      BY <1>1, <2>1, <2>3
    <3> QED
      BY <1>1, <3>1, InRange
  <2> QED
    BY <1>1, <1>5, <2>1, <2>2, <2>3
<1> QED
  BY <1>2, <1>3, <1>4, <1>5

-----------------------------------------------------------------------------
(* The shape of the state. *)
ConnsOK ==
    /\ pc \in [Conns -> PCs]
    /\ lock \in Conns \cup {None} /\ target \in Conns \cup {None}
    /\ conns \in Seq(Conns) /\ todo \in Seq(Conns)
    /\ initialized \subseteq Conns /\ established \subseteq Conns /\ eof \subseteq Conns

SpoolOK == spool \in Seq(Nat) /\ stored \in Nat

WireOK ==
    /\ retrSeq \in [Conns -> Nat]
    /\ cmd \in [Conns -> Int] /\ request \in [Conns -> Int]
    /\ advance \in [Conns -> BOOLEAN] /\ checked \subseteq Conns
    /\ reply \in [Conns -> Seq([seq : Int, msg : Nat])]
    /\ cur \in Conns \cup {None} /\ seq \in Nat

-----------------------------------------------------------------------------
(* The listener: at most one connection is served. *)

(* The connection has not been served yet. *)
fresh(c) == pc[c] \in {"none", "start", "handshake", "ready", "closeold", "closing"}

(* The connection is served, and its session is valid. *)
active(c) == pc[c] \in {"serve", "busy"} /\ c \in established

(* Who closes old connections has the mutex. *)
Locked == \A c \in Conns : pc[c] = "closing" => lock = c

(* A connection that is served is on the list, and initialized. *)
Listed ==
    \A c \in Conns :
        /\ pc[c] \notin {"none", "closed"} => c \in Range(conns)
        /\ pc[c] \in {"closeold", "closing", "serve", "busy"} => c \in initialized

(* Other connections are served only as long as CloseOldConns has still to *)
(* close them.                                                             *)
OneActive ==
    \A c, d \in Conns :
        active(c) /\ c # d =>
            /\ ~active(d)
            /\ pc[d] = "closing" => c = target \/ c \in Range(todo)

(* A handler that is about to call Get has a valid session. *)
CheckedActive == \A c \in checked : pc[c] = "busy" /\ c \in established

ConnsInv == ConnsOK /\ Locked /\ Listed /\ OneActive

-----------------------------------------------------------------------------
(* Sequence numbers: a request that deletes the head of the spool is made  *)
(* by a client that has received it.                                       *)

(* The head of the spool has been received. *)
headKnown == spool # <<>> /\ Head(spool) \in received

(* Sequence number n asks for the head of the spool again, or for the next *)
(* message.                                                                *)
inStep(c, n) == n = retrSeq[c] \/ (n = retrSeq[c] + 1 /\ headKnown)

(* There is one request, command or reply at a time. *)
OneAtATime ==
    \A c \in Conns :
        /\ cmd[c] # NoCmd <=> pc[c] = "busy"
        /\ request[c] # NoCmd => cmd[c] = NoCmd /\ reply[c] = <<>>
        /\ cmd[c] # NoCmd => reply[c] = <<>>
        /\ reply[c] # <<>> => Tail(reply[c]) = <<>>
        /\ cur = c => pc[c] # "none"
        /\ cur = c /\ outstanding = FALSE =>
              request[c] = NoCmd /\ cmd[c] = NoCmd /\ reply[c] = <<>>

(* On a connection that has not been served, nothing has been counted. *)
FreshStart ==
    \A c \in Conns : fresh(c) =>
        /\ retrSeq[c] = 0 /\ cmd[c] = NoCmd /\ reply[c] = <<>>
        /\ request[c] \in {NoCmd, 0}
        /\ pc[c] = "none" => request[c] = NoCmd
        /\ cur = c => seq = 0

(* On the connection that is served, the two sides are in step. *)
InStep ==
    \A c \in Conns : active(c) =>
        /\ request[c] # NoCmd => inStep(c, request[c])
        /\ cmd[c] # NoCmd /\ c \notin checked => inStep(c, cmd[c])
        /\ c \in checked => cmd[c] = retrSeq[c] /\ (advance[c] = TRUE => headKnown)
        /\ reply[c] # <<>> =>
              /\ Head(reply[c]).seq = retrSeq[c]
              /\ Head(reply[c]).msg # Empty =>
                    spool # <<>> /\ Head(spool) = Head(reply[c]).msg
        /\ cur = c /\ outstanding = FALSE => inStep(c, seq)

SessionInv == CheckedActive /\ OneAtATime /\ FreshStart /\ InStep

RInv == ConnsInv /\ SpoolOK /\ WireOK /\ SessionInv /\ AtLeastOnce

-----------------------------------------------------------------------------
(* The steps of the listener, seen alone. *)
connStep(c) ==
    \/ onNewConn(c) \/ locking(c) \/ Initialize(c) \/ lookAtConn(c) \/ Close(c)
    \/ closedOldConns(c) \/ recvFails(c) \/ handle(c) \/ handled(c) \/ handlerFails(c)
    \/ leave(c) \/ reauthFails(c) \/ closeSession(c)

(* Whatever client and spool do, the connections take such a step. *)
LEMMA ListenerStep ==
    [RNext]_rvars =>
        UNCHANGED vars \/ Halt \/ Halted \/ \E c \in Conns : connStep(c)
<1> SUFFICES ASSUME [RNext]_rvars
             PROVE  UNCHANGED vars \/ Halt \/ Halted \/ \E c \in Conns : connStep(c)
  OBVIOUS
<1>1. CASE doStore \/ doFetch \/ onReply \/ disconnect \/ UNCHANGED rvars
  BY <1>1 DEF doStore, doFetch, onReply, disconnect, rvars
<1>2. CASE providerHalts \/ providerHalted
  BY <1>2 DEF providerHalts, providerHalted
<1>3. ASSUME NEW c \in Conns, connHandler(c) PROVE UNCHANGED vars \/ connStep(c)
  <2>1. CASE onCommand(c)
    BY <2>1 DEF onCommand, connStep
  <2>2. CASE onRetrieveMessage(c)
    BY <2>2 DEF onRetrieveMessage, connStep
  <2>3. CASE Get(c)
    BY <2>3 DEF Get, connStep
  <2> QED
    BY <1>3, <2>1, <2>2, <2>3 DEF connHandler
<1>4. ASSUME NEW c \in Conns,
             \/ connect(c) \/ connWork(c) \/ connectionLost(c)
             \/ reauthFails(c) /\ UNCHANGED <<spoolVars, serverVars, wireVars, clientVars>>
      PROVE  connStep(c)
  BY <1>4 DEF connect, connWork, connectionLost, connStep
<1> QED
  BY <1>1, <1>2, <1>3, <1>4 DEF RNext

(* The step of c moves its own worker only, or that of the connection that *)
(* it closes.                                                              *)
LEMMA ConnsOKStep ==
    ASSUME ConnsOK, NEW c \in Conns, connStep(c)
    PROVE  ConnsOK'
<1> USE DEF ConnsOK, PCs, Goto
<1>1. CASE onNewConn(c)
  <2>1. <<c>> \o conns \in Seq(Conns)
    OBVIOUS
  <2> QED
    BY <1>1, <2>1 DEF onNewConn
<1>2. CASE newSession(c) \/ onInitializedConn(c) \/ CloseOldConns(c)
  BY <1>2 DEF newSession, onInitializedConn, CloseOldConns
<1>3. CASE onClosedConn(c)
  <2>1. PICK i \in DOMAIN conns : conns' = Without(conns, i)
    BY <1>3, Zenon DEF onClosedConn, Without
  <2>2. conns' \in Seq(Conns)
    BY <2>1, RemoveElements
  <2> QED
    BY <1>3, <2>2 DEF onClosedConn
<1>4. CASE lookAtConn(c)
  <2>1. Head(todo) \in Conns /\ Tail(todo) \in Seq(Conns)
    BY <1>4, TailElements DEF lookAtConn
  <2>2. target' \in Conns \cup {None}
    BY <1>4, <2>1 DEF lookAtConn
  <2> QED
    BY <1>4, <2>1, <2>2 DEF lookAtConn
<1>5. CASE Close(c) \/ closedOldConns(c)
  BY <1>5 DEF Close, closedOldConns
<1>6. CASE Initialize(c) \/ recvFails(c) \/ handlerFails(c) \/ closeSession(c)
  BY <1>6 DEF Initialize, recvFails, handlerFails, closeSession
<1>7. CASE handle(c) \/ handled(c) \/ leave(c) \/ reauthFails(c)
  BY <1>7, Zenon DEF handle, handled, leave, reauthFails
<1> QED
  BY <1>1, <1>2, <1>3, <1>4, <1>5, <1>6, <1>7 DEF connStep, locking

(* Mutex and list. *)
LEMMA ListStep ==
    ASSUME ConnsInv, NEW c \in Conns, connStep(c)
    PROVE  Locked' /\ Listed'
<1>a. ConnsOK /\ Locked /\ Listed
  BY DEF ConnsInv
<1> USE ConnsAssumption DEF Locked, Listed, Goto
<1>1. CASE onNewConn(c)
  <2>1. Range(<<c>> \o conns) = {c} \cup Range(conns)
    <3> DEFINE e == <<c>>
    <3>1. e \in Seq(Conns) /\ Range(e) = {c}
      BY DEF Range
    <3> HIDE DEF e
    <3>2. Range(e \o conns) = {c} \cup Range(conns)
      BY <1>a, <3>1, ConcatElements DEF ConnsOK
    <3> QED
      BY <3>2 DEF e
  <2>2. /\ pc' = [pc EXCEPT ![c] = "start"] /\ Range(conns') = {c} \cup Range(conns)
        /\ lock' = lock /\ initialized' = initialized
    BY <1>1, <2>1 DEF onNewConn
  <2> QED
    BY <1>a, <2>2 DEF ConnsOK
<1>2. CASE newSession(c) \/ onInitializedConn(c) \/ CloseOldConns(c)
  BY <1>a, <1>2 DEF newSession, onInitializedConn, CloseOldConns, ConnsOK
<1>3. CASE onClosedConn(c)
  <2>1. PICK i \in DOMAIN conns : conns[i] = c /\ conns' = Without(conns, i)
    BY <1>3, Zenon DEF onClosedConn, Without
  <2>2. Range(conns) \ {c} \subseteq Range(conns')
    BY <1>a, <2>1, RemoveElements DEF ConnsOK
  <2> QED
    BY <1>a, <1>3, <2>2 DEF onClosedConn, ConnsOK
<1>4. CASE lookAtConn(c) \/ recvFails(c)
  BY <1>a, <1>4 DEF lookAtConn, recvFails
<1>5. CASE Close(c)
  BY <1>a, <1>5 DEF Close, ConnsOK
<1>6. CASE closedOldConns(c)
  BY <1>a, <1>6 DEF closedOldConns, ConnsOK
<1>7. CASE Initialize(c) \/ handlerFails(c) \/ closeSession(c)
  BY <1>a, <1>7 DEF Initialize, handlerFails, closeSession, ConnsOK
<1>8. CASE handle(c) \/ handled(c) \/ leave(c) \/ reauthFails(c)
  BY <1>a, <1>8 DEF handle, handled, leave, reauthFails, ConnsOK
<1> QED
  BY <1>1, <1>2, <1>3, <1>4, <1>5, <1>6, <1>7, <1>8 DEF connStep, locking

(* The rule of CloseOldConns: no two connections are served at a time. *)
LEMMA OneActiveStep ==
    ASSUME ConnsInv, NEW c \in Conns, connStep(c)
    PROVE  OneActive'
<1>a. ConnsOK /\ Locked /\ Listed /\ OneActive
  BY DEF ConnsInv
<1> USE ConnsAssumption DEF Goto
<1>1. ASSUME \A d \in Conns : active(d)' => active(d),
             \A d \in Conns : pc'[d] = "closing" => pc[d] = "closing",
             UNCHANGED <<target, todo>>
      PROVE  OneActive'
  BY <1>a, <1>1 DEF OneActive
<1>2. CASE onNewConn(c) \/ newSession(c) \/ onInitializedConn(c) \/ onClosedConn(c)
  <2>1. UNCHANGED <<target, todo, established>>
    BY <1>2 DEF onNewConn, newSession, onInitializedConn, onClosedConn
  <2>2. \A d \in Conns : pc'[d] \in {"serve", "busy", "closing"} => pc'[d] = pc[d]
    BY <1>a, <1>2 DEF onNewConn, newSession, onInitializedConn, onClosedConn, ConnsOK
  <2> QED
    BY <1>1, <2>1, <2>2 DEF active
<1>3. CASE CloseOldConns(c)
  <2>1. \A d \in Conns : active(d)' => active(d) /\ d \in Range(todo')
    BY <1>a, <1>3 DEF CloseOldConns, Listed, active, ConnsOK
  <2> QED
    BY <1>a, <2>1 DEF OneActive
<1>4. CASE lookAtConn(c)
  <2>1. \A d \in Conns : active(d)' = active(d) /\ pc'[d] = pc[d]
    BY <1>4 DEF lookAtConn, active
  <2>2. \A d \in Conns : pc[d] = "closing" => d = c
    BY <1>a, <1>4 DEF lookAtConn, Locked
  <2>3. Range(todo) = {Head(todo)} \cup Range(todo')
    BY <1>a, <1>4, TailElements DEF lookAtConn, ConnsOK
  <2>4. ASSUME NEW d \in Conns, active(d), d # c PROVE d = target' \/ d \in Range(todo')
    <3>1. d \in Range(todo) /\ d \in initialized
      BY <1>a, <1>4, <2>4 DEF lookAtConn, OneActive, Listed, active
    <3>2. d = Head(todo) => target' = d
      BY <1>4, <2>4, <3>1, RetrievalAssumption DEF lookAtConn, active
    <3> QED
      BY <2>3, <3>1, <3>2
  <2> QED
    BY <1>a, <2>1, <2>2, <2>4 DEF OneActive
<1>5. CASE Close(c)
  <2>1. /\ target \in Conns /\ pc' = [pc EXCEPT ![target] = "exit"]
        /\ todo' = todo /\ established' = established
    BY <1>a, <1>5 DEF Close, ConnsOK
  <2>2. \A d \in Conns : active(d)' => active(d) /\ d # target
    BY <1>a, <2>1 DEF active, ConnsOK
  <2>3. \A d \in Conns : pc'[d] = "closing" => pc[d] = "closing"
    BY <1>a, <2>1 DEF ConnsOK
  <2> QED
    BY <1>a, <2>1, <2>2, <2>3 DEF OneActive
<1>6. CASE closedOldConns(c)
  <2>1. \A d \in Conns : active(d) => d = c
    BY <1>a, <1>6, EmptyElements DEF closedOldConns, OneActive
  <2>2. \A d \in Conns : active(d)' => d = c
    BY <1>a, <1>6, <2>1 DEF closedOldConns, active, ConnsOK
  <2>3. \A d \in Conns : pc'[d] # "closing"
    BY <1>a, <1>6 DEF closedOldConns, Locked, ConnsOK
  <2> QED
    BY <2>2, <2>3 DEF OneActive
<1>7. CASE Initialize(c) \/ recvFails(c) \/ handlerFails(c) \/ closeSession(c)
  <2>1. \A d \in Conns : active(d)' => active(d)
    BY <1>a, <1>7 DEF Initialize, recvFails, handlerFails, closeSession, active, ConnsOK
  <2>2. \A d \in Conns : pc'[d] = "closing" => pc[d] = "closing"
    BY <1>a, <1>7 DEF Initialize, recvFails, handlerFails, closeSession, ConnsOK
  <2> QED
    BY <1>1, <1>7, <2>1, <2>2 DEF Initialize, recvFails, handlerFails, closeSession
<1>8. CASE handle(c) \/ handled(c) \/ leave(c) \/ reauthFails(c)
  <2>1. \A d \in Conns : active(d)' => active(d)
    BY <1>a, <1>8 DEF handle, handled, leave, reauthFails, active, ConnsOK
  <2>2. \A d \in Conns : pc'[d] = "closing" => pc[d] = "closing"
    BY <1>a, <1>8 DEF handle, handled, leave, reauthFails, ConnsOK
  <2> QED
    BY <1>1, <1>8, <2>1, <2>2 DEF handle, handled, leave, reauthFails
<1> QED
  BY <1>2, <1>3, <1>4, <1>5, <1>6, <1>7, <1>8 DEF connStep, locking

(* The steps together. *)
LEMMA ConnsStep == ConnsInv /\ [RNext]_rvars => ConnsInv'
<1> SUFFICES ASSUME ConnsInv, [RNext]_rvars PROVE ConnsInv'
  OBVIOUS
<1>1. CASE UNCHANGED vars \/ Halt \/ Halted
  <2>1. UNCHANGED <<pc, lock, conns, initialized, established, eof, todo, target>>
    BY <1>1 DEF vars, Halt, Halted
  <2> QED
    BY <2>1 DEF ConnsInv, ConnsOK, Locked, Listed, OneActive, active
<1>2. ASSUME NEW c \in Conns, connStep(c) PROVE ConnsInv'
  <2>1. ConnsOK'
    BY <1>2, ConnsOKStep DEF ConnsInv
  <2> QED
    BY <1>2, <2>1, ListStep, OneActiveStep DEF ConnsInv
<1> QED
  BY <1>1, <1>2, ListenerStep

(* No connection yet. *)
LEMMA InitConns == RInit => ConnsInv
  BY DEF RInit, Init, ConnsInv, ConnsOK, Locked, Listed, OneActive, active, PCs

(* What the sequence numbers rest on: at most one connection of the client *)
(* is served with a valid session, since CloseOldConns, under the mutex of *)
(* the listener, has every older one leave its loop before a new one       *)
(* enters its own.                                                         *)
THEOREM OneServed ==
    RSpec => [](\A c, d \in Conns : active(c) /\ active(d) => c = d)
<1>1. ConnsInv => \A c, d \in Conns : active(c) /\ active(d) => c = d
  BY DEF ConnsInv, OneActive
<1> QED
  BY <1>1, InitConns, ConnsStep, PTL DEF RSpec

-----------------------------------------------------------------------------
(* Types of spool, wire and client. *)
LEMMA TypesStep == RInv /\ [RNext]_rvars => SpoolOK' /\ WireOK'
<1> SUFFICES ASSUME RInv, [RNext]_rvars PROVE SpoolOK' /\ WireOK'
  OBVIOUS
<1>a. SpoolOK /\ WireOK
  BY DEF RInv
<1> USE ConnsAssumption DEF SpoolOK, WireOK, NoCmd, Empty
<1>1. CASE UNCHANGED <<spool, stored, retrSeq, cmd, advance, checked, request, reply, cur, seq>>
  BY <1>a, <1>1
<1>2. CASE doStore
  <2>1. Append(spool, stored + 1) \in Seq(Nat)
    BY <1>a, AppendElements
  <2> QED
    BY <1>a, <1>2, <2>1 DEF doStore, serverVars, wireVars, clientVars
<1>3. CASE doFetch
  BY <1>a, <1>3 DEF doFetch, spoolVars, serverVars
<1>4. CASE onReply
  <2>1. cur \in Conns /\ Tail(reply[cur]) \in Seq([seq : Int, msg : Nat])
    BY <1>a, <1>4, TailElements DEF onReply
  <2>2. reply' \in [Conns -> Seq([seq : Int, msg : Nat])]
    BY <1>a, <1>4, <2>1 DEF onReply
  <2>3. cur' \in Conns \cup {None} /\ seq' \in Nat
    BY <1>a, <1>4 DEF onReply
  <2> QED
    BY <1>a, <1>4, <2>2, <2>3, Zenon DEF onReply, spoolVars, serverVars
<1>5. CASE disconnect \/ providerHalts \/ providerHalted \/ UNCHANGED rvars
  BY <1>a, <1>5 DEF disconnect, providerHalts, providerHalted, rvars, spoolVars, serverVars,
     wireVars, clientVars
<1>6. ASSUME NEW c \in Conns,
             \/ connWork(c)
             \/ reauthFails(c) /\ UNCHANGED <<spoolVars, serverVars, wireVars, clientVars>>
      PROVE  SpoolOK' /\ WireOK'
  BY <1>1, <1>6 DEF connWork, spoolVars, serverVars, wireVars, clientVars
<1>7. ASSUME NEW c \in Conns, connect(c) \/ onCommand(c) \/ connectionLost(c)
      PROVE  SpoolOK' /\ WireOK'
  <2>1. CASE connect(c)
    BY <1>a, <2>1 DEF connect, spoolVars, serverVars, wireVars, clientVars
  <2>2. CASE onCommand(c)
    BY <1>a, <2>2 DEF onCommand, spoolVars, wireVars, clientVars
  <2>3. CASE connectionLost(c)
    BY <1>a, <2>3 DEF connectionLost, spoolVars, serverVars, clientVars
  <2> QED BY <1>7, <2>1, <2>2, <2>3, Zenon
<1>8. ASSUME NEW c \in Conns, onRetrieveMessage(c) PROVE SpoolOK' /\ WireOK'
  <2>1. retrSeq' \in [Conns -> Nat] /\ advance' \in [Conns -> BOOLEAN]
    <3>1. retrSeq' \in [Conns -> Nat]
      <4>1. \/ retrSeq' = retrSeq
            \/ /\ cmd[c] \in {retrSeq[c], retrSeq[c] + 1}
               /\ retrSeq' = [retrSeq EXCEPT ![c] = cmd[c]]
        BY <1>8 DEF onRetrieveMessage
      <4>2. retrSeq \in [Conns -> Nat]
        BY <1>a
      <4>3. retrSeq' = retrSeq \/ \E n \in Nat : retrSeq' = [retrSeq EXCEPT ![c] = n]
        BY <4>1, <4>2
      <4> QED
        BY <4>2, <4>3
    <3>2. advances(c) \in BOOLEAN
      BY DEF advances
    <3>3. advance' = advance \/ advance' = [advance EXCEPT ![c] = advances(c)]
      BY <1>8 DEF onRetrieveMessage
    <3>4. advance' \in [Conns -> BOOLEAN]
      BY <1>a, <3>2, <3>3, Zenon
    <3> QED
      BY <3>1, <3>4
  <2>2. cmd' \in [Conns -> Int] /\ checked' \subseteq Conns
    BY <1>a, <1>8 DEF onRetrieveMessage
  <2> QED
    BY <1>a, <1>8, <2>1, <2>2, Zenon DEF onRetrieveMessage, spoolVars, wireVars, clientVars
<1>9. ASSUME NEW c \in Conns, Get(c) PROVE SpoolOK' /\ WireOK'
  <2>1. spool' \in Seq(Nat) /\ (spool' # <<>> => Head(spool') \in Nat)
    <3>1. spool' = spool \/ (spool # <<>> /\ spool' = Tail(spool))
      BY <1>9 DEF Get, afterGet
    <3>2. spool # <<>> => Tail(spool) \in Seq(Nat)
      BY <1>a, TailElements
    <3>3. spool' \in Seq(Nat)
      BY <1>a, <3>1, <3>2, Zenon
    <3> QED
      BY <3>3, TailElements
  <2> DEFINE r == [seq |-> cmd[c], msg |-> IF spool' = <<>> THEN Empty ELSE Head(spool')]
  <2>2. r \in [seq : Int, msg : Nat]
    BY <1>a, <2>1
  <2>3. reply' = [reply EXCEPT ![c] = Append(reply[c], r)] \/ reply' = reply
    BY <1>9 DEF Get
  <2> HIDE DEF r
  <2>4. Append(reply[c], r) \in Seq([seq : Int, msg : Nat])
    BY <1>a, <2>2, AppendElements
  <2>5. reply' \in [Conns -> Seq([seq : Int, msg : Nat])]
    BY <1>a, <2>3, <2>4, ZenonT(60)
  <2>6. cmd' \in [Conns -> Int] /\ checked' \subseteq Conns
    BY <1>a, <1>9 DEF Get
  <2>7. UNCHANGED <<stored, retrSeq, advance, request, cur, seq>>
    BY <1>9 DEF Get, clientVars
  <2> QED
    BY <1>a, <2>1, <2>5, <2>6, <2>7
<1> QED
  BY <1>2, <1>3, <1>4, <1>5, <1>6, <1>7, <1>8, <1>9 DEF RNext, connHandler

-----------------------------------------------------------------------------
(* Sequence numbers and deletion, one lemma per kind of step. *)

(* The worker of a connection moves without touching spool, commands and   *)
(* client: what it starts to serve is fresh.                               *)
LEMMA PassiveStep ==
    ASSUME RInv, UNCHANGED <<spoolVars, serverVars, wireVars, clientVars>>,
           \A d \in Conns :
              /\ fresh(d)' => fresh(d)
              /\ pc'[d] = "none" <=> pc[d] = "none"
              /\ pc'[d] = "busy" <=> pc[d] = "busy"
              /\ active(d)' => active(d) \/ fresh(d)
              /\ pc[d] = "busy" /\ d \in established => d \in established'
    PROVE  SessionInv' /\ AtLeastOnce'
<1>a. SessionInv /\ AtLeastOnce /\ WireOK
  BY DEF RInv
<1> USE DEF spoolVars, serverVars, wireVars, clientVars
<1>1. AtLeastOnce'
  BY <1>a DEF AtLeastOnce
<1>2. CheckedActive'
  BY <1>a DEF SessionInv, CheckedActive, WireOK
<1>3. OneAtATime'
  BY <1>a, Zenon DEF SessionInv, OneAtATime
<1>4. FreshStart'
  BY <1>a DEF SessionInv, FreshStart
<1>5. InStep'
  <2> SUFFICES ASSUME NEW d \in Conns, active(d)'
               PROVE  /\ request[d] # NoCmd => inStep(d, request[d])
                      /\ cmd[d] # NoCmd /\ d \notin checked => inStep(d, cmd[d])
                      /\ d \in checked =>
                            cmd[d] = retrSeq[d] /\ (advance[d] = TRUE => headKnown)
                      /\ reply[d] # <<>> =>
                            /\ Head(reply[d]).seq = retrSeq[d]
                            /\ Head(reply[d]).msg # Empty =>
                                  spool # <<>> /\ Head(spool) = Head(reply[d]).msg
                      /\ cur = d /\ outstanding = FALSE => inStep(d, seq)
    BY Zenon DEF InStep, inStep, headKnown
  <2>1. CASE active(d)
    BY <1>a, <2>1 DEF SessionInv, InStep
  <2>2. CASE fresh(d)
    <3>1. d \notin checked
      BY <1>a, <2>2 DEF SessionInv, CheckedActive, fresh
    <3> QED
      BY <1>a, <2>2, <3>1 DEF SessionInv, FreshStart, inStep
  <2> QED
    BY <2>1, <2>2, Zenon
<1> QED
  BY <1>1, <1>2, <1>3, <1>4, <1>5 DEF SessionInv

(* What the workers do besides handling RetrieveMessage is such a step. *)
LEMMA WorkStep ==
    ASSUME RInv, NEW c \in Conns, connWork(c) \/ reauthFails(c),
           UNCHANGED <<spoolVars, serverVars, wireVars, clientVars>>
    PROVE  SessionInv' /\ AtLeastOnce'
<1>a. ConnsOK
  BY Zenon DEF RInv, ConnsInv
<1> USE <1>a, ConnsAssumption DEF ConnsOK, PCs, Goto, fresh, active
<1> DEFINE quiet ==
       \A d \in Conns :
          /\ fresh(d)' => fresh(d)
          /\ pc'[d] = "none" <=> pc[d] = "none"
          /\ pc'[d] = "busy" <=> pc[d] = "busy"
          /\ active(d)' => active(d) \/ fresh(d)
          /\ pc[d] = "busy" /\ d \in established => d \in established'
<1>1. CASE newSession(c) \/ onInitializedConn(c)
  <2>1. quiet
    BY <1>1 DEF newSession, onInitializedConn
  <2> QED
    BY <2>1, PassiveStep
<1>2. CASE CloseOldConns(c) \/ onClosedConn(c)
  <2>1. quiet
    BY <1>2 DEF CloseOldConns, onClosedConn
  <2> QED
    BY <2>1, PassiveStep
<1>3. CASE Initialize(c)
  <2>1. quiet
    BY <1>3 DEF Initialize
  <2> QED
    BY <2>1, PassiveStep
<1>4. CASE lookAtConn(c) \/ Close(c)
  <2>1. quiet
    BY <1>4 DEF lookAtConn, Close
  <2> QED
    BY <2>1, PassiveStep
<1>5. CASE closedOldConns(c) \/ leave(c) \/ closeSession(c) \/ reauthFails(c)
  <2>1. quiet
    BY <1>5 DEF closedOldConns, leave, closeSession, reauthFails
  <2> QED
    BY <2>1, PassiveStep
<1> QED
  BY <1>1, <1>2, <1>3, <1>4, <1>5 DEF connWork, locking

(* A message is stored behind the head of the spool. *)
LEMMA StoreStep == RInv /\ doStore => SessionInv' /\ AtLeastOnce'
<1> SUFFICES ASSUME RInv, doStore PROVE SessionInv' /\ AtLeastOnce'
  OBVIOUS
<1>a. SessionInv /\ AtLeastOnce /\ SpoolOK
  BY DEF RInv
<1>1. /\ UNCHANGED <<pc, established, removed, serverVars, wireVars, clientVars>>
      /\ spool' = Append(spool, stored + 1)
  BY DEF doStore, vars
<1>2. spool # <<>> => spool' # <<>> /\ Head(spool') = Head(spool)
  BY <1>a, <1>1 DEF SpoolOK
<1> USE <1>1 DEF serverVars, wireVars, clientVars
<1>3. AtLeastOnce' /\ CheckedActive'
  BY <1>a, Zenon DEF AtLeastOnce, SessionInv, CheckedActive
<1>4. OneAtATime' /\ FreshStart'
  BY <1>a DEF SessionInv, OneAtATime, FreshStart, fresh
<1>5. InStep'
  BY <1>a, <1>2 DEF SessionInv, InStep, active, inStep, headKnown
<1> QED
  BY <1>3, <1>4, <1>5 DEF SessionInv

(* The client asks with its own sequence number, in step by InStep. *)
LEMMA FetchStep == RInv /\ doFetch => SessionInv' /\ AtLeastOnce'
<1> SUFFICES ASSUME RInv, doFetch PROVE SessionInv' /\ AtLeastOnce'
  OBVIOUS
<1>a. SessionInv /\ AtLeastOnce /\ WireOK
  BY DEF RInv
<1>1. /\ UNCHANGED <<pc, established, spool, removed, serverVars, reply, cur, seq, received>>
      /\ cur \in Conns /\ outstanding = FALSE /\ outstanding' = TRUE
      /\ request' = [request EXCEPT ![cur] = seq]
  <2>1. cur \in Conns /\ ~outstanding
    BY <1>a DEF doFetch, WireOK
  <2> QED
    BY <2>1 DEF doFetch, vars, spoolVars
<1>2. request \in [Conns -> Int] /\ seq \in Nat
  BY <1>a DEF WireOK
<1> USE <1>1 DEF serverVars
<1>3. AtLeastOnce' /\ CheckedActive'
  BY <1>a DEF AtLeastOnce, SessionInv, CheckedActive
<1>4. OneAtATime'
  BY <1>a, <1>2 DEF SessionInv, OneAtATime
<1>5. FreshStart'
  BY <1>a, <1>2, ZenonT(60) DEF SessionInv, FreshStart, OneAtATime, fresh
<1>6. InStep'
  BY <1>a, <1>2 DEF SessionInv, InStep, active, inStep, headKnown
<1> QED
  BY <1>3, <1>4, <1>5, <1>6 DEF SessionInv

(* The client counts a message when it has it. *)
LEMMA ReplyStep == RInv /\ onReply => SessionInv' /\ AtLeastOnce'
<1> SUFFICES ASSUME RInv, onReply PROVE SessionInv' /\ AtLeastOnce'
  OBVIOUS
<1>a. SessionInv /\ AtLeastOnce /\ WireOK
  BY DEF RInv
<1> DEFINE r == Head(reply[cur])
<1>1. /\ UNCHANGED <<pc, established, spool, removed, serverVars, request>>
      /\ cur \in Conns /\ reply[cur] # <<>>
      /\ reply' = [reply EXCEPT ![cur] = Tail(reply[cur])]
      /\ received \subseteq received'
  BY <1>a, Zenon DEF onReply, vars, spoolVars, WireOK
<1>2. /\ reply \in [Conns -> Seq([seq : Int, msg : Nat])] /\ seq \in Nat
      /\ Tail(reply[cur]) = <<>>
  BY <1>a, <1>1, Zenon DEF WireOK, SessionInv, OneAtATime
<1>3. \/ cur' = None
      \/ /\ cur' = cur /\ r.seq = seq
         /\ seq' = IF r.msg # Empty THEN seq + 1 ELSE seq
         /\ r.msg # Empty => r.msg \in received'
  BY Zenon DEF onReply, counts
<1>4. request[cur] = NoCmd /\ cmd[cur] = NoCmd /\ ~fresh(cur)
  BY <1>a, <1>1 DEF SessionInv, OneAtATime, FreshStart
<1> HIDE DEF r
<1> USE <1>1 DEF serverVars
<1>5. AtLeastOnce' /\ CheckedActive'
  BY <1>a, Zenon DEF AtLeastOnce, SessionInv, CheckedActive
<1>6. OneAtATime'
  BY <1>a, <1>2, <1>3, <1>4, ConnsAssumption, Zenon DEF SessionInv, OneAtATime
<1>7. FreshStart'
  BY <1>a, <1>2, <1>3, <1>4, ConnsAssumption, ZenonT(60) DEF SessionInv, FreshStart, fresh
<1>8. ASSUME NEW d \in Conns, active(d)', cur' = d, outstanding' = FALSE
      PROVE  inStep(d, seq)'
  <2>1. d = cur /\ active(d)
    BY <1>3, <1>8, ConnsAssumption DEF active
  <2>2. r.seq = retrSeq[d] /\ (r.msg # Empty => spool # <<>> /\ Head(spool) = r.msg)
    BY <1>a, <2>1 DEF SessionInv, InStep, r
  <2> QED
    BY <1>3, <1>8, <2>1, <2>2, ConnsAssumption DEF inStep, headKnown
<1>9. InStep'
  <2>1. \A d \in Conns : active(d)' => active(d)
    BY DEF active
  <2>2. headKnown => headKnown'
    BY DEF headKnown
  <2> QED
    BY <1>a, <1>2, <1>4, <1>8, <2>1, <2>2, Zenon DEF SessionInv, InStep, inStep
<1> QED
  BY <1>5, <1>6, <1>7, <1>9 DEF SessionInv

(* A client that has disconnected asks nothing. *)
LEMMA DisconnectStep == RInv /\ disconnect => SessionInv' /\ AtLeastOnce'
<1> SUFFICES ASSUME RInv, disconnect PROVE SessionInv' /\ AtLeastOnce'
  OBVIOUS
<1>a. SessionInv /\ AtLeastOnce
  BY DEF RInv
<1>1. /\ UNCHANGED <<pc, established, spool, removed, serverVars, wireVars, received>>
      /\ cur' = None
  BY DEF disconnect, vars, spoolVars
<1> USE <1>1, ConnsAssumption DEF serverVars, wireVars
<1>2. AtLeastOnce' /\ CheckedActive'
  BY <1>a, Zenon DEF AtLeastOnce, SessionInv, CheckedActive
<1>3. OneAtATime' /\ FreshStart'
  BY <1>a, Zenon DEF SessionInv, OneAtATime, FreshStart, fresh
<1>4. InStep'
  BY <1>a DEF SessionInv, InStep, active, inStep, headKnown
<1> QED
  BY <1>2, <1>3, <1>4 DEF SessionInv

(* A new connection starts from 0 on both sides. *)
LEMMA ConnectStep ==
    ASSUME RInv, NEW c \in Conns, connect(c)
    PROVE  SessionInv' /\ AtLeastOnce'
<1>a. SessionInv /\ AtLeastOnce /\ ConnsOK
  BY DEF RInv, ConnsInv
<1>1. /\ UNCHANGED <<established, spool, removed, serverVars, wireVars, received>>
      /\ pc[c] = "none" /\ pc' = [pc EXCEPT ![c] = "start"]
      /\ cur = None /\ cur' = c /\ seq' = 0
  BY DEF connect, onNewConn, Goto, spoolVars
<1>2. pc \in [Conns -> PCs]
  BY <1>a DEF ConnsOK
<1>3. fresh(c) /\ \A d \in Conns : d # c => pc'[d] = pc[d]
  BY <1>1, <1>2 DEF fresh
<1>4. pc'[c] = "start"
  BY <1>1, <1>2
<1> USE <1>1, ConnsAssumption DEF serverVars, wireVars
<1>5. AtLeastOnce'
  BY <1>a DEF AtLeastOnce
<1>6. CheckedActive'
  BY <1>a, <1>3 DEF SessionInv, CheckedActive
<1>7. OneAtATime'
  BY <1>a, <1>3, <1>4, ZenonT(60) DEF SessionInv, OneAtATime, FreshStart
<1>8. FreshStart'
  BY <1>a, <1>3, <1>4 DEF SessionInv, FreshStart, fresh
<1>9. InStep'
  BY <1>a, <1>3, <1>4, ZenonT(60) DEF SessionInv, InStep, active, inStep, headKnown
<1> QED
  BY <1>5, <1>6, <1>7, <1>8, <1>9 DEF SessionInv

(* The handler takes the request over from the wire. *)
LEMMA CommandStep ==
    ASSUME RInv, NEW c \in Conns, onCommand(c)
    PROVE  SessionInv' /\ AtLeastOnce'
<1>a. SessionInv /\ AtLeastOnce /\ ConnsOK /\ WireOK
  BY DEF RInv, ConnsInv
<1>1. /\ UNCHANGED <<established, spool, removed, retrSeq, advance, checked, reply, clientVars>>
      /\ pc[c] = "serve" /\ pc' = [pc EXCEPT ![c] = "busy"]
      /\ request[c] # NoCmd /\ cmd' = [cmd EXCEPT ![c] = request[c]]
      /\ request' = [request EXCEPT ![c] = NoCmd]
  BY DEF onCommand, handle, Goto, spoolVars
<1>2. /\ pc \in [Conns -> PCs] /\ cmd \in [Conns -> Int] /\ request \in [Conns -> Int]
  BY <1>a, Zenon DEF ConnsOK, WireOK
<1>3. /\ pc'[c] = "busy" /\ cmd'[c] = request[c] /\ request'[c] = NoCmd
      /\ \A d \in Conns : d # c => pc'[d] = pc[d] /\ cmd'[d] = cmd[d] /\ request'[d] = request[d]
  BY <1>1, <1>2
<1>4. c \notin checked
  BY <1>a, <1>1 DEF SessionInv, CheckedActive
<1> USE <1>1, <1>3 DEF clientVars
<1>5. AtLeastOnce'
  BY <1>a DEF AtLeastOnce
<1>6. CheckedActive'
  BY <1>a, <1>4, Zenon DEF SessionInv, CheckedActive, WireOK
<1>7. OneAtATime'
  BY <1>a DEF SessionInv, OneAtATime
<1>8. FreshStart'
  BY <1>a, ZenonT(60) DEF SessionInv, FreshStart, fresh
<1>9. InStep'
  BY <1>a, <1>4 DEF SessionInv, InStep, OneAtATime, active, inStep, headKnown
<1> QED
  BY <1>5, <1>6, <1>7, <1>8, <1>9 DEF SessionInv

(* The handler advances only if the head of the spool has been received. *)
LEMMA RetrieveStep ==
    ASSUME RInv, NEW c \in Conns, onRetrieveMessage(c)
    PROVE  SessionInv' /\ AtLeastOnce'
<1>a. SessionInv /\ AtLeastOnce /\ ConnsOK /\ WireOK
  BY DEF RInv, ConnsInv
<1>1. UNCHANGED <<spool, removed, wireVars, clientVars>> /\ pc[c] = "busy" /\ c \notin checked
  BY DEF onRetrieveMessage, spoolVars
<1>2. cmd[c] # NoCmd /\ reply[c] = <<>> /\ request[c] = NoCmd
  BY <1>a, <1>1, Zenon DEF SessionInv, OneAtATime
<1> USE DEF wireVars, clientVars
<1>3. AtLeastOnce'
  BY <1>a, <1>1 DEF AtLeastOnce
<1>4. CASE cmd[c] \in {retrSeq[c], retrSeq[c] + 1} /\ c \in established
  <2>1. /\ UNCHANGED <<pc, established, cmd>> /\ checked' = checked \cup {c}
        /\ retrSeq' = [retrSeq EXCEPT ![c] = cmd[c]]
        /\ advance' = [advance EXCEPT ![c] = advances(c)]
    BY <1>4, Zenon DEF onRetrieveMessage, vars
  <2>2. /\ retrSeq'[c] = cmd[c] /\ advance'[c] = advances(c)
        /\ \A d \in Conns : d # c => retrSeq'[d] = retrSeq[d] /\ advance'[d] = advance[d]
    BY <1>a, <2>1 DEF WireOK
  <2>3. retrSeq[c] \in Nat /\ cmd[c] \in Int
    BY <1>a, Zenon DEF WireOK
  <2>4. CheckedActive'
    BY <1>a, <1>1, <1>4, <2>1, Zenon DEF SessionInv, CheckedActive
  <2>5. OneAtATime'
    BY <1>a, <1>1, <2>1, Zenon DEF SessionInv, OneAtATime
  <2>6. FreshStart'
    BY <1>a, <1>1, <2>1, <2>2 DEF SessionInv, FreshStart, fresh
  <2>7. advances(c) = TRUE => headKnown
    <3>1. inStep(c, cmd[c])
      BY <1>a, <1>1, <1>2, <1>4, Zenon DEF SessionInv, InStep, active
    <3> QED
      BY <2>3, <3>1 DEF inStep, advances
  <2>8. cur = c => outstanding # FALSE
    BY <1>a, <1>2, Zenon DEF SessionInv, OneAtATime
  <2>9. InStep'
    <3>1. /\ UNCHANGED <<spool, received, cur, seq, outstanding, request, reply, cmd>>
          /\ c \in checked' /\ \A d \in Conns : active(d)' => active(d)
      BY <1>1, <2>1, Zenon DEF active
    <3>2. headKnown' = headKnown
      BY <3>1, Zenon DEF headKnown
    <3>3. advance'[c] = TRUE => headKnown'
      BY <2>2, <2>7, <3>2
    <3>4. \A d \in Conns : d # c => (d \in checked' <=> d \in checked)
      BY <2>1, Zenon
    <3>5. ASSUME NEW d \in Conns, active(d)', d # c
          PROVE  /\ request'[d] # NoCmd => inStep(d, request[d])'
                 /\ cmd'[d] # NoCmd /\ d \notin checked' => inStep(d, cmd[d])'
                 /\ d \in checked' =>
                       cmd'[d] = retrSeq'[d] /\ (advance'[d] = TRUE => headKnown')
                 /\ reply'[d] # <<>> =>
                       /\ Head(reply'[d]).seq = retrSeq'[d]
                       /\ Head(reply'[d]).msg # Empty =>
                             spool' # <<>> /\ Head(spool') = Head(reply'[d]).msg
                 /\ cur' = d /\ outstanding' = FALSE => inStep(d, seq)'
      BY <1>a, <2>2, <3>1, <3>2, <3>4, <3>5, Zenon DEF SessionInv, InStep, inStep
    <3> QED
      BY <1>2, <2>2, <2>8, <3>1, <3>3, <3>5, Zenon DEF InStep
  <2> QED
    BY <1>3, <2>4, <2>5, <2>6, <2>9 DEF SessionInv
<1>5. CASE ~(cmd[c] \in {retrSeq[c], retrSeq[c] + 1} /\ c \in established)
  <2>1. /\ pc' = [pc EXCEPT ![c] = "exit"] /\ checked' = checked
        /\ cmd' = [cmd EXCEPT ![c] = NoCmd]
        /\ \E broken \in SUBSET {c} : established' = established \ broken
    BY <1>5 DEF onRetrieveMessage, handlerFails, Goto
  <2>2. /\ pc'[c] = "exit" /\ cmd'[c] = NoCmd
        /\ \A d \in Conns : d # c => /\ pc'[d] = pc[d] /\ cmd'[d] = cmd[d]
                                     /\ d \in established' <=> d \in established
    BY <1>a, <2>1, Zenon DEF ConnsOK, WireOK
  <2>3. \A d \in Conns : d # c => retrSeq'[d] = retrSeq[d] /\ advance'[d] = advance[d]
    BY <1>a, Zenon DEF onRetrieveMessage, WireOK
  <2>4. CheckedActive'
    BY <1>a, <1>1, <2>1, <2>2, Zenon DEF SessionInv, CheckedActive, WireOK
  <2>5. OneAtATime'
    BY <1>a, <1>1, <1>2, <2>2, Zenon DEF SessionInv, OneAtATime
  <2>6. FreshStart'
    BY <1>a, <1>1, <2>2, <2>3, Zenon DEF SessionInv, FreshStart, fresh
  <2>7. InStep'
    <3> SUFFICES ASSUME NEW d \in Conns, active(d)'
                 PROVE  /\ request[d] # NoCmd => inStep(d, request[d])
                        /\ cmd[d] # NoCmd /\ d \notin checked => inStep(d, cmd[d])
                        /\ d \in checked => cmd[d] = retrSeq[d] /\ (advance[d] = TRUE => headKnown)
                        /\ reply[d] # <<>> =>
                              /\ Head(reply[d]).seq = retrSeq[d]
                              /\ Head(reply[d]).msg # Empty =>
                                    spool # <<>> /\ Head(spool) = Head(reply[d]).msg
                        /\ cur = d /\ outstanding = FALSE => inStep(d, seq)
      <4>1. \A d \in Conns : active(d)' => d # c
        BY <2>2, Zenon DEF active
      <4>2. headKnown' = headKnown
        BY <1>1, Zenon DEF headKnown
      <4>3. \A d \in Conns : \A n : d # c => inStep(d, n)' = inStep(d, n)
        BY <2>3, <4>2, Zenon DEF inStep
      <4> QED
        BY <1>1, <2>1, <2>2, <2>3, <4>1, <4>2, <4>3, ZenonT(60) DEF InStep
    <3>1. active(d)
      BY <2>2 DEF active
    <3> QED
      BY <1>a, <3>1, Zenon DEF SessionInv, InStep
  <2> QED
    BY <1>3, <2>4, <2>5, <2>6, <2>7 DEF SessionInv
<1> QED
  BY <1>4, <1>5, ZenonT(60)

(* Get deletes at most the head of the spool, and that has been received;  *)
(* no other connection is served whose count it could upset.               *)
LEMMA GetStep ==
    ASSUME RInv, NEW c \in Conns, Get(c)
    PROVE  SessionInv' /\ AtLeastOnce'
<1>a. SessionInv /\ AtLeastOnce /\ ConnsOK /\ OneActive /\ WireOK /\ SpoolOK
  BY DEF RInv, ConnsInv
<1>1. /\ pc[c] = "busy" /\ c \in checked /\ checked' = checked \ {c}
      /\ cmd' = [cmd EXCEPT ![c] = NoCmd]
      /\ UNCHANGED <<retrSeq, request, cur, seq, outstanding, received>>
  BY Zenon DEF Get, clientVars
<1>2. active(c) /\ cmd[c] # NoCmd /\ reply[c] = <<>> /\ request[c] = NoCmd
  BY <1>a, <1>1, Zenon DEF SessionInv, CheckedActive, OneAtATime, active
<1>3. cmd[c] = retrSeq[c] /\ (advance[c] = TRUE => headKnown)
  BY <1>a, <1>1, <1>2 DEF SessionInv, InStep
<1>4. \A d \in Conns : d # c => ~active(d)
  BY <1>a, <1>2 DEF OneActive
<1>5. \/ /\ pc' = [pc EXCEPT ![c] = "serve"] /\ established' = established
         /\ reply' = [reply EXCEPT ![c] = Append(reply[c],
               [seq |-> cmd[c], msg |-> IF spool' = <<>> THEN Empty ELSE Head(spool')])]
      \/ /\ pc' = [pc EXCEPT ![c] = "exit"] /\ reply' = reply
         /\ \E broken \in SUBSET {c} : established' = established \ broken
  BY Zenon DEF Get, handled, handlerFails, Goto
<1>6. /\ pc'[c] \in {"serve", "exit"} /\ cmd'[c] = NoCmd
      /\ \A d \in Conns : d # c =>
            /\ pc'[d] = pc[d] /\ cmd'[d] = cmd[d] /\ reply'[d] = reply[d]
            /\ d \in established' <=> d \in established
  BY <1>a, <1>1, <1>5, Zenon DEF ConnsOK, WireOK
<1>7. AtLeastOnce'
  <2>1. Range(spool) \ Range(spool') \subseteq received
    <3>1. CASE advance[c] = TRUE /\ spool # <<>>
      <4>1. spool' = Tail(spool)
        BY <3>1 DEF Get, afterGet
      <4>2. Range(spool) = {Head(spool)} \cup Range(spool')
        BY <1>a, <3>1, <4>1, TailElements, Zenon DEF SpoolOK
      <4> QED
        BY <1>3, <3>1, <4>2, Zenon DEF headKnown
    <3>2. CASE ~(advance[c] = TRUE /\ spool # <<>>)
      <4>1. advance[c] \in BOOLEAN
        BY <1>a, ZenonT(60) DEF WireOK
      <4> QED
        BY <3>2, <4>1 DEF Get, afterGet
    <3> QED
      BY <3>1, <3>2, Zenon
  <2>2. removed' = removed \cup (Range(spool) \ Range(spool')) /\ received' = received
    BY <1>1 DEF Get
  <2> QED
    BY <1>a, <2>1, <2>2 DEF AtLeastOnce
<1>8. CheckedActive'
  BY <1>a, <1>1, <1>6, Zenon DEF SessionInv, CheckedActive, WireOK
<1>9. CASE pc'[c] = "exit"
  <2>1. reply'[c] = <<>>
    BY <1>a, <1>2, <1>5, <1>9, ZenonT(60) DEF ConnsOK
  <2>2. OneAtATime'
    BY <1>a, <1>1, <1>2, <1>6, <1>9, <2>1 DEF SessionInv, OneAtATime
  <2>3. FreshStart'
    BY <1>a, <1>1, <1>6, <1>9, Zenon DEF SessionInv, FreshStart, fresh
  <2>4. InStep'
    BY <1>4, <1>6, <1>9, Zenon DEF InStep, active
  <2> QED
    BY <1>7, <1>8, <2>2, <2>3, <2>4 DEF SessionInv
<1>10. CASE pc'[c] = "serve"
  <2> DEFINE m == IF spool' = <<>> THEN Empty ELSE Head(spool')
             r == [seq |-> cmd[c], msg |-> m]
  <2>1. reply'[c] = Append(reply[c], r)
    BY <1>a, <1>5, <1>10, Zenon DEF ConnsOK, WireOK
  <2>2. r.seq = cmd[c] /\ r.msg = m
    OBVIOUS
  <2> HIDE DEF r
  <2>3. reply'[c] # <<>> /\ Head(reply'[c]) = r /\ Tail(reply'[c]) = <<>>
    <3>1. Append(<<>>, r) # <<>> /\ Head(Append(<<>>, r)) = r /\ Tail(Append(<<>>, r)) = <<>>
      OBVIOUS
    <3> QED
      BY <1>2, <2>1, <3>1, Zenon
  <2>4. cur = c => outstanding # FALSE
    BY <1>a, <1>2, Zenon DEF SessionInv, OneAtATime
  <2>5. OneAtATime'
    BY <1>a, <1>1, <1>2, <1>6, <1>10, <2>3, <2>4, ZenonT(60) DEF SessionInv, OneAtATime
  <2>6. FreshStart'
    BY <1>a, <1>1, <1>6, <1>10, Zenon DEF SessionInv, FreshStart, fresh
  <2>7. InStep'
    <3>1. \A d \in Conns : active(d)' => d = c
      BY <1>4, <1>6, Zenon DEF active
    <3>2. /\ request'[c] = NoCmd /\ cmd'[c] = NoCmd /\ c \notin checked'
          /\ Head(reply'[c]).seq = retrSeq'[c]
          /\ ~(cur' = c /\ outstanding' = FALSE)
      BY <1>1, <1>2, <1>3, <1>6, <2>2, <2>3, <2>4, ZenonT(60)
    <3>3. Head(reply'[c]).msg # Empty => spool' # <<>> /\ Head(spool') = Head(reply'[c]).msg
      BY <2>2, <2>3
    <3> QED
      BY <3>1, <3>2, <3>3, Zenon DEF InStep
  <2> QED
    BY <1>7, <1>8, <2>5, <2>6, <2>7 DEF SessionInv
<1> QED
  BY <1>6, <1>9, <1>10

(* A session that fails is no longer active; it does not fail between the  *)
(* check of the handler and its spool transaction.                         *)
LEMMA LostStep ==
    ASSUME RInv, ~FailInGet, NEW c \in Conns, connectionLost(c)
    PROVE  SessionInv' /\ AtLeastOnce'
<1>a. SessionInv /\ AtLeastOnce /\ WireOK
  BY DEF RInv
<1>1. /\ UNCHANGED <<pc, spool, removed, serverVars, reply, clientVars>>
      /\ pc[c] \in {"serve", "busy"} /\ c \notin checked
      /\ established' = established \ {c}
      /\ request' = [request EXCEPT ![c] = NoCmd]
  BY DEF connectionLost, recvFails, spoolVars
<1>2. /\ request'[c] = NoCmd /\ \A d \in Conns : d # c => request'[d] = request[d]
      /\ ~active(c)' /\ \A d \in Conns : d # c => active(d)' = active(d)
  BY <1>a, <1>1 DEF WireOK, active
<1> USE <1>1, <1>2 DEF serverVars, clientVars
<1>3. AtLeastOnce' /\ CheckedActive'
  BY <1>a, Zenon DEF AtLeastOnce, SessionInv, CheckedActive
<1>4. OneAtATime'
  BY <1>a, Zenon DEF SessionInv, OneAtATime
<1>5. FreshStart'
  BY <1>a, Zenon DEF SessionInv, FreshStart, fresh
<1>6. InStep'
  BY <1>a, Zenon DEF SessionInv, InStep, inStep, headKnown
<1> QED
  BY <1>3, <1>4, <1>5, <1>6 DEF SessionInv

-----------------------------------------------------------------------------
(* Every step keeps the inductive invariant. *)
LEMMA RInvStep == ~FailInGet /\ RInv /\ [RNext]_rvars => RInv'
<1> SUFFICES ASSUME ~FailInGet, RInv, [RNext]_rvars PROVE RInv'
  OBVIOUS
<1>1. ConnsInv' /\ SpoolOK' /\ WireOK'
  BY ConnsStep, TypesStep DEF RInv
<1>2. SessionInv' /\ AtLeastOnce'
  <2>1. CASE doStore \/ doFetch \/ onReply \/ disconnect
    BY <2>1, StoreStep, FetchStep, ReplyStep, DisconnectStep
  <2>2. CASE providerHalts \/ providerHalted \/ UNCHANGED rvars
    <3>1. UNCHANGED <<pc, established, spoolVars, serverVars, wireVars, clientVars>>
      BY <2>2 DEF providerHalts, providerHalted, Halt, Halted, rvars, vars
    <3> QED
      BY <3>1, PassiveStep DEF fresh, active
  <2>3. ASSUME NEW c \in Conns, connect(c) \/ connHandler(c) \/ connectionLost(c)
        PROVE  SessionInv' /\ AtLeastOnce'
    BY <2>3, ConnectStep, CommandStep, RetrieveStep, GetStep, LostStep DEF connHandler
  <2>4. ASSUME NEW c \in Conns,
               \/ connWork(c)
               \/ reauthFails(c) /\ UNCHANGED <<spoolVars, serverVars, wireVars, clientVars>>
        PROVE  SessionInv' /\ AtLeastOnce'
    BY <2>4, WorkStep DEF connWork
  <2> QED
    BY <2>1, <2>2, <2>3, <2>4 DEF RNext
<1> QED
  BY <1>1, <1>2 DEF RInv

(* AtLeastOnce for any number of connections and messages: RetrieveMessage *)
(* deletes a message only after the client has received it, since          *)
(* CloseOldConns leaves one connection that is served.  It needs that no   *)
(* session fails between the handler's check and its spool transaction.    *)
THEOREM AtLeastOnceHolds ==
    ASSUME ~FailInGet
    PROVE  RSpec => []AtLeastOnce
<1>1. RInit => RInv
  <2> SUFFICES ASSUME RInit PROVE RInv
    OBVIOUS
  <2> USE DEF RInit, Init
  <2>1. ConnsInv
    BY InitConns
  <2>2. SpoolOK /\ WireOK
    BY DEF SpoolOK, WireOK, NoCmd
  <2>3. CheckedActive /\ OneAtATime /\ AtLeastOnce
    BY ConnsAssumption DEF CheckedActive, OneAtATime, AtLeastOnce
  <2>4. FreshStart /\ InStep
    BY ConnsAssumption DEF FreshStart, InStep, active
  <2> QED
    BY <2>1, <2>2, <2>3, <2>4 DEF RInv, SessionInv
<1>2. RInv /\ [RNext]_rvars => RInv'
  BY RInvStep
<1>3. RInv => AtLeastOnce
  BY DEF RInv
<1> QED
  BY <1>1, <1>2, <1>3, PTL DEF RSpec
=============================================================================
