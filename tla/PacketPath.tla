----------------------------- MODULE PacketPath -----------------------------
(***************************************************************************)
(* The way of a packet through a mix: an incoming connection puts it on    *)
(* the inbound queue, a crypto worker (server/internal/cryptoworker)       *)
(* unwraps it, the scheduler (server/internal/scheduler) delays it and     *)
(* hands it to the connection to its next hop (server/internal/outgoing).  *)
(* The decoy worker (server/internal/decoy) dispatches packets of its own. *)
(* The PKI worker (server/internal/pki) tells scheduler, listeners and     *)
(* decoy of new documents, and Server.halt (server/server.go) stops them   *)
(* one by one.                                                             *)
(*                                                                         *)
(* Packet structs come from a pool (server/internal/packet).  A struct     *)
(* that is disposed of is free to become another packet.  Of the outgoing  *)
(* connections the module has what the others see: the nodes in the        *)
(* connection table, and the packets that the connections own.             *)
(*                                                                         *)
(* A tick of the clock is absoluteMinimumDelay, 1 ms.                      *)
(***************************************************************************)
EXTENDS Integers, Sequences, FiniteSets, TLC, SequencesExt

CONSTANTS
    Hops,           \* nodes that packets are forwarded to
    Pkts,           \* packet structs
    None,
    Workers,        \* crypto workers
    Delays,         \* NodeDelays that senders ask for
    PKIMaxDelays,   \* MuMaxDelays that documents may contain
    AbsMaxDelay,    \* epochtime.Period * constants.NumMixKeys
    UnwrapSlack,    \* Debug.UnwrapDelay
    TimerSlack,     \* Debug.SchedulerSlack
    MaxBurst,       \* Debug.SchedulerMaxBurst
    QueueSize,      \* Debug.SchedulerQueueSize
    MaxTime,        \* bound on the clock
    MaxDocs         \* bound on new documents

ASSUME PacketPathAssumption ==
    /\ Delays \subseteq Nat /\ PKIMaxDelays \subseteq Nat
    /\ {AbsMaxDelay, MaxBurst, QueueSize} \subseteq Nat \ {0}
    /\ {UnwrapSlack, TimerSlack, MaxTime, MaxDocs} \subseteq Nat
    /\ None \notin Hops \cup Pkts \cup Nat

(* A timer that is set to math.MaxInt64. *)
Never == MaxTime + AbsMaxDelay + 1

VARIABLES
    now,            \* the clock
    pool,           \* free packet structs
    pkt,            \* pkt[p]: the fields of packet struct p
    linked,         \* the nodes in the connection table
    out,            \* packets that outgoing connections own
    inbound,        \* inboundPackets
    worker,         \* worker[w]: where crypto worker w is
    cur,            \* cur[w]: the packet it unwraps
    startAt,        \* startAt[w]: when it took that packet
    inCh,           \* the scheduler's input
    inOpen,         \* it has not been closed
    scheduler,      \* where the scheduler's worker is
    maxDelay,       \* its limit on delays
    timer,          \* when its timer fires
    nrBurst,        \* packets dispatched in this burst
    external,       \* SchedulerExternalMemoryQueue: the queue is in bolt
    head,           \* headPkt of the bolt queue
    queue,          \* the memory queue
    db,             \* the packets in the database of the bolt queue
    pki,            \* where the PKI worker is
    docs,           \* documents it has received
    decoy,          \* where the decoy worker is
    halt,           \* the component that Server.halt stops
    panic           \* why the process died

pktVars    == <<pool, pkt>>
workerVars == <<inbound, worker, cur, startAt>>
queueVars  == <<head, queue, db>>
schedVars  == <<scheduler, maxDelay, timer, nrBurst, external, queueVars>>
ctlVars    == <<pki, docs, decoy, halt, inOpen>>
vars       == <<now, pktVars, linked, out, workerVars, inCh, schedVars, ctlVars, panic>>

(* The fields of a packet that matter here, and a struct without a packet. *)
Packets  == [hop : Hops \cup {None}, recvAt : 0..MaxTime, nodeDelay : Delays \cup {None},
             delay : 0..AbsMaxDelay]
noPacket == [hop |-> None, recvAt |-> 0, nodeDelay |-> None, delay |-> 0]

(* The entries of the scheduler's queue: a packet and when it is due.  In  *)
(* the database are the fields of a packet, not its struct; the id keeps   *)
(* apart packets that are due at the same time.                            *)
Times   == 0..(MaxTime + AbsMaxDelay)
Entries == [pkt : Pkts, at : Times]
IDs     == 1..Cardinality(Pkts)
Records == [id : IDs, fields : Packets, at : Times]

TypeOK ==
    /\ now \in 0..MaxTime /\ pool \subseteq Pkts /\ pkt \in [Pkts -> Packets]
    /\ linked \subseteq Hops /\ out \subseteq Pkts
    /\ inbound \in Seq(Pkts) /\ inCh \in Seq(Pkts) /\ inOpen \in BOOLEAN
    /\ worker \in [Workers -> {"select", "unwrap", "halted"}]
    /\ cur \in [Workers -> Pkts \cup {None}] /\ startAt \in [Workers -> 0..MaxTime]
    /\ scheduler \in {"select", "loop", "halted"}
    /\ maxDelay \in 1..AbsMaxDelay /\ timer \in 0..Never /\ nrBurst \in 0..MaxBurst
    /\ external \in BOOLEAN /\ head \in Entries \cup {None} /\ queue \subseteq Entries
    /\ db \subseteq Records /\ Cardinality(queue) <= QueueSize
    /\ pki \in {"idle", "delay", "document", "halted"}
    /\ docs \in 0..MaxDocs /\ decoy \in {"wait", "run", "halted"}
    /\ halt \in {"no", "decoy", "listeners", "connector", "workers", "scheduler",
                 "pki", "done"}
    /\ panic \in {"no", "closed channel", "nil component"}

Init ==
    /\ now = 0 /\ pool = Pkts /\ pkt = [p \in Pkts |-> noPacket]
    /\ linked = {} /\ out = {}
    /\ inbound = <<>> /\ inCh = <<>> /\ inOpen = TRUE
    /\ worker = [w \in Workers |-> "select"]
    /\ cur = [w \in Workers |-> None] /\ startAt = [w \in Workers |-> 0]
    /\ scheduler = "select" /\ maxDelay = AbsMaxDelay /\ timer = Never /\ nrBurst = 0
    /\ external \in BOOLEAN /\ head = None /\ queue = {} /\ db = {}
    /\ pki = "idle" /\ docs = 0 /\ decoy = "wait" /\ halt = "no" /\ panic = "no"

-----------------------------------------------------------------------------
(* Packets and outgoing connections. *)

(* The structs of S are cleared and returned to the pool, and those in the *)
(* domain of v, which leave it, get fields.                                *)
Update(v, S) ==
    /\ pool' = (pool \cup S) \ DOMAIN v
    /\ pkt' = [p \in Pkts |-> CASE p \in DOMAIN v -> v[p] [] p \in S \ DOMAIN v -> noPacket
                                [] OTHER -> pkt[p]]

Dispose(S) == Update(<<>>, S)

Store(p, fields) == Update(p :> fields, {})

(* Packet p goes to the connection to node h, which needs nothing more of  *)
(* its fields here, or is disposed of because there is none.  A part of    *)
(* the caller's step, in which the structs in the domain of v get fields.  *)
DispatchPacket(p, h, v) ==
    IF h \in linked
    THEN out' = out \cup {p} /\ Update((p :> noPacket) @@ v, {})
    ELSE UNCHANGED out /\ Update(v, {p})

(* Connections come and go until the connector has been halted. *)
onConn(h) ==
    /\ halt \in {"no", "decoy", "listeners", "connector"}
    /\ linked' \in {linked \cup {h}, linked \ {h}}
    /\ UNCHANGED <<now, pktVars, out, workerVars, inCh, schedVars, ctlVars, panic>>

(* A connection has sent packet p or dropped it, and disposes of it. *)
connDisposes(p) ==
    /\ p \in out /\ out' = out \ {p}
    /\ Dispose({p})
    /\ UNCHANGED <<now, linked, workerVars, inCh, schedVars, ctlVars, panic>>

-----------------------------------------------------------------------------
(* Incoming connections and crypto workers. *)

(* NewWithID: structs of the pool are interchangeable. *)
newPacket == CHOOSE p \in pool : TRUE

(* A bound on the packets in the mix, those in the database included. *)
available == Cardinality(pool) > Cardinality(db)

(* What the workers and the scheduler leave alone. *)
elsewhere == <<now, linked, ctlVars>>

(* The listeners accept packets until they have been halted.  A packet     *)
(* beyond the rate of its client is disposed of at once: nothing changes.  *)
onSendPacket ==
    /\ halt \in {"no", "decoy", "listeners"} /\ available
    /\ Store(newPacket, [noPacket EXCEPT !.recvAt = now])
    /\ inbound' = Append(inbound, newPacket)
    /\ UNCHANGED <<elsewhere, out, panic, worker, cur, startAt, inCh, schedVars>>

(* A worker takes a packet, unless it has waited for too long. *)
takeInbound(w) ==
    /\ worker[w] = "select" /\ inbound # <<>>
    /\ inbound' = Tail(inbound)
    /\ LET p == Head(inbound)
       IN IF now - pkt[p].recvAt > UnwrapSlack
          THEN Dispose({p}) /\ UNCHANGED <<worker, cur, startAt>>
          ELSE /\ worker' = [worker EXCEPT ![w] = "unwrap"]
               /\ cur' = [cur EXCEPT ![w] = p]
               /\ startAt' = [startAt EXCEPT ![w] = now]
               /\ UNCHANGED <<pool, pkt>>
    /\ UNCHANGED <<elsewhere, out, panic, inCh, schedVars>>

(* The worker is done with its packet. *)
unwrapped(w) ==
    /\ worker[w] = "unwrap"
    /\ worker' = [worker EXCEPT ![w] = "select"]
    /\ cur' = [cur EXCEPT ![w] = None] /\ startAt' = [startAt EXCEPT ![w] = 0]
    /\ UNCHANGED <<elsewhere, out, inbound, schedVars>>

(* The packet does not unwrap, is a replay or is not a forward packet.     *)
(* Decoy.OnPacket disposes of the answer to a decoy as well.               *)
disposeUnwrapped(w) ==
    /\ unwrapped(w)
    /\ Dispose({cur[w]})
    /\ UNCHANGED <<panic, inCh>>

(* Fault: a sender that asks for no delay gets none. *)
unmixedDelay(d, dwell) == IF d > dwell THEN d - dwell ELSE IF d = 0 THEN 0 ELSE 1

(* What is left of delay d after a wait of dwell, at least one tick. *)
adjustedDelay(d, dwell) == IF d > dwell THEN d - dwell ELSE IF d = 0 THEN 1 - dwell ELSE 1

(* A forward packet, with its next hop and the delay that its sender asks  *)
(* for: too long a delay, or none for a packet that has waited, and it is  *)
(* dropped; otherwise the scheduler gets it.                               *)
forward(w, h, d) ==
    /\ unwrapped(w)
    /\ LET p == cur[w]
           dwell == startAt[w] - pkt[p].recvAt
       IN IF d > AbsMaxDelay \/ (d = 0 /\ dwell >= 1)
          THEN Dispose({p}) /\ UNCHANGED <<inCh, panic>>
          ELSE /\ Store(p, [pkt[p] EXCEPT !.hop = h, !.nodeDelay = d,
                                          !.delay = adjustedDelay(d, dwell)])
               /\ inCh' = Append(inCh, p)
               /\ panic' = IF inOpen THEN panic ELSE "closed channel"

workerStep(w) ==
    \/ takeInbound(w)
    \/ disposeUnwrapped(w)
    \/ \E h \in Hops, d \in Delays : forward(w, h, d)

-----------------------------------------------------------------------------
(* The scheduler's queue. *)

(* The entries of Q that are due first. *)
first(Q) == {e \in Q : \A f \in Q : e.at <= f.at}

packetsOf(Q) == {e.pkt : e \in Q}

(* packetToBoltBkt: entry e is written, and its struct disposed of. *)
toBolt(q, e) ==
    [q EXCEPT !.freed = @ \cup {e.pkt},
              !.db = @ \cup {[id |-> CHOOSE i \in IDs : \A r \in q.db : r.id # i,
                              fields |-> pkt[e.pkt], at |-> e.at]}]

(* One packet of boltQueue.BulkEnqueue: the head is in memory, the others  *)
(* are in the database.                                                    *)
boltEnqueue(q, e) ==
    IF q.head = None THEN [q EXCEPT !.head = e]
    ELSE IF q.head.at > e.at THEN [toBolt(q, q.head) EXCEPT !.head = e]
    ELSE toBolt(q, e)

(* The entries of batch are added, and the packets in dropped disposed of. *)
(* A full memory queue drops packets at random, new ones included.         *)
BulkEnqueue(batch, dropped) ==
    IF external
    THEN LET q == FoldLeft(boltEnqueue, [head |-> head, db |-> db, freed |-> dropped], batch)
         IN head' = q.head /\ db' = q.db /\ Dispose(q.freed) /\ UNCHANGED queue
    ELSE LET all == queue \cup ToSet(batch)
             excess == Max({0, Cardinality(all) - QueueSize})
         IN \E drop \in kSubset(excess, all) :
                /\ queue' = all \ drop /\ Dispose(dropped \cup packetsOf(drop))
                /\ UNCHANGED <<head, db>>

(* The deadline is blown by more than the slack. *)
blown(e) == now - e.at > TimerSlack

(* What the bolt queue's Pop leaves in the database, where it drops the    *)
(* packets whose deadline is blown, and the records that it may load.      *)
unblown == {r \in db : ~blown(r)}
nextUp  == IF unblown = {} THEN {None} ELSE first(unblown)

(* packetFromBoltBkt: record r becomes a packet again, in a new struct. *)
fromBolt(r) == IF r = None THEN <<>> ELSE newPacket :> r.fields

(* Pop of entry e, with r the record that becomes the head, if any. *)
Pop(e, r) ==
    /\ queue' = queue \ {e}
    /\ db' = unblown \ {r}
    /\ head' = IF r = None THEN None ELSE [pkt |-> newPacket, at |-> r.at]

(* The entries that Peek may return. *)
peeked == IF external THEN {head} \ {None} ELSE first(queue)

-----------------------------------------------------------------------------
(* The scheduler's worker. *)

(* Fault: a packet that is disposed of is enqueued as well. *)
enqueueAny(p) == TRUE

(* The packet has an acceptable delay, and there is a connection to its    *)
(* next hop.                                                               *)
enqueues(p) == pkt[p].delay <= maxDelay /\ pkt[p].hop \in linked

(* A batch from the crypto workers. *)
onBatch ==
    /\ scheduler = "select" /\ inCh # <<>>
    /\ \E n \in 1..Len(inCh) :
        LET batch == SubSeq(inCh, 1, n)
            kept == SelectSeq(batch, enqueues)
            dropped == {p \in ToSet(batch) : pkt[p].delay > maxDelay \/ pkt[p].hop \notin linked}
        IN /\ inCh' = SubSeq(inCh, n + 1, Len(inCh))
           /\ BulkEnqueue([i \in DOMAIN kept |-> [pkt |-> kept[i], at |-> now + pkt[kept[i]].delay]],
                          dropped)
    /\ scheduler' = "loop"
    /\ UNCHANGED <<elsewhere, out, panic, workerVars, maxDelay, timer, nrBurst, external>>

timerFires ==
    /\ scheduler = "select" /\ now >= timer
    /\ scheduler' = "loop"
    /\ UNCHANGED <<now, pktVars, linked, out, panic, workerVars, inCh, maxDelay, timer, nrBurst, external,
                   queueVars, ctlVars>>

(* Fault: at the end of a burst the timer is not set. *)
sleepFor(e) == IF e.at > now THEN e.at ELSE Never

(* The timer for entry e at the head of the queue: when it is due, or at   *)
(* once when it is due but the burst is over.                              *)
wakeFor(e) == IF e.at > now THEN e.at ELSE now

(* The loop ends: the queue is empty, its head is not due, or the burst is *)
(* over.                                                                   *)
reschedule ==
    /\ scheduler = "loop"
    /\ \/ peeked = {} /\ timer' = Never
       \/ \E e \in peeked :
            /\ e.at > now \/ nrBurst = MaxBurst
            /\ timer' = wakeFor(e)
    /\ scheduler' = "select" /\ nrBurst' = 0
    /\ UNCHANGED <<now, pktVars, linked, out, panic, workerVars, inCh, maxDelay, external, queueVars, ctlVars>>

(* A packet that is due leaves the queue: it is dispatched, or dropped if  *)
(* its deadline is blown.                                                  *)
dispatchDue ==
    /\ scheduler = "loop"
    /\ nrBurst < MaxBurst /\ nrBurst' = nrBurst + 1
    /\ \E e \in peeked, r \in nextUp :
        /\ e.at <= now
        /\ Pop(e, r)
        /\ IF blown(e)
           THEN UNCHANGED out /\ Update(fromBolt(r), {e.pkt})
           ELSE DispatchPacket(e.pkt, pkt[e.pkt].hop, fromBolt(r))
    /\ UNCHANGED <<elsewhere, panic, workerVars, inCh, scheduler, maxDelay, timer, external>>

-----------------------------------------------------------------------------
(* The decoy worker, which has a document to choose paths from. *)

sendDecoyPacket(h) ==
    /\ decoy = "run" /\ available
    /\ DispatchPacket(newPacket, h, <<>>)
    /\ UNCHANGED <<elsewhere, panic, workerVars, inCh, schedVars>>

-----------------------------------------------------------------------------
(* The PKI worker, after it has fetched documents.  ForceUpdate, which     *)
(* kicks the connector, never blocks.                                      *)

(* Calling the listeners, if the send rate has changed, does not block.    *)
(* halt sets those it has stopped to nil.                                  *)
updateListeners ==
    \/ pki' = "document" /\ UNCHANGED panic
    \/ /\ halt \notin {"no", "decoy", "listeners"}
       /\ panic' = "nil component" /\ UNCHANGED pki

(* A new document: if its MuMaxDelay has changed, the worker calls the     *)
(* scheduler, which may be nil by now, and waits until it selects.         *)
newDocument ==
    /\ pki = "idle" /\ docs < MaxDocs /\ docs' = docs + 1
    /\ \/ inOpen /\ pki' = "delay" /\ UNCHANGED panic
       \/ ~inOpen /\ panic' = "nil component" /\ UNCHANGED pki
       \/ updateListeners
    /\ UNCHANGED <<now, pktVars, linked, out, workerVars, inCh, inOpen, schedVars,
                   decoy, halt>>

(* A limit of 0, or beyond what the mix keys allow, is no limit. *)
limit(m) == IF m > AbsMaxDelay \/ m = 0 THEN AbsMaxDelay ELSE m

OnNewMixMaxDelay(m) ==
    /\ pki = "delay" /\ updateListeners
    /\ scheduler = "select" /\ scheduler' = "loop"
    /\ maxDelay' = limit(m)
    /\ UNCHANGED <<now, pktVars, linked, out, workerVars, inCh, inOpen, timer,
                   nrBurst, external, queueVars, docs, decoy, halt>>

(* The call blocks until the decoy worker selects, which ignores the       *)
(* document if decoys are disabled or it is for another epoch.             *)
OnNewDocument ==
    /\ pki = "document" /\ pki' = "idle"
    /\ decoy # "halted" /\ decoy' \in {"run", decoy}
    /\ UNCHANGED <<now, pktVars, linked, out, workerVars, inCh, inOpen, schedVars,
                   docs, halt, panic>>

-----------------------------------------------------------------------------
(* Server.halt. *)

(* The order in which halt stops the components. *)
haltOrder ==
    <<"no", "decoy", "listeners", "connector", "workers", "scheduler", "pki", "done">>

(* The worker of the component is at its select, where it sees that it has *)
(* been halted and returns, or there is nothing to wait for here.          *)
returns ==
    CASE halt = "workers"   -> \A w \in Workers : worker[w] = "halted"
      [] halt = "scheduler" -> scheduler = "select"
      [] halt = "pki"       -> pki = "idle"
      [] OTHER              -> TRUE

(* Halt of a component returns, and halt goes on to the next one.  The     *)
(* connector closes its connections, and the scheduler its input before it *)
(* is set to nil.                                                          *)
haltNext ==
    /\ returns
    /\ \E i \in 1..(Len(haltOrder) - 1) : halt = haltOrder[i] /\ halt' = haltOrder[i + 1]
    /\ decoy' = IF halt = "decoy" THEN "halted" ELSE decoy
    /\ linked' = IF halt = "connector" THEN {} ELSE linked
    /\ scheduler' = IF halt = "scheduler" THEN "halted" ELSE scheduler
    /\ inOpen' = (inOpen /\ halt # "scheduler")
    /\ pki' = IF halt = "pki" THEN "halted" ELSE pki
    /\ UNCHANGED <<now, pktVars, out, workerVars, inCh, maxDelay, timer, nrBurst,
                   external, queueVars, docs, panic>>

(* Fault: a worker sees that it has been halted only when a packet comes.  *)
workerDeaf(w) ==
    /\ halt = "workers" /\ worker[w] = "select" /\ inbound # <<>>
    /\ worker' = [worker EXCEPT ![w] = "halted"]
    /\ UNCHANGED <<now, pktVars, linked, out, inbound, cur, startAt, inCh, schedVars,
                   ctlVars, panic>>

workerHalts(w) ==
    /\ halt = "workers" /\ worker[w] = "select"
    /\ worker' = [worker EXCEPT ![w] = "halted"]
    /\ UNCHANGED <<now, pktVars, linked, out, inbound, cur, startAt, inCh, schedVars,
                   ctlVars, panic>>

Tick ==
    /\ now < MaxTime /\ now' = now + 1
    /\ UNCHANGED <<pktVars, linked, out, workerVars, inCh, schedVars, ctlVars, panic>>

-----------------------------------------------------------------------------
(* The process has not died. *)
alive == panic = "no"

schedulerStep ==
    \/ onBatch
    \/ timerFires
    \/ reschedule
    \/ dispatchDue

pkiStep ==
    \/ \E m \in PKIMaxDelays : OnNewMixMaxDelay(m)
    \/ OnNewDocument

Next ==
    /\ alive
    /\ \/ onSendPacket
       \/ \E w \in Workers : workerStep(w) \/ workerHalts(w)
       \/ schedulerStep
       \/ \E h \in Hops : sendDecoyPacket(h) \/ onConn(h)
       \/ \E p \in Pkts : connDisposes(p)
       \/ newDocument
       \/ pkiStep
       \/ haltNext
       \/ Tick

Spec == Init /\ [][Next]_vars

(* A halt that has begun goes on while it can, and so does the worker that *)
(* it waits for; no more is needed of the others.                          *)
Fairness ==
    /\ \A w \in Workers :
          WF_vars(alive /\ halt = "workers" /\ (workerStep(w) \/ workerHalts(w)))
    /\ WF_vars(alive /\ halt = "scheduler" /\ schedulerStep)
    /\ WF_vars(alive /\ halt # "no" /\ haltNext)

FairSpec == Spec /\ Fairness

-----------------------------------------------------------------------------
(* The number of places that hold packet struct p. *)
owners(p) ==
    LET one(b) == IF b THEN 1 ELSE 0
        occurs(s) == Cardinality({i \in DOMAIN s : s[i] = p})
    IN one(p \in pool) + one(p \in out) + occurs(inbound) + occurs(inCh)
       + Cardinality({e \in queue \cup ({head} \ {None}) : e.pkt = p})
       + Cardinality({w \in Workers : cur[w] = p})

(* Every packet struct has exactly one owner: no worker, queue or          *)
(* connection keeps a packet that another one has, or that has been        *)
(* disposed of and may already be another packet (packet.go, Dispose).     *)
SingleOwner == \A p \in Pkts : owners(p) = 1

(* When the scheduler dispatches a packet, it has been in the mix for as   *)
(* long as its sender asked for, and for a tick at least, whatever it      *)
(* waited for in which queue.  (A decoy packet has no NodeDelay.)          *)
Mixed ==
    [][\A p \in out' \ out : pkt[p].nodeDelay # None =>
            now >= pkt[p].recvAt + Max({1, pkt[p].nodeDelay})]_vars

(* When the scheduler waits, its timer fires no later than the earliest    *)
(* packet of its queue is due, or is ready to fire.                        *)
WakesInTime == scheduler = "select" => \A e \in peeked : timer <= Max({now, e.at})

(* The PKI worker waits for a component that halt has stopped, or has      *)
(* called one that halt has set to nil.                                    *)
pkiCaught ==
    \/ pki = "document" /\ decoy = "halted"
    \/ pki = "delay" /\ scheduler = "halted"
    \/ panic = "nil component"

(* Shutdown returns, unless it finds the PKI worker on its way through the *)
(* components with a new document: halt stops decoy, listeners and         *)
(* scheduler, which that worker calls, before it.                          *)
ShutdownCompletes == halt # "no" ~> halt = "done" \/ pkiCaught
====
