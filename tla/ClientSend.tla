----------------------------- MODULE ClientSend -----------------------------
(***************************************************************************)
(* What a minclient.Client sends and what becomes of it: the application   *)
(* goroutine of MinClient composes a Sphinx packet (minclient/send.go) on  *)
(* a path (core/sphinx/path) through the nodes of the current document,    *)
(* the connection worker sends it, the crypto workers of the nodes on the  *)
(* path unwrap it, a service answers by way of the reply block, and the    *)
(* client decrypts the answer.                                             *)
(*                                                                         *)
(* The client decides when it composes the packet which mix key of every   *)
(* hop to use, from the delays that it asks for.  What the network adds,   *)
(* and the delay that the service does not observe (packet.go:302), move   *)
(* the packet away from that plan.                                         *)
(***************************************************************************)
EXTENDS MinClient, Integers, Sphinx

CONSTANTS
    Home, Service,  \* the client's provider, and the one with the service
    Topology,       \* the nodes of each layer
    Samples,        \* what rand.Exp may return
    MuMaxDelay,
    Period,         \* epochtime.Period
    Grace,          \* doUnwrap's gracePeriod
    ClockError,     \* the client's corrected clock, less the network's
    Start, MaxStart, \* between when the client composes its packet and sends it
    MaxLatency      \* what the network adds to a packet's way in all

ASSUME ClientSendAssumption ==
    /\ {MuMaxDelay, Period, Grace, Start, MaxStart, MaxLatency} \subseteq Nat
    /\ ClockError \in Int /\ -ClockError <= Start /\ Samples \subseteq Nat
    /\ 0 < Grace /\ Grace < Period /\ 0 < MuMaxDelay /\ MuMaxDelay < Period

VARIABLES
    kem,            \* the Sphinx geometry names a KEM
    now,            \* the network's time
    draft,          \* the call of ComposeSphinxPacket, or Nil
    flight,         \* the packet on its way, or Nil
    keys,           \* the keys of the reply block, or Nil
    spooled,        \* the reply's payload in the client's spool, or Nil
    got,            \* what the client decrypted, or Nil
    fate            \* what became of the packet

sendVars == <<kem, now, draft, flight, keys, spooled, got, fate>>
allVars  == <<vars, sendVars>>

NumMixKeys == 3
Recipient  == "echo"
User       == "alice"
Message    == "message"
Answer     == "answer"

epochOf(t) == t \div Period
elapsed(t) == t % Period
till(t)    == Period - (t % Period)

SendInit ==
    /\ Init
    /\ kem \in BOOLEAN
    /\ now = Start
    /\ draft = Nil /\ flight = Nil /\ keys = Nil /\ spooled = Nil /\ got = Nil
    /\ fate = [what |-> "none", late |-> 0]

(* skewedUnixTime: the local clock, corrected by what the handshake with   *)
(* the provider has shown.                                                 *)
skewedUnixTime == now + ClockError

-----------------------------------------------------------------------------
(* Path selection. *)

(* A node of each layer between the two providers; the client's own is a   *)
(* hop of the forward path.                                                *)
selectHops(isForward) ==
    LET mixes == {ns \in [1..Len(Topology) -> UNION Range(Topology)] :
                     \A i \in DOMAIN ns : ns[i] \in Topology[i]}
    IN {IF isForward THEN <<Home>> \o ns \o <<Service>> ELSE ns \o <<Home>> : ns \in mixes}

delayOf(x) == IF x + 1 > MuMaxDelay THEN MuMaxDelay ELSE x + 1

(* The hops that hold the packet: all but the last, and the last of a      *)
(* forward packet with a reply block.                                      *)
delays(hops, surb, isForward) ==
    [1..(IF surb /\ isForward THEN Len(hops) ELSE Len(hops) - 1) -> {delayOf(x) : x \in Samples}]

(* When the packet is to arrive at each hop, and when it leaves the last. *)
schedule(base, ds) ==
    LET t[i \in 1..(Len(ds) + 1)] == IF i = 1 THEN base ELSE t[i - 1] + ds[i - 1]
    IN [i \in 1..(Len(ds) + 1) |-> t[i]]

(* Fault: every hop's key is that of the epoch in which the path begins. *)
firstEpoch(times, i) == epochOf(times[1])

(* The epoch whose mix key hop i is given. *)
keyEpoch(times, i) == epochOf(times[i])

pathHops(hops, ds, times, surb, isForward) ==
    [i \in 1..Len(hops) |->
        [id |-> hops[i],
         key |-> [node |-> hops[i], epoch |-> keyEpoch(times, i)],
         cmds |-> [delay |-> IF i \in DOMAIN ds THEN ds[i] ELSE Nil,
                   recipient |-> IF i < Len(hops) THEN Nil
                                 ELSE IF isForward THEN Recipient ELSE User,
                   surbID |-> IF i = Len(hops) /\ surb /\ ~isForward THEN "surbID" ELSE Nil]]]

(* What New makes of a choice of hops and delays. *)
newPath(base, hops, ds, surb, isForward) ==
    LET times == schedule(base, ds) IN
    [hops |-> pathHops(hops, ds, times, surb, isForward),
     times |-> SubSeq(times, 1, Len(hops)),
     then |-> Last(times)]

choices(base, surb, isForward) ==
    UNION {{newPath(base, hops, ds, surb, isForward) : ds \in delays(hops, surb, isForward)} :
              hops \in selectHops(isForward)}

(* The document of epoch e lists a mix key for every hop of the path. *)
listed(p, e) ==
    \A i \in DOMAIN p.hops : p.hops[i].key.epoch \in e..(e + NumMixKeys - 1)

-----------------------------------------------------------------------------
(* ComposeSphinxPacket. *)

(* A packet is composed once, and while it is under way the client does    *)
(* nothing else.                                                           *)
atHome == flight = Nil

(* Giving up; the call is not repeated. *)
composeFails == draft' = Nil /\ fate' = [fate EXCEPT !.what = "error"]

(* makePath: an error without a document, or when every attempt meets a    *)
(* hop without a key.                                                      *)
pathFails(base, surb, isForward) ==
    \/ doc # "stored"
    \/ \E p \in choices(base, surb, isForward) : ~listed(p, epochOf(skewedUnixTime))

makePath(base, surb, isForward) ==
    {p \in choices(base, surb, isForward) :
        doc = "stored" /\ listed(p, epochOf(skewedUnixTime))}

(* The clock is read and the forward path drawn; time passes before the    *)
(* reverse path is.                                                        *)
ComposeSphinxPacket(surb) ==
    /\ atHome /\ draft = Nil /\ app = "idle" /\ halt = "no" /\ fate.what = "none"
    /\ \/ /\ \E p \in makePath(skewedUnixTime, surb, TRUE) :
                draft' = [step |-> "reverse", surb |-> surb, unix |-> skewedUnixTime,
                          start |-> now, fwd |-> p]
          /\ UNCHANGED fate
       \/ pathFails(skewedUnixTime, surb, TRUE) /\ composeFails
    /\ UNCHANGED <<vars, kem, now, flight, keys, spooled, got>>

(* The checks of a finished selection: it did not straddle an epoch, and   *)
(* the delays are within what documents are published for.                 *)
straddles   == now - draft.start > till(draft.unix)
tooLong(t)  == t - draft.unix >= 2 * Period

none == [hops |-> <<>>, times |-> <<>>]

reversePath ==
    /\ atHome /\ draft # Nil /\ draft.step = "reverse"
    /\ \/ \E p \in IF draft.surb THEN makePath(draft.fwd.then, TRUE, FALSE) ELSE {draft.fwd} :
             /\ draft' = IF straddles \/ tooLong(p.then)
                         THEN Nil
                         ELSE [step |-> "composed", surb |-> draft.surb, fwd |-> draft.fwd,
                               rev |-> IF draft.surb THEN p ELSE none]
             /\ UNCHANGED fate
       \/ draft.surb /\ pathFails(draft.fwd.then, TRUE, FALSE) /\ composeFails
    /\ UNCHANGED <<vars, kem, now, flight, keys, spooled, got>>

(* The packet, with the reply block inside. *)
composed ==
    NewPacket(kem, "f", draft.fwd.hops,
              [msg |-> Message,
               surb |-> IF draft.surb THEN NewSURB(kem, "r", draft.rev.hops) ELSE Nil])

(* sendPacket, or its error without a connection. *)
callSendPacket ==
    /\ atHome /\ draft # Nil /\ draft.step = "composed" /\ ~connLock
    /\ \/ sendPacket /\ draft' = [draft EXCEPT !.step = "queued"] /\ UNCHANGED fate
       \/ ~connected /\ composeFails /\ UNCHANGED vars
    /\ UNCHANGED <<kem, now, flight, keys, spooled, got>>

(* The next epoch begins on the client's clock. *)
clockMoves(t) == IF epochOf(t + ClockError) = epochOf(skewedUnixTime) THEN UNCHANGED vars ELSE tick

(* Time passes while the packet is composed and waits to be sent. *)
pass ==
    /\ atHome /\ fate.what = "none" /\ now < MaxStart
    /\ now' = now + 1
    /\ clockMoves(now')
    /\ UNCHANGED <<kem, draft, flight, keys, spooled, got, fate>>

(* Later epochs, once nothing depends on the time any more. *)
later ==
    /\ atHome /\ fate.what # "none" /\ tick
    /\ UNCHANGED sendVars

(* The connection worker writes the packet, or fails to. *)
sends ==
    /\ atHome /\ onSendPacket
    /\ IF conn' = "psent"
       THEN /\ flight' = [pkt |-> composed, hop |-> 1, node |-> Home, due |-> now, latency |-> 0,
                          plan |-> draft.fwd.times \o draft.rev.times]
            /\ keys' = IF draft.surb THEN surbKeys(kem, "r", draft.rev.hops) ELSE Nil
            /\ UNCHANGED fate
       ELSE fate' = [fate EXCEPT !.what = "error"] /\ UNCHANGED <<flight, keys>>
    /\ UNCHANGED <<kem, now, draft, spooled, got>>

(* SendCiphertext returns. *)
sendReturns ==
    /\ atHome
    /\ donePacket \/ abandonPacket
    /\ draft' = Nil
    /\ fate' = IF fate.what = "none" THEN [fate EXCEPT !.what = "error"] ELSE fate
    /\ UNCHANGED <<kem, now, flight, keys, spooled, got>>

-----------------------------------------------------------------------------
(* The nodes on the path.  A packet is forwarded when its delay is over,   *)
(* and arrives up to the latency that is left later.                       *)

arrivals == {t \in flight.due..(flight.due + MaxLatency) :
                t >= now /\ flight.latency + (t - flight.due) <= MaxLatency}

(* doUnwrap: the keys that are tried. *)
candidates(t) ==
    {epochOf(t)} \cup (IF elapsed(t) < Grace THEN {epochOf(t) - 1}
                       ELSE IF till(t) < Grace THEN {epochOf(t) + 1} ELSE {})

openers(t) ==
    {key \in {[node |-> flight.node, epoch |-> e] : e \in candidates(t)} :
        authentic(kem, key, flight.pkt)}

cmds == flight.pkt.hdr.routing.cmds
next == flight.pkt.hdr.routing.next

isForward == next # Nil /\ cmds.delay # Nil /\ cmds.recipient = Nil /\ cmds.surbID = Nil
isToUser  == next = Nil /\ cmds.recipient # Nil /\ cmds.surbID = Nil
isSURBReply == next = Nil /\ cmds.delay = Nil /\ cmds.recipient # Nil /\ cmds.surbID # Nil

mustForward   == flight.hop = 1
mustTerminate == flight.hop # 1 /\ flight.node \in {Home, Service}

(* What the crypto worker, and behind it the provider, will do with it. *)
forwards == isForward /\ ~mustTerminate
serves(payload) ==
    /\ isToUser /\ ~mustForward
    /\ flight.node = Service /\ cmds.recipient = Recipient /\ acceptsPayload(cmds, payload)
stores(payload) ==
    /\ isSURBReply /\ ~mustForward
    /\ flight.node = Home /\ cmds.recipient = User /\ acceptsPayload(cmds, payload)

arrivesAt(t) ==
    /\ now' = t
    /\ clockMoves(t)
    /\ UNCHANGED <<kem, draft, keys, got>>

(* The crypto worker hands the packet to the scheduler. *)
forwarded(t, key) ==
    /\ forwards
    /\ flight' = [flight EXCEPT !.pkt = unwrapped(kem, key, flight.pkt), !.hop = @ + 1,
                                !.node = next, !.due = t + cmds.delay,
                                !.latency = @ + (t - flight.due)]
    /\ UNCHANGED <<spooled, fate>>

(* A service gets the request, and answers at once if it can. *)
served(t, payload) ==
    /\ serves(payload)
    /\ LET surb == payload.body.surb IN
       flight' = IF surb = Nil THEN Nil
                 ELSE [flight EXCEPT !.pkt = NewPacketFromSURB(surb, Answer), !.hop = @ + 1,
                                     !.node = surb.first, !.due = t,
                                     !.latency = @ + (t - flight.due)]
    /\ fate' = IF flight' = Nil THEN [fate EXCEPT !.what = "served"] ELSE fate
    /\ UNCHANGED spooled

(* The client's provider stores a reply. *)
stored(payload) ==
    /\ stores(payload)
    /\ spooled' = payload
    /\ flight' = Nil
    /\ fate' = [fate EXCEPT !.what = "stored"]

accepted(t, key) ==
    \/ forwarded(t, key)
    \/ served(t, unwrapped(kem, key, flight.pkt).payload)
    \/ stored(unwrapped(kem, key, flight.pkt).payload)

arrives ==
    /\ flight # Nil
    /\ \E t \in arrivals : \E key \in openers(t) : accepted(t, key) /\ arrivesAt(t)

(* The hop cannot open the packet, or has no use for it. *)
dropped ==
    /\ flight # Nil
    /\ \E t \in arrivals :
          /\ \A key \in openers(t) :
                LET payload == unwrapped(kem, key, flight.pkt).payload
                IN ~(forwards \/ serves(payload) \/ stores(payload))
          /\ arrivesAt(t)
          /\ fate' = [what |-> "dropped", late |-> t - flight.plan[flight.hop]]
    /\ flight' = Nil
    /\ UNCHANGED spooled

(* OnACKFn, with the reply that the client has fetched. *)
onACK ==
    /\ atHome /\ conn = "serve" /\ spooled # Nil
    /\ got' = DecryptSURBPayload(spooled, keys)
    /\ spooled' = Nil /\ keys' = Nil
    /\ UNCHANGED <<vars, kem, now, draft, flight, fate>>

-----------------------------------------------------------------------------
connWorks  == atHome /\ connStep /\ UNCHANGED sendVars
pkiWorks   == atHome /\ pkiWorker /\ UNCHANGED sendVars
shutsDown  == atHome /\ shutdown /\ UNCHANGED sendVars

SendNext ==
    \/ \E surb \in BOOLEAN : ComposeSphinxPacket(surb)
    \/ reversePath \/ callSendPacket
    \/ pass \/ later \/ sends \/ sendReturns
    \/ arrives \/ dropped \/ onACK
    \/ connWorks \/ pkiWorks \/ shutsDown

SendSpec == SendInit /\ [][SendNext]_allVars

(* Goroutines are scheduled, a packet under way arrives somewhere or is    *)
(* dropped.  The select loops see HaltCh in the end, and the rest of a     *)
(* shutdown once begun is not put off.                                     *)
SendFairSpec ==
    /\ SendSpec
    /\ WF_allVars(connWorks \/ sends \/ (sendReturns /\ done' # done)) /\ WF_allVars(pkiWorks)
    /\ WF_allVars(sendReturns) /\ WF_allVars(arrives \/ dropped)
    /\ WF_allVars(halt # "no" /\ shutsDown)
    /\ SF_allVars(connHalted /\ connWorks /\ conn \in {"wait", "dial"})
    /\ SF_allVars(connHalted /\ connWorks /\ conn' = "teardown" /\ conn = "serve")
    /\ SF_allVars(pkiHalted /\ pkiWorks /\ pki' = "halted")

-----------------------------------------------------------------------------
(* A packet composed by the client is dropped on its way, there or back,   *)
(* only if it comes too late or too early for the plan: every hop opens it *)
(* with one of the keys that it tries, finds commands that it can follow   *)
(* and accepts the payload, as long as it comes within gracePeriod of the  *)
(* time for which the client chose the key.                                *)
Arrives == fate.what = "dropped" => fate.late > Grace \/ fate.late <= -Grace

(* The client decrypts from a reply what the service answered. *)
ReplyRead == got # Nil => got = tagged(Answer)
=============================================================================
