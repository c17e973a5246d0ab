------------------------------- MODULE Contact -------------------------------
(***************************************************************************)
(* How two catshadow clients that share a secret become contacts           *)
(* (catshadow/client.go, catshadow/panda.go, panda/crypto, panda/client):  *)
(* each has a remote spool made, adds the contact, and runs a PANDA key    *)
(* exchange in a goroutine that reports every state it reaches to the      *)
(* client's worker, which keeps it in the state file and starts it again   *)
(* after a reconnect or a restart.  Keys and messages are symbols: what a  *)
(* run of the exchange draws at random carries the number of that run.     *)
(***************************************************************************)
EXTENDS PandaServer, Sequences

CONSTANTS
    MaxFaults,  \* disconnects, crashes, failures and operator mistakes
    Faulty      \* the clients that meet them

Parties == {"alice", "bob"}
Peer(p) == IF p = "alice" THEN "bob" ELSE "alice"

VARIABLES
    online,     \* the session has a connection
    spool,      \* spoolReadDescriptor: the number of the spool, or 0
    creating,   \* calls of NewSpoolReadDescriptor in progress
    spools,     \* spools made so far
    contact,    \* the contact, or Nothing
    saved,      \* what the state file holds, and what is being written to it
    kxs,        \* the exchanges that run
    runs,       \* exchanges started so far
    srv,        \* the shared random value of the current document
    happened, faults

clientVars == <<online, spool, creating, spools, contact, saved, kxs, runs>>
histVars == <<happened, faults>>
vars == <<clientVars, postings, srv, histVars>>

(* A fault is one of several in a behaviour, or the only one.              *)
Fault(what) == /\ faults < MaxFaults
               /\ faults' = faults + 1
               /\ happened' = happened \cup what
OnlyFault(what) == /\ faults = 0
                   /\ faults' = MaxFaults
                   /\ happened' = happened \cup {what}
NoFault == UNCHANGED histVars

(* A contact as it is added.                                               *)
NewContact(p, n) ==
    [id |-> <<p, n>>, pending |-> TRUE, keyExchange |-> Nothing, panda |-> Nothing,
     chan |-> "open", peer |-> Nothing, failed |-> FALSE]

(* panda/crypto.  A state in INIT is serialised without its DH key.        *)
ZeroKey == <<>>
NewKeyExchange(p, n, bytes) ==
    [status |-> "INIT", dh |-> <<p, n>>, srv |-> srv, m1 |-> Nothing,
     key |-> {}, m2 |-> Nothing, bytes |-> bytes]

Marshal(x) == IF x.status = "INIT" THEN [x EXCEPT !.dh = ZeroKey] ELSE x

NewRun(n, c, kx) ==
    [run |-> n, id |-> c.id, chan |-> c.chan, kx |-> kx, pc |-> kx.status, result |-> Nothing]

(* Alice begins with nothing, when Bob has added her.                      *)
Init ==
    /\ srv = 1 /\ happened = {} /\ faults = 0
    /\ postings = [t \in Tags |-> Nothing]
    /\ online = [p \in Parties |-> TRUE]
    /\ spool = [alice |-> 0, bob |-> 1]
    /\ creating = [p \in Parties |-> 0]
    /\ spools = [alice |-> 0, bob |-> 1]
    /\ runs = [alice |-> 0, bob |-> 1]
    /\ LET c == NewContact("bob", 0)
           x == NewKeyExchange("bob", 1, [id |-> c.id, spool |-> 1])
       IN /\ contact = [alice |-> Nothing, bob |-> [c EXCEPT !.panda = Marshal(x)]]
          /\ kxs = [alice |-> {}, bob |-> {NewRun(1, c, x)}]
    /\ saved = [p \in Parties |-> [i \in 1..2 |-> [spool |-> spool[p], contact |-> contact[p]]]]

-----------------------------------------------------------------------------
(* save hands its snapshot over when the one before it is in the file.     *)
(* The shutdown channel is not part of it: a pending contact gets a new    *)
(* one when it is loaded.                                                  *)
save(p, before) ==
    saved' = [saved EXCEPT ![p] = <<before[2], [spool |-> spool'[p], contact |-> contact'[p]]>>]

UnmarshalBinary(c) ==
    IF c # Nothing /\ c.pending THEN [c EXCEPT !.chan = "open"] ELSE c

-----------------------------------------------------------------------------
SetSharedRandom(x) ==
    IF x.srv = srv THEN x ELSE [x EXCEPT !.srv = srv, !.status = "INIT"]

(* haltKeyExchanges closes the channel of a pending contact that has one,  *)
(* and leaves the contact without: the next run cannot be halted.          *)
haltKeyExchanges(c) == IF c # Nothing /\ c.pending THEN [c EXCEPT !.chan = "nil"] ELSE c
(* Fault: the run that is to be replaced is not halted.                    *)
stillOpen(xs, c) == xs

Closed(xs, c) ==
    {[x EXCEPT !.chan = IF c # Nothing /\ c.pending /\ c.id = x.id /\ @ = "open"
                        THEN "closed" ELSE @] : x \in xs}

initKeyExchange(p, c) ==
    IF c.keyExchange = Nothing /\ spool'[p] # 0
    THEN [c EXCEPT !.keyExchange = [id |-> c.id, spool |-> spool'[p]]] ELSE c

(* doPANDAExchange starts a run from the stored state, or a new one, if it *)
(* has a spool to put into it.                                             *)
doPANDAExchange(p, c, rest, before) ==
    LET n == runs[p] + 1
        kx == IF c.panda # Nothing THEN SetSharedRandom(c.panda) ELSE NewKeyExchange(p, n, c.keyExchange)
    IN IF c.panda = Nothing /\ spool'[p] = 0
       THEN /\ contact' = [contact EXCEPT ![p] = c]
            /\ kxs' = [kxs EXCEPT ![p] = rest]
            /\ saved' = [saved EXCEPT ![p] = before]
            /\ UNCHANGED <<runs, happened>>
       ELSE /\ contact' = [contact EXCEPT ![p] =
                   [c EXCEPT !.panda = IF @ = Nothing THEN Marshal(kx) ELSE @,
                             !.keyExchange = Nothing]]
            /\ kxs' = [kxs EXCEPT ![p] = rest \cup {NewRun(n, c, kx)}]
            /\ runs' = [runs EXCEPT ![p] = n]
            /\ save(p, before)
            /\ happened' = happened \cup
                   IF \E x \in rest : x.id = c.id /\ x.chan = "nil" THEN {"overlap"} ELSE {}

(* restartKeyExchanges, with the connection and the spool as they are now. *)
restartKeyExchanges(p, before) ==
    LET c    == haltKeyExchanges(contact[p])
        rest == Closed(kxs[p], contact[p])
    IN IF online'[p] /\ spool'[p] # 0 /\ c # Nothing /\ c.pending
       THEN doPANDAExchange(p, initKeyExchange(p, c), rest, before)
       ELSE /\ contact' = [contact EXCEPT ![p] = c]
            /\ kxs' = [kxs EXCEPT ![p] = rest]
            /\ saved' = [saved EXCEPT ![p] = before]
            /\ UNCHANGED <<runs, happened>>

-----------------------------------------------------------------------------
(* The client's operations.                                                *)

(* Fault: a spool is made although there is one.                           *)
createAnother(p) ==
    /\ online[p] /\ spools[p] + creating[p] < 2
    /\ creating' = [creating EXCEPT ![p] = @ + 1]
    /\ IF creating[p] = 0 THEN NoFault ELSE Fault({"created twice"})
    /\ UNCHANGED <<online, spool, spools, contact, saved, kxs, runs, postings, srv>>

(* doCreateRemoteSpool asks whether there is a spool before it has one     *)
(* made, and the answer comes to the worker later.                         *)
CreateRemoteSpool(p) ==
    /\ spool[p] = 0 /\ online[p]
    /\ creating' = [creating EXCEPT ![p] = @ + 1]
    /\ IF creating[p] = 0 THEN NoFault ELSE Fault({"created twice"})
    /\ UNCHANGED <<online, spool, spools, contact, saved, kxs, runs, postings, srv>>

(* opUpdateSpool.  A failed creation comes here too, with no descriptor,   *)
(* and then nothing is started.                                            *)
updateSpool(p, made) ==
    /\ creating[p] > 0
    /\ creating' = [creating EXCEPT ![p] = @ - 1]
    /\ spools' = [spools EXCEPT ![p] = IF made THEN @ + 1 ELSE @]
    /\ spool' = [spool EXCEPT ![p] = IF made THEN spools'[p] ELSE 0]
    /\ UNCHANGED <<online, postings, srv>>
    /\ restartKeyExchanges(p, <<saved[p][2], [spool |-> spool'[p], contact |-> contact[p]]>>)
    /\ \/ made /\ UNCHANGED faults
       \/ ~made /\ faults < MaxFaults /\ faults' = faults + 1

(* createContact.  A client that is offline, or has no spool, leaves the   *)
(* exchange to be started later, and saves nothing.                        *)
createContact(p) ==
    /\ contact[p] = Nothing
    /\ LET c == NewContact(p, runs[p])
       IN /\ UNCHANGED spool
          /\ IF online[p]
             THEN doPANDAExchange(p, initKeyExchange(p, c), kxs[p], saved[p])
             ELSE contact' = [contact EXCEPT ![p] = c] /\ UNCHANGED <<kxs, runs, saved, happened>>
    /\ UNCHANGED <<online, creating, spools, postings, srv, faults>>

doContactRemoval(p) ==
    /\ contact[p] # Nothing
    /\ OnlyFault("removed")
    /\ kxs' = [kxs EXCEPT ![p] = Closed(@, contact[p])]
    /\ contact' = [contact EXCEPT ![p] = Nothing]
    /\ UNCHANGED spool
    /\ save(p, saved[p])
    /\ UNCHANGED <<online, creating, spools, runs, postings, srv>>

(* Connection status events.                                               *)
Disconnected(p) ==
    /\ online[p]
    /\ Fault({})
    /\ online' = [online EXCEPT ![p] = FALSE]
    /\ contact' = [contact EXCEPT ![p] = haltKeyExchanges(@)]
    /\ kxs' = [kxs EXCEPT ![p] = Closed(@, contact[p])]
    /\ UNCHANGED <<spool, creating, spools, saved, runs, postings, srv>>

Connected(p) ==
    /\ ~online[p]
    /\ online' = [online EXCEPT ![p] = TRUE]
    /\ UNCHANGED spool
    /\ restartKeyExchanges(p, saved[p])
    /\ UNCHANGED <<creating, spools, postings, srv, faults>>

(* The process dies and starts again from its file.                        *)
Crash(p) ==
    /\ \E f \in {saved[p][1], saved[p][2]} :
          /\ spool' = [spool EXCEPT ![p] = f.spool]
          /\ contact' = [contact EXCEPT ![p] = UnmarshalBinary(f.contact)]
          /\ saved' = [saved EXCEPT ![p] = <<f, f>>]
          /\ IF spool'[p] = spool[p] /\ contact'[p] = UnmarshalBinary(contact[p])
             THEN Fault({}) ELSE OnlyFault("rolled back")
    /\ online' = [online EXCEPT ![p] = FALSE]
    /\ creating' = [creating EXCEPT ![p] = 0]
    /\ kxs' = [kxs EXCEPT ![p] = {}]
    /\ UNCHANGED <<spools, runs, postings, srv>>

-----------------------------------------------------------------------------
(* A run of the exchange.                                                  *)

(* x becomes y, and the worker does nothing.                               *)
Becomes(p, x, y) == kxs' = [kxs EXCEPT ![p] = (@ \ {x}) \cup {y}]
Unreported == UNCHANGED <<online, spool, creating, spools, contact, saved, runs, srv, histVars>>

derivePassword(p, x) ==
    /\ x.pc = "INIT"
    /\ Becomes(p, x, [x EXCEPT !.pc = "told1", !.kx.status = "EXCHANGE1",
                               !.kx.m1 = [dh |-> x.kx.dh, run |-> <<p, x.run>>]])
    /\ Unreported /\ UNCHANGED postings

(* Exchange posts the message until it has an answer.  A request that is   *)
(* lost or answered without a message is made again; one whose run was     *)
(* halted is not.                                                          *)
Exchange(p, x, tag, m, y) ==
    /\ OnRequest(tag, m)
    /\ CASE Status(tag, m) = "Received2" -> Becomes(p, x, y)
         [] Status(tag, m) \in {"TagContended", "StorageError"} ->
                Becomes(p, x, [x EXCEPT !.pc = "failed"])
         [] OTHER -> UNCHANGED kxs
    /\ Unreported

exchange1(p, x) ==
    /\ x.pc = "EXCHANGE1"
    /\ LET tag == <<1, x.kx.srv>>
           key == {x.kx.dh, Answer(tag, x.kx.m1).dh}
       IN Exchange(p, x, tag, x.kx.m1,
              [x EXCEPT !.pc = "told2", !.kx.status = "EXCHANGE2", !.kx.key = key,
                        !.kx.m2 = [key |-> key, bytes |-> x.kx.bytes, run |-> <<p, x.run>>]])

exchange2(p, x) ==
    /\ x.pc = "EXCHANGE2"
    /\ LET tag == <<2, x.kx.srv>>
           m   == Answer(tag, x.kx.m2)
       IN Exchange(p, x, tag, x.kx.m2,
              IF m.key = x.kx.key THEN [x EXCEPT !.pc = "done", !.result = m.bytes]
                                  ELSE [x EXCEPT !.pc = "failed"])

Halted(p, x) ==
    /\ x.chan = "closed"
    /\ IF x.pc \in {"EXCHANGE1", "EXCHANGE2"}
       THEN Becomes(p, x, [x EXCEPT !.pc = "failed"])
       ELSE x.pc # "INIT" /\ kxs' = [kxs EXCEPT ![p] = @ \ {x}]
    /\ Unreported /\ UNCHANGED postings

(* processPANDAUpdate.  A run that was halted may still be heard.          *)
Known(p, x) == contact[p] # Nothing /\ contact[p].id = x.id
Reported == UNCHANGED <<online, spool, creating, spools, runs, postings, srv, faults>>

Progress(p, x) ==
    /\ x.pc \in {"told1", "told2"}
    /\ Becomes(p, x, [x EXCEPT !.pc = x.kx.status])
    /\ contact' = [contact EXCEPT ![p] = IF Known(p, x) THEN [@ EXCEPT !.panda = x.kx] ELSE @]
    /\ Reported
    /\ IF Known(p, x) THEN save(p, saved[p]) ELSE UNCHANGED saved
    /\ happened' = happened \cup IF x.chan = "closed" THEN {"overlap"} ELSE {}

ExchangeFailed(p, x) ==
    /\ x.pc = "failed"
    /\ kxs' = [kxs EXCEPT ![p] = @ \ {x}]
    /\ contact' = [contact EXCEPT ![p] = IF Known(p, x) THEN [@ EXCEPT !.chan = "nil"] ELSE @]
    /\ Reported
    /\ IF Known(p, x) THEN save(p, saved[p]) ELSE UNCHANGED saved
    /\ UNCHANGED happened

(* ProcessKeyExchange refuses what this side sent, and to be done again.   *)
accepts(c, r) == r.id # c.id /\ c.peer = Nothing

ExchangeDone(p, x) ==
    /\ x.pc = "done"
    /\ kxs' = [kxs EXCEPT ![p] = @ \ {x}]
    /\ contact' = [contact EXCEPT ![p] =
           IF ~Known(p, x) THEN @
           ELSE [@ EXCEPT !.panda = Nothing, !.pending = FALSE,
                          !.peer = IF accepts(contact[p], x.result) THEN x.result ELSE @,
                          !.failed = ~accepts(contact[p], x.result)]]
    /\ Reported
    /\ IF Known(p, x) THEN save(p, saved[p]) ELSE UNCHANGED saved
    /\ UNCHANGED happened

-----------------------------------------------------------------------------
(* The network's shared random value changes with the document; the        *)
(* meeting place restarts, or its postings expire.                         *)
newDocument ==
    /\ srv < MaxSrv /\ OnlyFault("document")
    /\ srv' = srv + 1
    /\ UNCHANGED <<clientVars, postings>>

serverCrash == load /\ OnlyFault("server") /\ UNCHANGED <<clientVars, srv>>
serverExpire == (\E t \in Tags : Expire(t)) /\ OnlyFault("server") /\ UNCHANGED <<clientVars, srv>>
serverVacuum == Vacuum /\ UNCHANGED <<clientVars, srv, histVars>>

Client(p) ==
    \/ CreateRemoteSpool(p) \/ createContact(p) \/ Connected(p)
    \/ updateSpool(p, TRUE)
    \/ /\ p \in Faulty
       /\ updateSpool(p, FALSE) \/ doContactRemoval(p) \/ Disconnected(p) \/ Crash(p)

Run(p) == \E x \in kxs[p] :
    \/ derivePassword(p, x) \/ exchange1(p, x) \/ exchange2(p, x) \/ Halted(p, x)
    \/ Progress(p, x) \/ ExchangeFailed(p, x) \/ ExchangeDone(p, x)

(* Two runs of one exchange, or a run made again from a state older than   *)
(* the one whose messages were posted, meet each other instead of the peer.*)
(* What follows is excepted below, and the model ends there.                *)
MeetsItself == {"overlap", "rolled back", "removed"}

Going == MeetsItself \cap happened = {}

Next ==
    /\ Going
    /\ \/ \E p \in Parties : Client(p) \/ Run(p)
       \/ newDocument \/ serverCrash \/ serverExpire \/ serverVacuum

(* Goroutines and the worker run; a client that lost its connection gets   *)
(* one again; both users have a spool made and add each other.             *)
Fairness == \A p \in Parties :
    /\ WF_vars(Going /\ Run(p)) /\ WF_vars(Going /\ Connected(p))
    /\ WF_vars(Going /\ creating[p] = 0 /\ CreateRemoteSpool(p))
    /\ WF_vars(Going /\ updateSpool(p, TRUE)) /\ WF_vars(Going /\ createContact(p))

Spec == Init /\ [][Next]_vars /\ Fairness

-----------------------------------------------------------------------------
Complete(p) == contact[p] # Nothing /\ contact[p].peer # Nothing

(* An exchange that ends with a result ends with the peer's: it never      *)
(* completes with, or is refused for, what this side sent.                 *)
NotWithItself ==
    MeetsItself \cap happened = {} =>
        \A p \in Parties :
            /\ contact[p] # Nothing /\ contact[p].failed => Complete(p)
            /\ Complete(p) => contact[Peer(p)] # Nothing
                              /\ contact[p].peer.id = contact[Peer(p)].id

(* What a client writes to for its contact is the spool that the contact   *)
(* reads, unless a second spool was asked for while the first was made.    *)
WritesWhereRead ==
    {"created twice", "removed", "rolled back"} \cap happened = {} =>
        \A p \in Parties : Complete(p) => contact[p].peer.spool = spool[Peer(p)]

(* Both sides complete, through disconnects, a crash and lost requests,    *)
(* unless a run meets itself, the shared random value or the meeting place *)
(* changes under the exchange.                                             *)
BothComplete ==
    <>[](\/ \A p \in Parties : Complete(p)
         \/ (MeetsItself \cup {"document", "server"}) \cap happened # {})
=============================================================================
