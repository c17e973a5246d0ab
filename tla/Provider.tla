------------------------------ MODULE Provider ------------------------------
(***************************************************************************)
(* A provider (server/internal/provider): its workers take packets off the *)
(* queue and store them for a user or pass them to a service, and collect  *)
(* the ephemeral clients that are not connected; clients authenticate,     *)
(* retrieve, break off and come back; the management interface removes     *)
(* users; the process crashes and restarts, or is halted.                  *)
(*                                                                         *)
(* The user database and the spools are UserDB, the services Kaetzchen.    *)
(* The bolt transactions of the spool exclude each other; VacuumExpired    *)
(* removes users from the other database inside its transaction.           *)
(***************************************************************************)
EXTENDS UserDB, Kaetzchen

CONSTANTS
    Workers,        \* NumProviderWorkers, 1 by default
    MaxPackets,     \* packets that arrive
    Traffic,        \* sets of destinations: a behaviour has traffic for those of one
    Echo,           \* the endpoint of the built-in service
    Plugin,         \* the endpoint of the plugin
    None

ASSUME ProviderAssumption ==
    /\ None \notin Workers
    /\ MaxPackets \in Nat
    /\ \A messages \in SUBSET (1..MaxPackets) : messages # NoSpool

VARIABLES
    active,         \* the destinations with traffic; the others do nothing
    ch,             \* the queue of the provider: records of Packet
    arrived,        \* the number of packets so far
    worker,         \* worker[w]: where provider worker w is
    spoolTx,        \* the worker whose VacuumExpired holds the write transaction
    mgmt,           \* the REMOVE_USER command in progress
    halting,        \* where server halt and provider.Halt are
    held,           \* held[u]: stored while u's connection was initialized, not retrieved
    raced           \* a REMOVE_USER overlapped what goes wrong with it

providerVars == <<active, ch, arrived, worker, spoolTx, mgmt, halting, held, raced>>
vars == <<userVars, serviceVars, providerVars>>

(* A SURB reply for a user is stored as a message is. *)
Packet == {p \in [id : 1..MaxPackets, to : Users \cup {Echo, Plugin}, surbReply : BOOLEAN] :
              p.surbReply => p.to \notin Users}

(* A worker at its select; one with a packet for a user or a plugin in its *)
(* hands; one that collects: connected are the users it found connected,   *)
(* todo the expired spools it has still to go through, removed the ones    *)
(* that its transaction has removed.                                       *)
AtSelect     == [at |-> "select"]
Halted       == [at |-> "halted"]
With(at, p)  == [at |-> at, pkt |-> p]
Collecting(at, connected, todo, removed) ==
    [at |-> at, connected |-> connected, todo |-> todo, removed |-> removed]

Idle == [at |-> "idle"]
Removing(at, u) == [at |-> at, user |-> u]

Running == halting = "no"

(* Packets, connections, commands and ticks come while the server runs,    *)
(* and until the exception that raced names has happened.                  *)
Open == Running /\ ~raced

Init ==
    /\ UserInit /\ ServiceInit
    /\ active \in Traffic
    /\ ch = <<>> /\ arrived = 0
    /\ worker = [w \in Workers |-> AtSelect] /\ spoolTx = None
    /\ mgmt = Idle /\ halting = "no"
    /\ held = [u \in Users |-> {}] /\ raced = FALSE

step(w, from, to) == worker[w].at = from /\ worker' = [worker EXCEPT ![w] = to]

(* What REMOVE_USER goes wrong with: its user is being added, or a worker  *)
(* stores a packet or collects.                                            *)
Overlaps ==
    /\ mgmt # Idle
    /\ \/ auth[mgmt.user] \in {"add", "cache"}
       \/ \E w \in Workers : worker[w].at \notin {"select", "plugin", "halted"}

noteRace == raced' = (raced \/ Overlaps')

-----------------------------------------------------------------------------
(* A packet reaches the provider from a crypto worker. *)
OnPacket ==
    /\ Open /\ arrived < MaxPackets
    /\ \E p \in Packet : p.id = arrived + 1 /\ p.to \in active /\ ch' = Append(ch, p)
    /\ arrived' = arrived + 1
    /\ UNCHANGED <<active, userVars, serviceVars, worker, spoolTx, mgmt, halting, held, raced>>

(* Drop the packet at the head of the queue: it is too old, a SURB reply   *)
(* for a service, or for nobody.                                           *)
drop(w) ==
    /\ step(w, "select", AtSelect) /\ ch # <<>>
    /\ ch' = Tail(ch)
    /\ UNCHANGED <<active, userVars, serviceVars, arrived, spoolTx, mgmt, halting, held, raced>>

toKaetzchen(w) ==
    /\ step(w, "select", AtSelect) /\ ch # <<>>
    /\ Head(ch).to = Echo /\ ~Head(ch).surbReply
    /\ kch' = Append(kch, Head(ch).id)
    /\ ch' = Tail(ch)
    /\ UNCHANGED <<active, userVars, kw, pluginVars, replied, arrived, spoolTx, mgmt, halting,
                   held, raced>>

(* IsKaetzchen finds the plugin; OnKaetzchen looks for it again. *)
toPlugin(w) ==
    /\ ch # <<>> /\ Head(ch).to = Plugin /\ registered /\ ~Head(ch).surbReply
    /\ step(w, "select", With("plugin", Head(ch)))
    /\ ch' = Tail(ch)
    /\ UNCHANGED <<active, userVars, serviceVars, arrived, spoolTx, mgmt, halting, held, raced>>

OnKaetzchen(w) ==
    /\ step(w, "plugin", AtSelect)
    /\ pch' = IF registered THEN Append(pch, worker[w].pkt.id) ELSE pch
    /\ UNCHANGED <<active, userVars, builtinVars, registered, pw, writing, sw, unregisterer,
                   clientHalted, socketHalted, process, inbox, outbox, replied,
                   ch, arrived, spoolTx, mgmt, halting, held, raced>>

(* The recipient exists: the packet is to be stored. *)
toUser(w) ==
    /\ ch # <<>> /\ Head(ch).to \in Users /\ Exists(Head(ch).to)
    /\ step(w, "select", With("store", Head(ch)))
    /\ ch' = Tail(ch)
    /\ UNCHANGED <<active, userVars, serviceVars, arrived, spoolTx, mgmt, halting, held>>
    /\ noteRace

(* onToUser and onSURBReply: into the spool; the SURB-ACK of a message     *)
(* goes to the scheduler.                                                  *)
store(w) ==
    /\ step(w, "store", AtSelect) /\ spoolTx = None
    /\ LET p == worker[w].pkt  u == p.to
       IN /\ spool' = doStore(u, p.id)
          /\ held' = IF u \in init THEN [held EXCEPT ![u] = @ \cup {p.id}] ELSE held
    /\ UNCHANGED <<active, dbVars, connVars, serviceVars, ch, arrived, spoolTx, mgmt, halting, raced>>

-----------------------------------------------------------------------------
(* gcEphemeralClients, at a tick: the connected clients, or an error; then *)
(* VacuumExpired.                                                          *)
gcEphemeralClients(w) ==
    /\ Open
    /\ step(w, "select", IF IdentitiesFail THEN AtSelect
                         ELSE Collecting("vacuum", GetConnIdentities, {}, {}))
    /\ UNCHANGED <<active, userVars, serviceVars, ch, arrived, spoolTx, mgmt, halting, held>>
    /\ noteRace

beginVacuum(w) ==
    /\ spoolTx = None
    /\ step(w, "vacuum", Collecting("users", {}, Spools \ worker[w].connected, {}))
    /\ spoolTx' = w
    /\ UNCHANGED <<active, userVars, serviceVars, ch, arrived, mgmt, halting, held, raced>>

(* udb.Remove, of the next expired user: out of the database ... *)
vacuumUser(w) ==
    /\ worker[w].at = "users" /\ worker[w].todo # {}
    /\ LET u == CHOOSE x \in worker[w].todo : TRUE
       IN IF u \in disk
          THEN /\ disk' = disk \ {u}
               /\ step(w, "users", [worker[w] EXCEPT !.at = "cache"])
               /\ UNCHANGED spoolTx
          ELSE /\ step(w, "users", AtSelect)        \* ErrNoSuchUser: roll back
               /\ spoolTx' = None
               /\ UNCHANGED disk
    /\ UNCHANGED <<active, cache, spool, connVars, serviceVars, ch, arrived, mgmt, halting, held, raced>>

(* ... out of the cache, and the bucket out of the spools, uncommitted. *)
vacuumCache(w) ==
    /\ worker[w].at = "cache"
    /\ LET u == CHOOSE x \in worker[w].todo : TRUE
       IN /\ cache' = cache \ {u}
          /\ step(w, "cache", Collecting("users", {}, worker[w].todo \ {u},
                                         worker[w].removed \cup {u}))
    /\ UNCHANGED <<active, disk, spool, connVars, serviceVars, ch, arrived, spoolTx, mgmt, halting,
                   held, raced>>

(* The end of the cursor; a cursor under which a bucket was deleted may     *)
(* end early.                                                              *)
commitVacuum(w) ==
    /\ worker[w].at = "users"
    /\ worker[w].todo = {} \/ worker[w].removed # {}
    /\ step(w, "users", AtSelect)
    /\ spool' = [u \in Users |-> IF u \in worker[w].removed THEN NoSpool ELSE spool[u]]
    /\ spoolTx' = None
    /\ UNCHANGED <<active, dbVars, connVars, serviceVars, ch, arrived, mgmt, halting, held, raced>>

-----------------------------------------------------------------------------
(* A client's session, as far as the provider takes part in it. *)
client(u) ==
    /\ \/ Open /\ u \in active /\ (connect(u) \/ reauth(u))
       \/ Add(u) \/ addToCache(u)
       \/ onInitializedConn(u) \/ disconnect(u) \/ onClosedConn(u)
    /\ held' = IF u \in init' THEN held ELSE [held EXCEPT ![u] = {}]
    /\ UNCHANGED <<active, serviceVars, ch, arrived, worker, spoolTx, mgmt, halting>>
    /\ noteRace

(* RetrieveMessage: what is in the spool is passed on and removed. *)
retrieve(u) ==
    /\ u \in init /\ auth[u] = "ok" /\ spoolTx = None
    /\ spool[u] # NoSpool
    /\ \E m \in spool[u] : /\ spool' = [spool EXCEPT ![u] = @ \ {m}]
                           /\ held' = [held EXCEPT ![u] = @ \ {m}]
    /\ UNCHANGED <<active, dbVars, connVars, serviceVars, ch, arrived, worker, spoolTx, mgmt, halting, raced>>

(* onRemoveUser: userDB.Remove, in two steps, and spool.Remove.  ADD_USER, *)
(* UPDATE_USER and SET_USER_IDENTITY with a key change nothing: a key in   *)
(* PEM has blanks, and is not an argument of the line the server reads.    *)
onRemoveUser(u) ==
    /\ Open /\ mgmt = Idle /\ u \in disk
    /\ disk' = disk \ {u}
    /\ mgmt' = Removing("cache", u)
    /\ UNCHANGED <<active, cache, spool, connVars, serviceVars, ch, arrived, worker, spoolTx, halting, held>>

removeFromCache ==
    /\ mgmt.at = "cache"
    /\ cache' = cache \ {mgmt.user}
    /\ mgmt' = Removing("spool", mgmt.user)
    /\ UNCHANGED <<active, disk, spool, connVars, serviceVars, ch, arrived, worker, spoolTx, halting, held>>

removeSpool ==
    /\ mgmt.at = "spool" /\ spoolTx = None
    /\ spool' = [spool EXCEPT ![mgmt.user] = NoSpool]
    /\ held' = [held EXCEPT ![mgmt.user] = {}]
    /\ mgmt' = Idle
    /\ UNCHANGED <<active, dbVars, connVars, serviceVars, ch, arrived, worker, spoolTx, halting>>

management ==
    /\ (\E u \in Users : onRemoveUser(u)) \/ removeFromCache \/ removeSpool
    /\ noteRace

-----------------------------------------------------------------------------
(* server.halt: the management interface and the listeners are halted      *)
(* first; provider.Halt waits for its workers, for the built-in services,  *)
(* for the plugins, and closes the databases.                              *)
halt ==
    /\ Running /\ halting' = "listeners"
    /\ UNCHANGED <<active, userVars, serviceVars, ch, arrived, worker, spoolTx, mgmt, held, raced>>

haltNext ==
    /\ \/ /\ halting = "listeners" /\ halting' = "workers"
          /\ mgmt = Idle /\ \A u \in Users : auth[u] = "no"
       \/ /\ halting = "workers" /\ halting' = "services"
          /\ \A w \in Workers : worker[w] = Halted
       \/ /\ halting = "services" /\ halting' = "plugins"
          /\ \A k \in KaetzchenWorkers : kw[k] = "halted"
       \/ /\ halting = "plugins" /\ halting' = "done"
          /\ PluginHalted
    /\ UNCHANGED <<active, userVars, serviceVars, ch, arrived, worker, spoolTx, mgmt, held, raced>>

haltWorker(w) ==
    /\ halting = "workers" /\ step(w, "select", Halted)
    /\ UNCHANGED <<active, userVars, serviceVars, ch, arrived, spoolTx, mgmt, halting, held, raced>>

(* New, after a crash or a shutdown: what is on disk remains, packets in   *)
(* memory are gone.                                                        *)
New ==
    /\ Running \/ halting = "done"
    /\ reopen /\ serviceNew
    /\ ch' = <<>> /\ worker' = [w \in Workers |-> AtSelect] /\ spoolTx' = None
    /\ mgmt' = Idle /\ halting' = "no"
    /\ held' = [u \in Users |-> {}] /\ raced' = FALSE
    /\ UNCHANGED <<active, arrived>>

-----------------------------------------------------------------------------
workerStep(w) ==
    \/ drop(w) \/ toKaetzchen(w) \/ toPlugin(w) \/ OnKaetzchen(w) \/ toUser(w) \/ store(w)
    \/ beginVacuum(w) \/ vacuumUser(w) \/ vacuumCache(w) \/ commitVacuum(w)

(* A step of the services. *)
pluginStep ==
    /\ \/ pluginTake \/ pluginWrite \/ sendworker \/ reaper \/ logPluginStderr
       \/ readerFails \/ unregister
       \/ halting = "plugins" /\ (haltPluginWorker \/ haltSendworker)
    /\ UNCHANGED <<userVars, providerVars>>

processStep == Plugin \in active /\ (OnCommand \/ exit) /\ UNCHANGED <<userVars, providerVars>>

kaetzchenStep(k) ==
    /\ processKaetzchen(k) \/ (halting = "services" /\ haltKaetzchen(k))
    /\ UNCHANGED <<userVars, providerVars>>

Next ==
    \/ OnPacket \/ management \/ halt \/ haltNext \/ New \/ pluginStep \/ processStep
    \/ \E w \in Workers : workerStep(w) \/ gcEphemeralClients(w) \/ haltWorker(w)
    \/ \E k \in KaetzchenWorkers : kaetzchenStep(k)
    \/ \E u \in Users : client(u) \/ retrieve(u)

(* Goroutines that can run do.  Nothing makes a process answer or a client *)
(* act, but the listeners close the connections.                           *)
Fairness ==
    /\ WF_vars(management /\ mgmt # Idle)
    /\ WF_vars(haltNext) /\ WF_vars(pluginStep)
    /\ \A w \in Workers : WF_vars(workerStep(w)) /\ WF_vars(haltWorker(w))
    /\ \A k \in KaetzchenWorkers : WF_vars(kaetzchenStep(k))
    /\ \A u \in Users : WF_vars(~Running /\ client(u))

Spec == Init /\ [][Next]_vars /\ Fairness

-----------------------------------------------------------------------------
(* Nothing that changes users or spools is under way. *)
Quiet ==
    /\ mgmt = Idle /\ spoolTx = None
    /\ \A u \in Users : auth[u] # "cache"
    /\ \A w \in Workers : worker[w].at # "store"

(* What was stored for a user while their connection was initialized stays *)
(* in the spool until they retrieve it, as long as the connection lasts    *)
(* and nobody removes the user: the collection of ephemeral clients        *)
(* (VacuumExpired with the identities of connectedClients) never takes it. *)
KeptWhileConnected ==
    \A u \in Users : held[u] # {} => spool[u] # NoSpool /\ held[u] \subseteq spool[u]

(* Between changes the cache is what the database holds and every spool    *)
(* has its user, so that no client is refused that was removed, no packet  *)
(* is stored for nobody, and VacuumExpired, which stops at the first user  *)
(* it does not find, goes through; a crash in the middle of a collection   *)
(* is repaired by the restart.  The exception is a REMOVE_USER while the   *)
(* same user is added or a worker stores or collects, until a restart.     *)
Consistent == Quiet /\ ~raced => cache = disk /\ Spools \subseteq disk

(* provider.Halt returns, with requests in the queues and whatever the     *)
(* plugin does, unless the plugin's worker waits for a writer that is gone *)
(* (processKaetzchen sends on WriteChan without looking at HaltCh).        *)
ShutdownCompletes == halting = "listeners" ~> (halting = "done" \/ WriterGone)
====
