--------------------------- MODULE ProviderProofs ---------------------------
(***************************************************************************)
(* Proofs about the users and the spools of a provider, for any number of  *)
(* users and packets.  Collecting and storing exclude each other because   *)
(* one worker does both: the theorems are about NumProviderWorkers = 1.    *)
(***************************************************************************)
EXTENDS Provider, TLAPS

OneWorker == \A v, w \in Workers : v = w

WorkerStates ==
    {AtSelect, Halted} \cup [at : {"plugin", "store"}, pkt : Packet]
    \cup [at : {"vacuum", "users", "cache"}, connected : SUBSET Users,
          todo : SUBSET Users, removed : SUBSET Users]

UsersOK == disk \subseteq Users /\ cache \subseteq Users /\ init \subseteq Users
SpoolOK == /\ spool \in [Users -> (SUBSET (1..MaxPackets)) \cup {NoSpool}]
           /\ held \in [Users -> SUBSET (1..MaxPackets)]
AuthOK  == auth \in [Users -> Stages]
WorkOK  == worker \in [Workers -> WorkerStates] /\ ch \in Seq(Packet)
MgmtOK  == mgmt \in {Idle} \cup [at : {"cache", "spool"}, user : Users]

(* The write transaction is that of the worker that collects. *)
TxOK ==
    \A w \in Workers :
        /\ worker[w].at \in {"users", "cache"} <=> spoolTx # None
        /\ worker[w].at = "cache" => worker[w].todo # {}

TypeOK == UsersOK /\ SpoolOK /\ AuthOK /\ WorkOK /\ MgmtOK /\ TxOK

-----------------------------------------------------------------------------
(* What KeptWhileConnected rests on: what is held is of a connected user,  *)
(* and not of one that the collection goes through.                        *)
HeldOK ==
    \A u \in Users : held[u] # {} =>
        /\ u \in init /\ spool[u] # NoSpool /\ held[u] \subseteq spool[u]
        /\ \A w \in Workers :
              /\ worker[w].at = "vacuum" => u \in worker[w].connected
              /\ worker[w].at \in {"users", "cache"} =>
                    u \notin worker[w].todo \cup worker[w].removed

-----------------------------------------------------------------------------
(* The user that udb.Remove has taken out of the database and not yet out  *)
(* of the cache.                                                           *)
current(w) == CHOOSE x \in worker[w].todo : TRUE
vacuuming(u) == \E w \in Workers : worker[w].at = "cache" /\ u = current(w)
removing(u) == mgmt # Idle /\ u = mgmt.user
removed(u) == \E w \in Workers : worker[w].at \in {"users", "cache"} /\ u \in worker[w].removed

(* The cache lags behind the database by what is under way. *)
CacheOK ==
    /\ \A u \in disk : u \in cache \/ auth[u] = "cache"
    /\ \A u \in cache : u \in disk \/ vacuuming(u) \/ (removing(u) /\ mgmt.at = "cache")
    /\ \A u \in Users : auth[u] = "cache" =>
          u \in disk /\ u \notin cache /\ (spool[u] # NoSpool => removed(u))

(* And so do the spools. *)
SpoolsOK ==
    \A u \in Spools : u \in disk \/ vacuuming(u) \/ removing(u) \/ removed(u)

(* What a collection or a removal has still to do is there to be done. *)
CollectOK ==
    \A w \in Workers :
        /\ worker[w].at = "store" => worker[w].pkt.to \in cache \cap disk
        /\ worker[w].at = "users" => worker[w].todo \subseteq disk \cap Spools
        /\ worker[w].at = "cache" =>
              /\ worker[w].todo \ {current(w)} \subseteq disk
              /\ worker[w].todo \subseteq Spools
              /\ current(w) \notin disk /\ current(w) \in cache
        /\ worker[w].at \in {"users", "cache"} => worker[w].todo \cap worker[w].removed = {}

RemoveOK == mgmt # Idle => mgmt.user \notin disk

UserInv == ~raced => ~Overlaps /\ CacheOK /\ SpoolsOK /\ CollectOK /\ RemoveOK

IInv == TypeOK /\ HeldOK /\ UserInv

-----------------------------------------------------------------------------
Plain == {"select", "plugin", "halted"}
Collectors == {"vacuum", "users", "cache"}
CollectStates == [at : Collectors, connected : SUBSET Users,
                  todo : SUBSET Users, removed : SUBSET Users]

(* The states of a worker, by where it is. *)
LEMMA WorkerFacts ==
    ASSUME NEW s \in WorkerStates
    PROVE  /\ s.at \in Plain \cup {"store"} \cup Collectors
           /\ s.at = "select" => s = AtSelect
           /\ s.at = "halted" => s = Halted
           /\ s.at \in {"plugin", "store"} => s.pkt \in Packet /\ s.pkt.id \in 1..MaxPackets
           /\ s.at \in Collectors => s \in CollectStates
<1>1. CASE s \in {AtSelect, Halted}
  BY <1>1 DEF AtSelect, Halted, Plain, Collectors
<1>2. CASE s \in [at : {"plugin", "store"}, pkt : Packet]
  <2>1. s.at \in {"plugin", "store"} /\ s.pkt \in Packet
    BY <1>2
  <2>2. s.pkt.id \in 1..MaxPackets
    BY <2>1 DEF Packet
  <2> QED
    BY <2>1, <2>2 DEF Plain, Collectors
<1>3. CASE s \in CollectStates
  BY <1>3 DEF CollectStates, Plain, Collectors
<1> QED
  BY <1>1, <1>2, <1>3 DEF WorkerStates, CollectStates, Collectors

(* The packet at the head of the queue, and the queue after it. *)
LEMMA QueueFacts ==
    ASSUME WorkOK, ch # <<>>
    PROVE  Head(ch) \in Packet /\ Tail(ch) \in Seq(Packet)
BY DEF WorkOK

(* A removal that is under way has a user. *)
LEMMA MgmtFacts ==
    ASSUME MgmtOK
    PROVE  /\ mgmt # Idle => mgmt.user \in Users /\ mgmt.at \in {"cache", "spool"}
           /\ mgmt.at \in {"cache", "spool"} => mgmt # Idle
BY DEF MgmtOK, Idle

(* The next user of a collection. *)
LEMMA CurrentFacts ==
    ASSUME NEW w \in Workers, worker[w].todo # {}
    PROVE  current(w) \in worker[w].todo
BY DEF current

-----------------------------------------------------------------------------
(* Nothing that the invariant is about changes. *)
LEMMA Frame ==
    ASSUME IInv, ch' \in Seq(Packet),
           UNCHANGED <<userVars, worker, spoolTx, mgmt, held>>, ~raced' => ~raced
    PROVE  IInv'
<1>1. UNCHANGED <<disk, cache, spool, auth, init, worker, spoolTx, mgmt, held>>
  BY DEF userVars
<1>2. TypeOK'
  BY <1>1 DEF IInv, TypeOK, UsersOK, SpoolOK, AuthOK, WorkOK, MgmtOK, TxOK
<1>3. HeldOK'
  BY <1>1 DEF IInv, HeldOK
<1>4. Overlaps' = Overlaps
  BY <1>1 DEF Overlaps
<1>5. CacheOK' = CacheOK
  BY <1>1 DEF CacheOK, vacuuming, removing, removed, current
<1>6. SpoolsOK' = SpoolsOK
  BY <1>1 DEF SpoolsOK, Spools, vacuuming, removing, removed, current
<1>7. CollectOK' = CollectOK /\ RemoveOK' = RemoveOK
  BY <1>1 DEF CollectOK, RemoveOK, Spools, current
<1> QED
  BY <1>1, <1>2, <1>3, <1>4, <1>5, <1>6, <1>7 DEF IInv, UserInv

(* The one worker goes to another state. *)
LEMMA WorkerTo ==
    ASSUME OneWorker, WorkOK, NEW w \in Workers, NEW s \in WorkerStates,
           worker' = [worker EXCEPT ![w] = s]
    PROVE  /\ worker' \in [Workers -> WorkerStates]
           /\ \A v \in Workers : v = w /\ worker'[v] = s /\ worker[v] = worker[w]
BY DEF OneWorker, WorkOK

(* The worker goes between states in which it neither stores nor collects. *)
LEMMA PlainWorker ==
    ASSUME OneWorker, IInv, NEW w \in Workers, NEW s \in WorkerStates,
           worker[w].at \in Plain, s.at \in Plain, worker' = [worker EXCEPT ![w] = s],
           ch' \in Seq(Packet), UNCHANGED <<userVars, spoolTx, mgmt, held, raced>>
    PROVE  IInv'
<1>1. UNCHANGED <<disk, cache, spool, auth, init, spoolTx, mgmt, held, raced>>
  BY DEF userVars
<1>2. /\ worker' \in [Workers -> WorkerStates]
      /\ \A v \in Workers : worker'[v].at \in Plain /\ worker[v].at \in Plain
  BY WorkerTo, Zenon DEF IInv, TypeOK
<1>3. \A a \in Plain : a \notin {"vacuum", "users", "cache", "store"}
  BY DEF Plain
<1>4. TypeOK'
  BY <1>1, <1>2, <1>3 DEF IInv, TypeOK, UsersOK, SpoolOK, AuthOK, WorkOK, MgmtOK, TxOK
<1>5. HeldOK'
  BY <1>1, <1>2, <1>3 DEF IInv, HeldOK
<1>6. ~raced => ~Overlaps'
  BY <1>1, <1>2 DEF IInv, UserInv, Overlaps, Plain
<1>7. /\ \A u : vacuuming(u)' = FALSE /\ vacuuming(u) = FALSE
      /\ \A u : removed(u)' = FALSE /\ removed(u) = FALSE
      /\ \A u : removing(u)' = removing(u)
  BY <1>1, <1>2, <1>3 DEF vacuuming, removed, removing
<1>8. CacheOK => CacheOK'
  BY <1>1, <1>7 DEF CacheOK
<1>9. SpoolsOK => SpoolsOK'
  BY <1>1, <1>7 DEF SpoolsOK, Spools
<1>10. CollectOK'
  BY <1>2, <1>3 DEF CollectOK
<1>11. RemoveOK => RemoveOK'
  BY <1>1 DEF RemoveOK
<1> QED
  BY <1>1, <1>4, <1>5, <1>6, <1>8, <1>9, <1>10, <1>11 DEF IInv, UserInv

(* drop, toKaetzchen, toPlugin, OnKaetzchen and the end of a worker. *)
LEMMA PlainSteps ==
    ASSUME OneWorker, IInv, NEW w \in Workers,
           \/ drop(w) \/ toKaetzchen(w) \/ toPlugin(w) \/ OnKaetzchen(w) \/ haltWorker(w)
    PROVE  IInv'
<1>1. WorkOK
  BY DEF IInv, TypeOK
<1>2. AtSelect \in WorkerStates /\ AtSelect.at = "select" /\ Halted \in WorkerStates /\ Halted.at = "halted"
  BY DEF AtSelect, Halted, WorkerStates
<1>3. CASE drop(w) \/ toKaetzchen(w)
  <2>1. /\ worker[w].at = "select" /\ worker' = [worker EXCEPT ![w] = AtSelect]
        /\ ch # <<>> /\ ch' = Tail(ch) /\ UNCHANGED <<userVars, spoolTx, mgmt, held, raced>>
    BY <1>3 DEF drop, toKaetzchen, step
  <2>2. ch' \in Seq(Packet)
    BY <1>1, <2>1, QueueFacts
  <2> QED
    BY <1>2, <2>1, <2>2, PlainWorker, Zenon DEF Plain
<1>4. CASE toPlugin(w)
  <2> DEFINE s == With("plugin", Head(ch))
  <2>1. /\ worker[w].at = "select" /\ worker' = [worker EXCEPT ![w] = s]
        /\ ch # <<>> /\ ch' = Tail(ch) /\ UNCHANGED <<userVars, spoolTx, mgmt, held, raced>>
    BY <1>4 DEF toPlugin, step
  <2>2. ch' \in Seq(Packet) /\ Head(ch) \in Packet
    BY <1>1, <2>1, QueueFacts
  <2>3. s \in WorkerStates /\ s.at = "plugin"
    BY <2>2 DEF WorkerStates, With
  <2> QED
    BY <2>1, <2>2, <2>3, PlainWorker, Zenon DEF Plain
<1>5. CASE OnKaetzchen(w)
  <2>1. /\ worker[w].at = "plugin" /\ worker' = [worker EXCEPT ![w] = AtSelect]
        /\ UNCHANGED <<userVars, ch, spoolTx, mgmt, held, raced>>
    BY <1>5 DEF OnKaetzchen, step
  <2> QED
    BY <1>1, <1>2, <2>1, PlainWorker, Zenon DEF Plain, WorkOK
<1>6. CASE haltWorker(w)
  <2>1. /\ worker[w].at = "select" /\ worker' = [worker EXCEPT ![w] = Halted]
        /\ UNCHANGED <<userVars, ch, spoolTx, mgmt, held, raced>>
    BY <1>6 DEF haltWorker, step
  <2> QED
    BY <1>1, <1>2, <2>1, PlainWorker, Zenon DEF Plain, WorkOK
<1> QED
  BY <1>3, <1>4, <1>5, <1>6

-----------------------------------------------------------------------------
(* The worker begins to store a packet, or to collect. *)
LEMMA BeginWork ==
    ASSUME OneWorker, IInv, NEW w \in Workers, NEW s \in WorkerStates,
           worker[w].at = "select", s.at \in {"store", "vacuum"},
           s.at = "store" => s.pkt.to \in cache,
           s.at = "vacuum" => s.connected = init,
           worker' = [worker EXCEPT ![w] = s], ch' \in Seq(Packet),
           UNCHANGED <<userVars, spoolTx, mgmt, held>>, noteRace
    PROVE  IInv'
<1>1. UNCHANGED <<disk, cache, spool, auth, init, spoolTx, mgmt, held>>
  BY DEF userVars
<1>2. /\ worker' \in [Workers -> WorkerStates]
      /\ \A v \in Workers : worker'[v] = s /\ worker[v].at = "select"
  BY WorkerTo, Zenon DEF IInv, TypeOK
<1>3. TypeOK'
  BY <1>1, <1>2 DEF IInv, TypeOK, UsersOK, SpoolOK, AuthOK, WorkOK, MgmtOK, TxOK
<1>4. HeldOK'
  BY <1>1, <1>2 DEF IInv, HeldOK
<1>5. ~raced' => ~raced /\ ~Overlaps'
  BY Zenon DEF noteRace
<1>6. ~raced' => mgmt = Idle
  BY <1>1, <1>2, <1>5 DEF Overlaps
<1>7. /\ \A u : vacuuming(u)' = FALSE /\ vacuuming(u) = FALSE
      /\ \A u : removed(u)' = FALSE /\ removed(u) = FALSE
      /\ \A u : removing(u)' = removing(u)
  BY <1>1, <1>2 DEF vacuuming, removed, removing
<1>8. CacheOK => CacheOK'
  BY <1>1, <1>7 DEF CacheOK
<1>9. SpoolsOK => SpoolsOK'
  BY <1>1, <1>7 DEF SpoolsOK, Spools
<1>10. CacheOK /\ mgmt = Idle => cache \subseteq disk
  BY <1>7 DEF CacheOK, removing
<1>11. CacheOK /\ mgmt = Idle => CollectOK'
  BY <1>1, <1>2, <1>10 DEF CollectOK
<1>12. mgmt = Idle => RemoveOK'
  BY <1>1 DEF RemoveOK
<1> QED
  BY <1>3, <1>4, <1>5, <1>6, <1>8, <1>9, <1>11, <1>12 DEF IInv, UserInv

(* toUser. *)
LEMMA ToUserStep ==
    ASSUME OneWorker, IInv, NEW w \in Workers, toUser(w)
    PROVE  IInv'
<1> DEFINE s == With("store", Head(ch))
<1>1. /\ worker[w].at = "select" /\ worker' = [worker EXCEPT ![w] = s]
      /\ ch # <<>> /\ ch' = Tail(ch) /\ Head(ch).to \in cache
      /\ UNCHANGED <<userVars, spoolTx, mgmt, held>> /\ noteRace
  BY DEF toUser, step, Exists
<1>2. ch' \in Seq(Packet) /\ Head(ch) \in Packet
  BY <1>1, QueueFacts DEF IInv, TypeOK
<1>3. s \in WorkerStates /\ s.at = "store" /\ s.pkt = Head(ch)
  BY <1>2 DEF WorkerStates, With
<1> HIDE DEF s
<1> QED
  BY <1>1, <1>2, <1>3, BeginWork, Zenon

(* gcEphemeralClients. *)
LEMMA GcStep ==
    ASSUME OneWorker, IInv, NEW w \in Workers, gcEphemeralClients(w)
    PROVE  IInv'
<1> DEFINE s == Collecting("vacuum", GetConnIdentities, {}, {})
<1>1. /\ worker[w].at = "select" /\ UNCHANGED <<userVars, ch, spoolTx, mgmt, held>> /\ noteRace
  BY DEF gcEphemeralClients, step
<1>2. ch' \in Seq(Packet) /\ init \subseteq Users
  BY <1>1 DEF IInv, TypeOK, WorkOK, UsersOK
<1>3. CASE IdentitiesFail
  <2>1. worker' = [worker EXCEPT ![w] = AtSelect] /\ worker[w] \in WorkerStates
    BY <1>3 DEF gcEphemeralClients, step, IInv, TypeOK, WorkOK
  <2>2. worker[w] = AtSelect
    BY <1>1, <2>1, WorkerFacts
  <2>3. worker' = worker
    BY <2>1, <2>2 DEF IInv, TypeOK, WorkOK
  <2>4. ~raced' => ~raced
    BY <1>1, Zenon DEF noteRace
  <2> QED
    BY <1>1, <1>2, <2>3, <2>4, Frame
<1>4. CASE ~IdentitiesFail
  <2>1. worker' = [worker EXCEPT ![w] = s]
    BY <1>4 DEF gcEphemeralClients, step
  <2>2. s \in WorkerStates /\ s.at = "vacuum" /\ s.connected = init
    BY <1>2 DEF WorkerStates, Collecting, GetConnIdentities
  <2> HIDE DEF s
  <2> QED
    BY <1>1, <1>2, <2>1, <2>2, BeginWork, Zenon
<1> QED
  BY <1>3, <1>4

(* A worker at its select, or with nothing the invariant speaks of. *)
LEMMA SelectState == AtSelect \in WorkerStates /\ AtSelect.at = "select"
BY DEF AtSelect, WorkerStates

(* store: the user is in the database, so the spool has its user. *)
LEMMA StoreStep ==
    ASSUME OneWorker, IInv, NEW w \in Workers, store(w)
    PROVE  IInv'
<1> DEFINE u == worker[w].pkt.to
           m == worker[w].pkt.id
<1>1. /\ worker[w].at = "store" /\ worker' = [worker EXCEPT ![w] = AtSelect] /\ spoolTx = None
      /\ spool' = doStore(u, m)
      /\ held' = IF u \in init THEN [held EXCEPT ![u] = @ \cup {m}] ELSE held
      /\ UNCHANGED <<disk, cache, auth, init, ch, spoolTx, mgmt, raced>>
  BY DEF store, step, dbVars, connVars
<1>2. /\ worker' \in [Workers -> WorkerStates]
      /\ \A v \in Workers : /\ v = w /\ worker'[v].at = "select" /\ worker[v].at = "store"
  BY <1>1, WorkerTo, SelectState, Zenon DEF IInv, TypeOK
<1>3. m \in 1..MaxPackets
  BY <1>1, WorkerFacts DEF IInv, TypeOK, WorkOK
<1>4. SpoolOK
  BY DEF IInv, TypeOK
<1> HIDE DEF u, m
<1>5. /\ spool' \in [Users -> (SUBSET (1..MaxPackets)) \cup {NoSpool}]
      /\ \A x \in Users : x # u => spool'[x] = spool[x]
      /\ u \in Users => spool'[u] # NoSpool /\ m \in spool'[u]
      /\ u \in Users /\ spool[u] # NoSpool => spool[u] \subseteq spool'[u]
  BY <1>1, <1>3, <1>4, ProviderAssumption, Zenon DEF doStore, SpoolOK
<1>6. /\ held' \in [Users -> SUBSET (1..MaxPackets)]
      /\ \A x \in Users : x # u => held'[x] = held[x]
      /\ u \in Users => held'[u] = IF u \in init THEN held[u] \cup {m} ELSE held[u]
  BY <1>1, <1>3, <1>4, Zenon DEF SpoolOK
<1>7. TypeOK'
  BY <1>1, <1>2, <1>5, <1>6 DEF IInv, TypeOK, UsersOK, SpoolOK, AuthOK, WorkOK, MgmtOK, TxOK
<1>8. HeldOK'
  <2> SUFFICES ASSUME NEW x \in Users, held'[x] # {}
               PROVE  x \in init /\ spool'[x] # NoSpool /\ held'[x] \subseteq spool'[x]
    BY <1>1, <1>2 DEF HeldOK
  <2>1. held[x] # {} => x \in init /\ spool[x] # NoSpool /\ held[x] \subseteq spool[x]
    BY DEF IInv, HeldOK
  <2>2. CASE x # u
    BY <1>5, <1>6, <2>1, <2>2
  <2>3. CASE x = u
    BY <1>5, <1>6, <2>1, <2>3
  <2> QED
    BY <2>2, <2>3
<1>9. ASSUME ~raced PROVE ~Overlaps' /\ CacheOK' /\ SpoolsOK' /\ CollectOK' /\ RemoveOK'
  <2>1. mgmt = Idle /\ u \in cache /\ u \in disk
    BY <1>1, <1>2, <1>9 DEF IInv, UserInv, Overlaps, CollectOK, u
  <2>2. /\ \A x : vacuuming(x)' = FALSE /\ vacuuming(x) = FALSE
        /\ \A x : removed(x)' = FALSE /\ removed(x) = FALSE
        /\ \A x : removing(x)' = FALSE /\ removing(x) = FALSE
    BY <1>1, <1>2, <2>1 DEF vacuuming, removed, removing
  <2>3. CacheOK /\ SpoolsOK
    BY <1>9 DEF IInv, UserInv
  <2>4. CacheOK'
    BY <1>1, <1>5, <2>1, <2>2, <2>3, Zenon DEF CacheOK
  <2>5. SpoolsOK'
    BY <1>1, <1>5, <2>1, <2>2, <2>3 DEF SpoolsOK, Spools
  <2> QED
    BY <1>1, <1>2, <2>1, <2>4, <2>5 DEF Overlaps, CollectOK, RemoveOK
<1> QED
  BY <1>1, <1>7, <1>8, <1>9 DEF IInv, UserInv

(* beginVacuum: the expired spools are of users in the database. *)
LEMMA BeginVacuumStep ==
    ASSUME OneWorker, IInv, NEW w \in Workers, beginVacuum(w)
    PROVE  IInv'
<1> DEFINE todo == Spools \ worker[w].connected
           s == Collecting("users", {}, todo, {})
<1>1. /\ worker[w].at = "vacuum" /\ worker' = [worker EXCEPT ![w] = s] /\ spoolTx' = w
      /\ UNCHANGED <<disk, cache, spool, auth, init, ch, mgmt, held, raced>>
  BY DEF beginVacuum, step, userVars
<1>2. /\ s \in WorkerStates /\ s.at = "users" /\ s.todo = todo /\ s.removed = {}
  BY DEF WorkerStates, Collecting, Spools
<1> HIDE DEF s, todo
<1>3. /\ worker' \in [Workers -> WorkerStates]
      /\ \A v \in Workers : v = w /\ worker'[v] = s /\ worker[v].at = "vacuum"
  BY <1>1, <1>2, WorkerTo, Zenon DEF IInv, TypeOK
<1>4. TypeOK'
  BY <1>1, <1>2, <1>3, ProviderAssumption DEF IInv, TypeOK, UsersOK, SpoolOK, AuthOK, WorkOK, MgmtOK, TxOK
<1>5. HeldOK'
  BY <1>1, <1>2, <1>3, Zenon DEF IInv, HeldOK, todo
<1>6. ASSUME ~raced PROVE ~Overlaps' /\ CacheOK' /\ SpoolsOK' /\ CollectOK' /\ RemoveOK'
  <2>1. mgmt = Idle
    BY <1>3, <1>6 DEF IInv, UserInv, Overlaps
  <2>2. /\ \A x : vacuuming(x)' = FALSE /\ vacuuming(x) = FALSE
        /\ \A x : removed(x)' = FALSE /\ removed(x) = FALSE
        /\ \A x : removing(x)' = FALSE /\ removing(x) = FALSE
    BY <1>1, <1>2, <1>3, <2>1, Zenon DEF vacuuming, removed, removing
  <2>3. CacheOK /\ SpoolsOK
    BY <1>6 DEF IInv, UserInv
  <2>4. CacheOK'
    BY <1>1, <2>2, <2>3 DEF CacheOK
  <2>5. Spools \subseteq disk /\ Spools' = Spools
    BY <1>1, <2>2, <2>3 DEF SpoolsOK, Spools
  <2>6. SpoolsOK'
    BY <1>1, <2>5 DEF SpoolsOK
  <2>7. CollectOK'
    BY <1>1, <1>2, <1>3, <2>5 DEF CollectOK, todo
  <2> QED
    BY <1>1, <2>1, <2>4, <2>6, <2>7 DEF Overlaps, RemoveOK
<1> QED
  BY <1>1, <1>4, <1>5, <1>6 DEF IInv, UserInv

(* vacuumUser: out of the database; without a race the user is there. *)
LEMMA VacuumUserStep ==
    ASSUME OneWorker, IInv, NEW w \in Workers, vacuumUser(w)
    PROVE  IInv'
<1> DEFINE u == current(w)
           W == worker[w]
           s == [W EXCEPT !.at = "cache"]
<1>1. /\ W.at = "users" /\ W.todo # {} /\ u \in W.todo
      /\ UNCHANGED <<cache, spool, auth, init, ch, mgmt, held, raced>>
  BY CurrentFacts DEF vacuumUser, connVars
<1>2. W \in CollectStates
  BY <1>1, WorkerFacts, Zenon DEF IInv, TypeOK, WorkOK, Collectors
<1>3. CASE u \in disk
  <2>1. disk' = disk \ {u} /\ spoolTx' = spoolTx /\ worker' = [worker EXCEPT ![w] = s]
    BY <1>3 DEF vacuumUser, step, current
  <2>2. /\ s \in WorkerStates /\ s.at = "cache" /\ s.todo = W.todo /\ s.removed = W.removed
    BY <1>2 DEF CollectStates, WorkerStates, Collectors
  <2> HIDE DEF s
  <2>3. /\ worker' \in [Workers -> WorkerStates]
        /\ \A v \in Workers : v = w /\ worker'[v] = s /\ worker[v] = W
    BY <2>1, <2>2, WorkerTo, Zenon DEF IInv, TypeOK
  <2> HIDE DEF W
  <2>4. TypeOK'
    BY <1>1, <2>1, <2>2, <2>3, Zenon DEF IInv, TypeOK, UsersOK, SpoolOK, AuthOK, WorkOK, MgmtOK, TxOK
  <2>5. HeldOK'
    BY <1>1, <2>2, <2>3 DEF IInv, HeldOK
  <2>6. ASSUME ~raced PROVE ~Overlaps' /\ CacheOK' /\ SpoolsOK' /\ CollectOK' /\ RemoveOK'
    <3>1. mgmt = Idle
      BY <1>1, <2>3, <2>6 DEF IInv, UserInv, Overlaps
    <3>2. current(w)' = u
      BY <2>2, <2>3 DEF current, W
    <3> HIDE DEF u
    <3>3. /\ \A x : vacuuming(x)' <=> x = u
          /\ \A x : ~vacuuming(x)
          /\ \A x : removed(x)' <=> removed(x)
          /\ \A x : ~removing(x)' /\ ~removing(x)
      BY <1>1, <2>2, <2>3, <3>1, <3>2 DEF vacuuming, removed, removing
    <3>4. CacheOK /\ SpoolsOK /\ CollectOK
      BY <2>6 DEF IInv, UserInv
    <3>5. W.todo \subseteq disk \cap Spools /\ W.todo \cap W.removed = {}
      BY <1>1, <2>3, <3>4 DEF CollectOK
    <3>6. ~removed(u) /\ u \in Spools
      BY <1>1, <2>3, <3>5 DEF removed
    <3>7. auth[u] # "cache" /\ u \in cache
      BY <1>3, <3>4, <3>6, Zenon DEF CacheOK, Spools, u
    <3>8. CacheOK'
      BY <1>1, <2>1, <3>3, <3>4, <3>7 DEF CacheOK
    <3>9. Spools' = Spools
      BY <1>1 DEF Spools
    <3>10. SpoolsOK'
      BY <2>1, <3>3, <3>4, <3>9 DEF SpoolsOK
    <3>11. CollectOK'
      BY <1>1, <2>1, <2>2, <2>3, <3>2, <3>5, <3>7, <3>9 DEF CollectOK
    <3> QED
      BY <1>1, <3>1, <3>8, <3>10, <3>11, Zenon DEF Overlaps, RemoveOK
  <2> QED
    BY <1>1, <2>4, <2>5, <2>6 DEF IInv, UserInv
<1>4. CASE u \notin disk
  <2>1. disk' = disk /\ spoolTx' = None /\ worker' = [worker EXCEPT ![w] = AtSelect]
    BY <1>4 DEF vacuumUser, step, current
  <2>2. /\ worker' \in [Workers -> WorkerStates]
        /\ \A v \in Workers : v = w /\ worker'[v].at = "select"
    BY <2>1, SelectState, WorkerTo, Zenon DEF IInv, TypeOK
  <2>3. raced
    BY <1>1, <1>4 DEF IInv, UserInv, CollectOK
  <2>4. TypeOK'
    BY <1>1, <2>1, <2>2, Zenon DEF IInv, TypeOK, UsersOK, SpoolOK, AuthOK, WorkOK, MgmtOK, TxOK
  <2>5. HeldOK'
    BY <1>1, <2>2, Zenon DEF IInv, HeldOK
  <2> QED
    BY <1>1, <2>3, <2>4, <2>5, Zenon DEF IInv, UserInv
<1> QED
  BY <1>3, <1>4

(* vacuumCache: out of the cache, and marked as removed. *)
LEMMA VacuumCacheStep ==
    ASSUME OneWorker, IInv, NEW w \in Workers, vacuumCache(w)
    PROVE  IInv'
<1> DEFINE u == current(w)
           W == worker[w]
           s == Collecting("users", {}, W.todo \ {u}, W.removed \cup {u})
<1>1. /\ W.at = "cache" /\ cache' = cache \ {u} /\ worker' = [worker EXCEPT ![w] = s]
      /\ UNCHANGED <<disk, spool, auth, init, ch, mgmt, held, raced, spoolTx>>
  BY DEF vacuumCache, step, connVars, current
<1>2. W \in CollectStates /\ W.todo # {}
  BY <1>1, WorkerFacts DEF IInv, TypeOK, WorkOK, TxOK, Collectors
<1>3. u \in W.todo
  BY <1>2, CurrentFacts
<1>4. /\ s \in WorkerStates /\ s.at = "users" /\ s.todo = W.todo \ {u} /\ s.removed = W.removed \cup {u}
  BY <1>2, <1>3, Zenon DEF CollectStates, WorkerStates, Collecting
<1> HIDE DEF s
<1>5. /\ worker' \in [Workers -> WorkerStates]
      /\ \A v \in Workers : v = w /\ worker'[v] = s /\ worker[v] = W
  BY <1>1, <1>4, WorkerTo, Zenon DEF IInv, TypeOK
<1> HIDE DEF W
<1>6. TypeOK'
  BY <1>1, <1>4, <1>5, Zenon DEF IInv, TypeOK, UsersOK, SpoolOK, AuthOK, WorkOK, MgmtOK, TxOK
<1>7. HeldOK'
  <2>1. \A x \in Users : held[x] # {} => /\ x \in init /\ spool[x] # NoSpool
                                        /\ held[x] \subseteq spool[x]
                                        /\ x \notin W.todo \cup W.removed
    BY <1>1, <1>5 DEF IInv, HeldOK, W
  <2>2. \A x : x \notin W.todo \cup W.removed => x \notin s.todo \cup s.removed
    BY <1>3, <1>4
  <2>3. \A v \in Workers : worker'[v] = s
    BY <1>5, Zenon
  <2> QED
    BY <1>1, <1>4, <2>1, <2>2, <2>3 DEF HeldOK
<1>8. ASSUME ~raced PROVE ~Overlaps' /\ CacheOK' /\ SpoolsOK' /\ CollectOK' /\ RemoveOK'
  <2>1. mgmt = Idle
    BY <1>1, <1>5, <1>8, Zenon DEF IInv, UserInv, Overlaps
  <2>2. CacheOK /\ SpoolsOK /\ CollectOK
    BY <1>8 DEF IInv, UserInv
  <2>3. /\ W.todo \ {u} \subseteq disk /\ W.todo \subseteq Spools /\ u \notin disk
        /\ W.todo \cap W.removed = {}
    BY <1>1, <1>5, <2>2 DEF CollectOK
  <2>4. \A x : vacuuming(x) <=> x = u
    BY <1>1, <1>5, Zenon DEF vacuuming
  <2> HIDE DEF u
  <2>5. /\ \A x : ~vacuuming(x)'
        /\ \A x : removed(x)' <=> (removed(x) \/ x = u)
        /\ \A x : ~removing(x)' /\ ~removing(x)
    BY <1>1, <1>4, <1>5, <2>1, Zenon DEF vacuuming, removed, removing
  <2>6. CacheOK'
    BY <1>1, <2>2, <2>3, <2>4, <2>5, Zenon DEF CacheOK
  <2>7. Spools' = Spools
    BY <1>1 DEF Spools
  <2>8. SpoolsOK'
    BY <1>1, <2>2, <2>4, <2>5, <2>7, Zenon DEF SpoolsOK
  <2>9. CollectOK'
    BY <1>1, <1>3, <1>4, <1>5, <2>3, <2>7 DEF CollectOK
  <2> QED
    BY <1>1, <2>1, <2>6, <2>8, <2>9, Zenon DEF Overlaps, RemoveOK
<1> QED
  BY <1>1, <1>6, <1>7, <1>8 DEF IInv, UserInv

(* commitVacuum: the spools of those that were removed are gone. *)
LEMMA CommitVacuumStep ==
    ASSUME OneWorker, IInv, NEW w \in Workers, commitVacuum(w)
    PROVE  IInv'
<1> DEFINE W == worker[w]
<1>1. /\ W.at = "users" /\ worker' = [worker EXCEPT ![w] = AtSelect] /\ spoolTx' = None
      /\ spool' = [u \in Users |-> IF u \in W.removed THEN NoSpool ELSE spool[u]]
      /\ UNCHANGED <<disk, cache, auth, init, ch, mgmt, held, raced>>
  BY Zenon DEF commitVacuum, step, connVars, dbVars
<1>2. /\ worker' \in [Workers -> WorkerStates]
      /\ \A v \in Workers : v = w /\ worker'[v].at = "select" /\ worker[v] = W
  BY <1>1, SelectState, WorkerTo, Zenon DEF IInv, TypeOK
<1> HIDE DEF W
<1>3. TypeOK'
  BY <1>1, <1>2, Zenon DEF IInv, TypeOK, UsersOK, SpoolOK, AuthOK, WorkOK, MgmtOK, TxOK
<1>4. HeldOK'
  BY <1>1, <1>2, Zenon DEF IInv, HeldOK
<1>5. ASSUME ~raced PROVE ~Overlaps' /\ CacheOK' /\ SpoolsOK' /\ CollectOK' /\ RemoveOK'
  <2>1. mgmt = Idle
    BY <1>1, <1>2, <1>5 DEF IInv, UserInv, Overlaps
  <2>2. CacheOK /\ SpoolsOK /\ CollectOK
    BY <1>5 DEF IInv, UserInv
  <2>3. /\ \A x : ~vacuuming(x)' /\ ~vacuuming(x)
        /\ \A x : ~removed(x)' /\ (removed(x) <=> x \in W.removed)
        /\ \A x : ~removing(x)' /\ ~removing(x)
    BY <1>1, <1>2, <2>1 DEF vacuuming, removed, removing
  <2>4. CacheOK'
    BY <1>1, <2>2, <2>3, Zenon DEF CacheOK
  <2>5. SpoolsOK'
    BY <1>1, <2>2, <2>3 DEF SpoolsOK, Spools
  <2> QED
    BY <1>1, <1>2, <2>1, <2>4, <2>5 DEF Overlaps, RemoveOK, CollectOK
<1> QED
  BY <1>1, <1>3, <1>4, <1>5, Zenon DEF IInv, UserInv

-----------------------------------------------------------------------------
(* What a step of a client leaves alone: what is held is dropped with the  *)
(* connection, and the spools are as they were.                            *)
LEMMA ClientHeld ==
    ASSUME IInv, NEW u \in Users, NEW a \in Stages, auth' = [auth EXCEPT ![u] = a],
           init' \in {init, init \cup {u}, init \ {u}},
           held' = IF u \in init' THEN held ELSE [held EXCEPT ![u] = {}],
           disk' \in {disk, disk \cup {u}}, cache' \in {cache, cache \cup {u}},
           UNCHANGED <<spool, ch, worker, spoolTx, mgmt>>
    PROVE  TypeOK' /\ HeldOK'
<1>1. SpoolOK
  BY DEF IInv, TypeOK
<1>2. /\ held' \in [Users -> SUBSET (1..MaxPackets)]
      /\ \A x \in Users : held'[x] = IF x # u \/ u \in init' THEN held[x] ELSE {}
  BY <1>1 DEF SpoolOK
<1>3. SpoolOK'
  BY <1>1, <1>2 DEF SpoolOK
<1>4. TypeOK'
  BY <1>3 DEF IInv, TypeOK, UsersOK, AuthOK, WorkOK, MgmtOK, TxOK
<1>5. HeldOK'
  BY <1>2 DEF IInv, HeldOK
<1> QED
  BY <1>4, <1>5

(* A step of a client that is not one of Add. *)
LEMMA ClientPlain ==
    ASSUME IInv, NEW u \in Users, NEW a \in Stages, auth' = [auth EXCEPT ![u] = a],
           a # "cache", auth[u] # "cache",
           UNCHANGED <<disk, cache, spool, worker, mgmt>>, noteRace
    PROVE  UserInv'
<1> SUFFICES ASSUME ~raced' PROVE ~Overlaps' /\ CacheOK' /\ SpoolsOK' /\ CollectOK' /\ RemoveOK'
  BY DEF UserInv
<1>1. ~raced /\ ~Overlaps'
  BY Zenon DEF noteRace
<1>2. CacheOK /\ SpoolsOK /\ CollectOK /\ RemoveOK
  BY <1>1 DEF IInv, UserInv
<1>3. \A x : /\ vacuuming(x)' <=> vacuuming(x)
             /\ removed(x)' <=> removed(x)
             /\ removing(x)' <=> removing(x)
  BY DEF vacuuming, removed, removing, current
<1>4. \A x \in Users : auth'[x] = "cache" <=> auth[x] = "cache"
  BY DEF IInv, TypeOK, AuthOK
<1>5. disk \subseteq Users
  BY DEF IInv, TypeOK, UsersOK
<1>6. CacheOK'
  BY <1>2, <1>3, <1>4, <1>5, Zenon DEF CacheOK
<1>7. SpoolsOK'
  BY <1>2, <1>3 DEF SpoolsOK, Spools
<1>8. CollectOK' /\ RemoveOK'
  BY <1>2 DEF CollectOK, RemoveOK, Spools, current
<1> QED
  BY <1>1, <1>6, <1>7, <1>8

(* Add, of a user that the cache does not have. *)
LEMMA AddStep ==
    ASSUME IInv, NEW u \in Users, u \notin cache, auth[u] = "add",
           auth' = [auth EXCEPT ![u] = "cache"], disk' = disk \cup {u},
           UNCHANGED <<cache, spool, worker, mgmt>>, noteRace
    PROVE  UserInv'
<1> SUFFICES ASSUME ~raced' PROVE ~Overlaps' /\ CacheOK' /\ SpoolsOK' /\ CollectOK' /\ RemoveOK'
  BY DEF UserInv
<1>1. ~raced /\ ~Overlaps'
  BY Zenon DEF noteRace
<1>2. ~Overlaps /\ CacheOK /\ SpoolsOK /\ CollectOK /\ RemoveOK
  BY <1>1 DEF IInv, UserInv
<1>3. \A x : /\ vacuuming(x)' <=> vacuuming(x)
             /\ removed(x)' <=> removed(x)
             /\ removing(x)' <=> removing(x)
  BY DEF vacuuming, removed, removing, current
<1>4. \A x \in Users : auth'[x] = IF x = u THEN "cache" ELSE auth[x]
  BY DEF IInv, TypeOK, AuthOK
<1>5. disk \subseteq Users
  BY DEF IInv, TypeOK, UsersOK
<1>6. ~removing(u) /\ ~vacuuming(u) /\ u \notin disk
  BY <1>2 DEF removing, Overlaps, vacuuming, CollectOK, CacheOK
<1>7. spool[u] # NoSpool => removed(u)
  BY <1>2, <1>6, Zenon DEF SpoolsOK, Spools
<1>8. CacheOK'
  BY <1>2, <1>3, <1>4, <1>5, <1>7 DEF CacheOK
<1>9. SpoolsOK'
  BY <1>2, <1>3 DEF SpoolsOK, Spools
<1>10. CollectOK'
  <2>1. \A w \in Workers : worker[w].at = "cache" => current(w) # u
    BY <1>6 DEF vacuuming
  <2> QED
    BY <1>2, <2>1 DEF CollectOK, Spools, current
<1>11. RemoveOK'
  BY <1>2, <1>6 DEF RemoveOK, removing
<1> QED
  BY <1>1, <1>8, <1>9, <1>10, <1>11

(* addToCache. *)
LEMMA AddToCacheStep ==
    ASSUME IInv, NEW u \in Users, auth[u] = "cache",
           auth' = [auth EXCEPT ![u] = "ok"], cache' = cache \cup {u},
           UNCHANGED <<disk, spool, worker, mgmt>>, noteRace
    PROVE  UserInv'
<1> SUFFICES ASSUME ~raced' PROVE ~Overlaps' /\ CacheOK' /\ SpoolsOK' /\ CollectOK' /\ RemoveOK'
  BY DEF UserInv
<1>1. ~raced /\ ~Overlaps'
  BY Zenon DEF noteRace
<1>2. CacheOK /\ SpoolsOK /\ CollectOK /\ RemoveOK
  BY <1>1 DEF IInv, UserInv
<1>3. \A x : /\ vacuuming(x)' <=> vacuuming(x)
             /\ removed(x)' <=> removed(x)
             /\ removing(x)' <=> removing(x)
  BY DEF vacuuming, removed, removing, current
<1>4. \A x \in Users : auth'[x] = IF x = u THEN "ok" ELSE auth[x]
  BY DEF IInv, TypeOK, AuthOK
<1>5. disk \subseteq Users /\ cache \subseteq Users
  BY DEF IInv, TypeOK, UsersOK
<1>6. u \in disk
  BY <1>2, Zenon DEF CacheOK
<1>7. CacheOK'
  <2>1. /\ \A x \in disk' : x \in cache' \/ auth'[x] = "cache"
        /\ \A x \in cache' : x \in disk' \/ vacuuming(x)' \/ (removing(x)' /\ mgmt'.at = "cache")
    BY <1>2, <1>3, <1>4, <1>5, <1>6, Zenon DEF CacheOK
  <2>2. \A x \in Users : auth'[x] = "cache" => x # u /\ auth[x] = "cache"
    BY <1>4
  <2>3. \A x \in Users : auth'[x] = "cache" =>
           x \in disk' /\ x \notin cache' /\ (spool'[x] # NoSpool => removed(x)')
    BY <1>2, <1>3, <2>2, Zenon DEF CacheOK
  <2> QED
    BY <2>1, <2>3, Zenon DEF CacheOK
<1>8. SpoolsOK'
  BY <1>2, <1>3 DEF SpoolsOK, Spools
<1>9. CollectOK' /\ RemoveOK'
  BY <1>2 DEF CollectOK, RemoveOK, Spools, current
<1> QED
  BY <1>1, <1>7, <1>8, <1>9

(* A step of a client's session. *)
LEMMA ClientStep ==
    ASSUME IInv, NEW u \in Users, client(u)
    PROVE  IInv'
<1>1. /\ held' = IF u \in init' THEN held ELSE [held EXCEPT ![u] = {}]
      /\ UNCHANGED <<ch, worker, spoolTx, mgmt>> /\ noteRace
  BY DEF client
<1>2. auth \in [Users -> Stages]
  BY DEF IInv, TypeOK, AuthOK
<1>3. ASSUME NEW a \in Stages, auth' = [auth EXCEPT ![u] = a], a # "cache", auth[u] # "cache",
             init' \in {init, init \cup {u}, init \ {u}}, UNCHANGED <<disk, cache, spool>>
      PROVE  IInv'
  BY <1>1, <1>3, ClientHeld, ClientPlain, Zenon DEF IInv
<1>4. CASE connect(u) \/ reauth(u)
  <2>1. PICK a \in {"ok", "add"} : auth' = [auth EXCEPT ![u] = a]
    BY <1>4 DEF connect, reauth, IsValid, Authenticating
  <2>2. auth[u] \in {"no", "ok"} /\ UNCHANGED <<disk, cache, spool, init>>
    BY <1>4 DEF connect, reauth, IsValid, Authenticating
  <2> QED
    BY <1>3, <2>1, <2>2, Zenon DEF Stages
<1>5. CASE Add(u)
  <2>1. CASE Exists(u)
    <3>1. /\ auth[u] = "add" /\ auth' = [auth EXCEPT ![u] = "no"] /\ init' = init \ {u}
          /\ UNCHANGED <<disk, cache, spool>>
      BY <1>5, <2>1 DEF Add, Authenticating
    <3> QED
      BY <1>3, <3>1 DEF Stages
  <2>2. CASE ~Exists(u)
    <3>1. /\ auth[u] = "add" /\ auth' = [auth EXCEPT ![u] = "cache"] /\ init' = init
          /\ disk' = disk \cup {u} /\ u \notin cache /\ UNCHANGED <<cache, spool>>
      BY <1>5, <2>2 DEF Add, Authenticating, Exists
    <3>2. TypeOK' /\ HeldOK'
      BY <1>1, <3>1, ClientHeld, Zenon DEF Stages
    <3> QED
      BY <1>1, <3>1, <3>2, AddStep, Zenon DEF IInv
  <2> QED
    BY <2>1, <2>2
<1>6. CASE addToCache(u)
  <2>1. /\ auth[u] = "cache" /\ auth' = [auth EXCEPT ![u] = "ok"] /\ init' = init
        /\ cache' = cache \cup {u} /\ UNCHANGED <<disk, spool>>
    BY <1>6 DEF addToCache, Authenticating
  <2>2. TypeOK' /\ HeldOK'
    BY <1>1, <2>1, ClientHeld, Zenon DEF Stages
  <2> QED
    BY <1>1, <2>1, <2>2, AddToCacheStep, Zenon DEF IInv
<1>7. CASE onInitializedConn(u)
  <2>1. auth[u] = "ok" /\ init' = init \cup {u} /\ UNCHANGED <<disk, cache, spool, auth>>
    BY <1>7 DEF onInitializedConn
  <2>2. auth' = [auth EXCEPT ![u] = "ok"]
    BY <1>2, <2>1
  <2> QED
    BY <1>3, <2>1, <2>2, Zenon DEF Stages
<1>8. CASE disconnect(u)
  <2>1. auth[u] = "ok" /\ auth' = [auth EXCEPT ![u] = "broken"] /\ UNCHANGED <<disk, cache, spool, init>>
    BY <1>8 DEF disconnect, Authenticating
  <2> QED
    BY <1>3, <2>1 DEF Stages
<1>9. CASE onClosedConn(u)
  <2>1. /\ auth[u] = "broken" /\ auth' = [auth EXCEPT ![u] = "no"] /\ init' = init \ {u}
        /\ UNCHANGED <<disk, cache, spool>>
    BY <1>9 DEF onClosedConn, Authenticating
  <2> QED
    BY <1>3, <2>1 DEF Stages
<1> QED
  BY <1>4, <1>5, <1>6, <1>7, <1>8, <1>9 DEF client

(* retrieve. *)
LEMMA RetrieveStep ==
    ASSUME IInv, NEW u \in Users, retrieve(u)
    PROVE  IInv'
<1>1. PICK m \in spool[u] : /\ spool' = [spool EXCEPT ![u] = @ \ {m}]
                            /\ held' = [held EXCEPT ![u] = @ \ {m}]
  BY Zenon DEF retrieve
<1>2. /\ u \in init /\ auth[u] = "ok" /\ spool[u] # NoSpool
      /\ UNCHANGED <<disk, cache, auth, init, ch, worker, spoolTx, mgmt, raced>>
  BY DEF retrieve, dbVars, connVars
<1>3. SpoolOK
  BY DEF IInv, TypeOK
<1>4. /\ spool' \in [Users -> (SUBSET (1..MaxPackets)) \cup {NoSpool}]
      /\ \A x \in Users : spool'[x] = IF x = u THEN spool[u] \ {m} ELSE spool[x]
      /\ held' \in [Users -> SUBSET (1..MaxPackets)]
      /\ \A x \in Users : held'[x] = IF x = u THEN held[u] \ {m} ELSE held[x]
  BY <1>1, <1>2, <1>3, Zenon DEF SpoolOK
<1>5. spool'[u] # NoSpool
  <2>1. spool[u] \in SUBSET (1..MaxPackets)
    BY <1>2, <1>3 DEF SpoolOK
  <2> QED
    BY <1>4, <2>1, ProviderAssumption
<1>6. Spools' = Spools /\ \A x \in Users : spool'[x] = NoSpool <=> spool[x] = NoSpool
  BY <1>2, <1>4, <1>5, Zenon DEF Spools
<1>7. TypeOK'
  BY <1>2, <1>4, Zenon DEF IInv, TypeOK, UsersOK, SpoolOK, AuthOK, WorkOK, MgmtOK, TxOK
<1>8. HeldOK'
  BY <1>2, <1>4, <1>6 DEF IInv, HeldOK
<1>9. ASSUME ~raced PROVE ~Overlaps' /\ CacheOK' /\ SpoolsOK' /\ CollectOK' /\ RemoveOK'
  <2>1. ~Overlaps /\ CacheOK /\ SpoolsOK /\ CollectOK /\ RemoveOK
    BY <1>9, Zenon DEF IInv, UserInv
  <2>2. \A x : /\ vacuuming(x)' <=> vacuuming(x)
               /\ removed(x)' <=> removed(x)
               /\ removing(x)' <=> removing(x)
    BY <1>2 DEF vacuuming, removed, removing, current
  <2>3. CacheOK' /\ SpoolsOK'
    BY <1>2, <1>6, <2>1, <2>2, Zenon DEF CacheOK, SpoolsOK
  <2>4. CollectOK' /\ RemoveOK' /\ ~Overlaps'
    BY <1>2, <1>6, <2>1 DEF CollectOK, RemoveOK, Overlaps, current
  <2> QED
    BY <2>3, <2>4
<1> QED
  BY <1>2, <1>7, <1>8, <1>9 DEF IInv, UserInv

-----------------------------------------------------------------------------
(* REMOVE_USER, in its three steps: without a race no worker stores or     *)
(* collects, and the user is not being added.                              *)
LEMMA ManagementStep ==
    ASSUME IInv, management
    PROVE  IInv'
<1>1. noteRace /\ UNCHANGED <<auth, init, ch, worker, spoolTx>>
  BY DEF management, onRemoveUser, removeFromCache, removeSpool, connVars, dbVars
<1>2. SpoolOK /\ MgmtOK /\ UsersOK
  BY Zenon DEF IInv, TypeOK
<1>3. ASSUME UsersOK', SpoolOK', MgmtOK' PROVE TypeOK'
  BY <1>1, <1>3, Zenon DEF IInv, TypeOK, AuthOK, WorkOK, TxOK
<1>4. ASSUME ~raced'
      PROVE  /\ ~raced /\ ~Overlaps' /\ CacheOK /\ SpoolsOK /\ RemoveOK
             /\ mgmt' # Idle \/ mgmt # Idle =>
                   /\ \A x : ~vacuuming(x) /\ ~removed(x) /\ ~vacuuming(x)' /\ ~removed(x)'
                   /\ CollectOK'
  <2>1. ~raced /\ ~Overlaps' /\ ~Overlaps /\ CacheOK /\ SpoolsOK /\ RemoveOK
    BY <1>1, <1>4, Zenon DEF noteRace, IInv, UserInv
  <2>2. mgmt' # Idle \/ mgmt # Idle => \A w \in Workers : worker[w].at \in Plain
    BY <1>1, <2>1 DEF Overlaps, Plain
  <2>3. mgmt' # Idle \/ mgmt # Idle =>
           \A w \in Workers : worker[w].at \notin {"store", "users", "cache"}
    BY <2>2 DEF Plain
  <2> QED
    BY <1>1, <2>1, <2>2, <2>3 DEF vacuuming, removed, CollectOK
<1>5. ASSUME NEW u \in Users, onRemoveUser(u) PROVE IInv'
  <2>1. u \in disk /\ disk' = disk \ {u} /\ mgmt' = Removing("cache", u) /\ UNCHANGED <<cache, spool, held>>
    BY <1>5 DEF onRemoveUser
  <2>2. mgmt' # Idle /\ mgmt'.user = u /\ mgmt'.at = "cache" /\ MgmtOK'
    BY <2>1 DEF Removing, Idle, MgmtOK
  <2>3. TypeOK'
    <3>1. UsersOK'
      BY <1>1, <1>2, <2>1 DEF UsersOK
    <3>2. SpoolOK'
      BY <1>2, <2>1, Zenon DEF SpoolOK
    <3> QED
      BY <1>3, <2>2, <3>1, <3>2
  <2>4. HeldOK'
    BY <1>1, <2>1 DEF IInv, HeldOK
  <2>5. ASSUME ~raced' PROVE CacheOK' /\ SpoolsOK' /\ RemoveOK'
    <3>1. auth[u] # "cache"
      BY <1>1, <1>4, <2>2, <2>5 DEF Overlaps
    <3>2. mgmt = Idle
      BY <1>5 DEF onRemoveUser
    <3>3. \A x : ~removing(x) /\ (removing(x)' <=> x = u)
      BY <2>2, <3>2 DEF removing
    <3>4. CacheOK'
      BY <1>1, <1>4, <2>1, <2>2, <2>5, <3>1, <3>3, Zenon DEF CacheOK
    <3>5. SpoolsOK'
      BY <1>4, <2>1, <2>2, <2>5, <3>3, Zenon DEF SpoolsOK, Spools
    <3> QED
      BY <2>1, <2>2, <3>4, <3>5 DEF RemoveOK
  <2> QED
    BY <1>4, <2>2, <2>3, <2>4, <2>5 DEF IInv, UserInv
<1>6. ASSUME removeFromCache PROVE IInv'
  <2> DEFINE u == mgmt.user
  <2>1. /\ mgmt.at = "cache" /\ cache' = cache \ {u} /\ mgmt' = Removing("spool", u)
        /\ UNCHANGED <<disk, spool, held>>
    BY <1>6 DEF removeFromCache
  <2>2. mgmt # Idle /\ u \in Users
    BY <1>2, <2>1, MgmtFacts
  <2>3. mgmt' # Idle /\ mgmt'.user = u /\ mgmt'.at = "spool" /\ MgmtOK'
    BY <2>1, <2>2 DEF Removing, Idle, MgmtOK
  <2>4. TypeOK'
    <3>1. UsersOK'
      BY <1>1, <1>2, <2>1 DEF UsersOK
    <3>2. SpoolOK'
      BY <1>2, <2>1 DEF SpoolOK
    <3> QED
      BY <1>3, <2>3, <3>1, <3>2
  <2>5. HeldOK'
    BY <1>1, <2>1 DEF IInv, HeldOK
  <2>6. ASSUME ~raced' PROVE CacheOK' /\ SpoolsOK' /\ RemoveOK'
    <3>1. \A x : (removing(x) <=> x = u) /\ (removing(x)' <=> x = u)
      BY <2>2, <2>3 DEF removing
    <3>2. u \notin disk
      BY <1>4, <2>2, <2>6 DEF RemoveOK
    <3> HIDE DEF u
    <3>3. CacheOK'
      BY <1>1, <1>4, <2>1, <2>2, <2>6, <3>1, <3>2, Zenon DEF CacheOK
    <3>4. SpoolsOK'
      BY <1>4, <2>1, <2>2, <2>6, <3>1 DEF SpoolsOK, Spools
    <3> QED
      BY <2>1, <2>3, <3>2, <3>3, <3>4 DEF RemoveOK
  <2> QED
    BY <1>4, <2>2, <2>4, <2>5, <2>6 DEF IInv, UserInv
<1>7. ASSUME removeSpool PROVE IInv'
  <2> DEFINE u == mgmt.user
  <2>1. /\ mgmt.at = "spool" /\ spool' = [spool EXCEPT ![u] = NoSpool]
        /\ held' = [held EXCEPT ![u] = {}] /\ mgmt' = Idle /\ UNCHANGED <<disk, cache>>
    BY <1>7 DEF removeSpool, dbVars
  <2>2. mgmt # Idle /\ u \in Users /\ MgmtOK'
    BY <1>2, <2>1, MgmtFacts DEF MgmtOK
  <2>3. \A x : (removing(x) <=> x = u) /\ ~removing(x)'
    BY <2>1, <2>2 DEF removing
  <2>4. /\ SpoolOK' /\ \A x \in Users : spool'[x] = IF x = u THEN NoSpool ELSE spool[x]
        /\ \A x \in Users : held'[x] = IF x = u THEN {} ELSE held[x]
    BY <1>2, <2>1, Zenon DEF SpoolOK
  <2>5. TypeOK'
    <3>1. UsersOK'
      BY <1>1, <1>2, <2>1 DEF UsersOK
    <3> QED
      BY <1>3, <2>2, <2>4, <3>1
  <2>6. HeldOK'
    BY <1>1, <2>4 DEF IInv, HeldOK
  <2>7. ASSUME ~raced' PROVE CacheOK' /\ SpoolsOK' /\ RemoveOK'
    <3>1. CacheOK'
      BY <1>1, <1>4, <2>1, <2>2, <2>3, <2>4, <2>7, Zenon DEF CacheOK
    <3>2. SpoolsOK'
      BY <1>4, <2>1, <2>2, <2>3, <2>4, <2>7 DEF SpoolsOK, Spools
    <3> QED
      BY <2>1, <3>1, <3>2 DEF RemoveOK
  <2> QED
    BY <1>4, <2>2, <2>5, <2>6, <2>7 DEF IInv, UserInv
<1> QED
  BY <1>5, <1>6, <1>7, Zenon DEF management

(* New repairs the cache and the spools. *)
LEMMA NewStep ==
    ASSUME IInv, New
    PROVE  IInv'
<1>1. /\ cache' = disk /\ disk' = disk /\ init' = {}
      /\ spool' = [u \in Users |-> IF u \in disk THEN spool[u] ELSE NoSpool]
      /\ auth' = [u \in Users |-> "no"] /\ ch' = <<>>
      /\ worker' = [w \in Workers |-> AtSelect] /\ spoolTx' = None /\ mgmt' = Idle
      /\ held' = [u \in Users |-> {}] /\ raced' = FALSE
  BY DEF New, reopen, cacheFilled, Vacuum
<1>2. SpoolOK'
  BY <1>1 DEF IInv, TypeOK, SpoolOK
<1>3. worker' \in [Workers -> WorkerStates] /\ \A w \in Workers : worker'[w].at = "select"
  BY <1>1, SelectState, Zenon
<1>4. TypeOK'
  BY <1>1, <1>2, <1>3 DEF IInv, TypeOK, UsersOK, AuthOK, WorkOK, MgmtOK, TxOK, Stages
<1>5. HeldOK'
  BY <1>1, Zenon DEF HeldOK
<1>6. CacheOK' /\ SpoolsOK'
  BY <1>1, Zenon DEF CacheOK, SpoolsOK, Spools
<1>7. CollectOK' /\ RemoveOK' /\ ~Overlaps'
  BY <1>1, <1>3 DEF CollectOK, RemoveOK, Overlaps
<1> QED
  BY <1>4, <1>5, <1>6, <1>7 DEF IInv, UserInv

-----------------------------------------------------------------------------
(* Init. *)
LEMMA InitIInv == Init => IInv
<1> SUFFICES ASSUME Init PROVE IInv
  OBVIOUS
<1>1. /\ disk = {} /\ cache = {} /\ init = {} /\ spool = [u \in Users |-> NoSpool]
      /\ auth = [u \in Users |-> "no"] /\ ch = <<>> /\ worker = [w \in Workers |-> AtSelect]
      /\ spoolTx = None /\ mgmt = Idle /\ held = [u \in Users |-> {}]
  BY DEF Init, UserInit
<1>2. worker \in [Workers -> WorkerStates] /\ \A w \in Workers : worker[w].at = "select"
  BY <1>1, SelectState
<1>3. TypeOK
  BY <1>1, <1>2 DEF TypeOK, UsersOK, SpoolOK, AuthOK, WorkOK, MgmtOK, TxOK, Stages
<1>4. HeldOK
  BY <1>1 DEF HeldOK
<1>5. CacheOK /\ SpoolsOK
  BY <1>1, Zenon DEF CacheOK, SpoolsOK, Spools
<1>6. CollectOK /\ RemoveOK /\ ~Overlaps
  BY <1>1, <1>2 DEF CollectOK, RemoveOK, Overlaps
<1> QED
  BY <1>3, <1>4, <1>5, <1>6 DEF IInv, UserInv

(* Every step of the provider, its clients and its management. *)
LEMMA IInvStep ==
    ASSUME OneWorker, IInv, [Next]_vars
    PROVE  IInv'
<1>1. ch \in Seq(Packet)
  BY DEF IInv, TypeOK, WorkOK
<1>2. CASE OnPacket
  <2>1. PICK p \in Packet : ch' = Append(ch, p)
    BY <1>2 DEF OnPacket
  <2>2. ch' \in Seq(Packet)
    BY <1>1, <2>1
  <2> QED
    BY <1>2, <2>2, Frame DEF OnPacket
<1>3. CASE management
  BY <1>3, ManagementStep
<1>4. CASE halt \/ haltNext
  BY <1>1, <1>4, Frame DEF halt, haltNext
<1>5. CASE New
  BY <1>5, NewStep
<1>6. CASE pluginStep \/ processStep \/ \E k \in KaetzchenWorkers : kaetzchenStep(k)
  <2>1. UNCHANGED <<userVars, providerVars>>
    BY <1>6 DEF pluginStep, processStep, kaetzchenStep
  <2> QED
    BY <1>1, <2>1, Frame DEF providerVars
<1>7. ASSUME NEW w \in Workers, workerStep(w) \/ gcEphemeralClients(w) \/ haltWorker(w)
      PROVE  IInv'
  BY <1>7, PlainSteps, ToUserStep, StoreStep, BeginVacuumStep, VacuumUserStep,
     VacuumCacheStep, CommitVacuumStep, GcStep DEF workerStep
<1>8. ASSUME NEW u \in Users, client(u) \/ retrieve(u) PROVE IInv'
  BY <1>8, ClientStep, RetrieveStep
<1>9. CASE UNCHANGED vars
  BY <1>1, <1>9, Frame DEF vars, providerVars
<1> QED
  BY <1>2, <1>3, <1>4, <1>5, <1>6, <1>7, <1>8, <1>9 DEF Next

(* With one worker, whatever clients do, wherever the process crashes and  *)
(* however often users are removed, between changes the user cache is what *)
(* the database holds and every spool has its user, and VacuumExpired      *)
(* (boltspool) never meets an expired spool whose user is gone; the        *)
(* exception is a REMOVE_USER that overlaps, which Overlaps delimits.      *)
THEOREM ConsistentHolds ==
    ASSUME OneWorker PROVE Spec => []Consistent
<1>1. IInv /\ [Next]_vars => IInv'
  BY IInvStep
<1>2. IInv => Consistent
  <2> SUFFICES ASSUME IInv, Quiet, ~raced PROVE cache = disk /\ Spools \subseteq disk
    BY DEF Consistent
  <2>1. CacheOK /\ SpoolsOK /\ TxOK /\ UsersOK
    BY DEF IInv, UserInv, TypeOK
  <2>2. \A x : ~vacuuming(x) /\ ~removed(x) /\ ~removing(x)
    BY <2>1 DEF Quiet, TxOK, vacuuming, removed, removing
  <2>3. \A u \in Users : auth[u] # "cache"
    BY Zenon DEF Quiet
  <2> QED
    BY <2>1, <2>2, <2>3 DEF CacheOK, SpoolsOK, UsersOK
<1> QED
  BY <1>1, <1>2, InitIInv, PTL DEF Spec

(* With one worker, VacuumExpired never takes a message that was stored    *)
(* for a user whose connection was initialized (onInitializedConn) and has *)
(* lasted since, even if the user disconnects and comes back while the     *)
(* collection runs with the identities it found before.                    *)
THEOREM KeptWhileConnectedHolds ==
    ASSUME OneWorker PROVE Spec => []KeptWhileConnected
<1>1. IInv /\ [Next]_vars => IInv'
  BY IInvStep
<1>2. IInv => KeptWhileConnected
  BY DEF IInv, HeldOK, KeptWhileConnected
<1> QED
  BY <1>1, <1>2, InitIInv, PTL DEF Spec
=============================================================================
