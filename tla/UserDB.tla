------------------------------- MODULE UserDB -------------------------------
(***************************************************************************)
(* The users of a provider: the bolt user database with its cache          *)
(* (server/userdb/boltuserdb), the spools as far as their existence goes   *)
(* (server/spool/boltspool), and the authentication of clients with        *)
(* TrustOnFirstUse, when a connection is made and at every tick of its     *)
(* reauthentication timer.                                                 *)
(*                                                                         *)
(* The database and its cache are two things: every change is made to the  *)
(* database in one step and to the cache in the next, and the steps of     *)
(* other goroutines may come between them.                                 *)
(***************************************************************************)
EXTENDS Integers, FiniteSets, Sequences

CONSTANTS
    Users,          \* the clients of the provider
    NoSpool         \* a user without a spool bucket

VARIABLES
    disk,           \* the users bucket of the user database
    cache,          \* userCache
    spool,          \* spool[u]: the messages in the spool of u, or NoSpool
    auth,           \* auth[u]: where the authentication of u's connection is
    init            \* the users whose connection is initialized

dbVars   == <<disk, cache>>
connVars == <<auth, init>>
userVars == <<disk, cache, spool, auth, init>>

(* "no" is no connection; "add" and "cache" are the steps of Add; "ok" is  *)
(* authenticated; "broken" is a session that is not established any more,  *)
(* of a connection that is still in the listener's list.                   *)
Stages == {"no", "add", "cache", "ok", "broken"}

Spools == {u \in Users : spool[u] # NoSpool}

UserInit ==
    /\ disk = {} /\ cache = {}
    /\ spool = [u \in Users |-> NoSpool]
    /\ auth = [u \in Users |-> "no"] /\ init = {}

Exists(u) == u \in cache

(* The authentication of u goes from one stage to another. *)
Authenticating(u, from, to) == auth[u] = from /\ auth' = [auth EXCEPT ![u] = to]

-----------------------------------------------------------------------------
(* IsValid, when the client connects and at every tick of the              *)
(* reauthentication timer: u is in the database, with this key, or is to   *)
(* be added.                                                               *)
IsValid(u, from) ==
    /\ Authenticating(u, from, IF u \in disk THEN "ok" ELSE "add")
    /\ UNCHANGED <<disk, cache, spool, init>>

connect(u) == IsValid(u, "no")

reauth(u) == u \in init /\ IsValid(u, "ok")

(* Add: a user that the cache does not have is put into the database;      *)
(* otherwise the client is not accepted.                                   *)
Add(u) ==
    /\ IF Exists(u)
       THEN Authenticating(u, "add", "no") /\ init' = init \ {u} /\ UNCHANGED disk
       ELSE Authenticating(u, "add", "cache") /\ disk' = disk \cup {u} /\ UNCHANGED init
    /\ UNCHANGED <<cache, spool>>

addToCache(u) ==
    /\ Authenticating(u, "cache", "ok")
    /\ cache' = cache \cup {u}
    /\ UNCHANGED <<disk, spool, init>>

onInitializedConn(u) ==
    /\ auth[u] = "ok" /\ u \notin init
    /\ init' = init \cup {u}
    /\ UNCHANGED <<disk, cache, spool, auth>>

(* The connection breaks, and its worker takes it off the list. *)
disconnect(u) ==
    /\ Authenticating(u, "ok", "broken")
    /\ UNCHANGED <<disk, cache, spool, init>>

onClosedConn(u) ==
    /\ Authenticating(u, "broken", "no")
    /\ init' = init \ {u}
    /\ UNCHANGED <<disk, cache, spool>>

(* Fault: the identities found at one listener are not kept. *)
noIdentities == {}

(* GetConnIdentities: the users with a connection; a session that is not   *)
(* established is an error.                                                *)
GetConnIdentities == init
IdentitiesFail == \E u \in init : auth[u] = "broken"

-----------------------------------------------------------------------------
(* doStore: into the spool of u, which is made when there is none. *)
doStore(u, m) == [spool EXCEPT ![u] = IF @ = NoSpool THEN {m} ELSE @ \cup {m}]

(* Fault: the spools are left as they are. *)
asTheyAre == spool

(* Vacuum: the spools of users that exist. *)
Vacuum == [u \in Users |-> IF u \in disk THEN spool[u] ELSE NoSpool]

(* boltuserdb.New fills the cache from the database. *)
cacheFilled == disk

(* New, after a crash or a shutdown: the databases are opened, and the     *)
(* spools of users that do not exist are removed.                          *)
reopen ==
    /\ cache' = cacheFilled
    /\ spool' = Vacuum
    /\ auth' = [u \in Users |-> "no"] /\ init' = {}
    /\ UNCHANGED disk
====
