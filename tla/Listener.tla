------------------------------ MODULE Listener ------------------------------
(***************************************************************************)
(* The incoming connections of a mix or provider (server/internal/         *)
(* incoming): the listener's connection list under its mutex, the worker   *)
(* of every connection, the rule that a new connection closes the older    *)
(* ones of the same peer, and the shutdown.                                *)
(*                                                                         *)
(* The mutex is held across steps only by CloseOldConns, which sends on    *)
(* the unbuffered closeConnectionCh of the other connection while it holds *)
(* the lock.  Every other critical section is one step, enabled while the  *)
(* mutex is free.                                                          *)
(***************************************************************************)
EXTENDS Integers, Sequences, Functions

CONSTANTS
    Conns,          \* the connections that may be accepted
    Peer,           \* Peer[c]: the authenticated peer of connection c
    None

ASSUME ConnsAssumption == None \notin Conns /\ Conns = DOMAIN Peer

VARIABLES
    pc,             \* pc[c]: where the worker of c is
    lock,           \* the connection whose worker holds the listener's mutex
    conns,          \* the connection list, newest first
    initialized,    \* the connections with isInitialized set
    established,    \* the connections whose session is in stateEstablished
    eof,            \* the connections whose reader has closed commandCh
    todo,           \* the connections CloseOldConns has not looked at yet
    target,         \* the connection CloseOldConns is closing
    halt            \* listener.Halt(): "no", "closing" or "done"

vars == <<pc, lock, conns, initialized, established, eof, todo, target, halt>>

(* "serve" is the select of the worker's loop, "busy" a command handler,   *)
(* "exit" a return whose deferred calls are still to run, "gone" the       *)
(* deferred onClosedConn waiting for the mutex.                            *)
PCs == {"none", "start", "handshake", "ready", "closeold", "closing", "serve",
        "busy", "exit", "gone", "closed"}

TypeOK ==
    /\ pc \in [Conns -> PCs]
    /\ lock \in Conns \cup {None}
    /\ conns \in Seq(Conns) /\ IsInjective(conns)
    /\ {initialized, established, eof} \subseteq SUBSET Conns
    /\ todo \in Seq(Conns)
    /\ target \in Conns \cup {None}
    /\ halt \in {"no", "closing", "done"}

Init ==
    /\ pc = [c \in Conns |-> "none"]
    /\ lock = None
    /\ conns = <<>>
    /\ initialized = {}
    /\ established = {}
    /\ eof = {}
    /\ todo = <<>>
    /\ target = None
    /\ halt = "no"

(* The worker of c goes from one place to another. *)
Goto(c, from, to) == pc[c] = from /\ pc' = [pc EXCEPT ![c] = to]

-----------------------------------------------------------------------------
(* The listener's worker accepts c and spawns its worker. *)
onNewConn(c) ==
    /\ halt = "no"
    /\ lock = None
    /\ Goto(c, "none", "start")
    /\ conns' = <<c>> \o conns
    /\ UNCHANGED <<lock, initialized, established, eof, todo, target, halt>>

newSession(c) ==
    /\ lock = None
    /\ Goto(c, "start", "handshake")
    /\ UNCHANGED <<lock, conns, initialized, established, eof, todo, target, halt>>

(* The handshake ends, one way or the other, by its deadline. *)
Initialize(c) ==
    /\ \/ Goto(c, "handshake", "ready") /\ established' = established \cup {c}
       \/ Goto(c, "handshake", "exit") /\ UNCHANGED established
    /\ UNCHANGED <<lock, conns, initialized, eof, todo, target, halt>>

onInitializedConn(c) ==
    /\ lock = None
    /\ Goto(c, "ready", "closeold")
    /\ initialized' = initialized \cup {c}
    /\ UNCHANGED <<lock, conns, established, eof, todo, target, halt>>

CloseOldConns(c) ==
    /\ lock = None
    /\ Goto(c, "closeold", "closing")
    /\ lock' = c
    /\ todo' = conns
    /\ UNCHANGED <<conns, initialized, established, eof, target, halt>>

(* Whether the next connection of the list is an older one of this peer. *)
lookAtConn(c) ==
    /\ pc[c] = "closing" /\ target = None /\ todo # <<>>
    /\ todo' = Tail(todo)
    /\ LET cc == Head(todo) IN
       target' = IF /\ cc # c /\ cc \in initialized /\ cc \in established
                    /\ Peer[cc] = Peer[c]
                 THEN cc ELSE None
    /\ UNCHANGED <<pc, lock, conns, initialized, established, eof, halt>>

(* incomingConn.Close: the send completes when the other worker is in its  *)
(* select, which then returns.                                             *)
Close(c) ==
    /\ pc[c] = "closing" /\ target # None
    /\ Goto(target, "serve", "exit")
    /\ target' = None
    /\ UNCHANGED <<lock, conns, initialized, established, eof, todo, halt>>

closedOldConns(c) ==
    /\ todo = <<>> /\ target = None
    /\ Goto(c, "closing", "serve")
    /\ lock' = None
    /\ UNCHANGED <<conns, initialized, established, eof, todo, target, halt>>

(* The reader goroutine fails: the session becomes invalid, commandCh is   *)
(* closed.                                                                 *)
recvFails(c) ==
    /\ pc[c] \in {"serve", "busy"}
    /\ c \notin eof
    /\ eof' = eof \cup {c}
    /\ established' = established \ {c}
    /\ UNCHANGED <<pc, lock, conns, initialized, todo, target, halt>>

(* A command arrives and its handler starts. *)
handle(c) ==
    /\ c \notin eof
    /\ Goto(c, "serve", "busy")
    /\ UNCHANGED <<lock, conns, initialized, established, eof, todo, target, halt>>

handled(c) ==
    /\ Goto(c, "busy", "serve")
    /\ UNCHANGED <<lock, conns, initialized, established, eof, todo, target, halt>>

(* The handler fails: a failed write also invalidates the session, a       *)
(* Disconnect or an unexpected command does not.                           *)
handlerFails(c) ==
    /\ Goto(c, "busy", "exit")
    /\ \E broken \in SUBSET {c} : established' = established \ broken
    /\ UNCHANGED <<lock, conns, initialized, eof, todo, target, halt>>

(* Fault: the select does not look at closeAllCh. *)
leaveAtEOF(c) ==
    /\ c \in eof
    /\ Goto(c, "serve", "exit")
    /\ UNCHANGED <<lock, conns, initialized, established, eof, todo, target, halt>>

(* The select sees the closed commandCh or closeAllCh. *)
leave(c) ==
    /\ c \in eof \/ halt # "no"
    /\ Goto(c, "serve", "exit")
    /\ UNCHANGED <<lock, conns, initialized, established, eof, todo, target, halt>>

(* The reauthentication ticker finds the peer no longer valid. *)
reauthFails(c) ==
    /\ Goto(c, "serve", "exit")
    /\ UNCHANGED <<lock, conns, initialized, established, eof, todo, target, halt>>

closeSession(c) ==
    /\ Goto(c, "exit", "gone")
    /\ established' = established \ {c}
    /\ UNCHANGED <<lock, conns, initialized, eof, todo, target, halt>>

onClosedConn(c) ==
    /\ lock = None
    /\ Goto(c, "gone", "closed")
    /\ \E i \in DOMAIN conns :
           /\ conns[i] = c
           /\ conns' = SubSeq(conns, 1, i - 1) \o SubSeq(conns, i + 1, Len(conns))
    /\ UNCHANGED <<lock, initialized, established, eof, todo, target, halt>>

(* listener.Halt: the accept loop has returned, closeAllCh is closed, and  *)
(* Halt waits until every connection is closed.                            *)
Halt ==
    /\ halt = "no"
    /\ halt' = "closing"
    /\ UNCHANGED <<pc, lock, conns, initialized, established, eof, todo, target>>

Halted ==
    /\ halt = "closing"
    /\ \A c \in Conns : pc[c] \in {"none", "closed"}
    /\ halt' = "done"
    /\ UNCHANGED <<pc, lock, conns, initialized, established, eof, todo, target>>

(* Steps that acquire the mutex. *)
locking(c) ==
    newSession(c) \/ onInitializedConn(c) \/ CloseOldConns(c) \/ onClosedConn(c)

-----------------------------------------------------------------------------
(* listener.Halt returns: "Worst case this can take up to the handshake    *)
(* timeout to actually complete" (listener.go:64), unless CloseOldConns    *)
(* sends, with the mutex held, to a worker that waits for the mutex.       *)
HaltCompletes ==
    halt = "closing" ~>
        \/ halt = "done"
        \/ lock # None /\ target # None /\ pc[target] \in {"closeold", "gone"}
=============================================================================
