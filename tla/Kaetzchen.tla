----------------------------- MODULE Kaetzchen ------------------------------
(***************************************************************************)
(* The services of a provider (server/internal/provider/kaetzchen): a      *)
(* built-in one with its workers, and a plugin, a process that speaks CBOR *)
(* over a unix socket (server/cborplugin).  A plugin has a worker that     *)
(* passes requests to the writer of the socket, a sendworker that turns    *)
(* responses into SURB replies, and a goroutine that unregisters it when   *)
(* its client is halted.                                                   *)
(*                                                                         *)
(* A request is the number of its packet, and so is its response.          *)
(***************************************************************************)
EXTENDS Integers, Sequences

CONSTANTS
    KaetzchenWorkers,   \* the workers of the built-in service
    NoRequest

VARIABLES
    kch,            \* the queue of the built-in service
    kw,             \* kw[k]: where worker k of the built-in service is
    registered,     \* the plugin is in pluginChans
    pch,            \* its queue
    pw,             \* where its worker is
    writing,        \* the request that its worker is sending on writeCh
    sw,             \* where its sendworker is
    unregisterer,   \* where the goroutine that unregisters it is
    clientHalted,   \* HaltCh of its client is closed
    socketHalted,   \* HaltCh of its socket is closed: reader and writer are gone
    process,        \* the process: "alive" or "dead"
    inbox,          \* requests at the process
    outbox,         \* responses of the process
    replied         \* the requests that were answered

builtinVars == <<kch, kw>>
pluginVars  == <<registered, pch, pw, writing, sw, unregisterer, clientHalted,
                 socketHalted, process, inbox, outbox>>
serviceVars == <<kch, kw, registered, pch, pw, writing, sw, unregisterer, clientHalted,
                 socketHalted, process, inbox, outbox, replied>>

ServiceInit ==
    /\ kch = <<>> /\ kw = [k \in KaetzchenWorkers |-> "select"]
    /\ registered = TRUE /\ pch = <<>>
    /\ pw = "select" /\ writing = NoRequest /\ sw = "select" /\ unregisterer = "wait"
    /\ clientHalted = FALSE /\ socketHalted = FALSE /\ process = "alive"
    /\ inbox = <<>> /\ outbox = <<>> /\ replied = {}

(* The same, after a restart. *)
serviceNew ==
    /\ kch' = <<>> /\ kw' = [k \in KaetzchenWorkers |-> "select"]
    /\ registered' = TRUE /\ pch' = <<>>
    /\ pw' = "select" /\ writing' = NoRequest /\ sw' = "select" /\ unregisterer' = "wait"
    /\ clientHalted' = FALSE /\ socketHalted' = FALSE /\ process' = "alive"
    /\ inbox' = <<>> /\ outbox' = <<>> /\ UNCHANGED replied

-----------------------------------------------------------------------------
(* NewPacketFromSURB: the reply to a request goes to the scheduler. *)
surbReply(r) == replied' = replied \cup {r}

(* processKaetzchen of the built-in services: a request that has not been  *)
(* in the queue for too long and that the service accepts is answered with *)
(* its SURB.                                                               *)
processKaetzchen(k) ==
    /\ kw[k] = "select" /\ kch # <<>>
    /\ kch' = Tail(kch)
    /\ surbReply(Head(kch)) \/ UNCHANGED replied
    /\ UNCHANGED <<kw, pluginVars>>

haltKaetzchen(k) ==
    /\ kw[k] = "select" /\ kw' = [kw EXCEPT ![k] = "halted"]
    /\ UNCHANGED <<kch, pluginVars, replied>>

-----------------------------------------------------------------------------
(* The plugin's worker takes a request, or drops one that is too old. *)
pluginTake ==
    /\ pw = "select" /\ pch # <<>>
    /\ pch' = Tail(pch)
    /\ \/ pw' = "write" /\ writing' = Head(pch)
       \/ UNCHANGED <<pw, writing>>
    /\ UNCHANGED <<builtinVars, registered, sw, unregisterer, clientHalted, socketHalted,
                   process, inbox, outbox, replied>>

(* The send on writeCh, which the writer takes and encodes.  Nothing else  *)
(* ends the send.  Encoding fails when the process is dead.                *)
pluginWrite ==
    /\ pw = "write" /\ ~socketHalted
    /\ pw' = "select" /\ writing' = NoRequest
    /\ IF process = "alive"
       THEN inbox' = Append(inbox, writing) /\ UNCHANGED socketHalted
       ELSE socketHalted' = TRUE /\ UNCHANGED inbox
    /\ UNCHANGED <<builtinVars, registered, pch, sw, unregisterer, clientHalted, process,
                   outbox, replied>>

(* The process answers, with the SURB of the request. *)
OnCommand ==
    /\ process = "alive" /\ inbox # <<>>
    /\ inbox' = Tail(inbox) /\ outbox' = Append(outbox, Head(inbox))
    /\ UNCHANGED <<builtinVars, registered, pch, pw, writing, sw, unregisterer, clientHalted,
                   socketHalted, process, replied>>

(* The reader decodes a response and sends it to the sendworker. *)
sendworker ==
    /\ sw = "select" /\ outbox # <<>> /\ ~socketHalted
    /\ outbox' = Tail(outbox)
    /\ surbReply(Head(outbox))
    /\ UNCHANGED <<builtinVars, registered, pch, pw, writing, sw, unregisterer, clientHalted,
                   socketHalted, process, inbox>>

(* The process ends, by itself or after SIGTERM from the reaper. *)
exit ==
    /\ process = "alive"
    /\ process' = "dead" /\ inbox' = <<>>
    /\ UNCHANGED <<builtinVars, registered, pch, pw, writing, sw, unregisterer, clientHalted,
                   socketHalted, outbox, replied>>

reaper == clientHalted /\ exit

(* logPluginStderr: the end of stderr halts the client. *)
logPluginStderr ==
    /\ process = "dead" /\ ~clientHalted
    /\ clientHalted' = TRUE
    /\ UNCHANGED <<builtinVars, registered, pch, pw, writing, sw, unregisterer, socketHalted,
                   process, inbox, outbox, replied>>

(* The reader sees the end of the connection, after the last response. *)
readerFails ==
    /\ process = "dead" /\ outbox = <<>> /\ ~socketHalted
    /\ socketHalted' = TRUE
    /\ UNCHANGED <<builtinVars, registered, pch, pw, writing, sw, unregisterer, clientHalted,
                   process, inbox, outbox, replied>>

unregister ==
    /\ unregisterer = "wait" /\ clientHalted
    /\ unregisterer' = "done" /\ registered' = FALSE
    /\ UNCHANGED <<builtinVars, pch, pw, writing, sw, clientHalted, socketHalted, process,
                   inbox, outbox, replied>>

(* Fault: the worker leaves without halting the clients. *)
leavesClients ==
    /\ pw = "select" /\ pw' = "halted"
    /\ UNCHANGED <<builtinVars, registered, pch, writing, sw, unregisterer, clientHalted,
                   socketHalted, process, inbox, outbox, replied>>

(* The worker sees HaltCh in its select, and on its way out halts the      *)
(* clients (haltAllClients).                                               *)
haltPluginWorker ==
    /\ pw = "select"
    /\ pw' = "halted" /\ clientHalted' = TRUE
    /\ UNCHANGED <<builtinVars, registered, pch, writing, sw, unregisterer, socketHalted,
                   process, inbox, outbox, replied>>

haltSendworker ==
    /\ sw = "select" /\ sw' = "halted"
    /\ UNCHANGED <<builtinVars, registered, pch, pw, writing, unregisterer, clientHalted,
                   socketHalted, process, inbox, outbox, replied>>

(* The goroutines that CBORPluginWorker.Halt waits for have returned. *)
PluginHalted == pw = "halted" /\ sw = "halted" /\ unregisterer = "done"

(* The worker waits for a writer that is gone. *)
WriterGone == pw = "write" /\ socketHalted
====
