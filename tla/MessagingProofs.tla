--------------------------- MODULE MessagingProofs ---------------------------
(***************************************************************************)
(* Proof that no message is received twice, for queues of any size, any    *)
(* number of messages and requests, and any number of faults.              *)
(***************************************************************************)
EXTENDS Messaging, TLAPS

Elements(q) == {q[i] : i \in 1..Len(q)}

Item == [msg : Nat, num : Nat]

AliceState(a) ==
    /\ a = [queue |-> a.queue, count |-> a.count, nick |-> a.nick, conv |-> a.conv]
    /\ a.queue \in Seq(Item) /\ a.count \in Nat /\ a.nick \in Names

Request == [item : Item \cup {Nothing}, nick : Names \cup {Nothing},
            st : {"queued", "waiting", "failed", "answered", "gone"},
            surb : Nat, unreported : BOOLEAN]

Operation == [op : {"send"}, msg : Nat, name : Names]
             \cup [op : {"rename", "offline", "restart"}]

BobState == [offset : Nat, seen : SUBSET Nat, conv : Seq(Nat), pending : BOOLEAN]

AliceOK ==
    /\ AliceState(alice)
    /\ aSaved = <<aSaved[1], aSaved[2]>> /\ AliceState(aSaved[1]) /\ AliceState(aSaved[2])
ReqsOK  == reqs \in Seq(Request) /\ \A r \in 1..Len(reqs) : reqs[r].st # "gone" => reqs[r].item \in Item
OpsOK   == opCh \in Seq(Operation) /\ made \in Nat
NetOK   == net \subseteq [id : Nat, surb : Nat, item : Item]
SpoolOK == /\ \A i \in DOMAIN items : items[i] \in Item
           /\ \A i \in DOMAIN bucket : bucket[i] \in Item
BobOK   == /\ bob \in BobState /\ bSaved \in BobState \X BobState
           /\ answer # Nothing => answer \in [id : Nat, item : Item]

TypeOK == AliceOK /\ ReqsOK /\ OpsOK /\ NetOK /\ SpoolOK /\ BobOK

-----------------------------------------------------------------------------
(* The sealed messages, wherever they are. *)
AtAlice == Elements(alice.queue) \cup Elements(aSaved[1].queue) \cup Elements(aSaved[2].queue)
Asked   == {reqs[r].item : r \in {r \in 1..Len(reqs) : reqs[r].st # "gone"}}
OnWay   == {n.item : n \in net}
Spooled == {items[i] : i \in DOMAIN items} \cup {bucket[i] : i \in DOMAIN bucket}
Read    == {a.item : a \in {answer} \ {Nothing}}

Sealed == AtAlice \cup Asked \cup OnWay \cup Spooled \cup Read

Bobs == {bob, bSaved[1], bSaved[2]}

(* A message was sealed, or is in the conversation. *)
Used(m) == (\E x \in Sealed : x.msg = m) \/ \E b \in Bobs : m \in Elements(b.conv)

(* A message is sealed once: all its copies have one number. *)
SealedOnce == \A x, y \in Sealed : x.msg = y.msg => x = y

(* Bob, and each of his files: what is in the conversation is there once,  *)
(* and its number is not accepted again.                                   *)
BobsOK ==
    \A b \in Bobs :
        /\ \A i, j \in 1..Len(b.conv) : b.conv[i] = b.conv[j] => i = j
        /\ \A x \in Sealed : x.msg \in Elements(b.conv) => x.num \in b.seen

(* What waits in opCh is sealed later, and once. *)
Waiting(i) == i \in 1..Len(opCh) /\ opCh[i].op = "send"
OpsFresh ==
    /\ \A m : Used(m) => m <= made
    /\ \A i \in 1..Len(opCh) : Waiting(i) => opCh[i].msg <= made /\ ~Used(opCh[i].msg)
    /\ \A i, j \in 1..Len(opCh) : Waiting(i) /\ Waiting(j) /\ i < j => opCh[i].msg < opCh[j].msg

IInv == TypeOK /\ SealedOnce /\ BobsOK /\ OpsFresh

-----------------------------------------------------------------------------
(* The elements of a sequence after it was changed. *)
LEMMA TailElements ==
    ASSUME NEW S, NEW q \in Seq(S), q # <<>>
    PROVE  /\ Tail(q) \in Seq(S) /\ Len(Tail(q)) = Len(q) - 1 /\ Len(q) \in Nat \ {0}
           /\ Elements(Tail(q)) \subseteq Elements(q) /\ Head(q) \in Elements(q) /\ Head(q) = q[1]
           /\ \A i \in 1..Len(q) - 1 : Tail(q)[i] = q[i + 1]
BY DEF Elements

(* A message pushed to a queue or shown is one element more, at the end. *)
LEMMA AppendElements ==
    ASSUME NEW S, NEW q \in Seq(S), NEW x \in S
    PROVE  /\ Append(q, x) \in Seq(S) /\ Len(Append(q, x)) = Len(q) + 1 /\ Len(q) \in Nat
           /\ \A i \in 1..Len(q) : Append(q, x)[i] = q[i]
           /\ Append(q, x)[Len(q) + 1] = x
           /\ Elements(Append(q, x)) = Elements(q) \cup {x}
<1>1. /\ Append(q, x) \in Seq(S) /\ Len(Append(q, x)) = Len(q) + 1 /\ Len(q) \in Nat
      /\ \A i \in 1..Len(q) : Append(q, x)[i] = q[i]
      /\ Append(q, x)[Len(q) + 1] = x
  OBVIOUS
<1> DEFINE r == Append(q, x)
           n == Len(q)
<1> HIDE DEF r
<1>2. Elements(r) \subseteq Elements(q) \cup {x}
  BY <1>1 DEF Elements, r
<1>3. Elements(q) \subseteq Elements(r) /\ x \in Elements(r)
  BY <1>1 DEF Elements, r
<1> QED
  BY <1>1, <1>2, <1>3 DEF r

(* An element is an element of the type. *)
LEMMA ElementsIn ==
    ASSUME NEW S, NEW q \in Seq(S)
    PROVE  Elements(q) \subseteq S /\ Elements(<<>>) = {}
BY DEF Elements

-----------------------------------------------------------------------------
(* opCh is left alone, read from, emptied, or gets an operation that is    *)
(* not a message.                                                          *)
OpsPlain ==
    \/ opCh' = opCh
    \/ opCh' = <<>>
    \/ opCh # <<>> /\ opCh' = Tail(opCh)
    \/ \E o \in Operation : o.op # "send" /\ opCh' = Append(opCh, o)

(* Unless a message is put into opCh, what waits there stays unsealed. *)
LEMMA OpsPlainStep ==
    ASSUME OpsOK, OpsFresh, OpsPlain, made' = made, \A m : Used(m)' => Used(m)
    PROVE  OpsOK' /\ OpsFresh'
<1>1. opCh \in Seq(Operation) /\ made \in Nat
  BY DEF OpsOK
<1>2. CASE opCh' = opCh
  BY <1>1, <1>2 DEF OpsOK, OpsFresh, Waiting
<1>3. CASE opCh' = <<>>
  BY <1>1, <1>3 DEF OpsOK, OpsFresh, Waiting
<1>4. CASE opCh # <<>> /\ opCh' = Tail(opCh)
  <2>1. /\ opCh' \in Seq(Operation) /\ Len(opCh') = Len(opCh) - 1 /\ Len(opCh) \in Nat
        /\ \A i \in 1..Len(opCh) - 1 : opCh'[i] = opCh[i + 1]
    BY <1>1, <1>4, TailElements
  <2>2. \A i \in 1..Len(opCh') : i + 1 \in 1..Len(opCh) /\ (Waiting(i)' <=> Waiting(i + 1))
                                 /\ opCh'[i] = opCh[i + 1]
    BY <2>1 DEF Waiting
  <2>3. \A i \in 1..Len(opCh') : Waiting(i)' => opCh'[i].msg <= made /\ ~Used(opCh'[i].msg)
    BY <2>2 DEF OpsFresh
  <2>4. \A i, j \in 1..Len(opCh') : Waiting(i)' /\ Waiting(j)' /\ i < j => opCh'[i].msg < opCh'[j].msg
    BY <2>1, <2>2 DEF OpsFresh
  <2> QED
    BY <1>1, <2>1, <2>3, <2>4 DEF OpsOK, OpsFresh
<1>5. ASSUME NEW o \in Operation, o.op # "send", opCh' = Append(opCh, o)
      PROVE  OpsOK' /\ OpsFresh'
  <2>1. /\ opCh' \in Seq(Operation) /\ Len(opCh') = Len(opCh) + 1 /\ Len(opCh) \in Nat
        /\ \A i \in 1..Len(opCh) : opCh'[i] = opCh[i]
        /\ opCh'[Len(opCh) + 1] = o
    BY <1>1, <1>5, AppendElements
  <2>2. \A i \in 1..Len(opCh') : Waiting(i)' => i \in 1..Len(opCh) /\ Waiting(i) /\ opCh'[i] = opCh[i]
    BY <1>5, <2>1 DEF Waiting
  <2>3. \A i \in 1..Len(opCh') : Waiting(i)' => opCh'[i].msg <= made /\ ~Used(opCh'[i].msg)
    BY <2>2 DEF OpsFresh
  <2>4. \A i, j \in 1..Len(opCh') : Waiting(i)' /\ Waiting(j)' /\ i < j => opCh'[i].msg < opCh'[j].msg
    BY <2>2 DEF OpsFresh
  <2> QED
    BY <1>1, <2>1, <2>3, <2>4 DEF OpsOK, OpsFresh
<1> QED
  BY <1>2, <1>3, <1>4, <1>5 DEF OpsPlain

(* A step that seals nothing and shows Bob nothing. *)
LEMMA PlainStep ==
    ASSUME IInv, AliceOK', ReqsOK', NetOK', SpoolOK', BobOK', OpsPlain, made' = made,
           Sealed' \subseteq Sealed, Bobs' \subseteq Bobs
    PROVE  IInv'
<1>1. \A m : Used(m)' => Used(m)
  BY DEF Used
<1>2. OpsOK' /\ OpsFresh'
  BY <1>1, OpsPlainStep DEF IInv, TypeOK
<1>3. TypeOK'
  BY <1>2 DEF TypeOK
<1>4. SealedOnce'
  BY DEF IInv, SealedOnce
<1>5. BobsOK'
  BY DEF IInv, BobsOK
<1> QED
  BY <1>2, <1>3, <1>4, <1>5 DEF IInv

(* What does not change. *)
LEMMA SameAlice ==
    ASSUME IInv, UNCHANGED <<alice, aSaved>>
    PROVE  AliceOK' /\ AtAlice' = AtAlice
BY DEF IInv, TypeOK, AliceOK, AtAlice

(* Nor do steps that leave the requests alone change what was asked for. *)
LEMMA SameReqs ==
    ASSUME IInv, UNCHANGED reqs
    PROVE  ReqsOK' /\ Asked' = Asked
BY DEF IInv, TypeOK, ReqsOK, Asked

(* Nor do steps that leave the network alone change what is on its way. *)
LEMMA SameNet ==
    ASSUME IInv, UNCHANGED net
    PROVE  NetOK' /\ OnWay' = OnWay
BY DEF IInv, TypeOK, NetOK, OnWay

(* Nor do steps that leave the spool alone change what is in it. *)
LEMMA SameSpool ==
    ASSUME IInv, UNCHANGED <<items, bucket>>
    PROVE  SpoolOK' /\ Spooled' = Spooled
BY DEF IInv, TypeOK, SpoolOK, Spooled

(* Nor do steps of others change what Bob has, in memory and on disk. *)
LEMMA SameBob ==
    ASSUME IInv, UNCHANGED bobVars
    PROVE  BobOK' /\ Read' = Read /\ Bobs' = Bobs
BY DEF IInv, TypeOK, BobOK, Read, Bobs, bobVars

-----------------------------------------------------------------------------
(* reloaded: one of Alice's files, and no requests. *)
LEMMA NoRequests ==
    ASSUME ReqsOK, reqs' = [r \in DOMAIN reqs |-> Gone]
    PROVE  ReqsOK' /\ Asked' = {}
<1>1. Gone \in Request /\ Gone.st = "gone"
  BY DEF Gone, Request
<1>2. reqs' \in Seq(Request) /\ \A r \in 1..Len(reqs') : reqs'[r].st = "gone"
  BY <1>1 DEF ReqsOK
<1> QED
  BY <1>2 DEF ReqsOK, Asked

(* Alice starts again from one of her files: she knows no message more. *)
LEMMA ReloadedStep ==
    ASSUME IInv, reloaded
    PROVE  IInv'
<1>1. PICK file \in {aSaved[1], aSaved[2]} : alice' = file /\ aSaved' = <<file, file>>
  BY DEF reloaded
<1>2. AliceOK' /\ AtAlice' \subseteq AtAlice
  BY <1>1 DEF IInv, TypeOK, AliceOK, AtAlice
<1>3. ReqsOK' /\ Asked' = {}
  BY NoRequests DEF reloaded, IInv, TypeOK
<1>4. /\ NetOK' /\ OnWay' = OnWay /\ SpoolOK' /\ Spooled' = Spooled
      /\ BobOK' /\ Read' = Read /\ Bobs' = Bobs
  BY SameNet, SameSpool, SameBob DEF reloaded, spoolVars
<1>5. made' = made /\ OpsPlain
  BY DEF reloaded, OpsPlain
<1>6. Sealed' \subseteq Sealed
  BY <1>2, <1>3, <1>4 DEF Sealed
<1> QED
  BY <1>2, <1>3, <1>4, <1>5, <1>6, PlainStep

(* sendHead and sendMessage: at most the head becomes a request. *)
LEMMA SendHead ==
    ASSUME ReqsOK, NEW queue \in Seq(Item), queue # <<>>, NEW nick \in Names, sendHead(queue, nick)
    PROVE  ReqsOK' /\ Asked' \subseteq Asked \cup Elements(queue)
<1>1. CASE UNCHANGED reqs
  BY <1>1 DEF ReqsOK, Asked
<1> DEFINE new == [item |-> Head(queue), nick |-> nick, st |-> "queued", surb |-> 0,
                   unreported |-> FALSE]
<1>2. CASE reqs' = Append(reqs, new)
  <2>1. Head(queue) \in Elements(queue) /\ Elements(queue) \subseteq Item
    BY TailElements, ElementsIn
  <2>2. new \in Request /\ new.item = Head(queue)
    BY <2>1 DEF Request
  <2> HIDE DEF new
  <2>3. /\ reqs' \in Seq(Request) /\ Len(reqs') = Len(reqs) + 1 /\ Len(reqs) \in Nat
        /\ \A i \in 1..Len(reqs) : reqs'[i] = reqs[i]
        /\ reqs'[Len(reqs) + 1] = new
    BY <1>2, <2>2, AppendElements DEF ReqsOK
  <2>4. \A r \in 1..Len(reqs') : (r \in 1..Len(reqs) /\ reqs'[r] = reqs[r]) \/ reqs'[r] = new
    BY <2>3
  <2>5. ReqsOK'
    BY <2>1, <2>2, <2>3, <2>4 DEF ReqsOK
  <2>6. Asked' \subseteq Asked \cup {new.item}
    BY <2>4 DEF Asked
  <2> QED
    BY <2>1, <2>2, <2>5, <2>6
<1> QED
  BY <1>1, <1>2 DEF sendHead, Peek

(* sendMessage of a queue asks for nothing that is not in the queue. *)
LEMMA SendQueue ==
    ASSUME ReqsOK, NEW queue \in Seq(Item), NEW nick \in Names, sendMessage(queue, nick)
    PROVE  ReqsOK' /\ Asked' \subseteq Asked \cup Elements(queue)
<1>1. CASE queue = <<>>
  BY <1>1 DEF sendMessage, ReqsOK, Asked
<1>2. CASE queue # <<>>
  BY <1>2, SendHead DEF sendMessage
<1> QED
  BY <1>1, <1>2

(* Alice's state with another name, conversation, queue or count. *)
LEMMA AliceChange ==
    ASSUME NEW a, AliceState(a), NEW q \in Seq(Item), NEW n \in Names, NEW k \in Nat, NEW c
    PROVE  /\ [a EXCEPT !.nick = n] =
              [queue |-> a.queue, count |-> a.count, nick |-> n, conv |-> a.conv]
           /\ [a EXCEPT !.conv = c] =
              [queue |-> a.queue, count |-> a.count, nick |-> a.nick, conv |-> c]
           /\ [a EXCEPT !.count = k] =
              [queue |-> a.queue, count |-> k, nick |-> a.nick, conv |-> a.conv]
           /\ [a EXCEPT !.queue = q] =
              [queue |-> q, count |-> a.count, nick |-> a.nick, conv |-> a.conv]
<1>1. PICK q0, k0, n0, c0 : a = [queue |-> q0, count |-> k0, nick |-> n0, conv |-> c0]
  BY DEF AliceState
<1>2. a.queue = q0 /\ a.count = k0 /\ a.nick = n0 /\ a.conv = c0
  BY <1>1
<1>3. [a EXCEPT !.nick = n] = [queue |-> q0, count |-> k0, nick |-> n, conv |-> c0]
  BY <1>1
<1>4. [a EXCEPT !.conv = c] = [queue |-> q0, count |-> k0, nick |-> n0, conv |-> c]
  BY <1>1
<1>5. [a EXCEPT !.count = k] = [queue |-> q0, count |-> k, nick |-> n0, conv |-> c0]
  BY <1>1
<1>6. [a EXCEPT !.queue = q] = [queue |-> q, count |-> k0, nick |-> n0, conv |-> c0]
  BY <1>1
<1> QED
  BY <1>2, <1>3, <1>4, <1>5, <1>6

(* The queue and the conversation together. *)
LEMMA QueueChange ==
    ASSUME NEW a, AliceState(a), NEW q \in Seq(Item), NEW c
    PROVE  LET b == [a EXCEPT !.queue = q, !.conv = c]
           IN  AliceState(b) /\ b.queue = q
<1>1. PICK q0, k0, n0, c0 : a = [queue |-> q0, count |-> k0, nick |-> n0, conv |-> c0]
  BY DEF AliceState
<1>2. k0 \in Nat /\ n0 \in Names
  BY <1>1 DEF AliceState
<1> DEFINE b == [a EXCEPT !.queue = q]
<1>3. b = [queue |-> q, count |-> k0, nick |-> n0, conv |-> c0]
  BY <1>1
<1> HIDE DEF b
<1>4. [b EXCEPT !.conv = c] = [queue |-> q, count |-> k0, nick |-> n0, conv |-> c]
  BY <1>3
<1>5. [a EXCEPT !.queue = q, !.conv = c] = [b EXCEPT !.conv = c]
  BY DEF b
<1>6. AliceState([queue |-> q, count |-> k0, nick |-> n0, conv |-> c])
  BY <1>2 DEF AliceState
<1> QED
  BY <1>4, <1>5, <1>6

(* A record with Alice's fields is a state of hers. *)
LEMMA AliceRecord ==
    ASSUME NEW q \in Seq(Item), NEW n \in Names, NEW k \in Nat, NEW c
    PROVE  AliceState([queue |-> q, count |-> k, nick |-> n, conv |-> c])
BY DEF AliceState

-----------------------------------------------------------------------------
(* The user's operations on opCh. *)
LEMMA SendMessageStep ==
    ASSUME IInv, SendMessage
    PROVE  IInv'
<1> DEFINE o == [op |-> "send", msg |-> made + 1, name |-> alice.nick]
<1>1. /\ opCh' = Append(opCh, o) /\ made' = made + 1
      /\ UNCHANGED <<alice, aSaved, reqs, bobVars, net, items, bucket>>
  BY DEF SendMessage, Enqueue, netVars, spoolVars
<1>2. opCh \in Seq(Operation) /\ made \in Nat /\ alice.nick \in Names
  BY DEF IInv, TypeOK, OpsOK, AliceOK, AliceState
<1>3. o \in Operation /\ o.msg = made + 1
  BY <1>2 DEF Operation
<1> HIDE DEF o
<1>4. /\ opCh' \in Seq(Operation) /\ Len(opCh') = Len(opCh) + 1 /\ Len(opCh) \in Nat
      /\ \A i \in 1..Len(opCh) : opCh'[i] = opCh[i]
      /\ opCh'[Len(opCh) + 1] = o
  BY <1>1, <1>2, <1>3, AppendElements
<1>5. /\ AliceOK' /\ ReqsOK' /\ NetOK' /\ SpoolOK' /\ BobOK'
      /\ Sealed' = Sealed /\ Bobs' = Bobs
  BY <1>1, SameAlice, SameReqs, SameNet, SameSpool, SameBob DEF Sealed
<1>6. TypeOK'
  BY <1>1, <1>2, <1>4, <1>5 DEF TypeOK, OpsOK
<1>7. SealedOnce' /\ BobsOK'
  BY <1>5 DEF IInv, SealedOnce, BobsOK
<1>8. \A m : Used(m)' <=> Used(m)
  BY <1>5 DEF Used
<1>9. \A i \in 1..Len(opCh') :
         \/ i \in 1..Len(opCh) /\ opCh'[i] = opCh[i] /\ (Waiting(i)' <=> Waiting(i))
         \/ i = Len(opCh) + 1 /\ opCh'[i].msg = made + 1
  BY <1>3, <1>4 DEF Waiting
<1>10. \A m : Used(m) => m <= made
  BY DEF IInv, OpsFresh
<1>11. \A i \in 1..Len(opCh) : Waiting(i) => opCh[i].msg \in Nat
  BY <1>2 DEF Waiting, Operation
<1>12. ~Used(made + 1) /\ \A m \in Nat : m <= made => m <= made + 1 /\ m < made + 1
  BY <1>2, <1>10
<1>13. \A m : Used(m)' => m <= made'
  <2> SUFFICES ASSUME NEW m, Used(m) PROVE m <= made + 1
    BY <1>1, <1>8
  <2>1. m \in Nat
    <3>1. \A x \in Sealed : x \in Item
      BY DEF IInv, TypeOK, AliceOK, ReqsOK, NetOK, SpoolOK, BobOK, Sealed, AtAlice, Asked,
             OnWay, Spooled, Read, AliceState, Elements
    <3>2. \A b \in Bobs : Elements(b.conv) \subseteq Nat
      BY ElementsIn DEF IInv, TypeOK, BobOK, Bobs, BobState
    <3> QED
      BY <3>1, <3>2 DEF Used, Item
  <2> QED
    BY <1>10, <1>12, <2>1
<1>14. \A i \in 1..Len(opCh') : Waiting(i)' => opCh'[i].msg <= made' /\ ~Used(opCh'[i].msg)
  <2> SUFFICES ASSUME NEW i \in 1..Len(opCh'), Waiting(i)'
               PROVE  opCh'[i].msg <= made + 1 /\ ~Used(opCh'[i].msg)
    BY <1>1
  <2>1. CASE i \in 1..Len(opCh) /\ opCh'[i] = opCh[i] /\ Waiting(i)
    BY <1>11, <1>12, <2>1 DEF IInv, OpsFresh
  <2>2. CASE opCh'[i].msg = made + 1
    BY <1>2, <1>12, <2>2
  <2> QED
    BY <1>9, <2>1, <2>2
<1>15. \A i, j \in 1..Len(opCh') : Waiting(i)' /\ Waiting(j)' /\ i < j => opCh'[i].msg < opCh'[j].msg
  <2> SUFFICES ASSUME NEW i \in 1..Len(opCh'), NEW j \in 1..Len(opCh'), Waiting(i)', Waiting(j)', i < j
               PROVE  opCh'[i].msg < opCh'[j].msg
    OBVIOUS
  <2>1. i \in 1..Len(opCh) /\ opCh'[i] = opCh[i] /\ Waiting(i) /\ opCh[i].msg <= made
    BY <1>4, <1>9 DEF IInv, OpsFresh
  <2> QED
    BY <1>9, <1>11, <1>12, <2>1 DEF IInv, OpsFresh
<1> QED
  BY <1>6, <1>7, <1>8, <1>13, <1>14, <1>15 DEF IInv, OpsFresh

(* RenameContact and Offline put an operation into opCh, no message. *)
LEMMA AskStep ==
    ASSUME IInv, NEW op \in {"rename", "offline"}, Ask(op)
    PROVE  IInv'
<1>1. /\ opCh' = Append(opCh, [op |-> op]) /\ made' = made
      /\ UNCHANGED <<alice, aSaved, reqs, bobVars, net, items, bucket>>
  BY DEF Ask, Enqueue, netVars, spoolVars
<1>2. OpsPlain
  BY <1>1 DEF OpsPlain, Operation
<1>3. /\ AliceOK' /\ ReqsOK' /\ NetOK' /\ SpoolOK' /\ BobOK'
      /\ Sealed' = Sealed /\ Bobs' = Bobs
  BY <1>1, SameAlice, SameReqs, SameNet, SameSpool, SameBob DEF Sealed
<1> QED
  BY <1>1, <1>2, <1>3, PlainStep

-----------------------------------------------------------------------------
(* doSendMessage of a message that is put into the queue: it is sealed for *)
(* the first time.                                                         *)
LEMMA SealStep ==
    ASSUME IInv, opCh # <<>>, Head(opCh).op = "send", opCh' = Tail(opCh), made' = made,
           NEW item \in Item, item.msg = Head(opCh).msg,
           AliceOK', ReqsOK', NetOK', SpoolOK', BobOK',
           Sealed' \subseteq Sealed \cup {item}, Bobs' = Bobs
    PROVE  IInv'
<1> DEFINE m == item.msg
<1>1. /\ opCh \in Seq(Operation) /\ made \in Nat
  BY DEF IInv, TypeOK, OpsOK
<1>2. /\ opCh' \in Seq(Operation) /\ Len(opCh') = Len(opCh) - 1 /\ Len(opCh) \in Nat \ {0}
      /\ \A i \in 1..Len(opCh) - 1 : opCh'[i] = opCh[i + 1]
      /\ Head(opCh) = opCh[1]
  BY <1>1, TailElements
<1>3. 1 \in 1..Len(opCh) /\ Waiting(1) /\ opCh[1].msg = m
  BY <1>2 DEF Waiting
<1>4. m <= made /\ ~Used(m)
  BY <1>3 DEF IInv, OpsFresh
<1> HIDE DEF m
<1>5. \A x \in Sealed : x.msg # m
  BY <1>4 DEF Used
<1>6. \A b \in Bobs : m \notin Elements(b.conv)
  BY <1>4 DEF Used
<1>7. SealedOnce'
  <2> SUFFICES ASSUME NEW x \in Sealed', NEW y \in Sealed', x.msg = y.msg PROVE x = y
    BY DEF SealedOnce
  <2>1. (x \in Sealed \/ x = item) /\ (y \in Sealed \/ y = item)
    OBVIOUS
  <2> QED
    BY <1>5, <2>1 DEF IInv, SealedOnce, m
<1>8. BobsOK'
  <2>1. \A x \in Sealed' : x \in Sealed \/ x.msg = m
    BY DEF m
  <2> QED
    BY <1>6, <2>1 DEF IInv, BobsOK
<1>9. \A n : Used(n)' => Used(n) \/ n = m
  BY DEF Used, m
<1>10. TypeOK'
  BY <1>1, <1>2 DEF TypeOK, OpsOK
<1>11. \A i \in 1..Len(opCh') : /\ i + 1 \in 1..Len(opCh) /\ (Waiting(i)' <=> Waiting(i + 1))
                                /\ opCh'[i] = opCh[i + 1] /\ 1 < i + 1
  BY <1>2 DEF Waiting
<1>12. \A i \in 1..Len(opCh) : Waiting(i) => opCh[i].msg \in Nat
  BY <1>1 DEF Waiting, Operation
<1>13. \A i \in 1..Len(opCh') : Waiting(i)' =>
          opCh'[i].msg <= made /\ ~Used(opCh'[i].msg) /\ opCh'[i].msg # m
  <2> SUFFICES ASSUME NEW i \in 1..Len(opCh'), Waiting(i)'
               PROVE  opCh'[i].msg <= made /\ ~Used(opCh'[i].msg) /\ opCh'[i].msg # m
    OBVIOUS
  <2>1. Waiting(i + 1) /\ i + 1 \in 1..Len(opCh) /\ opCh'[i] = opCh[i + 1] /\ 1 < i + 1
    BY <1>11
  <2>2. opCh[1].msg < opCh[i + 1].msg
    BY <1>3, <2>1 DEF IInv, OpsFresh
  <2>3. opCh[1].msg \in Nat /\ opCh[i + 1].msg \in Nat
    BY <1>3, <1>12, <2>1
  <2> QED
    BY <1>3, <2>1, <2>2, <2>3 DEF IInv, OpsFresh
<1>14. \A i, j \in 1..Len(opCh') : Waiting(i)' /\ Waiting(j)' /\ i < j => opCh'[i].msg < opCh'[j].msg
  <2> SUFFICES ASSUME NEW i \in 1..Len(opCh'), NEW j \in 1..Len(opCh'), Waiting(i)', Waiting(j)', i < j
               PROVE  opCh'[i].msg < opCh'[j].msg
    OBVIOUS
  <2>1. i + 1 < j + 1 /\ Waiting(i + 1) /\ Waiting(j + 1) /\ i + 1 \in 1..Len(opCh) /\ j + 1 \in 1..Len(opCh)
    BY <1>11
  <2>2. opCh[i + 1].msg < opCh[j + 1].msg
    BY <2>1 DEF IInv, OpsFresh
  <2> QED
    BY <1>11, <2>2
<1>15. OpsFresh'
  BY <1>4, <1>9, <1>13, <1>14 DEF IInv, OpsFresh
<1> QED
  BY <1>7, <1>8, <1>10, <1>15 DEF IInv

(* doSendMessage seals a message of opCh: its first time and only time. *)
LEMMA DoSendMessageStep ==
    ASSUME IInv, doSendMessage
    PROVE  IInv'
<1> DEFINE item == [msg |-> Head(opCh).msg, num |-> alice.count + 1]
           sealed == [alice EXCEPT !.count = @ + 1]
           c == (item.msg :> {}) @@ alice.conv
           q == Append(alice.queue, item)
<1>1. /\ opCh # <<>> /\ Head(opCh).op = "send" /\ opCh' = Tail(opCh) /\ made' = made
      /\ UNCHANGED <<bobVars, net, items, bucket>>
  BY DEF doSendMessage, TakeOp, spoolVars
<1>2. OpsPlain
  BY <1>1 DEF OpsPlain
<1>3. /\ NetOK' /\ OnWay' = OnWay /\ SpoolOK' /\ Spooled' = Spooled
      /\ BobOK' /\ Read' = Read /\ Bobs' = Bobs
  BY <1>1, SameNet, SameSpool, SameBob
<1>4. AliceState(alice) /\ AliceOK /\ ReqsOK
  BY DEF IInv, TypeOK, AliceOK
<1>5. alice.queue \in Seq(Item) /\ alice.nick \in Names /\ alice.count \in Nat /\ alice.count + 1 \in Nat
  BY <1>4 DEF AliceState
<1>6. item \in Item
  <2>1. opCh \in Seq(Operation)
    BY DEF IInv, TypeOK, OpsOK
  <2>2. Head(opCh) \in Operation
    BY <1>1, <2>1
  <2>3. Head(opCh).msg \in Nat
    BY <1>1, <2>2 DEF Operation
  <2> QED
    BY <1>5, <2>3 DEF Item
<1>7. sealed = [queue |-> alice.queue, count |-> alice.count + 1, nick |-> alice.nick, conv |-> alice.conv]
  BY <1>4, <1>5, AliceChange, Zenon
<1>8. AliceState(sealed) /\ sealed.queue = alice.queue /\ sealed.conv = alice.conv
  BY <1>5, <1>7, AliceRecord
<1>9. CASE UNCHANGED <<alice, aSaved, reqs>>
  <2>1. AliceOK' /\ AtAlice' = AtAlice /\ ReqsOK' /\ Asked' = Asked
    BY <1>9, SameAlice, SameReqs
  <2>2. Sealed' = Sealed
    BY <1>3, <2>1 DEF Sealed
  <2> QED
    BY <1>1, <1>2, <1>3, <2>1, <2>2, PlainStep
<1>10. CASE alice' = sealed /\ UNCHANGED <<aSaved, reqs>>
  <2> HIDE DEF sealed
  <2>1. AliceOK' /\ AtAlice' = AtAlice
    BY <1>4, <1>8, <1>10 DEF AliceOK, AtAlice
  <2>2. ReqsOK' /\ Asked' = Asked
    BY <1>10, SameReqs
  <2>3. Sealed' = Sealed
    BY <1>3, <2>1, <2>2 DEF Sealed
  <2> QED
    BY <1>1, <1>2, <1>3, <2>1, <2>2, <2>3, PlainStep
<1>11. CASE /\ alice' = [sealed EXCEPT !.queue = Append(@, item), !.conv = (item.msg :> {}) @@ @]
            /\ save
            /\ sendHead(alice'.queue, alice.nick) \/ UNCHANGED reqs
  <2> HIDE DEF sealed, c, item
  <2>1. alice' = [sealed EXCEPT !.queue = q, !.conv = c]
    BY <1>8, <1>11 DEF c
  <2>2. q \in Seq(Item) /\ Elements(q) = Elements(alice.queue) \cup {item} /\ q # <<>>
    <3>1. alice.queue \in Seq(Item) /\ item \in Item
      BY <1>5, <1>6
    <3>2. \A s \in Seq(Item) : \A x \in Item : Elements(Append(s, x)) = Elements(s) \cup {x}
      BY AppendElements
    <3>3. \A s \in Seq(Item) : \A x \in Item : Append(s, x) \in Seq(Item) /\ Append(s, x) # <<>>
      <4> SUFFICES ASSUME NEW s \in Seq(Item), NEW x \in Item
                   PROVE  Append(s, x) \in Seq(Item) /\ Append(s, x) # <<>>
        OBVIOUS
      <4>1. Append(s, x) \in Seq(Item) /\ Len(Append(s, x)) = Len(s) + 1 /\ Len(s) \in Nat
        BY AppendElements
      <4> QED
        BY <4>1
    <3> QED
      BY <3>1, <3>2, <3>3, Zenon
  <2> HIDE DEF q
  <2>3. AliceState(sealed) /\ q \in Seq(Item)
    BY <1>8, <2>2
  <2>4. AliceState(alice') /\ alice'.queue = q
    BY <2>1, <2>3, QueueChange, Zenon
  <2>5. aSaved' = <<aSaved[2], alice'>>
    BY <1>11 DEF save
  <2>6. AliceOK'
    BY <1>4, <2>4, <2>5 DEF AliceOK
  <2>7. AtAlice' \subseteq AtAlice \cup {item}
    BY <2>2, <2>4, <2>5 DEF AtAlice
  <2>8. ReqsOK' /\ Asked' \subseteq Asked \cup Elements(q)
    <3>1. CASE sendHead(q, alice.nick)
      BY <1>4, <1>5, <2>2, <3>1, SendHead
    <3>2. CASE UNCHANGED reqs
      BY <3>2, SameReqs
    <3> QED
      BY <1>11, <2>4, <3>1, <3>2, Zenon
  <2>9. Sealed' \subseteq Sealed \cup {item}
    BY <1>3, <2>2, <2>7, <2>8 DEF Sealed, AtAlice
  <2>10. item.msg = Head(opCh).msg
    BY DEF item
  <2> QED
    BY <1>1, <1>3, <1>6, <2>6, <2>8, <2>9, <2>10, SealStep
<1> QED
  BY <1>9, <1>10, <1>11 DEF doSendMessage, Push

-----------------------------------------------------------------------------
(* A step that leaves Bob, the network and the spool alone. *)
LEMMA LocalStep ==
    ASSUME IInv, AliceOK', ReqsOK', AtAlice' \subseteq AtAlice, Asked' \subseteq Asked \cup AtAlice,
           OpsPlain, UNCHANGED <<made, bobVars, net, items, bucket>>
    PROVE  IInv'
<1>1. /\ NetOK' /\ OnWay' = OnWay /\ SpoolOK' /\ Spooled' = Spooled
      /\ BobOK' /\ Read' = Read /\ Bobs' = Bobs
  BY SameNet, SameSpool, SameBob
<1>2. Sealed' \subseteq Sealed
  BY <1>1 DEF Sealed
<1> QED
  BY <1>1, <1>2, PlainStep

(* Alice's own state. *)
LEMMA AliceFacts ==
    ASSUME IInv
    PROVE  /\ AliceState(alice) /\ AliceOK /\ ReqsOK
           /\ alice.queue \in Seq(Item) /\ alice.nick \in Names
           /\ Elements(alice.queue) \subseteq AtAlice
BY DEF IInv, TypeOK, AliceOK, AliceState, AtAlice

(* doRestartSending: the head is sent, or the process dies. *)
LEMMA DoRestartStep ==
    ASSUME IInv, doRestartSending
    PROVE  IInv'
<1>1. CASE reloaded
  BY <1>1, ReloadedStep
<1>2. CASE /\ TakeOp("restart") /\ sendMessage(alice.queue, alice.nick)
           /\ UNCHANGED <<alice, aSaved>>
  <2>1. OpsPlain /\ UNCHANGED <<made, bobVars, net, items, bucket>>
    BY <1>2 DEF TakeOp, OpsPlain, spoolVars
  <2>2. ReqsOK' /\ Asked' \subseteq Asked \cup AtAlice
    BY <1>2, AliceFacts, SendQueue
  <2> QED
    BY <1>2, <2>1, <2>2, SameAlice, LocalStep
<1> QED
  BY <1>1, <1>2 DEF doRestartSending

(* doContactRename: another name, the same queue. *)
LEMMA RenameStep ==
    ASSUME IInv, doContactRename
    PROVE  IInv'
<1>1. PICK n \in Names : alice' = [alice EXCEPT !.nick = n]
  BY DEF doContactRename
<1>2. OpsPlain /\ UNCHANGED <<aSaved, reqs, made, bobVars, net, items, bucket>>
  BY DEF doContactRename, TakeOp, OpsPlain, spoolVars
<1>3. AliceState(alice) /\ alice.queue \in Seq(Item) /\ alice.count \in Nat
  BY AliceFacts DEF AliceState
<1>4. [alice EXCEPT !.nick = n] =
         [queue |-> alice.queue, count |-> alice.count, nick |-> n, conv |-> alice.conv]
  BY <1>3, AliceChange, Zenon
<1>5. AliceState(alice') /\ alice'.queue = alice.queue
  BY <1>1, <1>3, <1>4, AliceRecord
<1>6. AliceOK' /\ AtAlice' = AtAlice
  BY <1>2, <1>5, AliceFacts DEF AliceOK, AtAlice
<1> QED
  BY <1>2, <1>6, SameReqs, LocalStep

(* goOffline: no requests any more. *)
LEMMA OfflineStep ==
    ASSUME IInv, goOffline
    PROVE  IInv'
<1>1. OpsPlain /\ UNCHANGED <<alice, aSaved, made, bobVars, net, items, bucket>>
  BY DEF goOffline, TakeOp, OpsPlain, spoolVars
<1>2. ReqsOK' /\ Asked' = {}
  BY AliceFacts, NoRequests DEF goOffline
<1> QED
  BY <1>1, <1>2, SameAlice, LocalStep

(* goOnline, Reconnect, onConnectionStatus and restartSending. *)
LEMMA ConnectionStep ==
    ASSUME IInv, goOnline \/ Reconnect \/ onConnectionStatus \/ restartSending
    PROVE  IInv'
<1>1. UNCHANGED <<alice, aSaved, reqs, made, bobVars, net, items, bucket>>
  BY DEF goOnline, Reconnect, onConnectionStatus, restartSending, TakeEvent, netVars, histVars, spoolVars
<1>2. CASE goOnline \/ Reconnect \/ onConnectionStatus
  <2>1. OpsPlain
    BY <1>2 DEF goOnline, Reconnect, onConnectionStatus, TakeEvent, OpsPlain
  <2> QED
    BY <1>1, <2>1, SameAlice, SameReqs, LocalStep, ZenonT(60)
<1>3. CASE restartSending
  <2>1. opCh' = Append(opCh, [op |-> "restart"])
    BY <1>3 DEF restartSending, Enqueue
  <2>2. OpsPlain
    BY <2>1 DEF OpsPlain, Operation
  <2> QED
    BY <1>1, <2>2, SameAlice, SameReqs, LocalStep
<1> QED
  BY <1>2, <1>3, ZenonT(60)

-----------------------------------------------------------------------------
(* A request goes on, with the same message. *)
LEMMA RequestChange ==
    ASSUME ReqsOK, NEW r \in DOMAIN reqs, reqs[r].st # "gone", NEW new \in Request,
           new.item = reqs[r].item, reqs' = [reqs EXCEPT ![r] = new]
    PROVE  ReqsOK' /\ Asked' \subseteq Asked /\ reqs[r].item \in Asked \cap Item /\ r \in Nat
<1>1. r \in 1..Len(reqs) /\ Len(reqs) \in Nat
  BY DEF ReqsOK
<1>2. /\ reqs' \in Seq(Request) /\ Len(reqs') = Len(reqs)
      /\ \A s \in 1..Len(reqs) : reqs'[s] = IF s = r THEN new ELSE reqs[s]
  BY <1>1 DEF ReqsOK
<1>3. reqs[r].item \in Asked \cap Item
  BY <1>1 DEF ReqsOK, Asked
<1>4. ReqsOK'
  BY <1>2, <1>3 DEF ReqsOK
<1>5. Asked' \subseteq Asked
  <2> SUFFICES ASSUME NEW s \in 1..Len(reqs), reqs'[s].st # "gone" PROVE reqs'[s].item \in Asked
    BY <1>2 DEF Asked
  <2>1. CASE s = r
    BY <1>2, <1>3, <2>1
  <2>2. CASE s # r
    BY <1>2, <2>2 DEF Asked
  <2> QED
    BY <2>1, <2>2
<1> QED
  BY <1>1, <1>3, <1>4, <1>5

(* The fields of a request. *)
LEMMA RequestFacts ==
    ASSUME ReqsOK, NEW r \in DOMAIN reqs
    PROVE  reqs[r] \in Request /\ reqs[r].surb \in Nat /\ reqs[r].surb + 1 \in Nat
<1>1. reqs[r] \in Request
  BY DEF ReqsOK
<1>2. reqs[r].surb \in Nat
  BY <1>1 DEF Request
<1> QED
  BY <1>1, <1>2

(* doSend, reportSent, Retransmit and onACK. *)
LEMMA SessionSteps ==
    ASSUME IInv, NEW r \in DOMAIN reqs,
           doSend(r) \/ reportSent(r) \/ Retransmit(r) \/ \E again \in BOOLEAN : onACK(r, again)
    PROVE  IInv'
<1> DEFINE q == reqs[r]
<1>1. ReqsOK /\ q \in Request /\ q.surb + 1 \in Nat
  BY AliceFacts, RequestFacts
<1>2. /\ UNCHANGED <<alice, aSaved, opCh, made, bobVars, items, bucket>> /\ q.st # "gone"
  BY DEF doSend, reportSent, Retransmit, onACK, SessionStep, histVars, spoolVars
<1>3. OpsPlain
  BY <1>2 DEF OpsPlain
<1>4. ASSUME NEW new \in Request, new.item = q.item, reqs' = [reqs EXCEPT ![r] = new], net' = net
      PROVE  IInv'
  <2>1. ReqsOK' /\ Asked' \subseteq Asked
    BY <1>1, <1>2, <1>4, RequestChange, Zenon
  <2> QED
    BY <1>2, <1>3, <1>4, <2>1, SameAlice, LocalStep
<1>5. CASE /\ SessionStep(r, "queued", [q EXCEPT !.st = "waiting", !.surb = @ + 1, !.unreported = TRUE])
           /\ net' = net \cup {[id |-> r, surb |-> q.surb + 1, item |-> q.item]}
  <2> DEFINE k == q.surb + 1
             new == [q EXCEPT !.st = "waiting", !.surb = k, !.unreported = TRUE]
  <2> HIDE DEF q, k
  <2>1. new \in Request /\ new.item = q.item
    BY <1>1, Zenon DEF Request, k
  <2>2. reqs' = [reqs EXCEPT ![r] = new]
    BY <1>5 DEF SessionStep, k
  <2> HIDE DEF new
  <2>3. ReqsOK' /\ Asked' \subseteq Asked /\ q.item \in Asked \cap Item /\ r \in Nat
    BY <1>1, <1>2, <2>1, <2>2, RequestChange, Zenon DEF q
  <2>4. NetOK' /\ OnWay' \subseteq OnWay \cup {q.item}
    BY <1>1, <1>5, <2>3 DEF IInv, TypeOK, NetOK, OnWay
  <2>5. /\ SpoolOK' /\ Spooled' = Spooled /\ BobOK' /\ Read' = Read /\ Bobs' = Bobs
        /\ AliceOK' /\ AtAlice' = AtAlice
    BY <1>2, SameSpool, SameBob, SameAlice
  <2>6. Sealed' \subseteq Sealed
    BY <2>3, <2>4, <2>5 DEF Sealed
  <2> QED
    BY <1>2, <1>3, <2>3, <2>4, <2>5, <2>6, PlainStep
<1>6. CASE SessionStep(r, "queued", [q EXCEPT !.st = "failed"]) /\ net' = net
  <2> DEFINE new == [q EXCEPT !.st = "failed"]
  <2>1. new \in Request /\ new.item = q.item /\ reqs' = [reqs EXCEPT ![r] = new]
    BY <1>1, <1>6 DEF Request, SessionStep
  <2> QED
    BY <1>4, <1>6, <2>1, Zenon
<1>7. CASE reportSent(r)
  <2> DEFINE new == [q EXCEPT !.unreported = FALSE]
  <2>1. reqs' = [reqs EXCEPT ![r] = new] /\ net' = net
    BY <1>7 DEF reportSent, netVars
  <2>2. new \in Request /\ new.item = q.item
    BY <1>1, Zenon DEF Request
  <2> QED
    BY <1>4, <2>1, <2>2, Zenon
<1>8. CASE Retransmit(r)
  <2> DEFINE new == [q EXCEPT !.st = "queued"]
  <2>1. new \in Request /\ new.item = q.item /\ reqs' = [reqs EXCEPT ![r] = new] /\ net' = net
    BY <1>1, <1>8 DEF Request, SessionStep, Retransmit
  <2> QED
    BY <1>4, <2>1, Zenon
<1>9. ASSUME NEW again \in BOOLEAN, onACK(r, again) PROVE IInv'
  <2>1. PICK st \in {"queued", "answered"} : reqs' = [reqs EXCEPT ![r] = [q EXCEPT !.st = st]]
    BY <1>9, Zenon DEF onACK, SessionStep
  <2> DEFINE new == [q EXCEPT !.st = st]
  <2>2. new \in Request /\ new.item = q.item /\ net' = net
    BY <1>1, <1>9 DEF Request, onACK
  <2> QED
    BY <1>4, <2>1, <2>2, Zenon
<1> QED
  BY <1>5, <1>6, <1>7, <1>8, <1>9 DEF doSend

(* handleSent: at most a mark in the conversation. *)
LEMMA HandleSentStep ==
    ASSUME IInv, handleSent
    PROVE  IInv'
<1>1. PICK c : alice' = [alice EXCEPT !.conv = c] \/ alice' = alice
  BY Zenon DEF handleSent
<1>2. UNCHANGED <<opCh, aSaved, reqs, made, bobVars, net, items, bucket>>
  BY DEF handleSent, TakeEvent, spoolVars, netVars
<1>3. AliceState(alice) /\ alice.queue \in Seq(Item) /\ alice.count \in Nat /\ alice.nick \in Names
  BY AliceFacts DEF AliceState
<1>4. [alice EXCEPT !.conv = c] =
         [queue |-> alice.queue, count |-> alice.count, nick |-> alice.nick, conv |-> c]
  BY <1>3, AliceChange, Zenon
<1>5. AliceState(alice') /\ alice'.queue = alice.queue
  <2> DEFINE b == [queue |-> alice.queue, count |-> alice.count, nick |-> alice.nick, conv |-> c]
  <2>1. AliceState(b)
    BY <1>3, AliceRecord
  <2>2. b.queue = alice.queue
    OBVIOUS
  <2> HIDE DEF b
  <2>3. alice' = b \/ alice' = alice
    BY <1>1, <1>4 DEF b
  <2> QED
    BY <1>3, <2>1, <2>2, <2>3
<1>6. AliceOK' /\ AtAlice' = AtAlice
  BY <1>2, <1>5, AliceFacts DEF AliceOK, AtAlice
<1> QED
  BY <1>2, <1>6, SameReqs, LocalStep DEF OpsPlain

(* handleReplySent: the head is popped and the next one sent, or nothing. *)
LEMMA HandleReplyStep ==
    ASSUME IInv, handleReplySent
    PROVE  IInv'
<1>1. UNCHANGED <<opCh, made, bobVars, net, items, bucket>>
  BY DEF handleReplySent, TakeEvent, spoolVars, netVars
<1>2. AliceState(alice) /\ alice.queue \in Seq(Item) /\ alice.nick \in Names
  BY AliceFacts
<1>3. CASE pops(Head(events))
  <2>1. PICK c : alice' = [alice EXCEPT !.queue = Tail(alice.queue), !.conv = c]
    BY <1>3, Zenon DEF handleReplySent, Pop
  <2>2. alice.queue # <<>>
    BY <1>3 DEF pops
  <2>3. Tail(alice.queue) \in Seq(Item) /\ Elements(Tail(alice.queue)) \subseteq Elements(alice.queue)
    BY <1>2, <2>2, TailElements
  <2>4. AliceState(alice') /\ alice'.queue = Tail(alice.queue)
    BY <1>2, <2>1, <2>3, QueueChange, ZenonT(60)
  <2>5. aSaved' = <<aSaved[2], alice'>> /\ sendMessage(alice'.queue, alice.nick)
    BY <1>3 DEF handleReplySent, save, sendNext
  <2>6. AliceOK' /\ AtAlice' \subseteq AtAlice
    BY <2>3, <2>4, <2>5, AliceFacts DEF AliceOK, AtAlice
  <2>7. ReqsOK' /\ Asked' \subseteq Asked \cup Elements(alice'.queue)
    BY <1>2, <2>3, <2>4, <2>5, AliceFacts, SendQueue, Zenon
  <2>8. Asked' \subseteq Asked \cup AtAlice
    BY <2>3, <2>4, <2>7, AliceFacts
  <2> QED
    <3>1. OpsPlain
      BY <1>1 DEF OpsPlain
    <3> QED
      BY <1>1, <2>6, <2>7, <2>8, <3>1, LocalStep
<1>4. CASE ~pops(Head(events))
  BY <1>1, <1>4, SameAlice, SameReqs, LocalStep DEF handleReplySent, OpsPlain
<1> QED
  BY <1>3, <1>4

-----------------------------------------------------------------------------
(* The spool: what is in it was on its way, or in the database. *)
LEMMA FlushFacts ==
    ASSUME SpoolOK, doFlush
    PROVE  /\ \A i \in DOMAIN bucket' : bucket'[i] \in Item
           /\ {bucket'[i] : i \in DOMAIN bucket'} \subseteq Spooled
<1>1. PICK d \in SUBSET DOMAIN items :
         bucket' = [i \in DOMAIN bucket \cup d |-> IF i \in d THEN items[i] ELSE bucket[i]]
  BY DEF doFlush
<1>2. \A i \in DOMAIN bucket' : \/ i \in DOMAIN items /\ bucket'[i] = items[i]
                                \/ i \in DOMAIN bucket /\ bucket'[i] = bucket[i]
  BY <1>1
<1> QED
  BY <1>2 DEF SpoolOK, Spooled

(* A step of the spool that adds no message keeps the invariant. *)
LEMMA SpoolStep ==
    ASSUME IInv, SpoolOK', Spooled' \subseteq Spooled \cup OnWay, NetOK', OnWay' \subseteq OnWay,
           UNCHANGED <<alice, aSaved, reqs, opCh, made, bobVars>>
    PROVE  IInv'
<1>1. AliceOK' /\ AtAlice' = AtAlice /\ ReqsOK' /\ Asked' = Asked /\ BobOK' /\ Read' = Read /\ Bobs' = Bobs
  BY SameAlice, SameReqs, SameBob
<1>2. Sealed' \subseteq Sealed
  BY <1>1 DEF Sealed
<1> QED
  BY <1>1, <1>2, PlainStep DEF OpsPlain

(* spoolAppend. *)
LEMMA AppendStep ==
    ASSUME IInv, spoolAppend
    PROVE  IInv'
<1>1. PICK n \in net : /\ net' = net \ {n}
                       /\ IF spool.inMap THEN AppendToSpool(n.item) ELSE UNCHANGED spoolVars
  BY DEF spoolAppend
<1>2. UNCHANGED <<alice, aSaved, reqs, opCh, made, bobVars>>
  BY DEF spoolAppend, aliceVars, histVars
<1>3. SpoolOK /\ NetOK /\ n.item \in Item /\ n.item \in OnWay
  BY DEF IInv, TypeOK, NetOK, OnWay
<1>4. NetOK' /\ OnWay' \subseteq OnWay
  BY <1>1, <1>3 DEF NetOK, OnWay
<1>5. CASE UNCHANGED spoolVars
  BY <1>2, <1>4, <1>5, SameSpool, SpoolStep DEF spoolVars
<1>6. CASE AppendToSpool(n.item)
  <2>1. /\ bucket' = bucket
        /\ items' = [i \in DOMAIN items \cup {current + 1} |->
                        IF i = current + 1 THEN n.item ELSE items[i]]
    BY <1>6 DEF AppendToSpool, With
  <2>2. \A i \in DOMAIN items' : items'[i] = n.item \/ (i \in DOMAIN items /\ items'[i] = items[i])
    BY <2>1
  <2>3. SpoolOK' /\ Spooled' \subseteq Spooled \cup OnWay
    BY <1>3, <2>1, <2>2 DEF SpoolOK, Spooled
  <2> QED
    BY <1>2, <1>4, <2>3, SpoolStep
<1> QED
  BY <1>1, <1>5, <1>6

(* The spool dies, is purged or completed. *)
LEMMA SpoolSteps ==
    ASSUME IInv, spoolCrash \/ spoolCreated \/ spoolPanic \/ spoolPurge
    PROVE  IInv'
<1>1. UNCHANGED <<alice, aSaved, reqs, opCh, made, bobVars, net>>
  BY DEF spoolCrash, spoolCreated, spoolPanic, spoolPurge, aliceVars, netVars, histVars
<1>2. SpoolOK
  BY DEF IInv, TypeOK
<1>3. NetOK' /\ OnWay' = OnWay
  BY <1>1, SameNet
<1>4. CASE spoolCreated
  BY <1>1, <1>3, <1>4, SameSpool, SpoolStep DEF spoolCreated, createSpoolBucket
<1>5. CASE spoolCrash \/ spoolPanic \/ spoolPurge
  <2>1. doFlush /\ (items' = bucket' \/ items' = <<>>)
    BY <1>5 DEF spoolCrash, spoolPanic, spoolPurge, load, PurgeSpool
  <2>2. /\ \A i \in DOMAIN bucket' : bucket'[i] \in Item
        /\ {bucket'[i] : i \in DOMAIN bucket'} \subseteq Spooled
    BY <1>2, <2>1, FlushFacts
  <2>3. SpoolOK' /\ Spooled' \subseteq Spooled
    <3>1. CASE items' = bucket'
      BY <2>2, <3>1 DEF SpoolOK, Spooled
    <3>2. CASE items' = <<>>
      <4>1. {items'[i] : i \in DOMAIN items'} = {}
        BY <3>2
      <4> QED
        BY <2>2, <4>1 DEF SpoolOK, Spooled
    <3> QED
      BY <2>1, <3>1, <3>2
  <2> QED
    BY <1>1, <1>3, <2>3, SpoolStep
<1> QED
  BY <1>4, <1>5

-----------------------------------------------------------------------------
(* Bob.  A state of his that is new has the conversation and the ratchet   *)
(* of an old one, or one message more, of a number not seen before.        *)
Shown(b, c, x) ==
    /\ b.conv = Append(c.conv, x.msg) /\ b.seen = c.seen \cup {x.num} /\ x.num \notin c.seen

(* Every sealed message has a number. *)
LEMMA SealedItems == ASSUME IInv PROVE Sealed \subseteq Item
<1>1. /\ alice.queue \in Seq(Item) /\ aSaved[1].queue \in Seq(Item) /\ aSaved[2].queue \in Seq(Item)
  BY DEF IInv, TypeOK, AliceOK, AliceState
<1>2. AtAlice \subseteq Item
  BY <1>1, ElementsIn DEF AtAlice
<1>3. Asked \subseteq Item
  BY DEF IInv, TypeOK, ReqsOK, Asked
<1>4. OnWay \subseteq Item
  BY DEF IInv, TypeOK, NetOK, OnWay
<1>5. Spooled \subseteq Item
  BY DEF IInv, TypeOK, SpoolOK, Spooled
<1>6. Read \subseteq Item
  BY DEF IInv, TypeOK, BobOK, Read
<1> QED
  BY <1>2, <1>3, <1>4, <1>5, <1>6 DEF Sealed

(* The conversation that Shown leaves has the message as one element more. *)
LEMMA ShownConv ==
    ASSUME NEW b, NEW c, NEW x, c.conv \in Seq(Nat), x.msg \in Nat, Shown(b, c, x)
    PROVE  /\ Len(b.conv) = Len(c.conv) + 1 /\ Len(c.conv) \in Nat
           /\ \A i \in 1..Len(c.conv) : b.conv[i] = c.conv[i]
           /\ b.conv[Len(c.conv) + 1] = x.msg
           /\ Elements(b.conv) = Elements(c.conv) \cup {x.msg}
<1> DEFINE Extends(d, q, m) == /\ Len(d) = Len(q) + 1 /\ Len(q) \in Nat
                               /\ \A i \in 1..Len(q) : d[i] = q[i]
                               /\ d[Len(q) + 1] = m
                               /\ Elements(d) = Elements(q) \cup {m}
<1>1. ASSUME NEW q \in Seq(Nat), NEW m \in Nat PROVE Extends(Append(q, m), q, m)
  BY AppendElements
<1> HIDE DEF Extends
<1>2. Extends(Append(c.conv, x.msg), c.conv, x.msg)
  BY <1>1, Zenon
<1>3. b.conv = Append(c.conv, x.msg)
  BY Zenon DEF Shown
<1>4. Extends(b.conv, c.conv, x.msg)
  BY <1>2, <1>3, Zenon
<1> QED
  BY <1>4, Zenon DEF Extends

(* Such a step of Bob, seeing only what was sealed, keeps the invariant. *)
LEMMA BobStep ==
    ASSUME IInv, BobOK', Read' \subseteq Sealed,
           \A b \in Bobs' : \E c \in Bobs : \/ b.conv = c.conv /\ b.seen = c.seen
                                            \/ \E x \in Sealed : Shown(b, c, x),
           UNCHANGED <<alice, aSaved, reqs, opCh, made, net, items, bucket>>
    PROVE  IInv'
<1>1. /\ AliceOK' /\ AtAlice' = AtAlice /\ ReqsOK' /\ Asked' = Asked
      /\ NetOK' /\ OnWay' = OnWay /\ SpoolOK' /\ Spooled' = Spooled
  BY SameAlice, SameReqs, SameNet, SameSpool
<1>2. Sealed' \subseteq Sealed
  BY <1>1 DEF Sealed
<1>3. \A c \in Bobs : c.conv \in Seq(Nat)
  BY Zenon DEF IInv, TypeOK, BobOK, Bobs, BobState
<1>4. \A x \in Sealed : x.msg \in Nat
  BY SealedItems DEF Item
<1>5. \A m : Used(m)' => Used(m)
  <2> SUFFICES ASSUME NEW b \in Bobs', NEW m \in Elements(b.conv) PROVE Used(m)
    BY <1>2 DEF Used
  <2>1. PICK c \in Bobs : \/ b.conv = c.conv /\ b.seen = c.seen
                          \/ \E x \in Sealed : Shown(b, c, x)
    BY Zenon
  <2>2. CASE b.conv = c.conv
    BY <2>1, <2>2 DEF Used
  <2>3. ASSUME NEW x \in Sealed, Shown(b, c, x) PROVE Used(m)
    <3>1. Elements(b.conv) = Elements(c.conv) \cup {x.msg}
      BY <1>3, <1>4, <2>3, ShownConv, ZenonT(60)
    <3> QED
      BY <3>1, ZenonT(60) DEF Used
  <2> QED
    BY <2>1, <2>2, <2>3
<1>6. OpsPlain
  BY DEF OpsPlain
<1>7. OpsOK' /\ OpsFresh'
  BY <1>5, <1>6, OpsPlainStep DEF IInv, TypeOK
<1>8. SealedOnce'
  BY <1>2, Zenon DEF IInv, SealedOnce
<1>9. BobsOK'
  <2> SUFFICES ASSUME NEW b \in Bobs'
               PROVE  /\ \A i, j \in 1..Len(b.conv) : b.conv[i] = b.conv[j] => i = j
                      /\ \A y \in Sealed : y.msg \in Elements(b.conv) => y.num \in b.seen
    BY <1>2 DEF BobsOK
  <2>1. PICK c \in Bobs : \/ b.conv = c.conv /\ b.seen = c.seen
                          \/ \E x \in Sealed : Shown(b, c, x)
    BY Zenon
  <2>2. /\ \A i, j \in 1..Len(c.conv) : c.conv[i] = c.conv[j] => i = j
        /\ \A y \in Sealed : y.msg \in Elements(c.conv) => y.num \in c.seen
    BY DEF IInv, BobsOK
  <2>3. CASE b.conv = c.conv /\ b.seen = c.seen
    BY <2>2, <2>3, Zenon
  <2>4. ASSUME NEW x \in Sealed, Shown(b, c, x)
        PROVE  /\ \A i, j \in 1..Len(b.conv) : b.conv[i] = b.conv[j] => i = j
               /\ \A y \in Sealed : y.msg \in Elements(b.conv) => y.num \in b.seen
    <3>1. b.conv = Append(c.conv, x.msg) /\ b.seen = c.seen \cup {x.num} /\ x.num \notin c.seen
      BY <2>4, Zenon DEF Shown
    <3>2. x.msg \notin Elements(c.conv)
      BY <2>2, <3>1, Zenon
    <3>3. c.conv \in Seq(Nat) /\ x.msg \in Nat
      BY <1>3, <1>4, ZenonT(60)
    <3>4. /\ Len(b.conv) = Len(c.conv) + 1 /\ Len(c.conv) \in Nat
          /\ \A i \in 1..Len(c.conv) : b.conv[i] = c.conv[i]
          /\ b.conv[Len(c.conv) + 1] = x.msg
          /\ Elements(b.conv) = Elements(c.conv) \cup {x.msg}
      BY <2>4, <3>3, ShownConv, ZenonT(60)
    <3>5. \A i \in 1..Len(c.conv) : c.conv[i] # x.msg
      BY <3>2 DEF Elements
    <3>6. \A i \in 1..Len(b.conv) : i \in 1..Len(c.conv) \/ i = Len(c.conv) + 1
      BY <3>4
    <3>7. \A i, j \in 1..Len(b.conv) : b.conv[i] = b.conv[j] => i = j
      BY <2>2, <3>4, <3>5, <3>6, Zenon
    <3>8. \A y \in Sealed : y.msg = x.msg => y.num = x.num
      BY DEF IInv, SealedOnce
    <3> QED
      BY <2>2, <3>1, <3>4, <3>7, <3>8, Zenon
  <2> QED
    BY <2>1, <2>3, <2>4, ZenonT(60)
<1> QED
  BY <1>1, <1>7, <1>8, <1>9 DEF IInv, TypeOK

(* Bob's state, his files and the answer. *)
LEMMA BobFacts ==
    ASSUME IInv
    PROVE  /\ bob \in BobState /\ bSaved[1] \in BobState /\ bSaved[2] \in BobState
           /\ bob \in Bobs /\ bSaved[1] \in Bobs /\ bSaved[2] \in Bobs
           /\ answer # Nothing => /\ answer.id \in Nat /\ answer.item \in Item
                                  /\ answer.item \in Sealed
BY DEF IInv, TypeOK, BobOK, Bobs, Sealed, Read

(* sendReadInbox: the answer is what the spool has at Bob's offset. *)
LEMMA ReadStep ==
    ASSUME IInv, sendReadInbox
    PROVE  IInv'
<1> DEFINE item == ReadFromSpool(bob.offset)
<1>1. /\ UNCHANGED <<bob, bSaved, alice, aSaved, reqs, opCh, made, net, items, bucket>>
      /\ answer' = [id |-> bob.offset, item |-> item] /\ item # Nothing
  BY ZenonT(60) DEF sendReadInbox, bobRest, aliceVars, netVars, spoolVars
<1>2. item \in Spooled /\ item \in Sealed
  BY <1>1 DEF ReadFromSpool, Spooled, Sealed
<1>3. item \in Item /\ bob.offset \in Nat
  BY <1>2, SealedItems, BobFacts, ZenonT(60) DEF BobState
<1> HIDE DEF item
<1>4. BobOK'
  <2>1. answer' \in [id : Nat, item : Item]
    BY <1>1, <1>3
  <2>2. BobOK
    BY Zenon DEF IInv, TypeOK
  <2> QED
    BY <1>1, <2>1, <2>2, ZenonT(60) DEF BobOK
<1>5. Read' \subseteq Sealed
  BY <1>1, <1>2 DEF Read
<1>6. Bobs' = Bobs
  BY <1>1 DEF Bobs
<1> QED
  BY <1>1, <1>4, <1>5, <1>6, BobStep

(* bobCrash: Bob starts again from one of his files. *)
LEMMA BobCrashStep ==
    ASSUME IInv, bobCrash
    PROVE  IInv'
<1>1. PICK file \in {bSaved[1], bSaved[2]} : bob' = file /\ bSaved' = <<file, file>>
  BY DEF bobCrash
<1>2. /\ UNCHANGED <<alice, aSaved, reqs, opCh, made, net, items, bucket>> /\ answer' = Nothing
  BY DEF bobCrash, bobRest, aliceVars, netVars, spoolVars
<1>3. BobOK' /\ Bobs' \subseteq Bobs
  BY <1>1, <1>2, BobFacts DEF BobOK, Bobs
<1>4. Read' \subseteq Sealed
  BY <1>2 DEF Read
<1> QED
  BY <1>2, <1>3, <1>4, BobStep

(* What an assignment to one field makes of Bob's state. *)
LEMMA BobChange ==
    ASSUME NEW b \in BobState, NEW n \in Nat
    PROVE  /\ [b EXCEPT !.offset = n] \in BobState
           /\ [b EXCEPT !.offset = n].conv = b.conv /\ [b EXCEPT !.offset = n].seen = b.seen
           /\ [b EXCEPT !.pending = FALSE] \in BobState
           /\ [b EXCEPT !.pending = FALSE].conv = b.conv
           /\ [b EXCEPT !.pending = FALSE].seen = b.seen
BY Zenon DEF BobState

(* IncrementOffset leaves the conversation and the ratchet alone. *)
LEMMA OffsetChange ==
    ASSUME NEW b \in BobState
    PROVE  /\ IncrementOffset(b) \in BobState
           /\ IncrementOffset(b).conv = b.conv /\ IncrementOffset(b).seen = b.seen
<1> DEFINE n == b.offset + 1
<1>1. n \in Nat /\ IncrementOffset(b) = [b EXCEPT !.offset = n]
  BY DEF BobState, IncrementOffset
<1> HIDE DEF n
<1> QED
  BY <1>1, BobChange, ZenonT(60)

(* decryptMessage shows the message and has its number used up. *)
LEMMA DecryptChange ==
    ASSUME bob \in BobState, NEW x \in Item
    PROVE  /\ decryptMessage(x) \in BobState
           /\ decryptMessage(x).conv = Append(bob.conv, x.msg)
           /\ decryptMessage(x).seen = bob.seen \cup {x.num}
<1> DEFINE s == bob.seen \cup {x.num}
           c == Append(bob.conv, x.msg)
<1>1. decryptMessage(x) = [bob EXCEPT !.seen = s, !.conv = c]
  BY DEF decryptMessage, BobState
<1>2. s \in SUBSET Nat /\ c \in Seq(Nat)
  BY DEF BobState, Item
<1> HIDE DEF s, c
<1>3. /\ [bob EXCEPT !.seen = s, !.conv = c] \in BobState
      /\ [bob EXCEPT !.seen = s, !.conv = c].conv = c
      /\ [bob EXCEPT !.seen = s, !.conv = c].seen = s
  BY <1>2, Zenon DEF BobState
<1> QED
  BY <1>1, <1>3 DEF s, c

(* exchangeDone: a contact is pending no more. *)
LEMMA ExchangeStep ==
    ASSUME IInv, exchangeDone
    PROVE  IInv'
<1> DEFINE new == [bob EXCEPT !.pending = FALSE]
<1>1. /\ UNCHANGED <<alice, aSaved, reqs, opCh, made, net, items, bucket, answer>>
      /\ bob' = new /\ bSaved' = <<bSaved[2], new>>
  BY DEF exchangeDone, bSave, bobRest, aliceVars, netVars, spoolVars
<1>2. new \in BobState /\ new.conv = bob.conv /\ new.seen = bob.seen
  BY BobFacts, BobChange, Zenon
<1> HIDE DEF new
<1>3. BobOK'
  BY <1>1, <1>2, BobFacts, Zenon DEF BobOK, IInv, TypeOK
<1>4. Read' \subseteq Sealed
  BY <1>1 DEF Read, Sealed
<1>5. \A b \in Bobs' : b = new \/ b \in Bobs
  BY <1>1 DEF Bobs
<1>6. \A b \in Bobs' : \E c \in Bobs : b.conv = c.conv /\ b.seen = c.seen
  BY <1>2, <1>5, BobFacts
<1> QED
  BY <1>1, <1>3, <1>4, <1>6, BobStep

(* handleReply of a read: a duplicate changes nothing or only the offset,  *)
(* and what is decrypted has a number that was not seen.  The state with   *)
(* the message and the old offset is saved too.                            *)
LEMMA HandleReadStep ==
    ASSUME IInv, handleReplyRead
    PROVE  IInv'
<1> DEFINE x == answer.item
           shown == decryptMessage(x)
<1>1. /\ UNCHANGED <<alice, aSaved, reqs, opCh, made, net, items, bucket>>
      /\ answer # Nothing /\ answer' \in {answer, Nothing}
  BY DEF handleReplyRead, bobRest, aliceVars, netVars, spoolVars
<1>2. x \in Item /\ x \in Sealed /\ bob \in BobState /\ bob \in Bobs
  BY <1>1, BobFacts
<1>3. Read' \subseteq Sealed
  BY <1>1 DEF Read, Sealed
<1>4. answer' # Nothing => answer' \in [id : Nat, item : Item]
  BY <1>1 DEF IInv, TypeOK, BobOK
<1>5. CASE UNCHANGED <<bob, bSaved>>
  <2>1. BobOK' /\ Bobs' = Bobs
    BY <1>4, <1>5 DEF BobOK, Bobs, IInv, TypeOK
  <2> QED
    BY <1>1, <1>3, <2>1, BobStep
<1>6. CASE bob' = IncrementOffset(bob) /\ bSave
  <2>1. IncrementOffset(bob) \in BobState
    BY <1>2, OffsetChange
  <2>2. IncrementOffset(bob).conv = bob.conv /\ IncrementOffset(bob).seen = bob.seen
    BY <1>2, OffsetChange
  <2>3. BobOK'
    BY <1>4, <1>6, <2>1, BobFacts DEF BobOK, bSave
  <2>4. \A b \in Bobs' : b = IncrementOffset(bob) \/ b \in Bobs
    BY <1>6 DEF bSave, Bobs
  <2>5. \A b \in Bobs' : \E c \in Bobs : b.conv = c.conv /\ b.seen = c.seen
    BY <1>2, <2>2, <2>4, Zenon
  <2> QED
    BY <1>1, <1>3, <2>3, <2>5, BobStep
<1>7. CASE /\ "decrypted" \in Verdicts(x)
           /\ bob' = IncrementOffset(shown) /\ bSaved' = <<shown, bob'>>
  <2>1. x.num \notin bob.seen
    BY <1>7 DEF Verdicts
  <2>2. /\ shown \in BobState /\ shown.conv = Append(bob.conv, x.msg)
        /\ shown.seen = bob.seen \cup {x.num}
    BY <1>2, DecryptChange
  <2> HIDE DEF shown
  <2>3. /\ IncrementOffset(shown) \in BobState
        /\ IncrementOffset(shown).conv = shown.conv /\ IncrementOffset(shown).seen = shown.seen
    BY <2>2, OffsetChange
  <2>4. BobOK'
    BY <1>4, <1>7, <2>2, <2>3 DEF BobOK
  <2>5. \A b \in Bobs' : b = shown \/ b = IncrementOffset(shown)
    BY <1>7 DEF Bobs
  <2> HIDE DEF x
  <2>6. \A b \in Bobs' : Shown(b, bob, x)
    BY <2>1, <2>2, <2>3, <2>5 DEF Shown
  <2> QED
    BY <1>1, <1>2, <1>3, <2>4, <2>6, BobStep
<1> QED
  BY <1>5, <1>6, <1>7 DEF handleReplyRead

(* Alice starts with at most one message in her queue, and Bob with none   *)
(* in his conversation.                                                    *)
LEMMA InitIInv == Init => IInv
<1> SUFFICES ASSUME Init PROVE IInv
  BY ZenonT(60)
<1> DEFINE first == [i \in 1..made |-> [msg |-> i, num |-> i]]
<1>1. made \in {0, 1} /\ opCh = <<>> /\ reqs = <<>> /\ net = {} /\ answer = Nothing
      /\ items = <<>> /\ bucket = <<>>
  BY DEF Init, SpoolInit
<1>2. /\ first \in Seq(Item) /\ Len(first) = made /\ \A i \in 1..made : first[i].msg = i
  <2>1. made \in Nat
    BY <1>1
  <2>2. \A i \in 1..made : [msg |-> i, num |-> i] \in Item
    BY <2>1 DEF Item
  <2>3. first \in [1..made -> Item] /\ \A i \in 1..made : first[i].msg = i
    BY <2>2, ZenonT(60)
  <2> HIDE DEF first
  <2> QED
    BY <2>1, <2>3
<1>3. /\ alice.queue = first /\ alice.count = made /\ alice.nick \in Names
      /\ aSaved = <<alice, alice>>
      /\ alice = [queue |-> alice.queue, count |-> alice.count, nick |-> alice.nick,
                  conv |-> alice.conv]
  BY MessagingAssumption DEF Init
<1>4. AliceOK
  <2>1. AliceState(alice)
    BY <1>1, <1>2, <1>3 DEF AliceState
  <2> QED
    BY <1>3, <2>1 DEF AliceOK
<1>5. /\ bob \in BobState /\ bob.conv = <<>> /\ bSaved = <<bob, bob>>
  <2>1. /\ bob = [offset |-> 1, seen |-> {}, conv |-> <<>>, pending |-> TRUE]
        /\ bSaved = <<bob, bob>>
    BY Zenon DEF Init
  <2> QED
    BY <2>1 DEF BobState
<1>6. ReqsOK /\ OpsOK /\ NetOK /\ SpoolOK /\ BobOK
  BY <1>1, <1>5 DEF ReqsOK, OpsOK, NetOK, SpoolOK, BobOK
<1>7. Sealed = Elements(first)
  <2>1. AtAlice = Elements(first)
    BY <1>3, Zenon DEF AtAlice
  <2>2. Asked = {} /\ OnWay = {} /\ Spooled = {} /\ Read = {}
    BY <1>1 DEF Asked, OnWay, Spooled, Read
  <2> QED
    BY <2>1, <2>2 DEF Sealed
<1>8. \A y \in Sealed : y = first[1] /\ y.msg = 1 /\ made = 1
  BY <1>1, <1>2, <1>7 DEF Elements
<1>9. \A b \in Bobs : b.conv = <<>> /\ Elements(b.conv) = {}
  BY <1>5 DEF Bobs, Elements
<1> HIDE DEF first
<1>10. SealedOnce
  BY <1>8 DEF SealedOnce
<1>11. BobsOK
  <2>1. \A b \in Bobs : 1..Len(b.conv) = {}
    BY <1>9
  <2> QED
    BY <1>9, <2>1, Zenon DEF BobsOK
<1>12. \A m : Used(m) => m = 1 /\ made = 1
  BY <1>8, <1>9 DEF Used
<1>13. Len(opCh) = 0
  BY <1>1
<1>14. OpsFresh
  BY <1>12, <1>13 DEF OpsFresh
<1> QED
  BY <1>4, <1>6, <1>10, <1>11, <1>14 DEF IInv, TypeOK

(* Every step of the client, the session, the spool and the receiver       *)
(* keeps the invariant.                                                    *)
LEMMA IInvStep == IInv /\ [Next]_vars => IInv'
<1> SUFFICES ASSUME IInv, [Next]_vars PROVE IInv'
  OBVIOUS
<1>1. CASE Alice
  <2>1. CASE aliceCrash
    BY <2>1, ReloadedStep DEF aliceCrash
  <2>2. CASE SendMessage
    BY <2>2, SendMessageStep
  <2>3. CASE RenameContact \/ Offline
    BY <2>3, AskStep DEF RenameContact, Offline
  <2>4. CASE doSendMessage
    BY <2>4, DoSendMessageStep
  <2>5. CASE doRestartSending
    BY <2>5, DoRestartStep
  <2>6. CASE doContactRename
    BY <2>6, RenameStep
  <2>7. CASE goOffline
    BY <2>7, OfflineStep
  <2>8. CASE goOnline \/ onConnectionStatus \/ restartSending
    BY <2>8, ConnectionStep
  <2>9. CASE handleSent
    BY <2>9, HandleSentStep
  <2>10. CASE handleReplySent
    BY <2>10, HandleReplyStep
  <2> QED
    BY <1>1, <2>1, <2>2, <2>3, <2>4, <2>5, <2>6, <2>7, <2>8, <2>9, <2>10 DEF Alice
<1>2. CASE Session
  BY <1>2, ConnectionStep, SessionSteps DEF Session
<1>3. CASE Spool
  BY <1>3, AppendStep, SpoolSteps DEF Spool
<1>4. CASE Bob
  BY <1>4, ReadStep, BobCrashStep, HandleReadStep, ExchangeStep DEF Bob
<1>5. CASE UNCHANGED vars
  <2>1. UNCHANGED <<alice, aSaved, reqs, opCh, made, net, items, bucket, bob, bSaved, answer>>
    BY <1>5 DEF vars, aliceVars, bobVars, netVars, histVars, spoolVars
  <2>2. BobOK' /\ Read' = Read /\ Bobs' = Bobs
    BY <2>1, SameBob DEF bobVars
  <2>3. Read' \subseteq Sealed
    BY <2>2 DEF Sealed
  <2> QED
    BY <2>1, <2>2, <2>3, BobStep
<1> QED
  BY <1>1, <1>2, <1>3, <1>4, <1>5 DEF Next

(* No message is shown twice in the receiver's conversation, however often *)
(* the session retransmits it, the sender's queue sends its head again,    *)
(* either client dies and starts from an older file, or the spool loses    *)
(* entries (catshadow/worker.go, handleReply; ratchet's saved keys).       *)
THEOREM ReceivedOnceHolds == Spec => []ReceivedOnce
<1>1. IInv => ReceivedOnce
  BY DEF IInv, BobsOK, Bobs, ReceivedOnce
<1> QED
  BY <1>1, InitIInv, IInvStep, PTL DEF Spec
=============================================================================
