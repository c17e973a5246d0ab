----------------------------- MODULE TimerQueue -----------------------------
(***************************************************************************)
(* The retransmission timers of the client (client/timer_queue.go): Push   *)
(* adds an item to a priority queue and signals a condition variable; a    *)
(* goroutine turns the signal into a channel send; the worker sleeps until *)
(* the first item is due, or until that channel fires, and hands the item  *)
(* to the next queue.                                                      *)
(*                                                                         *)
(* Time is what makes the first item due, at any moment.  The worker looks *)
(* at the queue in the step that brings it back to the head of its loop: a *)
(* Push in between would be seen by that look, as one before the step is.  *)
(***************************************************************************)
EXTENDS Integers, Sequences, Functions

CONSTANT None

VARIABLES
    queued,         \* the priority queue
    timer,          \* the item for which the worker has set its timer, or None
    wakeup,         \* where the goroutine of wakeupCh is
    missed          \* a Signal has found nobody since the worker last looked

timerVars == <<queued, timer, wakeup, missed>>

TimerInit == queued = <<>> /\ timer = None /\ wakeup = "start" /\ missed = FALSE

(* Push: the item goes where its priority belongs, after those that are    *)
(* due before it.  An item pushed again is a new one.                      *)
Enqueue(i) ==
    \E n \in 0..Len(queued) :
        queued' = SubSeq(queued, 1, n) \o <<i>> \o SubSeq(queued, n + 1, Len(queued))

(* sync.Cond: only a goroutine that is in Wait hears a Signal.  One that   *)
(* has heard it and still has to send will wake the worker.                *)
Signal ==
    /\ wakeup' = IF wakeup = "wait" THEN "send" ELSE wakeup
    /\ missed' = (missed \/ wakeup = "start")

(* The goroutine of wakeupCh. *)
Wait == wakeup = "start" /\ wakeup' = "wait" /\ UNCHANGED <<queued, timer, missed>>

(* Fault: the worker goes on sleeping for the old item. *)
sleepOn == UNCHANGED <<queued, timer>> /\ missed' = FALSE

(* The worker finds nothing, or an item that is not due: it sets its timer *)
(* and selects.                                                            *)
sleep ==
    /\ timer' = IF queued = <<>> THEN None ELSE Head(queued)
    /\ missed' = FALSE
    /\ UNCHANGED queued

(* forward: whatever is first, not necessarily the item of the timer. *)
pop ==
    /\ queued # <<>> /\ queued' = Tail(queued)
    /\ timer' = None
    /\ missed' = FALSE

woken == wakeup = "send" /\ wakeup' = "start"

(* The queue is halted: the goroutine returns, unless it waits for ever. *)
wakeupHalts == wakeup = "send" /\ wakeup' = "return" /\ UNCHANGED <<queued, timer, missed>>
=============================================================================
