------------------------ MODULE HardwareCommandQueue ------------------------
(***************************************************************************)
(* backend/command_queue.py: the serialized, timeout-aware worker through  *)
(* which every hardware call of the service goes.                          *)
(*                                                                         *)
(* Callers are asyncio tasks on one event loop.  A caller takes the async  *)
(* lock, puts one work item into the request queue and polls the item's    *)
(* future until it is done, the deadline passes or the task is cancelled.  *)
(* One daemon thread executes the items; a completion is scheduled on the  *)
(* loop and reaches the future in a later loop step.                       *)
(*                                                                         *)
(* The FIFO request queue is a log with cursors: items[i] is the i-th item *)
(* put, and i also names its future.  The worker has taken the first       *)
(* `taken` items, `returned` of them have come back from the hardware and  *)
(* the futures of the first `delivered` are done.  shutdown() puts the     *)
(* stop marker behind the first `stopAfter` items.                         *)
(***************************************************************************)
EXTENDS Naturals, Sequences

CONSTANTS Callers,   \* the tasks that call run()
          NoCaller,  \* nobody holds the lock
          MaxItems   \* bound on the items ever put

ASSUME CallersAssumption == NoCaller \notin Callers
ASSUME MaxItemsAssumption == MaxItems \in Nat

VARIABLES items,      \* _requests: everything put, in order
          taken,      \* items the worker thread has taken
          returned,   \* items whose function has returned or raised
          delivered,  \* items whose completion has run on the event loop
          waiters,    \* the calls queued on _lock, in order
          holder,     \* the task inside `async with self._lock`
          timedOut,   \* _timed_out_future: an item, 0 for None
          closed,     \* _closed
          stopAfter   \* position of _STOP in the request queue, once closed

vars == <<items, taken, returned, delivered, waiters, holder, timedOut,
          closed, stopAfter>>
workerVars == <<taken, returned, delivered>>

\* A call of run(): the task, and whether it names a timeout_recovery.
CallOf == [task : Callers, safe : BOOLEAN]

\* A work item put by a task: its function, or the recovery reserved for it.
Item == [kind : {"command", "recovery"}, owner : Callers, safe : BOOLEAN]

Init ==
    /\ items = <<>>
    /\ taken = 0 /\ returned = 0 /\ delivered = 0
    /\ waiters = <<>>
    /\ holder = NoCaller
    /\ timedOut = 0
    /\ closed = FALSE
    /\ stopAfter = 0
-----------------------------------------------------------------------------
(* Futures and the lock.                                                   *)

\* future.done(): completions run on the loop in the order they were scheduled.
Done(i) == i <= delivered

\* The future the holder of the lock polls: the last item put.
Mine == Len(items)

\* The poison test of run(): an abandoned call has not really completed.
Poisoned == timedOut # 0 /\ ~Done(timedOut)

\* A task that is not inside run().
Idle(c) == holder # c /\ \A i \in 1..Len(waiters) : waiters[i].task # c

\* asyncio.Lock is fair: the first waiter acquires it once it is free.
Acquires(c) == holder = NoCaller /\ waiters # <<>> /\ Head(waiters).task = c
-----------------------------------------------------------------------------
(* run(): the callers.                                                     *)

\* A task calls run(), with or without a timeout_recovery, and queues on the lock.
Call(c, safe) ==
    /\ Idle(c)
    /\ Len(items) + Len(waiters) < MaxItems
    /\ waiters' = Append(waiters, [task |-> c, safe |-> safe])
    /\ UNCHANGED <<items, workerVars, holder, timedOut, closed, stopAfter>>

\* run() raises inside the lock before anything is put: UNAVAILABLE.
RejectClosed(c) ==
    /\ Acquires(c)
    /\ closed
    /\ waiters' = Tail(waiters)
    /\ UNCHANGED <<items, workerVars, holder, timedOut, closed, stopAfter>>

RejectBusy_Waits(c) ==
    /\ Acquires(c)
    /\ ~closed /\ Poisoned
    /\ UNCHANGED vars

\* A call that timed out is still running, or its recovery is: BUSY.
RejectBusy(c) ==
    /\ Acquires(c)
    /\ ~closed /\ Poisoned
    /\ waiters' = Tail(waiters)
    /\ UNCHANGED <<items, workerVars, holder, timedOut, closed, stopAfter>>

Admit_Unpoisoned(c) ==
    /\ Acquires(c)
    /\ ~closed
    /\ timedOut' = 0
    /\ items' = Append(items, [kind |-> "command", owner |-> c, safe |-> Head(waiters).safe])
    /\ holder' = c
    /\ waiters' = Tail(waiters)
    /\ UNCHANGED <<workerVars, closed, stopAfter>>

\* The item is put and the task polls its future while it holds the lock.
Admit(c) ==
    /\ Acquires(c)
    /\ ~closed /\ ~Poisoned
    /\ timedOut' = 0
    /\ items' = Append(items, [kind |-> "command", owner |-> c, safe |-> Head(waiters).safe])
    /\ holder' = c
    /\ waiters' = Tail(waiters)
    /\ UNCHANGED <<workerVars, closed, stopAfter>>

\* The future is done: the function's result or exception is the answer.
Complete(c) ==
    /\ holder = c
    /\ Done(Mine)
    /\ holder' = NoCaller
    /\ UNCHANGED <<items, workerVars, waiters, timedOut, closed, stopAfter>>

Abandon_NoRecovery(c) ==
    /\ timedOut' = Mine
    /\ holder' = NoCaller
    /\ UNCHANGED <<items, workerVars, waiters, closed, stopAfter>>

Abandon_PoisonsCallOnly(c) ==
    /\ items' = IF items[Mine].safe
                THEN Append(items, [kind |-> "recovery", owner |-> c, safe |-> TRUE])
                ELSE items
    /\ timedOut' = Mine
    /\ holder' = NoCaller
    /\ UNCHANGED <<workerVars, waiters, closed, stopAfter>>

\* The call is given up: its recovery, when it named one, is put directly
\* behind it (_queue_timeout_recovery), the queue is poisoned by the last of
\* the two, and the lock is released.
Abandon(c) ==
    LET put == IF items[Mine].safe
               THEN Append(items, [kind |-> "recovery", owner |-> c, safe |-> TRUE])
               ELSE items
    IN  /\ items' = put
        /\ timedOut' = Len(put)
        /\ holder' = NoCaller
        /\ UNCHANGED <<workerVars, waiters, closed, stopAfter>>

\* The deadline passes with the future not done.
Timeout(c) ==
    /\ holder = c
    /\ ~Done(Mine)
    /\ Abandon(c)

\* The hardware function itself raised TimeoutError (an OSError with
\* ETIMEDOUT): the same handler takes it although the future is done.
RaiseTimeoutError(c) ==
    /\ holder = c
    /\ Done(Mine)
    /\ Abandon(c)

CancelPolling_Forgets(c) ==
    /\ holder = c
    /\ holder' = NoCaller
    /\ UNCHANGED <<items, workerVars, waiters, timedOut, closed, stopAfter>>

\* The task is cancelled while it polls; a future that is done is not abandoned.
CancelPolling(c) ==
    /\ holder = c
    /\ \/ ~Done(Mine) /\ Abandon(c)
       \/ Done(Mine) /\ Complete(c)

\* The task is cancelled while it queues on the lock.
CancelLocking(c) ==
    /\ \E i \in 1..Len(waiters) :
          /\ waiters[i].task = c
          /\ waiters' = SubSeq(waiters, 1, i - 1) \o SubSeq(waiters, i + 1, Len(waiters))
    /\ UNCHANGED <<items, workerVars, holder, timedOut, closed, stopAfter>>
-----------------------------------------------------------------------------
(* _worker and _schedule_completion: the daemon thread and its callbacks.  *)

\* Everything in front of the stop marker can be taken.
Take ==
    /\ taken = returned
    /\ taken < Len(items)
    /\ closed => taken < stopAfter
    /\ taken' = taken + 1
    /\ UNCHANGED <<items, returned, delivered, waiters, holder, timedOut,
                   closed, stopAfter>>

\* The hardware function returns or raises; the completion is scheduled.
Return ==
    /\ returned < taken
    /\ returned' = taken
    /\ UNCHANGED <<items, taken, delivered, waiters, holder, timedOut, closed,
                   stopAfter>>

Deliver_ToHolder ==
    /\ delivered < returned /\ holder # NoCaller
    /\ delivered' = delivered + 1
    /\ UNCHANGED <<items, taken, returned, waiters, holder, timedOut, closed,
                   stopAfter>>

\* The event loop runs complete(): the future is done.
Deliver ==
    /\ delivered < returned
    /\ delivered' = delivered + 1
    /\ UNCHANGED <<items, taken, returned, waiters, holder, timedOut, closed,
                   stopAfter>>

\* The worker has met the stop marker.
Stopped == closed /\ taken = returned /\ taken = stopAfter

Shutdown_DropsQueue ==
    /\ ~closed
    /\ closed' = TRUE
    /\ stopAfter' = taken
    /\ UNCHANGED <<items, workerVars, waiters, holder, timedOut>>

\* shutdown() does not take the lock: a caller may still be polling.
Shutdown ==
    /\ ~closed
    /\ closed' = TRUE
    /\ stopAfter' = Len(items)
    /\ UNCHANGED <<items, workerVars, waiters, holder, timedOut>>
-----------------------------------------------------------------------------
\* What the event loop does for a task inside run().
RunStep(c) ==
    RejectClosed(c) \/ RejectBusy(c) \/ Admit(c) \/ Complete(c) \/ Timeout(c)

Next ==
    \/ \E c \in Callers, safe \in BOOLEAN : Call(c, safe)
    \/ \E c \in Callers : RunStep(c)
    \/ \E c \in Callers : RaiseTimeoutError(c) \/ CancelPolling(c) \/ CancelLocking(c)
    \/ Take \/ Return \/ Deliver
    \/ Shutdown

Spec == Init /\ [][Next]_vars

\* The loop schedules every runnable task and callback, timers fire, and the
\* thread takes the next item; nothing is assumed of the hardware itself, of
\* new calls, cancellations or shutdown.
LoopFairness ==
    /\ \A c \in Callers : WF_vars(RunStep(c))
    /\ WF_vars(Take)
    /\ WF_vars(Deliver)

LiveSpec == Spec /\ LoopFairness
-----------------------------------------------------------------------------
(* Properties.                                                             *)

TypeOK ==
    /\ items \in Seq(Item)
    /\ taken \in Nat /\ returned \in Nat /\ delivered \in Nat
    /\ waiters \in Seq(CallOf)
    /\ holder \in Callers \cup {NoCaller}
    /\ timedOut \in Nat
    /\ closed \in BOOLEAN
    /\ stopAfter \in Nat

\* "Run all synchronous hardware calls serially": a command is put only when
\* every command before it has really returned, so two hardware commands are
\* never outstanding at once, however many callers gave up on theirs.
OneOutstandingCommand ==
    \A i, j \in (returned + 1)..Len(items) :
        items[i].kind = "command" /\ items[j].kind = "command" => i = j

\* A safety call whose caller gave up (deadline or cancellation) before the
\* hardware answered always has its recovery directly behind it: whatever the
\* interleaving of timeouts, cancellations and other callers, nobody's work
\* gets in between.
AbandonedHasRecovery ==
    \A i \in (delivered + 1)..Len(items) :
        items[i].kind = "command" /\ items[i].safe =>
            \/ i = Mine /\ holder = items[i].owner
            \/ /\ i < Len(items)
               /\ items[i + 1].kind = "recovery" /\ items[i + 1].owner = items[i].owner

\* With the lock free, anything the hardware has not finished is covered by
\* the poison, so the next caller is refused instead of overlapping it.
PoisonCoversUnfinished ==
    holder = NoCaller => Len(items) <= delivered \/ timedOut = Len(items)

\* What the hardware still has to do for the queue, oldest first: the mapping
\* under which the queue implements SerialHardware.
Outstanding == [k \in 1..(Len(items) - returned) |-> items[returned + k].kind]

Serial == INSTANCE SerialHardware WITH outstanding <- Outstanding

\* Callers, timeouts, cancellations, late completions and shutdown together
\* never show the hardware more than the serial discipline allows.
ImplementsSerialHardware == Serial!Spec

\* Even if the hardware never answers again, every call is answered: the
\* deadline bounds the wait and the poison turns the rest away.
CallsAnswered ==
    \A c \in Callers : ~Idle(c) ~> Idle(c)

\* No hardware call blocks the thread for ever.
HardwareAnswers == []<>(returned = taken)

\* If the hardware answers in the end, a poisoned queue becomes usable again,
\* unless it has been shut down.
PoisonClears == HardwareAnswers => (Poisoned ~> (~Poisoned \/ closed))

\* If the hardware answers, a recovery reserved before shutdown is executed,
\* shutdown or not: the stop marker goes behind it.
ReservedRecoveryRuns ==
    HardwareAnswers =>
        \A i \in 1..MaxItems :
            (i <= Len(items) /\ items[i].kind = "recovery" /\ ~closed) ~> (returned >= i)
=============================================================================
