---------------------------- MODULE ControlCalls ----------------------------
(***************************************************************************)
(* A request from the window to the hardware: GuiController.call and the   *)
(* tasks of GuiWorker (frontend/gui/controller.py), SdbusClient's calls,   *)
(* ControlInterface and PolkitAuthorizer (backend/dbus), the mutation lock *)
(* and the use case of BatteryThresholds.                                  *)
(*                                                                         *)
(* A call has two lives: a task in the window's worker, which a timeout or *)
(* a lost connection ends, and a handler in the service, which goes on     *)
(* regardless.  Handlers authorize concurrently and then queue on the      *)
(* lock in the order in which they come through.                           *)
(***************************************************************************)
EXTENDS BatteryThresholds

CONSTANTS MaxCalls, MaxCrashes  \* bounds on calls and on crashes of the service

ASSUME CallsAssumption == MaxCalls \in Nat /\ MaxCrashes \in Nat

VARIABLES calls,    \* every call made: its pair, task, handler and authorization
          pending,  \* GuiController._pending_ops, by pair: the id is made of it
          link,     \* the worker's client: connected, lost its service, or none
          lockq,    \* calls waiting for the mutation lock, first come first served
          up, crashes

callVars == <<calls, pending, link, lockq>>
vars == <<batteryVars, callVars, up, crashes>>

Init ==
    /\ BatteryInit
    /\ calls = <<>> /\ pending = {} /\ link = "up" /\ lockq = <<>>
    /\ up = TRUE /\ crashes = 0
-----------------------------------------------------------------------------
(* The window.                                                             *)

\* _on_intent: the id is made of the method and its values.
OperationId(p) == p

\* GuiController.call refuses an operation that is pending; submit_call puts a
\* task into the worker's loop.
GuiCalls(p) ==
    /\ Len(calls) < MaxCalls /\ OperationId(p) \notin pending
    /\ calls' = Append(calls, [pair |-> p, task |-> "created", srv |-> "none",
                               granted |-> FALSE])
    /\ pending' = pending \cup {OperationId(p)}
    /\ UNCHANGED <<batteryVars, link, lockq, up, crashes>>

\* operation_result, with a result or without: the operation may be called again.
Completes(i) == pending' = pending \ {OperationId(calls[i].pair)}

\* classify_dbus_error: an error that says that nobody serves the name marks the
\* client as not connected.
Unserved == link' = IF link = "up" THEN "lost" ELSE link

\* The task runs: an absent client or service ends it.
TaskStarts(i) ==
    /\ calls[i].task = "created"
    /\ IF link = "up" /\ up
       THEN /\ calls' = [calls EXCEPT ![i].task = "waiting", ![i].srv = "auth"]
            /\ UNCHANGED <<pending, link>>
       ELSE /\ calls' = [calls EXCEPT ![i].task = "over"] /\ Completes(i)
            /\ Unserved
    /\ UNCHANGED <<batteryVars, lockq, up, crashes>>

\* wait_for in _call_method: the client gives up and the handler does not.
ClientTimesOut(i) ==
    /\ calls[i].task = "waiting"
    /\ calls' = [calls EXCEPT ![i].task = "over"] /\ Completes(i)
    /\ UNCHANGED <<batteryVars, link, lockq, up, crashes>>

\* The signal listener ends with the bus connection.
LinkBreaks ==
    /\ link = "up" /\ ~up /\ link' = "lost"
    /\ UNCHANGED <<batteryVars, calls, pending, lockq, up, crashes>>

CancelTasks_Silent ==
    /\ calls' = [i \in DOMAIN calls |->
                    IF calls[i].task = "waiting" THEN [calls[i] EXCEPT !.task = "cancelled"]
                    ELSE calls[i]]
    /\ UNCHANGED pending

\* _cancel_tasks: a waiting task completes its operation on the way out.  A
\* task cancelled before its first step never runs and completes nothing; one
\* that is not yet in the loop survives.
CancelTasks ==
    LET Waiting == {i \in DOMAIN calls : calls[i].task = "waiting"}
    IN  /\ \E gone \in SUBSET {i \in DOMAIN calls : calls[i].task = "created"} :
               calls' = [i \in DOMAIN calls |->
                            CASE i \in Waiting -> [calls[i] EXCEPT !.task = "over"]
                              [] i \in gone -> [calls[i] EXCEPT !.task = "vanished"]
                              [] OTHER -> calls[i]]
        /\ pending' = pending \ {OperationId(calls[i].pair) : i \in Waiting}

\* _main notices, cancels and closes.
WorkerReconnects ==
    /\ link = "lost" /\ link' = "none" /\ CancelTasks
    /\ UNCHANGED <<batteryVars, lockq, up, crashes>>

WorkerConnects ==
    /\ link = "none" /\ up /\ link' = "up"
    /\ UNCHANGED <<batteryVars, calls, pending, lockq, up, crashes>>
-----------------------------------------------------------------------------
(* The service.                                                            *)

\* The handler returns or raises; the reply finds its task or is dropped.
Replies(i) ==
    /\ calls' = [calls EXCEPT ![i].srv = "over",
                              ![i].task = IF @ = "waiting" THEN "over" ELSE @]
    /\ IF calls[i].task = "waiting" THEN Completes(i) ELSE UNCHANGED pending

\* _capture_caller finds no caller, or check raises.
NotAuthorized(i) == Replies(i)

Authorize_FailsOpen(i) ==
    /\ calls[i].srv = "auth"
    /\ \/ /\ calls' = [calls EXCEPT ![i].srv = "queued", ![i].granted = TRUE]
          /\ lockq' = Append(lockq, i) /\ UNCHANGED <<pending, faults>>
       \/ NotAuthorized(i) /\ UNCHANGED <<lockq, faults>>
       \/ Fault /\ calls' = [calls EXCEPT ![i].srv = "queued"]
          /\ lockq' = Append(lockq, i) /\ UNCHANGED pending
    /\ UNCHANGED <<hw, cfg, pub, wk, uc, told, link, up, crashes>>

\* check: polkit says yes; anything else (no caller, no, a challenge, no answer
\* in time, no polkit) is NotAuthorized.
Authorize(i) ==
    /\ calls[i].srv = "auth"
    /\ \/ /\ calls' = [calls EXCEPT ![i].srv = "queued", ![i].granted = TRUE]
          /\ lockq' = Append(lockq, i) /\ UNCHANGED pending
       \/ NotAuthorized(i) /\ UNCHANGED lockq
    /\ UNCHANGED <<batteryVars, link, up, crashes>>

\* _serialized_mutation.
LockTaken ==
    /\ lockq # <<>> /\ UseCaseBegins(Head(lockq), calls[Head(lockq)].pair)
    /\ lockq' = Tail(lockq)
    /\ calls' = [calls EXCEPT ![Head(lockq)].srv = "running"]
    /\ UNCHANGED <<pending, link, up, crashes>>

UseCaseAnswered ==
    /\ uc.at = "answer" /\ Replies(uc.by) /\ uc' = Idle
    /\ UNCHANGED <<hw, cfg, pub, wk, told, faults, link, lockq, up, crashes>>

\* The process dies: handlers, worker and snapshot are gone, the files are not.  Callers
\* get an error from the bus, or time out.
Crash ==
    /\ up /\ crashes < MaxCrashes /\ crashes' = crashes + 1 /\ up' = FALSE
    /\ calls' = [i \in DOMAIN calls |->
                    [calls[i] EXCEPT !.srv = IF @ = "none" THEN "none" ELSE "over"]]
    /\ lockq' = <<>> /\ uc' = Idle /\ wk' = IdleWorker
    /\ pub' = [pair |-> NoPair, fresh |-> FALSE]
    /\ told' = (told \/ wk.at \notin {"idle", "reading"} \/ uc.at = "save")
    /\ UNCHANGED <<hw, cfg, faults, pending, link>>

\* The service starts, and reads the thresholds for its first snapshot.
Boot ==
    /\ ~up /\ up' = TRUE
    /\ \/ pub' = [pair |-> hw, fresh |-> TRUE] /\ UNCHANGED faults
       \/ Fault /\ pub' \in {pub, [pair |-> NoPair, fresh |-> TRUE]}
    /\ UNCHANGED <<hw, cfg, wk, uc, told, callVars, crashes>>
-----------------------------------------------------------------------------
ServiceStep == up /\ (WorkerStep \/ UseCaseStep) /\ UNCHANGED <<callVars, up, crashes>>
TaskStep == \E i \in DOMAIN calls : TaskStarts(i)
HandlerStep == (\E i \in DOMAIN calls : Authorize(i)) \/ LockTaken \/ UseCaseAnswered

Next ==
    \/ \E p \in Pairs : GuiCalls(p)
    \/ TaskStep \/ HandlerStep \/ ServiceStep
    \/ \E i \in DOMAIN calls : ClientTimesOut(i)
    \/ LinkBreaks \/ WorkerReconnects \/ WorkerConnects
    \/ up /\ (WriteTimesOut \/ RefreshLoop) /\ UNCHANGED <<callVars, up, crashes>>
    \/ Crash \/ Boot

\* The worker's loop runs its tasks, its deadlines pass, and it watches its
\* connection.  Nothing is asked of the service or of polkit.
Fairness ==
    /\ WF_vars(TaskStep) /\ WF_vars(\E i \in DOMAIN calls : ClientTimesOut(i))
    /\ WF_vars(WorkerReconnects)

Spec == Init /\ [][Next]_vars /\ Fairness
-----------------------------------------------------------------------------
(* Properties.                                                             *)

\* authorizer.py:8, "Fail closed": whatever reaches the threshold files or the
\* configuration does so for a call that polkit granted, also when its caller
\* has given up, other calls were refused meanwhile, or a rollback writes.
OnlyGrantedCallsWrite ==
    [][ /\ hw' # hw => wk.by \in DOMAIN calls /\ calls[wk.by].granted
        /\ cfg' # cfg => uc.by \in DOMAIN calls /\ calls[uc.by].granted ]_vars

\* A control of the window does not stay disabled: every operation pending is
\* completed, with a result or without, through timeouts, lost connections and
\* a service that dies or never answers.  (Except for a task cancelled before
\* its first step, of which nobody hears again.)
OperationsEnd ==
    \A p \in Pairs :
        LET Lost == \E i \in DOMAIN calls : calls[i].pair = p /\ calls[i].task = "vanished"
        IN  p \in pending ~> (p \notin pending \/ Lost)
=============================================================================
