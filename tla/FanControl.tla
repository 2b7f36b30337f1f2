----------------------------- MODULE FanControl -----------------------------
(***************************************************************************)
(* Fan control in backend/application.py: the use cases a user can call,   *)
(* the manual-override watchdog, the curve controller, the tracking of a   *)
(* recovery reserved behind a timed-out call, start-up, shutdown, and the  *)
(* emergency restore that systemd runs after the process is gone.          *)
(*                                                                         *)
(* Tasks interleave at their awaits.  A task is a frame: where it is, the  *)
(* state of the hardware call or cleanup it waits for, and the label a     *)
(* running _restore_fan_auto returns to.  The command queue is used as     *)
(* HardwareCommandQueue guarantees it: one call at a time, an abandoned    *)
(* call poisons it, a reserved set_fan_auto runs directly behind.          *)
(***************************************************************************)
EXTENDS Naturals, Sequences

CONSTANTS Requests,  \* what may be asked of the service: a subset of AllRequests
          Faults,    \* what may go wrong: a subset of AllFaults
          MaxOps,    \* bound on use cases per run of the service
          MaxBoots   \* bound on runs of the service

\* A plain read or a fan call outlasts its deadline; the EC rejects a fan
\* write or the sensor reads implausibly; the EC rejects stock auto; saving
\* the configuration fails; the process dies.
AllFaults == {"readTimeout", "fanTimeout", "reject", "autoReject", "disk", "crash"}

\* The use cases, by the label where they queue on the mutation lock, a tick
\* of the refresh loop, and SIGTERM.
AllRequests == {"stLock", "cuLock", "maLock", "reLock", "refresh", "stop"}

ASSUME RequestsAssumption == Requests \subseteq AllRequests
ASSUME FaultsAssumption == Faults \subseteq AllFaults
ASSUME BoundsAssumption == MaxOps \in Nat /\ MaxBoots \in Nat \ {0}

VARIABLES ec,        \* the EC's fan mode
          cfg,       \* config_store state.fan.mode, durable
          err,       \* _fan_fail_safe_error is not empty
          wd,        \* supervisor health of manual_fan_ttl
          cv,        \* supervisor health of fan_curve
          snap,      \* the published snapshot's fan.mode
          lock,      \* holder of _mutation_lock, "free"
          task,      \* the frame of every task
          q,         \* the hardware command queue
          recOk,     \* result of the last finished recovery task
          held,      \* the curve loop's last_speed is not None
          failures,  \* the curve loop's consecutive failures
          closing,   \* _closing
          cap,       \* the published capabilities say the fan is writable
          owned,     \* ghost: this run learnt of a fan at start-up, or asked for manual mode
          ops, boots \* use cases called and refreshes begun, runs started

vars == <<ec, cfg, err, wd, cv, snap, lock, task, q, recOk, held, failures,
          closing, cap, owned, ops, boots>>
curveVars == <<held, failures>>
lifeVars == <<closing, cap, ops, boots>>

Tasks == {"main", "user", "watchdog", "curve", "refresh", "recovery"}

\* Awaits on the command queue that name set_fan_auto as timeout_recovery.
SafeCalls == {"rsAuto", "maMode", "maSpeed", "wdTemp", "wdSpeed", "cvTemp", "cvMode", "cvSpeed"}
\* Plain awaits on the command queue.
PlainCalls == {"bootRead", "stCap", "stAuto", "stRefresh", "cuCap", "cuRefresh", "maCap",
               "maTemp", "maRefresh", "reRefresh", "rsRefresh", "rfRead", "rcRefresh"}
Calls == SafeCalls \cup PlainCalls
\* Where supervisor.stop goes on after a bounded cleanup.
CleanupLabels == {"stStopped", "maStopped", "reWd", "reCv", "sdCv", "sdWd"}
Labels == Calls \cup CleanupLabels \cup
    {"dead", "idle", "sleep", "none", "rsWait", "booted", "serving", "sdLock", "sdDrain",
     "exited", "down", "stLock", "cuLock", "maLock", "reLock", "maFailed", "reDone",
     "wdPollLock", "wdExpireLock", "wdFaultLock", "wdEnd", "wdFault",
     "cvLock", "cvApplyFailed", "cvGiveUpLock", "cvGaveUp", "rcWait"}
Frame == [at : Labels, ret : Labels,
          st : {"none", "want", "sent", "ok", "bad", "hot", "busy", "timeout",
                "restored", "unrestored"}]

\* The hardware function behind a call.
Command(l) == CASE l \in {"stAuto", "rsAuto", "rescue"} -> "auto"
                [] l \in {"maMode", "cvMode"}           -> "manual"
                [] l \in {"maSpeed", "wdSpeed", "cvSpeed"} -> "speed"
                [] OTHER                                -> "read"

\* A task that arrives at a label; arriving at a call asks the queue for it.
At(l) == [at |-> l, ret |-> "none", st |-> IF l \in Calls THEN "want" ELSE "none"]

\* _fan_restore_pending: the recovery task is not done.
Pending == task["recovery"].at \notin {"idle", "dead"}

\* Entering _restore_fan_auto: wait for a pending recovery, or ask for auto.
Restoring(ret) ==
    IF Pending THEN [At("rsWait") EXCEPT !.ret = ret] ELSE [At("rsAuto") EXCEPT !.ret = ret]

Answered(t, l) == task[t].at = l /\ task[t].st \notin {"want", "sent"}

\* The mode _refresh_fan publishes when its read succeeds.
ObservedMode ==
    IF err THEN "failed_safe"
    ELSE IF wd = "RUNNING" THEN "manual_override"
    ELSE IF cfg = "curve" THEN "curve" ELSE "stock"

\* An implausible reading is published as well; a queue error marks the
\* published state stale and keeps its mode.
Refreshed(t) == IF task[t].st \in {"busy", "timeout"} THEN snap ELSE ObservedMode

\* _refresh_all publishes the capabilities too, unless their reads failed.
RefreshesAll(t) ==
    /\ snap' = Refreshed(t)
    /\ cap' \in IF task[t].st \in {"busy", "timeout"} THEN {cap, TRUE} ELSE {TRUE}

IdleQueue == [call |-> "none", by |-> "nobody", rescue |-> FALSE]

\* A timed-out call, or the recovery behind it, has not returned.
Poisoned == q.call # "none" /\ q.by = "nobody"

\* The deadline of a call can pass before the hardware answers.
MayOutlast(l) ==
    IF Command(l) = "read" /\ l \notin SafeCalls
    THEN "readTimeout" \in Faults ELSE "fanTimeout" \in Faults

ProcessInit ==
    [t \in Tasks |-> CASE t = "main" -> At("bootRead")
                       [] t \in {"user", "recovery"} -> At("idle")
                       [] OTHER -> At("dead")]

Init ==
    /\ ec \in {"auto", "manual"} /\ cfg \in {"stock", "curve"}
    /\ err = FALSE /\ wd = "STOPPED" /\ cv = "STOPPED" /\ snap = "stock"
    /\ lock = "free" /\ task = ProcessInit /\ q = IdleQueue
    /\ recOk = FALSE /\ held = FALSE /\ failures = 0
    /\ closing = FALSE /\ cap = FALSE /\ owned = FALSE /\ ops = 0 /\ boots = 1
-----------------------------------------------------------------------------
(* The hardware command queue.                                             *)

\* A waiting call is put.
Admit(t) ==
    /\ task[t].st = "want" /\ q.call = "none"
    /\ q' = [call |-> task[t].at, by |-> t, rescue |-> FALSE]
    /\ task' = [task EXCEPT ![t].st = "sent"]
    /\ owned' = (owned \/ Command(task[t].at) = "manual")
    /\ UNCHANGED <<ec, cfg, err, wd, cv, snap, lock, recOk, curveVars, lifeVars>>

RejectBusy(t) ==
    /\ task[t].st = "want" /\ Poisoned
    /\ task' = [task EXCEPT ![t].st = "busy"]
    /\ UNCHANGED <<ec, cfg, err, wd, cv, snap, lock, q, recOk, curveVars, lifeVars, owned>>

\* What the hardware function returns, and the EC mode it leaves: a rejected
\* or failed write may still have taken effect.
Outcomes(l) ==
    CASE Command(l) = "auto"   -> {<<"ok", "auto">>} \cup
            (IF "autoReject" \in Faults THEN {<<"bad", "auto">>, <<"bad", ec>>} ELSE {})
      [] Command(l) = "manual" -> {<<"ok", "manual">>} \cup
            (IF "reject" \in Faults THEN {<<"bad", "manual">>, <<"bad", ec>>} ELSE {})
      [] OTHER -> {<<"ok", ec>>} \cup (IF "reject" \in Faults THEN {<<"bad", ec>>} ELSE {})
                  \cup (IF l \in {"maTemp", "wdTemp"} THEN {<<"hot", ec>>} ELSE {})

Return_Undelivered ==
    /\ q.call # "none"
    /\ \E o \in Outcomes(q.call) :
        /\ ec' = o[2]
        /\ q' = IF q.rescue THEN [IdleQueue EXCEPT !.call = "rescue"] ELSE IdleQueue
        /\ task' = IF q.by # "nobody" THEN [task EXCEPT ![q.by].st = o[1]] ELSE task
    /\ UNCHANGED <<cfg, err, wd, cv, snap, lock, recOk, curveVars, lifeVars, owned>>

\* The worker's call returns: to its caller, or, abandoned, it lets the
\* recovery behind it run; a recovery's result reaches the task tracking it.
Return ==
    /\ q.call # "none"
    /\ \E o \in Outcomes(q.call) :
        /\ ec' = o[2]
        /\ q' = IF q.rescue THEN [IdleQueue EXCEPT !.call = "rescue"] ELSE IdleQueue
        /\ task' = IF q.by # "nobody" THEN [task EXCEPT ![q.by].st = o[1]]
                   ELSE IF q.call = "rescue" /\ task["recovery"].at = "rcWait"
                   THEN [task EXCEPT !["recovery"].st = o[1]]
                   ELSE task
    /\ UNCHANGED <<cfg, err, wd, cv, snap, lock, recOk, curveVars, lifeVars, owned>>

Timeout_NoRecovery(t) ==
    LET l == task[t].at
        track == l \in SafeCalls /\ ~Pending
    IN  /\ task[t].st = "sent" /\ MayOutlast(l) /\ task[t].ret \notin CleanupLabels
        /\ q' = [q EXCEPT !.by = "nobody"]
        /\ task' = [task EXCEPT ![t].st = "timeout",
                                !["recovery"] = IF track THEN At("rcWait") ELSE @]
        /\ err' = (err \/ track)
        /\ snap' = IF track THEN "failed_safe" ELSE snap
        /\ UNCHANGED <<ec, cfg, wd, cv, lock, recOk, curveVars, lifeVars, owned>>

\* The deadline passes.  _run_fan_command and _restore_fan_auto track the
\* recovery reserved for a safe call, unless one is tracked already.
Timeout(t) ==
    LET l == task[t].at
        track == l \in SafeCalls /\ ~Pending
    IN  /\ task[t].st = "sent" /\ MayOutlast(l) /\ task[t].ret \notin CleanupLabels
        /\ q' = [q EXCEPT !.by = "nobody", !.rescue = l \in SafeCalls]
        /\ task' = [task EXCEPT ![t].st = "timeout",
                                !["recovery"] = IF track THEN At("rcWait") ELSE @]
        /\ err' = (err \/ track)
        /\ snap' = IF track THEN "failed_safe" ELSE snap
        /\ UNCHANGED <<ec, cfg, wd, cv, lock, recOk, curveVars, lifeVars, owned>>
-----------------------------------------------------------------------------
(* _restore_fan_auto and _complete_fan_timeout_recovery.                   *)

\* The cleanup ends and its caller goes on.
Back(t, result) == [at |-> task[t].ret, ret |-> "none", st |-> result]

RestoreAnswered_Silent(t) ==
    /\ Answered(t, "rsAuto")
    /\ err' = FALSE
    /\ task' = [task EXCEPT ![t] = [At("rsRefresh") EXCEPT !.ret = task[t].ret]]
    /\ UNCHANGED <<ec, cfg, wd, cv, snap, lock, q, recOk, curveVars, lifeVars, owned>>

RestoreAnswered(t) ==
    /\ Answered(t, "rsAuto")
    /\ IF task[t].st = "ok"
       THEN /\ err' = FALSE
            /\ task' = [task EXCEPT ![t] = [At("rsRefresh") EXCEPT !.ret = task[t].ret]]
            /\ UNCHANGED snap
       ELSE /\ err' = TRUE /\ snap' = "failed_safe"
            /\ task' = [task EXCEPT ![t] = Back(t, "unrestored")]
    /\ UNCHANGED <<ec, cfg, wd, cv, lock, q, recOk, curveVars, lifeVars, owned>>

RestoreRefreshed(t) ==
    /\ Answered(t, "rsRefresh")
    /\ snap' = Refreshed(t)
    /\ task' = [task EXCEPT ![t] = Back(t, "restored")]
    /\ UNCHANGED <<ec, cfg, err, wd, cv, lock, q, recOk, curveVars, lifeVars, owned>>

\* The recovery task this cleanup waits for is done, or the 10 s are over.
RestoreWaited(t) ==
    /\ task[t].at = "rsWait"
    /\ \/ /\ ~Pending
          /\ task' = [task EXCEPT ![t] = Back(t, IF recOk THEN "restored" ELSE "unrestored")]
          /\ UNCHANGED <<err, snap>>
       \/ /\ Pending /\ task[t].ret \notin CleanupLabels
          /\ err' = TRUE /\ snap' = "failed_safe"
          /\ task' = [task EXCEPT ![t] = Back(t, "unrestored")]
    /\ UNCHANGED <<ec, cfg, wd, cv, lock, q, recOk, curveVars, lifeVars, owned>>

\* supervisor.stop gives its cleanup 5 s, less than the queue's deadline:
\* the cleanup is cancelled where it waits, and a call it had put is
\* abandoned, with the recovery reserved but nobody tracking it.
CleanupTimeout(t) ==
    /\ task[t].ret \in CleanupLabels
    /\ \/ task[t].at = "rsWait" /\ Pending
       \/ task[t].st \in {"want", "sent"} /\ q.by # "nobody" /\ MayOutlast(q.call)
    /\ q' = IF task[t].st = "sent"
            THEN [q EXCEPT !.by = "nobody", !.rescue = task[t].at \in SafeCalls] ELSE q
    /\ task' = [task EXCEPT ![t] = Back(t, "unrestored")]
    /\ UNCHANGED <<ec, cfg, err, wd, cv, snap, lock, recOk, curveVars, lifeVars, owned>>

\* The tracked recovery has answered: publish and, while serving, refresh.
RecoveryAnswered ==
    /\ task["recovery"].at = "rcWait" /\ task["recovery"].st \in {"ok", "bad"}
    /\ recOk' = (task["recovery"].st = "ok")
    /\ err' = ~recOk'
    /\ snap' = IF recOk' THEN snap ELSE "failed_safe"
    /\ task' = [task EXCEPT !["recovery"] =
                    IF recOk' /\ ~closing THEN At("rcRefresh") ELSE At("idle")]
    /\ UNCHANGED <<ec, cfg, wd, cv, lock, q, curveVars, lifeVars, owned>>

RecoveryRefreshed ==
    /\ Answered("recovery", "rcRefresh")
    /\ snap' = Refreshed("recovery")
    /\ task' = [task EXCEPT !["recovery"] = At("idle")]
    /\ UNCHANGED <<ec, cfg, err, wd, cv, lock, q, recOk, curveVars, lifeVars, owned>>
-----------------------------------------------------------------------------
(* supervisor.stop and supervisor.start, called with the mutation lock     *)
(* held: the controller's task is then asleep or queued on that lock.      *)

\* Cancel the watchdog and run its cleanup, or nothing when it is stopped.
StopWatchdog(t, next) ==
    IF wd \in {"STOPPED", "STOPPING"}
    THEN /\ task' = [task EXCEPT ![t] = At(next)]
         /\ UNCHANGED wd
    ELSE /\ task' = [task EXCEPT !["watchdog"] = At("dead"), ![t] = Restoring(next)]
         /\ wd' = "STOPPING"

StopCurve(t, next) ==
    IF cv \in {"STOPPED", "STOPPING"}
    THEN /\ task' = [task EXCEPT ![t] = At(next)]
         /\ UNCHANGED cv
    ELSE /\ task' = [task EXCEPT !["curve"] = At("dead"), ![t] = Restoring(next)]
         /\ cv' = "STOPPING"

\* The curve controller starts afresh unless it is running; t goes on at next.
StartCurve(t, next) ==
    IF cv = "RUNNING"
    THEN /\ task' = [task EXCEPT ![t] = At(next)]
         /\ UNCHANGED <<cv, curveVars>>
    ELSE /\ task' = [task EXCEPT ![t] = At(next), !["curve"] = At("sleep")]
         /\ cv' = "RUNNING" /\ held' = FALSE /\ failures' = 0
-----------------------------------------------------------------------------
(* The use cases, each under _serialized_mutation.                         *)

\* A user calls a use case; it queues on the mutation lock.
UseCase(l) ==
    /\ task["user"].at = "idle" /\ task["main"].at = "serving"
    /\ l \in Requests /\ ops < MaxOps
    /\ ops' = ops + 1
    /\ task' = [task EXCEPT !["user"] = At(l)]
    /\ UNCHANGED <<ec, cfg, err, wd, cv, snap, lock, q, recOk, curveVars, closing, cap, owned, boots>>

\* The lock is taken; a closing service or a pending restore refuses.
UserEnters(l, first) ==
    /\ task["user"].at = l /\ lock = "free"
    /\ IF closing \/ Pending
       THEN task' = [task EXCEPT !["user"] = At("idle")] /\ UNCHANGED lock
       ELSE task' = [task EXCEPT !["user"] = At(first)] /\ lock' = "user"
    /\ UNCHANGED <<ec, cfg, err, wd, cv, snap, q, recOk, curveVars, lifeVars, owned>>

\* The use case returns or raises.
UserEnds ==
    /\ task' = [task EXCEPT !["user"] = At("idle")]
    /\ lock' = "free"

\* A call whose failure of any kind ends the use case.
UserContinues(l, next) ==
    /\ Answered("user", l)
    /\ IF task["user"].st = "ok"
       THEN task' = [task EXCEPT !["user"] = At(next)] /\ UNCHANGED lock
       ELSE UserEnds
    /\ UNCHANGED <<ec, cfg, err, wd, cv, snap, q, recOk, curveVars, lifeVars, owned>>

\* The last refresh of a use case.
UserRefreshes(l) ==
    /\ Answered("user", l)
    /\ snap' = Refreshed("user")
    /\ UserEnds
    /\ UNCHANGED <<ec, cfg, err, wd, cv, q, recOk, curveVars, lifeVars, owned>>

\* set_fan_stock_auto: stock auto is verified, then the watchdog is stopped.
StockVerified ==
    /\ Answered("user", "stAuto")
    /\ IF task["user"].st = "ok"
       THEN err' = FALSE /\ StopWatchdog("user", "stStopped") /\ UNCHANGED lock
       ELSE UserEnds /\ UNCHANGED <<err, wd>>
    /\ UNCHANGED <<ec, cfg, cv, snap, q, recOk, curveVars, lifeVars, owned>>

StockSaves ==
    /\ task["user"].at = "stStopped"
    /\ wd' = "STOPPED" /\ err' = FALSE
    /\ \/ /\ cfg' = "stock"
          /\ task' = [task EXCEPT !["user"] = At("stRefresh")]
          /\ UNCHANGED lock
       \/ "disk" \in Faults /\ UserEnds /\ UNCHANGED cfg
    /\ UNCHANGED <<ec, cv, snap, q, recOk, curveVars, lifeVars, owned>>

\* set_fan_curve: save, then make sure the controller runs.
CurveSaves ==
    /\ Answered("user", "cuCap")
    /\ \/ /\ task["user"].st = "ok"
          /\ cfg' = "curve" /\ StartCurve("user", "cuRefresh")
          /\ UNCHANGED lock
       \/ /\ task["user"].st = "ok" => "disk" \in Faults
          /\ UserEnds /\ UNCHANGED <<cfg, cv, curveVars>>
    /\ UNCHANGED <<ec, err, wd, snap, q, recOk, lifeVars, owned>>

\* set_fan_manual: with a plausible temperature (a hot one may rule the speed
\* out) the previous override's watchdog is stopped and cleaned up.
ManualMeasured ==
    /\ Answered("user", "maTemp")
    /\ \/ task["user"].st \in {"ok", "hot"} /\ StopWatchdog("user", "maStopped") /\ UNCHANGED lock
       \/ task["user"].st # "ok" /\ UserEnds /\ UNCHANGED wd
    /\ UNCHANGED <<ec, cfg, err, cv, snap, q, recOk, curveVars, lifeVars, owned>>

ManualBegins ==
    /\ task["user"].at = "maStopped"
    /\ wd' = "STOPPED"
    /\ task' = [task EXCEPT !["user"] = At("maMode")]
    /\ UNCHANGED <<ec, cfg, err, cv, snap, lock, q, recOk, curveVars, lifeVars, owned>>

\* _apply_manual_fan_speed: EC manual mode, then the speed; a timeout has its
\* recovery reserved, any other failure is cleaned up here.
ManualApplies(l) ==
    /\ Answered("user", l)
    /\ CASE task["user"].st = "ok" ->
              /\ task' = [task EXCEPT !["user"] =
                            IF l = "maMode" THEN At("maSpeed") ELSE At("maRefresh")]
              /\ err' = IF l = "maSpeed" THEN FALSE ELSE err
              /\ UNCHANGED lock
         [] task["user"].st = "timeout" -> UserEnds /\ UNCHANGED err
         [] OTHER ->
              /\ task' = [task EXCEPT !["user"] = Restoring("maFailed")]
              /\ UNCHANGED <<err, lock>>
    /\ UNCHANGED <<ec, cfg, wd, cv, snap, q, recOk, curveVars, lifeVars, owned>>

ManualFails ==
    /\ task["user"].at = "maFailed"
    /\ UserEnds
    /\ UNCHANGED <<ec, cfg, err, wd, cv, snap, q, recOk, curveVars, lifeVars, owned>>

ManualStarts_Unwatched ==
    /\ Answered("user", "maRefresh")
    /\ snap' = "manual_override" /\ lock' = "free"
    /\ task' = [task EXCEPT !["user"] = At("idle")]
    /\ UNCHANGED <<ec, cfg, err, wd, cv, q, recOk, curveVars, lifeVars, owned>>

\* The override is in force: published, and its watchdog started.
ManualStarts ==
    /\ Answered("user", "maRefresh")
    /\ snap' = "manual_override" /\ wd' = "RUNNING" /\ lock' = "free"
    /\ task' = [task EXCEPT !["user"] = At("idle"), !["watchdog"] = At("sleep")]
    /\ UNCHANGED <<ec, cfg, err, cv, q, recOk, curveVars, lifeVars, owned>>

\* reload: the file edited by hand has this fan mode.
ReloadReads(mode) ==
    /\ task["user"].at = "reLock" /\ lock = "free" /\ ~closing /\ ~Pending
    /\ lock' = "user" /\ cfg' = mode
    /\ \/ mode = cfg /\ task' = [task EXCEPT !["user"] = At("reRefresh")]
          /\ UNCHANGED <<wd, cv, curveVars>>
       \/ mode = "stock" /\ cfg = "curve" /\ StopWatchdog("user", "reWd")
          /\ UNCHANGED <<cv, curveVars>>
       \/ mode = "curve" /\ cfg = "stock" /\ StartCurve("user", "reRefresh")
          /\ UNCHANGED wd
    /\ UNCHANGED <<ec, err, snap, q, recOk, lifeVars, owned>>

\* reload refused, or the file is not a valid configuration.
ReloadRefused ==
    /\ task["user"].at = "reLock" /\ lock = "free"
    /\ task' = [task EXCEPT !["user"] = At("idle")]
    /\ UNCHANGED <<ec, cfg, err, wd, cv, snap, lock, q, recOk, curveVars, lifeVars, owned>>

ReloadStopsCurve ==
    /\ task["user"].at = "reWd"
    /\ wd' = "STOPPED" /\ StopCurve("user", "reCv")
    /\ UNCHANGED <<ec, cfg, err, snap, lock, q, recOk, curveVars, lifeVars, owned>>

ReloadRestores ==
    /\ task["user"].at = "reCv"
    /\ cv' = "STOPPED"
    /\ task' = [task EXCEPT !["user"] = Restoring("reDone")]
    /\ UNCHANGED <<ec, cfg, err, wd, snap, lock, q, recOk, curveVars, lifeVars, owned>>

ReloadReports ==
    /\ task["user"].at = "reDone"
    /\ task' = [task EXCEPT !["user"] = At("reRefresh")]
    /\ UNCHANGED <<ec, cfg, err, wd, cv, snap, lock, q, recOk, curveVars, lifeVars, owned>>

\* Every domain is refreshed at the end.
ReloadRefreshes ==
    /\ Answered("user", "reRefresh")
    /\ RefreshesAll("user") /\ UserEnds
    /\ UNCHANGED <<ec, cfg, err, wd, cv, q, recOk, curveVars, closing, ops, boots, owned>>

UserStep ==
    \/ UserEnters("stLock", "stCap") \/ UserContinues("stCap", "stAuto")
    \/ StockVerified \/ StockSaves \/ UserRefreshes("stRefresh")
    \/ UserEnters("cuLock", "cuCap") \/ CurveSaves \/ UserRefreshes("cuRefresh")
    \/ UserEnters("maLock", "maCap") \/ UserContinues("maCap", "maTemp")
    \/ ManualMeasured \/ ManualBegins \/ ManualApplies("maMode") \/ ManualApplies("maSpeed")
    \/ ManualFails \/ ManualStarts
    \/ \E mode \in {"stock", "curve"} : ReloadReads(mode)
    \/ ReloadRefused \/ ReloadStopsCurve \/ ReloadRestores \/ ReloadReports \/ ReloadRefreshes
-----------------------------------------------------------------------------
(* _manual_fan_expiry: the watchdog of a manual override.                  *)

WatchdogTo(frame) == task' = [task EXCEPT !["watchdog"] = frame]

\* 2 s have passed, or the deadline has: either way the fan is polled first.
WatchdogPolls ==
    /\ task["watchdog"].at = "sleep"
    /\ WatchdogTo(At("wdPollLock"))
    /\ UNCHANGED <<ec, cfg, err, wd, cv, snap, lock, q, recOk, curveVars, lifeVars, owned>>

WatchdogLocks_NoRestore ==
    /\ task["watchdog"].at \in {"wdPollLock", "wdExpireLock", "wdFaultLock"} /\ lock = "free"
    /\ WatchdogTo(At("wdEnd")) /\ lock' = "watchdog"
    /\ UNCHANGED <<ec, cfg, err, wd, cv, snap, q, recOk, curveVars, lifeVars, owned>>

\* The lock is taken: a poll returns at once when the service is closing.
WatchdogLocks ==
    /\ task["watchdog"].at \in {"wdPollLock", "wdExpireLock", "wdFaultLock"} /\ lock = "free"
    /\ CASE task["watchdog"].at = "wdPollLock" /\ closing ->
              WatchdogTo(At("dead")) /\ wd' = "STOPPED" /\ UNCHANGED lock
         [] task["watchdog"].at = "wdPollLock" /\ ~closing ->
              WatchdogTo(At("wdTemp")) /\ lock' = "watchdog" /\ UNCHANGED wd
         [] task["watchdog"].at = "wdExpireLock" ->
              WatchdogTo(Restoring("wdEnd")) /\ lock' = "watchdog" /\ UNCHANGED wd
         [] task["watchdog"].at = "wdFaultLock" ->
              WatchdogTo(Restoring("wdFault")) /\ lock' = "watchdog" /\ UNCHANGED wd
    /\ UNCHANGED <<ec, cfg, err, cv, snap, q, recOk, curveVars, lifeVars, owned>>

\* The temperature, and at an emergency the raised speed: an implausible
\* reading or a rejected write is cleaned up here, an exception (timeout or a
\* busy queue) in the handler, with the lock taken again.
WatchdogChecks(l) ==
    /\ Answered("watchdog", l)
    /\ \/ /\ task["watchdog"].st \in {"ok", "hot"}
          /\ WatchdogTo(At("sleep")) /\ lock' = "free"
       \/ /\ task["watchdog"].st = "hot"
          /\ WatchdogTo(At("wdSpeed")) /\ UNCHANGED lock
       \/ /\ task["watchdog"].st = "bad"
          /\ WatchdogTo(Restoring("wdEnd")) /\ UNCHANGED lock
       \/ /\ task["watchdog"].st \in {"busy", "timeout"}
          /\ WatchdogTo(At("wdFaultLock")) /\ lock' = "free"
    /\ UNCHANGED <<ec, cfg, err, wd, cv, snap, q, recOk, curveVars, lifeVars, owned>>

\* Behind a poll that went well the deadline has passed.
WatchdogExpires(l) ==
    /\ Answered("watchdog", l) /\ task["watchdog"].st \in {"ok", "hot"}
    /\ WatchdogTo(At("wdExpireLock")) /\ lock' = "free"
    /\ UNCHANGED <<ec, cfg, err, wd, cv, snap, q, recOk, curveVars, lifeVars, owned>>

WatchdogEnds_ClaimsStock ==
    /\ task["watchdog"].at \in {"wdEnd", "wdFault"}
    /\ snap' = "stock"
    /\ wd' = IF task["watchdog"].at = "wdEnd" THEN "STOPPED" ELSE "FAILED"
    /\ WatchdogTo(At("dead")) /\ lock' = "free"
    /\ UNCHANGED <<ec, cfg, err, cv, q, recOk, curveVars, lifeVars, owned>>

\* The cleanup is over and the task ends, normally or with its exception.
WatchdogEnds ==
    /\ task["watchdog"].at \in {"wdEnd", "wdFault"}
    /\ snap' = IF task["watchdog"].st = "restored" THEN "stock" ELSE snap
    /\ wd' = IF task["watchdog"].at = "wdEnd" THEN "STOPPED" ELSE "FAILED"
    /\ WatchdogTo(At("dead")) /\ lock' = "free"
    /\ UNCHANGED <<ec, cfg, err, cv, q, recOk, curveVars, lifeVars, owned>>

WatchdogStep ==
    \/ WatchdogPolls \/ WatchdogLocks \/ WatchdogEnds
    \/ \E l \in {"wdTemp", "wdSpeed"} : WatchdogChecks(l) \/ WatchdogExpires(l)
-----------------------------------------------------------------------------
(* _fan_curve_loop.                                                        *)

CurveTo(frame) == task' = [task EXCEPT !["curve"] = frame]

\* The loop leaves the fan alone.
CurveBlocked == cfg # "curve" \/ wd = "RUNNING" \/ err \/ Pending \/ closing

\* The 2 s tick: the checks before the lock forget the last speed.
CurveTicks ==
    /\ task["curve"].at = "sleep"
    /\ IF CurveBlocked \/ ~cap THEN held' = FALSE /\ UNCHANGED task
                       ELSE CurveTo(At("cvLock")) /\ UNCHANGED held
    /\ UNCHANGED <<ec, cfg, err, wd, cv, snap, lock, q, recOk, failures, lifeVars, owned>>

\* The checks are repeated under the lock; this time the last speed is kept.
CurveLocks ==
    /\ task["curve"].at = "cvLock" /\ lock = "free"
    /\ IF CurveBlocked THEN CurveTo(At("sleep")) /\ UNCHANGED lock
                       ELSE CurveTo(At("cvTemp")) /\ lock' = "curve"
    /\ UNCHANGED <<ec, cfg, err, wd, cv, snap, q, recOk, curveVars, lifeVars, owned>>

\* A tick succeeded: the lock is released and the curve published.
CurveSucceeds ==
    /\ CurveTo(At("sleep")) /\ lock' = "free"
    /\ held' = TRUE /\ failures' = 0 /\ err' = FALSE /\ snap' = "curve"

CurveFails_KeepsLock ==
    /\ failures' = failures + 1
    /\ CurveTo(At(IF failures' >= 3 THEN "cvGiveUpLock" ELSE "sleep"))
    /\ UNCHANGED <<held, err, snap, lock>>

\* A tick failed: after the third failure in a row the controller gives up.
CurveFails ==
    /\ failures' = failures + 1
    /\ CurveTo(At(IF failures' >= 3 THEN "cvGiveUpLock" ELSE "sleep")) /\ lock' = "free"
    /\ UNCHANGED <<held, err, snap>>

\* The speed for this temperature is within the hysteresis of the last one
\* written and is not written again.
CurveHolds ==
    /\ Answered("curve", "cvTemp") /\ task["curve"].st = "ok"
    /\ held /\ CurveSucceeds
    /\ UNCHANGED <<ec, cfg, wd, cv, q, recOk, lifeVars, owned>>

\* A new speed: EC manual mode, then the speed.
CurveApplies ==
    /\ \/ Answered("curve", "cvTemp") /\ task["curve"].st = "ok" /\ CurveTo(At("cvMode"))
       \/ Answered("curve", "cvMode") /\ task["curve"].st = "ok" /\ CurveTo(At("cvSpeed"))
       \/ /\ Answered("curve", "cvMode") \/ Answered("curve", "cvSpeed")
          /\ task["curve"].st \in {"bad", "busy"} /\ CurveTo(Restoring("cvApplyFailed"))
    /\ UNCHANGED <<ec, cfg, err, wd, cv, snap, lock, q, recOk, curveVars, lifeVars, owned>>

CurveFinishes ==
    /\ \/ Answered("curve", "cvSpeed") /\ task["curve"].st = "ok" /\ CurveSucceeds
       \/ Answered("curve", "cvTemp") /\ task["curve"].st # "ok" /\ CurveFails
       \/ /\ Answered("curve", "cvMode") \/ Answered("curve", "cvSpeed")
          /\ task["curve"].st = "timeout" /\ CurveFails
       \/ task["curve"].at = "cvApplyFailed" /\ CurveFails
    /\ UNCHANGED <<ec, cfg, wd, cv, q, recOk, lifeVars, owned>>

\* Giving up: restore, persist stock mode, publish failed-safe, end faulted.
CurveGivesUp ==
    /\ task["curve"].at = "cvGiveUpLock" /\ lock = "free"
    /\ CurveTo(Restoring("cvGaveUp")) /\ lock' = "curve"
    /\ UNCHANGED <<ec, cfg, err, wd, cv, snap, q, recOk, curveVars, lifeVars, owned>>

CurveDisabled ==
    /\ task["curve"].at = "cvGaveUp"
    /\ \/ cfg' = "stock" /\ err' = TRUE /\ snap' = "failed_safe"
       \/ "disk" \in Faults /\ UNCHANGED <<cfg, err, snap>>
    /\ cv' = "FAILED" /\ CurveTo(At("dead")) /\ lock' = "free"
    /\ UNCHANGED <<ec, wd, q, recOk, curveVars, lifeVars, owned>>

CurveStep ==
    \/ CurveTicks \/ CurveLocks \/ CurveHolds \/ CurveApplies \/ CurveFinishes
    \/ CurveGivesUp \/ CurveDisabled
-----------------------------------------------------------------------------
(* _refresh_loop: plain reads, outside the mutation lock.                  *)

RefreshBegins ==
    /\ "refresh" \in Requests /\ ops < MaxOps
    /\ task["refresh"].at = "sleep"
    /\ ops' = ops + 1
    /\ task' = [task EXCEPT !["refresh"] = At("rfRead")]
    /\ UNCHANGED <<ec, cfg, err, wd, cv, snap, lock, q, recOk, curveVars, closing, cap, owned, boots>>

RefreshEnds ==
    /\ Answered("refresh", "rfRead")
    /\ RefreshesAll("refresh")
    /\ task' = [task EXCEPT !["refresh"] = At("sleep")]
    /\ UNCHANGED <<ec, cfg, err, wd, cv, lock, q, recOk, curveVars, closing, ops, boots, owned>>
-----------------------------------------------------------------------------
(* Start-up, shutdown, death and what systemd does then.                   *)

BootRefreshed_NoRestore ==
    /\ Answered("main", "bootRead")
    /\ RefreshesAll("main") /\ owned' = cap'
    /\ task' = [task EXCEPT !["main"] = At("booted")]
    /\ UNCHANGED <<ec, cfg, err, wd, cv, lock, q, recOk, curveVars, closing, ops, boots>>

\* initialize: the first refresh, whatever it gives, then stock auto
\* (_initialize_fan_safety) when the capabilities are known.
BootRefreshed ==
    /\ Answered("main", "bootRead")
    /\ RefreshesAll("main") /\ owned' = cap'
    /\ task' = [task EXCEPT !["main"] = IF cap' THEN Restoring("booted") ELSE At("booted")]
    /\ UNCHANGED <<ec, cfg, err, wd, cv, lock, q, recOk, curveVars, closing, ops, boots>>

\* start_background.
Serve ==
    /\ task["main"].at = "booted"
    /\ cv' = "RUNNING"
    /\ task' = [task EXCEPT !["main"] = At("serving"), !["curve"] = At("sleep"),
                            !["refresh"] = At("sleep")]
    /\ UNCHANGED <<ec, cfg, err, wd, snap, lock, q, recOk, curveVars, lifeVars, owned>>

\* SIGTERM: close admission, then drain the use case that holds the lock.
Shutdown ==
    /\ "stop" \in Requests
    /\ task["main"].at = "serving"
    /\ closing' = TRUE
    /\ task' = [task EXCEPT !["main"] = At("sdLock")]
    /\ UNCHANGED <<ec, cfg, err, wd, cv, snap, lock, q, recOk, curveVars, cap, owned, ops, boots>>

\* stop_all, in reverse registration order: the curve controller first.
ShutdownStopsCurve ==
    /\ task["main"].at = "sdLock" /\ lock = "free"
    /\ lock' = "main" /\ StopCurve("main", "sdCv")
    /\ UNCHANGED <<ec, cfg, err, wd, snap, q, recOk, curveVars, lifeVars, owned>>

\* Then the refresh loop, whose read is abandoned, and the watchdog.
ShutdownStopsRest ==
    /\ task["main"].at = "sdCv"
    /\ cv' = "STOPPED"
    /\ q' = IF q.by = "refresh" THEN [q EXCEPT !.by = "nobody"] ELSE q
    /\ \E stopped \in {[task EXCEPT !["refresh"] = At("dead")]} :
        IF wd \in {"STOPPED", "STOPPING"}
        THEN task' = [stopped EXCEPT !["main"] = At("sdWd")] /\ UNCHANGED wd
        ELSE /\ task' = [stopped EXCEPT !["watchdog"] = At("dead"), !["main"] = Restoring("sdWd")]
             /\ wd' = "STOPPING"
    /\ UNCHANGED <<ec, cfg, err, snap, lock, recOk, curveVars, lifeVars, owned>>

\* The service's own restore, unless the fan is unknown or a recovery pending.
ShutdownRestores ==
    /\ task["main"].at = "sdWd"
    /\ wd' = "STOPPED"
    /\ task' = [task EXCEPT !["main"] = IF Pending \/ ~cap THEN At("sdDrain") ELSE Restoring("sdDrain")]
    /\ UNCHANGED <<ec, cfg, err, cv, snap, lock, q, recOk, curveVars, lifeVars, owned>>

\* The process is gone; a call in the kernel ends with or without effect.
ProcessEnds ==
    /\ task' = [t \in Tasks |-> IF t = "main" THEN At("exited") ELSE At("dead")]
    /\ lock' = "free" /\ q' = IdleQueue
    /\ ec' \in {ec} \cup (IF q.call = "none" THEN {} ELSE {o[2] : o \in Outcomes(q.call)})
    /\ wd' = "STOPPED" /\ cv' = "STOPPED"

\* The recovery is waited for at most 2 s, the queue is shut down.
ShutdownEnds ==
    /\ task["main"].at = "sdDrain"
    /\ ProcessEnds
    /\ UNCHANGED <<cfg, err, snap, recOk, curveVars, lifeVars, owned>>

\* What the process knew, that it was closing included, dies with it.
Crash ==
    /\ "crash" \in Faults
    /\ task["main"].at \notin {"exited", "down"}
    /\ ProcessEnds /\ closing' = FALSE
    /\ UNCHANGED <<cfg, err, snap, recOk, curveVars, cap, ops, boots, owned>>

StopPost_Nothing ==
    /\ task["main"].at = "exited"
    /\ task' = [task EXCEPT !["main"] = At("down")]
    /\ UNCHANGED <<ec, cfg, err, wd, cv, snap, lock, q, recOk, curveVars, lifeVars, owned>>

\* ExecStopPost runs honor-control-service --restore-fan-auto.
StopPost ==
    /\ task["main"].at = "exited"
    /\ \E o \in Outcomes("rescue") : ec' = o[2]
    /\ task' = [task EXCEPT !["main"] = At("down")]
    /\ UNCHANGED <<cfg, err, wd, cv, snap, lock, q, recOk, curveVars, lifeVars, owned>>

\* systemd, or a D-Bus activation, starts the service again.
Boot ==
    /\ task["main"].at = "down" /\ boots < MaxBoots
    /\ boots' = boots + 1 /\ ops' = 0
    /\ task' = ProcessInit
    /\ err' = FALSE /\ snap' = "stock" /\ recOk' = FALSE /\ held' = FALSE /\ failures' = 0
    /\ closing' = FALSE /\ cap' = FALSE /\ owned' = FALSE
    /\ UNCHANGED <<ec, cfg, wd, cv, lock, q>>

MainStep ==
    \/ BootRefreshed \/ Serve \/ ShutdownStopsCurve \/ ShutdownStopsRest
    \/ ShutdownRestores \/ ShutdownEnds \/ StopPost
-----------------------------------------------------------------------------
QueueStep(t) == Admit(t) \/ RejectBusy(t)
RestoreStep(t) == RestoreAnswered(t) \/ RestoreRefreshed(t) \/ RestoreWaited(t)

Next ==
    \/ \E t \in Tasks : QueueStep(t) \/ Timeout(t) \/ RestoreStep(t) \/ CleanupTimeout(t)
    \/ Return \/ RecoveryAnswered \/ RecoveryRefreshed
    \/ \E l \in {"stLock", "cuLock", "maLock", "reLock"} : UseCase(l)
    \/ UserStep
    \/ WatchdogStep \/ CurveStep
    \/ RefreshBegins \/ RefreshEnds
    \/ MainStep \/ Shutdown \/ Crash \/ Boot

Spec == Init /\ [][Next]_vars

\* What a task does without waiting for the outside world.
Runs(t) ==
    \/ QueueStep(t) \/ RestoreStep(t)
    \/ t = "main" /\ MainStep
    \/ t = "user" /\ UserStep
    \/ t = "watchdog" /\ WatchdogStep
    \/ t = "curve" /\ CurveStep
    \/ t = "recovery" /\ (RecoveryAnswered \/ RecoveryRefreshed)

\* The event loop runs every ready task, and asyncio's locks are FIFO: a task
\* that keeps queueing on the mutation lock or the command queue gets it.
\* Every hardware call returns in the end, the watchdog polls, and at one of its
\* polls the deadline has passed.  Timeouts, use cases, refreshes, shutdown and
\* crashes need not happen.
Fairness ==
    /\ \A t \in Tasks \ {"refresh"} : SF_vars(Runs(t))
    /\ WF_vars(Return) /\ SF_vars(WatchdogExpires("wdTemp") \/ WatchdogExpires("wdSpeed"))

LiveSpec == Spec /\ Fairness
-----------------------------------------------------------------------------
(* Properties.                                                             *)

TypeOK ==
    /\ ec \in {"auto", "manual"} /\ cfg \in {"stock", "curve"}
    /\ err \in BOOLEAN /\ recOk \in BOOLEAN /\ held \in BOOLEAN
    /\ closing \in BOOLEAN /\ cap \in BOOLEAN /\ owned \in BOOLEAN
    /\ wd \in {"STOPPED", "STOPPING", "RUNNING", "FAILED"}
    /\ cv \in {"STOPPED", "STOPPING", "RUNNING", "FAILED"}
    /\ snap \in {"stock", "curve", "manual_override", "failed_safe"}
    /\ lock \in Tasks \cup {"free"}
    /\ task \in [Tasks -> Frame]
    /\ q \in [call : Calls \cup {"none", "rescue"}, by : Tasks \cup {"nobody"}, rescue : BOOLEAN]
    /\ failures \in 0..3 /\ ops \in 0..MaxOps /\ boots \in 1..MaxBoots

\* The service is up: initialized, and not yet gone.
Up == task["main"].at \notin {"bootRead", "exited", "down"} /\ task["main"].ret # "booted"

\* A set_fan_auto is reserved in the queue.
RescueReserved == q.rescue \/ q.call = "rescue"

\* Somebody answers for a fan in manual mode: an operation in progress under
\* the mutation lock, a running watchdog, the curve controller, a shutdown that
\* has not yet done its own restore (it makes none when it never learnt of a
\* fan), a restore reserved in the queue, or the failed-safe state.
AnsweredFor ==
    \/ (task["main"].at # "sdDrain" \/ ~cap) /\ (lock # "free" \/ closing)
    \/ wd = "RUNNING" \/ (cv = "RUNNING" /\ cfg = "curve")
    \/ RescueReserved \/ err

\* safety.md, fan fail-safe: the EC is in manual mode only while somebody
\* answers for it.  No sequence of use cases, faults and stops may leave it in
\* manual mode with everybody believing it is not, whether this run of the
\* service put it there or learnt of the fan when it started.
ManualIsGuarded == Up /\ ec = "manual" /\ owned => AnsweredFor

\* Manual mode left behind by a process that crashed, and by an emergency
\* restore that failed, is taken back or answered for before the next run of
\* the service begins to serve, unless its first reads told it of no fan.
InheritedIsGuarded ==
    task["main"].at = "booted" /\ cap /\ ec = "manual" => AnsweredFor

\* With no operation or shutdown in progress and no restore reserved, the mode
\* published never says the firmware owns the fan while the EC is in manual mode.
SnapshotNeverHidesManual ==
    Up /\ ~closing /\ owned /\ ec = "manual" /\ lock = "free" /\ ~RescueReserved => snap # "stock"

\* _fan_restore_pending is backed by a restore that is still to run: otherwise
\* every later use case would be refused for ever.
PendingIsBacked ==
    task["recovery"].at = "rcWait" /\ task["recovery"].st = "none" => RescueReserved

\* A manual override does not outlive its deadline: in the end the EC is in
\* manual mode only for the curve controller.
ManualExpires ==
    <>[](Up /\ ec = "manual" => cfg = "curve" /\ cv = "RUNNING")

\* safety.md:12, "Manual override has a required TTL": once an override is in
\* force, the EC gets back to stock auto, whatever reads time out meanwhile,
\* as long as the hardware answers in the end.
OverrideEnds ==
    wd = "RUNNING" ~> (ec = "auto" \/ ~Up \/ (cfg = "curve" /\ cv = "RUNNING"))

\* A pending restore ends, so the use cases are not refused for ever.
PendingClears == Pending ~> ~Pending

\* Every use case is answered.
UseCasesEnd == task["user"].at # "idle" ~> task["user"].at \in {"idle", "dead"}

\* Whatever it was doing, a stopped or killed service goes away and the fan is
\* the firmware's again, with the help of the emergency restore.
StopRestoresAuto ==
    (closing \/ task["main"].at = "exited") ~> (task["main"].at = "down" /\ ec = "auto")

\* An orderly shutdown of a service that knows its fan leaves stock auto behind
\* or has said it could not.
ShutdownIsHonest ==
    closing /\ cap /\ task["main"].at = "exited" /\ ~err => ec = "auto"
=============================================================================
