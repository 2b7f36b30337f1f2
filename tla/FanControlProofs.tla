-------------------------- MODULE FanControlProofs --------------------------
(***************************************************************************)
(* Proofs about FanControl: who answers for a fan in manual mode, for any  *)
(* number of use cases and runs of the service and any of its faults.      *)
(***************************************************************************)
EXTENDS FanControl, TLAPS

Restores == {"rsWait", "rsAuto", "rsRefresh"}
ManualCalls == {"maMode", "cvMode"}
UseCaseLocks == {"stLock", "cuLock", "maLock", "reLock"}
Stopping == {"sdCv", "sdWd", "sdDrain"}

\* Where each task may be, and where the restores it makes return to.
MainPlaces == {"bootRead", "booted", "serving", "sdLock", "exited", "down"} \cup Stopping
MainReturns == {"booted"} \cup Stopping
UserOutside == {"idle", "dead"} \cup UseCaseLocks
UserPlaces == UserOutside \cup
    {"stCap", "stAuto", "stStopped", "stRefresh", "cuCap", "cuRefresh", "maCap", "maTemp",
     "maStopped", "maMode", "maSpeed", "maFailed", "maRefresh", "reWd", "reCv", "reDone", "reRefresh"}
UserReturns == {"stStopped", "maStopped", "reWd", "reCv", "maFailed", "reDone"}
WatchdogOutside == {"dead", "sleep", "wdPollLock", "wdExpireLock", "wdFaultLock"}
WatchdogPlaces == WatchdogOutside \cup {"wdTemp", "wdSpeed", "wdEnd", "wdFault"}
WatchdogReturns == {"wdEnd", "wdFault"}
CurveOutside == {"dead", "sleep", "cvLock", "cvGiveUpLock"}
CurvePlaces == CurveOutside \cup {"cvTemp", "cvMode", "cvSpeed", "cvApplyFailed", "cvGaveUp"}
CurveReturns == {"cvApplyFailed", "cvGaveUp"}
RefreshPlaces == {"dead", "sleep", "rfRead"}
RecoveryPlaces == {"dead", "idle", "rcWait", "rcRefresh"}

InPlace(f, places, returns) ==
    /\ f \in Frame
    /\ \/ f.at \in places /\ f.ret = "none"
       \/ f.at \in Restores /\ f.ret \in returns
    /\ f.st \in {"want", "sent"} => f.at \in Calls
    /\ f.st \in {"restored", "unrestored"} => f.at \in returns

FramesOK ==
    /\ task \in [Tasks -> Frame]
    /\ InPlace(task["main"], MainPlaces, MainReturns)
    /\ InPlace(task["user"], UserPlaces, UserReturns)
    /\ InPlace(task["watchdog"], WatchdogPlaces, WatchdogReturns)
    /\ InPlace(task["curve"], CurvePlaces, CurveReturns)
    /\ InPlace(task["refresh"], RefreshPlaces, {})
    /\ InPlace(task["recovery"], RecoveryPlaces, {})

\* The queue's entry belongs to the task that waits for it; an abandoned safe
\* call has its recovery behind it.
QueueOK ==
    /\ q \in [call : Calls \cup {"none", "rescue"}, by : Tasks \cup {"nobody"}, rescue : BOOLEAN]
    /\ q.call = "none" => q = IdleQueue
    /\ q.call = "rescue" => q.by = "nobody" /\ ~q.rescue
    /\ q.rescue => q.by = "nobody" /\ q.call \in SafeCalls
    /\ q.call \in SafeCalls /\ q.by = "nobody" => q.rescue
    /\ \A t \in Tasks : task[t].st = "sent" <=> q.by = t
    /\ \A t \in Tasks : q.by = t => q.call = task[t].at

\* Who is inside the mutation lock.
LockOK ==
    /\ lock \in {"free", "main", "user", "watchdog", "curve"}
    /\ lock = "user" <=> task["user"].at \notin UserOutside
    /\ lock = "watchdog" <=> task["watchdog"].at \notin WatchdogOutside
    /\ lock = "curve" <=> task["curve"].at \notin CurveOutside
    /\ lock = "main" <=> task["main"].at \in Stopping \/ task["main"].ret \in Stopping

Booting == task["main"].at \in {"bootRead", "booted"} \/ task["main"].ret = "booted"
Gone == task["main"].at \in {"exited", "down"}

\* What runs at which stage of the process.
LifeOK ==
    /\ wd = "RUNNING" <=> task["watchdog"].at # "dead"
    /\ cv = "RUNNING" <=> task["curve"].at # "dead"
    /\ ~Gone => /\ closing <=> task["main"].at = "sdLock" \/ lock = "main"
                /\ task["recovery"].at # "dead"
    /\ Booting => /\ task["user"].at = "idle" /\ task["refresh"].at = "dead"
                  /\ wd = "STOPPED" /\ cv = "STOPPED"
    /\ Gone => /\ task["user"].at = "dead" /\ task["refresh"].at = "dead" /\ task["recovery"].at = "dead"
               /\ wd = "STOPPED" /\ cv = "STOPPED" /\ q = IdleQueue
    /\ task["main"].at = "sdDrain" \/ task["main"].ret = "sdDrain" =>
           wd # "RUNNING" /\ cv # "RUNNING" /\ task["refresh"].at = "dead"
    /\ task["main"].at = "bootRead" =>
           q.call \in {"none", "bootRead"} /\ task["recovery"].at = "idle"
    /\ Booting /\ task["main"].at # "bootRead" => (cap => owned)
    /\ task["main"].ret = "booted" => task["main"].at # "rsWait"

\* Where supervisor.stop leaves the controllers stopped.
WatchdogStops == {"stStopped", "maStopped", "reWd"}
StopsOK ==
    /\ task["user"].at \in WatchdogStops \/ task["user"].ret \in WatchdogStops => wd # "RUNNING"
    /\ task["user"].at = "reCv" \/ task["user"].ret = "reCv" => cv # "RUNNING"
    /\ lock = "main" => cv # "RUNNING"
    /\ task["main"].at = "sdWd" \/ task["main"].ret = "sdWd" =>
           wd # "RUNNING" /\ task["refresh"].at = "dead"

\* The EC is in manual mode, or may be put there by the call in the queue.
Danger == ec = "manual" \/ q.call \in ManualCalls
\* It is published that stock auto could not be had.
Told == err /\ snap = "failed_safe"
Safe == Danger => Told

Restorers == {"main", "user", "watchdog", "curve"}

RecoveryOK ==
    LET r == task["recovery"] IN
    /\ r.at = "rcWait" => r.st \in {"none", "ok", "bad"}
    /\ r.at = "rcWait" /\ r.st = "none" => RescueReserved
    /\ r.at = "rcWait" => Told
    /\ r.at = "rcWait" /\ r.st = "ok" => ~Danger
    /\ r.at = "rcRefresh" => ~Danger /\ recOk

\* While a recovery is pending nobody but the task whose call it follows is
\* inside the lock with a fan call of its own.
PendingOK ==
    Pending =>
        /\ \A t \in Restorers :
               /\ task[t].at = "rsAuto" => task[t].st = "timeout"
               /\ task[t].at # "rsRefresh" /\ task[t].st # "restored"
        /\ lock = "user" =>
               \/ task["user"].at \in {"maMode", "maSpeed"} /\ task["user"].st = "timeout"
               \/ task["user"].at = "rsAuto" /\ task["user"].ret \in {"maFailed", "reDone"}
               \/ task["user"].at \in {"maFailed", "reDone", "reRefresh"}
        /\ task["curve"].at \in {"cvTemp", "cvMode", "cvSpeed"} => task["curve"].st = "timeout"

\* Places that are only reached out of a restore.
AfterRestore == {"maFailed", "reDone", "wdEnd", "wdFault", "cvApplyFailed", "cvGaveUp"}

\* What a restore has come to.
RestoreOK ==
    \A t \in Restorers :
        /\ task[t].at \in AfterRestore => task[t].st \in {"restored", "unrestored"}
        /\ task[t].at = "rsAuto" /\ task[t].st = "ok" => ~Danger
        /\ task[t].at = "rsAuto" /\ task[t].st = "timeout" /\ task[t].ret \notin CleanupLabels => Safe
        /\ task[t].at = "rsRefresh" => ~Danger
        /\ task[t].at = "rsWait" => Pending \/ (IF recOk THEN ~Danger ELSE Safe)
        /\ task[t].st = "restored" => ~Danger
        /\ task[t].st = "unrestored" /\ task[t].at \notin CleanupLabels => Safe

\* What the use cases, the controllers and the main task know of the fan.
PlaceOK ==
    /\ task["user"].at = "stAuto" /\ task["user"].st = "ok" => ~Danger
    /\ task["user"].at \in {"stStopped", "stRefresh"} \/ task["user"].ret = "stStopped" => ~Danger
    /\ task["user"].at \in {"maMode", "maSpeed"} /\ task["user"].st = "timeout" => Safe
    /\ task["user"].at = "cuRefresh" => cfg = "curve" /\ cv = "RUNNING"
    /\ task["curve"].at \in {"cvMode", "cvSpeed"} /\ task["curve"].st = "timeout" => Safe
    /\ lock = "curve" => \/ cfg = "curve"
                         \/ task["curve"].at = "cvGaveUp" \/ task["curve"].ret = "cvGaveUp"
    /\ task["main"].at = "sdDrain" /\ cap => Safe

\* The places inside the lock where nothing has been done to the fan yet, or
\* everything is done.
AtRest ==
    \/ lock = "free"
    \/ task["user"].at \in {"stCap", "stAuto", "cuCap", "cuRefresh", "maCap", "maTemp", "reRefresh"}
    \/ task["watchdog"].at \in {"wdTemp", "wdSpeed"}
    \/ task["curve"].at = "cvTemp"

\* Manual mode is not hidden, and an error, a watchdog or the curve covers it.
Covered ==
    Danger => /\ snap # "stock"
              /\ err \/ wd = "RUNNING" \/ (cv = "RUNNING" /\ cfg = "curve")

GuardOK == Up /\ ~closing /\ AtRest /\ owned => Covered

IInv ==
    /\ FramesOK /\ QueueOK /\ LockOK /\ LifeOK /\ StopsOK
    /\ RecoveryOK /\ PendingOK /\ RestoreOK /\ PlaceOK /\ GuardOK
-----------------------------------------------------------------------------
(* Frames and labels.                                                      *)

\* Arriving at a label.
LEMMA Arrives ==
  \A l \in Labels :
    /\ At(l) \in Frame /\ At(l).at = l /\ At(l).ret = "none"
    /\ At(l).st = IF l \in Calls THEN "want" ELSE "none"
  BY DEF At, Frame, Labels

\* Entering a restore, and what its end gives the task.
LEMMA Restarts ==
  \A r \in Labels :
    /\ Restoring(r) \in Frame /\ Restoring(r).ret = r
    /\ Restoring(r).at = IF Pending THEN "rsWait" ELSE "rsAuto"
    /\ Restoring(r).st = IF Pending THEN "none" ELSE "want"
  BY DEF Restoring, At, Frame, Labels, Calls, SafeCalls, PlainCalls, CleanupLabels

LEMMA Returning ==
  ASSUME NEW t \in Tasks, task[t] \in Frame, NEW r \in {"restored", "unrestored"}
  PROVE  /\ Back(t, r) \in Frame /\ Back(t, r).at = task[t].ret
         /\ Back(t, r).ret = "none" /\ Back(t, r).st = r
  BY DEF Back, Frame, Labels

\* The places of every task, and which of them are calls.
LEMMA PlacesAreLabels ==
  /\ MainPlaces \subseteq Labels /\ MainReturns \subseteq MainPlaces
  /\ UserPlaces \subseteq Labels /\ UserReturns \subseteq UserPlaces
  /\ WatchdogPlaces \subseteq Labels /\ WatchdogReturns \subseteq WatchdogPlaces
  /\ CurvePlaces \subseteq Labels /\ CurveReturns \subseteq CurvePlaces
  /\ RefreshPlaces \subseteq Labels /\ RecoveryPlaces \subseteq Labels
  BY DEF MainPlaces, MainReturns, UserPlaces, UserReturns, WatchdogPlaces, WatchdogReturns,
         CurvePlaces, CurveReturns, RefreshPlaces, RecoveryPlaces, Stopping, UserOutside,
         UseCaseLocks, WatchdogOutside, CurveOutside, Labels, Calls, SafeCalls, PlainCalls, CleanupLabels

\* One task moves, the others stay.
LEMMA OneMoves ==
  ASSUME task \in [Tasks -> Frame], NEW t \in Tasks, NEW f \in Frame,
         task' = [task EXCEPT ![t] = f]
  PROVE  /\ task' \in [Tasks -> Frame] /\ task'[t] = f
         /\ \A u \in Tasks \ {t} : task'[u] = task[u]
  OBVIOUS

\* A frame is still in place after its call is answered.
LEMMA StateChanges ==
  ASSUME NEW f \in Frame, NEW places, NEW returns, InPlace(f, places, returns),
         NEW v \in {"sent", "ok", "bad", "hot", "busy", "timeout"}, v = "sent" => f.at \in Calls
  PROVE  /\ [f EXCEPT !.st = v].at = f.at /\ [f EXCEPT !.st = v].ret = f.ret
         /\ [f EXCEPT !.st = v].st = v
         /\ InPlace([f EXCEPT !.st = v], places, returns)
  BY DEF InPlace, Frame

\* What does not change as long as its variables do not.
LEMMA Still ==
  /\ UNCHANGED <<ec, q>> => (Danger' <=> Danger)
  /\ UNCHANGED q => (RescueReserved' <=> RescueReserved) /\ (Poisoned' <=> Poisoned)
  /\ UNCHANGED <<ec, q, err, snap>> => (Safe' <=> Safe)
  /\ task'["recovery"] = task["recovery"] => (Pending' <=> Pending)
  /\ task'["main"] = task["main"] => (Up' <=> Up) /\ (Booting' <=> Booting) /\ (Gone' <=> Gone)
  BY DEF Danger, RescueReserved, Poisoned, Safe, Told, Pending, Up, Booting, Gone

\* What a task does in a step: it goes on to a place or to a call, or enters
\* or leaves a restore.
Goes(t, l) == task'[t].at = l /\ task'[t].ret = "none" /\ task'[t].st = "none"
Asks(t, l) == task'[t].at = l /\ task'[t].ret = "none" /\ task'[t].st = "want"
Restarted(t, r) ==
    /\ task'[t].ret = r
    /\ \/ Pending /\ task'[t].at = "rsWait" /\ task'[t].st = "none"
       \/ ~Pending /\ task'[t].at = "rsAuto" /\ task'[t].st = "want"

LEMMA TaskGoes ==
  ASSUME NEW t, NEW l \in Labels, l \notin Calls, task'[t] = At(l)
  PROVE  Goes(t, l)
  BY Arrives DEF Goes

LEMMA TaskAsks ==
  ASSUME NEW t, NEW l \in Calls, task'[t] = At(l)
  PROVE  Asks(t, l)
  BY Arrives DEF Asks, Labels

LEMMA TaskRestarts ==
  ASSUME NEW t, NEW r \in Labels, task'[t] = Restoring(r)
  PROVE  Restarted(t, r)
  BY Restarts DEF Restarted
-----------------------------------------------------------------------------
(* Inside and outside the mutation lock.                                   *)

\* A task that is outside waits for nothing and restores nothing.
Rests(t) ==
    /\ task[t].at \notin Calls /\ task[t].at \notin Restores /\ task[t].ret = "none"
    /\ task[t].st \notin {"want", "sent", "restored", "unrestored"}

LEMMA OutsideRests ==
  ASSUME IInv
  PROVE  /\ lock # "user" => Rests("user") /\ task["user"].at \in UserOutside
         /\ lock # "watchdog" => Rests("watchdog") /\ task["watchdog"].at \in WatchdogOutside
         /\ lock # "curve" => Rests("curve") /\ task["curve"].at \in CurveOutside
         /\ lock # "main" /\ ~Booting => Rests("main") /\ task["main"].at \notin Stopping
  <1> USE DEF IInv, FramesOK, LockOK, InPlace, Rests, Restores, Calls, SafeCalls, PlainCalls
  <1>1. lock # "user" => Rests("user") /\ task["user"].at \in UserOutside
    BY DEF UserOutside, UserReturns, UseCaseLocks
  <1>2. lock # "watchdog" => Rests("watchdog") /\ task["watchdog"].at \in WatchdogOutside
    BY DEF WatchdogOutside, WatchdogReturns
  <1>3. lock # "curve" => Rests("curve") /\ task["curve"].at \in CurveOutside
    BY DEF CurveOutside, CurveReturns
  <1>4. lock # "main" /\ ~Booting => Rests("main") /\ task["main"].at \notin Stopping
    BY DEF Stopping, MainReturns, MainPlaces, Booting
  <1> QED
    BY <1>1, <1>2, <1>3, <1>4

\* Whoever is inside, the service is up.
LEMMA InsideServes ==
  ASSUME IInv, lock \in {"user", "watchdog", "curve"}
  PROVE  /\ ~Booting /\ ~Gone /\ Up /\ task["main"].at # "bootRead"
         /\ task["main"].at # "sdDrain" /\ task["main"].ret = "none"
  BY OutsideRests DEF IInv, LockOK, LifeOK, UserOutside, WatchdogOutside, CurveOutside, Up, Booting,
       Gone, Rests, Stopping

\* A step that leaves the queue and every outstanding call alone.
LEMMA QueueStays ==
  ASSUME QueueOK, UNCHANGED q,
         \A t \in Tasks : task'[t] = task[t] \/ (task[t].st # "sent" /\ task'[t].st # "sent")
  PROVE  QueueOK'
  BY DEF QueueOK, IdleQueue

\* A step that leaves the recovery and its grounds alone.
LEMMA RecoveryStays ==
  ASSUME RecoveryOK, task'["recovery"] = task["recovery"], UNCHANGED <<ec, q, recOk>>,
         Told /\ Pending => Told'
  PROVE  RecoveryOK'
  BY Still DEF RecoveryOK, Pending
-----------------------------------------------------------------------------
(* The use cases.                                                          *)

\* A controller stays where it is, or the holder of the lock ends or starts it.
Kept(t) == task'[t] = task[t] \/ Goes(t, "dead") \/ Goes(t, "sleep")

\* The structure of a step of the use case.
LEMMA UserStepShape ==
  ASSUME IInv, lock \in {"free", "user"}, ~Booting, ~Gone,
         task' \in [Tasks -> Frame], task'["main"] = task["main"],
         task'["refresh"] = task["refresh"], task'["recovery"] = task["recovery"],
         InPlace(task'["user"], UserPlaces, UserReturns),
         task["user"].st # "sent", task'["user"].st # "sent",
         lock' = (IF task'["user"].at \in UserOutside THEN "free" ELSE "user"),
         Kept("watchdog"), wd' = "RUNNING" <=> task'["watchdog"].at # "dead",
         Kept("curve"), cv' = "RUNNING" <=> task'["curve"].at # "dead",
         UNCHANGED <<q, closing, owned>>
  PROVE  FramesOK' /\ QueueOK' /\ LockOK' /\ LifeOK'
<1>1. task["watchdog"].at \in WatchdogOutside /\ task["curve"].at \in CurveOutside
  BY OutsideRests
<1>2. task["watchdog"].st # "sent" /\ task["curve"].st # "sent" /\ task["main"].at \notin Stopping
      /\ task["main"].ret \notin Stopping
  BY OutsideRests DEF Rests, Stopping
<1>3. FramesOK'
  <2>1. /\ task'["watchdog"] \in Frame /\ task'["curve"] \in Frame
    BY DEF Tasks
  <2>2. InPlace(task'["watchdog"], WatchdogPlaces, WatchdogReturns)
    BY <2>1 DEF IInv, FramesOK, Kept, Goes, InPlace, WatchdogPlaces, WatchdogOutside
  <2>3. InPlace(task'["curve"], CurvePlaces, CurveReturns)
    BY <2>1 DEF IInv, FramesOK, Kept, Goes, InPlace, CurvePlaces, CurveOutside
  <2> QED
    BY <2>2, <2>3 DEF IInv, FramesOK
<1>4. QueueOK'
  <2>1. \A t \in Tasks : task'[t] = task[t] \/ (task[t].st # "sent" /\ task'[t].st # "sent")
    BY <1>2 DEF Tasks, Kept, Goes
  <2> QED
    BY <2>1, QueueStays DEF IInv
<1>5. LockOK'
  BY <1>1, <1>2 DEF IInv, LockOK, Kept, Goes, WatchdogOutside, CurveOutside
<1>6. LifeOK'
  BY <1>2, Still DEF IInv, LifeOK, LockOK, Booting, Gone, Stopping
<1> QED
  BY <1>3, <1>4, <1>5, <1>6

\* While the use case is inside, only its own restore is of interest.
LEMMA UserStepRestores ==
  ASSUME IInv, lock \in {"free", "user"}, ~Booting,
         task'["main"] = task["main"], task'["recovery"] = task["recovery"],
         Kept("watchdog"), Kept("curve"), UNCHANGED <<ec, q, recOk>>,
         task'["user"].at = "rsAuto" => task'["user"].st = "want" /\ ~Pending,
         task'["user"].at = "rsWait" => Pending,
         task'["user"].at \notin AfterRestore,
         task'["user"].at # "rsRefresh", task'["user"].st \notin {"restored", "unrestored"},
         Pending => \/ task'["user"].at \in UserOutside
                    \/ task'["user"].at = "reRefresh",
         lock' = (IF task'["user"].at \in UserOutside THEN "free" ELSE "user")
  PROVE  PendingOK' /\ RestoreOK'
<1>1. Rests("watchdog") /\ Rests("curve") /\ Rests("main") /\ task["curve"].at \in CurveOutside
  BY OutsideRests
<1>2. \A t \in {"main", "watchdog", "curve"} :
          task'[t].at \notin Restores /\ task'[t].st \notin {"restored", "unrestored"}
          /\ task'[t].at \notin AfterRestore
  BY <1>1 DEF Rests, Kept, Goes, Restores, AfterRestore, IInv, RestoreOK, Restorers
<1>3. task'["curve"].at \notin {"cvTemp", "cvMode", "cvSpeed"}
  BY <1>1 DEF Kept, Goes, CurveOutside
<1>4. PendingOK'
  BY <1>2, <1>3, Still DEF PendingOK, Restorers, Restores
<1>5. RestoreOK'
  BY <1>2, Still DEF RestoreOK, Restorers, Restores
<1> QED
  BY <1>4, <1>5

\* Where a use case can go.
LEMMA UserInPlace ==
  ASSUME task' \in [Tasks -> Frame],
         \/ \E l \in UserPlaces \ Calls : Goes("user", l)
         \/ \E l \in UserPlaces \cap Calls : Asks("user", l)
         \/ \E r \in UserReturns : Restarted("user", r)
  PROVE  InPlace(task'["user"], UserPlaces, UserReturns) /\ task'["user"].st # "sent"
  BY DEF InPlace, Goes, Asks, Restarted, Restores, Calls, SafeCalls, Tasks

\* Where a use case has the fan in hand.
InHand == {"stStopped", "stRefresh", "maStopped", "maMode", "maSpeed", "maRefresh", "maFailed",
           "reWd", "reCv", "reDone"}

\* The use case goes on, inside the lock or to its end, and may start or leave
\* alone a controller.
LEMMA UserMoves ==
  ASSUME IInv, lock \in {"free", "user"}, ~Booting, ~Gone, task["user"].st # "sent",
         NEW l \in UserPlaces \ AfterRestore, task' \in [Tasks -> Frame], task'["user"] = At(l),
         task'["main"] = task["main"], task'["refresh"] = task["refresh"],
         task'["recovery"] = task["recovery"], Kept("watchdog"), Kept("curve"),
         wd' = "RUNNING" <=> task'["watchdog"].at # "dead",
         cv' = "RUNNING" <=> task'["curve"].at # "dead",
         lock' = (IF l \in UserOutside THEN "free" ELSE "user"),
         UNCHANGED <<ec, q, recOk, closing, owned>>,
         Told /\ Pending => Told',
         Pending => l \in UserOutside \/ l = "reRefresh",
         l \in {"stStopped", "stRefresh"} => ~Danger,
         l \in WatchdogStops => wd' # "RUNNING", l = "reCv" => cv' # "RUNNING",
         l = "cuRefresh" => cfg' = "curve" /\ cv' = "RUNNING",
         owned /\ ~closing /\ l \notin InHand => Covered'
  PROVE  IInv'
<1>1. l \in Labels
  BY PlacesAreLabels
<1>3. /\ task'["user"].at = l /\ task'["user"].ret = "none"
      /\ task'["user"].st = IF l \in Calls THEN "want" ELSE "none"
  BY <1>1, Arrives
<1>4. InPlace(task'["user"], UserPlaces, UserReturns) /\ task'["user"].st # "sent"
  BY <1>3, UserInPlace DEF Goes, Asks
<1>5. l \notin Restores
  BY DEF UserPlaces, UserOutside, UseCaseLocks, Restores
<1>6. FramesOK' /\ QueueOK' /\ LockOK' /\ LifeOK'
  BY <1>3, <1>4, UserStepShape
<1>7. RecoveryOK'
  BY RecoveryStays DEF IInv
<1>8. PendingOK' /\ RestoreOK'
  BY <1>3, <1>5, UserStepRestores DEF Restores
<1>9. PlaceOK'
  <2>1. task'["curve"].at \in CurveOutside
    BY OutsideRests DEF Kept, Goes, CurveOutside
  <2> QED
    BY <1>3, <1>6, <2>1, Still, OutsideRests DEF PlaceOK, LockOK, Stopping, CurveOutside
<1>10. GuardOK'
  BY <1>3, <1>6, Still
  DEF GuardOK, AtRest, LockOK, UserOutside, UseCaseLocks, WatchdogOutside, CurveOutside, InHand
<1>11. StopsOK'
  <2>1. task'["main"].at # "sdWd" /\ task'["main"].ret # "sdWd" /\ lock' # "main"
    BY OutsideRests DEF Rests, Stopping
  <2> QED
    BY <1>3, <2>1 DEF StopsOK, WatchdogStops
<1> QED
  BY <1>6, <1>7, <1>8, <1>9, <1>10, <1>11 DEF IInv

\* The use case goes on by itself.
LEMMA UserGoesOn ==
  ASSUME IInv, lock \in {"free", "user"}, ~Booting, ~Gone, task["user"].st # "sent",
         NEW l \in UserPlaces \ AfterRestore, task' = [task EXCEPT !["user"] = At(l)],
         lock' = (IF l \in UserOutside THEN "free" ELSE "user"),
         UNCHANGED <<ec, q, recOk, closing, owned>>,
         wd' = "RUNNING" <=> wd = "RUNNING", cv' = "RUNNING" <=> cv = "RUNNING",
         Told /\ Pending => Told',
         Pending => l \in UserOutside \/ l = "reRefresh",
         l \in {"stStopped", "stRefresh"} => ~Danger,
         l \in WatchdogStops => wd' # "RUNNING", l = "reCv" => cv' # "RUNNING",
         l = "cuRefresh" => cfg' = "curve" /\ cv' = "RUNNING",
         owned /\ ~closing /\ l \notin InHand => Covered'
  PROVE  IInv'
<1>1. task \in [Tasks -> Frame] /\ At(l) \in Frame
  BY PlacesAreLabels, Arrives DEF IInv, FramesOK
<1>2. /\ task' \in [Tasks -> Frame] /\ task'["user"] = At(l)
      /\ task'["main"] = task["main"] /\ task'["watchdog"] = task["watchdog"]
      /\ task'["curve"] = task["curve"]
      /\ task'["refresh"] = task["refresh"] /\ task'["recovery"] = task["recovery"]
  BY <1>1 DEF Tasks
<1>3. Kept("watchdog") /\ Kept("curve") /\ (wd' = "RUNNING" <=> task'["watchdog"].at # "dead")
      /\ (cv' = "RUNNING" <=> task'["curve"].at # "dead")
  BY <1>2 DEF Kept, IInv, LifeOK
<1> QED
  BY <1>2, <1>3, UserMoves


\* The use case enters a restore, and may end or leave alone a controller.
LEMMA UserEntersRestore ==
  ASSUME IInv, lock \in {"free", "user"}, lock' = "user", ~Booting, ~Gone,
         task["user"].st # "sent", ~Pending,
         NEW r \in UserReturns, task' \in [Tasks -> Frame], task'["user"] = Restoring(r),
         task'["main"] = task["main"], task'["refresh"] = task["refresh"],
         task'["recovery"] = task["recovery"], Kept("watchdog"), Kept("curve"),
         wd' = "RUNNING" <=> task'["watchdog"].at # "dead",
         cv' = "RUNNING" <=> task'["curve"].at # "dead",
         UNCHANGED <<ec, q, recOk, closing, owned>>,
         r \in WatchdogStops => wd' # "RUNNING", r = "reCv" => cv' # "RUNNING",
         r = "stStopped" => ~Danger
  PROVE  IInv'
<1>1. r \in Labels
  BY PlacesAreLabels DEF UserPlaces, UserReturns
<1>2. Restarted("user", r) /\ task'["user"].at = "rsAuto" /\ task'["user"].st = "want"
      /\ task'["user"].ret = r
  BY <1>1, TaskRestarts DEF Restarted
<1>3. InPlace(task'["user"], UserPlaces, UserReturns) /\ task'["user"].st # "sent"
  BY <1>2, UserInPlace
<1>4. FramesOK' /\ QueueOK' /\ LockOK' /\ LifeOK'
  BY <1>1, <1>2, <1>3, UserStepShape DEF UserOutside, UseCaseLocks
<1>5. RecoveryOK'
  BY RecoveryStays DEF IInv
<1>6. PendingOK' /\ RestoreOK'
  BY <1>1, <1>2, UserStepRestores DEF UserOutside, UseCaseLocks, AfterRestore
<1>7. PlaceOK'
  BY <1>2, <1>4, Still DEF PlaceOK, LockOK, Stopping, CurveOutside
<1>8. GuardOK'
  BY <1>2, <1>4 DEF GuardOK, AtRest, LockOK, WatchdogOutside, CurveOutside
<1>9. StopsOK'
  <2>1. task'["user"].at \notin WatchdogStops /\ task'["user"].at # "reCv" /\ lock' # "main"
    BY <1>2 DEF WatchdogStops
  <2>2. task'["main"].at # "sdWd" /\ task'["main"].ret # "sdWd"
    BY OutsideRests DEF Rests, Stopping
  <2> QED
    BY <1>2, <2>1, <2>2 DEF StopsOK
<1> QED
  BY <1>4, <1>5, <1>6, <1>7, <1>8, <1>9 DEF IInv

\* Inside the lock at a place that no call left, the use case has no call out.
LEMMA UserInside ==
  ASSUME IInv, task["user"].at \notin UserOutside
  PROVE  /\ lock = "user" /\ ~Booting /\ ~Gone /\ task \in [Tasks -> Frame]
         /\ task["user"].at \notin Calls => task["user"].st # "sent"
         /\ Pending => \/ task["user"].at \in {"maMode", "maSpeed"} /\ task["user"].st = "timeout"
                       \/ task["user"].at = "rsAuto"
                       \/ task["user"].at \in {"maFailed", "reDone", "reRefresh"}
         /\ owned /\ ~closing /\ task["user"].at \in {"stCap", "stAuto", "cuCap", "cuRefresh", "maCap",
                                                   "maTemp", "reRefresh"} => Covered
  BY InsideServes DEF IInv, LockOK, FramesOK, InPlace, PendingOK, GuardOK, AtRest

LEMMA UserEntering ==
  ASSUME IInv, task["user"].at \in UseCaseLocks, lock = "free"
  PROVE  /\ ~Booting /\ ~Gone /\ task["user"].st # "sent" /\ task \in [Tasks -> Frame]
         /\ owned /\ ~closing => Covered
  BY OutsideRests DEF IInv, LifeOK, UseCaseLocks, FramesOK, GuardOK, AtRest, Up, Booting, Gone, Rests

\* An error published remains published by a refresh, and what is covered
\* remains covered.
LEMMA RefreshCovers ==
  ASSUME NEW t, snap' = Refreshed(t), UNCHANGED <<ec, q, err, wd, cv, cfg>>
  PROVE  (Told => Told') /\ (Covered => Covered') /\ (Safe => Safe')
  BY Still DEF Refreshed, ObservedMode, Told, Covered, Safe

LEMMA KeepsUserEnters ==
  ASSUME IInv, NEW l \in UseCaseLocks, NEW first \in {"stCap", "cuCap", "maCap"}, UserEnters(l, first)
  PROVE  IInv'
<1>1. /\ task["user"].at = l /\ lock = "free"
      /\ UNCHANGED <<ec, cfg, err, wd, cv, snap, q, recOk, closing, cap, owned>>
  BY DEF UserEnters, lifeVars
<1>2. ~Booting /\ ~Gone /\ task["user"].st # "sent" /\ (owned /\ ~closing => Covered)
  BY <1>1, UserEntering
<1>3. Covered' <=> Covered
  BY <1>1, Still DEF Covered
<1>4. CASE task' = [task EXCEPT !["user"] = At("idle")] /\ UNCHANGED lock
  BY <1>1, <1>2, <1>3, <1>4, UserGoesOn DEF WatchdogStops, InHand, AfterRestore, UserPlaces, UserOutside, Told
<1>5. CASE ~Pending /\ task' = [task EXCEPT !["user"] = At(first)] /\ lock' = "user"
  BY <1>1, <1>2, <1>3, <1>5, UserGoesOn DEF WatchdogStops, InHand, AfterRestore, UserPlaces, UserOutside, UseCaseLocks, Told
<1> QED
  BY <1>4, <1>5 DEF UserEnters

LEMMA KeepsUserContinues ==
  ASSUME IInv, NEW l \in {"stCap", "maCap"}, NEW next \in {"stAuto", "maTemp"}, UserContinues(l, next)
  PROVE  IInv'
<1>1. /\ task["user"].at = l /\ task["user"].st # "sent"
      /\ UNCHANGED <<ec, cfg, err, wd, cv, snap, q, recOk, closing, cap, owned>>
  BY DEF UserContinues, Answered, lifeVars
<1>2. lock = "user" /\ ~Booting /\ ~Gone /\ ~Pending /\ (owned /\ ~closing => Covered)
  BY <1>1, UserInside DEF UserOutside, UseCaseLocks
<1>3. Covered' <=> Covered
  BY <1>1, Still DEF Covered
<1>4. CASE task' = [task EXCEPT !["user"] = At(next)] /\ UNCHANGED lock
  BY <1>1, <1>2, <1>3, <1>4, UserGoesOn DEF WatchdogStops, InHand, AfterRestore, UserPlaces, UserOutside, UseCaseLocks, Told
<1>5. CASE UserEnds
  BY <1>1, <1>2, <1>3, <1>5, UserGoesOn DEF WatchdogStops, InHand, AfterRestore, UserPlaces, UserOutside, UserEnds, Told
<1> QED
  BY <1>4, <1>5 DEF UserContinues

LEMMA KeepsUserRefreshes ==
  ASSUME IInv, NEW l \in {"stRefresh", "cuRefresh"}, UserRefreshes(l)
  PROVE  IInv'
<1>1. /\ task["user"].at = l /\ task["user"].st # "sent" /\ snap' = Refreshed("user")
      /\ UNCHANGED <<ec, cfg, err, wd, cv, q, recOk, closing, cap, owned>>
  BY DEF UserRefreshes, Answered, lifeVars
<1>2. lock = "user" /\ ~Booting /\ ~Gone /\ ~Pending
  BY <1>1, UserInside DEF UserOutside, UseCaseLocks
<1>3. owned /\ ~closing => Covered'
  <2>1. CASE l = "stRefresh"
    BY <1>1, <2>1, Still DEF IInv, PlaceOK, Covered
  <2>2. CASE l = "cuRefresh"
    BY <1>1, <2>2, UserInside, RefreshCovers DEF UserOutside, UseCaseLocks
  <2> QED
    BY <2>1, <2>2
<1> QED
  BY <1>1, <1>2, <1>3, UserGoesOn DEF WatchdogStops, InHand, AfterRestore, UserPlaces, UserOutside, UserRefreshes, UserEnds

\* A step in which the use case has the watchdog stopped.
LEMMA UserStopsWatchdog ==
  ASSUME IInv, lock \in {"free", "user"}, ~Booting, ~Gone, task["user"].st # "sent", ~Pending,
         NEW r \in WatchdogStops, StopWatchdog("user", r), lock' = "user",
         UNCHANGED <<ec, q, recOk, closing, owned, cv>>, r = "stStopped" => ~Danger
  PROVE  IInv'
<1>1. r \in UserPlaces \ AfterRestore /\ r \in UserReturns /\ r \notin UserOutside /\ r \in InHand
      /\ r \notin {"stRefresh", "reCv", "cuRefresh"}
  BY DEF WatchdogStops, AfterRestore, UserPlaces, UserReturns, UserOutside, UseCaseLocks, InHand, AfterRestore
<1>2. CASE wd \in {"STOPPED", "STOPPING"}
  <2>1. task' = [task EXCEPT !["user"] = At(r)] /\ UNCHANGED wd
    BY <1>2 DEF StopWatchdog
  <2> QED
    BY <1>1, <1>2, <2>1, UserGoesOn
<1>3. CASE wd \notin {"STOPPED", "STOPPING"}
  <2>1. /\ task' = [task EXCEPT !["watchdog"] = At("dead"), !["user"] = Restoring(r)]
        /\ wd' = "STOPPING"
    BY <1>3 DEF StopWatchdog
  <2>2. At("dead") \in Frame /\ Restoring(r) \in Frame /\ task \in [Tasks -> Frame]
    BY <1>1, Arrives, Restarts, PlacesAreLabels DEF IInv, FramesOK, Labels
  <2>3. /\ task' \in [Tasks -> Frame] /\ task'["user"] = Restoring(r) /\ task'["watchdog"] = At("dead")
        /\ task'["main"] = task["main"] /\ task'["curve"] = task["curve"]
        /\ task'["refresh"] = task["refresh"] /\ task'["recovery"] = task["recovery"]
    BY <2>1, <2>2 DEF Tasks
  <2>4. Goes("watchdog", "dead")
    BY <2>3, TaskGoes DEF Labels, Calls, SafeCalls, PlainCalls
  <2>5. /\ Kept("watchdog") /\ Kept("curve") /\ (wd' = "RUNNING" <=> task'["watchdog"].at # "dead")
        /\ (cv' = "RUNNING" <=> task'["curve"].at # "dead")
    BY <2>1, <2>3, <2>4 DEF Kept, Goes, IInv, LifeOK
  <2> QED
    BY <1>1, <2>1, <2>3, <2>5, UserEntersRestore
<1> QED
  BY <1>2, <1>3

\* A step in which the use case has the curve controller running.
LEMMA UserStartsCurve ==
  ASSUME IInv, lock \in {"free", "user"}, ~Booting, ~Gone, task["user"].st # "sent", ~Pending,
         NEW l \in {"cuRefresh", "reRefresh"}, StartCurve("user", l), lock' = "user",
         UNCHANGED <<ec, q, err, snap, recOk, closing, owned, wd>>, cfg' = "curve",
         owned /\ ~closing => Covered
  PROVE  IInv'
<1>1. l \in UserPlaces \ AfterRestore /\ l \notin UserOutside /\ l \notin WatchdogStops /\ l \in Calls
      /\ l \notin {"stStopped", "stRefresh", "reCv"}
  BY DEF WatchdogStops, AfterRestore, UserPlaces, UserOutside, UseCaseLocks, Calls, PlainCalls
<1>2. cv' = "RUNNING"
  BY DEF StartCurve
<1>3. owned /\ ~closing => Covered'
  BY <1>2, Still DEF Covered
<1>4. CASE cv = "RUNNING"
  <2>1. task' = [task EXCEPT !["user"] = At(l)] /\ UNCHANGED cv
    BY <1>4 DEF StartCurve
  <2> QED
    BY <1>1, <1>2, <1>3, <2>1, UserGoesOn
<1>5. CASE cv # "RUNNING"
  <2>1. task' = [task EXCEPT !["user"] = At(l), !["curve"] = At("sleep")]
    BY <1>5 DEF StartCurve
  <2>2. At("sleep") \in Frame /\ At(l) \in Frame /\ task \in [Tasks -> Frame]
    BY <1>1, Arrives, PlacesAreLabels DEF IInv, FramesOK, Labels
  <2>3. /\ task' \in [Tasks -> Frame] /\ task'["user"] = At(l) /\ task'["curve"] = At("sleep")
        /\ task'["main"] = task["main"] /\ task'["watchdog"] = task["watchdog"]
        /\ task'["refresh"] = task["refresh"] /\ task'["recovery"] = task["recovery"]
    BY <2>1, <2>2 DEF Tasks
  <2>4. Goes("curve", "sleep")
    BY <2>3, TaskGoes DEF Labels, Calls, SafeCalls, PlainCalls
  <2>5. /\ Kept("watchdog") /\ Kept("curve") /\ (wd' = "RUNNING" <=> task'["watchdog"].at # "dead")
        /\ (cv' = "RUNNING" <=> task'["curve"].at # "dead")
    BY <1>2, <2>3, <2>4 DEF Kept, Goes, IInv, LifeOK
  <2> QED
    BY <1>1, <1>2, <1>3, <2>3, <2>5, UserMoves
<1> QED
  BY <1>4, <1>5

LEMMA KeepsStockVerified ==
  ASSUME IInv, StockVerified
  PROVE  IInv'
<1>1. /\ task["user"].at = "stAuto" /\ task["user"].st # "sent"
      /\ UNCHANGED <<ec, cfg, cv, snap, q, recOk, closing, cap, owned>>
  BY DEF StockVerified, Answered, lifeVars
<1>2. lock = "user" /\ ~Booting /\ ~Gone /\ ~Pending /\ (owned /\ ~closing => Covered)
  BY <1>1, UserInside DEF UserOutside, UseCaseLocks
<1>3. CASE task["user"].st = "ok"
  <2>1. StopWatchdog("user", "stStopped") /\ UNCHANGED lock
    BY <1>3 DEF StockVerified
  <2>2. ~Danger
    BY <1>1, <1>3 DEF IInv, PlaceOK
  <2> QED
    BY <1>1, <1>2, <2>1, <2>2, UserStopsWatchdog DEF WatchdogStops
<1>4. CASE task["user"].st # "ok"
  <2>1. task' = [task EXCEPT !["user"] = At("idle")] /\ lock' = "free" /\ UNCHANGED <<err, wd>>
    BY <1>4 DEF StockVerified, UserEnds
  <2>2. Covered' <=> Covered
    BY <1>1, <2>1, Still DEF Covered
  <2> QED
    BY <1>1, <1>2, <2>1, <2>2, UserGoesOn DEF WatchdogStops, InHand, AfterRestore, UserPlaces, UserOutside, Told
<1> QED
  BY <1>3, <1>4

LEMMA KeepsStockSaves ==
  ASSUME IInv, StockSaves
  PROVE  IInv'
<1>1. /\ task["user"].at = "stStopped" /\ wd' = "STOPPED"
      /\ UNCHANGED <<ec, cv, snap, q, recOk, closing, cap, owned>>
  BY DEF StockSaves, lifeVars
<1>2. lock = "user" /\ ~Booting /\ ~Gone /\ ~Pending /\ task["user"].st # "sent"
  BY <1>1, UserInside DEF UserOutside, UseCaseLocks, Calls, SafeCalls, PlainCalls
<1>3. ~Danger /\ ~Danger' /\ wd # "RUNNING"
  BY <1>1, Still DEF IInv, PlaceOK, StopsOK, WatchdogStops
<1>4. CASE task' = [task EXCEPT !["user"] = At("stRefresh")] /\ UNCHANGED lock
  BY <1>1, <1>2, <1>3, <1>4, UserGoesOn
  DEF WatchdogStops, InHand, AfterRestore, UserPlaces, UserOutside, UseCaseLocks, Covered
<1>5. CASE UserEnds
  BY <1>1, <1>2, <1>3, <1>5, UserGoesOn DEF WatchdogStops, InHand, AfterRestore, UserPlaces, UserOutside, UserEnds, Covered
<1> QED
  BY <1>4, <1>5 DEF StockSaves

LEMMA KeepsCurveSaves ==
  ASSUME IInv, CurveSaves
  PROVE  IInv'
<1>1. /\ task["user"].at = "cuCap" /\ task["user"].st # "sent"
      /\ UNCHANGED <<ec, err, wd, snap, q, recOk, closing, cap, owned>>
  BY DEF CurveSaves, Answered, lifeVars
<1>2. lock = "user" /\ ~Booting /\ ~Gone /\ ~Pending /\ (owned /\ ~closing => Covered)
  BY <1>1, UserInside DEF UserOutside, UseCaseLocks
<1>3. CASE cfg' = "curve" /\ StartCurve("user", "cuRefresh") /\ UNCHANGED lock
  BY <1>1, <1>2, <1>3, UserStartsCurve
<1>4. CASE UserEnds /\ UNCHANGED <<cfg, cv>>
  <2>1. Covered' <=> Covered
    BY <1>1, <1>4, Still DEF Covered
  <2> QED
    BY <1>1, <1>2, <1>4, <2>1, UserGoesOn DEF WatchdogStops, InHand, AfterRestore, UserPlaces, UserOutside, UserEnds, Told
<1> QED
  BY <1>3, <1>4 DEF CurveSaves

\* The use case enters a restore by itself.
LEMMA UserRestores ==
  ASSUME IInv, lock = "user", lock' = "user", ~Booting, ~Gone, task["user"].st # "sent", ~Pending,
         NEW r \in UserReturns, task' = [task EXCEPT !["user"] = Restoring(r)],
         UNCHANGED <<ec, q, recOk, closing, owned>>,
         wd' = "RUNNING" <=> wd = "RUNNING", cv' = "RUNNING" <=> cv = "RUNNING",
         r \in WatchdogStops => wd' # "RUNNING", r = "reCv" => cv' # "RUNNING",
         r = "stStopped" => ~Danger
  PROVE  IInv'
<1>1. task \in [Tasks -> Frame] /\ Restoring(r) \in Frame
  BY PlacesAreLabels, Restarts DEF IInv, FramesOK
<1>2. /\ task' \in [Tasks -> Frame] /\ task'["user"] = Restoring(r)
      /\ task'["main"] = task["main"] /\ task'["watchdog"] = task["watchdog"]
      /\ task'["curve"] = task["curve"]
      /\ task'["refresh"] = task["refresh"] /\ task'["recovery"] = task["recovery"]
  BY <1>1 DEF Tasks
<1>3. Kept("watchdog") /\ Kept("curve") /\ (wd' = "RUNNING" <=> task'["watchdog"].at # "dead")
      /\ (cv' = "RUNNING" <=> task'["curve"].at # "dead")
  BY <1>2 DEF Kept, IInv, LifeOK
<1> QED
  BY <1>2, <1>3, UserEntersRestore

\* A use case that leaves a place where the fan is safe leaves it covered.
LEMMA SafeIsCovered ==
  ASSUME Safe, UNCHANGED <<ec, q, err, snap>>
  PROVE  Covered' /\ (Told => Told')
  BY Still DEF Safe, Told, Covered

\* What a restore has come to, where the use case reads it.
LEMMA UserRestored ==
  ASSUME IInv, task["user"].at \in {"maFailed", "reDone"}
  PROVE  Safe
  BY DEF IInv, RestoreOK, Restorers, AfterRestore, CleanupLabels, Safe

LEMMA KeepsManualMeasured ==
  ASSUME IInv, ManualMeasured
  PROVE  IInv'
<1>1. /\ task["user"].at = "maTemp" /\ task["user"].st # "sent"
      /\ UNCHANGED <<ec, cfg, err, cv, snap, q, recOk, closing, cap, owned>>
  BY DEF ManualMeasured, Answered, lifeVars
<1>2. lock = "user" /\ ~Booting /\ ~Gone /\ ~Pending /\ (owned /\ ~closing => Covered)
  BY <1>1, UserInside DEF UserOutside, UseCaseLocks
<1>3. CASE StopWatchdog("user", "maStopped") /\ UNCHANGED lock
  BY <1>1, <1>2, <1>3, UserStopsWatchdog DEF WatchdogStops
<1>4. CASE UserEnds /\ UNCHANGED wd
  <2>1. Covered' <=> Covered
    BY <1>1, <1>4, Still DEF Covered
  <2> QED
    BY <1>1, <1>2, <1>4, <2>1, UserGoesOn
    DEF WatchdogStops, InHand, AfterRestore, UserPlaces, UserOutside, UserEnds, Told
<1> QED
  BY <1>3, <1>4 DEF ManualMeasured

LEMMA KeepsManualBegins ==
  ASSUME IInv, ManualBegins
  PROVE  IInv'
<1>1. /\ task["user"].at = "maStopped" /\ wd' = "STOPPED"
      /\ task' = [task EXCEPT !["user"] = At("maMode")]
      /\ UNCHANGED <<ec, cfg, err, cv, snap, lock, q, recOk, closing, cap, owned>>
  BY DEF ManualBegins, lifeVars
<1>2. lock = "user" /\ ~Booting /\ ~Gone /\ ~Pending /\ task["user"].st # "sent"
  BY <1>1, UserInside DEF UserOutside, UseCaseLocks, Calls, SafeCalls, PlainCalls
<1>3. wd # "RUNNING"
  BY <1>1 DEF IInv, StopsOK, WatchdogStops
<1> QED
  BY <1>1, <1>2, <1>3, UserGoesOn
  DEF WatchdogStops, InHand, AfterRestore, UserPlaces, UserOutside, UseCaseLocks

LEMMA KeepsManualApplies ==
  ASSUME IInv, NEW l \in {"maMode", "maSpeed"}, ManualApplies(l)
  PROVE  IInv'
<1>1. /\ task["user"].at = l /\ task["user"].st # "sent"
      /\ UNCHANGED <<ec, cfg, wd, cv, snap, q, recOk, closing, cap, owned>>
  BY DEF ManualApplies, Answered, lifeVars
<1>2. lock = "user" /\ ~Booting /\ ~Gone /\ (task["user"].st # "timeout" => ~Pending)
  BY <1>1, UserInside DEF UserOutside, UseCaseLocks
<1>3. CASE task["user"].st = "ok"
  <2>1. /\ task' = [task EXCEPT !["user"] = At(IF l = "maMode" THEN "maSpeed" ELSE "maRefresh")]
        /\ UNCHANGED lock
    BY <1>3 DEF ManualApplies
  <2> QED
    BY <1>1, <1>2, <1>3, <2>1, UserGoesOn
    DEF WatchdogStops, InHand, AfterRestore, UserPlaces, UserOutside, UseCaseLocks
<1>4. CASE task["user"].st = "timeout"
  <2>1. UserEnds /\ UNCHANGED err
    BY <1>4 DEF ManualApplies
  <2>2. Covered' /\ (Told => Told')
    BY <1>1, <1>4, <2>1, SafeIsCovered DEF IInv, PlaceOK
  <2> QED
    BY <1>1, <1>2, <1>4, <2>1, <2>2, UserGoesOn
    DEF WatchdogStops, InHand, AfterRestore, UserPlaces, UserOutside, UserEnds
<1>5. CASE task["user"].st \notin {"ok", "timeout"}
  <2>1. task' = [task EXCEPT !["user"] = Restoring("maFailed")] /\ UNCHANGED lock
    BY <1>5 DEF ManualApplies
  <2> QED
    BY <1>1, <1>2, <1>5, <2>1, UserRestores DEF WatchdogStops, UserReturns
<1> QED
  BY <1>3, <1>4, <1>5

LEMMA KeepsManualFails ==
  ASSUME IInv, ManualFails
  PROVE  IInv'
<1>1. /\ task["user"].at = "maFailed" /\ UserEnds
      /\ UNCHANGED <<ec, cfg, err, wd, cv, snap, q, recOk, closing, cap, owned>>
  BY DEF ManualFails, lifeVars
<1>2. lock = "user" /\ ~Booting /\ ~Gone /\ task["user"].st # "sent"
  BY <1>1, UserInside DEF UserOutside, UseCaseLocks, Calls, SafeCalls, PlainCalls
<1>3. Covered' /\ (Told => Told')
  BY <1>1, UserRestored, SafeIsCovered
<1> QED
  BY <1>1, <1>2, <1>3, UserGoesOn
  DEF WatchdogStops, InHand, AfterRestore, UserPlaces, UserOutside, UserEnds

LEMMA KeepsManualStarts ==
  ASSUME IInv, ManualStarts
  PROVE  IInv'
<1>1. /\ task["user"].at = "maRefresh" /\ task["user"].st # "sent"
      /\ snap' = "manual_override" /\ wd' = "RUNNING" /\ lock' = "free"
      /\ task' = [task EXCEPT !["user"] = At("idle"), !["watchdog"] = At("sleep")]
      /\ UNCHANGED <<ec, cfg, err, cv, q, recOk, closing, cap, owned>>
  BY DEF ManualStarts, Answered, lifeVars
<1>2. lock = "user" /\ ~Booting /\ ~Gone /\ ~Pending
  BY <1>1, UserInside DEF UserOutside, UseCaseLocks
<1>3. At("sleep") \in Frame /\ At("idle") \in Frame /\ task \in [Tasks -> Frame]
  BY Arrives DEF IInv, FramesOK, Labels
<1>4. /\ task' \in [Tasks -> Frame] /\ task'["user"] = At("idle") /\ task'["watchdog"] = At("sleep")
      /\ task'["main"] = task["main"] /\ task'["curve"] = task["curve"]
      /\ task'["refresh"] = task["refresh"] /\ task'["recovery"] = task["recovery"]
  BY <1>1, <1>3 DEF Tasks
<1>5. Goes("watchdog", "sleep")
  BY <1>4, TaskGoes DEF Labels, Calls, SafeCalls, PlainCalls
<1>6. /\ Kept("watchdog") /\ Kept("curve") /\ (wd' = "RUNNING" <=> task'["watchdog"].at # "dead")
      /\ (cv' = "RUNNING" <=> task'["curve"].at # "dead") /\ Covered'
  BY <1>1, <1>4, <1>5 DEF Kept, Goes, IInv, LifeOK, Covered
<1> QED
  BY <1>1, <1>2, <1>4, <1>6, UserMoves DEF WatchdogStops, InHand, AfterRestore, UserPlaces, UserOutside

LEMMA KeepsReloadReads ==
  ASSUME IInv, NEW mode \in {"stock", "curve"}, ReloadReads(mode)
  PROVE  IInv'
<1>1. /\ task["user"].at = "reLock" /\ lock = "free" /\ ~Pending /\ lock' = "user" /\ cfg' = mode
      /\ UNCHANGED <<ec, err, snap, q, recOk, closing, cap, owned>>
  BY DEF ReloadReads, lifeVars
<1>2. ~Booting /\ ~Gone /\ task["user"].st # "sent" /\ (owned /\ ~closing => Covered)
  BY <1>1, UserEntering DEF UseCaseLocks
<1>3. CASE mode = cfg /\ task' = [task EXCEPT !["user"] = At("reRefresh")] /\ UNCHANGED <<wd, cv>>
  <2>1. Covered' <=> Covered
    BY <1>1, <1>3, Still DEF Covered
  <2> QED
    BY <1>1, <1>2, <1>3, <2>1, UserGoesOn
    DEF WatchdogStops, InHand, AfterRestore, UserPlaces, UserOutside, UseCaseLocks
<1>4. CASE StopWatchdog("user", "reWd") /\ UNCHANGED cv
  BY <1>1, <1>2, <1>4, UserStopsWatchdog DEF WatchdogStops
<1>5. CASE mode = "curve" /\ StartCurve("user", "reRefresh") /\ UNCHANGED wd
  BY <1>1, <1>2, <1>5, UserStartsCurve
<1> QED
  BY <1>3, <1>4, <1>5 DEF ReloadReads

LEMMA KeepsReloadRefused ==
  ASSUME IInv, ReloadRefused
  PROVE  IInv'
<1>1. /\ task["user"].at = "reLock" /\ lock = "free" /\ task' = [task EXCEPT !["user"] = At("idle")]
      /\ UNCHANGED <<ec, cfg, err, wd, cv, snap, lock, q, recOk, closing, cap, owned>>
  BY DEF ReloadRefused, lifeVars
<1>2. ~Booting /\ ~Gone /\ task["user"].st # "sent" /\ (owned /\ ~closing => Covered)
  BY <1>1, UserEntering DEF UseCaseLocks
<1>3. (Covered' <=> Covered) /\ (Told' <=> Told)
  BY <1>1, Still DEF Covered, Told
<1> QED
  BY <1>1, <1>2, <1>3, UserGoesOn DEF WatchdogStops, InHand, AfterRestore, UserPlaces, UserOutside

LEMMA KeepsReloadStopsCurve ==
  ASSUME IInv, ReloadStopsCurve
  PROVE  IInv'
<1>1. /\ task["user"].at = "reWd" /\ wd' = "STOPPED" /\ StopCurve("user", "reCv")
      /\ UNCHANGED <<ec, cfg, err, snap, lock, q, recOk, closing, cap, owned>>
  BY DEF ReloadStopsCurve, lifeVars
<1>2. lock = "user" /\ ~Booting /\ ~Gone /\ ~Pending /\ task["user"].st # "sent"
  BY <1>1, UserInside DEF UserOutside, UseCaseLocks, Calls, SafeCalls, PlainCalls
<1>3. wd # "RUNNING"
  BY <1>1 DEF IInv, StopsOK, WatchdogStops
<1>4. CASE cv \in {"STOPPED", "STOPPING"}
  <2>1. task' = [task EXCEPT !["user"] = At("reCv")] /\ UNCHANGED cv
    BY <1>1, <1>4 DEF StopCurve
  <2> QED
    BY <1>1, <1>2, <1>3, <1>4, <2>1, UserGoesOn
    DEF WatchdogStops, InHand, AfterRestore, UserPlaces, UserOutside, UseCaseLocks
<1>5. CASE cv \notin {"STOPPED", "STOPPING"}
  <2>1. task' = [task EXCEPT !["curve"] = At("dead"), !["user"] = Restoring("reCv")] /\ cv' = "STOPPING"
    BY <1>1, <1>5 DEF StopCurve
  <2>2. At("dead") \in Frame /\ Restoring("reCv") \in Frame /\ task \in [Tasks -> Frame]
    BY Arrives, Restarts DEF IInv, FramesOK, Labels, CleanupLabels
  <2>3. /\ task' \in [Tasks -> Frame] /\ task'["user"] = Restoring("reCv") /\ task'["curve"] = At("dead")
        /\ task'["main"] = task["main"] /\ task'["watchdog"] = task["watchdog"]
        /\ task'["refresh"] = task["refresh"] /\ task'["recovery"] = task["recovery"]
    BY <2>1, <2>2 DEF Tasks
  <2>4. Goes("curve", "dead")
    BY <2>3, TaskGoes DEF Labels, Calls, SafeCalls, PlainCalls
  <2>5. /\ Kept("watchdog") /\ Kept("curve") /\ (wd' = "RUNNING" <=> task'["watchdog"].at # "dead")
        /\ (cv' = "RUNNING" <=> task'["curve"].at # "dead")
    BY <1>1, <1>3, <2>1, <2>3, <2>4 DEF Kept, Goes, IInv, LifeOK
  <2> QED
    BY <1>1, <1>2, <2>1, <2>3, <2>5, UserEntersRestore DEF WatchdogStops, UserReturns
<1> QED
  BY <1>4, <1>5

LEMMA KeepsReloadRestores ==
  ASSUME IInv, ReloadRestores
  PROVE  IInv'
<1>1. /\ task["user"].at = "reCv" /\ cv' = "STOPPED"
      /\ task' = [task EXCEPT !["user"] = Restoring("reDone")]
      /\ UNCHANGED <<ec, cfg, err, wd, snap, lock, q, recOk, closing, cap, owned>>
  BY DEF ReloadRestores, lifeVars
<1>2. lock = "user" /\ ~Booting /\ ~Gone /\ ~Pending /\ task["user"].st # "sent"
  BY <1>1, UserInside DEF UserOutside, UseCaseLocks, Calls, SafeCalls, PlainCalls
<1>3. cv # "RUNNING"
  BY <1>1 DEF IInv, StopsOK
<1> QED
  BY <1>1, <1>2, <1>3, UserRestores DEF WatchdogStops, UserReturns

LEMMA KeepsReloadReports ==
  ASSUME IInv, ReloadReports
  PROVE  IInv'
<1>1. /\ task["user"].at = "reDone" /\ task' = [task EXCEPT !["user"] = At("reRefresh")]
      /\ UNCHANGED <<ec, cfg, err, wd, cv, snap, lock, q, recOk, closing, cap, owned>>
  BY DEF ReloadReports, lifeVars
<1>2. lock = "user" /\ ~Booting /\ ~Gone /\ task["user"].st # "sent"
  BY <1>1, UserInside DEF UserOutside, UseCaseLocks, Calls, SafeCalls, PlainCalls
<1>3. Covered' /\ (Told => Told')
  BY <1>1, UserRestored, SafeIsCovered
<1> QED
  BY <1>1, <1>2, <1>3, UserGoesOn
  DEF WatchdogStops, InHand, AfterRestore, UserPlaces, UserOutside, UseCaseLocks

LEMMA KeepsReloadRefreshes ==
  ASSUME IInv, ReloadRefreshes
  PROVE  IInv'
<1>1. /\ task["user"].at = "reRefresh" /\ task["user"].st # "sent" /\ snap' = Refreshed("user")
      /\ UserEnds /\ UNCHANGED <<ec, cfg, err, wd, cv, q, recOk, closing, owned>>
  BY DEF ReloadRefreshes, RefreshesAll, Answered
<1>2. lock = "user" /\ ~Booting /\ ~Gone /\ (owned /\ ~closing => Covered)
  BY <1>1, UserInside DEF UserOutside, UseCaseLocks
<1>3. (Covered => Covered') /\ (Told => Told')
  BY <1>1, RefreshCovers
<1> QED
  BY <1>1, <1>2, <1>3, UserGoesOn
  DEF WatchdogStops, InHand, AfterRestore, UserPlaces, UserOutside, UserEnds

\* A use case queues on the lock, whoever has it.
LEMMA KeepsUseCase ==
  ASSUME IInv, NEW l \in UseCaseLocks, UseCase(l)
  PROVE  IInv'
<1>1. /\ task["user"].at = "idle" /\ task["main"].at = "serving"
      /\ task' = [task EXCEPT !["user"] = At(l)]
      /\ UNCHANGED <<ec, cfg, err, wd, cv, snap, lock, q, recOk, closing, cap, owned>>
  BY DEF UseCase
<1>2. l \in UserPlaces /\ l \in UserOutside /\ l \notin Calls /\ l \notin Restores /\ l \notin AfterRestore
      /\ l \in Labels /\ l \notin WatchdogStops /\ l \notin {"idle", "dead", "reCv"}
  BY DEF UserPlaces, UserOutside, UseCaseLocks, Calls, SafeCalls, PlainCalls, Restores, AfterRestore,
         Labels, WatchdogStops
<1>3. At(l) \in Frame /\ task \in [Tasks -> Frame]
  BY <1>2, Arrives DEF IInv, FramesOK
<1>4. /\ task' \in [Tasks -> Frame] /\ task'["user"] = At(l)
      /\ task'["main"] = task["main"] /\ task'["watchdog"] = task["watchdog"]
      /\ task'["curve"] = task["curve"]
      /\ task'["refresh"] = task["refresh"] /\ task'["recovery"] = task["recovery"]
  BY <1>1, <1>3 DEF Tasks
<1>5. Goes("user", l)
  BY <1>2, <1>4, TaskGoes
<1>6. lock # "user" /\ Rests("user")
  BY <1>1, OutsideRests DEF IInv, LockOK, UserOutside
<1>7. FramesOK'
  BY <1>2, <1>4, <1>5, UserInPlace DEF IInv, FramesOK
<1>8. QueueOK'
  <2>1. \A t \in Tasks : task'[t] = task[t] \/ (task[t].st # "sent" /\ task'[t].st # "sent")
    BY <1>4, <1>5, <1>6 DEF Tasks, Rests, Goes
  <2> QED
    BY <1>1, <2>1, QueueStays DEF IInv
<1>9. LockOK' /\ LifeOK'
  <2>1. LockOK'
    BY <1>1, <1>2, <1>4, <1>5, <1>6 DEF IInv, LockOK, Goes
  <2>2. ~Booting /\ ~Gone
    BY <1>1 DEF IInv, FramesOK, InPlace, Restores, Booting, Gone
  <2>3. LifeOK'
    BY <1>1, <1>2, <1>4, <1>5, <2>2, Still DEF IInv, LifeOK, Goes
  <2> QED
    BY <2>1, <2>3
<1>10. StopsOK'
  BY <1>1, <1>2, <1>4, <1>5 DEF IInv, StopsOK, Goes, WatchdogStops
<1>11. RecoveryOK'
  BY <1>1, <1>4, RecoveryStays DEF IInv, Told
<1>12. PendingOK'
  BY <1>1, <1>2, <1>4, <1>5, <1>6, Still DEF IInv, PendingOK, Restorers, Goes, Restores
<1>13. RestoreOK'
  BY <1>1, <1>2, <1>4, <1>5, Still DEF IInv, RestoreOK, Restorers, Goes, Restores
<1>14. PlaceOK'
  BY <1>1, <1>2, <1>4, <1>5, Still DEF IInv, PlaceOK, Goes, UseCaseLocks
<1>15. GuardOK'
  <2>1. AtRest' => AtRest
    BY <1>1, <1>4, <1>5 DEF AtRest, Goes, UseCaseLocks
  <2>2. Covered' <=> Covered
    BY <1>1, Still DEF Covered
  <2> QED
    BY <1>1, <1>4, <2>1, <2>2, Still DEF IInv, GuardOK
<1> QED
  BY <1>7, <1>8, <1>9, <1>10, <1>11, <1>12, <1>13, <1>14, <1>15 DEF IInv
-----------------------------------------------------------------------------
(* The watchdog.                                                           *)

\* A step of the watchdog: it goes to a place or enters a restore.
LEMMA WatchdogMoves ==
  ASSUME IInv, NEW f \in Frame, WatchdogTo(f), InPlace(f, WatchdogPlaces, WatchdogReturns),
         task["watchdog"].at # "dead", task["watchdog"].st # "sent", f.st # "sent",
         UNCHANGED <<ec, cfg, err, q, recOk, closing, owned, cv>>,
         wd' = "RUNNING" <=> f.at # "dead",
         lock' = "watchdog" <=> f.at \notin WatchdogOutside,
         lock' = lock \/ (lock \in {"free", "watchdog"} /\ lock' \in {"free", "watchdog"}),
         f.at \notin AfterRestore, f.at # "rsRefresh", f.st \notin {"restored", "unrestored"},
         f.at = "rsAuto" => f.st = "want" /\ ~Pending, f.at = "rsWait" => Pending,
         Told /\ Pending => Told', Safe => Safe',
         owned /\ ~closing /\ AtRest' => Covered'
  PROVE  IInv'
<1>1. task \in [Tasks -> Frame] /\ wd = "RUNNING" /\ ~Booting /\ ~Gone
      /\ task["main"].at # "sdDrain" /\ task["main"].ret # "sdDrain"
  BY DEF IInv, FramesOK, LifeOK
<1>2. /\ task' \in [Tasks -> Frame] /\ task'["watchdog"] = f
      /\ task'["main"] = task["main"] /\ task'["user"] = task["user"]
      /\ task'["curve"] = task["curve"]
      /\ task'["refresh"] = task["refresh"] /\ task'["recovery"] = task["recovery"]
  BY <1>1 DEF WatchdogTo, Tasks
<1>3. FramesOK'
  BY <1>2 DEF IInv, FramesOK
<1>4. QueueOK'
  <2>1. \A t \in Tasks : task'[t] = task[t] \/ (task[t].st # "sent" /\ task'[t].st # "sent")
    BY <1>2 DEF Tasks
  <2> QED
    BY <2>1, QueueStays DEF IInv
<1>5. LockOK'
  BY <1>2 DEF IInv, LockOK
<1>6. LifeOK'
  BY <1>1, <1>2, <1>5, Still DEF IInv, LifeOK, LockOK, Booting, Gone
<1>7. StopsOK'
  BY <1>1, <1>2 DEF IInv, StopsOK, WatchdogStops
<1>8. RecoveryOK'
  BY <1>2, RecoveryStays DEF IInv
<1>9. PendingOK'
  BY <1>2, Still DEF IInv, PendingOK, Restorers
<1>10. RestoreOK'
  BY <1>2, Still DEF IInv, RestoreOK, Restorers
<1>11. PlaceOK'
  BY <1>1, <1>2, <1>5, Still DEF IInv, PlaceOK, LockOK
<1>12. GuardOK'
  BY <1>2, Still DEF GuardOK
<1> QED
  BY <1>3, <1>4, <1>5, <1>6, <1>7, <1>8, <1>9, <1>10, <1>11, <1>12 DEF IInv

LEMMA WatchdogGoes ==
  ASSUME NEW l \in WatchdogPlaces \ AfterRestore
  PROVE  /\ At(l) \in Frame /\ InPlace(At(l), WatchdogPlaces, WatchdogReturns) /\ At(l).at = l
         /\ At(l).st \notin {"sent", "restored", "unrestored"} /\ l \notin Restores
<1>1. l \in Labels /\ l \notin Restores
  BY PlacesAreLabels DEF WatchdogPlaces, WatchdogOutside, Restores
<1> QED
  BY <1>1, Arrives DEF InPlace

LEMMA WatchdogRestarts ==
  ASSUME NEW r \in WatchdogReturns
  PROVE  LET f == Restoring(r) IN
         /\ f \in Frame /\ InPlace(f, WatchdogPlaces, WatchdogReturns)
         /\ f.at \in {"rsAuto", "rsWait"} /\ f.at \notin WatchdogOutside /\ f.at # "dead"
         /\ f.at \notin AfterRestore /\ f.st \in {"want", "none"}
         /\ (f.at = "rsAuto" => f.st = "want" /\ ~Pending) /\ (f.at = "rsWait" => Pending)
<1>1. r \in Labels
  BY PlacesAreLabels
<1> QED
  BY <1>1, Restarts DEF InPlace, Restores, AfterRestore, WatchdogOutside, Calls, SafeCalls

\* Inside the lock the watchdog has no call out, and the fan is covered where
\* it checks the temperature.
LEMMA WatchdogInside ==
  ASSUME IInv, task["watchdog"].at \notin WatchdogOutside
  PROVE  /\ lock = "watchdog" /\ task["watchdog"].at # "dead"
         /\ task["watchdog"].at \notin Calls => task["watchdog"].st # "sent"
         /\ owned /\ ~closing /\ task["watchdog"].at \in {"wdTemp", "wdSpeed"} => Covered
  BY InsideServes DEF IInv, LockOK, FramesOK, InPlace, GuardOK, AtRest, WatchdogOutside

\* With the lock free, or the watchdog waiting for it, it is at rest.
LEMMA WatchdogOutsideRests ==
  ASSUME IInv, task["watchdog"].at \in WatchdogOutside
  PROVE  task["watchdog"].st # "sent" /\ lock # "watchdog"
  BY OutsideRests DEF IInv, LockOK, Rests

LEMMA KeepsWatchdogPolls ==
  ASSUME IInv, WatchdogPolls
  PROVE  IInv'
<1> DEFINE l == "wdPollLock"
<1>1. WatchdogTo(At(l))
  BY DEF WatchdogPolls
<1>2. /\ task["watchdog"].at = "sleep"
      /\ UNCHANGED <<ec, cfg, err, wd, cv, snap, lock, q, recOk, closing, cap, owned>>
  BY DEF WatchdogPolls, lifeVars
<1>3. l \in WatchdogPlaces \ AfterRestore /\ l \in WatchdogOutside /\ l \notin {"dead"} \cup Restores
  BY DEF WatchdogPlaces, WatchdogOutside, AfterRestore, Restores
<1>4. task["watchdog"].st # "sent" /\ lock # "watchdog" /\ wd = "RUNNING"
  BY <1>2, WatchdogOutsideRests DEF WatchdogOutside, IInv, LifeOK
<1>5. (Told => Told') /\ (Safe => Safe') /\ (Covered' <=> Covered)
  BY <1>2, Still DEF Told, Covered
<1>6. owned /\ ~closing /\ AtRest' => Covered'
  <2>1. task \in [Tasks -> Frame] /\ ~Booting /\ ~Gone
    BY <1>4 DEF IInv, FramesOK, LifeOK
  <2>2. task'["user"] = task["user"] /\ task'["curve"] = task["curve"] /\ task'["watchdog"].at = l
    BY <1>1, <1>3, <2>1, WatchdogGoes DEF WatchdogTo, Tasks
  <2>3. AtRest' => AtRest
    BY <1>1, <1>2, <2>2 DEF AtRest
  <2>4. Up
    BY <2>1 DEF Up, Booting, Gone
  <2> QED
    BY <1>5, <2>3, <2>4 DEF IInv, GuardOK
<1> QED
  BY <1>1, <1>2, <1>3, <1>4, <1>5, <1>6, WatchdogGoes, WatchdogMoves DEF Restores

LEMMA KeepsWatchdogLocks ==
  ASSUME IInv, WatchdogLocks
  PROVE  IInv'
<1>1. /\ task["watchdog"].at \in {"wdPollLock", "wdExpireLock", "wdFaultLock"} /\ lock = "free"
      /\ UNCHANGED <<ec, cfg, err, cv, snap, q, recOk, closing, cap, owned>>
  BY DEF WatchdogLocks, lifeVars
<1>2. task["watchdog"].st # "sent" /\ wd = "RUNNING" /\ task["watchdog"].at # "dead"
  BY <1>1, WatchdogOutsideRests DEF WatchdogOutside, IInv, LifeOK
<1>3. (Told => Told') /\ (Safe => Safe')
  BY <1>1, Still DEF Told
<1>4. owned /\ ~closing => Covered
  BY <1>1, <1>2 DEF IInv, LifeOK, GuardOK, AtRest, Up, Booting, Gone
<1>5. CASE WatchdogTo(At("dead")) /\ wd' = "STOPPED" /\ UNCHANGED lock /\ closing
  BY <1>1, <1>2, <1>3, <1>5, WatchdogGoes, WatchdogMoves
  DEF WatchdogPlaces, WatchdogOutside, AfterRestore
<1>6. CASE WatchdogTo(At("wdTemp")) /\ lock' = "watchdog" /\ UNCHANGED wd
  <2>1. Covered' <=> Covered
    BY <1>1, <1>6, Still DEF Covered
  <2> QED
    BY <1>1, <1>2, <1>3, <1>4, <1>6, <2>1, WatchdogGoes, WatchdogMoves
    DEF WatchdogPlaces, WatchdogOutside, AfterRestore
<1>7. CASE \E r \in WatchdogReturns : WatchdogTo(Restoring(r)) /\ lock' = "watchdog" /\ UNCHANGED wd
  <2>1. PICK r \in WatchdogReturns : WatchdogTo(Restoring(r)) /\ lock' = "watchdog" /\ UNCHANGED wd
    BY <1>7
  <2>2. ~AtRest'
    <3>1. task \in [Tasks -> Frame] /\ task["user"].at \in UserOutside /\ task["curve"].at \in CurveOutside
      BY <1>1, OutsideRests DEF IInv, FramesOK
    <3>2. task'["user"] = task["user"] /\ task'["curve"] = task["curve"]
          /\ task'["watchdog"] = Restoring(r)
      BY <2>1, <3>1, WatchdogRestarts DEF WatchdogTo, Tasks
    <3> QED
      BY <2>1, <3>1, <3>2, WatchdogRestarts DEF AtRest, UserOutside, UseCaseLocks, CurveOutside
  <2> QED
    BY <1>1, <1>2, <1>3, <2>1, <2>2, WatchdogRestarts, WatchdogMoves
<1> QED
  BY <1>1, <1>5, <1>6, <1>7 DEF WatchdogLocks, WatchdogReturns

LEMMA KeepsWatchdogChecks ==
  ASSUME IInv, NEW l \in {"wdTemp", "wdSpeed"}, WatchdogChecks(l) \/ WatchdogExpires(l)
  PROVE  IInv'
<1>1. /\ task["watchdog"].at = l /\ task["watchdog"].st # "sent"
      /\ UNCHANGED <<ec, cfg, err, wd, cv, snap, q, recOk, closing, cap, owned>>
  BY DEF WatchdogChecks, WatchdogExpires, Answered, lifeVars
<1>2. lock = "watchdog" /\ task["watchdog"].at # "dead" /\ (owned /\ ~closing => Covered) /\ wd = "RUNNING"
  BY <1>1, WatchdogInside DEF WatchdogOutside, IInv, LifeOK
<1>3. (Told => Told') /\ (Safe => Safe') /\ (Covered' <=> Covered)
  BY <1>1, Still DEF Told, Covered
<1>4. CASE \E n \in {"sleep", "wdFaultLock", "wdExpireLock"} : WatchdogTo(At(n)) /\ lock' = "free"
  BY <1>1, <1>2, <1>3, <1>4, WatchdogGoes, WatchdogMoves
  DEF WatchdogPlaces, WatchdogOutside, AfterRestore
<1>5. CASE WatchdogTo(At("wdSpeed")) /\ UNCHANGED lock
  BY <1>1, <1>2, <1>3, <1>5, WatchdogGoes, WatchdogMoves
  DEF WatchdogPlaces, WatchdogOutside, AfterRestore
<1>6. CASE WatchdogTo(Restoring("wdEnd")) /\ UNCHANGED lock
  BY <1>1, <1>2, <1>3, <1>6, WatchdogRestarts, WatchdogMoves DEF WatchdogReturns
<1> QED
  BY <1>4, <1>5, <1>6 DEF WatchdogChecks, WatchdogExpires

LEMMA KeepsWatchdogEnds ==
  ASSUME IInv, WatchdogEnds
  PROVE  IInv'
<1>1. /\ task["watchdog"].at \in {"wdEnd", "wdFault"} /\ WatchdogTo(At("dead")) /\ lock' = "free"
      /\ snap' = (IF task["watchdog"].st = "restored" THEN "stock" ELSE snap)
      /\ wd' \in {"STOPPED", "FAILED"}
      /\ UNCHANGED <<ec, cfg, err, cv, q, recOk, closing, cap, owned>>
  BY DEF WatchdogEnds, lifeVars
<1>2. lock = "watchdog" /\ task["watchdog"].at # "dead" /\ task["watchdog"].st # "sent"
  BY <1>1, WatchdogInside DEF WatchdogOutside, Calls, SafeCalls, PlainCalls
<1>3. CASE task["watchdog"].st = "restored"
  <2>1. ~Danger /\ ~Pending /\ ~Danger'
    BY <1>1, <1>3, Still DEF IInv, RestoreOK, PendingOK, Restorers
  <2> QED
    BY <1>1, <1>2, <2>1, WatchdogGoes, WatchdogMoves
    DEF WatchdogPlaces, WatchdogOutside, AfterRestore, Safe, Covered
<1>4. CASE task["watchdog"].st = "unrestored"
  <2>1. Safe
    BY <1>1, <1>4 DEF IInv, RestoreOK, Restorers, CleanupLabels
  <2>2. Covered' /\ (Told => Told') /\ Safe'
    BY <1>1, <1>4, <2>1, SafeIsCovered, Still
  <2> QED
    BY <1>1, <1>2, <2>2, WatchdogGoes, WatchdogMoves
    DEF WatchdogPlaces, WatchdogOutside, AfterRestore
<1> QED
  BY <1>1, <1>3, <1>4 DEF IInv, RestoreOK, Restorers, AfterRestore
-----------------------------------------------------------------------------
(* The curve controller.                                                   *)

\* A step of the controller: it goes to a place or enters a restore.
LEMMA CurveMoves ==
  ASSUME IInv, NEW f \in Frame, CurveTo(f), InPlace(f, CurvePlaces, CurveReturns),
         task["curve"].at # "dead", task["curve"].st # "sent", f.st # "sent",
         UNCHANGED <<ec, q, recOk, closing, owned, wd>>,
         cv' = "RUNNING" <=> f.at # "dead", UNCHANGED <<cfg, err, snap>> \/ lock = "curve",
         lock' = "curve" <=> f.at \notin CurveOutside,
         lock' = lock \/ (lock \in {"free", "curve"} /\ lock' \in {"free", "curve"}),
         f.at = "dead" => lock = "curve",
         f.at \notin AfterRestore, f.at # "rsRefresh", f.st \notin {"restored", "unrestored"},
         f.at = "rsAuto" => f.st = "want" /\ ~Pending, f.at = "rsWait" => Pending,
         f.at \in {"cvTemp", "cvMode", "cvSpeed"} => ~Pending /\ f.st # "timeout",
         lock' = "curve" => cfg' = "curve" \/ f.ret = "cvGaveUp",
         Told /\ Pending => Told',
         owned /\ ~closing /\ AtRest' => Covered'
  PROVE  IInv'
<1>1. task \in [Tasks -> Frame] /\ cv = "RUNNING" /\ ~Booting /\ ~Gone /\ lock # "main"
      /\ task["main"].at # "sdDrain" /\ task["main"].ret # "sdDrain"
  BY DEF IInv, FramesOK, LifeOK, StopsOK
<1>2. /\ task' \in [Tasks -> Frame] /\ task'["curve"] = f
      /\ task'["main"] = task["main"] /\ task'["user"] = task["user"]
      /\ task'["watchdog"] = task["watchdog"]
      /\ task'["refresh"] = task["refresh"] /\ task'["recovery"] = task["recovery"]
  BY <1>1 DEF CurveTo, Tasks
<1>3. lock = "curve" => /\ Rests("main") /\ Rests("user") /\ Rests("watchdog")
                        /\ task["user"].at \in UserOutside
                        /\ task["main"].at # "sdDrain"
  BY <1>1, OutsideRests
<1>4. UNCHANGED <<cfg, err, snap>> => (Safe' <=> Safe)
  BY Still
<1>5. FramesOK'
  BY <1>2 DEF IInv, FramesOK
<1>6. QueueOK'
  <2>1. \A t \in Tasks : task'[t] = task[t] \/ (task[t].st # "sent" /\ task'[t].st # "sent")
    BY <1>2 DEF Tasks
  <2> QED
    BY <2>1, QueueStays DEF IInv
<1>7. LockOK'
  BY <1>2 DEF IInv, LockOK
<1>8. LifeOK'
  BY <1>1, <1>2, <1>7, Still DEF IInv, LifeOK, LockOK
<1>9. StopsOK'
  BY <1>1, <1>2 DEF IInv, StopsOK, WatchdogStops
<1>10. RecoveryOK'
  BY <1>2, RecoveryStays DEF IInv
<1>11. PendingOK'
  BY <1>2, Still DEF IInv, PendingOK, Restorers
<1>12. RestoreOK'
  <2>1. CASE lock = "curve"
    BY <1>2, <1>3, <2>1, Still DEF IInv, RestoreOK, Restorers, Rests, Restores
  <2>2. CASE UNCHANGED <<cfg, err, snap>>
    BY <1>2, <1>4, <2>2, Still DEF IInv, RestoreOK, Restorers
  <2> QED
    BY <2>1, <2>2
<1>13. PlaceOK'
  <2>1. CASE lock = "curve"
    BY <1>2, <1>3, <1>7, <2>1, Still DEF IInv, PlaceOK, LockOK, UserOutside, UseCaseLocks, Rests
  <2>2. CASE lock # "curve"
    BY <1>1, <1>2, <1>4, <1>7, <2>2, Still DEF IInv, PlaceOK, LockOK
  <2> QED
    BY <2>1, <2>2
<1>14. GuardOK'
  BY <1>2, Still DEF GuardOK
<1> QED
  BY <1>5, <1>6, <1>7, <1>8, <1>9, <1>10, <1>11, <1>12, <1>13, <1>14 DEF IInv

LEMMA CurveGoes ==
  ASSUME NEW l \in CurvePlaces \ AfterRestore
  PROVE  /\ At(l) \in Frame /\ InPlace(At(l), CurvePlaces, CurveReturns) /\ At(l).at = l
         /\ At(l).st \notin {"sent", "restored", "unrestored", "timeout"} /\ l \notin Restores
<1>1. l \in Labels /\ l \notin Restores
  BY PlacesAreLabels DEF CurvePlaces, CurveOutside, Restores
<1> QED
  BY <1>1, Arrives DEF InPlace

LEMMA CurveRestarts ==
  ASSUME NEW r \in CurveReturns
  PROVE  LET f == Restoring(r) IN
         /\ f \in Frame /\ InPlace(f, CurvePlaces, CurveReturns) /\ f.ret = r
         /\ f.at \in {"rsAuto", "rsWait"} /\ f.at \notin CurveOutside /\ f.at # "dead"
         /\ f.at \notin AfterRestore /\ f.st \in {"want", "none"}
         /\ (f.at = "rsAuto" => f.st = "want" /\ ~Pending) /\ (f.at = "rsWait" => Pending)
<1>1. r \in Labels
  BY PlacesAreLabels
<1> QED
  BY <1>1, Restarts DEF InPlace, Restores, AfterRestore, CurveOutside, Calls, SafeCalls

\* Inside the lock: what the controller knows of its call, the mode and the fan.
LEMMA CurveInside ==
  ASSUME IInv, task["curve"].at \notin CurveOutside
  PROVE  /\ lock = "curve" /\ task["curve"].at # "dead" /\ cv = "RUNNING"
         /\ task["curve"].at \notin Calls => task["curve"].st # "sent"
         /\ task["curve"].at \in {"cvTemp", "cvMode", "cvSpeed"} =>
                cfg = "curve" /\ (task["curve"].st # "timeout" => ~Pending)
         /\ owned /\ ~closing /\ task["curve"].at = "cvTemp" => Covered
         /\ task["curve"].at \in {"cvMode", "cvSpeed"} /\ task["curve"].st = "timeout" => Safe
         /\ task["curve"].at \in {"cvApplyFailed", "cvGaveUp"} => Safe
<1>1. lock = "curve" /\ task["curve"].at # "dead" /\ cv = "RUNNING"
  BY DEF IInv, LockOK, LifeOK, CurveOutside
<1>2. task["curve"].at \notin Calls => task["curve"].st # "sent"
  BY DEF IInv, FramesOK, InPlace
<1>3. task["curve"].at \in {"cvTemp", "cvMode", "cvSpeed"} =>
          cfg = "curve" /\ (task["curve"].st # "timeout" => ~Pending)
  BY <1>1 DEF IInv, FramesOK, InPlace, Restores, PlaceOK, PendingOK
<1>4. owned /\ ~closing /\ task["curve"].at = "cvTemp" => Covered
  BY <1>1, InsideServes DEF IInv, GuardOK, AtRest
<1>5. task["curve"].at \in {"cvMode", "cvSpeed"} /\ task["curve"].st = "timeout" => Safe
  BY DEF IInv, PlaceOK
<1>6. task["curve"].at \in {"cvApplyFailed", "cvGaveUp"} => Safe
  BY DEF IInv, RestoreOK, Restorers, AfterRestore, CleanupLabels, Safe
<1> QED
  BY <1>1, <1>2, <1>3, <1>4, <1>5, <1>6

\* With the lock free, the fan is covered while the controller lives.
LEMMA CurveEntering ==
  ASSUME IInv, task["curve"].at \in {"cvLock", "cvGiveUpLock"}, lock = "free"
  PROVE  /\ task["curve"].st # "sent" /\ cv = "RUNNING" /\ ~Booting /\ ~Gone
         /\ owned /\ ~closing => Covered
  BY OutsideRests DEF IInv, LifeOK, GuardOK, AtRest, Up, Booting, Gone, Rests

\* Nothing but bookkeeping changes.
LEMMA Unmoved ==
  ASSUME IInv, UNCHANGED <<ec, cfg, err, wd, cv, snap, lock, task, q, recOk, closing, cap, owned>>
  PROVE  IInv'
<1>1. FramesOK' /\ QueueOK' /\ LockOK'
  BY DEF IInv, FramesOK, QueueOK, LockOK
<1>2. LifeOK' /\ StopsOK'
  BY Still DEF IInv, LifeOK, StopsOK
<1>3. RecoveryOK'
  BY RecoveryStays DEF IInv, Told
<1>4. PendingOK' /\ RestoreOK'
  BY Still DEF IInv, PendingOK, RestoreOK
<1>5. PlaceOK' /\ GuardOK'
  BY Still DEF IInv, PlaceOK, GuardOK, AtRest, Covered
<1> QED
  BY <1>1, <1>2, <1>3, <1>4, <1>5 DEF IInv

LEMMA KeepsCurveTicks ==
  ASSUME IInv, CurveTicks
  PROVE  IInv'
<1>1. /\ task["curve"].at = "sleep"
      /\ UNCHANGED <<ec, cfg, err, wd, cv, snap, lock, q, recOk, closing, cap, owned>>
  BY DEF CurveTicks, lifeVars
<1>2. CASE UNCHANGED task
  BY <1>1, <1>2, Unmoved
<1>3. CASE CurveTo(At("cvLock"))
  <2>1. task["curve"].st # "sent" /\ lock # "curve" /\ cv = "RUNNING" /\ ~Booting /\ ~Gone
    BY <1>1, OutsideRests DEF IInv, LockOK, LifeOK, CurveOutside, Rests
  <2>2. (Told => Told') /\ (Covered' <=> Covered)
    BY <1>1, Still DEF Told, Covered
  <2>3. owned /\ ~closing /\ AtRest' => Covered'
    <3>1. task \in [Tasks -> Frame] /\ Up
      BY <2>1 DEF IInv, FramesOK, Up, Booting, Gone
    <3>2. task'["user"] = task["user"] /\ task'["watchdog"] = task["watchdog"]
          /\ task'["curve"].at = "cvLock"
      BY <1>3, <3>1, Arrives DEF CurveTo, Tasks, Labels
    <3>3. AtRest' => AtRest
      BY <1>1, <3>2 DEF AtRest
    <3> QED
      BY <2>2, <3>1, <3>3 DEF IInv, GuardOK
  <2> QED
    BY <1>1, <1>3, <2>1, <2>2, <2>3, CurveGoes, CurveMoves DEF CurvePlaces, CurveOutside, AfterRestore
<1> QED
  BY <1>2, <1>3 DEF CurveTicks

LEMMA KeepsCurveLocks ==
  ASSUME IInv, CurveLocks
  PROVE  IInv'
<1>1. /\ task["curve"].at = "cvLock" /\ lock = "free"
      /\ UNCHANGED <<ec, cfg, err, wd, cv, snap, q, recOk, closing, cap, owned>>
  BY DEF CurveLocks, lifeVars
<1>2. task["curve"].st # "sent" /\ cv = "RUNNING" /\ (owned /\ ~closing => Covered)
  BY <1>1, CurveEntering
<1>3. (Told => Told') /\ (Covered' <=> Covered)
  BY <1>1, Still DEF Told, Covered
<1>4. CASE CurveTo(At("sleep")) /\ UNCHANGED lock
  BY <1>1, <1>2, <1>3, <1>4, CurveGoes, CurveMoves DEF CurvePlaces, CurveOutside, AfterRestore
<1>5. CASE ~CurveBlocked /\ CurveTo(At("cvTemp")) /\ lock' = "curve"
  BY <1>1, <1>2, <1>3, <1>5, CurveGoes, CurveMoves
  DEF CurvePlaces, CurveOutside, AfterRestore, CurveBlocked
<1> QED
  BY <1>4, <1>5 DEF CurveLocks

LEMMA KeepsCurveSucceeds ==
  ASSUME IInv, task["curve"].at \in {"cvTemp", "cvSpeed"}, task["curve"].st = "ok", CurveSucceeds,
         UNCHANGED <<ec, cfg, wd, cv, q, recOk, lifeVars, owned>>
  PROVE  IInv'
<1>1. lock = "curve" /\ cv = "RUNNING" /\ cfg = "curve" /\ ~Pending
  BY CurveInside DEF CurveOutside
<1>2. snap' = "curve" /\ CurveTo(At("sleep")) /\ lock' = "free" /\ UNCHANGED closing
  BY DEF CurveSucceeds, lifeVars
<1>3. Covered'
  BY <1>1, <1>2 DEF Covered
<1> QED
  BY <1>1, <1>2, <1>3, CurveGoes, CurveMoves DEF CurvePlaces, CurveOutside, AfterRestore

LEMMA KeepsCurveFails ==
  ASSUME IInv, task["curve"].at \notin CurveOutside, task["curve"].st # "sent",
         CurveFails, owned /\ ~closing => Covered,
         UNCHANGED <<ec, cfg, wd, cv, q, recOk, lifeVars, owned>>
  PROVE  IInv'
<1>1. PICK l \in {"cvGiveUpLock", "sleep"} : CurveTo(At(l))
  BY DEF CurveFails
<1>2. lock = "curve" /\ cv = "RUNNING" /\ lock' = "free" /\ UNCHANGED <<err, snap, closing>>
      /\ task["curve"].at # "dead"
  BY CurveInside DEF CurveFails, lifeVars
<1>3. (Told => Told') /\ (Covered' <=> Covered)
  BY <1>2, Still DEF Told, Covered
<1> QED
  BY <1>1, <1>2, <1>3, CurveGoes, CurveMoves DEF CurvePlaces, CurveOutside, AfterRestore

LEMMA KeepsCurveApplies ==
  ASSUME IInv, CurveApplies
  PROVE  IInv'
<1>1. /\ task["curve"].at \in {"cvTemp", "cvMode", "cvSpeed"} /\ task["curve"].st \in {"ok", "bad", "busy"}
      /\ UNCHANGED <<ec, cfg, err, wd, cv, snap, lock, q, recOk, closing, cap, owned>>
  BY DEF CurveApplies, Answered, lifeVars
<1>2. lock = "curve" /\ cv = "RUNNING" /\ cfg = "curve" /\ ~Pending
  BY <1>1, CurveInside DEF CurveOutside
<1>3. ASSUME CurveTo(At("cvMode")) \/ CurveTo(At("cvSpeed")) \/ CurveTo(Restoring("cvApplyFailed"))
      PROVE  ~AtRest'
  <2>1. task \in [Tasks -> Frame] /\ task["user"].at \in UserOutside /\ task["watchdog"].at \in WatchdogOutside
    BY <1>2, OutsideRests DEF IInv, FramesOK
  <2>2. task'["user"] = task["user"] /\ task'["watchdog"] = task["watchdog"]
        /\ task'["curve"].at \in {"cvMode", "cvSpeed", "rsAuto", "rsWait"}
    BY <1>3, <2>1, CurveGoes, CurveRestarts
    DEF CurveTo, Tasks, CurvePlaces, CurveReturns, AfterRestore
  <2> QED
    BY <1>1, <1>2, <2>1, <2>2 DEF AtRest, UserOutside, UseCaseLocks, WatchdogOutside
<1>4. CASE \E l \in {"cvMode", "cvSpeed"} : CurveTo(At(l))
  BY <1>1, <1>2, <1>3, <1>4, CurveGoes, CurveMoves DEF CurvePlaces, CurveOutside, AfterRestore
<1>5. CASE CurveTo(Restoring("cvApplyFailed"))
  BY <1>1, <1>2, <1>3, <1>5, CurveRestarts, CurveMoves DEF CurveReturns
<1> QED
  BY <1>4, <1>5 DEF CurveApplies

LEMMA KeepsCurveFinishes ==
  ASSUME IInv, CurveHolds \/ CurveFinishes
  PROVE  IInv'
<1>1. UNCHANGED <<ec, cfg, wd, cv, q, recOk, lifeVars, owned>>
  BY DEF CurveHolds, CurveFinishes
<1>2. CASE task["curve"].at \in {"cvTemp", "cvSpeed"} /\ task["curve"].st = "ok" /\ CurveSucceeds
  BY <1>1, <1>2, KeepsCurveSucceeds
<1>3. CASE Answered("curve", "cvTemp") /\ CurveFails
  BY <1>1, <1>3, CurveInside, KeepsCurveFails DEF CurveOutside, Answered
<1>4. ASSUME Safe
      PROVE  owned /\ ~closing => Covered
  BY <1>4 DEF Safe, Told, Covered
<1>5. CASE task["curve"].at \in {"cvMode", "cvSpeed"} /\ task["curve"].st = "timeout" /\ CurveFails
  BY <1>1, <1>4, <1>5, CurveInside, KeepsCurveFails DEF CurveOutside
<1>6. CASE task["curve"].at = "cvApplyFailed" /\ CurveFails
  BY <1>1, <1>4, <1>6, CurveInside, KeepsCurveFails DEF CurveOutside, Calls, SafeCalls, PlainCalls
<1> QED
  BY <1>2, <1>3, <1>5, <1>6 DEF CurveHolds, CurveFinishes, Answered

LEMMA KeepsCurveGivesUp ==
  ASSUME IInv, CurveGivesUp
  PROVE  IInv'
<1>1. /\ task["curve"].at = "cvGiveUpLock" /\ lock = "free" /\ lock' = "curve"
      /\ CurveTo(Restoring("cvGaveUp"))
      /\ UNCHANGED <<ec, cfg, err, wd, cv, snap, q, recOk, closing, cap, owned>>
  BY DEF CurveGivesUp, lifeVars
<1>2. task["curve"].st # "sent" /\ cv = "RUNNING"
  BY <1>1, CurveEntering
<1>3. ~AtRest'
  <2>1. task \in [Tasks -> Frame] /\ task["user"].at \in UserOutside /\ task["watchdog"].at \in WatchdogOutside
    BY <1>1, OutsideRests DEF IInv, FramesOK
  <2>2. task'["user"] = task["user"] /\ task'["watchdog"] = task["watchdog"]
        /\ task'["curve"].at \in {"rsAuto", "rsWait"}
    BY <1>1, <2>1, CurveRestarts DEF CurveTo, Tasks, CurveReturns
  <2> QED
    BY <1>1, <2>1, <2>2 DEF AtRest, UserOutside, UseCaseLocks, WatchdogOutside
<1> QED
  BY <1>1, <1>2, <1>3, CurveRestarts, CurveMoves DEF CurveReturns, Told

LEMMA KeepsCurveDisabled ==
  ASSUME IInv, CurveDisabled
  PROVE  IInv'
<1>1. /\ task["curve"].at = "cvGaveUp" /\ cv' = "FAILED" /\ CurveTo(At("dead")) /\ lock' = "free"
      /\ UNCHANGED <<ec, wd, q, recOk, closing, cap, owned>>
      /\ (err' = TRUE /\ snap' = "failed_safe") \/ UNCHANGED <<cfg, err, snap>>
  BY DEF CurveDisabled, lifeVars
<1>2. lock = "curve" /\ Safe /\ task["curve"].st # "sent"
  BY <1>1, CurveInside DEF CurveOutside, Calls, SafeCalls, PlainCalls
<1>3. Covered' /\ (Told => Told')
  <2>1. CASE err' = TRUE /\ snap' = "failed_safe"
    BY <2>1 DEF Covered, Told
  <2>2. CASE UNCHANGED <<cfg, err, snap>>
    BY <1>1, <1>2, <2>2, SafeIsCovered
  <2> QED
    BY <1>1, <2>1, <2>2
<1> QED
  BY <1>1, <1>2, <1>3, CurveGoes, CurveMoves DEF CurvePlaces, CurveOutside, AfterRestore
-----------------------------------------------------------------------------
(* The refresh loop and the tracking of a recovery.                        *)

\* A step of the refresh loop, which publishes at most what it observed.
LEMMA RefreshMoves ==
  ASSUME IInv, NEW f \in Frame, task' = [task EXCEPT !["refresh"] = f],
         InPlace(f, RefreshPlaces, {}), task["refresh"].at # "dead", f.at # "dead",
         task["refresh"].st # "sent", f.st # "sent",
         UNCHANGED <<ec, cfg, err, wd, cv, lock, q, recOk, closing, owned>>,
         snap' = snap \/ snap' = Refreshed("refresh")
  PROVE  IInv'
<1>1. task \in [Tasks -> Frame] /\ ~Booting /\ ~Gone /\ task["main"].at # "sdDrain"
      /\ task["main"].ret # "sdDrain" /\ task["main"].at # "sdWd" /\ task["main"].ret # "sdWd"
  BY DEF IInv, FramesOK, LifeOK, StopsOK
<1>2. /\ task' \in [Tasks -> Frame] /\ task'["refresh"] = f
      /\ task'["main"] = task["main"] /\ task'["user"] = task["user"]
      /\ task'["watchdog"] = task["watchdog"]
      /\ task'["curve"] = task["curve"] /\ task'["recovery"] = task["recovery"]
  BY <1>1 DEF Tasks
<1>3. (Told => Told') /\ (Covered => Covered') /\ (Safe => Safe')
  <2>1. CASE snap' = snap
    BY <2>1, Still DEF Told, Covered
  <2>2. CASE snap' = Refreshed("refresh")
    BY <2>2, RefreshCovers
  <2> QED
    BY <2>1, <2>2
<1>4. FramesOK'
  BY <1>2 DEF IInv, FramesOK
<1>5. QueueOK'
  <2>1. \A t \in Tasks : task'[t] = task[t] \/ (task[t].st # "sent" /\ task'[t].st # "sent")
    BY <1>2 DEF Tasks
  <2> QED
    BY <2>1, QueueStays DEF IInv
<1>6. LockOK'
  BY <1>2 DEF IInv, LockOK
<1>7. LifeOK'
  BY <1>1, <1>2, Still DEF IInv, LifeOK
<1>8. StopsOK'
  BY <1>1, <1>2 DEF IInv, StopsOK, WatchdogStops
<1>9. RecoveryOK'
  BY <1>2, <1>3, RecoveryStays DEF IInv
<1>10. PendingOK'
  BY <1>2, Still DEF IInv, PendingOK, Restorers
<1>11. RestoreOK'
  BY <1>2, <1>3, Still DEF IInv, RestoreOK, Restorers
<1>12. PlaceOK'
  BY <1>1, <1>2, <1>3, Still DEF IInv, PlaceOK
<1>13. GuardOK'
  BY <1>2, <1>3, Still DEF IInv, GuardOK, AtRest
<1> QED
  BY <1>4, <1>5, <1>6, <1>7, <1>8, <1>9, <1>10, <1>11, <1>12, <1>13 DEF IInv

LEMMA KeepsRefreshBegins ==
  ASSUME IInv, RefreshBegins
  PROVE  IInv'
<1>1. /\ task["refresh"].at = "sleep" /\ task' = [task EXCEPT !["refresh"] = At("rfRead")]
      /\ UNCHANGED <<ec, cfg, err, wd, cv, snap, lock, q, recOk, closing, owned>>
  BY DEF RefreshBegins, lifeVars
<1>2. /\ At("rfRead") \in Frame /\ InPlace(At("rfRead"), RefreshPlaces, {})
      /\ At("rfRead").at = "rfRead" /\ At("rfRead").st = "want"
  BY Arrives DEF InPlace, RefreshPlaces, Labels, Calls, PlainCalls
<1>3. task["refresh"].st # "sent"
  BY <1>1 DEF IInv, FramesOK, InPlace, Calls, SafeCalls, PlainCalls
<1> QED
  BY <1>1, <1>2, <1>3, RefreshMoves

LEMMA KeepsRefreshEnds ==
  ASSUME IInv, RefreshEnds
  PROVE  IInv'
<1>1. /\ task["refresh"].at = "rfRead" /\ task["refresh"].st # "sent"
      /\ task' = [task EXCEPT !["refresh"] = At("sleep")] /\ snap' = Refreshed("refresh")
      /\ UNCHANGED <<ec, cfg, err, wd, cv, lock, q, recOk, closing, owned>>
  BY DEF RefreshEnds, RefreshesAll, Answered
<1>2. /\ At("sleep") \in Frame /\ InPlace(At("sleep"), RefreshPlaces, {})
      /\ At("sleep").at = "sleep" /\ At("sleep").st = "none"
  BY Arrives DEF InPlace, RefreshPlaces, Labels, Calls, SafeCalls, PlainCalls
<1> QED
  BY <1>1, <1>2, RefreshMoves

\* A step of the task that tracks a recovery: the outcome is known.
LEMMA RecoveryMoves ==
  ASSUME IInv, NEW l \in {"idle", "rcRefresh"}, task' = [task EXCEPT !["recovery"] = At(l)],
         Pending, task["recovery"].st # "sent", UNCHANGED <<ec, cfg, wd, cv, lock, q, closing, cap, owned>>,
         IF recOk' THEN ~Danger ELSE Told', l = "rcRefresh" => recOk'
  PROVE  IInv'
<1>1. task \in [Tasks -> Frame] /\ At(l) \in Frame /\ At(l).at = l /\ At(l).ret = "none"
      /\ At(l).st = IF l = "rcRefresh" THEN "want" ELSE "none"
  BY Arrives DEF IInv, FramesOK, Labels, Calls, SafeCalls, PlainCalls
<1>2. /\ task' \in [Tasks -> Frame] /\ task'["recovery"] = At(l)
      /\ task'["main"] = task["main"] /\ task'["user"] = task["user"]
      /\ task'["watchdog"] = task["watchdog"]
      /\ task'["curve"] = task["curve"] /\ task'["refresh"] = task["refresh"]
  BY <1>1 DEF Tasks
<1>3. Safe' /\ Covered' /\ (Danger' <=> Danger)
  BY Still DEF Safe, Told, Covered
<1>4. FramesOK'
  <2>1. InPlace(At(l), RecoveryPlaces, {})
    BY <1>1 DEF InPlace, RecoveryPlaces, Calls, PlainCalls
  <2> QED
    BY <1>2, <2>1 DEF IInv, FramesOK
<1>5. QueueOK'
  <2>1. \A t \in Tasks : task'[t] = task[t] \/ (task[t].st # "sent" /\ task'[t].st # "sent")
    BY <1>1, <1>2 DEF Tasks
  <2> QED
    BY <2>1, QueueStays DEF IInv
<1>6. LockOK'
  BY <1>2 DEF IInv, LockOK
<1>7. LifeOK'
  BY <1>1, <1>2, Still DEF IInv, LifeOK, Pending
<1>8. StopsOK'
  BY <1>2 DEF IInv, StopsOK
<1>9. RecoveryOK'
  BY <1>1, <1>2, <1>3 DEF RecoveryOK
<1>10. PendingOK'
  BY <1>2 DEF IInv, PendingOK, Restorers
<1>11. RestoreOK'
  BY <1>2, <1>3 DEF IInv, RestoreOK, Restorers
<1>12. PlaceOK'
  BY <1>2, <1>3 DEF IInv, PlaceOK
<1>13. GuardOK'
  BY <1>3 DEF GuardOK
<1> QED
  BY <1>4, <1>5, <1>6, <1>7, <1>8, <1>9, <1>10, <1>11, <1>12, <1>13 DEF IInv

LEMMA KeepsRecoveryAnswered ==
  ASSUME IInv, RecoveryAnswered
  PROVE  IInv'
<1>1. /\ task["recovery"].at = "rcWait" /\ task["recovery"].st \in {"ok", "bad"}
      /\ recOk' = (task["recovery"].st = "ok") /\ err' = ~recOk'
      /\ snap' = (IF recOk' THEN snap ELSE "failed_safe")
      /\ task' = [task EXCEPT !["recovery"] = IF recOk' /\ ~closing THEN At("rcRefresh") ELSE At("idle")]
      /\ UNCHANGED <<ec, cfg, wd, cv, lock, q, closing, cap, owned>>
  BY DEF RecoveryAnswered, lifeVars
<1>2. Pending /\ (task["recovery"].st = "ok" => ~Danger)
  BY <1>1 DEF Pending, IInv, RecoveryOK
<1>3. IF recOk' THEN ~Danger ELSE Told'
  BY <1>1, <1>2 DEF Told
<1>4. CASE recOk' /\ ~closing
  BY <1>1, <1>2, <1>3, <1>4, RecoveryMoves
<1>5. CASE ~(recOk' /\ ~closing)
  BY <1>1, <1>2, <1>3, <1>5, RecoveryMoves
<1> QED
  BY <1>4, <1>5

LEMMA KeepsRecoveryRefreshed ==
  ASSUME IInv, RecoveryRefreshed
  PROVE  IInv'
<1>1. /\ task["recovery"].at = "rcRefresh" /\ task["recovery"].st # "sent"
      /\ task' = [task EXCEPT !["recovery"] = At("idle")]
      /\ UNCHANGED <<ec, cfg, err, wd, cv, lock, q, recOk, closing, cap, owned>>
  BY DEF RecoveryRefreshed, Answered, lifeVars
<1>2. Pending /\ ~Danger /\ recOk'
  BY <1>1 DEF Pending, IInv, RecoveryOK
<1> QED
  BY <1>1, <1>2, RecoveryMoves
-----------------------------------------------------------------------------
(* The command queue.                                                      *)

\* A task stays where it is; only t learns something.
Stays(u, t) ==
    /\ task'[u].at = task[u].at /\ task'[u].ret = task[u].ret
    /\ u # t => task'[u].st = task[u].st
AllStay(t) ==
    /\ Stays("main", t) /\ Stays("user", t) /\ Stays("watchdog", t)
    /\ Stays("curve", t) /\ Stays("refresh", t) /\ Stays("recovery", t)

\* Only a task at a call waits for one, and a fan call is made inside the lock,
\* by a start-up or by a shutdown.
LEMMA Callers ==
  ASSUME IInv, NEW t \in Tasks, task[t].st \in {"want", "sent"}
  PROVE  /\ task[t] \in Frame /\ task[t].at \in Calls
         /\ task[t].at \in SafeCalls => t \in Restorers
         /\ task[t].at \in {"maMode", "maSpeed"} => t = "user"
         /\ task[t].at \in {"cvTemp", "cvMode", "cvSpeed"} => t = "curve"
         /\ task[t].at \in {"wdTemp", "wdSpeed"} => t = "watchdog"
         /\ task[t].at = "stAuto" => t = "user"
         /\ task[t].at = "bootRead" => t = "main"
         /\ task[t].at = "rcRefresh" => t = "recovery"
         /\ t = "recovery" => task[t].at = "rcRefresh"
         /\ t = "user" => lock = "user"
         /\ t = "watchdog" => lock = "watchdog"
         /\ t = "curve" => lock = "curve"
         /\ t = "main" => Booting \/ lock = "main"
<1> USE DEF IInv, FramesOK, InPlace, Restores, Calls, SafeCalls, PlainCalls
<1>1. CASE t = "main"
  BY <1>1 DEF MainPlaces, MainReturns, Stopping, Restorers, Booting, LockOK
<1>2. CASE t = "user"
  BY <1>2 DEF UserPlaces, UserOutside, UseCaseLocks, UserReturns, Restorers, LockOK
<1>3. CASE t = "watchdog"
  BY <1>3 DEF WatchdogPlaces, WatchdogOutside, WatchdogReturns, Restorers, LockOK
<1>4. CASE t = "curve"
  BY <1>4 DEF CurvePlaces, CurveOutside, CurveReturns, Restorers, LockOK
<1>5. CASE t \in {"refresh", "recovery"}
  BY <1>5 DEF RefreshPlaces, RecoveryPlaces, RecoveryOK
<1> QED
  BY <1>1, <1>2, <1>3, <1>4, <1>5 DEF Tasks

\* The call of a task makes progress, and nobody moves.
LEMMA Answering ==
  ASSUME FramesOK, NEW t \in Tasks,
         NEW v \in {"sent", "ok", "bad", "hot", "busy", "timeout"}, v = "sent" => task[t].at \in Calls,
         task' = [task EXCEPT ![t].st = v]
  PROVE  FramesOK' /\ AllStay(t) /\ task'[t].st = v
<1>1. /\ task' \in [Tasks -> Frame] /\ task'[t] = [task[t] EXCEPT !.st = v]
      /\ \A u \in Tasks \ {t} : task'[u] = task[u]
  BY DEF FramesOK, Frame
<1>2. task[t] \in Frame
  BY DEF FramesOK
<1>3. ASSUME NEW places, NEW returns, InPlace(task[t], places, returns)
      PROVE  InPlace(task'[t], places, returns)
  BY <1>1, <1>2, <1>3, StateChanges
<1>4. FramesOK'
  BY <1>1, <1>3 DEF FramesOK, Tasks
<1>5. task'[t].at = task[t].at /\ task'[t].ret = task[t].ret /\ task'[t].st = v
  BY <1>1, <1>2 DEF Frame
<1>6. AllStay(t)
  BY <1>1, <1>5 DEF AllStay, Stays, Tasks
<1> QED
  BY <1>4, <1>5, <1>6

\* While nobody moves, the structure stays.
LEMMA StructureStays ==
  ASSUME IInv, NEW t, AllStay(t), UNCHANGED <<lock, wd, cv, closing>>
  PROVE  /\ LockOK' /\ StopsOK' /\ (Booting' <=> Booting) /\ (Gone' <=> Gone) /\ (Up' <=> Up)
         /\ (AtRest' <=> AtRest) /\ (Pending' <=> Pending)
<1>1. LockOK'
  BY DEF IInv, LockOK, AllStay, Stays
<1>2. StopsOK'
  BY DEF IInv, StopsOK, AllStay, Stays
<1>3. (Booting' <=> Booting) /\ (Gone' <=> Gone) /\ (Up' <=> Up)
  BY DEF Booting, Gone, Up, AllStay, Stays
<1>4. (AtRest' <=> AtRest) /\ (Pending' <=> Pending)
  BY DEF AtRest, Pending, AllStay, Stays
<1> QED
  BY <1>1, <1>2, <1>3, <1>4

\* When a process is booting or gone, and what its queue holds then.
LEMMA BootCalls ==
  ASSUME IInv, NEW t \in Tasks, task[t].st \in {"want", "sent"}
  PROVE  ~Gone /\ (task["main"].at = "bootRead" => t = "main")
<1>1. ~Gone
  <2>1. CASE t = "main"
    BY <2>1 DEF IInv, FramesOK, InPlace, Calls, SafeCalls, PlainCalls, Gone
  <2>2. CASE t # "main"
    BY <2>2, Callers DEF IInv, LifeOK, LockOK, Gone, Tasks, UserOutside, WatchdogOutside, CurveOutside,
       Calls, SafeCalls, PlainCalls
  <2> QED
    BY <2>1, <2>2
<1>2. task["main"].at = "bootRead" => t = "main"
  BY Callers DEF IInv, LifeOK, LockOK, Booting, Tasks, UserOutside, WatchdogOutside, CurveOutside,
     Calls, SafeCalls, PlainCalls
<1> QED
  BY <1>1, <1>2

LEMMA KeepsAdmit ==
  ASSUME IInv, NEW t \in Tasks, Admit(t)
  PROVE  IInv'
<1>1. /\ task[t].st = "want" /\ q.call = "none" /\ task' = [task EXCEPT ![t].st = "sent"]
      /\ q' = [call |-> task[t].at, by |-> t, rescue |-> FALSE]
      /\ UNCHANGED <<ec, cfg, err, wd, cv, snap, lock, recOk, closing, cap>>
      /\ owned' = (owned \/ Command(task[t].at) = "manual")
  BY DEF Admit, lifeVars
<1>2. /\ task[t].at \in Calls /\ q = IdleQueue /\ ~RescueReserved /\ ~Poisoned'
  BY <1>1, Callers DEF IInv, QueueOK, IdleQueue, RescueReserved, Poisoned, Tasks
<1>3. FramesOK' /\ AllStay(t) /\ task'[t].st = "sent"
  BY <1>1, <1>2, Answering DEF IInv
<1>4. /\ LockOK' /\ StopsOK' /\ (Booting' <=> Booting) /\ (Gone' <=> Gone) /\ (Up' <=> Up)
      /\ (AtRest' <=> AtRest) /\ (Pending' <=> Pending)
  BY <1>1, <1>3, StructureStays
<1>5. QueueOK'
  BY <1>1, <1>2, <1>3 DEF IInv, QueueOK, IdleQueue, AllStay, Stays, Calls, SafeCalls, PlainCalls, Tasks
<1>6. task["main"].at = "bootRead" => t = "main"
  BY <1>1, BootCalls
<1>7. LifeOK'
  BY <1>1, <1>2, <1>3, <1>4, <1>6, BootCalls DEF IInv, LifeOK, AllStay, Stays
<1>8. CASE task[t].at \in ManualCalls
  <2>1. /\ \/ t = "user" /\ task["user"].at = "maMode" /\ lock = "user"
           \/ t = "curve" /\ task["curve"].at = "cvMode" /\ lock = "curve"
    BY <1>1, <1>8, Callers DEF ManualCalls
  <2>2. ~Pending
    BY <1>1, <2>1 DEF IInv, PendingOK
  <2>3. /\ t # "user" => Rests("user") /\ task["user"].at \in UserOutside
        /\ t # "watchdog" => Rests("watchdog")
        /\ t # "curve" => Rests("curve") /\ task["curve"].at \in CurveOutside
        /\ t # "main" => Rests("main") /\ task["main"].at # "sdDrain"
    BY <2>1, OutsideRests, InsideServes
  <2>4. RecoveryOK'
    BY <1>4, <2>2, <1>3 DEF RecoveryOK, Pending
  <2>5. PendingOK'
    BY <1>4, <2>2 DEF PendingOK
  <2>6. RestoreOK'
    BY <1>1, <1>3, <1>4, <2>1, <2>2, <2>3
    DEF IInv, RestoreOK, AllStay, Stays, Restorers, Rests, Restores, AfterRestore
  <2>7. PlaceOK'
    <3>1. task["user"].ret = "none" /\ task["user"].at \notin {"stAuto", "stStopped", "stRefresh"}
      BY <2>1, <2>3 DEF Rests, IInv, FramesOK, InPlace, Restores, UserOutside, UseCaseLocks
    <3>2. /\ task["user"].at # "cuRefresh" /\ task["main"].at # "sdDrain"
          /\ task'["user"].at \in {"maMode", "maSpeed"} => task'["user"].st # "timeout"
          /\ task'["curve"].at \in {"cvMode", "cvSpeed"} => task'["curve"].st # "timeout"
      BY <1>3, <2>1, <2>3 DEF AllStay, Stays, UserOutside, UseCaseLocks, CurveOutside
    <3> QED
      BY <1>1, <1>3, <3>1, <3>2 DEF IInv, PlaceOK, AllStay, Stays
  <2>8. GuardOK'
    <3>1. task["watchdog"].at \in WatchdogOutside
      BY <2>1, OutsideRests
    <3> QED
      BY <1>4, <2>1, <2>3, <3>1 DEF GuardOK, AtRest, UserOutside, UseCaseLocks, WatchdogOutside, CurveOutside
  <2> QED
    BY <1>3, <1>4, <1>5, <1>7, <2>4, <2>5, <2>6, <2>7, <2>8 DEF IInv
<1>9. CASE task[t].at \notin ManualCalls
  <2>1. (Danger' <=> Danger) /\ (Told' <=> Told) /\ (Safe' <=> Safe) /\ (Covered' <=> Covered)
    BY <1>1, <1>2, <1>9 DEF Danger, Told, Safe, Covered, IdleQueue, ManualCalls
  <2>2. Up /\ owned' => owned
    BY <1>1, <1>9, Callers DEF Command, ManualCalls, Up, IInv, FramesOK, InPlace, Restorers,
       UserReturns, WatchdogReturns, CurveReturns, Restores, SafeCalls,
       UserPlaces, UserOutside, UseCaseLocks, WatchdogPlaces, WatchdogOutside, CurvePlaces, CurveOutside
  <2>3. RecoveryOK'
    BY <1>1, <1>2, <1>3, <2>1 DEF IInv, RecoveryOK, AllStay, Stays
  <2>4. PendingOK'
    BY <1>1, <1>3, <1>4 DEF IInv, PendingOK, AllStay, Stays, Restorers
  <2>5. RestoreOK'
    BY <1>1, <1>3, <1>4, <2>1, Callers DEF IInv, RestoreOK, AllStay, Stays, Restorers, AfterRestore,
       Calls, SafeCalls, PlainCalls
  <2>6. PlaceOK'
    BY <1>1, <1>3, <2>1 DEF IInv, PlaceOK, AllStay, Stays
  <2>7. GuardOK'
    BY <1>1, <1>4, <2>1, <2>2 DEF IInv, GuardOK
  <2> QED
    BY <1>3, <1>4, <1>5, <1>7, <2>3, <2>4, <2>5, <2>6, <2>7 DEF IInv
<1> QED
  BY <1>8, <1>9

LEMMA KeepsRejectBusy ==
  ASSUME IInv, NEW t \in Tasks, RejectBusy(t)
  PROVE  IInv'
<1>1. /\ task[t].st = "want" /\ Poisoned /\ task' = [task EXCEPT ![t].st = "busy"]
      /\ UNCHANGED <<ec, cfg, err, wd, cv, snap, lock, q, recOk, closing, cap, owned>>
  BY DEF RejectBusy, lifeVars
<1>2. task[t].at \in Calls
  BY <1>1, Callers
<1>3. FramesOK' /\ AllStay(t) /\ task'[t].st = "busy"
  BY <1>1, <1>2, Answering DEF IInv
<1>4. /\ LockOK' /\ StopsOK' /\ (Booting' <=> Booting) /\ (Gone' <=> Gone) /\ (Up' <=> Up)
      /\ (AtRest' <=> AtRest) /\ (Pending' <=> Pending)
  BY <1>1, <1>3, StructureStays
<1>5. (Danger' <=> Danger) /\ (Told' <=> Told) /\ (Safe' <=> Safe) /\ (Covered' <=> Covered)
      /\ (owned' <=> owned) /\ (RescueReserved' <=> RescueReserved) /\ (Poisoned' <=> Poisoned)
  BY <1>1, Still DEF Told, Covered
<1>6. QueueOK'
  BY <1>1, <1>3 DEF IInv, QueueOK, IdleQueue, AllStay, Stays, Tasks
<1>7. LifeOK'
  BY <1>1, <1>3, <1>4, <1>5, BootCalls DEF IInv, LifeOK, AllStay, Stays
<1>8. RecoveryOK'
  BY <1>1, <1>3, <1>5 DEF IInv, RecoveryOK, AllStay, Stays
<1>9. PendingOK'
  BY <1>1, <1>3, <1>4 DEF IInv, PendingOK, AllStay, Stays, Restorers
<1>10. RestoreOK'
  BY <1>1, <1>2, <1>3, <1>4, <1>5 DEF IInv, RestoreOK, AllStay, Stays, Restorers, AfterRestore,
     Calls, SafeCalls, PlainCalls
<1>11. PlaceOK'
  BY <1>1, <1>3, <1>5 DEF IInv, PlaceOK, AllStay, Stays
<1>12. GuardOK'
  BY <1>1, <1>4, <1>5 DEF IInv, GuardOK
<1> QED
  BY <1>3, <1>4, <1>6, <1>7, <1>8, <1>9, <1>10, <1>11, <1>12 DEF IInv

\* What a command gives, and what it makes of the fan.
LEMMA OutcomesAre ==
  ASSUME NEW l, NEW o \in Outcomes(l)
  PROVE  /\ o[1] \in {"ok", "bad", "hot"}
         /\ o[2] = "manual" => ec = "manual" \/ l \in ManualCalls
         /\ l \in {"stAuto", "rsAuto", "rescue"} => o[1] # "hot" /\ (o[1] = "ok" => o[2] = "auto")
  BY DEF Outcomes, Command, ManualCalls

LEMMA KeepsReturn ==
  ASSUME IInv, Return
  PROVE  IInv'
<1>1. /\ q.call # "none" /\ UNCHANGED <<cfg, err, wd, cv, snap, lock, recOk, closing, cap, owned>>
      /\ q' = (IF q.rescue THEN [IdleQueue EXCEPT !.call = "rescue"] ELSE IdleQueue)
  BY DEF Return, lifeVars
<1>2. PICK o \in Outcomes(q.call) :
        /\ ec' = o[2]
        /\ task' = IF q.by # "nobody" THEN [task EXCEPT ![q.by].st = o[1]]
                   ELSE IF q.call = "rescue" /\ task["recovery"].at = "rcWait"
                   THEN [task EXCEPT !["recovery"].st = o[1]]
                   ELSE task
  BY DEF Return
<1>3. /\ q'.by = "nobody" /\ q'.rescue = FALSE /\ q'.call = (IF q.rescue THEN "rescue" ELSE "none")
      /\ (q'.call = "none" => q' = IdleQueue)
      /\ q' \in [call : Calls \cup {"none", "rescue"}, by : Tasks \cup {"nobody"}, rescue : BOOLEAN]
  BY <1>1 DEF IdleQueue
<1>4. /\ Danger' => Danger
      /\ q.call \in {"stAuto", "rsAuto", "rescue"} => o[1] # "hot" /\ (o[1] = "ok" => ~Danger')
      /\ o[1] \in {"ok", "bad", "hot"}
  BY <1>2, <1>3, OutcomesAre DEF Danger, ManualCalls
<1>5. (Told' <=> Told) /\ (Safe => Safe') /\ (Covered => Covered') /\ (owned' <=> owned)
  BY <1>1, <1>4 DEF Told, Safe, Covered
<1>6. PICK t \in Tasks \cup {"nobody"} :
        /\ t = "nobody" => task' = task /\ q.by = "nobody" /\ (q.call = "rescue" => task["recovery"].at # "rcWait")
        /\ t # "nobody" => task' = [task EXCEPT ![t].st = o[1]]
        /\ t # "nobody" => \/ q.by = t /\ q.call = task[t].at /\ task[t].st = "sent"
                           \/ t = "recovery" /\ q.call = "rescue" /\ task[t].at = "rcWait" /\ q.by = "nobody"
  <2>1. CASE q.by # "nobody"
    <3>1. q.by \in Tasks
      BY <2>1 DEF IInv, QueueOK
    <3>2. q.call = task[q.by].at /\ task[q.by].st = "sent"
      BY <3>1 DEF IInv, QueueOK
    <3> QED
      BY <1>2, <2>1, <3>1, <3>2
  <2>2. CASE q.by = "nobody" /\ q.call = "rescue" /\ task["recovery"].at = "rcWait"
    BY <1>2, <2>2 DEF Tasks
  <2>3. CASE q.by = "nobody" /\ ~(q.call = "rescue" /\ task["recovery"].at = "rcWait")
    BY <1>2, <2>3
  <2> QED
    BY <2>1, <2>2, <2>3
<1>7. FramesOK' /\ AllStay(t) /\ (t # "nobody" => task'[t].st = o[1])
  <2>1. CASE t = "nobody"
    BY <1>6, <2>1 DEF IInv, FramesOK, AllStay, Stays
  <2>2. CASE t # "nobody"
    BY <1>4, <1>6, <2>2, Answering DEF IInv
  <2> QED
    BY <2>1, <2>2
<1>8. /\ LockOK' /\ StopsOK' /\ (Booting' <=> Booting) /\ (Gone' <=> Gone) /\ (Up' <=> Up)
      /\ (AtRest' <=> AtRest) /\ (Pending' <=> Pending)
  BY <1>1, <1>7, StructureStays
<1>9. QueueOK'
  <2>1. \A u \in Tasks : task'[u].st # "sent"
    <3>1. \A u \in Tasks \ {t} : task'[u].st = task[u].st
      BY <1>7 DEF AllStay, Stays, Tasks
    <3>2. t \in Tasks => task'[t].st # "sent"
      BY <1>4, <1>6, <1>7 DEF Tasks
    <3>3. \A u \in Tasks \ {t} : task[u].st # "sent"
      <4>1. q.by \notin Tasks \ {t}
        BY <1>6 DEF Tasks
      <4> QED
        BY <4>1 DEF IInv, QueueOK
    <3> QED
      BY <3>1, <3>2, <3>3
  <2> QED
    BY <1>3, <2>1 DEF QueueOK, IdleQueue, Tasks, Calls, SafeCalls, PlainCalls
<1>10. LifeOK'
  <2>1. ~Gone
    BY <1>1 DEF IInv, LifeOK, IdleQueue
  <2>2. task["main"].at = "bootRead" => q'.call = "none"
    BY <1>3 DEF IInv, LifeOK, QueueOK, SafeCalls
  <2> QED
    BY <1>1, <1>7, <1>8, <2>1, <2>2 DEF IInv, LifeOK, AllStay, Stays, Poisoned
<1>11. RecoveryOK'
  <2>1. task'["recovery"].at = task["recovery"].at /\ (t # "recovery" => task'["recovery"].st = task["recovery"].st)
    BY <1>7 DEF AllStay, Stays
  <2>2. CASE task["recovery"].at = "rcWait"
    <3>1. CASE t = "recovery"
      <4>1. q.call = "rescue"
        BY <1>6, <2>2, <3>1 DEF IInv, RecoveryOK, Tasks
      <4> QED
        BY <1>4, <1>5, <1>7, <2>1, <2>2, <3>1, <4>1 DEF IInv, RecoveryOK, Tasks
    <3>2. CASE t # "recovery"
      <4>1. RescueReserved => RescueReserved' \/ q.call = "rescue"
        BY <1>3 DEF RescueReserved
      <4>2. q.call # "rescue"
        BY <1>6, <2>2, <3>2, Callers DEF IInv, QueueOK
      <4> QED
        BY <1>4, <1>5, <2>1, <2>2, <3>2, <4>1, <4>2 DEF IInv, RecoveryOK
    <3> QED
      BY <3>1, <3>2
  <2>3. CASE task["recovery"].at # "rcWait"
    BY <1>1, <1>4, <2>1, <2>3 DEF IInv, RecoveryOK
  <2> QED
    BY <2>2, <2>3
<1>12. PendingOK'
  <2>1. Pending /\ t \in Restorers =>
            /\ task[t].at # "rsAuto"
            /\ t = "user" => lock # "user" \/ task["user"].at \in {"maFailed", "reDone", "reRefresh"}
            /\ t = "curve" => task["curve"].at \notin {"cvTemp", "cvMode", "cvSpeed"}
    BY <1>6 DEF IInv, PendingOK, Restorers
  <2> QED
    BY <1>1, <1>4, <1>7, <1>8, <2>1 DEF IInv, PendingOK, AllStay, Stays, Restorers
<1>13. RestoreOK'
  <2>1. t \in Restorers /\ task[t].at = "rsAuto" /\ o[1] = "ok" => ~Danger'
    BY <1>4, <1>6 DEF Restorers
  <2>2. t \in Restorers => task[t].at \in Calls
    BY <1>6, Callers DEF Restorers
  <2>3. t \in Restorers => task[t].at \notin AfterRestore
    BY <2>2 DEF AfterRestore, Calls, SafeCalls, PlainCalls
  <2> QED
    BY <1>1, <1>4, <1>5, <1>7, <1>8, <2>1, <2>3 DEF IInv, RestoreOK, AllStay, Stays, Restorers
<1>14. PlaceOK'
  <2>1. t = "user" /\ task["user"].at = "stAuto" /\ o[1] = "ok" => ~Danger'
    BY <1>4, <1>6
  <2> QED
    BY <1>1, <1>4, <1>5, <1>7, <2>1 DEF IInv, PlaceOK, AllStay, Stays
<1>15. GuardOK'
  BY <1>1, <1>5, <1>8 DEF IInv, GuardOK
<1> QED
  BY <1>7, <1>8, <1>9, <1>10, <1>11, <1>12, <1>13, <1>14, <1>15 DEF IInv

\* Where a safe call can come from, and who else is inside then.
LEMMA SafeCallers ==
  ASSUME IInv, NEW t \in Restorers, task[t].st \in {"want", "sent"}, task[t].at \in SafeCalls
  PROVE  /\ \A u \in Restorers \ {t} : Rests(u)
         /\ t # "user" => task["user"].at \in UserOutside
         /\ t # "curve" => task["curve"].at \in CurveOutside
         /\ t # "main" => task["main"].at # "sdDrain"
         /\ lock = "user" => t = "user"
<1>1. t \in Tasks
  BY DEF Restorers, Tasks
<1>2. CASE t # "main"
  <2>1. lock = t /\ lock \in {"user", "watchdog", "curve"}
    BY <1>1, <1>2, Callers DEF Restorers
  <2> QED
    BY <1>2, <2>1, InsideServes, OutsideRests DEF Restorers
<1>3. CASE t = "main"
  <2>1. CASE Booting
    <3>1. lock \notin {"user", "watchdog", "curve"}
      BY <2>1, InsideServes
    <3> QED
      BY <1>3, <3>1, OutsideRests DEF Restorers
  <2>2. CASE lock = "main"
    BY <1>3, <2>2, OutsideRests DEF Restorers
  <2> QED
    BY <1>1, <1>3, <2>1, <2>2, Callers
<1> QED
  BY <1>2, <1>3

\* The deadline of a plain call passes, or of a call behind which a recovery
\* is tracked already.
LEMMA UntrackedTimeout ==
  ASSUME IInv, NEW t \in Tasks, Timeout(t), ~(task[t].at \in SafeCalls /\ ~Pending)
  PROVE  IInv'
<1>1. /\ task[t].st = "sent" /\ MayOutlast(task[t].at) /\ task[t].ret \notin CleanupLabels
      /\ q' = [q EXCEPT !.by = "nobody", !.rescue = task[t].at \in SafeCalls]
      /\ UNCHANGED <<ec, cfg, snap, wd, cv, lock, recOk, closing, cap, owned>>
      /\ err' = (err \/ FALSE)
  BY DEF Timeout, lifeVars
<1>2. task' = [task EXCEPT ![t].st = "timeout"]
  <2>1. CASE t = "recovery"
    BY <2>1 DEF Timeout, IInv, FramesOK, Frame, Tasks
  <2>2. CASE t # "recovery"
    BY <2>2 DEF Timeout, IInv, FramesOK, Frame, Tasks
  <2> QED
    BY <2>1, <2>2
<1>3. /\ q \in [call : Calls \cup {"none", "rescue"}, by : Tasks \cup {"nobody"}, rescue : BOOLEAN]
      /\ q.by = t /\ q.call = task[t].at /\ q.rescue = FALSE /\ task[t].at \in Calls
  <2>1. q.by = t /\ q.call = task[t].at /\ task[t].at \in Calls
    BY <1>1, Callers DEF IInv, QueueOK
  <2> QED
    BY <2>1 DEF IInv, QueueOK, Tasks
<1>4. q'.call = q.call /\ q'.by = "nobody" /\ (q'.rescue <=> task[t].at \in SafeCalls)
      /\ q' \in [call : Calls \cup {"none", "rescue"}, by : Tasks \cup {"nobody"}, rescue : BOOLEAN]
  <2>1. CASE task[t].at \in SafeCalls
    <3>1. q' = [q EXCEPT !.by = "nobody", !.rescue = TRUE]
      BY <1>1, <2>1
    <3> QED
      BY <1>3, <2>1, <3>1
  <2>2. CASE task[t].at \notin SafeCalls
    <3>1. q' = [q EXCEPT !.by = "nobody", !.rescue = FALSE]
      <4>1. (task[t].at \in SafeCalls) = FALSE
        BY <2>2
      <4> QED
        BY <1>1, <4>1
    <3> QED
      BY <1>3, <2>2, <3>1
  <2> QED
    BY <2>1, <2>2
<1>5. FramesOK' /\ AllStay(t) /\ task'[t].st = "timeout"
  BY <1>2, Answering DEF IInv
<1>6. /\ LockOK' /\ StopsOK' /\ (Booting' <=> Booting) /\ (Gone' <=> Gone) /\ (Up' <=> Up)
      /\ (AtRest' <=> AtRest) /\ (Pending' <=> Pending)
  BY <1>1, <1>5, StructureStays
<1>7. (Danger' <=> Danger) /\ (Told' <=> Told) /\ (Safe' <=> Safe) /\ (Covered' <=> Covered) /\ (owned' <=> owned)
  BY <1>1, <1>4 DEF Danger, Told, Safe, Covered
<1>8. ~RescueReserved
  BY <1>3 DEF RescueReserved, Calls, SafeCalls, PlainCalls
<1>9. QueueOK'
  <2>1. q'.call \in Calls
    BY <1>3, <1>4
  <2>2. \A u \in Tasks : task'[u].st # "sent"
    <3>1. \A u \in Tasks \ {t} : task'[u].st = task[u].st
      BY <1>5 DEF AllStay, Stays, Tasks
    <3>2. \A u \in Tasks \ {t} : task[u].st # "sent"
      BY <1>3 DEF IInv, QueueOK
    <3> QED
      BY <1>5, <3>1, <3>2
  <2> QED
    BY <1>3, <1>4, <2>1, <2>2 DEF QueueOK, Tasks, Calls, SafeCalls, PlainCalls
<1>10. LifeOK'
  <2>1. task["main"].at = "bootRead" => t = "main"
    BY <1>1, BootCalls
  <2> QED
    BY <1>1, <1>4, <1>5, <1>6, <2>1, BootCalls DEF IInv, LifeOK, AllStay, Stays
<1>11. RecoveryOK'
  <2>1. t = "recovery" => task[t].at # "rcWait"
    BY <1>3 DEF Calls, SafeCalls, PlainCalls
  <2> QED
    BY <1>1, <1>5, <1>7, <1>8, <2>1 DEF IInv, RecoveryOK, AllStay, Stays
<1>12. PendingOK'
  BY <1>1, <1>5, <1>6 DEF IInv, PendingOK, AllStay, Stays, Restorers
<1>13. task[t].at \notin {"rsAuto", "maMode", "maSpeed", "cvMode", "cvSpeed"}
  <2>1. task[t].at \in SafeCalls => Pending /\ t \in Restorers
    BY <1>1, Callers
  <2> QED
    BY <1>1, <2>1, Callers DEF IInv, PendingOK, SafeCalls
<1>14. RestoreOK'
  <2>1. task[t].at \notin AfterRestore
    BY <1>3 DEF AfterRestore, Calls, SafeCalls, PlainCalls
  <2> QED
    BY <1>1, <1>5, <1>6, <1>7, <1>13, <2>1 DEF IInv, RestoreOK, AllStay, Stays, Restorers
<1>15. PlaceOK'
  BY <1>1, <1>5, <1>7, <1>13 DEF IInv, PlaceOK, AllStay, Stays
<1>16. GuardOK'
  BY <1>1, <1>6, <1>7 DEF IInv, GuardOK
<1> QED
  BY <1>5, <1>6, <1>9, <1>10, <1>11, <1>12, <1>14, <1>15, <1>16 DEF IInv

\* The deadline of a safe call passes: the recovery behind it is tracked.
LEMMA TrackedTimeout ==
  ASSUME IInv, NEW t \in Tasks, Timeout(t), task[t].at \in SafeCalls, ~Pending
  PROVE  IInv'
<1>1. /\ task[t].st = "sent" /\ task[t].ret \notin CleanupLabels
      /\ q' = [q EXCEPT !.by = "nobody", !.rescue = TRUE]
      /\ UNCHANGED <<ec, cfg, wd, cv, lock, recOk, closing, cap, owned>>
      /\ err' = TRUE /\ snap' = "failed_safe"
      /\ task' = [task EXCEPT ![t].st = "timeout", !["recovery"] = At("rcWait")]
  BY DEF Timeout, lifeVars
<1>2. t \in Restorers /\ task \in [Tasks -> Frame] /\ At("rcWait") \in Frame
      /\ At("rcWait").at = "rcWait" /\ At("rcWait").ret = "none" /\ At("rcWait").st = "none"
  BY <1>1, Callers, Arrives DEF IInv, FramesOK, Labels, Calls, SafeCalls, PlainCalls
<1>3. /\ task' \in [Tasks -> Frame] /\ task'["recovery"] = At("rcWait")
      /\ task'[t] = [task[t] EXCEPT !.st = "timeout"]
      /\ \A u \in Tasks \ {t, "recovery"} : task'[u] = task[u]
  BY <1>1, <1>2 DEF Restorers, Tasks, Frame
<1>4. /\ task'[t].at = task[t].at /\ task'[t].ret = task[t].ret /\ task'[t].st = "timeout"
  BY <1>2, <1>3 DEF Frame, Restorers, Tasks
<1>5. /\ Stays("main", t) /\ Stays("user", t) /\ Stays("watchdog", t) /\ Stays("curve", t)
      /\ Stays("refresh", t)
  BY <1>2, <1>3, <1>4 DEF Stays, Restorers, Tasks
<1>6. Told' /\ Safe' /\ Pending' /\ Covered'
  BY <1>1, <1>2, <1>3 DEF Told, Safe, Pending, Covered
<1>7. /\ q.by = t /\ q.call = task[t].at
      /\ q'.call = q.call /\ q'.by = "nobody" /\ q'.rescue = TRUE
      /\ q' \in [call : Calls \cup {"none", "rescue"}, by : Tasks \cup {"nobody"}, rescue : BOOLEAN]
  <2>1. q \in [call : Calls \cup {"none", "rescue"}, by : Tasks \cup {"nobody"}, rescue : BOOLEAN]
        /\ q.by = t /\ q.call = task[t].at
    BY <1>1 DEF IInv, QueueOK
  <2> QED
    BY <1>1, <2>1
<1>8. (Danger' <=> Danger) /\ RescueReserved'
  BY <1>1, <1>7 DEF Danger, RescueReserved
<1>9. FramesOK'
  <2>1. ASSUME NEW places, NEW returns, InPlace(task[t], places, returns)
        PROVE  InPlace(task'[t], places, returns)
    <3>1. task[t] \in Frame
      BY <1>2
    <3>2. InPlace([task[t] EXCEPT !.st = "timeout"], places, returns)
      BY <2>1, <3>1, StateChanges
    <3> QED
      BY <1>3, <3>2
  <2>2. InPlace(task'["recovery"], RecoveryPlaces, {})
    BY <1>2, <1>3 DEF InPlace, RecoveryPlaces, Calls, SafeCalls, PlainCalls
  <2> QED
    BY <1>2, <1>3, <2>1, <2>2 DEF IInv, FramesOK, Restorers, Tasks
<1>10. QueueOK'
  <2>1. q'.call \in SafeCalls
    BY <1>7
  <2>2. \A u \in Tasks : task'[u].st # "sent"
    <3>1. \A u \in Tasks \ {t} : task[u].st # "sent"
      BY <1>7 DEF IInv, QueueOK
    <3> QED
      BY <1>2, <1>3, <1>4, <3>1
  <2> QED
    BY <1>7, <2>1, <2>2 DEF QueueOK, Tasks, SafeCalls
<1>11. (Booting' <=> Booting) /\ (Gone' <=> Gone) /\ (Up' <=> Up) /\ (AtRest' <=> AtRest)
  BY <1>1, <1>5 DEF Booting, Gone, Up, AtRest, Stays
<1>12. LockOK' /\ StopsOK'
  BY <1>1, <1>5 DEF IInv, LockOK, StopsOK, Stays
<1>13. LifeOK'
  <2>1. task["main"].at # "bootRead" /\ ~Gone
    BY <1>1, BootCalls DEF SafeCalls
  <2> QED
    BY <1>1, <1>2, <1>3, <1>5, <1>11, <2>1 DEF IInv, LifeOK, Stays
<1>14. RecoveryOK'
  BY <1>2, <1>3, <1>6, <1>8 DEF RecoveryOK
<1>15. PendingOK'
  <2>1. /\ \A u \in Restorers \ {t} : Rests(u) /\ task'[u].at = task[u].at /\ task'[u].st = task[u].st
        /\ task["user"].at \in UserOutside \/ t = "user"
        /\ task["curve"].at \in CurveOutside \/ t = "curve"
        /\ lock = "user" => t = "user"
    BY <1>1, <1>2, <1>3, SafeCallers DEF Restorers, Tasks
  <2>2. \A u \in Restorers : /\ task'[u].at = "rsAuto" => task'[u].st = "timeout"
                             /\ task'[u].at # "rsRefresh" /\ task'[u].st # "restored"
    BY <1>4, <2>1 DEF Rests, Restores, SafeCalls
  <2>3. lock' = "user" => \/ task'["user"].at \in {"maMode", "maSpeed"} /\ task'["user"].st = "timeout"
                          \/ task'["user"].at = "rsAuto" /\ task'["user"].ret \in {"maFailed", "reDone"}
    <3>1. CASE t = "user"
      BY <1>1, <1>4, <3>1
      DEF IInv, FramesOK, InPlace, UserPlaces, UserOutside, UseCaseLocks, UserReturns, Restores,
          SafeCalls, CleanupLabels
    <3> QED
      BY <1>1, <2>1, <3>1
  <2>4. task'["curve"].at \in {"cvTemp", "cvMode", "cvSpeed"} => task'["curve"].st = "timeout"
    BY <1>4, <1>5, <2>1 DEF Stays, CurveOutside
  <2> QED
    BY <2>2, <2>3, <2>4 DEF PendingOK
<1>16. RestoreOK'
  <2>1. task[t].at \notin AfterRestore
    BY DEF AfterRestore, SafeCalls
  <2> QED
    BY <1>4, <1>5, <1>6, <1>8, <2>1 DEF IInv, RestoreOK, Stays, Restorers
<1>17. PlaceOK'
  BY <1>1, <1>4, <1>5, <1>6, <1>8 DEF IInv, PlaceOK, Stays
<1>18. GuardOK'
  BY <1>6 DEF GuardOK
<1> QED
  BY <1>9, <1>10, <1>12, <1>13, <1>14, <1>15, <1>16, <1>17, <1>18 DEF IInv

LEMMA KeepsTimeout ==
  ASSUME IInv, NEW t \in Tasks, Timeout(t)
  PROVE  IInv'
  BY UntrackedTimeout, TrackedTimeout
-----------------------------------------------------------------------------
(* Restores.                                                               *)

\* A restore is made by its task, and returns to one of that task's places.
LEMMA RestoringTask ==
  ASSUME IInv, NEW t \in Tasks, task[t].at \in Restores
  PROVE  /\ t \in Restorers /\ task[t] \in Frame
         /\ t = "main" => task[t].ret \in MainReturns
         /\ t = "user" => task[t].ret \in UserReturns /\ lock = "user"
         /\ t = "watchdog" => task[t].ret \in WatchdogReturns /\ lock = "watchdog"
         /\ t = "curve" => task[t].ret \in CurveReturns /\ lock = "curve"
<1> USE DEF IInv, FramesOK, InPlace, Restores, LockOK
<1>1. CASE t = "main"
  BY <1>1 DEF MainPlaces, Stopping, Restorers
<1>2. CASE t = "user"
  BY <1>2 DEF UserPlaces, UserOutside, UseCaseLocks, Restorers
<1>3. CASE t = "watchdog"
  BY <1>3 DEF WatchdogPlaces, WatchdogOutside, Restorers
<1>4. CASE t = "curve"
  BY <1>4 DEF CurvePlaces, CurveOutside, Restorers
<1>5. CASE t \in {"refresh", "recovery"}
  BY <1>5 DEF RefreshPlaces, RecoveryPlaces
<1> QED
  BY <1>1, <1>2, <1>3, <1>4, <1>5 DEF Tasks

\* The others do not move at all.
Same(u, t) == u # t => task'[u] = task[u]
OthersSame(t) ==
    /\ Same("main", t) /\ Same("user", t) /\ Same("watchdog", t)
    /\ Same("curve", t) /\ Same("refresh", t) /\ Same("recovery", t)

\* A restore ends, with what its caller may rely on.
LEMMA LeavesRestore ==
  ASSUME IInv, NEW t \in Tasks, task[t].at \in Restores, NEW r \in {"restored", "unrestored"},
         task' = [task EXCEPT ![t] = Back(t, r)],
         UNCHANGED <<ec, cfg, wd, cv, lock, recOk, closing, cap, owned>>,
         QueueOK', q' = q \/ ~Booting, Danger' <=> Danger, RescueReserved => RescueReserved',
         Told /\ Pending => Told', Safe => Safe', Covered => Covered',
         r = "restored" => ~Danger /\ ~Pending,
         r = "unrestored" /\ task[t].ret \notin CleanupLabels => Safe',
         t = "user" /\ Pending => task[t].ret \in {"maFailed", "reDone"}
  PROVE  IInv'
<1>1. t \in Restorers /\ task[t] \in Frame /\ task \in [Tasks -> Frame]
  BY RestoringTask DEF IInv, FramesOK
<1>2. Back(t, r) \in Frame /\ Back(t, r).at = task[t].ret /\ Back(t, r).ret = "none" /\ Back(t, r).st = r
  BY <1>1, Returning
<1>3. /\ task' \in [Tasks -> Frame] /\ OthersSame(t)
      /\ task'[t] \in Frame /\ task'[t].at = task[t].ret /\ task'[t].ret = "none" /\ task'[t].st = r
  BY <1>1, <1>2 DEF OthersSame, Same, Tasks
<1>4. Pending' <=> Pending
  BY <1>1, <1>3 DEF Pending, OthersSame, Same, Restorers
<1>5. /\ t = "main" => task[t].ret \in MainReturns
      /\ t = "user" => task[t].ret \in UserReturns /\ lock = "user"
      /\ t = "watchdog" => task[t].ret \in WatchdogReturns /\ lock = "watchdog"
      /\ t = "curve" => task[t].ret \in CurveReturns /\ lock = "curve"
  BY RestoringTask
<1>6. FramesOK'
  <2>1. ASSUME NEW places, NEW returns, returns \subseteq places, task[t].ret \in returns
        PROVE  InPlace(task'[t], places, returns)
    BY <1>3, <2>1 DEF InPlace
  <2>2. /\ t = "main" => InPlace(task'["main"], MainPlaces, MainReturns)
        /\ t = "user" => InPlace(task'["user"], UserPlaces, UserReturns)
        /\ t = "watchdog" => InPlace(task'["watchdog"], WatchdogPlaces, WatchdogReturns)
        /\ t = "curve" => InPlace(task'["curve"], CurvePlaces, CurveReturns)
    BY <1>5, <2>1, PlacesAreLabels
  <2> QED
    BY <1>1, <1>3, <2>2 DEF IInv, FramesOK, OthersSame, Same, Restorers
<1>7. (Booting' <=> Booting) /\ ~Gone' /\ ~Gone
  <2>1. CASE t = "main"
    BY <1>3, <1>5, <2>1 DEF Booting, Gone, MainReturns, Stopping, Restores
  <2>2. CASE t # "main"
    BY <1>1, <1>3, <1>5, <2>2, InsideServes DEF Booting, Gone, OthersSame, Same, Restorers
  <2> QED
    BY <2>1, <2>2
<1>8. LockOK'
  BY <1>1, <1>3, <1>5 DEF IInv, LockOK, OthersSame, Same, Restorers, MainReturns, Stopping, Restores,
     UserOutside, UseCaseLocks, UserReturns, WatchdogOutside, WatchdogReturns, CurveOutside, CurveReturns
<1>9. LifeOK'
  <2>1. (task'["watchdog"].at # "dead" <=> task["watchdog"].at # "dead")
        /\ (task'["curve"].at # "dead" <=> task["curve"].at # "dead")
    BY <1>3, <1>5 DEF OthersSame, Same, WatchdogReturns, CurveReturns, Restores
  <2>2. /\ \/ task'["main"].at # "bootRead" /\ task'["main"].ret # "booted"
           \/ task'["main"] = task["main"]
        /\ task'["main"].at = "sdLock" <=> task["main"].at = "sdLock"
        /\ task'["main"].at = "sdDrain" \/ task'["main"].ret = "sdDrain" =>
               task["main"].at = "sdDrain" \/ task["main"].ret = "sdDrain"
    BY <1>3, <1>5 DEF OthersSame, Same, MainReturns, Stopping, Restores
  <2>3. Booting => t = "main"
    BY <1>1, <1>5, InsideServes DEF Restorers
  <2>4. task'["recovery"] = task["recovery"] /\ task'["refresh"] = task["refresh"]
    BY <1>1, <1>3 DEF OthersSame, Same, Restorers
  <2>5. Booting => task'["user"] = task["user"]
    BY <1>3, <2>3 DEF OthersSame, Same
  <2>6. task'["main"].at = "bootRead" => Booting
    BY <1>7 DEF Booting
  <2>7. Booting => (cap => owned)
    BY <2>3 DEF IInv, LifeOK, Restores
  <2> QED
    BY <1>7, <2>1, <2>2, <2>4, <2>5, <2>6, <2>7, Still DEF IInv, LifeOK
<1>10. StopsOK'
  BY <1>1, <1>3, <1>5 DEF IInv, StopsOK, OthersSame, Same, Restorers, WatchdogStops
<1>11. RecoveryOK'
  <2>1. task'["recovery"] = task["recovery"]
    BY <1>1, <1>3 DEF OthersSame, Same, Restorers
  <2> QED
    BY <2>1 DEF IInv, RecoveryOK, Pending
<1>12. PendingOK'
  <2>1. task'[t].at \notin Restores
    BY <1>1, <1>3, <1>5 DEF Restorers, MainReturns, Stopping, UserReturns, WatchdogReturns, CurveReturns, Restores
  <2> QED
    BY <1>1, <1>3, <1>4, <1>5, <2>1
    DEF IInv, PendingOK, OthersSame, Same, Restorers, Restores, CurveReturns
<1>13. RestoreOK'
  <2>1. task'[t].at \notin Restores
    BY <1>1, <1>3, <1>5 DEF Restorers, MainReturns, Stopping, UserReturns, WatchdogReturns, CurveReturns, Restores
  <2> QED
    BY <1>1, <1>3, <1>4, <2>1 DEF IInv, RestoreOK, OthersSame, Same, Restorers, Restores
<1>14. PlaceOK'
  <2>1. task[t].ret \notin CleanupLabels => Safe'
    BY DEF Safe
  <2>2. CASE t = "user"
    <3>1. task'["main"] = task["main"] /\ task'["curve"] = task["curve"]
          /\ task'["user"].at \in UserReturns /\ task'["user"].ret = "none"
          /\ (task'["user"].at = "stStopped" => ~Danger)
      BY <1>3, <1>5, <2>2 DEF OthersSame, Same, IInv, PlaceOK
    <3> QED
      BY <2>2, <3>1 DEF IInv, PlaceOK, UserReturns
  <2>3. CASE t = "curve"
    <3>1. task'["main"] = task["main"] /\ task'["user"] = task["user"]
          /\ task'["curve"].at = task["curve"].ret /\ task["curve"].ret \in CurveReturns
          /\ task["curve"].at # "cvGaveUp"
      BY <1>3, <1>5, <2>3 DEF OthersSame, Same, Restores
    <3> QED
      BY <2>3, <3>1 DEF IInv, PlaceOK, CurveReturns
  <2>4. CASE t = "main"
    <3>1. task'["curve"] = task["curve"] /\ task'["user"] = task["user"]
          /\ task'["main"].at = task["main"].ret
      BY <1>3, <2>4 DEF OthersSame, Same
    <3> QED
      BY <2>1, <2>4, <3>1 DEF IInv, PlaceOK, CleanupLabels
  <2>5. CASE t = "watchdog"
    <3>1. task'["curve"] = task["curve"] /\ task'["user"] = task["user"] /\ task'["main"] = task["main"]
      BY <1>3, <2>5 DEF OthersSame, Same
    <3> QED
      BY <3>1 DEF IInv, PlaceOK
  <2> QED
    BY <1>1, <2>2, <2>3, <2>4, <2>5 DEF Restorers
<1>15. GuardOK'
  <2>1. CASE task[t].ret \notin CleanupLabels
    BY <2>1 DEF GuardOK, Covered, Safe, Told
  <2>2. CASE task[t].ret \in CleanupLabels
    <3>1. t \in {"main", "user"}
      BY <1>1, <1>5, <2>2 DEF Restorers, CleanupLabels, WatchdogReturns, CurveReturns
    <3>2. CASE t = "main"
      <4>1. lock = "main" /\ ~Gone
        BY <1>5, <1>7, <2>2, <3>2 DEF IInv, LockOK, MainReturns, CleanupLabels
      <4> QED
        BY <4>1 DEF IInv, LifeOK, GuardOK
    <3>3. CASE t = "user"
      <4>1. /\ task["watchdog"].at \in WatchdogOutside /\ task["curve"].at \in CurveOutside
            /\ task'["watchdog"] = task["watchdog"] /\ task'["curve"] = task["curve"]
        BY <1>3, <1>5, <3>3, OutsideRests DEF OthersSame, Same
      <4> QED
        BY <1>3, <1>5, <2>2, <3>3, <4>1
        DEF GuardOK, AtRest, UserReturns, WatchdogOutside, CurveOutside
    <3> QED
      BY <3>1, <3>2, <3>3
  <2> QED
    BY <2>1, <2>2
<1> QED
  BY <1>6, <1>8, <1>9, <1>10, <1>11, <1>12, <1>13, <1>14, <1>15 DEF IInv

LEMMA KeepsRestoreAnswered ==
  ASSUME IInv, NEW t \in Tasks, RestoreAnswered(t)
  PROVE  IInv'
<1>1. /\ task[t].at = "rsAuto" /\ task[t].st \notin {"want", "sent"} /\ task[t].at \in Restores
      /\ UNCHANGED <<ec, cfg, wd, cv, lock, q, recOk, closing, cap, owned>>
  BY DEF RestoreAnswered, Answered, lifeVars, Restores
<1>2. t \in Restorers /\ task[t] \in Frame /\ task \in [Tasks -> Frame]
  BY <1>1, RestoringTask DEF IInv, FramesOK
<1>3. (Danger' <=> Danger) /\ (RescueReserved' <=> RescueReserved)
  BY <1>1, Still
<1>4. CASE task[t].st = "ok"
  <2>1. err' = FALSE /\ UNCHANGED snap
        /\ task' = [task EXCEPT ![t] = [At("rsRefresh") EXCEPT !.ret = task[t].ret]]
    BY <1>4 DEF RestoreAnswered
  <2>2. ~Danger /\ ~Pending
    BY <1>1, <1>2, <1>4 DEF IInv, RestoreOK, PendingOK
  <2>3. LET f == [At("rsRefresh") EXCEPT !.ret = task[t].ret] IN
        f \in Frame /\ f.at = "rsRefresh" /\ f.ret = task[t].ret /\ f.st = "want"
    BY <1>2 DEF At, Frame, Labels, Calls, PlainCalls
  <2>4. /\ task' \in [Tasks -> Frame] /\ OthersSame(t) /\ task'[t] \in Frame
        /\ task'[t].at = "rsRefresh" /\ task'[t].ret = task[t].ret /\ task'[t].st = "want"
    BY <1>2, <2>1, <2>3 DEF OthersSame, Same, Tasks
  <2>5. Safe' /\ Covered' /\ ~Danger'
    BY <1>3, <2>2 DEF Safe, Covered
  <2>6. ~Pending' /\ task'["recovery"] = task["recovery"] /\ task'["refresh"] = task["refresh"]
    BY <1>2, <2>2, <2>4 DEF Pending, OthersSame, Same, Restorers
  <2>7. FramesOK'
    <3>1. ASSUME NEW places, NEW returns, InPlace(task[t], places, returns), "rsAuto" \notin places
          PROVE  InPlace(task'[t], places, returns)
      BY <1>1, <2>4, <3>1 DEF InPlace, Restores, Calls, PlainCalls
    <3>2. "rsAuto" \notin MainPlaces \cup UserPlaces \cup WatchdogPlaces \cup CurvePlaces
      BY DEF MainPlaces, Stopping, UserPlaces, UserOutside, UseCaseLocks, WatchdogPlaces,
         WatchdogOutside, CurvePlaces, CurveOutside
    <3> QED
      BY <1>2, <2>4, <3>1, <3>2 DEF IInv, FramesOK, OthersSame, Same, Restorers
  <2>8. QueueOK'
    <3>1. \A u \in Tasks : task'[u] = task[u] \/ (task[u].st # "sent" /\ task'[u].st # "sent")
      BY <1>1, <2>4 DEF Tasks, OthersSame, Same
    <3> QED
      BY <1>1, <3>1, QueueStays DEF IInv
  <2>9. LockOK'
    BY <1>1, <1>2, <2>4 DEF IInv, LockOK, OthersSame, Same, Restorers, Stopping,
       UserOutside, UseCaseLocks, WatchdogOutside, CurveOutside
  <2>10. (Booting' <=> Booting) /\ (Gone' <=> Gone) /\ (t = "main" => task'["main"].at # "bootRead")
    BY <1>1, <2>4 DEF Booting, Gone, OthersSame, Same
  <2>11. LifeOK'
    <3>1. /\ (task'["watchdog"].at # "dead" <=> task["watchdog"].at # "dead")
          /\ (task'["curve"].at # "dead" <=> task["curve"].at # "dead")
          /\ (task'["user"] = task["user"] \/ (t = "user" /\ ~Booting /\ ~Gone))
          /\ (task'["main"] = task["main"] \/ (t = "main" /\ task'["main"].at = "rsRefresh"
                                               /\ task["main"].at = "rsAuto"
                                               /\ task'["main"].ret = task["main"].ret))
      BY <1>1, <2>4, RestoringTask, InsideServes DEF OthersSame, Same, Restores
    <3> QED
      BY <1>1, <2>6, <2>10, <3>1, Still DEF IInv, LifeOK
  <2>12. StopsOK'
    BY <1>1, <2>4, <2>6 DEF IInv, StopsOK, OthersSame, Same, WatchdogStops
  <2>13. RecoveryOK' /\ PendingOK'
    BY <2>5, <2>6, <1>1, <2>2 DEF IInv, RecoveryOK, PendingOK, Pending
  <2>14. RestoreOK'
    BY <1>1, <2>2, <2>4, <2>5 DEF IInv, RestoreOK, OthersSame, Same, Restorers, AfterRestore
  <2>15. PlaceOK'
    BY <1>1, <2>4, <2>5 DEF IInv, PlaceOK, OthersSame, Same
  <2>16. GuardOK'
    BY <2>5 DEF GuardOK
  <2> QED
    BY <2>7, <2>8, <2>9, <2>11, <2>12, <2>13, <2>14, <2>15, <2>16 DEF IInv
<1>5. CASE task[t].st # "ok"
  <2>1. err' = TRUE /\ snap' = "failed_safe" /\ task' = [task EXCEPT ![t] = Back(t, "unrestored")]
    BY <1>5 DEF RestoreAnswered
  <2>2. Told' /\ Safe' /\ Covered'
    BY <2>1 DEF Told, Safe, Covered
  <2>3. QueueOK'
    <3>1. \A u \in Tasks : task'[u] = task[u] \/ (task[u].st # "sent" /\ task'[u].st # "sent")
      BY <1>1, <1>2, <2>1, Returning DEF Tasks
    <3> QED
      BY <1>1, <3>1, QueueStays DEF IInv
  <2>4. t = "user" /\ Pending => task[t].ret \in {"maFailed", "reDone"}
    BY <1>1, RestoringTask DEF IInv, PendingOK
  <2> QED
    BY <1>1, <1>3, <2>1, <2>2, <2>3, <2>4, LeavesRestore
<1> QED
  BY <1>4, <1>5

LEMMA KeepsRestoreRefreshed ==
  ASSUME IInv, NEW t \in Tasks, RestoreRefreshed(t)
  PROVE  IInv'
<1>1. /\ task[t].at = "rsRefresh" /\ task[t].st \notin {"want", "sent"} /\ task[t].at \in Restores
      /\ task' = [task EXCEPT ![t] = Back(t, "restored")]
      /\ UNCHANGED <<ec, cfg, err, wd, cv, lock, q, recOk, closing, cap, owned>>
  BY DEF RestoreRefreshed, Answered, lifeVars, Restores
<1>2. t \in Restorers /\ task[t] \in Frame /\ task \in [Tasks -> Frame]
  BY <1>1, RestoringTask DEF IInv, FramesOK
<1>3. ~Danger /\ ~Danger' /\ ~Pending /\ (RescueReserved' <=> RescueReserved)
  BY <1>1, <1>2, Still DEF IInv, RestoreOK, PendingOK
<1>4. QueueOK'
  <2>1. \A u \in Tasks : task'[u] = task[u] \/ (task[u].st # "sent" /\ task'[u].st # "sent")
    BY <1>1, <1>2, Returning DEF Tasks
  <2> QED
    BY <1>1, <2>1, QueueStays DEF IInv
<1> QED
  BY <1>1, <1>3, <1>4, LeavesRestore DEF Safe, Covered

LEMMA KeepsRestoreWaited ==
  ASSUME IInv, NEW t \in Tasks, RestoreWaited(t)
  PROVE  IInv'
<1>1. /\ task[t].at = "rsWait" /\ task[t].at \in Restores
      /\ UNCHANGED <<ec, cfg, wd, cv, lock, q, recOk, closing, cap, owned>>
  BY DEF RestoreWaited, lifeVars, Restores
<1>2. t \in Restorers /\ task[t] \in Frame /\ task \in [Tasks -> Frame]
  BY <1>1, RestoringTask DEF IInv, FramesOK
<1>3. (Danger' <=> Danger) /\ (RescueReserved' <=> RescueReserved)
  BY <1>1, Still
<1>4. ASSUME NEW r \in {"restored", "unrestored"}, task' = [task EXCEPT ![t] = Back(t, r)]
      PROVE  QueueOK'
  <2>1. task[t].st # "sent"
    BY <1>1, <1>2 DEF IInv, FramesOK, InPlace, Restorers, Calls, SafeCalls, PlainCalls
  <2>2. \A u \in Tasks : task'[u] = task[u] \/ (task[u].st # "sent" /\ task'[u].st # "sent")
    BY <1>2, <1>4, <2>1, Returning DEF Tasks
  <2> QED
    BY <1>1, <2>2, QueueStays DEF IInv
<1>5. CASE ~Pending /\ UNCHANGED <<err, snap>> /\ recOk /\ task' = [task EXCEPT ![t] = Back(t, "restored")]
  <2>1. ~Danger
    BY <1>1, <1>2, <1>5 DEF IInv, RestoreOK
  <2> QED
    BY <1>1, <1>3, <1>4, <1>5, <2>1, LeavesRestore DEF Safe, Covered
<1>6. CASE ~Pending /\ UNCHANGED <<err, snap>> /\ ~recOk /\ task' = [task EXCEPT ![t] = Back(t, "unrestored")]
  <2>1. Safe
    BY <1>1, <1>2, <1>6 DEF IInv, RestoreOK
  <2>2. Safe' /\ Covered'
    BY <1>1, <1>6, <2>1, SafeIsCovered, Still
  <2> QED
    BY <1>1, <1>3, <1>4, <1>6, <2>2, LeavesRestore
<1>7. CASE Pending /\ err' = TRUE /\ snap' = "failed_safe" /\ task' = [task EXCEPT ![t] = Back(t, "unrestored")]
  <2>1. Told' /\ Safe' /\ Covered'
    BY <1>7 DEF Told, Safe, Covered
  <2>2. t # "user"
    BY <1>1, <1>7, RestoringTask DEF IInv, PendingOK
  <2> QED
    BY <1>1, <1>3, <1>4, <1>7, <2>1, <2>2, LeavesRestore
<1> QED
  BY <1>5, <1>6, <1>7 DEF RestoreWaited

LEMMA KeepsCleanupTimeout ==
  ASSUME IInv, NEW t \in Tasks, CleanupTimeout(t)
  PROVE  IInv'
<1>1. /\ task[t].ret \in CleanupLabels /\ task' = [task EXCEPT ![t] = Back(t, "unrestored")]
      /\ q' = IF task[t].st = "sent"
              THEN [q EXCEPT !.by = "nobody", !.rescue = task[t].at \in SafeCalls] ELSE q
      /\ UNCHANGED <<ec, cfg, err, wd, cv, snap, lock, recOk, closing, cap, owned>>
  BY DEF CleanupTimeout, lifeVars
<1>2. task[t].at \in Restores /\ task \in [Tasks -> Frame] /\ task[t] \in Frame
  BY <1>1 DEF IInv, FramesOK, InPlace, Tasks, CleanupLabels
<1>3. t \in Restorers /\ ~Booting
  <2>1. t \in Restorers
    BY <1>2, RestoringTask
  <2>2. CASE t = "main"
    <3>1. lock = "main" /\ task["main"].ret # "booted"
      BY <1>1, <1>2, <2>2, RestoringTask DEF IInv, LockOK, MainReturns, CleanupLabels
    <3> QED
      <4>1. task["main"].at \in Restores
        BY <1>2, <2>2
      <4> QED
        BY <2>1, <3>1, <4>1 DEF Booting, Restores
  <2>3. CASE t # "main"
    BY <1>2, <2>1, <2>3, RestoringTask, InsideServes DEF Restorers
  <2> QED
    BY <2>1, <2>2, <2>3
<1>4. /\ q \in [call : Calls \cup {"none", "rescue"}, by : Tasks \cup {"nobody"}, rescue : BOOLEAN]
      /\ q.rescue => q.by = "nobody"
  BY DEF IInv, QueueOK
<1>5. QueueOK' /\ (Danger' <=> Danger) /\ (RescueReserved => RescueReserved')
  <2>1. task'[t].st = "unrestored" /\ \A u \in Tasks \ {t} : task'[u] = task[u]
    BY <1>1, <1>2, Returning
  <2>2. CASE task[t].st = "sent"
    <3>1. q.by = t /\ q.call = task[t].at /\ ~RescueReserved /\ q.call \in Calls
      BY <2>2, Callers DEF IInv, QueueOK, RescueReserved, Tasks
    <3>2. q'.call = q.call /\ q'.by = "nobody" /\ (q'.rescue <=> q.call \in SafeCalls)
          /\ q' \in [call : Calls \cup {"none", "rescue"}, by : Tasks \cup {"nobody"}, rescue : BOOLEAN]
      <4>1. CASE task[t].at \in SafeCalls
        <5>1. q' = [q EXCEPT !.by = "nobody", !.rescue = TRUE]
          BY <1>1, <2>2, <4>1
        <5> QED
          BY <1>4, <3>1, <4>1, <5>1
      <4>2. CASE task[t].at \notin SafeCalls
        <5>1. (task[t].at \in SafeCalls) = FALSE
          BY <4>2
        <5>2. q' = [q EXCEPT !.by = "nobody", !.rescue = FALSE]
          BY <1>1, <2>2, <5>1
        <5> QED
          BY <1>4, <3>1, <4>2, <5>2
      <4> QED
        BY <4>1, <4>2
    <3>3. \A u \in Tasks : task'[u].st # "sent"
      <4>1. \A u \in Tasks \ {t} : task[u].st # "sent"
        BY <3>1 DEF IInv, QueueOK
      <4> QED
        BY <2>1, <4>1
    <3>4. QueueOK'
      BY <3>1, <3>2, <3>3 DEF QueueOK, Tasks, Calls, SafeCalls, PlainCalls
    <3> QED
      BY <1>1, <3>1, <3>2, <3>4 DEF Danger
  <2>3. CASE task[t].st # "sent"
    <3>1. UNCHANGED q
      BY <1>1, <2>3
    <3>2. \A u \in Tasks : task'[u] = task[u] \/ (task[u].st # "sent" /\ task'[u].st # "sent")
      BY <2>1, <2>3
    <3> QED
      BY <1>1, <3>1, <3>2, QueueStays, Still DEF IInv
  <2> QED
    BY <2>2, <2>3
<1>6. (Told' <=> Told) /\ (Safe' <=> Safe) /\ (Covered' <=> Covered)
  BY <1>1, <1>5 DEF Told, Safe, Covered
<1>7. t = "user" /\ Pending => task[t].ret \in {"maFailed", "reDone"}
  BY <1>2, RestoringTask DEF IInv, PendingOK, Restores, Restorers
<1> QED
  BY <1>1, <1>2, <1>3, <1>5, <1>6, <1>7, LeavesRestore
-----------------------------------------------------------------------------
(* Start-up, shutdown and death.                                           *)

\* A process that has just been started.
Fresh ==
    /\ task = ProcessInit /\ q = IdleQueue /\ lock = "free" /\ wd = "STOPPED" /\ cv = "STOPPED"
    /\ ~closing /\ ~owned

LEMMA FreshStart == Fresh => IInv
<1> SUFFICES ASSUME Fresh PROVE IInv
  OBVIOUS
<1>1. /\ task \in [Tasks -> Frame]
      /\ task["main"] = At("bootRead") /\ task["user"] = At("idle") /\ task["recovery"] = At("idle")
      /\ task["watchdog"] = At("dead") /\ task["curve"] = At("dead") /\ task["refresh"] = At("dead")
  BY Arrives DEF Fresh, ProcessInit, Tasks, Labels, Calls, PlainCalls
<1>2. /\ task["main"].at = "bootRead" /\ task["main"].ret = "none" /\ task["main"].st = "want"
      /\ task["user"].at = "idle" /\ task["user"].ret = "none" /\ task["user"].st = "none"
      /\ task["recovery"].at = "idle" /\ task["recovery"].ret = "none" /\ task["recovery"].st = "none"
      /\ task["watchdog"].at = "dead" /\ task["watchdog"].ret = "none" /\ task["watchdog"].st = "none"
      /\ task["curve"].at = "dead" /\ task["curve"].ret = "none" /\ task["curve"].st = "none"
      /\ task["refresh"].at = "dead" /\ task["refresh"].ret = "none" /\ task["refresh"].st = "none"
  BY <1>1, Arrives DEF Labels, Calls, SafeCalls, PlainCalls
<1>3. q.call = "none" /\ q.by = "nobody" /\ q.rescue = FALSE
  BY DEF Fresh, IdleQueue
<1>4. FramesOK
  BY <1>1, <1>2 DEF FramesOK, InPlace, MainPlaces, UserPlaces, UserOutside, WatchdogPlaces, WatchdogOutside,
     CurvePlaces, CurveOutside, RefreshPlaces, RecoveryPlaces, Calls, PlainCalls, Tasks
<1>5. QueueOK
  BY <1>2, <1>3 DEF QueueOK, Fresh, IdleQueue, Tasks, SafeCalls
<1>6. LockOK
  BY <1>2 DEF LockOK, Fresh, UserOutside, WatchdogOutside, CurveOutside, Stopping
<1>7. LifeOK /\ StopsOK
  BY <1>2, <1>3 DEF LifeOK, StopsOK, Fresh, Booting, Gone, Poisoned, WatchdogStops
<1>8. RecoveryOK /\ PendingOK
  BY <1>2 DEF RecoveryOK, PendingOK, Pending
<1>9. RestoreOK /\ PlaceOK
  BY <1>2 DEF RestoreOK, PlaceOK, Restorers, AfterRestore, Fresh
<1>10. GuardOK
  BY <1>2 DEF GuardOK, Up
<1> QED
  BY <1>4, <1>5, <1>6, <1>7, <1>8, <1>9, <1>10 DEF IInv

LEMMA InitHolds == Init => IInv
  BY FreshStart DEF Init, Fresh

\* A process that is gone leaves nothing to go wrong.
Over ==
    /\ task \in [Tasks -> Frame] /\ task["main"].at \in {"exited", "down"}
    /\ \A t \in Tasks : /\ task[t].ret = "none" /\ task[t].st \notin {"want", "sent", "restored", "unrestored"}
                        /\ t # "main" => task[t].at = "dead"
    /\ q = IdleQueue /\ lock = "free" /\ wd = "STOPPED" /\ cv = "STOPPED"

LEMMA OverHolds == Over => IInv
<1> SUFFICES ASSUME Over PROVE IInv
  OBVIOUS
<1>1. /\ task["main"].at \in {"exited", "down"}
      /\ \A t \in Tasks : /\ task[t].ret = "none" /\ task[t].st \notin {"want", "sent", "restored", "unrestored"}
                          /\ t # "main" => task[t].at = "dead"
  BY DEF Over
<1>2. q.call = "none" /\ q.by = "nobody" /\ q.rescue = FALSE
  BY DEF Over, IdleQueue
<1>3. FramesOK
  BY <1>1 DEF Over, FramesOK, InPlace, MainPlaces, UserPlaces, UserOutside, WatchdogPlaces, WatchdogOutside,
     CurvePlaces, CurveOutside, RefreshPlaces, RecoveryPlaces, Tasks
<1>4. QueueOK
  BY <1>1, <1>2 DEF QueueOK, Over, IdleQueue, Tasks, SafeCalls
<1>5. LockOK
  BY <1>1 DEF LockOK, Over, UserOutside, WatchdogOutside, CurveOutside, Stopping, Tasks
<1>6. LifeOK /\ StopsOK
  BY <1>1 DEF LifeOK, StopsOK, Over, Booting, Gone, Tasks, WatchdogStops
<1>7. RecoveryOK /\ PendingOK
  BY <1>1 DEF RecoveryOK, PendingOK, Pending, Tasks
<1>8. RestoreOK /\ PlaceOK
  BY <1>1 DEF RestoreOK, PlaceOK, Restorers, AfterRestore, Over, Tasks
<1>9. GuardOK
  BY <1>1 DEF GuardOK, Up
<1> QED
  BY <1>3, <1>4, <1>5, <1>6, <1>7, <1>8, <1>9 DEF IInv

LEMMA KeepsEnds ==
  ASSUME IInv, ShutdownEnds \/ Crash
  PROVE  IInv'
<1>1. ProcessEnds
  BY DEF ShutdownEnds, Crash
<1>2. At("exited") \in Frame /\ At("dead") \in Frame
  BY Arrives DEF Labels
<1>3. Over'
  <2>1. task' \in [Tasks -> Frame] /\ task'["main"] = At("exited")
        /\ \A t \in Tasks \ {"main"} : task'[t] = At("dead")
    BY <1>1, <1>2 DEF ProcessEnds, Tasks
  <2>2. At("exited").at = "exited" /\ At("exited").ret = "none" /\ At("exited").st = "none"
        /\ At("dead").at = "dead" /\ At("dead").ret = "none" /\ At("dead").st = "none"
    BY Arrives DEF Labels, Calls, SafeCalls, PlainCalls
  <2> QED
    BY <1>1, <2>1, <2>2 DEF ProcessEnds, Over, Tasks
<1> QED
  BY <1>3, OverHolds, PTL

LEMMA KeepsStopPost ==
  ASSUME IInv, StopPost
  PROVE  IInv'
<1>1. /\ task["main"].at = "exited" /\ task' = [task EXCEPT !["main"] = At("down")]
      /\ UNCHANGED <<wd, cv, lock, q>> /\ task \in [Tasks -> Frame]
  BY DEF StopPost, IInv, FramesOK
<1>2. Over'
  <2>1. q = IdleQueue /\ wd = "STOPPED" /\ cv = "STOPPED"
        /\ task["watchdog"].at = "dead" /\ task["curve"].at = "dead"
        /\ task["user"].at = "dead" /\ task["refresh"].at = "dead" /\ task["recovery"].at = "dead"
    BY <1>1 DEF IInv, LifeOK, Gone
  <2>2. \A t \in Tasks : task[t].ret = "none" /\ task[t].st \notin {"want", "sent", "restored", "unrestored"}
    BY <1>1, <2>1 DEF IInv, FramesOK, InPlace, Restores, Tasks, Calls, SafeCalls, PlainCalls,
       MainReturns, Stopping, UserReturns, WatchdogReturns, CurveReturns
  <2>3. lock = "free"
    BY <1>1, <2>1, <2>2 DEF IInv, LockOK, UserOutside, WatchdogOutside, CurveOutside, Stopping, Tasks
  <2>4. /\ task' \in [Tasks -> Frame] /\ task'["main"] = At("down")
        /\ \A t \in Tasks \ {"main"} : task'[t] = task[t]
        /\ At("down").at = "down" /\ At("down").ret = "none" /\ At("down").st = "none"
    BY <1>1, Arrives DEF Labels, Calls, SafeCalls, PlainCalls, Tasks
  <2> QED
    BY <1>1, <2>1, <2>2, <2>3, <2>4 DEF Over, Tasks
<1> QED
  BY <1>2, OverHolds, PTL

LEMMA KeepsBoot ==
  ASSUME IInv, Boot
  PROVE  IInv'
<1>1. task["main"].at = "down" /\ UNCHANGED <<wd, cv, lock, q>> /\ task' = ProcessInit /\ closing' = FALSE
      /\ owned' = FALSE
  BY DEF Boot
<1>2. q = IdleQueue /\ wd = "STOPPED" /\ cv = "STOPPED"
      /\ task["watchdog"].at = "dead" /\ task["curve"].at = "dead" /\ task["user"].at = "dead"
  BY <1>1 DEF IInv, LifeOK, Gone
<1>3. lock = "free"
  BY <1>1, <1>2 DEF IInv, LockOK, FramesOK, InPlace, Restores, UserOutside, WatchdogOutside, CurveOutside, Stopping
<1>4. Fresh'
  BY <1>1, <1>2, <1>3 DEF Fresh, ProcessInit, IdleQueue, At
<1> QED
  BY <1>4, FreshStart, PTL

\* Before it is up, a service has no task but its own, and nothing in the queue
\* but its own read.
LEMMA WhileBooting ==
  ASSUME IInv, Booting
  PROVE  /\ lock = "free" /\ ~Gone /\ wd = "STOPPED" /\ cv = "STOPPED"
         /\ task["user"].at = "idle" /\ task["refresh"].at = "dead"
         /\ task["watchdog"].at = "dead" /\ task["curve"].at = "dead"
         /\ Rests("user") /\ Rests("watchdog") /\ Rests("curve")
<1>1. lock \notin {"user", "watchdog", "curve"}
  BY InsideServes
<1>2. ~Gone /\ lock # "main"
  BY DEF IInv, LockOK, FramesOK, InPlace, MainReturns, Stopping, Restores, Booting, Gone
<1> QED
  BY <1>1, <1>2, OutsideRests DEF IInv, LockOK, LifeOK

\* A step of the main task alone, outside a shutdown.
LEMMA MainMoves ==
  ASSUME IInv, ~Gone, lock # "main", NEW f \in Frame, task' = [task EXCEPT !["main"] = f],
         InPlace(f, MainPlaces, MainReturns), task["main"].st # "sent", f.st # "sent",
         task["main"].at # "sdDrain",
         UNCHANGED <<ec, cfg, err, wd, cv, lock, q, recOk>>,
         f.at \notin Stopping, f.ret \notin Stopping, f.at \notin AfterRestore \cup {"bootRead", "exited", "down"},
         f.st \notin {"restored", "unrestored"},
         f.at \notin {"rsWait", "rsRefresh"}, f.at = "rsAuto" => ~Pending /\ f.st = "want",
         f.at = "booted" \/ f.ret = "booted" => Booting /\ (cap' => owned'),
         closing' <=> f.at = "sdLock", Told => Told', Safe => Safe',
         f.ret # "booted" /\ ~closing' /\ AtRest /\ owned' => Covered'
  PROVE  IInv'
<1>1. /\ task' \in [Tasks -> Frame] /\ task'["main"] = f /\ task'["user"] = task["user"]
      /\ task'["watchdog"] = task["watchdog"] /\ task'["curve"] = task["curve"]
      /\ task'["refresh"] = task["refresh"] /\ task'["recovery"] = task["recovery"]
  BY DEF IInv, FramesOK, Tasks
<1>2. FramesOK'
  BY <1>1 DEF IInv, FramesOK
<1>3. QueueOK'
  <2>1. \A t \in Tasks : task'[t] = task[t] \/ (task[t].st # "sent" /\ task'[t].st # "sent")
    BY <1>1 DEF Tasks
  <2> QED
    BY <2>1, QueueStays DEF IInv
<1>4. LockOK'
  BY <1>1 DEF IInv, LockOK
<1>5. LifeOK'
  BY <1>1, Still DEF IInv, LifeOK, Booting, Gone, Stopping
<1>6. StopsOK'
  BY <1>1 DEF IInv, StopsOK, Stopping
<1>7. RecoveryOK'
  BY <1>1, RecoveryStays DEF IInv
<1>8. PendingOK'
  BY <1>1, Still DEF IInv, PendingOK, Restorers
<1>9. RestoreOK'
  BY <1>1, Still DEF IInv, RestoreOK, Restorers
<1>10. PlaceOK'
  BY <1>1, Still DEF IInv, PlaceOK, Stopping
<1>11. GuardOK'
  BY <1>1, Still DEF GuardOK, Up, AtRest
<1> QED
  BY <1>2, <1>3, <1>4, <1>5, <1>6, <1>7, <1>8, <1>9, <1>10, <1>11 DEF IInv

LEMMA KeepsBootRefreshed ==
  ASSUME IInv, BootRefreshed
  PROVE  IInv'
<1>1. /\ task["main"].at = "bootRead" /\ task["main"].st \notin {"want", "sent"} /\ RefreshesAll("main")
      /\ task' = [task EXCEPT !["main"] = IF cap' THEN Restoring("booted") ELSE At("booted")]
      /\ UNCHANGED <<ec, cfg, err, wd, cv, lock, q, recOk, closing>>
      /\ owned' = cap'
  BY DEF BootRefreshed, Answered
<1>2. Booting /\ ~Gone /\ lock = "free" /\ ~Pending
  BY <1>1, WhileBooting DEF Booting, IInv, LifeOK, Pending
<1>3. (Told => Told') /\ (Safe => Safe') /\ ~closing
  <2>1. snap' = Refreshed("main")
    BY <1>1 DEF RefreshesAll
  <2> QED
    BY <1>1, <1>2, <2>1, RefreshCovers DEF IInv, LifeOK
<1>4. CASE cap'
  <2>1. /\ task' = [task EXCEPT !["main"] = Restoring("booted")]
        /\ Restoring("booted") \in Frame /\ Restoring("booted").at = "rsAuto"
        /\ Restoring("booted").ret = "booted" /\ Restoring("booted").st = "want"
    BY <1>1, <1>2, <1>4, Restarts DEF Labels
  <2>2. InPlace(Restoring("booted"), MainPlaces, MainReturns)
    BY <2>1 DEF InPlace, MainReturns, Restores, Calls, SafeCalls
  <2> QED
    BY <1>1, <1>2, <1>3, <2>1, <2>2, MainMoves DEF Stopping, AfterRestore
<1>5. CASE ~cap'
  <2>1. /\ task' = [task EXCEPT !["main"] = At("booted")]
        /\ At("booted") \in Frame /\ At("booted").at = "booted"
        /\ At("booted").ret = "none" /\ At("booted").st = "none"
    BY <1>1, <1>5, Arrives DEF Labels, Calls, SafeCalls, PlainCalls
  <2>2. InPlace(At("booted"), MainPlaces, MainReturns)
    BY <2>1 DEF InPlace, MainPlaces
  <2>3. ~owned'
    BY <1>1, <1>5
  <2> QED
    BY <1>1, <1>2, <1>3, <2>1, <2>2, <2>3, MainMoves DEF Stopping, AfterRestore
<1> QED
  BY <1>4, <1>5

LEMMA KeepsShutdown ==
  ASSUME IInv, Shutdown
  PROVE  IInv'
<1>1. /\ task["main"].at = "serving" /\ closing' = TRUE
      /\ task' = [task EXCEPT !["main"] = At("sdLock")]
      /\ UNCHANGED <<ec, cfg, err, wd, cv, snap, lock, q, recOk, owned>>
  BY DEF Shutdown
<1>2. ~Booting /\ ~Gone /\ lock # "main" /\ task["main"].st # "sent"
  BY <1>1 DEF Booting, Gone, IInv, FramesOK, InPlace, Restores, LockOK, Stopping, Calls, SafeCalls, PlainCalls
<1>3. (Told => Told') /\ (Safe => Safe')
  BY <1>1, Still DEF Told
<1>4. /\ At("sdLock") \in Frame /\ At("sdLock").at = "sdLock"
      /\ At("sdLock").ret = "none" /\ At("sdLock").st = "none"
  BY Arrives DEF Labels, Calls, SafeCalls, PlainCalls
<1>5. InPlace(At("sdLock"), MainPlaces, MainReturns)
  BY <1>4 DEF InPlace, MainPlaces
<1> QED
  BY <1>1, <1>2, <1>3, <1>4, <1>5, MainMoves DEF Stopping, AfterRestore

LEMMA KeepsServe ==
  ASSUME IInv, Serve
  PROVE  IInv'
<1>1. /\ task["main"].at = "booted" /\ cv' = "RUNNING"
      /\ task' = [task EXCEPT !["main"] = At("serving"), !["curve"] = At("sleep"), !["refresh"] = At("sleep")]
      /\ UNCHANGED <<ec, cfg, err, wd, snap, lock, q, recOk, closing, cap, owned>>
  BY DEF Serve, lifeVars
<1>2. /\ Booting /\ ~Gone /\ lock = "free" /\ wd = "STOPPED" /\ cv = "STOPPED" /\ task["user"].at = "idle"
      /\ task["watchdog"].at = "dead" /\ task["curve"].at = "dead" /\ task["refresh"].at = "dead"
      /\ ~closing
  BY <1>1, WhileBooting DEF Booting, IInv, LifeOK
<1>3. /\ task["main"].ret = "none" /\ task["main"].st # "sent" /\ task["curve"].st # "sent"
      /\ task["refresh"].st # "sent" /\ task["main"].at \notin Restores
  BY <1>1, <1>2 DEF IInv, FramesOK, InPlace, Restores, Calls, SafeCalls, PlainCalls
<1>4. /\ At("serving") \in Frame /\ At("serving").at = "serving" /\ At("serving").ret = "none"
      /\ At("serving").st = "none"
      /\ At("sleep") \in Frame /\ At("sleep").at = "sleep" /\ At("sleep").ret = "none" /\ At("sleep").st = "none"
  BY Arrives DEF Labels, Calls, SafeCalls, PlainCalls
<1>5. /\ task' \in [Tasks -> Frame] /\ task'["main"] = At("serving") /\ task'["curve"] = At("sleep")
      /\ task'["refresh"] = At("sleep") /\ task'["user"] = task["user"]
      /\ task'["watchdog"] = task["watchdog"] /\ task'["recovery"] = task["recovery"]
  BY <1>1, <1>4 DEF IInv, FramesOK, Tasks
<1>6. (Danger' <=> Danger) /\ (Told' <=> Told) /\ (Safe' <=> Safe) /\ (Covered => Covered') /\ (owned' <=> owned)
      /\ (Pending' <=> Pending)
  BY <1>1, <1>5, Still DEF Told, Covered
<1>7. FramesOK'
  <2>1. /\ InPlace(At("serving"), MainPlaces, MainReturns) /\ InPlace(At("sleep"), CurvePlaces, CurveReturns)
        /\ InPlace(At("sleep"), RefreshPlaces, {})
    BY <1>4 DEF InPlace, MainPlaces, CurvePlaces, CurveOutside, RefreshPlaces
  <2> QED
    BY <1>5, <2>1 DEF IInv, FramesOK
<1>8. QueueOK'
  <2>1. \A t \in Tasks : task'[t] = task[t] \/ (task[t].st # "sent" /\ task'[t].st # "sent")
    BY <1>3, <1>4, <1>5 DEF Tasks
  <2> QED
    BY <1>1, <2>1, QueueStays DEF IInv
<1>9. LockOK'
  BY <1>1, <1>2, <1>4, <1>5 DEF IInv, LockOK, CurveOutside, Stopping
<1>10. LifeOK'
  BY <1>1, <1>2, <1>4, <1>5 DEF IInv, LifeOK, Booting, Gone
<1>11. StopsOK'
  BY <1>1, <1>2, <1>4, <1>5, <1>9 DEF IInv, StopsOK, LockOK, UserOutside, WatchdogStops, FramesOK, InPlace, Restores
<1>12. RecoveryOK'
  BY <1>1, <1>5, <1>6, RecoveryStays DEF IInv
<1>13. PendingOK'
  BY <1>1, <1>2, <1>4, <1>5, <1>6 DEF IInv, PendingOK, Restorers
<1>14. RestoreOK'
  BY <1>1, <1>2, <1>4, <1>5, <1>6 DEF IInv, RestoreOK, Restorers, AfterRestore
<1>15. PlaceOK'
  BY <1>1, <1>2, <1>4, <1>5, <1>6 DEF IInv, PlaceOK
<1>16. GuardOK'
  BY <1>1, <1>2, <1>3, <1>5, <1>6 DEF IInv, GuardOK, AtRest, Up
<1> QED
  BY <1>7, <1>8, <1>9, <1>10, <1>11, <1>12, <1>13, <1>14, <1>15, <1>16 DEF IInv

\* A pending recovery has been announced, or has succeeded.
LEMMA PendingIsSafe ==
  ASSUME IInv, Pending, ~Gone
  PROVE  Safe
  BY DEF IInv, LifeOK, RecoveryOK, FramesOK, InPlace, RecoveryPlaces, Restores, Pending, Safe

\* A step of a shutdown, which may end a controller and the refresh loop.
LEMMA ShutdownMoves ==
  ASSUME IInv, lock \in {"free", "main"}, ~Booting, ~Gone, closing, task["main"].st # "sent",
         NEW l \in Stopping, Goes("main", l) \/ Restarted("main", l),
         task' \in [Tasks -> Frame], task'["user"] = task["user"], task'["recovery"] = task["recovery"],
         Kept("watchdog"), wd' = "RUNNING" <=> task'["watchdog"].at # "dead",
         Kept("curve"), cv' = "RUNNING" <=> task'["curve"].at # "dead",
         task'["refresh"] = task["refresh"] \/ Goes("refresh", "dead"),
         lock' = "main", UNCHANGED <<ec, cfg, err, snap, recOk, closing, cap, owned>>,
         QueueOK', Danger' <=> Danger, RescueReserved => RescueReserved',
         cv' # "RUNNING",
         l \in {"sdWd", "sdDrain"} => wd' # "RUNNING" /\ task'["refresh"].at = "dead",
         Goes("main", "sdDrain") /\ cap => Safe
  PROVE  IInv'
<1>1. /\ Rests("user") /\ Rests("watchdog") /\ Rests("curve")
      /\ task["user"].at \in UserOutside /\ task["watchdog"].at \in WatchdogOutside
      /\ task["curve"].at \in CurveOutside
  BY OutsideRests
<1>2. /\ l \notin Calls /\ l \notin Restores /\ l \notin AfterRestore
      /\ l \notin {"bootRead", "booted", "exited", "down", "sdLock"}
      /\ Stopping \subseteq MainPlaces /\ Stopping \subseteq MainReturns
  BY DEF Stopping, Calls, SafeCalls, PlainCalls, Restores, AfterRestore, MainPlaces, MainReturns
<1>3. /\ task'["main"].at = l /\ task'["main"].ret = "none" /\ task'["main"].st = "none"
      \/ /\ task'["main"].ret = l
         /\ \/ Pending /\ task'["main"].at = "rsWait" /\ task'["main"].st = "none"
            \/ ~Pending /\ task'["main"].at = "rsAuto" /\ task'["main"].st = "want"
  BY DEF Goes, Restarted
<1>4. \A t \in {"watchdog", "curve"} :
          /\ task'[t].at \notin Restores /\ task'[t].st \notin {"restored", "unrestored"}
          /\ task'[t].at \notin AfterRestore
  BY <1>1 DEF Rests, Kept, Goes, Restores, AfterRestore, IInv, RestoreOK, Restorers
<1>5. task'["watchdog"].at \in WatchdogOutside /\ task'["curve"].at \in CurveOutside
  BY <1>1 DEF Kept, Goes, WatchdogOutside, CurveOutside
<1>6. FramesOK'
  <2>1. /\ task'["main"] \in Frame /\ task'["watchdog"] \in Frame /\ task'["curve"] \in Frame
        /\ task'["refresh"] \in Frame
    BY DEF Tasks
  <2>2. InPlace(task'["main"], MainPlaces, MainReturns)
    BY <1>2, <1>3, <2>1 DEF InPlace, Restores, Calls, SafeCalls
  <2>3. InPlace(task'["watchdog"], WatchdogPlaces, WatchdogReturns)
    BY <2>1 DEF IInv, FramesOK, Kept, Goes, InPlace, WatchdogPlaces, WatchdogOutside
  <2>4. InPlace(task'["curve"], CurvePlaces, CurveReturns)
    BY <2>1 DEF IInv, FramesOK, Kept, Goes, InPlace, CurvePlaces, CurveOutside
  <2>5. InPlace(task'["refresh"], RefreshPlaces, {})
    BY <2>1 DEF IInv, FramesOK, Goes, InPlace, RefreshPlaces
  <2> QED
    BY <2>2, <2>3, <2>4, <2>5 DEF IInv, FramesOK
<1>7. LockOK'
  BY <1>1, <1>2, <1>3, <1>5 DEF LockOK
<1>8. LifeOK'
  <2>1. ~Booting' /\ ~Gone'
    BY <1>2, <1>3 DEF Booting, Gone, Restores
  <2>2. task'["main"].at # "bootRead" /\ task'["main"].ret # "booted"
    BY <1>2, <1>3
  <2>3. task'["main"].at = "sdDrain" \/ task'["main"].ret = "sdDrain" => l = "sdDrain"
    BY <1>3
  <2> QED
    BY <2>1, <2>2, <2>3 DEF IInv, LifeOK
<1>9. StopsOK'
  <2>1. task'["main"].at = "sdWd" \/ task'["main"].ret = "sdWd" => l = "sdWd"
    BY <1>3
  <2>2. task["user"].at \notin WatchdogStops \cup {"reCv"} /\ task["user"].ret \notin WatchdogStops \cup {"reCv"}
    BY <1>1 DEF UserOutside, UseCaseLocks, WatchdogStops, Rests
  <2> QED
    BY <2>1, <2>2 DEF StopsOK
<1>10. RecoveryOK'
  BY DEF IInv, RecoveryOK, Told
<1>11. PendingOK'
  <2>1. Pending' <=> Pending
    BY Still
  <2>2. task["user"].at \notin Restores /\ task["user"].st # "restored"
    BY <1>1 DEF Rests
  <2>3. l # "rsRefresh" /\ task'["main"].at # "rsRefresh" /\ (Pending => task'["main"].at # "rsAuto")
    BY <1>2, <1>3 DEF Restores
  <2>4. task'["main"].st # "restored"
    BY <1>3
  <2>5. task'["curve"].at \notin {"cvTemp", "cvMode", "cvSpeed"}
    BY <1>5 DEF CurveOutside
  <2> QED
    BY <1>4, <2>1, <2>2, <2>3, <2>4, <2>5 DEF PendingOK, Restorers, Restores
<1>12. RestoreOK'
  <2>1. Pending' <=> Pending
    BY Still
  <2>2. /\ task'["main"].at \notin AfterRestore /\ task'["main"].at # "rsRefresh"
        /\ task'["main"].st \notin {"ok", "timeout", "restored", "unrestored"}
        /\ task'["main"].at = "rsWait" => Pending
    BY <1>2, <1>3 DEF Restores, AfterRestore
  <2>3. task["user"].at \notin Restores /\ task["user"].st \notin {"restored", "unrestored"}
        /\ task["user"].at \notin AfterRestore
    BY <1>1 DEF Rests, UserOutside, UseCaseLocks, AfterRestore
  <2> QED
    BY <1>4, <2>1, <2>2, <2>3 DEF RestoreOK, Restorers, Restores
<1>13. PlaceOK'
  <2>1. Safe' <=> Safe
    BY DEF Safe, Told
  <2>2. task'["main"].at = "sdDrain" => Goes("main", "sdDrain")
    BY <1>2, <1>3 DEF Goes, Restores
  <2> QED
    BY <1>1, <1>5, <2>1, <2>2 DEF PlaceOK, Rests, UserOutside, UseCaseLocks, CurveOutside
<1>14. GuardOK'
  BY DEF GuardOK
<1> QED
  BY <1>6, <1>7, <1>8, <1>9, <1>10, <1>11, <1>12, <1>13, <1>14 DEF IInv

\* What a shutdown in progress knows.
LEMMA ShuttingDown ==
  ASSUME IInv, task["main"].at \in {"sdLock"} \cup Stopping
  PROVE  /\ ~Booting /\ ~Gone /\ closing /\ task["main"].st # "sent" /\ task \in [Tasks -> Frame]
         /\ task["main"].ret = "none" /\ (task["main"].at \in Stopping => lock = "main")
  BY DEF IInv, FramesOK, InPlace, LockOK, LifeOK, Booting, Gone, Stopping, Restores, Calls, SafeCalls, PlainCalls

\* What the main task does next, whether it enters a restore or goes on.
LEMMA MainGoes ==
  ASSUME NEW l \in Stopping
  PROVE  /\ l \in Labels /\ At(l) \in Frame /\ Restoring(l) \in Frame
         /\ task'["main"] = At(l) => Goes("main", l)
         /\ task'["main"] = Restoring(l) => Restarted("main", l)
<1>1. l \in Labels /\ l \notin Calls
  BY DEF Stopping, Labels, CleanupLabels, Calls, SafeCalls, PlainCalls
<1> QED
  BY <1>1, Arrives, Restarts, TaskGoes, TaskRestarts

LEMMA KeepsShutdownStopsCurve ==
  ASSUME IInv, ShutdownStopsCurve
  PROVE  IInv'
<1>1. /\ task["main"].at = "sdLock" /\ lock = "free" /\ lock' = "main" /\ StopCurve("main", "sdCv")
      /\ UNCHANGED <<ec, cfg, err, wd, snap, q, recOk, closing, cap, owned>>
  BY DEF ShutdownStopsCurve, lifeVars
<1>2. ~Booting /\ ~Gone /\ closing /\ task["main"].st # "sent" /\ task \in [Tasks -> Frame]
  BY <1>1, ShuttingDown
<1>3. "sdCv" \in Stopping /\ At("dead") \in Frame
  BY Arrives DEF Stopping, Labels
<1>4. /\ task' \in [Tasks -> Frame] /\ task'["user"] = task["user"] /\ task'["recovery"] = task["recovery"]
      /\ task'["watchdog"] = task["watchdog"] /\ task'["refresh"] = task["refresh"]
      /\ Kept("curve") /\ cv' # "RUNNING" /\ (cv' = "RUNNING" <=> task'["curve"].at # "dead")
      /\ Goes("main", "sdCv") \/ Restarted("main", "sdCv")
  <2>1. CASE cv \in {"STOPPED", "STOPPING"}
    <3>1. task' = [task EXCEPT !["main"] = At("sdCv")] /\ UNCHANGED cv
      BY <1>1, <2>1 DEF StopCurve
    <3>2. /\ task' \in [Tasks -> Frame] /\ task'["user"] = task["user"] /\ task'["recovery"] = task["recovery"]
          /\ task'["watchdog"] = task["watchdog"] /\ task'["refresh"] = task["refresh"]
          /\ task'["curve"] = task["curve"] /\ task'["main"] = At("sdCv")
      BY <1>2, <1>3, <3>1, MainGoes DEF Tasks
    <3> QED
      BY <1>3, <2>1, <3>1, <3>2, MainGoes DEF Kept, IInv, LifeOK
  <2>2. CASE cv \notin {"STOPPED", "STOPPING"}
    <3>1. task' = [task EXCEPT !["curve"] = At("dead"), !["main"] = Restoring("sdCv")] /\ cv' = "STOPPING"
      BY <1>1, <2>2 DEF StopCurve
    <3>2. /\ task' \in [Tasks -> Frame] /\ task'["user"] = task["user"] /\ task'["recovery"] = task["recovery"]
          /\ task'["watchdog"] = task["watchdog"] /\ task'["refresh"] = task["refresh"]
          /\ task'["curve"] = At("dead") /\ task'["main"] = Restoring("sdCv")
      BY <1>2, <1>3, <3>1, MainGoes DEF Tasks
    <3>3. Goes("curve", "dead")
      BY <3>2, TaskGoes DEF Labels, Calls, SafeCalls, PlainCalls
    <3> QED
      BY <1>3, <3>1, <3>2, <3>3, MainGoes DEF Kept, Goes
  <2> QED
    BY <2>1, <2>2
<1>5. QueueOK' /\ (Danger' <=> Danger) /\ (RescueReserved' <=> RescueReserved)
  <2>1. \A t \in Tasks : task'[t] = task[t] \/ (task[t].st # "sent" /\ task'[t].st # "sent")
    BY <1>1, <1>2, <1>4, OutsideRests DEF Tasks, Kept, Goes, Restarted, Rests
  <2> QED
    BY <1>1, <2>1, QueueStays, Still DEF IInv
<1>6. Kept("watchdog") /\ (wd' = "RUNNING" <=> task'["watchdog"].at # "dead")
  BY <1>1, <1>4 DEF Kept, IInv, LifeOK
<1>7. ~Goes("main", "sdDrain")
  BY <1>4 DEF Goes, Restarted
<1> QED
  BY <1>1, <1>2, <1>3, <1>4, <1>5, <1>6, <1>7, ShutdownMoves

LEMMA KeepsShutdownStopsRest ==
  ASSUME IInv, ShutdownStopsRest
  PROVE  IInv'
<1>1. /\ task["main"].at = "sdCv" /\ cv' = "STOPPED"
      /\ q' = (IF q.by = "refresh" THEN [q EXCEPT !.by = "nobody"] ELSE q)
      /\ UNCHANGED <<ec, cfg, err, snap, lock, recOk, closing, cap, owned>>
  BY DEF ShutdownStopsRest, lifeVars
<1>2. ~Booting /\ ~Gone /\ closing /\ task["main"].st # "sent" /\ task \in [Tasks -> Frame] /\ lock = "main"
  BY <1>1, ShuttingDown DEF Stopping
<1>3. "sdWd" \in Stopping /\ At("dead") \in Frame
  BY Arrives DEF Stopping, Labels
<1>4. /\ task' \in [Tasks -> Frame] /\ task'["user"] = task["user"] /\ task'["recovery"] = task["recovery"]
      /\ task'["curve"] = task["curve"] /\ Goes("refresh", "dead")
      /\ Kept("watchdog") /\ wd' # "RUNNING" /\ (wd' = "RUNNING" <=> task'["watchdog"].at # "dead")
      /\ Goes("main", "sdWd") \/ Restarted("main", "sdWd")
  <2>1. CASE wd \in {"STOPPED", "STOPPING"}
    <3>1. task' = [[task EXCEPT !["refresh"] = At("dead")] EXCEPT !["main"] = At("sdWd")] /\ UNCHANGED wd
      BY <2>1 DEF ShutdownStopsRest
    <3>2. /\ task' \in [Tasks -> Frame] /\ task'["user"] = task["user"] /\ task'["recovery"] = task["recovery"]
          /\ task'["watchdog"] = task["watchdog"] /\ task'["refresh"] = At("dead")
          /\ task'["curve"] = task["curve"] /\ task'["main"] = At("sdWd")
      BY <1>2, <1>3, <3>1, MainGoes DEF Tasks
    <3>3. Goes("refresh", "dead")
      BY <3>2, TaskGoes DEF Labels, Calls, SafeCalls, PlainCalls
    <3> QED
      BY <1>3, <2>1, <3>1, <3>2, <3>3, MainGoes DEF Kept, IInv, LifeOK
  <2>2. CASE wd \notin {"STOPPED", "STOPPING"}
    <3>1. /\ task' = [[task EXCEPT !["refresh"] = At("dead")] EXCEPT
                         !["watchdog"] = At("dead"), !["main"] = Restoring("sdWd")]
          /\ wd' = "STOPPING"
      BY <2>2 DEF ShutdownStopsRest
    <3>2. /\ task' \in [Tasks -> Frame] /\ task'["user"] = task["user"] /\ task'["recovery"] = task["recovery"]
          /\ task'["watchdog"] = At("dead") /\ task'["refresh"] = At("dead")
          /\ task'["curve"] = task["curve"] /\ task'["main"] = Restoring("sdWd")
      BY <1>2, <1>3, <3>1, MainGoes DEF Tasks
    <3>3. Goes("refresh", "dead") /\ Goes("watchdog", "dead")
      BY <3>2, TaskGoes DEF Labels, Calls, SafeCalls, PlainCalls
    <3> QED
      BY <1>3, <3>1, <3>2, <3>3, MainGoes DEF Kept, Goes
  <2> QED
    BY <2>1, <2>2
<1>5. Kept("curve") /\ (cv' = "RUNNING" <=> task'["curve"].at # "dead")
  BY <1>1, <1>2, <1>4 DEF Kept, IInv, LifeOK, StopsOK
<1>6. /\ q \in [call : Calls \cup {"none", "rescue"}, by : Tasks \cup {"nobody"}, rescue : BOOLEAN]
      /\ q.by = "refresh" => q.call = "rfRead" /\ q.rescue = FALSE
  <2>1. q.by = "refresh" => task["refresh"].at \in Calls /\ q.call = task["refresh"].at /\ q.rescue = FALSE
    BY Callers DEF IInv, QueueOK, Tasks
  <2> QED
    BY <2>1 DEF IInv, QueueOK, FramesOK, InPlace, RefreshPlaces, Calls, SafeCalls, PlainCalls
<1>7. QueueOK' /\ (Danger' <=> Danger) /\ (RescueReserved => RescueReserved')
  <2>1. task'["main"].st # "sent" /\ task["watchdog"].st # "sent" /\ task'["watchdog"].st # "sent"
        /\ task'["refresh"].st # "sent"
    BY <1>2, <1>4, OutsideRests DEF Kept, Goes, Restarted, Rests
  <2>2. CASE q.by = "refresh"
    <3>1. q'.call = "rfRead" /\ q'.by = "nobody" /\ q'.rescue = FALSE
          /\ q' \in [call : Calls \cup {"none", "rescue"}, by : Tasks \cup {"nobody"}, rescue : BOOLEAN]
      BY <1>1, <1>6, <2>2
    <3>2. \A t \in Tasks : task'[t].st # "sent"
      BY <1>4, <2>1, <2>2 DEF IInv, QueueOK, Tasks
    <3> QED
      BY <1>1, <1>6, <2>2, <3>1, <3>2 DEF QueueOK, Danger, RescueReserved, ManualCalls, SafeCalls, Tasks
  <2>3. CASE q.by # "refresh"
    <3>1. UNCHANGED q /\ task["refresh"].st # "sent"
      BY <1>1, <2>3 DEF IInv, QueueOK, Tasks
    <3>2. \A t \in Tasks : task'[t] = task[t] \/ (task[t].st # "sent" /\ task'[t].st # "sent")
      BY <1>2, <1>4, <2>1, <3>1 DEF Tasks
    <3> QED
      BY <1>1, <3>1, <3>2, QueueStays, Still DEF IInv
  <2> QED
    BY <2>2, <2>3
<1>8. task'["refresh"].at = "dead" /\ ~Goes("main", "sdDrain")
  BY <1>4 DEF Goes, Restarted
<1> QED
  BY <1>1, <1>2, <1>3, <1>4, <1>5, <1>7, <1>8, ShutdownMoves

LEMMA KeepsShutdownRestores ==
  ASSUME IInv, ShutdownRestores
  PROVE  IInv'
<1>1. /\ task["main"].at = "sdWd" /\ wd' = "STOPPED"
      /\ task' = [task EXCEPT !["main"] = IF Pending \/ ~cap THEN At("sdDrain") ELSE Restoring("sdDrain")]
      /\ UNCHANGED <<ec, cfg, err, cv, snap, lock, q, recOk, closing, cap, owned>>
  BY DEF ShutdownRestores, lifeVars
<1>2. ~Booting /\ ~Gone /\ closing /\ task["main"].st # "sent" /\ task \in [Tasks -> Frame] /\ lock = "main"
  BY <1>1, ShuttingDown DEF Stopping
<1>3. "sdDrain" \in Stopping
  BY DEF Stopping
<1>4. wd # "RUNNING" /\ cv # "RUNNING" /\ task["refresh"].at = "dead"
  BY <1>1, <1>2 DEF IInv, StopsOK
<1>5. /\ task' \in [Tasks -> Frame] /\ task'["user"] = task["user"] /\ task'["recovery"] = task["recovery"]
      /\ task'["watchdog"] = task["watchdog"] /\ task'["refresh"] = task["refresh"]
      /\ task'["curve"] = task["curve"]
      /\ task'["main"] = IF Pending \/ ~cap THEN At("sdDrain") ELSE Restoring("sdDrain")
  BY <1>1, <1>2, <1>3, MainGoes DEF Tasks
<1>6. (Goes("main", "sdDrain") /\ (Pending \/ ~cap)) \/ Restarted("main", "sdDrain")
  BY <1>3, <1>5, MainGoes
<1>7. /\ Kept("watchdog") /\ Kept("curve") /\ (wd' = "RUNNING" <=> task'["watchdog"].at # "dead")
      /\ (cv' = "RUNNING" <=> task'["curve"].at # "dead")
  BY <1>1, <1>4, <1>5 DEF Kept, IInv, LifeOK
<1>8. QueueOK' /\ (Danger' <=> Danger) /\ (RescueReserved' <=> RescueReserved)
  <2>1. \A t \in Tasks : task'[t] = task[t] \/ (task[t].st # "sent" /\ task'[t].st # "sent")
    BY <1>2, <1>5, <1>6 DEF Tasks, Goes, Restarted
  <2> QED
    BY <1>1, <2>1, QueueStays, Still DEF IInv
<1>9. Goes("main", "sdDrain") /\ cap => Safe
  BY <1>2, <1>6, PendingIsSafe DEF Goes, Restarted
<1> QED
  BY <1>1, <1>2, <1>3, <1>4, <1>5, <1>6, <1>7, <1>8, <1>9, ShutdownMoves
-----------------------------------------------------------------------------
(* The theorems.                                                           *)

LEMMA KeepsQueueAndRestores ==
  ASSUME IInv, NEW t \in Tasks, QueueStep(t) \/ Timeout(t) \/ RestoreStep(t) \/ CleanupTimeout(t)
  PROVE  IInv'
<1>1. CASE Admit(t)
  BY <1>1, KeepsAdmit
<1>2. CASE RejectBusy(t)
  BY <1>2, KeepsRejectBusy
<1>3. CASE Timeout(t)
  BY <1>3, KeepsTimeout
<1>4. CASE RestoreAnswered(t)
  BY <1>4, KeepsRestoreAnswered
<1>5. CASE RestoreRefreshed(t)
  BY <1>5, KeepsRestoreRefreshed
<1>6. CASE RestoreWaited(t)
  BY <1>6, KeepsRestoreWaited
<1>7. CASE CleanupTimeout(t)
  BY <1>7, KeepsCleanupTimeout
<1> QED
  BY <1>1, <1>2, <1>3, <1>4, <1>5, <1>6, <1>7 DEF QueueStep, RestoreStep

LEMMA KeepsUserStep ==
  ASSUME IInv, UserStep
  PROVE  IInv'
<1>1. CASE \/ UserEnters("stLock", "stCap") \/ UserEnters("cuLock", "cuCap")
           \/ UserEnters("maLock", "maCap")
  BY <1>1, KeepsUserEnters DEF UseCaseLocks
<1>2. CASE UserContinues("stCap", "stAuto") \/ UserContinues("maCap", "maTemp")
  BY <1>2, KeepsUserContinues
<1>3. CASE UserRefreshes("stRefresh") \/ UserRefreshes("cuRefresh")
  BY <1>3, KeepsUserRefreshes
<1>4. CASE StockVerified \/ StockSaves \/ CurveSaves
  BY <1>4, KeepsStockVerified, KeepsStockSaves, KeepsCurveSaves
<1>5. CASE ManualMeasured \/ ManualBegins \/ ManualFails \/ ManualStarts
  BY <1>5, KeepsManualMeasured, KeepsManualBegins, KeepsManualFails, KeepsManualStarts
<1>6. CASE ManualApplies("maMode") \/ ManualApplies("maSpeed")
  BY <1>6, KeepsManualApplies
<1>7. CASE \E mode \in {"stock", "curve"} : ReloadReads(mode)
  BY <1>7, KeepsReloadReads
<1>8. CASE \/ ReloadRefused \/ ReloadStopsCurve \/ ReloadRestores \/ ReloadReports
           \/ ReloadRefreshes
  BY <1>8, KeepsReloadRefused, KeepsReloadStopsCurve, KeepsReloadRestores, KeepsReloadReports,
     KeepsReloadRefreshes
<1> QED
  BY <1>1, <1>2, <1>3, <1>4, <1>5, <1>6, <1>7, <1>8 DEF UserStep

LEMMA KeepsControllers ==
  ASSUME IInv, WatchdogStep \/ CurveStep
  PROVE  IInv'
<1>1. CASE WatchdogStep
  BY <1>1, KeepsWatchdogPolls, KeepsWatchdogLocks, KeepsWatchdogChecks, KeepsWatchdogEnds DEF WatchdogStep
<1>3. CASE CurveTicks \/ CurveLocks \/ CurveApplies
  BY <1>3, KeepsCurveTicks, KeepsCurveLocks, KeepsCurveApplies
<1>4. CASE CurveHolds \/ CurveFinishes
  BY <1>4, KeepsCurveFinishes
<1>5. CASE CurveGivesUp \/ CurveDisabled
  BY <1>5, KeepsCurveGivesUp, KeepsCurveDisabled
<1> QED
  BY <1>1, <1>3, <1>4, <1>5 DEF CurveStep

LEMMA KeepsLifecycle ==
  ASSUME IInv, MainStep \/ Shutdown \/ Crash \/ Boot
  PROVE  IInv'
<1>1. CASE BootRefreshed \/ Serve \/ ShutdownStopsCurve \/ ShutdownStopsRest \/ ShutdownRestores
  BY <1>1, KeepsBootRefreshed, KeepsServe, KeepsShutdownStopsCurve, KeepsShutdownStopsRest,
     KeepsShutdownRestores
<1>2. CASE ShutdownEnds \/ Crash
  BY <1>2, KeepsEnds
<1>3. CASE StopPost \/ Shutdown \/ Boot
  BY <1>3, KeepsStopPost, KeepsShutdown, KeepsBoot
<1> QED
  BY <1>1, <1>2, <1>3 DEF MainStep

LEMMA StepHolds ==
  ASSUME IInv, [Next]_vars
  PROVE  IInv'
<1>1. CASE \E t \in Tasks : QueueStep(t) \/ Timeout(t) \/ RestoreStep(t) \/ CleanupTimeout(t)
  BY <1>1, KeepsQueueAndRestores
<1>2. CASE Return
  BY <1>2, KeepsReturn
<1>3. CASE RecoveryAnswered \/ RecoveryRefreshed
  BY <1>3, KeepsRecoveryAnswered, KeepsRecoveryRefreshed
<1>4. CASE \E l \in UseCaseLocks : UseCase(l)
  BY <1>4, KeepsUseCase
<1>5. CASE UserStep
  BY <1>5, KeepsUserStep
<1>6. CASE WatchdogStep \/ CurveStep
  BY <1>6, KeepsControllers
<1>7. CASE RefreshBegins \/ RefreshEnds
  BY <1>7, KeepsRefreshBegins, KeepsRefreshEnds
<1>8. CASE MainStep \/ Shutdown \/ Crash \/ Boot
  BY <1>8, KeepsLifecycle
<1>9. CASE UNCHANGED vars
  BY <1>9, Unmoved DEF vars
<1> QED
  BY <1>1, <1>2, <1>3, <1>4, <1>5, <1>6, <1>7, <1>8, <1>9 DEF Next, UseCaseLocks

\* The inductive invariant: who is where, what the queue holds for whom, and
\* what each of them knows of the fan.  It is about every await of the use
\* cases, controllers and cleanups of application.py.
THEOREM FanInvariant == Spec => []IInv
<1>1. Init => IInv
  BY InitHolds
<1>2. IInv /\ [Next]_vars => IInv'
  BY StepHolds
<1> QED
  BY <1>1, <1>2, PTL DEF Spec

LEMMA GuardedAtRest ==
  ASSUME IInv, Up, ec = "manual", owned, lock = "free", ~closing
  PROVE  Covered /\ Danger
  BY DEF IInv, GuardOK, AtRest, Danger

LEMMA GuardedWhenOwned ==
  ASSUME IInv, Up, ec = "manual", owned
  PROVE  AnsweredFor
<1>1. CASE lock = "free" /\ ~closing
  BY <1>1, GuardedAtRest DEF Covered, AnsweredFor
<1>2. CASE (lock # "free" \/ closing) /\ (task["main"].at # "sdDrain" \/ ~cap)
  BY <1>2 DEF AnsweredFor
<1>3. CASE task["main"].at = "sdDrain" /\ cap
  BY <1>3 DEF IInv, PlaceOK, Safe, Told, Danger, AnsweredFor
<1> QED
  BY <1>1, <1>2, <1>3

\* safety.md's fan fail-safe: whatever the use cases, the faults and the stops,
\* the EC is in manual mode only while something answers for it -- the lock's
\* holder, the watchdog of set_fan_manual, _fan_curve_loop, a shutdown that has
\* its own restore ahead, a reserved set_fan_auto, or _fan_fail_safe_error.
THEOREM FanManualIsGuarded == Spec => []ManualIsGuarded
<1>1. IInv => ManualIsGuarded
  BY GuardedWhenOwned DEF ManualIsGuarded
<1> QED
  BY <1>1, FanInvariant, PTL

\* Manual mode found at start-up, after a crash or a failed emergency restore,
\* is taken back by _initialize_fan_safety or answered for before start_background,
\* unless the first reads were too slow to learn that there is a fan.
THEOREM FanInheritedIsGuarded == Spec => []InheritedIsGuarded
<1>1. IInv => InheritedIsGuarded
  <2> SUFFICES ASSUME IInv, task["main"].at = "booted", cap, ec = "manual" PROVE AnsweredFor
    BY DEF InheritedIsGuarded
  <2>1. Up /\ owned
    BY DEF IInv, LifeOK, Booting, FramesOK, InPlace, Restores, Up
  <2> QED
    BY <2>1, GuardedWhenOwned
<1> QED
  BY <1>1, FanInvariant, PTL

\* The snapshot _refresh_fan and the controllers publish never says "stock" of
\* a fan in manual mode while nothing is under way to change that.
THEOREM FanSnapshotNeverHidesManual == Spec => []SnapshotNeverHidesManual
<1>1. IInv => SnapshotNeverHidesManual
  BY GuardedAtRest DEF SnapshotNeverHidesManual, Covered
<1> QED
  BY <1>1, FanInvariant, PTL

\* While _complete_fan_timeout_recovery waits, the set_fan_auto it waits for is
\* still in the queue's worker, so _fan_restore_pending does not last for ever.
THEOREM FanPendingIsBacked == Spec => []PendingIsBacked
<1>1. IInv => PendingIsBacked
  BY DEF IInv, RecoveryOK, PendingIsBacked
<1> QED
  BY <1>1, FanInvariant, PTL

\* A service that is gone does nothing more but leave the field to ExecStopPost.
LEMMA OnlyStopPostFollows ==
  ASSUME IInv, Next, task["main"].at = "exited"
  PROVE  StopPost
<1>1. /\ \A t \in Tasks \ {"main"} : task[t].at = "dead"
      /\ q.call = "none" /\ ~Poisoned
  BY DEF IInv, LifeOK, Gone, Tasks, IdleQueue, Poisoned
<1>2. \A t \in Tasks : /\ task[t].st \notin {"want", "sent"} /\ task[t].ret \notin CleanupLabels
                       /\ task[t].at \notin Restores
  <2>1. \A t \in Tasks : task[t].at \in {"exited", "dead"}
    BY <1>1
  <2>2. \A t \in Tasks : task[t].at \notin Restores /\ task[t].at \notin Calls
    BY <2>1 DEF Restores, Calls, SafeCalls, PlainCalls
  <2>3. \A t \in Tasks : (task[t].st \in {"want", "sent"} => task[t].at \in Calls)
                         /\ (task[t].at \in Restores \/ task[t].ret = "none")
    BY DEF IInv, FramesOK, InPlace, Tasks
  <2> QED
    BY <2>2, <2>3 DEF CleanupLabels
<1>3. ~(\E t \in Tasks : QueueStep(t) \/ Timeout(t) \/ RestoreStep(t) \/ CleanupTimeout(t))
  BY <1>2 DEF QueueStep, Admit, RejectBusy, Timeout, RestoreStep, RestoreAnswered, RestoreRefreshed,
     RestoreWaited, CleanupTimeout, Answered, Restores
<1>4. ~Return /\ ~RecoveryAnswered /\ ~RecoveryRefreshed /\ ~(\E l \in UseCaseLocks : UseCase(l))
  BY <1>1 DEF Return, RecoveryAnswered, RecoveryRefreshed, UseCase, Answered, Tasks
<1>5. ~UserStep
  BY <1>1 DEF Tasks, UserStep, UserEnters, UserContinues, StockVerified, StockSaves, UserRefreshes, CurveSaves,
     ManualMeasured, ManualBegins, ManualApplies, ManualFails, ManualStarts, ReloadReads, ReloadRefused,
     ReloadStopsCurve, ReloadRestores, ReloadReports, ReloadRefreshes, Answered
<1>6. ~WatchdogStep /\ ~CurveStep
  BY <1>1 DEF Tasks, WatchdogPolls, WatchdogExpires, WatchdogStep, WatchdogLocks, WatchdogChecks, WatchdogEnds,
     CurveStep, CurveTicks, CurveLocks, CurveHolds, CurveApplies, CurveFinishes, CurveGivesUp, CurveDisabled,
     Answered
<1>7. ~RefreshBegins /\ ~RefreshEnds
  BY <1>1 DEF Tasks, RefreshBegins, RefreshEnds, Answered
<1>8. ~Shutdown /\ ~Crash /\ ~Boot /\ (MainStep => StopPost)
  BY DEF Shutdown, Crash, Boot, MainStep, BootRefreshed, Serve, ShutdownStopsCurve, ShutdownStopsRest,
     ShutdownRestores, ShutdownEnds, Answered
<1> QED
  BY <1>3, <1>4, <1>5, <1>6, <1>7, <1>8 DEF Next, UseCaseLocks
-----------------------------------------------------------------------------
(* The type invariant.                                                     *)

ModesOK ==
    /\ ec \in {"auto", "manual"} /\ cfg \in {"stock", "curve"}
    /\ wd \in {"STOPPED", "STOPPING", "RUNNING", "FAILED"}
    /\ cv \in {"STOPPED", "STOPPING", "RUNNING", "FAILED"}
    /\ snap \in {"stock", "curve", "manual_override", "failed_safe"}

FlagsOK ==
    /\ err \in BOOLEAN /\ recOk \in BOOLEAN /\ held \in BOOLEAN
    /\ closing \in BOOLEAN /\ cap \in BOOLEAN /\ owned \in BOOLEAN

\* The third failure in a row is the curve controller's last tick, until it is
\* started afresh.
GaveUp == \/ task["curve"].at \in {"dead", "cvGiveUpLock", "cvGaveUp"}
          \/ task["curve"].ret = "cvGaveUp"

CountersOK ==
    /\ failures \in 0..3 /\ ops \in 0..MaxOps /\ boots \in 1..MaxBoots
    /\ failures = 3 => GaveUp
    /\ Booting => failures = 0

LEMMA RefreshedIsMode ==
  ASSUME ModesOK, NEW t
  PROVE  Refreshed(t) \in {"stock", "curve", "manual_override", "failed_safe"}
  BY DEF ModesOK, Refreshed, ObservedMode

LEMMA OutcomeIsMode ==
  ASSUME ModesOK, NEW l, NEW o \in Outcomes(l)
  PROVE  o[2] \in {"auto", "manual"}
  BY DEF ModesOK, Outcomes

LEMMA ModesStay ==
  ASSUME ModesOK, [Next]_vars
  PROVE  ModesOK'
<1>1. CASE \E t \in Tasks : QueueStep(t) \/ Timeout(t) \/ RestoreStep(t) \/ CleanupTimeout(t)
  BY <1>1, RefreshedIsMode DEF ModesOK, QueueStep, Admit, RejectBusy, Timeout, RestoreStep, RestoreAnswered,
     RestoreRefreshed, RestoreWaited, CleanupTimeout
<1>2. CASE Return \/ RecoveryAnswered \/ RecoveryRefreshed \/ \E l \in UseCaseLocks : UseCase(l)
  BY <1>2, RefreshedIsMode, OutcomeIsMode DEF ModesOK, Return, RecoveryAnswered, RecoveryRefreshed, UseCase
<1>3. CASE UserStep
  BY <1>3, RefreshedIsMode DEF ModesOK, UserStep, UserEnters, UserContinues, StockVerified, StockSaves,
     UserRefreshes, CurveSaves, ManualMeasured, ManualBegins, ManualApplies, ManualFails, ManualStarts,
     ReloadReads, ReloadRefused, ReloadStopsCurve, ReloadRestores, ReloadReports, ReloadRefreshes, UserEnds,
     StopWatchdog, StopCurve, StartCurve, RefreshesAll
<1>4. CASE WatchdogStep
  BY <1>4 DEF ModesOK, WatchdogPolls, WatchdogExpires, WatchdogStep, WatchdogLocks, WatchdogChecks, WatchdogEnds
<1>5. CASE CurveStep
  BY <1>5 DEF ModesOK, CurveStep, CurveTicks, CurveLocks, CurveHolds, CurveApplies, CurveFinishes,
     CurveGivesUp, CurveDisabled, CurveSucceeds, CurveFails
<1>6. CASE RefreshBegins \/ RefreshEnds
  BY <1>6, RefreshedIsMode DEF ModesOK, RefreshBegins, RefreshEnds, RefreshesAll
<1>7. CASE Crash \/ ShutdownEnds
  BY <1>7, OutcomeIsMode DEF ModesOK, Crash, ShutdownEnds, ProcessEnds
<1>8. CASE (MainStep /\ ~ShutdownEnds) \/ Shutdown \/ Boot
  BY <1>8, RefreshedIsMode, OutcomeIsMode DEF ModesOK, MainStep, BootRefreshed, Serve, ShutdownStopsCurve,
     ShutdownStopsRest, ShutdownRestores, StopPost, Shutdown, Boot, RefreshesAll, StopCurve
<1>9. CASE UNCHANGED vars
  BY <1>9 DEF ModesOK, vars
<1> QED
  BY <1>1, <1>2, <1>3, <1>4, <1>5, <1>6, <1>7, <1>8, <1>9 DEF Next, UseCaseLocks, MainStep

LEMMA FlagsStay ==
  ASSUME FlagsOK, [Next]_vars
  PROVE  FlagsOK'
<1>1. CASE \E t \in Tasks : QueueStep(t) \/ Timeout(t) \/ RestoreStep(t) \/ CleanupTimeout(t)
  BY <1>1 DEF FlagsOK, QueueStep, Admit, RejectBusy, Timeout, RestoreStep, RestoreAnswered,
     RestoreRefreshed, RestoreWaited, CleanupTimeout, curveVars, lifeVars
<1>2. CASE Return \/ RecoveryAnswered \/ RecoveryRefreshed \/ \E l \in UseCaseLocks : UseCase(l)
  BY <1>2 DEF FlagsOK, Return, RecoveryAnswered, RecoveryRefreshed, UseCase, curveVars, lifeVars
<1>3. CASE UserStep
  BY <1>3 DEF FlagsOK, UserStep, UserEnters, UserContinues, StockVerified, StockSaves,
     UserRefreshes, CurveSaves, ManualMeasured, ManualBegins, ManualApplies, ManualFails, ManualStarts,
     ReloadReads, ReloadRefused, ReloadStopsCurve, ReloadRestores, ReloadReports, ReloadRefreshes,
     StartCurve, RefreshesAll, curveVars, lifeVars
<1>4. CASE WatchdogStep
  BY <1>4 DEF FlagsOK, WatchdogPolls, WatchdogExpires, WatchdogStep, WatchdogLocks, WatchdogChecks,
     WatchdogEnds, curveVars, lifeVars
<1>5. CASE CurveStep
  BY <1>5 DEF FlagsOK, CurveStep, CurveTicks, CurveLocks, CurveHolds, CurveApplies, CurveFinishes,
     CurveGivesUp, CurveDisabled, CurveSucceeds, CurveFails, curveVars, lifeVars
<1>6. CASE RefreshBegins \/ RefreshEnds
  BY <1>6 DEF FlagsOK, RefreshBegins, RefreshEnds, RefreshesAll, curveVars, lifeVars
<1>7. CASE MainStep \/ Shutdown \/ Crash \/ Boot
  BY <1>7 DEF FlagsOK, MainStep, BootRefreshed, Serve, ShutdownStopsCurve, ShutdownStopsRest,
     ShutdownRestores, ShutdownEnds, StopPost, Shutdown, Crash, Boot, RefreshesAll, curveVars, lifeVars
<1>8. CASE UNCHANGED vars
  BY <1>8 DEF FlagsOK, vars
<1> QED
  BY <1>1, <1>2, <1>3, <1>4, <1>5, <1>6, <1>7, <1>8 DEF Next, UseCaseLocks

\* Where the main task and the curve's are, without their answers.
CurveAndMain ==
    /\ task \in [Tasks -> Frame]
    /\ \/ task["curve"].at \in CurvePlaces /\ task["curve"].ret = "none"
       \/ task["curve"].at \in Restores /\ task["curve"].ret \in CurveReturns
    /\ task["main"].ret \in MainReturns \cup {"none"}

LEMMA InvLocates == IInv => CurveAndMain
  BY DEF IInv, FramesOK, InPlace, CurveAndMain

\* A step that leaves the failures alone leaves a controller that has given up
\* there, and does not begin a start-up.
GoesOn == /\ failures' = failures /\ ops' \in 0..MaxOps /\ boots' = boots
          /\ (GaveUp => GaveUp') /\ (Booting' => Booting)

LEMMA QueueAndRestoresGoOn ==
  ASSUME CurveAndMain, CountersOK, NEW t \in Tasks,
         QueueStep(t) \/ Timeout(t) \/ RestoreStep(t) \/ CleanupTimeout(t)
  PROVE  GoesOn
<1>1. /\ UNCHANGED <<failures, ops, boots>>
  BY DEF QueueStep, Admit, RejectBusy, Timeout, RestoreStep, RestoreAnswered, RestoreRefreshed, RestoreWaited,
     CleanupTimeout, curveVars, lifeVars
<1>2. (GaveUp => GaveUp') /\ (Booting' => Booting)
  <2>1. CASE QueueStep(t)
    BY <2>1 DEF QueueStep, Admit, RejectBusy, CurveAndMain, GaveUp, Booting, Frame, Tasks
  <2>2. CASE Timeout(t)
    BY <2>2, Arrives DEF Timeout, CurveAndMain, GaveUp, Booting, Frame, Tasks
  <2>3. CASE RestoreStep(t)
    <3>1. task[t].at \in Restores /\ task \in [Tasks -> Frame]
      BY <2>3 DEF RestoreStep, RestoreAnswered, RestoreRefreshed, RestoreWaited, Answered, Restores, CurveAndMain
    <3>2. task' = [task EXCEPT ![t] = task'[t]] /\ (task'[t].ret = task[t].ret \/ task'[t].at = task[t].ret)
          /\ (task'[t].at = "rsRefresh" \/ task'[t].at = task[t].ret)
          /\ (task'[t].ret = task[t].ret \/ task'[t].ret = "none")
      BY <2>3, <3>1, Arrives DEF RestoreStep, RestoreAnswered, RestoreRefreshed, RestoreWaited, Back, At
    <3> QED
      BY <3>1, <3>2 DEF GaveUp, Booting, CurveAndMain, Restores, Tasks, CurvePlaces, CurveOutside, MainReturns,
         Stopping
  <2>4. CASE CleanupTimeout(t)
    BY <2>4 DEF CleanupTimeout, CleanupLabels, Back, CurveAndMain, GaveUp, Booting, Frame, Tasks,
       MainReturns, Stopping, CurveReturns
  <2> QED
    BY <2>1, <2>2, <2>3, <2>4
<1> QED
  BY <1>1, <1>2 DEF GoesOn, CountersOK

LEMMA OthersGoOn ==
  ASSUME CurveAndMain, CountersOK,
         \/ Return \/ RecoveryAnswered \/ RecoveryRefreshed \/ \E l \in UseCaseLocks : UseCase(l)
         \/ WatchdogStep \/ RefreshBegins \/ RefreshEnds \/ Shutdown
  PROVE  GoesOn
<1>1. UNCHANGED <<failures, boots>> /\ ops' \in 0..MaxOps
  <2>1. CASE RefreshBegins \/ \E l \in UseCaseLocks : UseCase(l)
    BY <2>1, BoundsAssumption DEF UseCase, RefreshBegins, curveVars, CountersOK
  <2>2. CASE ~RefreshBegins /\ ~(\E l \in UseCaseLocks : UseCase(l))
    BY <2>2 DEF CountersOK, Return, RecoveryAnswered, RecoveryRefreshed, WatchdogPolls, WatchdogExpires,
       WatchdogStep, WatchdogLocks, WatchdogChecks, WatchdogEnds, RefreshEnds, RefreshesAll,
       Shutdown, curveVars, lifeVars
  <2> QED
    BY <2>1, <2>2
<1>2. task'["curve"].at = task["curve"].at /\ task'["curve"].ret = task["curve"].ret
      /\ \/ task'["main"].at = task["main"].at /\ task'["main"].ret = task["main"].ret
         \/ task'["main"].at = "sdLock" /\ task'["main"].ret = "none"
  <2>1. CASE Return
    BY <2>1 DEF Return, CurveAndMain, Tasks, Frame
  <2>2. CASE RecoveryAnswered \/ RecoveryRefreshed \/ (\E l \in UseCaseLocks : UseCase(l))
             \/ RefreshBegins \/ RefreshEnds
    BY <2>2 DEF RecoveryAnswered, RecoveryRefreshed, UseCase, RefreshBegins, RefreshEnds, CurveAndMain, Tasks
  <2>3. CASE WatchdogStep
    BY <2>3 DEF WatchdogPolls, WatchdogExpires, WatchdogStep, WatchdogLocks, WatchdogChecks, WatchdogEnds,
       WatchdogTo, CurveAndMain, Tasks
  <2>4. CASE Shutdown
    BY <2>4 DEF Shutdown, CurveAndMain, Tasks, At
  <2> QED
    BY <2>1, <2>2, <2>3, <2>4
<1> QED
  BY <1>1, <1>2 DEF GoesOn, GaveUp, Booting

LEMMA UserCounts ==
  ASSUME CurveAndMain, CountersOK, UserStep
  PROVE  CountersOK'
<1>1. UNCHANGED <<ops, boots>> /\ task'["main"] = task["main"]
  BY DEF UserStep, UserEnters, UserContinues, StockVerified, StockSaves,
     UserRefreshes, CurveSaves, ManualMeasured, ManualBegins, ManualApplies, ManualFails, ManualStarts,
     ReloadReads, ReloadRefused, ReloadStopsCurve, ReloadRestores, ReloadReports, ReloadRefreshes,
     StartCurve, StopCurve, StopWatchdog, RefreshesAll, UserEnds, lifeVars, CurveAndMain, Tasks
<1>2. \/ failures' = 0
      \/ failures' = failures /\ (task'["curve"] = task["curve"] \/ task'["curve"] = At("dead"))
  BY DEF UserStep, UserEnters, UserContinues, StockVerified, StockSaves,
     UserRefreshes, CurveSaves, ManualMeasured, ManualBegins, ManualApplies, ManualFails, ManualStarts,
     ReloadReads, ReloadRefused, ReloadStopsCurve, ReloadRestores, ReloadReports, ReloadRefreshes,
     StartCurve, StopCurve, StopWatchdog, RefreshesAll, UserEnds, curveVars, CurveAndMain, Tasks
<1>3. At("dead").at = "dead"
  BY DEF At
<1> QED
  BY <1>1, <1>2, <1>3 DEF CountersOK, GaveUp, Booting

LEMMA CurveCounts ==
  ASSUME IInv, CountersOK, CurveStep
  PROVE  CountersOK'
<1>1. UNCHANGED <<ops, boots>> /\ task'["main"] = task["main"] /\ ~Booting
  <2>1. ~Booting
    BY DEF IInv, LifeOK, CurveStep, CurveTicks, CurveLocks, CurveHolds, CurveApplies, CurveFinishes,
       CurveGivesUp, CurveDisabled, Answered
  <2> QED
    BY <2>1, InvLocates DEF CurveAndMain, CurveStep, CurveTicks, CurveLocks, CurveHolds, CurveApplies, CurveFinishes,
       CurveGivesUp, CurveDisabled, CurveSucceeds, CurveFails, CurveTo, lifeVars, Tasks
<1>2. /\ failures' = failures \/ failures' = 0 \/ (failures' = failures + 1 /\ failures # 3)
      /\ failures' = 3 => GaveUp'
  <2>0. CurveAndMain
    BY InvLocates
  <2>1. CASE CurveTicks \/ CurveLocks \/ CurveApplies
    <3>1. failures' = failures
      BY <2>1 DEF CurveTicks, CurveLocks, CurveApplies, curveVars
    <3>2. failures # 3 \/ task' = task
      BY <2>0, <2>1 DEF CurveTicks, CurveLocks, CurveApplies, CurveAndMain, CountersOK, GaveUp, Answered, Restores
    <3> QED
      BY <3>1, <3>2 DEF CountersOK, GaveUp
  <2>2. CASE CurveHolds \/ CurveFinishes
    <3>1. failures # 3
      BY <2>0, <2>2 DEF CurveHolds, CurveFinishes, CurveAndMain, CountersOK, GaveUp, Answered, Restores, CurveReturns
    <3> QED
      BY <2>0, <2>2, <3>1 DEF CurveHolds, CurveFinishes, CurveSucceeds, CurveFails, CurveTo, At, GaveUp,
         CurveAndMain, Tasks, CountersOK
  <2>3. CASE CurveGivesUp \/ CurveDisabled
    BY <2>0, <2>3 DEF CurveGivesUp, CurveDisabled, CurveTo, CurveAndMain, Tasks, curveVars, Restoring, At, GaveUp
  <2> QED
    BY <2>1, <2>2, <2>3 DEF CurveStep
<1> QED
  BY <1>1, <1>2 DEF CountersOK, Booting

LEMMA MainCounts ==
  ASSUME CurveAndMain, CountersOK, MainStep \/ Crash \/ Boot
  PROVE  CountersOK'
<1>1. CASE BootRefreshed \/ ShutdownStopsCurve \/ ShutdownStopsRest \/ ShutdownRestores \/ StopPost
  <2>1. UNCHANGED <<failures, ops, boots>>
    BY <1>1 DEF BootRefreshed, RefreshesAll, ShutdownStopsCurve, ShutdownStopsRest, ShutdownRestores, StopPost,
       curveVars, lifeVars
  <2>2. task'["curve"] = task["curve"] \/ task'["curve"].at = "dead"
    BY <1>1 DEF BootRefreshed, ShutdownStopsCurve, ShutdownStopsRest, ShutdownRestores, StopPost,
       StopCurve, CurveAndMain, Tasks, At
  <2>3. Booting' => Booting
    <3>1. CASE BootRefreshed
      BY <3>1 DEF BootRefreshed, Answered, Booting
    <3>2. CASE ShutdownStopsCurve \/ ShutdownRestores \/ StopPost
      BY <3>2 DEF ShutdownStopsCurve, ShutdownRestores, StopPost, StopCurve, CurveAndMain, Tasks, At,
         Restoring, Booting
    <3>3. CASE ShutdownStopsRest
      <4>1. task'["main"] = At("sdWd") \/ task'["main"] = Restoring("sdWd")
        BY <3>3 DEF ShutdownStopsRest, CurveAndMain, Tasks
      <4> QED
        BY <4>1 DEF At, Restoring, Booting
    <3> QED
      BY <1>1, <3>1, <3>2, <3>3
  <2> QED
    BY <2>1, <2>2, <2>3 DEF CountersOK, GaveUp
<1>2. CASE Serve
  BY <1>2 DEF Serve, CountersOK, Booting, GaveUp, curveVars, lifeVars
<1>3. CASE ShutdownEnds \/ Crash
  <2>1. task'["curve"].at = "dead" /\ task'["main"].at = "exited" /\ task'["main"].ret = "none"
    BY <1>3 DEF ShutdownEnds, Crash, ProcessEnds, Tasks, At
  <2> QED
    BY <1>3, <2>1 DEF ShutdownEnds, Crash, CountersOK, GaveUp, Booting, curveVars, lifeVars
<1>4. CASE Boot
  BY <1>4, BoundsAssumption DEF Boot, CountersOK
<1> QED
  BY <1>1, <1>2, <1>3, <1>4 DEF MainStep

LEMMA CountersStay ==
  ASSUME IInv, CountersOK, [Next]_vars
  PROVE  CountersOK'
<1>0. CurveAndMain
  BY InvLocates
<1>1. GoesOn => CountersOK'
  BY DEF GoesOn, CountersOK
<1>2. CASE \E t \in Tasks : QueueStep(t) \/ Timeout(t) \/ RestoreStep(t) \/ CleanupTimeout(t)
  BY <1>0, <1>1, <1>2, QueueAndRestoresGoOn
<1>3. CASE \/ Return \/ RecoveryAnswered \/ RecoveryRefreshed \/ \E l \in UseCaseLocks : UseCase(l)
           \/ WatchdogStep \/ RefreshBegins \/ RefreshEnds \/ Shutdown
  BY <1>0, <1>1, <1>3, OthersGoOn
<1>4. CASE UserStep \/ CurveStep \/ MainStep \/ Crash \/ Boot
  BY <1>0, <1>4, UserCounts, CurveCounts, MainCounts
<1>5. CASE UNCHANGED vars
  BY <1>5 DEF vars, CountersOK, GaveUp, Booting
<1> QED
  BY <1>2, <1>3, <1>4, <1>5 DEF Next, UseCaseLocks

LEMMA TypeParts == TypeOK /\ CountersOK <=> 
    /\ ModesOK /\ FlagsOK /\ CountersOK /\ lock \in Tasks \cup {"free"} /\ task \in [Tasks -> Frame]
    /\ q \in [call : Calls \cup {"none", "rescue"}, by : Tasks \cup {"nobody"}, rescue : BOOLEAN]
  BY DEF TypeOK, ModesOK, FlagsOK, CountersOK

\* The type invariant, with the controller's failure count within its three.
THEOREM FanTypeOK == Spec => []TypeOK
<1>1. Init => ModesOK /\ FlagsOK /\ CountersOK
  <2>1. Init => ModesOK /\ FlagsOK
    BY DEF Init, ModesOK, FlagsOK
  <2>2. Init => CountersOK
    BY BoundsAssumption DEF Init, CountersOK
  <2> QED
    BY <2>1, <2>2
<1>2. IInv /\ ModesOK /\ FlagsOK /\ CountersOK /\ [Next]_vars => (ModesOK /\ FlagsOK /\ CountersOK)'
  BY ModesStay, FlagsStay, CountersStay
<1>3. IInv /\ ModesOK /\ FlagsOK /\ CountersOK => TypeOK
  BY TypeParts DEF IInv, LockOK, FramesOK, QueueOK, Tasks
<1> QED
  BY <1>1, <1>2, <1>3, FanInvariant, PTL DEF Spec

\* Nothing but the end of the process takes the main task to "exited".
LEMMA OnlyEndsExit ==
  ASSUME IInv, Next, task["main"].at # "exited", task'["main"].at = "exited"
  PROVE  ShutdownEnds \/ Crash
<1>1. task \in [Tasks -> Frame] /\ "main" \in Tasks /\ "exited" \notin Calls
      /\ task["main"].ret # "exited"
  BY DEF IInv, FramesOK, InPlace, Tasks, MainReturns, Stopping, Calls, SafeCalls, PlainCalls
<1>2. ASSUME NEW t \in Tasks, QueueStep(t) \/ Timeout(t) \/ RestoreStep(t) \/ CleanupTimeout(t)
      PROVE  FALSE
  <2>1. CASE QueueStep(t)
    BY <1>1, <2>1 DEF QueueStep, Admit, RejectBusy, Frame
  <2>2. CASE Timeout(t)
    BY <1>1, <2>2 DEF Timeout, Frame
  <2>3. CASE RestoreStep(t)
    BY <1>1, <2>3 DEF RestoreStep, RestoreAnswered, RestoreRefreshed, RestoreWaited, Back, At
  <2>4. CASE CleanupTimeout(t)
    BY <1>1, <2>4 DEF CleanupTimeout, Back
  <2> QED
    BY <1>2, <2>1, <2>2, <2>3, <2>4
<1>3. ~Return
  <2>1. Return => task'["main"].at = task["main"].at
    BY <1>1 DEF Return, Frame
  <2> QED
    BY <2>1
<1>4. ~RecoveryAnswered /\ ~RecoveryRefreshed /\ ~(\E l \in UseCaseLocks : UseCase(l))
  BY <1>1 DEF RecoveryAnswered, RecoveryRefreshed, UseCase
<1>5. ~UserStep
  BY <1>1 DEF UserStep, UserEnters, UserContinues, StockVerified, StockSaves, UserRefreshes, CurveSaves,
     ManualMeasured, ManualBegins, ManualApplies, ManualFails, ManualStarts, ReloadReads, ReloadRefused,
     ReloadStopsCurve, ReloadRestores, ReloadReports, ReloadRefreshes, UserEnds, StopWatchdog, StopCurve,
     StartCurve
<1>6. ~WatchdogStep
  BY <1>1 DEF WatchdogPolls, WatchdogExpires, WatchdogStep, WatchdogLocks, WatchdogChecks, WatchdogEnds,
     WatchdogTo
<1>7. ~CurveStep
  BY <1>1 DEF CurveStep, CurveTicks, CurveLocks, CurveHolds, CurveApplies, CurveFinishes, CurveGivesUp,
     CurveDisabled, CurveSucceeds, CurveFails, CurveTo
<1>8. ~RefreshBegins /\ ~RefreshEnds
  BY <1>1 DEF RefreshBegins, RefreshEnds
<1>9. ~Shutdown /\ ~Boot
  BY <1>1 DEF Shutdown, Boot, ProcessInit, At
<1>10. MainStep => ShutdownEnds
  BY <1>1 DEF MainStep, BootRefreshed, Serve, ShutdownStopsCurve, ShutdownStopsRest, ShutdownRestores,
     StopPost, StopCurve, Restoring, At
<1> QED
  BY <1>2, <1>3, <1>4, <1>5, <1>6, <1>7, <1>8, <1>9, <1>10 DEF Next, UseCaseLocks

\* A shutdown's last step leaves stock auto behind or has said it could not.
LEMMA EndsHonestly ==
  ASSUME IInv, ec \in {"auto", "manual"}, ShutdownEnds
  PROVE  ShutdownIsHonest'
<1>1. SUFFICES ASSUME cap, ~err PROVE ec' = "auto"
  BY DEF ShutdownEnds, ShutdownIsHonest, lifeVars
<1>2. ec # "manual" /\ q.call \notin ManualCalls
  BY <1>1 DEF ShutdownEnds, IInv, PlaceOK, Safe, Danger, Told
<1>3. ASSUME NEW o \in Outcomes(q.call) PROVE o[2] = "auto"
  BY <1>2 DEF Outcomes, Command, ManualCalls
<1> QED
  BY <1>2, <1>3 DEF ShutdownEnds, ProcessEnds

\* The shutdown of main() and of Application.shutdown is honest: if the service
\* knew its fan and reports no failure, stock auto is back before ExecStopPost
\* runs.  (A process that dies before the end of it has reported nothing.)
THEOREM FanShutdownIsHonest == Spec => []ShutdownIsHonest
<1>1. Init => ShutdownIsHonest
  BY DEF Init, ShutdownIsHonest
<1>2. IInv /\ TypeOK /\ ShutdownIsHonest /\ [Next]_vars => ShutdownIsHonest'
  <2> SUFFICES ASSUME IInv, TypeOK, ShutdownIsHonest, [Next]_vars
               PROVE  ShutdownIsHonest'
    OBVIOUS
  <2>1. CASE UNCHANGED vars
    BY <2>1 DEF ShutdownIsHonest, vars
  <2>2. CASE Next /\ task["main"].at = "exited"
    <3>1. StopPost /\ task \in [Tasks -> Frame]
      BY <2>2, OnlyStopPostFollows DEF IInv, FramesOK
    <3>2. task'["main"].at # "exited"
      BY <3>1 DEF StopPost, At, Tasks
    <3> QED
      BY <3>2 DEF ShutdownIsHonest
  <2>3. CASE Next /\ task["main"].at # "exited" /\ task'["main"].at = "exited"
    BY <2>3, OnlyEndsExit, EndsHonestly DEF Crash, TypeOK, ShutdownIsHonest
  <2>4. CASE task'["main"].at # "exited"
    BY <2>4 DEF ShutdownIsHonest
  <2> QED
    BY <2>1, <2>2, <2>3, <2>4
<1> QED
  BY <1>1, <1>2, FanInvariant, FanTypeOK, PTL DEF Spec
-----------------------------------------------------------------------------
(* The queue as the fan's tasks use it.                                    *)

\* What the hardware still has to do, oldest first.
Outstanding ==
    CASE q.call = "none"   -> <<>>
      [] q.call = "rescue" -> <<"recovery">>
      [] OTHER             -> IF q.rescue THEN <<"command", "recovery">> ELSE <<"command">>

Serial == INSTANCE SerialHardware WITH outstanding <- Outstanding

LEMMA TimeoutReserves ==
  ASSUME IInv, NEW t \in Tasks, task[t].st = "sent",
         q' = [q EXCEPT !.by = "nobody", !.rescue = task[t].at \in SafeCalls]
  PROVE  Serial!Reserve \/ UNCHANGED Outstanding
<1>1. q.by = t /\ q.call = task[t].at /\ q.call \notin {"none", "rescue"}
      /\ q \in [call : Calls \cup {"none", "rescue"}, by : Tasks \cup {"nobody"}, rescue : BOOLEAN]
  BY DEF IInv, QueueOK, IdleQueue, Tasks
<1>2. ~q.rescue
  BY <1>1 DEF IInv, QueueOK, Tasks
<1>3. Outstanding = <<"command">>
  BY <1>1, <1>2 DEF Outstanding
<1>4. q'.call = q.call
  BY <1>1
<1>5. CASE task[t].at \in SafeCalls
  <2>1. q'.rescue
    BY <1>1, <1>5
  <2>2. Outstanding' = <<"command", "recovery">>
    BY <1>1, <1>4, <2>1 DEF Outstanding
  <2> QED
    BY <1>3, <2>2 DEF Serial!Reserve
<1>6. CASE task[t].at \notin SafeCalls
  <2>1. ~q'.rescue
    BY <1>1, <1>6
  <2>2. Outstanding' = <<"command">>
    BY <1>1, <1>4, <2>1 DEF Outstanding
  <2> QED
    BY <1>3, <2>2
<1> QED
  BY <1>5, <1>6

LEMMA ReturnFinishes ==
  ASSUME IInv, Return
  PROVE  Serial!Finish
<1>1. q.call # "none" /\ q' = IF q.rescue THEN [IdleQueue EXCEPT !.call = "rescue"] ELSE IdleQueue
  BY DEF Return
<1>2. Outstanding # <<>> /\ Tail(Outstanding) = IF q.rescue THEN <<"recovery">> ELSE <<>>
  BY <1>1 DEF Outstanding, IInv, QueueOK
<1>3. Outstanding' = IF q.rescue THEN <<"recovery">> ELSE <<>>
  BY <1>1 DEF Outstanding, IdleQueue
<1> QED
  BY <1>2, <1>3 DEF Serial!Finish

LEMMA QueueTasksSerial ==
  ASSUME IInv, NEW t \in Tasks, QueueStep(t) \/ Timeout(t) \/ RestoreStep(t) \/ CleanupTimeout(t)
  PROVE  Serial!Next \/ UNCHANGED Outstanding
<1>1. CASE Admit(t)
  <2>1. q.call = "none" /\ q'.call = task[t].at /\ q'.rescue = FALSE /\ task[t].at \in Calls
    BY <1>1 DEF Admit, IInv, FramesOK, InPlace, Tasks
  <2>2. Outstanding = <<>> /\ Outstanding' = <<"command">>
    BY <2>1 DEF Outstanding, Calls, SafeCalls, PlainCalls
  <2> QED
    BY <2>2 DEF Serial!Begin, Serial!Next
<1>2. CASE Timeout(t)
  BY <1>2, TimeoutReserves DEF Timeout, Serial!Next
<1>3. CASE CleanupTimeout(t)
  <2>1. CASE task[t].st = "sent"
    BY <1>3, <2>1, TimeoutReserves DEF CleanupTimeout, Serial!Next
  <2>2. CASE task[t].st # "sent"
    BY <1>3, <2>2 DEF CleanupTimeout, Outstanding
  <2> QED
    BY <2>1, <2>2
<1>4. CASE RejectBusy(t) \/ RestoreStep(t)
  <2>1. UNCHANGED q
    BY <1>4 DEF RejectBusy, RestoreStep, RestoreAnswered, RestoreRefreshed, RestoreWaited
  <2> QED
    BY <2>1 DEF Outstanding
<1> QED
  BY <1>1, <1>2, <1>3, <1>4 DEF QueueStep

\* The calls of _run_fan_command, _restore_fan_auto and the reads show the
\* hardware what HardwareCommandQueue implements, SerialHardware: one command at
\* a time, and a recovery only directly behind its own.  Only the end of the
\* process breaks it off, with whatever was outstanding.
THEOREM FanUsesSerialQueue ==
  Spec => Serial!Init /\ [][Serial!Next \/ ProcessEnds]_Outstanding
<1>1. Init => Serial!Init
  BY DEF Init, Serial!Init, Outstanding, IdleQueue
<1>2. IInv /\ [Next]_vars => [Serial!Next \/ ProcessEnds]_Outstanding
  <2> SUFFICES ASSUME IInv, [Next]_vars
               PROVE  Serial!Next \/ ProcessEnds \/ UNCHANGED Outstanding
    OBVIOUS
  <2>1. CASE \E t \in Tasks : QueueStep(t) \/ Timeout(t) \/ RestoreStep(t) \/ CleanupTimeout(t)
    BY <2>1, QueueTasksSerial
  <2>2. CASE Return
    BY <2>2, ReturnFinishes DEF Serial!Next
  <2>3. CASE ShutdownEnds \/ Crash
    BY <2>3 DEF ShutdownEnds, Crash
  <2>4. CASE ShutdownStopsRest
    <3>1. q'.call = q.call /\ q'.rescue = q.rescue
      BY <2>4 DEF ShutdownStopsRest, IInv, QueueOK
    <3> QED
      BY <3>1 DEF Outstanding
  <2>5. CASE UserStep
    <3>1. UNCHANGED q
      BY <2>5 DEF UserStep, UserEnters, UserContinues, StockVerified, StockSaves,
         UserRefreshes, CurveSaves, ManualMeasured, ManualBegins, ManualApplies, ManualFails, ManualStarts,
         ReloadReads, ReloadRefused, ReloadStopsCurve, ReloadRestores, ReloadReports, ReloadRefreshes
    <3> QED
      BY <3>1 DEF Outstanding
  <2>6. CASE WatchdogStep \/ CurveStep
    <3>1. UNCHANGED q
      BY <2>6 DEF WatchdogPolls, WatchdogExpires, WatchdogStep, WatchdogLocks, WatchdogChecks, WatchdogEnds,
         CurveStep, CurveTicks, CurveLocks, CurveHolds, CurveApplies, CurveFinishes, CurveGivesUp, CurveDisabled
    <3> QED
      BY <3>1 DEF Outstanding
  <2>7. CASE \/ RecoveryAnswered \/ RecoveryRefreshed \/ \E l \in UseCaseLocks : UseCase(l)
             \/ RefreshBegins \/ RefreshEnds \/ Shutdown \/ Boot
             \/ BootRefreshed \/ Serve \/ ShutdownStopsCurve \/ ShutdownRestores \/ StopPost
    <3>1. UNCHANGED q
      BY <2>7 DEF RecoveryAnswered, RecoveryRefreshed, UseCase, RefreshBegins, RefreshEnds, Shutdown, Boot,
         BootRefreshed, Serve, ShutdownStopsCurve, ShutdownRestores, StopPost
    <3> QED
      BY <3>1 DEF Outstanding
  <2>8. CASE UNCHANGED vars
    BY <2>8 DEF vars, Outstanding
  <2> QED
    BY <2>1, <2>2, <2>3, <2>4, <2>5, <2>6, <2>7, <2>8 DEF Next, UseCaseLocks, MainStep
<1> QED
  BY <1>1, <1>2, FanInvariant, PTL DEF Spec
=============================================================================
