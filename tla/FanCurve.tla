------------------------------ MODULE FanCurve ------------------------------
(***************************************************************************)
(* The numbers of fan control: which curves core/validation.py accepts,    *)
(* the speed _curve_speed takes from one, the hysteresis of                *)
(* ApplicationService._fan_curve_loop, and the limits that set_fan_manual  *)
(* and its watchdog put on an override.                                    *)
(*                                                                         *)
(* FanControl has the calls, timeouts and crashes behind these steps; here *)
(* whatever a task does under the mutation lock is one step, and a write   *)
(* succeeds or ends in a verified stock auto.  The controller looks up its *)
(* curve before it queues on the lock, so use cases come in between.       *)
(***************************************************************************)
EXTENDS Integers, Sequences

CONSTANTS Curves,    \* sequences of points offered as curves, good and bad
          Readings,  \* temperatures in millidegrees the sensor may give
          Speeds,    \* speeds offered as overrides, good and bad
          Profiles,  \* power profiles, "default" among them
          MaxOps     \* bound on use cases

ASSUME FanCurveAssumption ==
    /\ Curves \subseteq Seq([temp : Int, speed : Int])
    /\ Readings \subseteq Nat /\ Speeds \subseteq Int
    /\ "default" \in Profiles /\ MaxOps \in Nat

VARIABLES mode, curves,    \* the fan section of the configuration
          active,          \* the applied power profile
          temp,            \* what the sensor would read
          ec,              \* StockAuto, or the speed of manual mode
          override,        \* the manual_fan_ttl watchdog is running
          failSafe,        \* _fan_fail_safe_error
          cv, last, failures, \* the controller's task and its locals
          pub,             \* mode and target of the published fan domain
          seen, asked,     \* ghosts: the temperature the last fan decision was based on,
                           \* the speed it called for
          ops

configVars == <<mode, curves>>
controllerVars == <<cv, last, failures>>
ghosts == <<seen, asked>>
vars == <<configVars, active, temp, ec, override, failSafe, controllerVars, pub, ghosts, ops>>

\* Neither is a speed: no value, and the firmware's own control.
None == -1
StockAuto == -2
NoCurve == <<>>
Sleeping == [at |-> "sleep", curve |-> NoCurve]
-----------------------------------------------------------------------------
(* core/validation.py.                                                     *)

FAN_TEMP_MIN_MC == 40000
FAN_TEMP_MAX_MC == 100000
FAN_SPEED_MIN == 0
FAN_SPEED_MAX == 100
FAN_MIN_POINTS == 2
FAN_MAX_POINTS == 12
FAN_HIGH_TEMP_MC == 95000
MANUAL_EMERGENCY_TEMP_MC == 90000

Point(t, s) == [temp |-> t, speed |-> s]

ValidatePoints_AnyOrder(points) ==
    /\ Len(points) \in FAN_MIN_POINTS..FAN_MAX_POINTS
    /\ \A i \in DOMAIN points :
           /\ points[i].temp \in FAN_TEMP_MIN_MC..FAN_TEMP_MAX_MC
           /\ points[i].speed \in FAN_SPEED_MIN..FAN_SPEED_MAX
           /\ points[i].temp >= FAN_HIGH_TEMP_MC => points[i].speed = 100
    /\ \A i \in 2..Len(points) : points[i - 1].temp < points[i].temp

\* validate_curve_points, to which parse_curve hands the numbers of the text.
ValidatePoints(points) ==
    /\ Len(points) \in FAN_MIN_POINTS..FAN_MAX_POINTS
    /\ \A i \in DOMAIN points :
           /\ points[i].temp \in FAN_TEMP_MIN_MC..FAN_TEMP_MAX_MC
           /\ points[i].speed \in FAN_SPEED_MIN..FAN_SPEED_MAX
           /\ points[i].temp >= FAN_HIGH_TEMP_MC => points[i].speed = 100
    /\ \A i \in 2..Len(points) :
           points[i - 1].temp < points[i].temp /\ points[i - 1].speed <= points[i].speed

ValidateManualSpeed(s) == s \in FAN_SPEED_MIN..FAN_SPEED_MAX
Plausible(t) == 1000 <= t /\ t <= 150000

\* Python's round of n / d for d > 0: to the nearest integer, a half to even.
Round(n, d) ==
    LET q == n \div d
        r == 2 * (n % d)
    IN  IF r < d \/ (r = d /\ q % 2 = 0) THEN q ELSE q + 1

\* _curve_speed.
CurveSpeed(points, t) ==
    LET Right(i) == t <= points[i].temp /\ \A j \in 1..(i - 1) : t > points[j].temp
    IN  IF t <= points[1].temp THEN points[1].speed
        ELSE IF t > points[Len(points)].temp THEN points[Len(points)].speed
        ELSE LET i == CHOOSE k \in 2..Len(points) : Right(k)
                 span == points[i].temp - points[i - 1].temp
                 rise == points[i].speed - points[i - 1].speed
             IN  Round(points[i - 1].speed * span + rise * (t - points[i - 1].temp), span)

TargetSpeed(points, t) == IF t >= 95000 THEN 100 ELSE CurveSpeed(points, t)

Held_UpToThree(speed) == last # None /\ speed - last \in -3..3

\* FAN_SPEED_WRITE_HYSTERESIS: a change of less than 3 is not written.
Held(speed) == last # None /\ speed - last \in -2..2

\* What an override must reach at a temperature.
EmergencySpeed(t) == IF t >= 95000 THEN 100 ELSE IF t >= MANUAL_EMERGENCY_TEMP_MC THEN 80 ELSE 0
-----------------------------------------------------------------------------
Init ==
    /\ mode = "stock" /\ curves = [p \in Profiles |-> NoCurve]
    /\ active \in Profiles /\ temp \in Readings
    /\ ec = StockAuto /\ override = FALSE /\ failSafe = FALSE
    /\ cv = Sleeping /\ last = None /\ failures = 0
    /\ pub = [mode |-> "stock", target |-> None]
    /\ seen = 0 /\ asked = 0 /\ ops = 0

\* _refresh_fan, in its own loop and behind the use cases.
Refreshed(failed, manual, desired) ==
    [mode |-> IF failed THEN "failed_safe" ELSE IF manual THEN "manual_override" ELSE desired,
     target |-> IF manual \/ desired = "curve" THEN pub.target ELSE None]

RefreshLoop ==
    /\ pub' = Refreshed(failSafe, override, mode)
    /\ UNCHANGED <<configVars, active, temp, ec, override, failSafe, controllerVars, ghosts, ops>>

Heats(t) ==
    /\ temp' = t
    /\ UNCHANGED <<configVars, active, ec, override, failSafe, controllerVars, pub, ghosts, ops>>
-----------------------------------------------------------------------------
(* The use cases.                                                          *)

UseCase == ops < MaxOps /\ ops' = ops + 1

\* A controller that gave up is started anew.
SetFanCurve(profile, points) ==
    /\ UseCase /\ ValidatePoints(points)
    /\ mode' = "curve" /\ curves' = [curves EXCEPT ![profile] = points]
    /\ IF cv.at = "dead"
       THEN cv' = Sleeping /\ last' = None /\ failures' = 0
       ELSE UNCHANGED controllerVars
    /\ pub' = Refreshed(failSafe, override, "curve")
    /\ UNCHANGED <<active, temp, ec, override, failSafe, ghosts>>

SetFanStockAuto ==
    /\ UseCase
    /\ ec' = StockAuto /\ failSafe' = FALSE /\ override' = FALSE /\ mode' = "stock"
    /\ pub' = Refreshed(FALSE, FALSE, "stock")
    /\ UNCHANGED <<curves, active, temp, controllerVars, ghosts>>

\* Manual mode needs a live temperature, and enough speed for it.  A rejected
\* write is followed by a restore.
SetFanManual(speed) ==
    /\ UseCase /\ ValidateManualSpeed(speed) /\ Plausible(temp)
    /\ speed >= EmergencySpeed(temp)
    /\ seen' = temp /\ asked' = EmergencySpeed(temp) /\ failSafe' = FALSE
    /\ \/ /\ ec' = speed /\ override' = TRUE
          /\ pub' = [mode |-> "manual_override", target |-> speed]
       \/ ec' = StockAuto /\ override' = FALSE /\ pub' = Refreshed(FALSE, FALSE, mode)
    /\ UNCHANGED <<configVars, active, temp, controllerVars>>

SwitchProfile(profile) ==
    /\ UseCase /\ active' = profile
    /\ UNCHANGED <<configVars, temp, ec, override, failSafe, controllerVars, pub, ghosts>>
-----------------------------------------------------------------------------
(* The watchdog of an override: _manual_fan_expiry.                        *)

\* Its TTL is over, the sensor fails, or the EC rejects the raised speed.
WatchdogEnds ==
    /\ override
    /\ ec' = StockAuto /\ override' = FALSE /\ failSafe' = FALSE
    /\ pub' = [mode |-> "stock", target |-> None]
    /\ UNCHANGED <<configVars, active, temp, controllerVars, ghosts, ops>>

\* The speed is raised when the published target is too low for the heat.
WatchdogChecks ==
    /\ override /\ Plausible(temp)
    /\ seen' = temp /\ asked' = EmergencySpeed(temp)
    /\ IF EmergencySpeed(temp) > (IF pub.target = None THEN 0 ELSE pub.target)
       THEN ec' = EmergencySpeed(temp) /\ pub' = [pub EXCEPT !.target = EmergencySpeed(temp)]
       ELSE UNCHANGED <<ec, pub>>
    /\ UNCHANGED <<configVars, active, temp, override, failSafe, controllerVars, ops>>
-----------------------------------------------------------------------------
(* The controller: _fan_curve_loop.                                        *)

Blocked_IgnoresOverride == mode # "curve" \/ failSafe

Blocked == mode # "curve" \/ override \/ failSafe

\* The curve of the active profile, or the default one.
CurveInForce == IF curves[active] # NoCurve THEN curves[active] ELSE curves["default"]

\* After the sleep: a blocked controller forgets its last speed; without a
\* curve it does nothing.
CurveTicks ==
    /\ cv.at = "sleep"
    /\ IF Blocked THEN last' = None /\ UNCHANGED cv
       ELSE /\ CurveInForce # NoCurve
            /\ cv' = [at |-> "lock", curve |-> CurveInForce] /\ UNCHANGED last
    /\ UNCHANGED <<configVars, active, temp, ec, override, failSafe, failures, pub, ghosts, ops>>

\* The state is checked again under the lock; the curve is not, and this time
\* the last speed is kept.
CurveSkips ==
    /\ cv.at = "lock" /\ Blocked /\ cv' = Sleeping
    /\ UNCHANGED <<configVars, active, temp, ec, override, failSafe, last, failures, pub, ghosts, ops>>

CurveSucceeds(speed) ==
    /\ last' = speed /\ failures' = 0 /\ cv' = Sleeping
    /\ pub' = [mode |-> "curve", target |-> speed]
    /\ seen' = temp /\ asked' = TargetSpeed(cv.curve, temp)
    /\ UNCHANGED <<configVars, active, temp, override, failSafe, ops>>

\* Close enough to the last speed: nothing is written, and that is published.
CurveHolds ==
    /\ cv.at = "lock" /\ ~Blocked /\ Plausible(temp)
    /\ Held(TargetSpeed(cv.curve, temp))
    /\ CurveSucceeds(last) /\ UNCHANGED ec

CurveWrites ==
    /\ cv.at = "lock" /\ ~Blocked /\ Plausible(temp)
    /\ LET speed == TargetSpeed(cv.curve, temp)
       IN  ~Held(speed) /\ ec' = speed /\ CurveSucceeds(speed)

\* The sensor fails, or a rejected write is followed by a restore, which
\* refreshes; the last speed is kept.  The third failure in a row ends the
\* controller: restore, stock mode, failed-safe.
CurveFails ==
    /\ cv.at = "lock" /\ ~Blocked
    /\ Plausible(temp) => ~Held(TargetSpeed(cv.curve, temp))
    /\ failures' = failures + 1
    /\ ec' = IF Plausible(temp) \/ failures' = 3 THEN StockAuto ELSE ec
    /\ IF failures' < 3
       THEN /\ cv' = Sleeping /\ UNCHANGED <<mode, failSafe>>
            /\ pub' = IF Plausible(temp) THEN Refreshed(FALSE, FALSE, "curve") ELSE pub
       ELSE /\ cv' = [Sleeping EXCEPT !.at = "dead"] /\ mode' = "stock" /\ failSafe' = TRUE
            /\ pub' = [mode |-> "failed_safe", target |-> None]
    /\ UNCHANGED <<curves, active, temp, override, last, ghosts, ops>>
-----------------------------------------------------------------------------
Next ==
    \/ \E t \in Readings : Heats(t)
    \/ \E p \in Profiles : SwitchProfile(p) \/ \E c \in Curves : SetFanCurve(p, c)
    \/ \E s \in Speeds : SetFanManual(s)
    \/ SetFanStockAuto \/ RefreshLoop \/ WatchdogEnds \/ WatchdogChecks
    \/ CurveTicks \/ CurveSkips \/ CurveHolds \/ CurveWrites \/ CurveFails

Spec == Init /\ [][Next]_vars
-----------------------------------------------------------------------------
(* Properties.                                                             *)

\* core/validation.py and _curve_speed together: for every curve the service
\* has saved, more heat never means less speed, and between two points the
\* speed is within half a percent of the straight line through them.
SpeedFollowsHeat ==
    \A p \in Profiles : LET c == curves[p] IN c # NoCurve =>
        /\ \A t1, t2 \in Readings : t1 <= t2 => TargetSpeed(c, t1) <= TargetSpeed(c, t2)
        /\ \A i \in 2..Len(c), t \in Readings :
               c[i - 1].temp <= t /\ t <= c[i].temp =>
                   LET span == c[i].temp - c[i - 1].temp
                       line == c[i - 1].speed * (c[i].temp - t) + c[i].speed * (t - c[i - 1].temp)
                   IN  2 * (CurveSpeed(c, t) * span - line) \in -span..span

\* A speed in the EC is the one the last decision called for: an override has at
\* least what the heat demands, the curve's is never further from its target than
\* the hysteresis, however many small changes in a row were not written, and
\* whatever overrides, failures and stale curves came in between.
SpeedFitsDecision ==
    ec # StockAuto => IF override THEN ec >= asked ELSE ec - asked \in -2..2

\* safety.md:14, "At/above 95°C, the curve must target 100% speed": whoever last
\* decided on the fan at such a heat has the firmware or full speed in charge.
HotIsCooled == ec # StockAuto /\ seen >= FAN_HIGH_TEMP_MC => ec = 100

\* The target published for an override is the speed in the EC.  The one
\* published for the curve is too, or the firmware has the fan (the controller
\* believes in its last speed although a failed write, or an override or stock
\* auto that came and went between two ticks, took it back).
PublishedTargetIsReal ==
    /\ pub.mode = "manual_override" => ec = pub.target
    /\ pub.mode = "curve" /\ pub.target # None => ec \in {StockAuto, pub.target}
=============================================================================
