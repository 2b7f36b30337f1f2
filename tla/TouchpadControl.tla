--------------------------- MODULE TouchpadControl ---------------------------
(***************************************************************************)
(* The touchpad in the service: the firmware transport of                  *)
(* backend/touchpad_firmware.py as the command queue's worker runs it, the *)
(* use cases of backend/application.py on firmware settings, gestures and  *)
(* the gesture daemon, and the published gestures domain, composed with    *)
(* GestureRuntime.                                                         *)
(*                                                                         *)
(* One use case at a time holds the mutation lock (uc).  The worker's      *)
(* system calls interleave with the event loop and with the kernel.  A     *)
(* read of the queue is one step; an apply or a query is as many as it     *)
(* makes system calls, and goes on when its caller has given up.           *)
(***************************************************************************)
EXTENDS GestureRuntime

CONSTANTS MaxOps    \* bound on use cases

ASSUME MaxOpsAssumption == MaxOps \in Nat

VARIABLES uc,      \* the use case that holds the mutation lock
          wk,      \* the queue's worker
          fw,      \* the registers of the firmware
          cfg,     \* the gestures and touchpad sections of the configuration
          pub,     \* the published gestures domain
          sure,    \* ghost: settings last answered as applied and persisted
          closing, \* _closing
          ops      \* use cases called

vars == <<node, runtimeVars, events, faults, uc, wk, fw, cfg, pub, sure, closing, ops>>
appVars == <<cfg, pub, sure, closing, ops>>

\* Two of TouchpadSetting: one with a single report, and the composite one,
\* whose companion report follows.
Settings == {"press_text", "three_finger_drag"}
CommandsOf == [press_text |-> <<3>>, three_finger_drag |-> <<5, 17>>]
Commands == {3, 5, 17}
Values == 0..1
\* A register after the touchpad lost its power.
Reset == 2

\* The profiles that pass parse_touchpad_setting and parse_touchpad_value.
Profiles == UNION {[S -> Values] : S \in SUBSET Settings \ {{}}}

\* encode_touchpad_setting, and a profile's reports in the order of the settings.
Report(cmd, val, s, last) == [cmd |-> cmd, val |-> val, set |-> s, last |-> last]

SettingReports_FirstCompletes(s, val) ==
    [i \in 1..Len(CommandsOf[s]) |-> Report(CommandsOf[s][i], val, s, i = 1)]

SettingReports(s, val) ==
    [i \in 1..Len(CommandsOf[s]) |->
        Report(CommandsOf[s][i], val, s, i = Len(CommandsOf[s]))]
ProfileReports(profile) ==
    LET Of(s) == IF s \in DOMAIN profile THEN SettingReports(s, profile[s]) ELSE <<>>
    IN  Of("press_text") \o Of("three_finger_drag")
\* make_timestamp_report, make_support_query_report.
ClockReport == Report(0, 0, "clock", FALSE)
QueryReport == Report(240, 0, "query", FALSE)

Idle == [at |-> "idle", arg |-> <<>>]
At(l, arg) == [at |-> l, arg |-> arg]
\* The worker, with what TouchpadFirmwareError says of a batch that failed: the
\* reports applied and the settings completed.
IdleWorker == [cmd |-> "none", at |-> "idle", path |-> NoPath, fd |-> NoFd,
               todo |-> <<>>, applied |-> 0, completed |-> {}, waits |-> FALSE, ok |-> FALSE]
Command(cmd, reports) ==
    [IdleWorker EXCEPT !.cmd = cmd, !.at = "probe", !.todo = <<ClockReport>> \o reports,
                       !.waits = TRUE]
AbandonedRead == [IdleWorker EXCEPT !.cmd = "read", !.at = "reading"]

Merge(old, new) ==
    [s \in DOMAIN old \cup DOMAIN new |-> IF s \in DOMAIN new THEN new[s] ELSE old[s]]
Published == [fresh |-> TRUE, daemon |-> cfg.daemon, pad |-> cfg.pad,
              rows |-> GestureEntries(cfg.maps)]

Init ==
    /\ RuntimeInit
    /\ uc = Idle /\ wk = IdleWorker
    /\ fw = [c \in Commands |-> Reset]
    /\ cfg = [daemon |-> FALSE, pad |-> <<>>, maps |-> <<>>]
    /\ pub = Published
    /\ sure = {} /\ closing = FALSE /\ ops = 0
-----------------------------------------------------------------------------
(* The kernel.                                                             *)

UnplugDevice(p) ==
    /\ Unplug(p)
    /\ wk' = [wk EXCEPT !.fd = Unplugged(@, p)]
    /\ UNCHANGED <<health, pc, seen, uin, reader, done, running, fds, faults, uc, fw, appVars>>

PlugDevice(p, kind) ==
    /\ Plug(p, kind)
    /\ fw' = IF kind = "pad" THEN [c \in Commands |-> Reset] ELSE fw
    /\ UNCHANGED <<runtimeVars, faults, uc, wk, appVars>>
-----------------------------------------------------------------------------
(* The worker: TouchpadFirmwareTransport.apply_settings and                *)
(* query_supported_gestures, one system call per step.                     *)

Poisoned == wk.cmd # "none" /\ ~wk.waits

\* The call returns or raises; its descriptor, if any, has been closed.  A
\* caller that gave up does not take the result.
Finished(w, ok) ==
    IF w.waits THEN [w EXCEPT !.at = "done", !.fd = NoFd, !.todo = <<>>, !.ok = ok]
    ELSE IdleWorker

\* probe: the endpoint is looked up ...
WorkerProbes ==
    /\ wk.at = "probe"
    /\ \/ \E p \in Touchpad : wk' = [wk EXCEPT !.at = "open", !.path = p]
       \/ Touchpad = {} /\ wk' = Finished(wk, FALSE)
    /\ UNCHANGED <<fw, faults>>

\* ... opened ...
WorkerOpens ==
    /\ wk.at = "open"
    /\ \/ /\ node[wk.path] # "none" /\ UNCHANGED faults
          /\ wk' = [wk EXCEPT !.at = "confirm", !.fd = Fd(wk.path)]
       \/ /\ \/ node[wk.path] = "none" /\ UNCHANGED faults
             \/ Fault
          /\ wk' = Finished(wk, FALSE)
    /\ UNCHANGED fw

WorkerConfirms_Trusts ==
    /\ wk.at = "confirm" /\ wk' = [wk EXCEPT !.at = "write"] /\ UNCHANGED <<fw, faults>>

\* ... and looked up again: a node's number can be reused.
WorkerConfirms ==
    /\ wk.at = "confirm"
    /\ wk' = IF Touchpad = {wk.path} THEN [wk EXCEPT !.at = "write"]
             ELSE Finished(wk, FALSE)
    /\ UNCHANGED <<fw, faults>>

\* A report reaches the registers of the touchpad.
Accepted(report) ==
    IF report.cmd \in Commands /\ Verified(wk.fd.kind)
    THEN [fw EXCEPT ![report.cmd] = report.val] ELSE fw

\* _write_report and the bookkeeping of apply_settings.  A write that fails on
\* a device that is there may have been taken all the same.
WorkerWrites ==
    /\ wk.at = "write" /\ wk.todo # <<>>
    /\ LET report == Head(wk.todo)
       IN  \/ /\ wk.fd.live /\ fw' = Accepted(report) /\ UNCHANGED faults
              /\ wk' = [wk EXCEPT !.todo = Tail(@),
                                  !.applied = @ + (IF report.set \in Settings THEN 1 ELSE 0),
                                  !.completed = @ \cup (IF report.last THEN {report.set} ELSE {})]
           \/ /\ \/ ~wk.fd.live /\ fw' = fw /\ UNCHANGED faults
                 \/ wk.fd.live /\ fw' \in {fw, Accepted(report)} /\ Fault
              /\ wk' = Finished(wk, FALSE)

\* All is written; a query still waits for the answer of the firmware.
WorkerEnds ==
    /\ wk.at = "write" /\ wk.todo = <<>>
    /\ wk' = IF wk.cmd = "query" THEN [wk EXCEPT !.at = "answer"] ELSE Finished(wk, TRUE)
    /\ UNCHANGED <<fw, faults>>

WorkerReadsAnswer ==
    /\ wk.at = "answer"
    /\ \/ wk.fd.live /\ wk' = Finished(wk, TRUE) /\ UNCHANGED faults
       \/ /\ \/ ~wk.fd.live /\ UNCHANGED faults
             \/ Fault
          /\ wk' = Finished(wk, FALSE)
    /\ UNCHANGED fw

\* A read that timed out returns at last.
WorkerReturns == wk.at = "reading" /\ wk' = IdleWorker /\ UNCHANGED <<fw, faults>>

WorkerStep ==
    /\ \/ WorkerProbes \/ WorkerOpens \/ WorkerConfirms \/ WorkerWrites
       \/ WorkerEnds \/ WorkerReadsAnswer \/ WorkerReturns
    /\ UNCHANGED <<node, events, runtimeVars, uc, appVars>>
-----------------------------------------------------------------------------
(* apply_touchpad_settings; set_touchpad_setting is the one-entry profile. *)

Begin == ~Busy /\ uc = Idle /\ ~closing /\ ops < MaxOps /\ ops' = ops + 1

ApplyBegins(profile) ==
    /\ Begin /\ uc' = At("apProbe", profile)
    /\ UNCHANGED <<node, events, faults, runtimeVars, wk, fw, cfg, pub, sure, closing>>

\* The probe in the queue is refused, times out, or answers; an available
\* touchpad is handed to the worker with the profile.
ApplyProbes ==
    /\ ~Busy /\ uc.at = "apProbe"
    /\ \/ /\ Poisoned \/ (wk = IdleWorker /\ Touchpad = {})
          /\ uc' = Idle /\ UNCHANGED <<wk, sure, faults>>
       \/ /\ wk = IdleWorker /\ Fault
          /\ uc' = Idle /\ wk' = AbandonedRead /\ UNCHANGED sure
       \/ /\ wk = IdleWorker /\ Touchpad # {}
          /\ uc' = [uc EXCEPT !.at = "apWait"]
          /\ wk' = Command("apply", ProfileReports(uc.arg))
          /\ sure' = sure \ DOMAIN uc.arg /\ UNCHANGED faults
    /\ UNCHANGED <<node, events, runtimeVars, fw, cfg, pub, closing, ops>>

\* The result decides what is saved: the profile, the settings completed
\* before the failure, or nothing.
ApplyAnswered ==
    /\ ~Busy /\ uc.at = "apWait" /\ wk.at = "done"
    /\ uc' = CASE wk.ok -> [uc EXCEPT !.at = "apSave"]
               [] ~wk.ok /\ wk.applied = 0 -> Idle
               [] ~wk.ok /\ wk.applied > 0 /\ wk.completed = {} -> At("refresh", <<>>)
               [] OTHER -> At("apPart", [s \in wk.completed |-> uc.arg[s]])
    /\ wk' = IdleWorker
    /\ UNCHANGED <<node, events, faults, runtimeVars, fw, appVars>>

\* The caller's deadline passes while the worker goes on: "failed", and nothing
\* is saved.
ApplyTimesOut ==
    /\ ~Busy /\ uc.at = "apWait" /\ wk.at # "done" /\ Fault
    /\ uc' = Idle /\ wk' = [wk EXCEPT !.waits = FALSE]
    /\ UNCHANGED <<node, events, runtimeVars, fw, appVars>>

\* config.update with the accepted settings.  A failure to save a whole profile
\* ends the use case; after a partial one the gestures are still refreshed.
ApplySaves ==
    /\ ~Busy /\ uc.at \in {"apSave", "apPart"}
    /\ \/ /\ cfg' = [cfg EXCEPT !.pad = Merge(@, uc.arg)]
          /\ sure' = sure \cup DOMAIN uc.arg
          /\ uc' = At("refresh", <<>>) /\ UNCHANGED faults
       \/ /\ Fault
          /\ uc' = IF uc.at = "apSave" THEN Idle ELSE At("refresh", <<>>)
          /\ UNCHANGED <<cfg, sure>>
    /\ UNCHANGED <<node, events, runtimeVars, wk, fw, pub, closing, ops>>

\* _refresh_gestures at the end of a use case or in the refresh loop: publish,
\* or mark the domain stale when the probe is refused or times out.
RefreshGestures ==
    /\ \/ /\ wk = IdleWorker
          /\ pub' = Published /\ UNCHANGED <<wk, faults>>
       \/ Poisoned /\ pub' = [pub EXCEPT !.fresh = FALSE] /\ UNCHANGED <<wk, faults>>
       \/ /\ wk = IdleWorker /\ Fault
          /\ wk' = AbandonedRead /\ pub' = [pub EXCEPT !.fresh = FALSE]
    /\ UNCHANGED <<node, events, runtimeVars, fw, cfg, sure, closing, ops>>

UseCaseRefreshes == ~Busy /\ uc.at = "refresh" /\ RefreshGestures /\ uc' = Idle
RefreshLoop == ~Busy /\ ~closing /\ RefreshGestures /\ UNCHANGED uc
-----------------------------------------------------------------------------
(* query_touchpad_support: the reader is stopped around the query.         *)

QueryBegins ==
    /\ Begin /\ SupervisorStop
    /\ uc' = At("qStop", cfg.daemon)
    /\ UNCHANGED <<node, events, faults, wk, fw, cfg, pub, sure, closing>>

QueryStopped ==
    /\ ~Busy /\ uc.at = "qStop" /\ SupervisorStopped
    /\ uc' = [uc EXCEPT !.at = "qSubmit"]
    /\ UNCHANGED <<node, events, faults, wk, fw, appVars>>

QuerySubmits ==
    /\ ~Busy /\ uc.at = "qSubmit"
    /\ \/ Poisoned /\ uc' = [uc EXCEPT !.at = "qEnd"] /\ UNCHANGED wk
       \/ /\ wk = IdleWorker /\ wk' = Command("query", <<QueryReport>>)
          /\ uc' = [uc EXCEPT !.at = "qWait"]
    /\ UNCHANGED <<node, events, faults, runtimeVars, fw, appVars>>

QueryAnswered_NoFinally ==
    /\ ~Busy /\ uc.at = "qWait"
    /\ \/ wk.at = "done" /\ wk' = IdleWorker /\ UNCHANGED faults
          /\ uc' = [uc EXCEPT !.at = "qEnd"]
       \/ wk.at # "done" /\ Fault /\ wk' = [wk EXCEPT !.waits = FALSE]
          /\ uc' = At("refresh", <<>>)
    /\ UNCHANGED <<node, events, runtimeVars, fw, appVars>>

QueryAnswered ==
    /\ ~Busy /\ uc.at = "qWait"
    /\ \/ wk.at = "done" /\ wk' = IdleWorker /\ UNCHANGED faults
       \/ wk.at # "done" /\ Fault /\ wk' = [wk EXCEPT !.waits = FALSE]
    /\ uc' = [uc EXCEPT !.at = "qEnd"]
    /\ UNCHANGED <<node, events, runtimeVars, fw, appVars>>

\* The finally clause: restart the reader if it is enabled, whatever happened.
QueryRestarts ==
    /\ ~Busy /\ uc.at = "qEnd"
    /\ IF uc.arg THEN SupervisorStart /\ uc' = At("yield", <<>>)
       ELSE UNCHANGED runtimeVars /\ uc' = At("refresh", <<>>)
    /\ UNCHANGED <<node, events, faults, wk, fw, appVars>>
-----------------------------------------------------------------------------
(* The gesture use cases, reload, and shutdown.                            *)

\* set_gesture_daemon_enabled saves first; a failure raises.
DaemonSaved(on) ==
    /\ Begin
    /\ \/ cfg' = [cfg EXCEPT !.daemon = on] /\ uc' = At("recon", <<>>) /\ UNCHANGED faults
       \/ Fault /\ UNCHANGED <<cfg, uc>>
    /\ UNCHANGED <<node, events, runtimeVars, wk, fw, pub, sure, closing>>

\* reload of a file whose gestures section was edited.
ReloadGestures(on) ==
    /\ Begin
    /\ cfg' = [cfg EXCEPT !.daemon = on]
    /\ uc' = At(IF on # cfg.daemon THEN "recon" ELSE "refresh", <<>>)
    /\ UNCHANGED <<node, events, faults, runtimeVars, wk, fw, pub, sure, closing>>

\* _reconcile_gesture_runtime; sleep(0) lets a new task get through its setup.
Reconciles ==
    /\ ~Busy /\ uc.at = "recon"
    /\ IF cfg.daemon THEN SupervisorStart /\ uc' = At("yield", <<>>)
       ELSE SupervisorStop /\ uc' = At("stopping", <<>>)
    /\ UNCHANGED <<node, events, faults, wk, fw, appVars>>

Reconciled ==
    /\ ~Busy
    /\ \/ uc.at = "yield" /\ pc # "created" /\ UNCHANGED runtimeVars
       \/ uc.at = "stopping" /\ SupervisorStopped
    /\ uc' = At("refresh", <<>>)
    /\ UNCHANGED <<node, events, faults, wk, fw, appVars>>

\* set_gesture_mapping, set_gesture_enabled, set_all_gestures_enabled.
MappingUpdates ==
    LET maps == cfg.maps
        known == DOMAIN DefaultMapping \cup DOMAIN maps
    IN  {WithMapping(maps, g, [MappingOf(maps, g) EXCEPT !.mapping = "chord"]) : g \in GestureIds}
        \cup {WithMapping(maps, g, [MappingOf(maps, g) EXCEPT !.enabled = on]) :
                 g \in known, on \in BOOLEAN}
        \cup {[g \in known |-> [MappingOf(maps, g) EXCEPT !.enabled = on]] : on \in BOOLEAN}

MappingSaved ==
    /\ Begin
    /\ \/ \E maps \in MappingUpdates : cfg' = [cfg EXCEPT !.maps = maps]
          /\ uc' = At("refresh", <<>>) /\ UNCHANGED faults
       \/ Fault /\ UNCHANGED <<cfg, uc>>
    /\ UNCHANGED <<node, events, runtimeVars, wk, fw, pub, sure, closing>>

\* shutdown closes admission at once, and stops the controllers when the use
\* case in progress is over.
ShutdownBegins ==
    /\ ~Busy /\ ~closing /\ closing' = TRUE
    /\ UNCHANGED <<node, events, faults, runtimeVars, uc, wk, fw, cfg, pub, sure, ops>>

ShutdownStops ==
    /\ ~Busy /\ closing
    /\ \/ uc = Idle /\ SupervisorStop /\ uc' = At("sdStop", <<>>)
       \/ uc.at = "sdStop" /\ SupervisorStopped /\ uc' = At("down", <<>>)
    /\ UNCHANGED <<node, events, faults, wk, fw, appVars>>
-----------------------------------------------------------------------------
RuntimeRuns ==
    /\ uc.at # "down" /\ RuntimeStep
    /\ UNCHANGED <<uc, wk, fw, appVars>>

UseCaseStep ==
    \/ ApplyProbes \/ ApplyAnswered \/ ApplySaves \/ UseCaseRefreshes
    \/ QueryStopped \/ QuerySubmits \/ QueryAnswered \/ QueryRestarts
    \/ Reconciles \/ Reconciled \/ ShutdownStops

Next ==
    \/ \E p \in Paths : UnplugDevice(p) \/ \E kind \in {"pad", "other"} : PlugDevice(p, kind)
    \/ WorkerStep \/ RuntimeRuns \/ UseCaseStep \/ ApplyTimesOut
    \/ \E profile \in Profiles : ApplyBegins(profile)
    \/ QueryBegins \/ RefreshLoop \/ MappingSaved \/ ShutdownBegins
    \/ \E on \in BOOLEAN : DaemonSaved(on) \/ ReloadGestures(on)

Spec == Init /\ [][Next]_vars

\* The event loop runs what is ready, the retry delay ends, and the hardware
\* calls return.  Hotplug, faults, use cases and shutdown need not happen.
Fairness ==
    /\ WF_vars(TaskStep /\ RuntimeRuns)
    /\ WF_vars(~hid.live /\ ReadFails /\ RuntimeRuns)
    /\ WF_vars(WorkerStep) /\ WF_vars(UseCaseStep)

LiveSpec == Spec /\ Fairness
-----------------------------------------------------------------------------
(* Properties.                                                             *)

TypeOK ==
    /\ node \in [Paths -> {"none", "pad", "other"}]
    /\ health \in {"STOPPED", "STOPPING", "RUNNING"}
    /\ pc \in {"none", "created", "retry", "opening", "uinput", "session"}
    /\ seen \in Paths \cup {NoPath} /\ fds \in 0..2
    /\ uin \in BOOLEAN /\ reader \in BOOLEAN /\ running \in BOOLEAN /\ closing \in BOOLEAN
    /\ done \in {"none", "pending", "failed"}
    /\ fw \in [Commands -> Values \cup {Reset}]
    /\ sure \subseteq DOMAIN cfg.pad /\ DOMAIN cfg.pad \subseteq Settings
    /\ DOMAIN cfg.maps \subseteq GestureIds

\* Every setting the service has answered for as applied and persisted, in a
\* whole profile or as one of the completed settings of a partial one, is what
\* all its registers in the firmware hold, as long as the touchpad keeps its
\* power: neither a batch that stopped in the middle of a composite setting nor
\* a call that goes on after its caller gave up separates the two.
SavedIsInFirmware ==
    \A s \in sure : \A i \in 1..Len(CommandsOf[s]) :
        fw[CommandsOf[s][i]] \in {cfg.pad[s], Reset}

\* touchpad_firmware.py:435, "A hidraw number can be reused across hotplug":
\* no report is written to a device that is not the touchpad.
OnlyTouchpadWritten == wk.at = "write" /\ wk.fd.live => wk.fd.kind = "pad"

\* Between use cases the daemon runs exactly when the configuration says so,
\* whatever a query, a failed save or a reload went through; and while a query
\* that somebody waits for is in the worker, the daemon has no descriptor open
\* (touchpad_firmware.py:572, both read the same device).
DaemonFollowsConfig ==
    /\ uc = Idle /\ ~closing => (health = "RUNNING") = cfg.daemon
    /\ wk.cmd = "query" /\ wk.waits => fds = 0

\* The runtime has open exactly the descriptors its fields name, the reader is
\* registered only on an open one, and nothing is open outside a session.
DescriptorsAccounted ==
    /\ fds = (IF hid # NoFd THEN 1 ELSE 0) + (IF uin THEN 1 ELSE 0)
    /\ reader => hid # NoFd /\ uin
    /\ pc \in {"none", "created", "retry"} => fds = 0

\* Between use cases the published gestures domain is marked stale or says what
\* the configuration says, and a report selects the chord the published rows
\* show for the first of its keys that has a row.
PublishedIsDispatched ==
    uc = Idle /\ pub.fresh =>
        /\ pub.daemon = cfg.daemon /\ pub.pad = cfg.pad
        /\ \A sub \in {"6:1", "6:2"} :
               LET key == IF sub \in DOMAIN pub.rows THEN sub ELSE "6"
               IN  MappingFor(cfg.maps, KeysOf(sub)) =
                       (IF pub.rows[key].enabled THEN pub.rows[key].mapping ELSE "")

\* A daemon that stays enabled while the touchpad stays present gets a session
\* on a live descriptor and keeps it, whatever was unplugged or failed before.
Reconnects ==
    <>[](health = "RUNNING" /\ Touchpad # {} /\ uc.at # "down") => <>[](running /\ hid.live)
=============================================================================
