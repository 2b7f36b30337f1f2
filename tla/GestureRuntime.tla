--------------------------- MODULE GestureRuntime ---------------------------
(***************************************************************************)
(* backend/gesture_runtime.py: the reconnecting reader that turns vendor   *)
(* reports of the touchpad into key chords, its task in the supervisor,    *)
(* and the hidraw nodes of the kernel it reads from.                       *)
(*                                                                         *)
(* The task runs on the event loop.  Finding the touchpad, opening it and  *)
(* creating the uinput keyboard happen in one go there (Busy), but the     *)
(* kernel may remove a device, and give its number to another one, between *)
(* any two of these system calls.  What a single report does, short of an  *)
(* error, changes none of this state; which chord it selects is            *)
(* MappingFor.                                                             *)
(***************************************************************************)
EXTENDS Naturals, Sequences

CONSTANTS Paths,     \* the hidraw nodes
          MaxEvents, \* bound on hotplug events
          MaxFaults  \* budget for what else goes wrong

ASSUME GestureBounds == MaxEvents \in Nat /\ MaxFaults \in Nat /\ Paths # {}

VARIABLES node,    \* kernel: what is behind every hidraw node
          health,  \* supervisor health of gesture_daemon
          pc,      \* where the task of GestureRuntime.run is
          seen,    \* the path the current session found
          hid, uin,\* _hid_fd and _uinput_fd
          reader,  \* _hid_fd is registered with the event loop
          done,    \* _session_done
          running, \* status.running
          fds,     \* kernel: descriptors the runtime has open
          events, faults \* hotplug events, faults that have happened

sessionVars == <<hid, uin, reader, done, running, fds>>
runtimeVars == <<health, pc, seen, hid, uin, reader, done, running, fds>>
kernelVars == <<node, events>>

NoPath == "no path"
NoFd == [path |-> NoPath, kind |-> "none", live |-> FALSE]
\* A descriptor keeps the device it was opened on; removal leaves it dead.
Fd(p) == [path |-> p, kind |-> node[p], live |-> TRUE]
Unplugged(fd, p) == IF fd.path = p THEN [fd EXCEPT !.live = FALSE] ELSE fd

\* parse_vendor_collection_descriptor: of all report descriptors, the touchpad's
\* vendor collection passes.
Verified(kind) == kind = "pad"

\* discover_touchpad_input: the nodes with the right identity and descriptor.
Touchpad == {p \in Paths : Verified(node[p])}

RuntimeInit ==
    /\ \E p \in Paths : node = [r \in Paths |-> IF r = p THEN "pad" ELSE "none"]
    /\ health = "STOPPED" /\ pc = "none" /\ seen = NoPath
    /\ hid = NoFd /\ uin = FALSE /\ reader = FALSE /\ done = "none"
    /\ running = FALSE /\ fds = 0 /\ events = 0 /\ faults = 0

Fault == faults < MaxFaults /\ faults' = faults + 1
-----------------------------------------------------------------------------
(* The kernel.                                                             *)

Unplug(p) ==
    /\ events < MaxEvents /\ node[p] # "none"
    /\ node' = [node EXCEPT ![p] = "none"] /\ events' = events + 1
    /\ hid' = Unplugged(hid, p)

\* Any free number may be given to the touchpad, or to another HID device.
Plug(p, kind) ==
    /\ events < MaxEvents /\ node[p] = "none"
    /\ kind = "pad" => Touchpad = {}
    /\ node' = [node EXCEPT ![p] = kind] /\ events' = events + 1
-----------------------------------------------------------------------------
(* The task: GestureRuntime.run.                                           *)

\* The event loop is inside the synchronous part of _run_session.
Busy == pc \in {"opening", "uinput"}

\* _close_session: closes what the two fields name, and forgets it.
CloseSession ==
    /\ fds' = fds - (IF hid # NoFd THEN 1 ELSE 0) - (IF uin THEN 1 ELSE 0)
    /\ hid' = NoFd /\ uin' = FALSE /\ reader' = FALSE /\ done' = "none" /\ running' = FALSE

\* discover_touchpad at the start of a session, on the first step of the task
\* and whenever the retry delay is over.
Discover ==
    /\ pc \in {"created", "retry"} /\ health # "STOPPING"
    /\ IF Touchpad = {}
       THEN /\ pc' = "retry" /\ running' = FALSE
            /\ UNCHANGED <<seen, hid, uin, reader, done, fds>>
       ELSE /\ pc' = "opening" /\ seen' \in Touchpad
            /\ UNCHANGED sessionVars
    /\ UNCHANGED <<health, kernelVars, faults>>

\* os.open of the path found.
OpenHid ==
    /\ pc = "opening"
    /\ \/ /\ node[seen] # "none"
          /\ hid' = Fd(seen) /\ fds' = fds + 1 /\ pc' = "uinput"
          /\ UNCHANGED <<uin, reader, done, running, faults>>
       \/ /\ \/ node[seen] = "none" /\ UNCHANGED faults
             \/ Fault
          /\ CloseSession /\ pc' = "retry"
    /\ UNCHANGED <<health, seen, kernelVars>>

CreateUinput_LeaksHid ==
    /\ pc = "uinput"
    /\ \/ /\ uin' = TRUE /\ fds' = fds + 1 /\ reader' = TRUE
          /\ done' = "pending" /\ running' = TRUE /\ pc' = "session"
          /\ UNCHANGED <<hid, faults>>
       \/ Fault /\ pc' = "retry" /\ UNCHANGED sessionVars
    /\ UNCHANGED <<health, seen, kernelVars>>

\* create_uinput_device, which closes its own descriptor when it fails; then
\* the reader is registered and the session waits.
CreateUinput ==
    /\ pc = "uinput"
    /\ \/ /\ uin' = TRUE /\ fds' = fds + 1 /\ reader' = TRUE
          /\ done' = "pending" /\ running' = TRUE /\ pc' = "session"
          /\ UNCHANGED <<hid, faults>>
       \/ Fault /\ CloseSession /\ pc' = "retry"
    /\ UNCHANGED <<health, seen, kernelVars>>

\* emit_key_combo: a report came, and its chord could not be written to uinput.
EmitFails == hid.live /\ Fault

ReadFails_IgnoresEof ==
    /\ reader /\ ~Busy /\ done = "pending" /\ EmitFails
    /\ done' = "failed"
    /\ UNCHANGED <<health, pc, seen, hid, uin, reader, running, fds, kernelVars>>

\* _read_ready on a removed device, or on a report whose chord cannot be
\* emitted: _fail_session.
ReadFails ==
    /\ reader /\ ~Busy /\ done = "pending"
    /\ \/ ~hid.live /\ UNCHANGED faults
       \/ EmitFails
    /\ done' = "failed"
    /\ UNCHANGED <<health, pc, seen, hid, uin, reader, running, fds, kernelVars>>

\* The failed session is closed; the task sleeps and tries again.
SessionFails ==
    /\ pc = "session" /\ done = "failed" /\ health # "STOPPING"
    /\ CloseSession /\ pc' = "retry"
    /\ UNCHANGED <<health, seen, kernelVars, faults>>

\* The cancelled task leaves through its finally clauses; a task that never
\* ran just goes away.  _task_done ignores a cancelled task.
TaskCancelled ==
    /\ health = "STOPPING" /\ pc \in {"created", "retry", "session"}
    /\ pc' = "none"
    /\ IF pc = "created" THEN UNCHANGED sessionVars ELSE CloseSession
    /\ UNCHANGED <<health, seen, kernelVars, faults>>

TaskStep == Discover \/ OpenHid \/ CreateUinput \/ SessionFails \/ TaskCancelled
RuntimeStep == TaskStep \/ ReadFails
-----------------------------------------------------------------------------
(* RuntimeSupervisor, for gesture_daemon; it has no cleanup function.      *)

\* start() does not await anything.
SupervisorStart ==
    IF health = "RUNNING" THEN UNCHANGED runtimeVars
    ELSE /\ health' = "RUNNING" /\ pc' = "created"
         /\ UNCHANGED <<seen, sessionVars>>

\* stop() cancels the task, and goes on when it is gone.
SupervisorStop ==
    /\ health' = IF health = "RUNNING" THEN "STOPPING" ELSE health
    /\ UNCHANGED <<pc, seen, sessionVars>>
SupervisorStopped ==
    /\ health # "STOPPING" \/ pc = "none"
    /\ health' = "STOPPED"
    /\ UNCHANGED <<pc, seen, sessionVars>>
-----------------------------------------------------------------------------
(* The mappings: which chord a report selects, and what the snapshot says. *)

\* Identifiers: a type of report and its two subtypes; only the type has a
\* default chord.
GestureIds == {"6", "6:1", "6:2"}
DefaultMapping == [g \in {"6"} |-> "print"]
DefaultOf(g) == IF g \in DOMAIN DefaultMapping THEN DefaultMapping[g] ELSE ""

\* gesture_keys_from_report: the specific key, then the type's.
KeysOf(sub) == <<sub, "6">>

MappingFor_FallsThrough(maps, keys) ==
    LET Decides(k) == IF k \in DOMAIN maps THEN maps[k].enabled ELSE DefaultOf(k) # ""
        Chord(k) == IF k \in DOMAIN maps /\ maps[k].mapping # "" THEN maps[k].mapping
                    ELSE DefaultOf(k)
    IN  IF Decides(keys[1]) THEN Chord(keys[1])
        ELSE IF Decides(keys[2]) THEN Chord(keys[2]) ELSE ""

\* _mapping_for: the first key that is configured or has a default decides.
MappingFor(maps, keys) ==
    LET Decides(k) == k \in DOMAIN maps \/ DefaultOf(k) # ""
        Chord(k) == IF k \notin DOMAIN maps THEN DefaultOf(k)
                    ELSE IF ~maps[k].enabled THEN ""
                    ELSE IF maps[k].mapping # "" THEN maps[k].mapping ELSE DefaultOf(k)
    IN  IF Decides(keys[1]) THEN Chord(keys[1])
        ELSE IF Decides(keys[2]) THEN Chord(keys[2]) ELSE ""

\* _gesture_entries: the rows published, for the defaults and whatever is saved.
GestureEntries(maps) ==
    [g \in DOMAIN DefaultMapping \cup DOMAIN maps |->
        [enabled |-> g \in DOMAIN maps => maps[g].enabled,
         mapping |-> IF g \in DOMAIN maps /\ maps[g].mapping # "" THEN maps[g].mapping
                     ELSE DefaultOf(g)]]

\* GestureMappingState(), and the two updates of one gesture.
NoMapping == [enabled |-> TRUE, mapping |-> ""]
MappingOf(maps, g) == IF g \in DOMAIN maps THEN maps[g] ELSE NoMapping
WithMapping(maps, g, m) ==
    [h \in DOMAIN maps \cup {g} |-> IF h = g THEN m ELSE maps[h]]
=============================================================================
