------------------------------ MODULE StateSync ------------------------------
(***************************************************************************)
(* How the GUI follows the service: SnapshotStore's sequence numbers and   *)
(* StateChanged signals, SdbusClient's coalescing refresh task, the GUI    *)
(* worker's connection loop and polling, and GuiState, which drops what it *)
(* takes to be old.                                                        *)
(*                                                                         *)
(* A snapshot is the run of the service it comes from and its sequence.    *)
(* The bus is external: it passes the calls of one connection on in order, *)
(* and delivers their answers and the signals in order; a call made while  *)
(* no service runs waits for one to be activated or is refused.  Qt's      *)
(* queued signals from the worker to the main thread arrive in order too,  *)
(* and nothing there reads the state in between, so they are applied when  *)
(* emitted.  In the client an answer takes more turns of the event loop    *)
(* than a signal to reach its task (asyncio.wait_for before Python 3.12    *)
(* runs the call in a task of its own), so a signal that was sent after an *)
(* answer may be handled before it.                                        *)
(***************************************************************************)
EXTENDS Naturals, Sequences

CONSTANTS Faults,                  \* what may go wrong: a subset of AllFaults
          MAX_COALESCED_REFRESHES, \* fetches of one refresh task
          MaxSeq,                  \* bound on the changes of one run of the service
          MaxRuns,                 \* bound on the runs of the service
          MaxTimeouts              \* bound on the calls that time out and the listeners that fail

\* A call times out; the signal listener fails; the service dies and is back
\* only after the GUI has seen that it is gone; it dies and may be back before
\* that.
AllFaults == {"timeout", "listener", "outage", "restart"}

ASSUME FaultsAssumption == Faults \subseteq AllFaults
ASSUME BoundsAssumption ==
    /\ MAX_COALESCED_REFRESHES \in Nat \ {0} /\ MaxSeq \in Nat \ {0}
    /\ MaxRuns \in Nat \ {0} /\ MaxTimeouts \in Nat

VARIABLES up,        \* a service process owns the bus name
          svc,       \* its snapshot
          calls,     \* the GetSnapshot calls it has yet to answer, by caller
          wire,      \* answers and signals on their way to the client
          worker,    \* GuiWorker._main: "connect", "first" fetch, "watch"
          listening, \* the signal listener: "no", "yes" once subscribed, "failed"
          connected, \* the client's _connected
          pending,   \* _pending_sequence, 0 for None
          task,      \* _refresh_task: "none", "ready" to ask, "waiting"
          need,      \* its required_sequence
          left,      \* the fetches it may still make
          first,     \* the sequence its first fetch was made for (ghost)
          gui,       \* GuiState: connected, the snapshot held
          resets,    \* _allow_sequence_reset
          timeouts   \* calls that timed out, listeners that failed

service == <<up, svc>>
refresh == <<pending, task, need, left, first>>
guiVars == <<gui, resets>>
vars == <<service, calls, wire, worker, listening, connected, refresh, guiVars, timeouts>>

Snapshot == [run : 0..MaxRuns, seq : 0..MaxSeq]
NoSnapshot == [run |-> 0, seq |-> 0]

\* The tasks of the worker's loop that call GetSnapshot, and what they are told.
Callers == {"main", "refresh", "poll"}
Answers == {"snapshot", "timeout", "unavailable"}
Message == [to : Callers \cup {"listener"}, is : Answers \cup {"signal"}, snap : Snapshot]

Largest(a, b) == IF a > b THEN a ELSE b

Init ==
    /\ up = TRUE /\ svc = [run |-> 1, seq |-> 1]
    /\ calls = <<>> /\ wire = <<>>
    /\ worker = "connect" /\ listening = "no" /\ connected = FALSE
    /\ pending = 0 /\ task = "none" /\ need = 0 /\ left = 0 /\ first = 0
    /\ gui = [online |-> FALSE, held |-> NoSnapshot]
    /\ resets = TRUE /\ timeouts = 0
-----------------------------------------------------------------------------
(* SnapshotStore, the service process and the bus.                         *)

\* update() and mark_stale(): a change has a new sequence and is signalled to
\* whoever has subscribed.
Change ==
    /\ up /\ svc.seq < MaxSeq
    /\ svc' = [svc EXCEPT !.seq = @ + 1]
    /\ wire' = IF listening = "yes"
               THEN Append(wire, [to |-> "listener", is |-> "signal", snap |-> svc'])
               ELSE wire
    /\ UNCHANGED <<up, calls, worker, listening, connected, refresh, guiVars, timeouts>>

\* GetSnapshot is answered with the snapshot of that moment.
Serve ==
    /\ up /\ calls # <<>>
    /\ calls' = Tail(calls)
    /\ wire' = Append(wire, [to |-> Head(calls), is |-> "snapshot", snap |-> svc])
    /\ UNCHANGED <<service, worker, listening, connected, refresh, guiVars, timeouts>>

\* The process ends; the bus answers its calls with NoReply, a timeout to the
\* client, whose connection to the bus lives on.
Crash ==
    /\ Faults \cap {"outage", "restart"} # {} /\ up /\ svc.run < MaxRuns
    /\ up' = FALSE
    /\ calls' = <<>>
    /\ wire' = wire \o [i \in DOMAIN calls |->
                          [to |-> calls[i], is |-> "timeout", snap |-> NoSnapshot]]
    /\ UNCHANGED <<svc, worker, listening, connected, refresh, guiVars, timeouts>>

\* systemd, or a call that waits on the bus, starts the next one: a new
\* SnapshotStore counts from the beginning.
Boot ==
    /\ ~up /\ ("restart" \in Faults \/ ~gui.online)
    /\ up' = TRUE /\ svc' = [run |-> svc.run + 1, seq |-> 1]
    /\ UNCHANGED <<calls, wire, worker, listening, connected, refresh, guiVars, timeouts>>

\* No service could be activated.
Refuse ==
    /\ ~up /\ calls # <<>>
    /\ calls' = Tail(calls)
    /\ wire' = Append(wire, [to |-> Head(calls), is |-> "unavailable", snap |-> NoSnapshot])
    /\ UNCHANGED <<service, worker, listening, connected, refresh, guiVars, timeouts>>

\* The client waits no longer.
CallTimesOut ==
    /\ "timeout" \in Faults /\ timeouts < MaxTimeouts /\ calls # <<>>
    /\ calls' = Tail(calls)
    /\ wire' = Append(wire, [to |-> Head(calls), is |-> "timeout", snap |-> NoSnapshot])
    /\ timeouts' = timeouts + 1
    /\ UNCHANGED <<service, worker, listening, connected, refresh, guiVars>>

\* The next message, an m for t.
Receives(t, m) == wire # <<>> /\ Head(wire).to = t /\ Head(wire).is = m
Received == Head(wire).snap

\* The next signal: answers that arrived before it may still be on their way
\* to their tasks.
Signalled(i) ==
    /\ i \in DOMAIN wire /\ wire[i].is = "signal"
    /\ \A j \in DOMAIN wire : wire[j].is = "signal" => i <= j
Without(s, i) == [j \in 1..(Len(s) - 1) |-> IF j < i THEN s[j] ELSE s[j + 1]]
-----------------------------------------------------------------------------
(* GuiState.                                                               *)

SetSnapshot_NoResets(s) ==
    /\ gui' = IF s.seq < gui.held.seq THEN gui
              ELSE [gui EXCEPT !.held = s]
    /\ resets' = FALSE

\* set_snapshot: an older sequence is dropped until the next disconnection.
SetSnapshot(s) ==
    IF ~resets /\ s.seq < gui.held.seq
    THEN UNCHANGED guiVars
    ELSE /\ gui' = [gui EXCEPT !.held = s]
         /\ resets' = FALSE

\* set_connected(False).
SetOffline ==
    /\ gui' = [gui EXCEPT !.online = FALSE]
    /\ resets' = (resets \/ gui.online)
-----------------------------------------------------------------------------
(* GuiWorker._main.                                                        *)

\* connect() succeeds: the listener is started, the GUI is told, and the first
\* snapshot is asked for.
Connect ==
    /\ worker = "connect" /\ up
    /\ worker' = "first" /\ connected' = TRUE
    /\ gui' = [gui EXCEPT !.online = TRUE]
    /\ calls' = <<"main">>
    /\ UNCHANGED <<service, wire, listening, refresh, resets, timeouts>>

\* _listen_for_changes subscribes, which the first fetch does not wait for.
Listen ==
    /\ worker # "connect" /\ listening = "no"
    /\ listening' = "yes"
    /\ UNCHANGED <<service, calls, wire, worker, connected, refresh, guiVars, timeouts>>

\* connect() raises; the worker tries again after a while.
ConnectFails ==
    /\ worker = "connect" /\ ~up
    /\ SetOffline
    /\ UNCHANGED <<service, calls, wire, worker, listening, connected, refresh, timeouts>>

FirstSnapshot ==
    /\ Receives("main", "snapshot")
    /\ SetSnapshot(Received)
    /\ wire' = Tail(wire) /\ worker' = "watch"
    /\ UNCHANGED <<service, calls, listening, connected, refresh, timeouts>>

\* The connection is given up: the GUI is told, the worker's tasks are
\* cancelled and the client is closed.
Disconnect ==
    /\ SetOffline
    /\ worker' = "connect" /\ listening' = "no" /\ connected' = FALSE
    /\ calls' = <<>> /\ wire' = <<>>
    /\ pending' = 0 /\ task' = "none" /\ need' = 0 /\ left' = 0 /\ first' = 0
    /\ UNCHANGED <<service, timeouts>>

FirstFails ==
    /\ Receives("main", "timeout") \/ Receives("main", "unavailable")
    /\ Disconnect

\* A tick of the watch finds the client unconnected.
WatchNotices ==
    /\ worker = "watch" /\ ~connected
    /\ Disconnect
-----------------------------------------------------------------------------
(* SdbusClient: the listener and the refresh task.                         *)

StartRefresh_TaskKept ==
    IF task = "none" /\ need = 0
    THEN task' = "ready" /\ need' = 0 /\ left' = MAX_COALESCED_REFRESHES /\ first' = 0
    ELSE UNCHANGED <<task, need, left, first>>

\* A task is started unless one is on its way.
StartRefresh ==
    IF task = "none"
    THEN task' = "ready" /\ need' = 0 /\ left' = MAX_COALESCED_REFRESHES /\ first' = 0
    ELSE UNCHANGED <<task, need, left, first>>

Signal_NextSequence(i) ==
    /\ listening = "yes" /\ Signalled(i)
    /\ wire' = Without(wire, i)
    /\ pending' = Largest(pending, wire[i].snap.seq + 1)
    /\ StartRefresh
    /\ UNCHANGED <<service, calls, worker, listening, connected, guiVars, timeouts>>

\* _queue_snapshot_refresh: the highest sequence is kept, one task fetches.
Signal(i) ==
    /\ listening = "yes" /\ Signalled(i)
    /\ wire' = Without(wire, i)
    /\ pending' = Largest(pending, wire[i].snap.seq)
    /\ StartRefresh
    /\ UNCHANGED <<service, calls, worker, listening, connected, guiVars, timeouts>>

\* _listen_for_changes ends with an exception over a signal ...
ListenerFails(i) ==
    /\ "listener" \in Faults /\ timeouts < MaxTimeouts
    /\ listening = "yes" /\ Signalled(i)
    /\ listening' = "failed" /\ connected' = FALSE
    /\ wire' = Without(wire, i) /\ timeouts' = timeouts + 1
    /\ UNCHANGED <<service, calls, worker, refresh, guiVars>>

\* ... and nobody takes the others.
SignalLost(i) ==
    /\ listening = "failed" /\ Signalled(i)
    /\ wire' = Without(wire, i)
    /\ UNCHANGED <<service, calls, worker, listening, connected, refresh, guiVars, timeouts>>

\* _notify_snapshot takes the pending sequence and fetches.
RefreshAsks ==
    /\ task = "ready"
    /\ need' = pending /\ pending' = 0
    /\ first' = IF left = MAX_COALESCED_REFRESHES THEN pending ELSE first
    /\ task' = "waiting" /\ calls' = Append(calls, "refresh")
    /\ UNCHANGED <<service, wire, worker, listening, connected, left, guiVars, timeouts>>

\* The worker's callback; with the client unconnected it says nothing.
Publish(s) == IF connected THEN SetSnapshot(s) ELSE UNCHANGED guiVars

\* The subscribers are called; unless the snapshot covers everything signalled
\* until now, the task fetches again, a bounded number of times.
RefreshGot ==
    LET required == Largest(need, pending)
    IN  /\ Receives("refresh", "snapshot")
        /\ Publish(Received)
        /\ wire' = Tail(wire) /\ need' = required
        /\ IF Received.seq >= required \/ left = 1
           THEN pending' = 0 /\ task' = "none" /\ left' = 0
           ELSE pending' = required /\ task' = "ready" /\ left' = left - 1
        /\ UNCHANGED <<service, calls, worker, listening, connected, first, timeouts>>

\* The fetch fails and the task ends, whatever is pending; the client is
\* unconnected when there is no service.
RefreshFails ==
    /\ Receives("refresh", "timeout") \/ Receives("refresh", "unavailable")
    /\ connected' = (connected /\ Head(wire).is = "timeout")
    /\ wire' = Tail(wire)
    /\ task' = "none" /\ left' = 0
    /\ UNCHANGED <<service, calls, worker, listening, pending, need, first, guiVars, timeouts>>
-----------------------------------------------------------------------------
(* The GUI's refresh timer: GuiWorker._fetch_and_emit.                     *)

\* Polls that overlap are answered in order and do the same: one at a time.
Poll ==
    /\ worker # "connect"
    /\ \A i \in DOMAIN calls : calls[i] # "poll"
    /\ \A i \in DOMAIN wire : wire[i].to # "poll"
    /\ calls' = Append(calls, "poll")
    /\ UNCHANGED <<service, wire, worker, listening, connected, refresh, guiVars, timeouts>>

PollGot ==
    /\ Receives("poll", "snapshot")
    /\ Publish(Received)
    /\ wire' = Tail(wire)
    /\ UNCHANGED <<service, calls, worker, listening, connected, refresh, timeouts>>

PollFails_Quietly ==
    /\ Receives("poll", "timeout") \/ Receives("poll", "unavailable")
    /\ wire' = Tail(wire)
    /\ UNCHANGED <<service, calls, worker, listening, connected, refresh, guiVars, timeouts>>

PollFails ==
    /\ Receives("poll", "timeout") \/ Receives("poll", "unavailable")
    /\ connected' = (connected /\ Head(wire).is = "timeout")
    /\ IF connected' THEN UNCHANGED guiVars ELSE SetOffline
    /\ wire' = Tail(wire)
    /\ UNCHANGED <<service, calls, worker, listening, refresh, timeouts>>
-----------------------------------------------------------------------------
Next ==
    \/ Change \/ Serve \/ Crash \/ Boot \/ Refuse \/ CallTimesOut
    \/ Connect \/ Listen \/ ConnectFails \/ FirstSnapshot \/ FirstFails \/ WatchNotices
    \/ \E i \in DOMAIN wire : Signal(i) \/ ListenerFails(i) \/ SignalLost(i)
    \/ RefreshAsks \/ RefreshGot \/ RefreshFails
    \/ Poll \/ PollGot \/ PollFails

Spec == Init /\ [][Next]_vars

\* Whatever the client receives is handled.
Handle ==
    \/ FirstSnapshot \/ FirstFails \/ RefreshGot \/ RefreshFails
    \/ PollGot \/ PollFails
    \/ \E i \in DOMAIN wire : Signal(i) \/ SignalLost(i)

\* The service answers or is started, the worker's loop runs its tasks, its
\* 15 s watch ticks.  Changes, failures and polls need not happen.
LiveSpec ==
    /\ Spec
    /\ WF_vars(Serve \/ Refuse \/ Boot) /\ WF_vars(Handle)
    /\ WF_vars(Connect) /\ WF_vars(WatchNotices) /\ WF_vars(RefreshAsks)

\* The refresh timer fires, every 5 s.
TimerFires == WF_vars(Poll)
-----------------------------------------------------------------------------
(* Properties.                                                             *)

TypeOK ==
    /\ up \in BOOLEAN /\ svc \in Snapshot
    /\ calls \in Seq(Callers) /\ wire \in Seq(Message)
    /\ worker \in {"connect", "first", "watch"} /\ listening \in {"no", "yes", "failed"} /\ connected \in BOOLEAN
    /\ pending \in 0..MaxSeq /\ need \in 0..MaxSeq /\ first \in 0..MaxSeq
    /\ task \in {"none", "ready", "waiting"} /\ left \in 0..MAX_COALESCED_REFRESHES
    /\ gui \in [online : BOOLEAN, held : Snapshot]
    /\ resets \in BOOLEAN /\ timeouts \in 0..MaxTimeouts

\* The bound on the fetches gives up a change that was signalled.
GivesUp == Receives("refresh", "snapshot") /\ left = 1 /\ Received.seq < Largest(need, pending)

\* While the service is not restarted, a fetch is answered with at least what it
\* was made for, and a task that gives up a signalled change has been outrun by
\* a change for each of its fetches: no repetition is wasted on a change that
\* an earlier answer covered.
FetchesCover ==
    svc.run = 1 /\ Receives("refresh", "snapshot") =>
        /\ Received.seq >= need
        /\ GivesUp => pending >= first + MAX_COALESCED_REFRESHES

\* While no call fails, the service stays up and no task is outrun until it gives
\* up, a signal the client receives has the GUI hold that change or a later one,
\* even if the timer never fires.
SignalsAreFollowed ==
    [](up /\ svc.run = 1 /\ timeouts = 0 /\ ~GivesUp) =>
        \A n \in 1..MaxSeq :
            (\E i \in DOMAIN wire : Signalled(i) /\ wire[i].snap.seq = n) ~> (gui.held.seq >= n)

\* The service at rest, the GUI comes to hold its latest snapshot and keeps it:
\* polling makes up for signals before the subscription, refreshes that failed
\* or gave up and a service that went away, the watch for a listener that failed.
Converges == TimerFires => <>[](gui.held = svc)

\* When the service is gone, the GUI comes to say so.
OutageIsShown == TimerFires => (~up ~> ~gui.online)
=============================================================================
