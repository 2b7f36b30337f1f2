-------------------------- MODULE BatteryThresholds --------------------------
(***************************************************************************)
(* Charge thresholds in the service: the use case set_battery_thresholds   *)
(* of backend/application.py, and write_battery_thresholds of              *)
(* backend/hardware.py as the command queue's worker runs it, one access   *)
(* to a threshold file per step.                                           *)
(*                                                                         *)
(* A use case runs under the mutation lock for one call (uc.by) and ends   *)
(* with an answer (uc.at = "answer") that ControlCalls takes to the        *)
(* caller.  The queue is used as HardwareCommandQueue guarantees it.       *)
(***************************************************************************)
EXTENDS Naturals, Sequences

CONSTANTS Pairs,     \* threshold pairs asked for, good and bad
          MaxFaults  \* budget for what goes wrong

ASSUME BatteryAssumption ==
    Pairs \subseteq [end : Nat, start : Nat] /\ MaxFaults \in Nat

VARIABLES hw,     \* the two threshold files
          cfg,    \* the battery section of the configuration
          pub,    \* the observed thresholds published, and whether marked stale
          wk,     \* the queue's worker
          uc,     \* the use case that holds the mutation lock
          told,   \* ghost: an answer since the last success says that they may differ
          faults

batteryVars == <<hw, cfg, pub, wk, uc, told, faults>>

Fault == faults < MaxFaults /\ faults' = faults + 1

NoPair == [end |-> 0, start |-> 0]

\* validate_thresholds; set_battery_mode asks for one of the presets.
ValidThresholds(p) ==
    /\ p.end \in 40..100 /\ p.start \in 40..100
    /\ p.start <= p.end /\ p.end - p.start >= 5

Idle == [by |-> 0, at |-> "idle", pair |-> NoPair, old |-> NoPair, fresh |-> TRUE]
IdleWorker == [at |-> "idle", pair |-> NoPair, todo |-> <<>>, ok |-> {}, same |-> FALSE,
               blind |-> FALSE, waits |-> FALSE, by |-> 0]
AbandonedRead == [IdleWorker EXCEPT !.at = "reading"]

\* Somebody gave up on the call the worker is in: new ones are refused.
Poisoned == wk.at # "idle" /\ ~wk.waits

BatteryInit ==
    /\ hw \in {p \in Pairs : ValidThresholds(p)} /\ cfg = hw
    /\ pub = [pair |-> hw, fresh |-> TRUE]
    /\ wk = IdleWorker /\ uc = Idle /\ told = FALSE /\ faults = 0
-----------------------------------------------------------------------------
(* The worker: write_battery_thresholds.                                   *)

WriteOrder_EndFirst(p) == <<"end", "start">>

\* The start is lowered first when the new end is below the old start.
WriteOrder(p) == IF p.end < hw.start THEN <<"start", "end">> ELSE <<"end", "start">>

\* A start that cannot be read leaves the end first.
WorkerOrders ==
    /\ wk.at = "order"
    /\ \/ /\ wk' = [wk EXCEPT !.at = "write", !.todo = WriteOrder(wk.pair)]
          /\ UNCHANGED faults
       \/ /\ Fault
          /\ wk' = [wk EXCEPT !.at = "write", !.todo = <<"end", "start">>, !.blind = TRUE]
    /\ UNCHANGED hw

\* A write succeeds; is accepted without effect (wk.blind: the next one does
\* not know); or fails, and nothing more is written.
WorkerWrites ==
    /\ wk.at = "write" /\ wk.todo # <<>>
    /\ LET field == Head(wk.todo)
           accepted == [wk EXCEPT !.todo = Tail(@), !.ok = @ \cup {field}]
       IN  \/ /\ hw' = [hw EXCEPT ![field] = wk.pair[field]] /\ wk' = accepted
              /\ UNCHANGED faults
           \/ Fault /\ wk' = [accepted EXCEPT !.blind = TRUE] /\ UNCHANGED hw
           \/ Fault /\ wk' = [wk EXCEPT !.todo = <<>>] /\ UNCHANGED hw

WorkerReadsBack_Trusts ==
    /\ wk.at = "write" /\ wk.todo = <<>>
    /\ wk' = IF wk.waits THEN [wk EXCEPT !.at = "done", !.same = wk.ok = {"end", "start"}]
             ELSE IdleWorker
    /\ UNCHANGED <<hw, faults>>

\* Both files are read back, or cannot be; a caller that gave up does not take
\* the result.
WorkerReadsBack ==
    /\ wk.at = "write" /\ wk.todo = <<>>
    /\ \E same \in {hw = wk.pair, FALSE} :
        /\ wk' = IF wk.waits THEN [wk EXCEPT !.at = "done", !.same = same] ELSE IdleWorker
        /\ \/ same = (hw = wk.pair) /\ UNCHANGED faults
           \/ same # (hw = wk.pair) /\ wk.waits /\ Fault
    /\ UNCHANGED hw

WorkerReturns == wk.at = "reading" /\ wk' = IdleWorker /\ UNCHANGED <<hw, faults>>

WorkerStep ==
    /\ WorkerOrders \/ WorkerWrites \/ WorkerReadsBack \/ WorkerReturns
    /\ UNCHANGED <<cfg, pub, uc, told>>
-----------------------------------------------------------------------------
(* The use case: set_battery_thresholds.                                   *)

\* An answer without a change is an error, "failed" or "unavailable"; the ones
\* behind a refresh are "success" and "partial" (told).
Answers == uc' = [uc EXCEPT !.at = "answer"]
Writes(p) == wk' = [IdleWorker EXCEPT !.at = "order", !.pair = p, !.waits = TRUE, !.by = uc.by]

\* Under the lock: a service that shuts down, or waits for its fan restore,
\* refuses (the fan use cases decide when); then the thresholds are validated.
UseCaseBegins(call, p) ==
    /\ uc = Idle
    /\ \E admitted \in BOOLEAN :
        uc' = [Idle EXCEPT !.by = call, !.pair = p,
                           !.at = IF admitted /\ ValidThresholds(p) THEN "cap" ELSE "answer"]
    /\ UNCHANGED <<hw, cfg, pub, wk, told, faults>>

\* The capability is read: refused, not writable, too slow, or good.  The pair
\* to roll back to is the one published.
CapabilityRead ==
    /\ uc.at = "cap"
    /\ \/ Poisoned /\ Answers /\ UNCHANGED <<wk, faults>>
       \/ wk = IdleWorker /\ Answers /\ UNCHANGED <<wk, faults>>
       \/ wk = IdleWorker /\ Fault /\ wk' = AbandonedRead /\ Answers
       \/ /\ wk = IdleWorker /\ UNCHANGED faults
          /\ uc' = [uc EXCEPT !.at = "write", !.old = pub.pair, !.fresh = pub.fresh]
          /\ Writes(uc.pair)
    /\ UNCHANGED <<hw, cfg, pub, told>>

\* Both writes are good: save.  One is, or the read-back differs: roll back to
\* the pair published, if there is one.  None is: "failed", and no refresh.
WriteAnswered ==
    /\ uc.at = "write" /\ wk.at = "done"
    /\ \/ wk.same /\ wk.ok = {"end", "start"} /\ uc' = [uc EXCEPT !.at = "save"]
          /\ wk' = IdleWorker /\ UNCHANGED told
       \/ /\ wk.ok # {} /\ ~(wk.same /\ wk.ok = {"end", "start"})
          /\ IF uc.old # NoPair
             THEN uc' = [uc EXCEPT !.at = "rollback"] /\ Writes(uc.old) /\ UNCHANGED told
             ELSE /\ uc' = [uc EXCEPT !.at = "refresh"]
                  /\ wk' = IdleWorker /\ told' = TRUE
       \/ wk.ok = {} /\ Answers /\ wk' = IdleWorker /\ UNCHANGED told
    /\ UNCHANGED <<hw, cfg, pub, faults>>

\* The deadline of the write passes while the worker goes on: the error is
\* raised to the caller.
WriteTimesOut ==
    /\ uc.at = "write" /\ wk.at # "done" /\ Fault
    /\ wk' = [wk EXCEPT !.waits = FALSE] /\ Answers /\ told' = TRUE
    /\ UNCHANGED <<hw, cfg, pub>>

Saves ==
    /\ uc.at = "save"
    /\ \/ /\ cfg' = uc.pair /\ told' = FALSE /\ UNCHANGED faults
          /\ uc' = [uc EXCEPT !.at = "refresh"]
       \/ /\ Fault /\ told' = TRUE /\ UNCHANGED cfg
          /\ uc' = [uc EXCEPT !.at = "refresh"]
    /\ UNCHANGED <<hw, pub, wk>>

\* The rollback is verified by its own read-back, or it is not, or it times
\* out: a partial answer says which.  A pair published before the last good
\* read may not be what was in force.
RollbackAnswered ==
    /\ uc.at = "rollback"
    /\ \/ wk.at = "done" /\ wk' = IdleWorker /\ UNCHANGED faults
          /\ told' = (told \/ ~wk.same \/ ~uc.fresh)
       \/ wk.at # "done" /\ Fault /\ wk' = [wk EXCEPT !.waits = FALSE] /\ told' = TRUE
    /\ uc' = [uc EXCEPT !.at = "refresh"]
    /\ UNCHANGED <<hw, cfg, pub>>

\* _refresh_battery, at the end of a use case and in the refresh loop: read,
\* unreadable (published without thresholds), refused, or too slow.
RefreshBattery ==
    /\ \/ /\ wk = IdleWorker /\ UNCHANGED wk
          /\ \/ pub' = [pair |-> hw, fresh |-> TRUE] /\ UNCHANGED faults
             \/ Fault /\ pub' = [pair |-> NoPair, fresh |-> TRUE]
       \/ Poisoned /\ pub' = [pub EXCEPT !.fresh = FALSE] /\ UNCHANGED <<wk, faults>>
       \/ wk = IdleWorker /\ Fault /\ wk' = AbandonedRead /\ pub' = [pub EXCEPT !.fresh = FALSE]
    /\ UNCHANGED <<hw, cfg, told>>

UseCaseRefreshes == uc.at = "refresh" /\ RefreshBattery /\ uc' = [uc EXCEPT !.at = "answer"]
RefreshLoop == RefreshBattery /\ UNCHANGED uc

UseCaseStep ==
    CapabilityRead \/ WriteAnswered \/ Saves \/ RollbackAnswered \/ UseCaseRefreshes
-----------------------------------------------------------------------------
(* Properties.                                                             *)

\* hardware.py:1167, "Preserve the kernel invariant during transitions": no
\* write puts the start above the end, neither between the two writes of a pair
\* or of its rollback nor in a call that goes on after its caller gave up, so
\* that a crash in between leaves an ordered pair.  (Except where the code does
\* not know what is in force: the start could not be read, or the file took the
\* first write without effect, or the pair to roll back to is such a leftover.)
ThresholdsStayOrdered ==
    [][ hw.start <= hw.end /\ wk.pair.start <= wk.pair.end /\ ~wk.blind
            => hw'.start <= hw'.end ]_batteryVars

\* Between use cases the hardware has what the configuration says and what is
\* published as observed, if anything is, unless the domain is marked stale or
\* an answer since the last success has said otherwise: an unverified or unsaved
\* write, a timeout, or a rollback to a pair that was itself marked stale.
DivergenceIsReported ==
    uc = Idle /\ ~told => hw = cfg /\ (pub.fresh => pub.pair \in {hw, NoPair})
=============================================================================
