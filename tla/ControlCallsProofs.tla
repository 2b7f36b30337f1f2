------------------------- MODULE ControlCallsProofs -------------------------
(***************************************************************************)
(* Proofs about ControlCalls and the use case of BatteryThresholds in it,  *)
(* for any threshold pairs, any number of calls, faults and crashes.       *)
(***************************************************************************)
EXTENDS ControlCalls, TLAPS

Pair == [end : Nat, start : Nat]
Fields == {"end", "start"}
Orders == {<<>>, <<"end">>, <<"start">>, <<"end", "start">>, <<"start", "end">>}

Worker == [at : {"idle", "order", "write", "done", "reading"}, pair : Pair, todo : Orders,
           ok : SUBSET Fields, same : BOOLEAN, blind : BOOLEAN, waits : BOOLEAN, by : Nat]
UseCase == [by : Nat, at : {"idle", "cap", "write", "save", "rollback", "refresh", "answer"},
            pair : Pair, old : Pair, fresh : BOOLEAN]
Call == [pair : Pairs, task : {"created", "waiting", "over", "vanished"},
         srv : {"none", "auth", "queued", "running", "over"}, granted : BOOLEAN]

TypeOK ==
    /\ hw \in Pair /\ cfg \in Pair
    /\ pub \in [pair : Pair, fresh : BOOLEAN]
    /\ wk \in Worker
    /\ uc \in UseCase
    /\ told \in BOOLEAN /\ faults \in Nat
    /\ calls \in Seq(Call)
    /\ lockq \in Seq(Nat)
    /\ up \in BOOLEAN

\* The order of two writes was chosen for what is in the files, and what has
\* been written so far is in them, unless a fault hid it from the worker.
OrderFits ==
    wk.at = "write" /\ ~wk.blind =>
        \/ wk.todo = <<>>
        \/ wk.todo = <<"end", "start">> /\ hw.start <= wk.pair.end
        \/ wk.todo = <<"start", "end">> /\ wk.pair.end < hw.start
        \/ wk.todo = <<"start">> /\ hw.end = wk.pair.end
        \/ wk.todo = <<"end">> /\ hw.start = wk.pair.start

Granted(i) == i \in DOMAIN calls /\ calls[i].granted

\* Whoever waits for the lock, holds it or has the worker write was granted.
WritersAreGranted ==
    /\ \A i \in DOMAIN lockq : Granted(lockq[i])
    /\ uc.at # "idle" => Granted(uc.by)
    /\ wk.at \in {"order", "write", "done"} => Granted(wk.by)

\* A service that is down has no use case, no worker and no handler.
DownIsIdle ==
    ~up => /\ uc.at = "idle" /\ wk.at = "idle" /\ lockq = <<>>
           /\ \A i \in DOMAIN calls : calls[i].srv # "auth"

\* The worker writes for the use case that waits for it, or somebody was told.
WorkerAndUseCase ==
    /\ wk.at = "idle" => wk = IdleWorker
    /\ uc.at = "idle" => uc = Idle
    /\ wk.at \in {"order", "write", "done"} =>
           IF wk.waits THEN uc.at \in {"write", "rollback"} ELSE told
    /\ uc.at = "write" => wk.at \in {"order", "write", "done"} /\ wk.waits /\ wk.pair = uc.pair
    /\ uc.at = "rollback" => wk.at \in {"order", "write", "done"} /\ wk.waits /\ wk.pair = uc.old
    /\ wk.at = "done" => wk.waits /\ (wk.same => hw = wk.pair)
    /\ wk.at = "order" => wk.ok = {}
    /\ uc.at = "save" => wk.at \in {"idle", "reading"}

Faithful == hw = cfg /\ (pub.fresh => pub.pair \in {hw, NoPair})

\* What hardware, configuration and snapshot have in common at each place of
\* the use case, as long as nobody was told that they may differ.
Agreement ==
    /\ uc.at \in {"idle", "cap", "answer"} /\ ~told => Faithful
    /\ uc.at = "write" /\ wk.ok = {} /\ ~told => Faithful
    /\ uc.at \in {"write", "rollback"} => uc.old = pub.pair /\ uc.fresh = pub.fresh
    /\ uc.at \in {"write", "rollback"} /\ ~told /\ uc.fresh /\ uc.old # NoPair => uc.old = cfg
    /\ uc.at = "rollback" => uc.old # NoPair
    /\ uc.at = "save" => hw = uc.pair
    /\ uc.at = "refresh" /\ ~told => hw = cfg

IInv ==
    /\ TypeOK /\ OrderFits /\ WritersAreGranted
    /\ DownIsIdle /\ WorkerAndUseCase /\ Agreement
-----------------------------------------------------------------------------
(* The service: what the worker and the use case keep.                     *)

\* The resting worker and the resting use case, field by field.
LEMMA RestingRecords ==
  /\ NoPair \in Pair
  /\ IdleWorker \in Worker /\ IdleWorker.at = "idle" /\ ~IdleWorker.waits
  /\ AbandonedRead \in Worker /\ AbandonedRead.at = "reading"
  /\ Idle \in UseCase /\ Idle.at = "idle"
  BY DEF IdleWorker, AbandonedRead, Idle, NoPair, Worker, UseCase, Pair, Orders, Fields

\* The orders in which the two files are written, step by step.
LEMMA OrdersShrink ==
  /\ Head(<<"end", "start">>) = "end" /\ Tail(<<"end", "start">>) = <<"start">>
  /\ Head(<<"start", "end">>) = "start" /\ Tail(<<"start", "end">>) = <<"end">>
  /\ Head(<<"end">>) = "end" /\ Tail(<<"end">>) = <<>>
  /\ Head(<<"start">>) = "start" /\ Tail(<<"start">>) = <<>>
  OBVIOUS

\* The invariant holds when the service has just read its hardware.
LEMMA CallsInit == Init => IInv
<1> SUFFICES ASSUME Init PROVE IInv
  OBVIOUS
<1>1. /\ hw \in Pair /\ cfg = hw /\ pub = [pair |-> hw, fresh |-> TRUE]
      /\ told = FALSE /\ faults = 0 /\ wk = IdleWorker /\ uc = Idle
      /\ calls = <<>> /\ lockq = <<>> /\ up = TRUE
  BY BatteryAssumption DEF Init, BatteryInit, Pair
<1>2. TypeOK
  <2>1. pub \in [pair : Pair, fresh : BOOLEAN] /\ calls \in Seq(Call) /\ lockq \in Seq(Nat)
    BY <1>1
  <2> QED
    BY <1>1, <2>1, RestingRecords DEF TypeOK
<1>3. pub.pair = hw
  BY <1>1
<1> QED
  BY <1>1, <1>2, <1>3, RestingRecords
     DEF IInv, OrderFits, WritersAreGranted, DownIsIdle, WorkerAndUseCase, Agreement, Faithful

\* A step of write_battery_thresholds keeps the invariant: while its caller
\* waits, and when it runs on after its caller has given up.
LEMMA WorkerKeeps ==
  ASSUME IInv, WorkerStep, up, UNCHANGED <<callVars, up, crashes>>
  PROVE  IInv'
<1> USE BatteryAssumption
<1>a. TypeOK /\ OrderFits /\ WritersAreGranted /\ DownIsIdle /\ WorkerAndUseCase /\ Agreement
  BY DEF IInv
<1>b. UNCHANGED <<cfg, pub, uc, told, calls, lockq, up>> /\ up
  BY DEF WorkerStep, callVars
<1>1. CASE WorkerOrders
  <2>1. /\ wk' \in Worker /\ wk'.at = "write" /\ wk'.pair = wk.pair /\ wk'.ok = wk.ok
        /\ wk'.waits = wk.waits /\ wk'.by = wk.by
        /\ wk'.blind \/ wk'.todo = WriteOrder(wk.pair)
    <3>1. wk \in Worker /\ WriteOrder(wk.pair) \in Orders /\ <<"end", "start">> \in Orders
      BY <1>a DEF TypeOK, WriteOrder, Orders
    <3>2. CASE wk' = [wk EXCEPT !.at = "write", !.todo = WriteOrder(wk.pair)]
      BY <3>1, <3>2 DEF Worker
    <3>3. CASE wk' = [wk EXCEPT !.at = "write", !.todo = <<"end", "start">>, !.blind = TRUE]
      BY <3>1, <3>3 DEF Worker
    <3> QED
      BY <1>1, <3>2, <3>3 DEF WorkerOrders
  <2>2. wk.at = "order" /\ UNCHANGED hw /\ faults' \in Nat
    BY <1>a, <1>1 DEF WorkerOrders, Fault, TypeOK
  <2>3. OrderFits'
    BY <1>a, <2>1, <2>2 DEF OrderFits, WriteOrder, TypeOK, Pair, Worker
  <2> QED
    BY <1>a, <1>b, <2>1, <2>2, <2>3
       DEF IInv, TypeOK, WritersAreGranted, DownIsIdle, WorkerAndUseCase, Agreement, Faithful,
           Granted
<1>2. CASE WorkerWrites
  <2> DEFINE field == Head(wk.todo)
             accepted == [wk EXCEPT !.todo = Tail(@), !.ok = @ \cup {field}]
  <2>a. wk.at = "write" /\ wk.todo \in Orders \ {<<>>}
    BY <1>a, <1>2 DEF WorkerWrites, TypeOK, Worker
  <2>b. field \in Fields /\ Tail(wk.todo) \in Orders
    BY <2>a, OrdersShrink DEF Orders, Fields
  <2>c. /\ accepted \in Worker /\ accepted.at = "write" /\ accepted.pair = wk.pair
        /\ accepted.ok # {} /\ accepted.waits = wk.waits /\ accepted.by = wk.by
        /\ accepted.todo = Tail(wk.todo) /\ accepted.blind = wk.blind
    <3>1. wk \in Worker /\ wk.ok \cup {field} \in SUBSET Fields /\ wk.ok \cup {field} # {}
      BY <1>a, <2>b DEF TypeOK, Worker
    <3>2. accepted \in Worker
      BY <2>b, <3>1 DEF Worker
    <3> QED
      BY <2>a, <3>1, <3>2 DEF Worker
  <2>1. CASE /\ hw' = [hw EXCEPT ![field] = wk.pair[field]] /\ wk' = accepted
             /\ UNCHANGED faults
    <3>1. hw' \in Pair
      BY <1>a, <2>b, <2>1 DEF TypeOK, Pair, Fields, Worker
    <3>2. OrderFits'
      <4>1. CASE wk.todo = <<"end", "start">> \/ wk.todo = <<"end">>
        <5>1. field = "end" /\ hw'.end = wk.pair.end /\ Tail(wk.todo) \in {<<>>, <<"start">>}
          BY <1>a, <2>1, <4>1, OrdersShrink DEF TypeOK, Pair
        <5> HIDE DEF accepted, field
        <5> QED
          BY <2>c, <2>1, <5>1 DEF OrderFits
      <4>2. CASE wk.todo = <<"start", "end">> \/ wk.todo = <<"start">>
        <5>1. field = "start" /\ hw'.start = wk.pair.start /\ Tail(wk.todo) \in {<<>>, <<"end">>}
          BY <1>a, <2>1, <4>2, OrdersShrink DEF TypeOK, Pair
        <5> HIDE DEF accepted, field
        <5> QED
          BY <2>c, <2>1, <5>1 DEF OrderFits
      <4> QED
        BY <2>a, <4>1, <4>2 DEF Orders
    <3> HIDE DEF accepted
    <3> QED
      BY <1>a, <1>b, <2>a, <2>c, <2>1, <3>1, <3>2
         DEF IInv, TypeOK, WritersAreGranted, DownIsIdle, WorkerAndUseCase, Agreement, Faithful,
             Granted
  <2>2. CASE Fault /\ wk' = [accepted EXCEPT !.blind = TRUE] /\ UNCHANGED hw
    <3> HIDE DEF accepted
    <3>1. /\ wk' \in Worker /\ wk'.at = "write" /\ wk'.pair = wk.pair /\ wk'.ok # {}
          /\ wk'.waits = wk.waits /\ wk'.by = wk.by /\ wk'.blind
      BY <2>c, <2>2 DEF Worker
    <3>2. faults' \in Nat /\ UNCHANGED hw
      BY <1>a, <2>2 DEF Fault, TypeOK
    <3> QED
      BY <1>a, <1>b, <2>a, <3>1, <3>2
         DEF IInv, TypeOK, OrderFits, WritersAreGranted, DownIsIdle, WorkerAndUseCase,
             Agreement, Faithful, Granted
  <2>3. CASE Fault /\ wk' = [wk EXCEPT !.todo = <<>>] /\ UNCHANGED hw
    <3>1. /\ wk' \in Worker /\ wk'.at = "write" /\ wk'.pair = wk.pair /\ wk'.ok = wk.ok
          /\ wk'.waits = wk.waits /\ wk'.by = wk.by /\ wk'.todo = <<>>
      BY <1>a, <2>a, <2>3 DEF TypeOK, Worker, Orders
    <3>2. faults' \in Nat /\ UNCHANGED hw
      BY <1>a, <2>3 DEF Fault, TypeOK
    <3> QED
      BY <1>a, <1>b, <2>a, <3>1, <3>2
         DEF IInv, TypeOK, OrderFits, WritersAreGranted, DownIsIdle, WorkerAndUseCase,
             Agreement, Faithful, Granted
  <2> QED
    BY <1>2, <2>1, <2>2, <2>3 DEF WorkerWrites
<1>3. CASE WorkerReadsBack
  <2>1. PICK same \in BOOLEAN :
            /\ same => hw = wk.pair
            /\ wk' = IF wk.waits THEN [wk EXCEPT !.at = "done", !.same = same] ELSE IdleWorker
    BY <1>3, Zenon DEF WorkerReadsBack
  <2>2. wk.at = "write" /\ UNCHANGED hw /\ faults' \in Nat
    BY <1>a, <1>3 DEF WorkerReadsBack, Fault, TypeOK
  <2>3. CASE wk.waits
    <3>1. wk' = [wk EXCEPT !.at = "done", !.same = same]
      BY <2>1, <2>3
    <3>2. /\ wk' \in Worker /\ wk'.at = "done" /\ (wk'.same => hw = wk.pair)
          /\ wk'.pair = wk.pair /\ wk'.waits = wk.waits /\ wk'.by = wk.by /\ wk'.ok = wk.ok
      BY <1>a, <2>1, <3>1 DEF TypeOK, Worker
    <3> QED
      BY <1>a, <1>b, <2>2, <2>3, <3>2
         DEF IInv, TypeOK, OrderFits, WritersAreGranted, DownIsIdle, WorkerAndUseCase, Agreement,
             Faithful, Granted
  <2>4. CASE ~wk.waits
    <3>1. wk' = IdleWorker
      BY <2>1, <2>4
    <3> QED
      BY <1>a, <1>b, <2>2, <2>4, <3>1, RestingRecords
         DEF IInv, TypeOK, OrderFits, WritersAreGranted, DownIsIdle, WorkerAndUseCase, Agreement,
             Faithful, Granted
  <2> QED
    BY <2>3, <2>4
<1>4. CASE WorkerReturns
  BY <1>a, <1>b, <1>4, RestingRecords
     DEF WorkerReturns, IInv, TypeOK, OrderFits, WritersAreGranted, DownIsIdle,
         WorkerAndUseCase, Agreement, Faithful, Granted
<1> QED
  BY <1>1, <1>2, <1>3, <1>4 DEF WorkerStep

\* The record that _refresh_battery publishes is what it has read, nothing, or
\* the last one marked stale.
LEMMA RefreshKeeps ==
  ASSUME TypeOK, RefreshBattery, WorkerAndUseCase
  PROVE  /\ UNCHANGED <<hw, cfg, told>> /\ faults' \in Nat
         /\ wk' = wk \/ (wk = IdleWorker /\ wk' = AbandonedRead)
         /\ wk = IdleWorker \/ (wk.at # "idle" /\ ~wk.waits)
         /\ pub' \in [pair : Pair, fresh : BOOLEAN]
         /\ pub'.fresh => pub'.pair \in {hw, NoPair}
<1>1. CASE wk = IdleWorker /\ UNCHANGED wk /\ pub' = [pair |-> hw, fresh |-> TRUE] /\ UNCHANGED faults
  BY <1>1 DEF RefreshBattery, TypeOK
<1>2. CASE wk = IdleWorker /\ UNCHANGED wk /\ Fault /\ pub' = [pair |-> NoPair, fresh |-> TRUE]
  BY <1>2, RestingRecords DEF RefreshBattery, TypeOK, Fault
<1>3. CASE Poisoned /\ pub' = [pub EXCEPT !.fresh = FALSE] /\ UNCHANGED <<wk, faults>>
  BY <1>3 DEF RefreshBattery, TypeOK, Poisoned
<1>4. CASE wk = IdleWorker /\ Fault /\ wk' = AbandonedRead /\ pub' = [pub EXCEPT !.fresh = FALSE]
  <2>1. pub' \in [pair : Pair, fresh : BOOLEAN] /\ ~pub'.fresh
    BY <1>4 DEF TypeOK
  <2> QED
    BY <1>4, <2>1 DEF RefreshBattery, TypeOK, Fault
<1> QED
  BY <1>1, <1>2, <1>3, <1>4 DEF RefreshBattery

\* A step of set_battery_thresholds, or the deadline of its write, keeps it.
LEMMA UseCaseKeeps ==
  ASSUME IInv, UseCaseStep \/ WriteTimesOut \/ RefreshLoop, up,
         UNCHANGED <<callVars, up, crashes>>
  PROVE  IInv'
<1> USE BatteryAssumption
<1>a. TypeOK /\ OrderFits /\ WritersAreGranted /\ DownIsIdle /\ WorkerAndUseCase /\ Agreement
  BY DEF IInv
<1>b. UNCHANGED <<calls, lockq, up>> /\ up
  BY DEF callVars
<1>c. /\ uc \in UseCase /\ wk \in Worker /\ uc.pair \in Pair /\ uc.old \in Pair /\ pub.pair \in Pair
      /\ pub.fresh \in BOOLEAN
  BY <1>a DEF TypeOK, UseCase
<1>d. ASSUME NEW at \in {"save", "rollback", "refresh", "answer"}, uc' = [uc EXCEPT !.at = at]
      PROVE  /\ uc' \in UseCase /\ uc'.at = at /\ uc'.by = uc.by /\ uc'.pair = uc.pair
             /\ uc'.old = uc.old /\ uc'.fresh = uc.fresh
  BY <1>c, <1>d DEF UseCase
<1>e. ASSUME NEW p \in Pair, Writes(p)
      PROVE  /\ wk' \in Worker /\ wk'.at = "order" /\ wk'.pair = p /\ wk'.waits /\ wk'.by = uc.by
             /\ wk'.ok = {}
  BY <1>c, <1>e DEF Writes, IdleWorker, Worker, UseCase, Orders
<1>f. ASSUME wk' = [wk EXCEPT !.waits = FALSE]
      PROVE  /\ wk' \in Worker /\ wk'.at = wk.at /\ wk'.pair = wk.pair /\ ~wk'.waits
             /\ wk'.by = wk.by /\ wk'.todo = wk.todo /\ wk'.ok = wk.ok /\ wk'.blind = wk.blind
  BY <1>c, <1>f DEF Worker
<1>1. CASE CapabilityRead
  <2>a. uc.at = "cap" /\ UNCHANGED <<hw, cfg, pub, told>>
    BY <1>1 DEF CapabilityRead
  <2>1. CASE Answers /\ UNCHANGED <<wk, faults>>
    BY <1>a, <1>b, <1>d, <2>a, <2>1
       DEF Answers, IInv, TypeOK, OrderFits, WritersAreGranted, DownIsIdle, WorkerAndUseCase,
           Agreement, Faithful, Granted
  <2>2. CASE wk = IdleWorker /\ Fault /\ wk' = AbandonedRead /\ Answers
    BY <1>a, <1>b, <1>d, <2>a, <2>2, RestingRecords
       DEF Answers, Fault, IInv, TypeOK, OrderFits, WritersAreGranted, DownIsIdle,
           WorkerAndUseCase, Agreement, Faithful, Granted
  <2>3. CASE /\ wk = IdleWorker /\ UNCHANGED faults /\ Writes(uc.pair)
             /\ uc' = [uc EXCEPT !.at = "write", !.old = pub.pair, !.fresh = pub.fresh]
    <3>1. /\ uc' \in UseCase /\ uc'.at = "write" /\ uc'.by = uc.by /\ uc'.pair = uc.pair
          /\ uc'.old = pub.pair /\ uc'.fresh = pub.fresh
      BY <1>c, <2>3 DEF UseCase
    <3> QED
      BY <1>a, <1>b, <1>c, <1>e, <2>a, <2>3, <3>1
         DEF IInv, TypeOK, OrderFits, WritersAreGranted, DownIsIdle, WorkerAndUseCase, Agreement,
             Faithful, Granted
  <2> QED
    BY <1>1, <2>1, <2>2, <2>3 DEF CapabilityRead
<1>2. CASE WriteAnswered
  <2>a. uc.at = "write" /\ wk.at = "done" /\ UNCHANGED <<hw, cfg, pub, faults>>
    BY <1>2 DEF WriteAnswered
  <2>1. CASE /\ wk.same /\ uc' = [uc EXCEPT !.at = "save"] /\ wk' = IdleWorker
             /\ UNCHANGED told
    BY <1>a, <1>b, <1>d, <2>a, <2>1, RestingRecords
       DEF IInv, TypeOK, OrderFits, WritersAreGranted, DownIsIdle, WorkerAndUseCase, Agreement,
           Faithful, Granted
  <2>2. CASE uc.old # NoPair /\ uc' = [uc EXCEPT !.at = "rollback"] /\ Writes(uc.old) /\ UNCHANGED told
    BY <1>a, <1>b, <1>c, <1>d, <1>e, <2>a, <2>2
       DEF IInv, TypeOK, OrderFits, WritersAreGranted, DownIsIdle, WorkerAndUseCase, Agreement,
           Faithful, Granted
  <2>3. CASE uc' = [uc EXCEPT !.at = "refresh"] /\ wk' = IdleWorker /\ told' = TRUE
    BY <1>a, <1>b, <1>d, <2>a, <2>3, RestingRecords
       DEF IInv, TypeOK, OrderFits, WritersAreGranted, DownIsIdle, WorkerAndUseCase, Agreement,
           Faithful, Granted
  <2>4. CASE wk.ok = {} /\ Answers /\ wk' = IdleWorker /\ UNCHANGED told
    BY <1>a, <1>b, <1>d, <2>a, <2>4, RestingRecords
       DEF Answers, IInv, TypeOK, OrderFits, WritersAreGranted, DownIsIdle, WorkerAndUseCase,
           Agreement, Faithful, Granted
  <2> QED
    BY <1>2, <2>1, <2>2, <2>3, <2>4 DEF WriteAnswered
<1>3. CASE Saves
  <2>a. uc.at = "save" /\ UNCHANGED <<hw, pub, wk>> /\ uc' = [uc EXCEPT !.at = "refresh"]
    BY <1>3 DEF Saves
  <2>1. CASE cfg' = uc.pair /\ told' = FALSE /\ UNCHANGED faults
    <3>1. TypeOK'
      BY <1>a, <1>b, <1>c, <1>d, <2>a, <2>1 DEF TypeOK
    <3>2. WorkerAndUseCase' /\ Agreement'
      BY <1>a, <1>d, <2>a, <2>1 DEF WorkerAndUseCase, Agreement, Faithful
    <3> QED
      BY <1>a, <1>b, <1>d, <2>a, <3>1, <3>2
         DEF IInv, OrderFits, WritersAreGranted, DownIsIdle, Granted
  <2>2. CASE Fault /\ told' = TRUE /\ UNCHANGED cfg
    BY <1>a, <1>b, <1>c, <1>d, <2>a, <2>2
       DEF Fault, IInv, TypeOK, OrderFits, WritersAreGranted, DownIsIdle, WorkerAndUseCase,
           Agreement, Faithful, Granted
  <2> QED
    BY <1>3, <2>1, <2>2 DEF Saves
<1>4. CASE RollbackAnswered
  <2>a. uc.at = "rollback" /\ UNCHANGED <<hw, cfg, pub>> /\ uc' = [uc EXCEPT !.at = "refresh"]
    BY <1>4 DEF RollbackAnswered
  <2>1. CASE /\ wk.at = "done" /\ wk' = IdleWorker /\ UNCHANGED faults
             /\ told' = (told \/ ~wk.same \/ ~uc.fresh)
    <3>1. told' \in BOOLEAN /\ (~told' => ~told /\ wk.same /\ uc.fresh)
      BY <2>1, Zenon
    <3>2. TypeOK'
      BY <1>a, <1>b, <1>d, <2>a, <2>1, <3>1, RestingRecords DEF TypeOK
    <3>3. WorkerAndUseCase' /\ Agreement'
      BY <1>a, <1>d, <2>a, <2>1, <3>1, RestingRecords DEF WorkerAndUseCase, Agreement, Faithful
    <3> QED
      BY <1>a, <1>b, <1>d, <2>a, <2>1, <3>2, <3>3, RestingRecords
         DEF IInv, OrderFits, WritersAreGranted, DownIsIdle, Granted
  <2>2. CASE wk.at # "done" /\ Fault /\ wk' = [wk EXCEPT !.waits = FALSE] /\ told' = TRUE
    BY <1>a, <1>b, <1>c, <1>d, <1>f, <2>a, <2>2
       DEF Fault, IInv, TypeOK, OrderFits, WritersAreGranted, DownIsIdle, WorkerAndUseCase,
           Agreement, Faithful, Granted
  <2> QED
    BY <1>4, <2>1, <2>2 DEF RollbackAnswered
<1>5. CASE UseCaseRefreshes
  BY <1>a, <1>b, <1>d, <1>5, RefreshKeeps, RestingRecords
     DEF UseCaseRefreshes, IInv, TypeOK, OrderFits, WritersAreGranted, DownIsIdle,
         WorkerAndUseCase, Agreement, Faithful, Granted
<1>6. CASE WriteTimesOut
  <2>a. /\ uc.at = "write" /\ wk.at # "done" /\ UNCHANGED <<hw, cfg, pub>> /\ told' = TRUE
        /\ uc' = [uc EXCEPT !.at = "answer"] /\ wk' = [wk EXCEPT !.waits = FALSE]
        /\ faults' \in Nat
    BY <1>a, <1>6 DEF WriteTimesOut, Answers, Fault, TypeOK
  <2> QED
    BY <1>a, <1>b, <1>d, <1>f, <2>a
       DEF IInv, TypeOK, OrderFits, WritersAreGranted, DownIsIdle, WorkerAndUseCase, Agreement,
           Faithful, Granted
<1>7. CASE RefreshLoop
  BY <1>a, <1>b, <1>7, RefreshKeeps, RestingRecords
     DEF RefreshLoop, IInv, TypeOK, OrderFits, WritersAreGranted, DownIsIdle,
         WorkerAndUseCase, Agreement, Faithful, Granted
<1> QED
  BY <1>1, <1>2, <1>3, <1>4, <1>5, <1>6, <1>7 DEF UseCaseStep
-----------------------------------------------------------------------------
(* Calls: tasks in the window and handlers in the service.                 *)

\* Changing elements of a sequence keeps its length.
LEMMA SameShape ==
  ASSUME NEW S, NEW s \in Seq(S), NEW t \in [DOMAIN s -> S]
  PROVE  t \in Seq(S) /\ DOMAIN t = DOMAIN s /\ Len(t) = Len(s)
  OBVIOUS

\* A step of calls that leaves the service's battery alone, takes no grant back
\* and queues nobody who was not granted, keeps the invariant.
LEMMA CallsMove ==
  ASSUME IInv, UNCHANGED batteryVars, up' = up, calls' \in Seq(Call), lockq' \in Seq(Nat),
         \A i \in DOMAIN calls : i \in DOMAIN calls' /\ (calls[i].granted => calls'[i].granted),
         \A i \in DOMAIN lockq' : lockq'[i] \in DOMAIN calls' /\ calls'[lockq'[i]].granted,
         ~up => lockq' = <<>> /\ \A i \in DOMAIN calls' : calls'[i].srv # "auth"
  PROVE  IInv'
<1>1. TypeOK' /\ OrderFits' /\ WorkerAndUseCase' /\ Agreement'
  BY DEF IInv, batteryVars, TypeOK, OrderFits, WorkerAndUseCase, Agreement, Faithful
<1>2. WritersAreGranted' /\ DownIsIdle'
  BY DEF IInv, batteryVars, WritersAreGranted, DownIsIdle, Granted
<1> QED
  BY <1>1, <1>2 DEF IInv

\* The same for a step that changes the task or the handler of one call only,
\* and does not start a handler in a service that is down.
LEMMA OneCallMoves ==
  ASSUME IInv, UNCHANGED <<batteryVars, lockq, up>>, NEW i \in DOMAIN calls, NEW c \in Call,
         calls' = [calls EXCEPT ![i] = c], calls[i].granted => c.granted,
         c.srv = "auth" => up
  PROVE  IInv'
<1>1. /\ calls' \in [DOMAIN calls -> Call] /\ calls' \in Seq(Call) /\ DOMAIN calls' = DOMAIN calls
      /\ lockq' \in Seq(Nat)
  BY SameShape DEF IInv, TypeOK
<1>2. \A j \in DOMAIN calls : calls'[j] = IF j = i THEN c ELSE calls[j]
  BY <1>1
<1> QED
  BY <1>1, <1>2, CallsMove DEF IInv, WritersAreGranted, Granted, DownIsIdle

\* A reply ends a handler and, if it still waits, its task.
LEMMA ReplyIsACall ==
  ASSUME TypeOK, NEW i \in DOMAIN calls, Replies(i)
  PROVE  \E c \in Call : /\ calls' = [calls EXCEPT ![i] = c]
                         /\ c.granted = calls[i].granted /\ c.srv = "over"
<1> DEFINE c == [calls[i] EXCEPT !.srv = "over",
                                 !.task = IF calls[i].task = "waiting" THEN "over"
                                          ELSE calls[i].task]
<1>1. calls[i] \in Call
  BY DEF TypeOK
<1>2. c \in Call /\ c.granted = calls[i].granted /\ c.srv = "over"
  BY <1>1 DEF Call
<1>3. calls' = [calls EXCEPT ![i] = c]
  BY DEF Replies
<1> QED
  BY <1>2, <1>3

\* Every step of the window, the service and the outside world keeps it.
LEMMA CallsStep == IInv /\ [Next]_vars => IInv'
<1> SUFFICES ASSUME IInv, [Next]_vars PROVE IInv'
  OBVIOUS
<1> USE BatteryAssumption
<1>a. TypeOK /\ OrderFits /\ WritersAreGranted /\ DownIsIdle /\ WorkerAndUseCase /\ Agreement
  BY DEF IInv
<1>b. \A i \in DOMAIN calls : calls[i] \in Call /\ i \in Nat
  BY <1>a DEF TypeOK
<1>1. ASSUME NEW p \in Pairs, GuiCalls(p) PROVE IInv'
  <2> DEFINE new == [pair |-> p, task |-> "created", srv |-> "none", granted |-> FALSE]
  <2>1. new \in Call /\ new.srv # "auth"
    BY DEF Call
  <2>2. calls' = Append(calls, new) /\ UNCHANGED <<batteryVars, lockq, up>>
    BY <1>1 DEF GuiCalls
  <2> HIDE DEF new
  <2>3. /\ calls' \in Seq(Call) /\ DOMAIN calls' = DOMAIN calls \cup {Len(calls) + 1}
        /\ calls'[Len(calls) + 1] = new /\ \A i \in DOMAIN calls : calls'[i] = calls[i]
    BY <1>a, <2>1, <2>2 DEF TypeOK
  <2> QED
    BY <1>a, <2>1, <2>2, <2>3, CallsMove DEF TypeOK, WritersAreGranted, DownIsIdle, Granted
<1>2. ASSUME NEW i \in DOMAIN calls, TaskStarts(i) PROVE IInv'
  <2>a. UNCHANGED <<batteryVars, lockq, up>> /\ calls[i] \in Call
    BY <1>b, <1>2 DEF TaskStarts
  <2>1. CASE up /\ calls' = [calls EXCEPT ![i].task = "waiting", ![i].srv = "auth"]
    <3> DEFINE c == [calls[i] EXCEPT !.task = "waiting", !.srv = "auth"]
    <3>1. c \in Call /\ c.granted = calls[i].granted
      BY <2>a DEF Call
    <3>2. calls' = [calls EXCEPT ![i] = c]
      BY <2>1
    <3> HIDE DEF c
    <3> QED
      BY <2>a, <2>1, <3>1, <3>2, OneCallMoves
  <2>2. CASE calls' = [calls EXCEPT ![i].task = "over"] /\ calls[i].task = "created"
    <3> DEFINE c == [calls[i] EXCEPT !.task = "over"]
    <3>1. c \in Call /\ c.granted = calls[i].granted /\ c.srv = calls[i].srv
      BY <2>a DEF Call
    <3>2. calls' = [calls EXCEPT ![i] = c]
      BY <2>2
    <3> HIDE DEF c
    <3> QED
      BY <1>a, <2>a, <3>1, <3>2, OneCallMoves DEF DownIsIdle, TypeOK
  <2> QED
    BY <1>2, <2>1, <2>2 DEF TaskStarts
<1>3. ASSUME NEW i \in DOMAIN calls, ClientTimesOut(i) PROVE IInv'
  <2> DEFINE c == [calls[i] EXCEPT !.task = "over"]
  <2>1. c \in Call /\ c.granted = calls[i].granted /\ c.srv = calls[i].srv
    BY <1>b DEF Call
  <2>2. calls' = [calls EXCEPT ![i] = c] /\ UNCHANGED <<batteryVars, lockq, up>>
    BY <1>3 DEF ClientTimesOut
  <2> HIDE DEF c
  <2> QED
    BY <1>a, <2>1, <2>2, OneCallMoves DEF DownIsIdle, TypeOK
<1>4. ASSUME NEW i \in DOMAIN calls, Authorize(i) PROVE IInv'
  <2>a. up /\ UNCHANGED <<batteryVars, up>> /\ up' = up
    BY <1>a, <1>4 DEF Authorize, DownIsIdle, TypeOK
  <2>1. CASE /\ calls' = [calls EXCEPT ![i].srv = "queued", ![i].granted = TRUE]
             /\ lockq' = Append(lockq, i)
    <3> DEFINE c == [calls[i] EXCEPT !.srv = "queued", !.granted = TRUE]
    <3>1. c \in Call /\ c.granted
      BY <1>b DEF Call
    <3>2. calls' = [calls EXCEPT ![i] = c]
      BY <2>1
    <3> HIDE DEF c
    <3>3. /\ calls' \in [DOMAIN calls -> Call]
          /\ \A j \in DOMAIN calls : calls'[j] = IF j = i THEN c ELSE calls[j]
      BY <1>b, <3>1, <3>2
    <3>4. calls' \in Seq(Call) /\ DOMAIN calls' = DOMAIN calls
      BY <1>a, <3>3, SameShape DEF TypeOK
    <3>5. /\ lockq' \in Seq(Nat) /\ DOMAIN lockq' = DOMAIN lockq \cup {Len(lockq) + 1}
          /\ lockq'[Len(lockq) + 1] = i /\ \A j \in DOMAIN lockq : lockq'[j] = lockq[j]
      BY <1>a, <1>b, <2>1 DEF TypeOK
    <3> QED
      BY <1>a, <2>a, <3>1, <3>3, <3>4, <3>5, CallsMove DEF WritersAreGranted, Granted
  <2>2. CASE NotAuthorized(i) /\ UNCHANGED lockq
    <3>1. PICK c \in Call : /\ calls' = [calls EXCEPT ![i] = c]
                            /\ c.granted = calls[i].granted /\ c.srv = "over"
      BY <1>a, <2>2, ReplyIsACall DEF NotAuthorized
    <3> QED
      BY <2>a, <2>2, <3>1, OneCallMoves
  <2> QED
    BY <1>4, <2>1, <2>2 DEF Authorize
<1>5. CASE LockTaken
  <2> DEFINE i == Head(lockq)
             c == [calls[i] EXCEPT !.srv = "running"]
  <2>1. /\ i \in DOMAIN calls /\ calls[i].granted /\ lockq' \in Seq(Nat) /\ i \in Nat
        /\ \A j \in DOMAIN lockq' : lockq'[j] \in DOMAIN calls /\ calls[lockq'[j]].granted
    BY <1>a, <1>5 DEF LockTaken, TypeOK, WritersAreGranted, Granted
  <2>2. up
    BY <1>a, <1>5 DEF LockTaken, DownIsIdle
  <2>3. c \in Call /\ c.granted = calls[i].granted /\ calls[i].pair \in Pair
    BY <1>b, <2>1 DEF Call, Pair
  <2>4. calls' = [calls EXCEPT ![i] = c] /\ UNCHANGED up
    BY <1>5 DEF LockTaken
  <2>5. /\ uc = Idle /\ uc' \in UseCase /\ uc'.at \in {"cap", "answer"} /\ uc'.by = i
        /\ UNCHANGED <<hw, cfg, pub, wk, told, faults>>
    BY <1>5, <2>1, <2>3, RestingRecords DEF LockTaken, UseCaseBegins, UseCase, Idle
  <2> HIDE DEF c, i
  <2>6. /\ calls' \in [DOMAIN calls -> Call]
        /\ \A j \in DOMAIN calls : calls'[j].granted = calls[j].granted
    BY <1>b, <2>3, <2>4
  <2>7. calls' \in Seq(Call) /\ DOMAIN calls' = DOMAIN calls
    BY <1>a, <2>6, SameShape DEF TypeOK
  <2>8. TypeOK'
    BY <1>a, <2>1, <2>4, <2>5, <2>7 DEF TypeOK
  <2>9. WritersAreGranted' /\ DownIsIdle'
    BY <1>a, <2>1, <2>2, <2>4, <2>5, <2>6, <2>7 DEF WritersAreGranted, DownIsIdle, Granted
  <2> QED
    BY <1>a, <2>5, <2>8, <2>9, RestingRecords
       DEF IInv, OrderFits, WorkerAndUseCase, Agreement, Faithful
<1>6. CASE UseCaseAnswered
  <2>1. /\ uc.at = "answer" /\ uc.by \in DOMAIN calls /\ Replies(uc.by) /\ uc' = Idle /\ up
        /\ UNCHANGED <<hw, cfg, pub, wk, told, faults, lockq, up>>
    BY <1>a, <1>6 DEF UseCaseAnswered, WritersAreGranted, Granted, DownIsIdle
  <2>2. PICK c \in Call : /\ calls' = [calls EXCEPT ![uc.by] = c]
                          /\ c.granted = calls[uc.by].granted /\ c.srv = "over"
    BY <1>a, <2>1, ReplyIsACall
  <2>3. /\ calls' \in [DOMAIN calls -> Call]
        /\ \A j \in DOMAIN calls : calls'[j].granted = calls[j].granted
    BY <1>b, <2>1, <2>2
  <2>4. calls' \in Seq(Call) /\ DOMAIN calls' = DOMAIN calls
    BY <1>a, <2>3, SameShape DEF TypeOK
  <2>5. TypeOK'
    BY <1>a, <2>1, <2>4, RestingRecords DEF TypeOK
  <2>6. WritersAreGranted' /\ DownIsIdle'
    BY <1>a, <2>1, <2>3, <2>4, RestingRecords DEF WritersAreGranted, DownIsIdle, Granted
  <2> QED
    BY <1>a, <2>1, <2>5, <2>6, RestingRecords
       DEF IInv, OrderFits, WorkerAndUseCase, Agreement, Faithful
<1>7. CASE ServiceStep
  BY <1>7, WorkerKeeps, UseCaseKeeps DEF ServiceStep
<1>8. CASE up /\ (WriteTimesOut \/ RefreshLoop) /\ UNCHANGED <<callVars, up, crashes>>
  BY <1>8, UseCaseKeeps
<1>9. CASE LinkBreaks \/ WorkerConnects
  <2>1. UNCHANGED <<batteryVars, calls, lockq, up>>
    BY <1>9 DEF LinkBreaks, WorkerConnects
  <2> QED
    BY <1>a, <2>1, CallsMove DEF TypeOK, WritersAreGranted, DownIsIdle, Granted
<1>10. CASE WorkerReconnects
  <2>1. UNCHANGED <<batteryVars, lockq, up>>
    BY <1>10 DEF WorkerReconnects
  <2>2. calls' \in [DOMAIN calls -> Call]
        /\ \A j \in DOMAIN calls : calls'[j].granted = calls[j].granted /\ calls'[j].srv = calls[j].srv
    <3> DEFINE Waiting == {i \in DOMAIN calls : calls[i].task = "waiting"}
    <3>1. PICK gone \in SUBSET {i \in DOMAIN calls : calls[i].task = "created"} :
               calls' = [i \in DOMAIN calls |->
                            CASE i \in Waiting -> [calls[i] EXCEPT !.task = "over"]
                              [] i \in gone -> [calls[i] EXCEPT !.task = "vanished"]
                              [] OTHER -> calls[i]]
      BY <1>10 DEF WorkerReconnects, CancelTasks
    <3>2. ASSUME NEW j \in DOMAIN calls
          PROVE  calls'[j] \in {[calls[j] EXCEPT !.task = "over"],
                                [calls[j] EXCEPT !.task = "vanished"], calls[j]}
      BY <3>1
    <3>3. ASSUME NEW j \in DOMAIN calls
          PROVE  /\ calls'[j] \in Call
                 /\ calls'[j].granted = calls[j].granted /\ calls'[j].srv = calls[j].srv
      BY <1>b, <3>2 DEF Call
    <3> QED
      BY <3>1, <3>3
  <2>3. calls' \in Seq(Call) /\ DOMAIN calls' = DOMAIN calls
    BY <1>a, <2>2, SameShape DEF TypeOK
  <2> QED
    BY <1>a, <2>1, <2>2, <2>3, CallsMove DEF TypeOK, WritersAreGranted, DownIsIdle, Granted
<1>11. CASE Crash
  <2>1. /\ up /\ up' = FALSE /\ lockq' = <<>> /\ uc' = Idle /\ wk' = IdleWorker
        /\ pub' = [pair |-> NoPair, fresh |-> FALSE] /\ UNCHANGED <<hw, cfg, faults>>
    BY <1>11 DEF Crash
  <2>2. told' \in BOOLEAN /\ (~told' => ~told /\ wk.at \in {"idle", "reading"} /\ uc.at # "save")
    BY <1>11, Zenon DEF Crash
  <2>3. ASSUME NEW j \in DOMAIN calls
        PROVE  calls'[j] \in Call /\ calls'[j].srv # "auth"
    BY <1>b, <1>11 DEF Crash, Call
  <2>4. calls' \in [DOMAIN calls -> Call]
    BY <1>11, <2>3 DEF Crash
  <2>5. calls' \in Seq(Call) /\ DOMAIN calls' = DOMAIN calls
    BY <1>a, <2>4, SameShape DEF TypeOK
  <2>6. pub' \in [pair : Pair, fresh : BOOLEAN] /\ ~pub'.fresh
    BY <2>1, RestingRecords
  <2>7. TypeOK'
    <3>1. lockq' \in Seq(Nat)
      BY <2>1
    <3> QED
      BY <1>a, <2>1, <2>2, <2>5, <2>6, <3>1, RestingRecords DEF TypeOK
  <2>8. ~told' => hw = cfg
    BY <1>a, <2>2 DEF Agreement, Faithful, WorkerAndUseCase, TypeOK, UseCase
  <2> QED
    BY <1>a, <2>1, <2>3, <2>5, <2>6, <2>7, <2>8, RestingRecords
       DEF IInv, OrderFits, WritersAreGranted, DownIsIdle, WorkerAndUseCase, Agreement, Faithful
<1>12. CASE Boot
  <2>1. ~up /\ up' = TRUE /\ UNCHANGED <<hw, cfg, wk, uc, told, calls, lockq>>
    BY <1>12 DEF Boot, callVars
  <2>2. /\ pub' \in [pair : Pair, fresh : BOOLEAN] /\ faults' \in Nat
        /\ pub' = pub \/ pub'.pair \in {hw, NoPair}
    <3>1. CASE pub' = [pair |-> hw, fresh |-> TRUE] /\ UNCHANGED faults
      BY <1>a, <3>1 DEF TypeOK
    <3>2. CASE Fault /\ pub' = pub
      BY <1>a, <3>2 DEF TypeOK, Fault
    <3>3. CASE Fault /\ pub' = [pair |-> NoPair, fresh |-> TRUE]
      BY <1>a, <3>3, RestingRecords DEF TypeOK, Fault
    <3> QED
      BY <1>12, <3>1, <3>2, <3>3 DEF Boot
  <2>3. TypeOK'
    BY <1>a, <2>1, <2>2 DEF TypeOK
  <2> QED
    BY <1>a, <2>1, <2>2, <2>3
       DEF IInv, OrderFits, WritersAreGranted, DownIsIdle, WorkerAndUseCase, Agreement, Faithful,
           Granted
<1>13. CASE UNCHANGED vars
  BY <1>a, <1>13, CallsMove
     DEF vars, callVars, TypeOK, WritersAreGranted, DownIsIdle, Granted
<1> QED
  BY <1>1, <1>2, <1>3, <1>4, <1>5, <1>6, <1>7, <1>8, <1>9, <1>10, <1>11, <1>12, <1>13
     DEF Next, TaskStep, HandlerStep
-----------------------------------------------------------------------------
(* Theorems.                                                               *)

\* The inductive invariant of calls, use case and worker.
THEOREM CallsInvariant == Spec => []IInv
  BY CallsInit, CallsStep, PTL DEF Spec

\* Types of the service's and the window's state.
THEOREM CallsTypeOK == Spec => []TypeOK
  BY CallsInvariant, PTL DEF IInv

\* Between use cases hardware, configuration and snapshot agree, or a caller
\* was told, whatever timed out, failed or crashed on the way.
THEOREM CallsReportDivergence == Spec => []DivergenceIsReported
<1>1. IInv => DivergenceIsReported
  BY RestingRecords DEF IInv, Agreement, Faithful, DivergenceIsReported
<1> QED
  BY <1>1, CallsInvariant, PTL

\* The threshold files change in a write of the worker, the configuration in
\* the save of the use case, and neither changes anywhere else.
LEMMA OnlyTwoWrite ==
  ASSUME [Next]_vars
  PROVE  \/ UNCHANGED <<hw, cfg>>
         \/ WorkerWrites /\ UNCHANGED cfg
         \/ Saves /\ UNCHANGED hw
<1>1. CASE TaskStep \/ HandlerStep \/ (\E p \in Pairs : GuiCalls(p)) \/ LinkBreaks
           \/ WorkerReconnects \/ WorkerConnects \/ (\E i \in DOMAIN calls : ClientTimesOut(i))
  BY <1>1 DEF GuiCalls, TaskStep, TaskStarts, HandlerStep, Authorize, LockTaken, UseCaseBegins,
              UseCaseAnswered, LinkBreaks, WorkerReconnects, WorkerConnects, ClientTimesOut,
              batteryVars
<1>2. CASE ServiceStep
  <2>1. CASE WorkerStep
    BY <2>1 DEF WorkerStep, WorkerOrders, WorkerReadsBack, WorkerReturns
  <2>2. CASE UseCaseStep
    BY <2>2 DEF UseCaseStep, CapabilityRead, WriteAnswered, Saves, RollbackAnswered,
                UseCaseRefreshes, RefreshBattery
  <2> QED
    BY <1>2, <2>1, <2>2 DEF ServiceStep
<1>3. CASE WriteTimesOut \/ RefreshLoop \/ Crash \/ Boot
  BY <1>3 DEF WriteTimesOut, RefreshLoop, RefreshBattery, Crash, Boot
<1> QED
  BY <1>1, <1>2, <1>3 DEF Next, vars, batteryVars

\* No write of a pair, a rollback or an abandoned call puts the start above the
\* end, as long as the worker knows what is in the files.
THEOREM CallsKeepThresholdsOrdered == Spec => ThresholdsStayOrdered
<1> DEFINE Ordered == hw.start <= hw.end /\ wk.pair.start <= wk.pair.end /\ ~wk.blind
                        => hw'.start <= hw'.end
<1>1. ASSUME IInv, [Next]_vars PROVE [Ordered]_batteryVars
  <2>a. TypeOK /\ OrderFits
    BY <1>1 DEF IInv
  <2>1. CASE UNCHANGED hw
    BY <2>1
  <2>2. CASE WorkerWrites /\ ~UNCHANGED hw
    <3> DEFINE field == Head(wk.todo)
    <3>1. /\ wk.at = "write" /\ wk.todo \in Orders \ {<<>>}
          /\ hw' = [hw EXCEPT ![field] = wk.pair[field]]
      BY <2>a, <2>2 DEF WorkerWrites, TypeOK, Worker
    <3>2. hw \in Pair /\ wk.pair \in Pair
      BY <2>a DEF TypeOK, Worker
    <3>3. CASE wk.todo = <<"end", "start">> \/ wk.todo = <<"end">>
      <4>1. hw'.end = wk.pair.end /\ hw'.start = hw.start
        BY <3>1, <3>2, <3>3, OrdersShrink DEF Pair
      <4> QED
        BY <2>a, <3>1, <3>2, <3>3, <4>1 DEF OrderFits, Pair
    <3>4. CASE wk.todo = <<"start", "end">> \/ wk.todo = <<"start">>
      <4>1. hw'.start = wk.pair.start /\ hw'.end = hw.end
        BY <3>1, <3>2, <3>4, OrdersShrink DEF Pair
      <4> QED
        BY <2>a, <3>1, <3>2, <3>4, <4>1 DEF OrderFits, Pair
    <3> QED
      BY <3>1, <3>3, <3>4 DEF Orders
  <2> QED
    BY <1>1, <2>1, <2>2, OnlyTwoWrite DEF batteryVars
<1> QED
  BY <1>1, CallsInvariant, PTL DEF Spec, ThresholdsStayOrdered

\* What is written, is written for a call that polkit granted.
THEOREM CallsFailClosed == Spec => OnlyGrantedCallsWrite
<1> DEFINE Allowed == /\ hw' # hw => wk.by \in DOMAIN calls /\ calls[wk.by].granted
                      /\ cfg' # cfg => uc.by \in DOMAIN calls /\ calls[uc.by].granted
<1>1. ASSUME IInv, [Next]_vars PROVE [Allowed]_vars
  <2>a. WritersAreGranted
    BY <1>1 DEF IInv
  <2>1. CASE WorkerWrites /\ UNCHANGED cfg
    BY <2>a, <2>1 DEF WorkerWrites, WritersAreGranted, Granted
  <2>2. CASE Saves /\ UNCHANGED hw
    BY <2>a, <2>2 DEF Saves, WritersAreGranted, Granted
  <2>3. CASE UNCHANGED <<hw, cfg>>
    BY <2>3
  <2> QED
    BY <1>1, <2>1, <2>2, <2>3, OnlyTwoWrite
<1> QED
  BY <1>1, CallsInvariant, PTL DEF Spec, OnlyGrantedCallsWrite
=============================================================================
