--------------------- MODULE HardwareCommandQueueProofs ---------------------
(***************************************************************************)
(* Proofs about the hardware command queue, for every set of callers and   *)
(* every number of items.                                                  *)
(***************************************************************************)
EXTENDS HardwareCommandQueue, SequenceTheorems, TLAPS

\* The cursors of the log are ordered and the thread runs one item at a time.
Cursors ==
    /\ delivered <= returned
    /\ returned <= taken
    /\ taken <= returned + 1
    /\ taken <= Len(items)

\* The task inside the lock put the last item, and all before it are done.
HolderOwnsLast ==
    holder # NoCaller =>
        /\ Len(items) > 0
        /\ items[Len(items)].kind = "command"
        /\ items[Len(items)].owner = holder
        /\ Len(items) <= delivered + 1

\* At most a command and its own recovery are not done.
OutstandingShape ==
    \A i \in (delivered + 1)..Len(items) :
        i < Len(items) =>
            /\ i + 1 = Len(items)
            /\ items[i].kind = "command"
            /\ items[i + 1].kind = "recovery"
            /\ items[i + 1].owner = items[i].owner

\* A call that was given up with nothing behind it had named no recovery.
BareAbandonedIsUnsafe ==
    holder = NoCaller /\ delivered < Len(items) /\ items[Len(items)].kind = "command"
        => ~items[Len(items)].safe

\* The inductive strengthening of the safety invariants.
IInv ==
    /\ TypeOK
    /\ Cursors
    /\ HolderOwnsLast
    /\ OutstandingShape
    /\ BareAbandonedIsUnsafe
    /\ PoisonCoversUnfinished

-----------------------------------------------------------------------------
\* Removing a waiter leaves a sequence of calls.
LEMMA RemoveWaiterType ==
    ASSUME NEW S, NEW s \in Seq(S), NEW i \in 1..Len(s)
    PROVE  SubSeq(s, 1, i - 1) \o SubSeq(s, i + 1, Len(s)) \in Seq(S)
<1>1. SubSeq(s, 1, i - 1) \in Seq(S)
  OBVIOUS
<1>2. SubSeq(s, i + 1, Len(s)) \in Seq(S)
  OBVIOUS
<1> QED
  BY <1>1, <1>2

\* The queue is created with nothing outstanding.
LEMMA InitIInv == Init => IInv
<1> SUFFICES ASSUME Init PROVE IInv
  OBVIOUS
<1>1. items \in Seq(Item) /\ waiters \in Seq(CallOf)
  BY DEF Init
<1>2. closed \in BOOLEAN
  BY Zenon DEF Init
<1>3. TypeOK
  BY <1>1, <1>2 DEF Init, TypeOK
<1>4. Len(items) = 0
  BY DEF Init
<1> QED
  BY <1>3, <1>4 DEF Init, IInv, Cursors, HolderOwnsLast, OutstandingShape,
                    BareAbandonedIsUnsafe, PoisonCoversUnfinished

\* Every step keeps the types.
LEMMA TypeStep == TypeOK /\ [Next]_vars => TypeOK'
<1> SUFFICES ASSUME TypeOK, [Next]_vars PROVE TypeOK'
  OBVIOUS
<1>1. ASSUME NEW c \in Callers, NEW safe \in BOOLEAN, Call(c, safe)
      PROVE  TypeOK'
  <2>1. [task |-> c, safe |-> safe] \in CallOf
    BY DEF CallOf
  <2> QED
    BY <1>1, <2>1 DEF TypeOK, Call, workerVars
<1>2. ASSUME NEW c \in Callers, RejectClosed(c) \/ RejectBusy(c)
      PROVE  TypeOK'
  <2>1. Tail(waiters) \in Seq(CallOf)
    BY <1>2 DEF TypeOK, RejectClosed, RejectBusy, Acquires
  <2> QED
    BY <1>2, <2>1 DEF TypeOK, RejectClosed, RejectBusy, workerVars
<1>3. ASSUME NEW c \in Callers, Admit(c)
      PROVE  TypeOK'
  <2>0. Head(waiters) \in CallOf
    BY <1>3 DEF TypeOK, Admit, Acquires
  <2>1. Head(waiters).safe \in BOOLEAN
    BY <2>0 DEF CallOf
  <2>2. [kind |-> "command", owner |-> c, safe |-> Head(waiters).safe] \in Item
    BY <2>1 DEF Item
  <2>3. Tail(waiters) \in Seq(CallOf)
    BY <1>3 DEF TypeOK, Admit, Acquires
  <2> QED
    BY <1>3, <2>2, <2>3 DEF TypeOK, Admit, workerVars
<1>4. ASSUME NEW c \in Callers, Complete(c)
      PROVE  TypeOK'
  BY <1>4 DEF TypeOK, Complete, workerVars
<1>5. ASSUME NEW c \in Callers, Abandon(c)
      PROVE  TypeOK'
  <2>1. [kind |-> "recovery", owner |-> c, safe |-> TRUE] \in Item
    BY DEF Item
  <2>2. items' \in Seq(Item) /\ timedOut' \in Nat
    BY <1>5, <2>1 DEF TypeOK, Abandon
  <2> QED
    BY <1>5, <2>2 DEF TypeOK, Abandon, workerVars
<1>6. ASSUME NEW c \in Callers, CancelLocking(c)
      PROVE  TypeOK'
  <2>1. waiters' \in Seq(CallOf)
    BY <1>6, RemoveWaiterType DEF TypeOK, CancelLocking
  <2> QED
    BY <1>6, <2>1 DEF TypeOK, CancelLocking, workerVars
<1>7. CASE Take \/ Return \/ Deliver
  BY <1>7 DEF TypeOK, Take, Return, Deliver
<1>8. CASE Shutdown
  BY <1>8 DEF TypeOK, Shutdown, workerVars
<1>9. CASE UNCHANGED vars
  BY <1>9 DEF TypeOK, vars
<1> QED
  BY <1>1, <1>2, <1>3, <1>4, <1>5, <1>6, <1>7, <1>8, <1>9
     DEF Next, RunStep, Timeout, RaiseTimeoutError, CancelPolling

-----------------------------------------------------------------------------
\* Admission: the lock is free and the poison test passed, so every earlier
\* item is done and the new one is the only one outstanding.
LEMMA AdmitStep ==
    ASSUME IInv, TypeOK', NEW c \in Callers, Admit(c)
    PROVE  IInv'
<1> DEFINE new == [kind |-> "command", owner |-> c, safe |-> Head(waiters).safe]
           n == Len(items)
<1>1. n \in Nat /\ n <= delivered
  BY DEF IInv, TypeOK, Admit, Acquires, Poisoned, Done, PoisonCoversUnfinished
<1>2. items' = Append(items, new) /\ Len(items') = n + 1 /\ items'[n + 1] = new
  BY DEF Admit, IInv, TypeOK
<1>3. holder' = c /\ c # NoCaller /\ UNCHANGED <<taken, returned, delivered>>
  BY CallersAssumption DEF Admit, workerVars
<1>4. Cursors' /\ HolderOwnsLast' /\ OutstandingShape' /\ BareAbandonedIsUnsafe'
      /\ PoisonCoversUnfinished'
  <2> HIDE DEF n
  <2> QED
    BY <1>1, <1>2, <1>3 DEF IInv, TypeOK, Cursors, HolderOwnsLast, OutstandingShape,
       BareAbandonedIsUnsafe, PoisonCoversUnfinished, n
<1> QED
  BY <1>4 DEF IInv

\* Giving a call up: the poison covers the last item put, and a call that
\* named a recovery has it directly behind.
LEMMA AbandonStep ==
    ASSUME IInv, TypeOK', NEW c \in Callers, holder = c, Abandon(c)
    PROVE  IInv'
<1> DEFINE new == [kind |-> "recovery", owner |-> c, safe |-> TRUE]
           n == Len(items)
<1>1. c # NoCaller
  BY CallersAssumption
<1>2. /\ n \in Nat \ {0} /\ n <= delivered + 1
      /\ items[n].kind = "command" /\ items[n].owner = c
  BY <1>1 DEF IInv, TypeOK, HolderOwnsLast
<1>3. holder' = NoCaller /\ UNCHANGED <<taken, returned, delivered>> /\ timedOut' = Len(items')
  BY DEF Abandon, workerVars
<1>4. CASE items[n].safe
  <2>1. /\ Len(items') = n + 1 /\ items'[n + 1] = new
        /\ \A i \in 1..n : items'[i] = items[i]
    BY <1>4 DEF Abandon, Mine, IInv, TypeOK
  <2> HIDE DEF n
  <2>2. Cursors' /\ HolderOwnsLast' /\ BareAbandonedIsUnsafe' /\ PoisonCoversUnfinished'
    BY <1>2, <1>3, <2>1 DEF IInv, TypeOK, Cursors, HolderOwnsLast,
       BareAbandonedIsUnsafe, PoisonCoversUnfinished, n
  <2>3. OutstandingShape'
    BY <1>2, <1>3, <2>1 DEF IInv, TypeOK, OutstandingShape
  <2> QED
    BY <2>2, <2>3 DEF IInv
<1>5. CASE ~items[n].safe
  <2>1. items' = items
    BY <1>5 DEF Abandon, Mine
  <2> QED
    BY <1>2, <1>3, <1>5, <2>1 DEF IInv, TypeOK, Cursors, HolderOwnsLast,
       OutstandingShape, BareAbandonedIsUnsafe, PoisonCoversUnfinished
<1> QED
  BY <1>4, <1>5

\* Every step of the queue preserves the inductive invariant.
LEMMA IInvStep == IInv /\ [Next]_vars => IInv'
<1> SUFFICES ASSUME IInv, [Next]_vars PROVE IInv'
  OBVIOUS
<1> TypeOK'
  BY TypeStep DEF IInv
<1> USE DEF Cursors, HolderOwnsLast, OutstandingShape, BareAbandonedIsUnsafe,
            PoisonCoversUnfinished
<1>1. ASSUME NEW c \in Callers,
             \/ \E safe \in BOOLEAN : Call(c, safe)
             \/ RejectClosed(c) \/ RejectBusy(c) \/ CancelLocking(c)
      PROVE  IInv'
  <2>1. UNCHANGED <<items, taken, returned, delivered, holder, timedOut>>
    BY <1>1 DEF Call, RejectClosed, RejectBusy, CancelLocking, workerVars
  <2> QED
    BY <2>1 DEF IInv
<1>2. ASSUME NEW c \in Callers, Admit(c)
      PROVE  IInv'
  BY <1>2, AdmitStep
<1>3. ASSUME NEW c \in Callers, Complete(c)
      PROVE  IInv'
  BY <1>3 DEF Complete, Done, Mine, IInv, TypeOK, workerVars
<1>4. ASSUME NEW c \in Callers, holder = c, Abandon(c)
      PROVE  IInv'
  BY <1>4, AbandonStep
<1>5. CASE Take
  BY <1>5 DEF Take, IInv, TypeOK
<1>6. CASE Return
  BY <1>6 DEF Return, IInv, TypeOK
<1>7. CASE Deliver
  BY <1>7 DEF Deliver, IInv, TypeOK
<1>8. CASE Shutdown
  BY <1>8 DEF Shutdown, IInv, workerVars
<1>9. CASE UNCHANGED vars
  BY <1>9 DEF vars, IInv
<1> QED
  BY <1>1, <1>2, <1>3, <1>4, <1>5, <1>6, <1>7, <1>8, <1>9
     DEF Next, RunStep, Timeout, RaiseTimeoutError, CancelPolling

\* The inductive invariant holds throughout.
THEOREM QueueInvariant == Spec => []IInv
<1> QED
  BY InitIInv, IInvStep, PTL DEF Spec

\* Every variable keeps its type.
THEOREM QueueTypeOK == Spec => []TypeOK
<1>1. IInv => TypeOK
  BY DEF IInv
<1> QED
  BY <1>1, QueueInvariant, PTL

\* Two hardware commands are never outstanding at once, for any number of
\* callers, timeouts, cancellations and a shutdown at any point.
THEOREM QueueSerializes == Spec => []OneOutstandingCommand
<1>1. IInv => OneOutstandingCommand
  <2> SUFFICES ASSUME IInv,
                      NEW i \in (returned + 1)..Len(items),
                      NEW j \in (returned + 1)..Len(items),
                      items[i].kind = "command", items[j].kind = "command"
               PROVE  i = j
    BY DEF OneOutstandingCommand
  <2> QED
    BY DEF IInv, TypeOK, Cursors, OutstandingShape
<1> QED
  BY <1>1, QueueInvariant, PTL

\* A safety call that was given up has its own recovery as the next item.
THEOREM QueueReservesRecovery == Spec => []AbandonedHasRecovery
<1>1. IInv => AbandonedHasRecovery
  <2> SUFFICES ASSUME IInv,
                      NEW i \in (delivered + 1)..Len(items),
                      items[i].kind = "command", items[i].safe,
                      ~(i = Mine /\ holder = items[i].owner)
               PROVE  /\ i < Len(items)
                      /\ items[i + 1].kind = "recovery"
                      /\ items[i + 1].owner = items[i].owner
    BY DEF AbandonedHasRecovery
  <2>1. CASE i < Len(items)
    BY <2>1 DEF IInv, OutstandingShape
  <2>2. CASE i = Len(items)
    BY <2>2 DEF IInv, TypeOK, HolderOwnsLast, BareAbandonedIsUnsafe, Mine
  <2> QED
    BY <2>1, <2>2 DEF IInv, TypeOK
<1> QED
  BY <1>1, QueueInvariant, PTL

\* With the lock free, unfinished work always poisons the queue.
THEOREM QueuePoisonCovers == Spec => []PoisonCoversUnfinished
<1>1. IInv => PoisonCoversUnfinished
  BY DEF IInv
<1> QED
  BY <1>1, QueueInvariant, PTL

-----------------------------------------------------------------------------
\* The kinds of the items behind the first r, as a sequence.
LEMMA KindsBehind ==
    ASSUME NEW log \in Seq(Item), NEW r \in Nat, r <= Len(log),
           NEW out, out = [k \in 1..(Len(log) - r) |-> log[r + k].kind]
    PROVE  /\ out \in Seq({"command", "recovery"})
           /\ Len(out) = Len(log) - r
           /\ \A k \in 1..(Len(log) - r) : out[k] = log[r + k].kind
<1>1. Len(log) - r \in Nat
  OBVIOUS
<1>2. ASSUME NEW k \in 1..(Len(log) - r)
      PROVE  log[r + k].kind \in {"command", "recovery"}
  <2>1. r + k \in 1..Len(log)
    OBVIOUS
  <2>2. log[r + k] \in Item
    BY <2>1
  <2> QED
    BY <2>2 DEF Item
<1> QED
  BY <1>1, <1>2

\* A short sequence of kinds is the tuple of its elements.
LEMMA ShortSeqs ==
    ASSUME NEW s \in Seq({"command", "recovery"})
    PROVE  /\ Len(s) = 0 => s = <<>>
           /\ Len(s) = 1 => s = <<s[1]>>
           /\ Len(s) = 2 => s = <<s[1], s[2]>>
  OBVIOUS

\* Outstanding is the kinds behind `returned`, in a state with the invariant.
LEMMA OutstandingNow ==
    ASSUME IInv
    PROVE  /\ Outstanding \in Seq({"command", "recovery"})
           /\ Len(Outstanding) = Len(items) - returned
           /\ \A k \in 1..(Len(items) - returned) : Outstanding[k] = items[returned + k].kind
<1>1. items \in Seq(Item) /\ returned \in Nat /\ returned <= Len(items)
  BY DEF IInv, TypeOK, Cursors
<1> QED
  BY <1>1, KindsBehind, Zenon DEF Outstanding

\* And so it is after a step that keeps the invariant.
LEMMA OutstandingNext ==
    ASSUME IInv'
    PROVE  /\ Outstanding' \in Seq({"command", "recovery"})
           /\ Len(Outstanding') = Len(items') - returned'
           /\ \A k \in 1..(Len(items') - returned') :
                  Outstanding'[k] = items'[returned' + k].kind
<1>1. items' \in Seq(Item) /\ returned' \in Nat /\ returned' <= Len(items')
  BY DEF IInv, TypeOK, Cursors
<1> QED
  BY <1>1, KindsBehind, Zenon DEF Outstanding

\* The queue implements the serial discipline: the hardware is shown one
\* command at a time and recoveries directly behind their command.
THEOREM QueueImplementsSerial == Spec => ImplementsSerialHardware
<1>1. Init => Serial!Init
  <2> SUFFICES ASSUME Init PROVE Outstanding = <<>>
    BY DEF Serial!Init
  <2>1. Len(items) = 0 /\ returned = 0
    BY DEF Init
  <2>2. IInv
    BY InitIInv
  <2> QED
    BY <2>1, <2>2, OutstandingNow, ShortSeqs
<1>2. IInv /\ IInv' /\ [Next]_vars => [Serial!Next]_Outstanding
  <2> SUFFICES ASSUME IInv, IInv', [Next]_vars
               PROVE  [Serial!Next]_Outstanding
    OBVIOUS
  <2> USE DEF Serial!Next
  <2>1. ASSUME UNCHANGED <<items, returned>>
        PROVE  UNCHANGED Outstanding
    BY <2>1 DEF Outstanding
  <2>2. ASSUME NEW c \in Callers, Admit(c)
        PROVE  Serial!Begin
    <3>1. Len(items) = returned /\ returned \in Nat
      BY <2>2 DEF IInv, TypeOK, Cursors, Admit, Acquires, Poisoned, Done, PoisonCoversUnfinished
    <3>2. returned' = returned /\ Len(items') = returned + 1
          /\ items'[returned + 1].kind = "command"
      BY <2>2, <3>1 DEF Admit, IInv, TypeOK, workerVars
    <3>3. Outstanding = <<>>
      BY <3>1, OutstandingNow, ShortSeqs
    <3>4. Outstanding' = <<"command">>
      <4>1. Len(Outstanding') = 1 /\ Outstanding'[1] = "command"
        BY <3>1, <3>2, OutstandingNext
      <4> QED
        BY <4>1, OutstandingNext, ShortSeqs
    <3> QED
      BY <3>3, <3>4 DEF Serial!Begin
  <2>3. ASSUME NEW c \in Callers, holder = c, Abandon(c)
        PROVE  Serial!Reserve \/ UNCHANGED Outstanding
    <3> DEFINE n == Len(items)
    <3>1. /\ n \in Nat \ {0} /\ items[n].kind = "command" /\ returned' = returned
          /\ returned \in Nat /\ returned <= n /\ n <= returned + 1
      BY <2>3, CallersAssumption DEF IInv, TypeOK, HolderOwnsLast, Cursors, Abandon, workerVars
    <3>2. CASE ~items[n].safe
      BY <2>1, <2>3, <3>1, <3>2 DEF Abandon, Mine
    <3>3. CASE items[n].safe
      <4>1. /\ Len(items') = n + 1 /\ items'[n + 1].kind = "recovery"
            /\ items'[n].kind = "command"
        BY <2>3, <3>1, <3>3 DEF Abandon, Mine, IInv, TypeOK
      <4> HIDE DEF n
      <4>2. CASE n = returned
        <5>1. Outstanding = <<>>
          BY <3>1, <4>2, OutstandingNow, ShortSeqs DEF n
        <5>2. Len(Outstanding') = 1 /\ Outstanding'[1] = "recovery"
          BY <3>1, <4>1, <4>2, OutstandingNext
        <5>3. Outstanding' = <<"recovery">>
          BY <5>2, OutstandingNext, ShortSeqs
        <5> QED
          BY <5>1, <5>3 DEF Serial!Reserve
      <4>3. CASE n = returned + 1
        <5>1. Len(Outstanding) = 1 /\ Outstanding[1] = "command"
          BY <3>1, <4>3, OutstandingNow DEF n
        <5>2. Len(Outstanding') = 2 /\ Outstanding'[1] = "command"
              /\ Outstanding'[2] = "recovery"
          BY <3>1, <4>1, <4>3, OutstandingNext
        <5>3. Outstanding = <<"command">>
          BY <5>1, OutstandingNow, ShortSeqs
        <5>4. Outstanding' = <<"command", "recovery">>
          BY <5>2, OutstandingNext, ShortSeqs
        <5> QED
          BY <5>3, <5>4 DEF Serial!Reserve
      <4> QED
        BY <3>1, <4>2, <4>3
    <3> QED
      BY <3>2, <3>3
  <2>4. CASE Return
    <3>1. /\ items' = items /\ returned' = returned + 1 /\ returned \in Nat
          /\ Len(items) \in Nat /\ returned < Len(items)
      BY <2>4 DEF Return, IInv, TypeOK, Cursors
    <3>2. Outstanding # <<>>
      BY <3>1, OutstandingNow
    <3>3. /\ Tail(Outstanding) \in Seq({"command", "recovery"})
          /\ Len(Tail(Outstanding)) = Len(items) - returned - 1
          /\ \A k \in 1..(Len(items) - returned - 1) :
                 Tail(Outstanding)[k] = items[returned + 1 + k].kind
      BY <3>1, <3>2, OutstandingNow
    <3>4. /\ Outstanding' \in Seq({"command", "recovery"})
          /\ Len(Outstanding') = Len(Tail(Outstanding))
          /\ \A k \in 1..Len(Outstanding') : Outstanding'[k] = Tail(Outstanding)[k]
      <4> DEFINE m == Len(items) - returned - 1
      <4>1. m \in Nat /\ Len(items') - returned' = m
        BY <3>1
      <4>2. \A k \in 1..m : returned' + k = returned + 1 + k
        BY <3>1
      <4>3. Len(Outstanding') = m /\ Outstanding' \in Seq({"command", "recovery"})
        BY <4>1, OutstandingNext
      <4>4. ASSUME NEW k \in 1..m PROVE Outstanding'[k] = Tail(Outstanding)[k]
        <5>1. Outstanding'[k] = items'[returned' + k].kind
          BY <4>1, OutstandingNext
        <5> QED
          BY <3>1, <3>3, <4>2, <5>1
      <4> QED
        BY <3>3, <4>3, <4>4
    <3>5. Outstanding' = Tail(Outstanding)
      BY <3>3, <3>4, SeqEqual
    <3> QED
      BY <3>2, <3>5 DEF Serial!Finish
  <2>5. ASSUME NEW c \in Callers,
               \/ \E safe \in BOOLEAN : Call(c, safe)
               \/ RejectClosed(c) \/ RejectBusy(c) \/ CancelLocking(c) \/ Complete(c)
        PROVE  UNCHANGED Outstanding
    BY <2>1, <2>5 DEF Call, RejectClosed, RejectBusy, CancelLocking, Complete, workerVars
  <2>6. CASE Take \/ Deliver \/ Shutdown \/ UNCHANGED vars
    BY <2>1, <2>6 DEF Take, Deliver, Shutdown, workerVars, vars
  <2> QED
    BY <2>2, <2>3, <2>4, <2>5, <2>6
       DEF Next, RunStep, Timeout, RaiseTimeoutError, CancelPolling
<1> QED
  BY <1>1, <1>2, QueueInvariant, PTL DEF Spec, Serial!Spec, ImplementsSerialHardware
=============================================================================
