--------------------------- MODULE StateSyncProofs ---------------------------
(***************************************************************************)
(* Proofs about StateSync: what the fetches of the coalescing refresh task *)
(* cover, and what it takes for their bound to give a change up, for any   *)
(* number of changes, restarts, timeouts, failed listeners and polls.      *)
(***************************************************************************)
EXTENDS StateSync, SequenceTheorems, TLAPS
-----------------------------------------------------------------------------
(* The inductive invariant.                                                *)

\* A task that fetches has a fetch left, and there is a next run to boot.
CountsOK ==
    /\ task # "none" => left # 0
    /\ svc.run # 0 /\ (~up => svc.run # MaxRuns)

\* There is one call of the refresh task, asked or answered, and it waits.
OneRefresh(c, w) ==
    /\ \A i \in DOMAIN c : c[i] = "refresh" =>
           /\ \A j \in DOMAIN c : c[j] = "refresh" => i = j
           /\ \A j \in DOMAIN w : w[j].to # "refresh"
    /\ \A i, j \in DOMAIN w : w[i].to = "refresh" /\ w[j].to = "refresh" => i = j
NoRefresh(c, w) ==
    /\ \A i \in DOMAIN c : c[i] # "refresh"
    /\ \A i \in DOMAIN w : w[i].to # "refresh"
RefreshOK == OneRefresh(calls, wire) /\ (task # "waiting" => NoRefresh(calls, wire))

\* In the first run nothing is ahead of the service ...
Announced ==
    svc.run = 1 =>
        /\ pending <= svc.seq /\ need <= svc.seq
        /\ \A i \in DOMAIN wire : wire[i].is = "signal" => wire[i].snap.seq <= svc.seq

\* ... and no answer is behind what was asked for.
Answered ==
    svc.run = 1 =>
        \A i \in DOMAIN wire :
            wire[i].to = "refresh" /\ wire[i].is = "snapshot" => wire[i].snap.seq >= need

\* Every fetch of a task but its first was made for a change after the last.
Outrun ==
    svc.run = 1 =>
        /\ task = "ready" => pending + left >= first + MAX_COALESCED_REFRESHES
        /\ task = "waiting" => need + left >= first + MAX_COALESCED_REFRESHES

IInv == TypeOK /\ CountsOK /\ RefreshOK /\ Announced /\ Answered /\ Outrun
-----------------------------------------------------------------------------
(* The calls and the wire.                                                 *)

\* The first call is answered, or its answer given up.
LEMMA AnswerIs ==
  ASSUME NEW c \in Seq(Callers), c # <<>>, NEW w \in Seq(Message), NEW m \in Message, m.to = Head(c),
         OneRefresh(c, w)
  PROVE  /\ Tail(c) \in Seq(Callers) /\ Append(w, m) \in Seq(Message)
         /\ OneRefresh(Tail(c), Append(w, m))
         /\ NoRefresh(c, w) => NoRefresh(Tail(c), Append(w, m))
<1> DEFINE t == Tail(c)
           v == Append(w, m)
<1>1. /\ t \in Seq(Callers) /\ DOMAIN c = 1..Len(c) /\ DOMAIN t = 1..(Len(c) - 1) /\ Len(c) \in Nat
      /\ \A i \in DOMAIN t : i + 1 \in DOMAIN c /\ t[i] = c[i + 1]
      /\ 1 \in DOMAIN c /\ m.to = c[1]
  OBVIOUS
<1>2. /\ v \in Seq(Message) /\ DOMAIN w = 1..Len(w) /\ DOMAIN v = 1..(Len(w) + 1) /\ Len(w) \in Nat
      /\ \A i \in DOMAIN w : v[i] = w[i]
      /\ v[Len(w) + 1] = m
  OBVIOUS
<1> HIDE DEF t, v
<1>3. \A i \in DOMAIN v : i \in DOMAIN w \/ i = Len(w) + 1
  BY <1>2
<1>4. \A i, j \in DOMAIN t : t[i] = "refresh" /\ t[j] = "refresh" => i = j
  <2> SUFFICES ASSUME NEW i \in DOMAIN t, NEW j \in DOMAIN t, t[i] = "refresh", t[j] = "refresh"
               PROVE  i = j
    OBVIOUS
  <2>1. i + 1 = j + 1
    BY <1>1 DEF OneRefresh
  <2> QED
    BY <1>1, <2>1
<1>5. \A i \in DOMAIN t : t[i] = "refresh" => \A j \in DOMAIN v : v[j].to # "refresh"
  <2> SUFFICES ASSUME NEW i \in DOMAIN t, t[i] = "refresh", NEW j \in DOMAIN v
               PROVE  v[j].to # "refresh"
    OBVIOUS
  <2>1. i + 1 \in DOMAIN c /\ c[i + 1] = "refresh" /\ i + 1 # 1
    BY <1>1
  <2>2. m.to # "refresh"
    BY <1>1, <2>1 DEF OneRefresh
  <2>3. \A k \in DOMAIN w : w[k].to # "refresh"
    BY <2>1 DEF OneRefresh
  <2> QED
    BY <1>2, <1>3, <2>2, <2>3
<1>6. \A i, j \in DOMAIN v : v[i].to = "refresh" /\ v[j].to = "refresh" => i = j
  <2>1. m.to = "refresh" => \A k \in DOMAIN w : w[k].to # "refresh"
    BY <1>1 DEF OneRefresh
  <2>2. \A i, j \in DOMAIN w : w[i].to = "refresh" /\ w[j].to = "refresh" => i = j
    BY DEF OneRefresh
  <2> QED
    BY <1>2, <1>3, <2>1, <2>2
<1>7. NoRefresh(c, w) => NoRefresh(t, v)
  BY <1>1, <1>2, <1>3 DEF NoRefresh
<1>8. OneRefresh(t, v)
  BY <1>4, <1>5, <1>6 DEF OneRefresh
<1> QED
  BY <1>1, <1>2, <1>7, <1>8 DEF t, v

\* The first message is received.
LEMMA ReceiptIs ==
  ASSUME NEW c \in Seq(Callers), NEW w \in Seq(Message), w # <<>>, OneRefresh(c, w)
  PROVE  /\ Head(w) \in Message /\ Head(w) = w[1] /\ 1 \in DOMAIN w
         /\ Tail(w) \in Seq(Message)
         /\ \A i \in DOMAIN Tail(w) : i + 1 \in DOMAIN w /\ Tail(w)[i] = w[i + 1]
         /\ OneRefresh(c, Tail(w))
         /\ Head(w).to = "refresh" \/ NoRefresh(c, w) => NoRefresh(c, Tail(w))
<1> DEFINE t == Tail(w)
           h == Head(w)
<1>1. /\ t \in Seq(Message) /\ DOMAIN w = 1..Len(w) /\ DOMAIN t = 1..(Len(w) - 1) /\ Len(w) \in Nat
      /\ \A i \in DOMAIN t : i + 1 \in DOMAIN w /\ t[i] = w[i + 1]
      /\ 1 \in DOMAIN w /\ h = w[1] /\ h \in Message
  OBVIOUS
<1> HIDE DEF t, h
<1>2. \A i, j \in DOMAIN t : t[i].to = "refresh" /\ t[j].to = "refresh" => i = j
  <2> SUFFICES ASSUME NEW i \in DOMAIN t, NEW j \in DOMAIN t, t[i].to = "refresh", t[j].to = "refresh"
               PROVE  i = j
    OBVIOUS
  <2>1. i + 1 = j + 1
    BY <1>1 DEF OneRefresh
  <2> QED
    BY <1>1, <2>1
<1>3. OneRefresh(c, t)
  BY <1>1, <1>2 DEF OneRefresh
<1>4. h.to = "refresh" => NoRefresh(c, t)
  <2> SUFFICES ASSUME h.to = "refresh" PROVE NoRefresh(c, t)
    OBVIOUS
  <2>1. \A i \in DOMAIN c : c[i] # "refresh"
    BY <1>1 DEF OneRefresh
  <2>2. ASSUME NEW i \in DOMAIN t PROVE t[i].to # "refresh"
    <3>1. i + 1 # 1 /\ i + 1 \in DOMAIN w
      BY <1>1
    <3> QED
      BY <1>1, <3>1 DEF OneRefresh
  <2> QED
    BY <2>1, <2>2 DEF NoRefresh
<1>5. NoRefresh(c, w) => NoRefresh(c, t)
  BY <1>1 DEF NoRefresh
<1> QED
  BY <1>1, <1>3, <1>4, <1>5 DEF t, h

\* A signal is taken out of its place.
LEMMA WithoutIs ==
  ASSUME NEW c \in Seq(Callers), NEW w \in Seq(Message), NEW n \in DOMAIN w, OneRefresh(c, w)
  PROVE  /\ Without(w, n) \in Seq(Message)
         /\ \A i \in DOMAIN Without(w, n) : \E j \in DOMAIN w : Without(w, n)[i] = w[j]
         /\ OneRefresh(c, Without(w, n))
         /\ NoRefresh(c, w) => NoRefresh(c, Without(w, n))
<1> DEFINE v == Without(w, n)
           at(i) == IF i < n THEN i ELSE i + 1
<1>1. DOMAIN w = 1..Len(w) /\ Len(w) \in Nat /\ n \in 1..Len(w) /\ Len(w) - 1 \in Nat
  OBVIOUS
<1>2. DOMAIN v = 1..(Len(w) - 1) /\ \A i \in DOMAIN v : v[i] = w[at(i)]
  BY DEF Without
<1>3. \A i \in DOMAIN v : at(i) \in DOMAIN w
  BY <1>1, <1>2
<1>4. \A i, j \in DOMAIN v : at(i) = at(j) => i = j
  BY <1>1, <1>2
<1>5. v \in Seq(Message)
  <2>1. \A i \in 1..(Len(w) - 1) : (IF i < n THEN w[i] ELSE w[i + 1]) \in Message
    BY <1>1
  <2>2. v \in [1..(Len(w) - 1) -> Message]
    BY <2>1 DEF Without
  <2> QED
    BY <1>1, <2>2
<1> HIDE DEF v, at
<1>6. OneRefresh(c, v)
  BY <1>2, <1>3, <1>4 DEF OneRefresh
<1>7. NoRefresh(c, w) => NoRefresh(c, v)
  BY <1>2, <1>3 DEF NoRefresh
<1> QED
  BY <1>2, <1>3, <1>5, <1>6, <1>7 DEF v

\* A call is made.
LEMMA AskIs ==
  ASSUME NEW c \in Seq(Callers), NEW w \in Seq(Message), NEW t \in Callers, OneRefresh(c, w),
         t # "refresh" \/ NoRefresh(c, w)
  PROVE  /\ Append(c, t) \in Seq(Callers) /\ OneRefresh(Append(c, t), w)
         /\ t # "refresh" /\ NoRefresh(c, w) => NoRefresh(Append(c, t), w)
<1> DEFINE d == Append(c, t)
<1>1. /\ d \in Seq(Callers) /\ DOMAIN c = 1..Len(c) /\ DOMAIN d = 1..(Len(c) + 1) /\ Len(c) \in Nat
      /\ \A i \in DOMAIN c : d[i] = c[i]
      /\ d[Len(c) + 1] = t
  OBVIOUS
<1> HIDE DEF d
<1>2. \A i \in DOMAIN d : i \in DOMAIN c \/ i = Len(c) + 1
  BY <1>1
<1>3. CASE t # "refresh"
  BY <1>1, <1>2, <1>3 DEF OneRefresh, NoRefresh, d
<1>4. CASE t = "refresh"
  <2>1. NoRefresh(c, w)
    BY <1>4
  <2> QED
    BY <1>1, <1>2, <1>4, <2>1 DEF OneRefresh, NoRefresh, d
<1> QED
  BY <1>3, <1>4

\* A signal is sent.
LEMMA SignalIs ==
  ASSUME NEW c \in Seq(Callers), NEW w \in Seq(Message), NEW m \in Message, m.to = "listener",
         OneRefresh(c, w)
  PROVE  /\ Append(w, m) \in Seq(Message)
         /\ DOMAIN Append(w, m) = DOMAIN w \cup {Len(w) + 1}
         /\ \A i \in DOMAIN w : Append(w, m)[i] = w[i]
         /\ Append(w, m)[Len(w) + 1] = m
         /\ OneRefresh(c, Append(w, m)) /\ (NoRefresh(c, w) => NoRefresh(c, Append(w, m)))
<1> DEFINE v == Append(w, m)
<1>1. /\ v \in Seq(Message) /\ DOMAIN v = DOMAIN w \cup {Len(w) + 1} /\ v[Len(w) + 1] = m
      /\ \A i \in DOMAIN w : v[i] = w[i]
  OBVIOUS
<1> HIDE DEF v
<1>2. OneRefresh(c, v) /\ (NoRefresh(c, w) => NoRefresh(c, v))
  BY <1>1 DEF OneRefresh, NoRefresh
<1> QED
  BY <1>1, <1>2 DEF v

\* The process ends: every call is answered with a timeout.
NoReply(t) == [to |-> t, is |-> "timeout", snap |-> NoSnapshot]
LEMMA NoReplyIs ==
  \A t \in Callers : NoReply(t) \in Message /\ NoReply(t).to = t /\ NoReply(t).is = "timeout"
<1>1. NoSnapshot \in Snapshot
  BY BoundsAssumption DEF NoSnapshot, Snapshot
<1> QED
  BY <1>1 DEF NoReply, Message, Answers

LEMMA CrashIs ==
  ASSUME NEW c \in Seq(Callers), NEW w \in Seq(Message), OneRefresh(c, w), NEW v,
         v = w \o [i \in DOMAIN c |-> [to |-> c[i], is |-> "timeout", snap |-> NoSnapshot]]
  PROVE  /\ v \in Seq(Message)
         /\ \A k \in DOMAIN v : (k \in DOMAIN w /\ v[k] = w[k]) \/ v[k].is = "timeout"
         /\ OneRefresh(<<>>, v) /\ (NoRefresh(c, w) => NoRefresh(<<>>, v))
<1> DEFINE x == [i \in DOMAIN c |-> NoReply(c[i])]
<1>1. v = w \o x
  BY DEF NoReply
<1>2. DOMAIN c = 1..Len(c) /\ Len(c) \in Nat /\ \A i \in DOMAIN c : c[i] \in Callers
  OBVIOUS
<1>3. x \in Seq(Message) /\ Len(x) = Len(c) /\ DOMAIN x = DOMAIN c
  <2>1. x \in [1..Len(c) -> Message]
    BY <1>2, NoReplyIs
  <2> QED
    BY <1>2, <2>1, LenProperties
<1>4. \A i \in DOMAIN c : x[i] = NoReply(c[i])
  OBVIOUS
<1> HIDE DEF x
<1>5. /\ v \in Seq(Message) /\ Len(v) = Len(w) + Len(c)
      /\ \A k \in 1..Len(v) : v[k] = IF k <= Len(w) THEN w[k] ELSE x[k - Len(w)]
  <2>1. w \o x \in Seq(Message) /\ Len(w \o x) = Len(w) + Len(x)
        /\ \A k \in 1..(Len(w) + Len(x)) : (w \o x)[k] = IF k <= Len(w) THEN w[k] ELSE x[k - Len(w)]
    BY <1>3, ConcatProperties
  <2> QED
    BY <1>1, <1>3, <2>1
<1>6. Len(w) \in Nat /\ DOMAIN w = 1..Len(w) /\ DOMAIN v = 1..Len(v)
  BY <1>5
<1>7. ASSUME NEW k \in DOMAIN v
      PROVE  \/ k \in DOMAIN w /\ v[k] = w[k]
             \/ k - Len(w) \in DOMAIN c /\ k \notin DOMAIN w /\ v[k] = NoReply(c[k - Len(w)])
  BY <1>2, <1>4, <1>5, <1>6
<1>8. \A k \in DOMAIN v : (k \in DOMAIN w /\ v[k] = w[k]) \/ v[k].is = "timeout"
  BY <1>2, <1>7, NoReplyIs
<1>9. \A k \in DOMAIN v : v[k].to = "refresh" =>
        \/ k \in DOMAIN w /\ w[k].to = "refresh"
        \/ k - Len(w) \in DOMAIN c /\ k \notin DOMAIN w /\ c[k - Len(w)] = "refresh"
  BY <1>2, <1>7, NoReplyIs
<1>10. ASSUME NEW k \in DOMAIN v, NEW l \in DOMAIN v, v[k].to = "refresh", v[l].to = "refresh"
       PROVE  k = l
  <2>1. CASE k \in DOMAIN w /\ w[k].to = "refresh"
    BY <1>9, <1>10, <2>1 DEF OneRefresh
  <2>2. CASE l \in DOMAIN w /\ w[l].to = "refresh"
    BY <1>9, <1>10, <2>2 DEF OneRefresh
  <2>3. CASE /\ k - Len(w) \in DOMAIN c /\ c[k - Len(w)] = "refresh"
             /\ l - Len(w) \in DOMAIN c /\ c[l - Len(w)] = "refresh"
    <3>1. k - Len(w) = l - Len(w)
      BY <2>3 DEF OneRefresh
    <3> QED
      BY <1>5, <1>6, <3>1
  <2> QED
    BY <1>9, <1>10, <2>1, <2>2, <2>3
<1>11. OneRefresh(<<>>, v)
  BY <1>10 DEF OneRefresh
<1>12. NoRefresh(c, w) => NoRefresh(<<>>, v)
  BY <1>9 DEF NoRefresh
<1> QED
  BY <1>5, <1>8, <1>11, <1>12
-----------------------------------------------------------------------------
(* The service and the bus.                                                *)

\* What the fields of the typed variables are.
LEMMA Fields ==
  ASSUME TypeOK
  PROVE  /\ svc.run \in 0..MaxRuns /\ svc.seq \in 0..MaxSeq /\ svc.run \in Nat /\ svc.seq \in Nat
         /\ \A m \in Message : /\ m.snap \in Snapshot /\ m.snap.seq \in 0..MaxSeq
                               /\ m.to \in Callers \cup {"listener"}
         /\ MaxSeq \in Nat /\ MaxRuns \in Nat /\ pending \in Nat /\ need \in Nat
         /\ left \in Nat /\ first \in Nat /\ MAX_COALESCED_REFRESHES \in Nat
<1>1. \A x \in Snapshot : x.run \in 0..MaxRuns /\ x.seq \in 0..MaxSeq
  BY DEF Snapshot
<1>2. \A m \in Message : m.snap \in Snapshot /\ m.to \in Callers \cup {"listener"}
  BY DEF Message
<1> QED
  BY <1>1, <1>2, BoundsAssumption DEF TypeOK

LEMMA ChangeKeeps ==
  ASSUME IInv, Change
  PROVE  IInv'
<1> DEFINE m == [to |-> "listener", is |-> "signal", snap |-> svc']
<1>1. /\ up /\ svc.seq < MaxSeq /\ svc' = [svc EXCEPT !.seq = svc.seq + 1]
      /\ wire' = IF listening = "yes" THEN Append(wire, m) ELSE wire
      /\ UNCHANGED <<up, calls, worker, listening, connected, pending, task, need, left, first, gui, resets, timeouts>>
  BY DEF Change, refresh, guiVars
<1>2. svc' \in Snapshot /\ svc'.run = svc.run /\ svc'.seq = svc.seq + 1
  <2>1. svc.seq + 1 \in 0..MaxSeq /\ svc \in Snapshot
    BY <1>1, Fields DEF IInv, TypeOK
  <2> QED
    BY <1>1, <2>1 DEF Snapshot
<1>3. m \in Message /\ m.to = "listener" /\ m.is = "signal" /\ m.snap = svc'
  BY <1>2 DEF Message
<1>4. calls \in Seq(Callers) /\ wire \in Seq(Message) /\ OneRefresh(calls, wire)
  BY DEF IInv, TypeOK, RefreshOK
<1> HIDE DEF m
<1>5. /\ wire' \in Seq(Message) /\ OneRefresh(calls, wire')
      /\ NoRefresh(calls, wire) => NoRefresh(calls, wire')
      /\ \A i \in DOMAIN wire' : (i \in DOMAIN wire /\ wire'[i] = wire[i]) \/ wire'[i] = m
  BY <1>1, <1>3, <1>4, SignalIs
<1>6. TypeOK'
  BY <1>1, <1>2, <1>5 DEF IInv, TypeOK
<1>7. CountsOK' /\ RefreshOK'
  BY <1>1, <1>2, <1>5 DEF IInv, CountsOK, RefreshOK
<1>8. Announced'
  <2> SUFFICES ASSUME svc.run = 1 PROVE Announced'
    BY <1>2 DEF Announced
  <2>1. svc.seq \in Nat /\ pending \in Nat /\ need \in Nat
    BY Fields DEF IInv
  <2>2. pending <= svc'.seq /\ need <= svc'.seq
    BY <1>2, <2>1 DEF IInv, Announced
  <2>3. ASSUME NEW i \in DOMAIN wire', wire'[i].is = "signal" PROVE wire'[i].snap.seq <= svc'.seq
    <3>1. CASE wire'[i] = m
      BY <1>2, <1>3, <2>1, <3>1
    <3>2. CASE i \in DOMAIN wire /\ wire'[i] = wire[i]
      <4>1. wire[i].snap.seq <= svc.seq
        BY <2>3, <3>2 DEF IInv, Announced
      <4>2. wire[i].snap.seq \in Nat
        BY <1>4, <3>2, Fields DEF IInv
      <4> QED
        BY <1>2, <2>1, <3>2, <4>1, <4>2
    <3> QED
      BY <1>5, <3>1, <3>2
  <2> QED
    BY <1>1, <2>2, <2>3 DEF Announced
<1>9. Answered' /\ Outrun'
  BY <1>1, <1>2, <1>3, <1>5 DEF IInv, Answered, Outrun
<1> QED
  BY <1>6, <1>7, <1>8, <1>9 DEF IInv

\* A call is answered with a or with nothing.
LEMMA AnswerKeeps ==
  ASSUME IInv, calls # <<>>, calls' = Tail(calls), NEW k \in Answers, NEW x \in Snapshot,
         wire' = Append(wire, [to |-> Head(calls), is |-> k, snap |-> x]),
         k = "snapshot" => x = svc, timeouts' \in 0..MaxTimeouts,
         UNCHANGED <<service, worker, listening, connected, refresh, guiVars>>
  PROVE  IInv'
<1> DEFINE m == [to |-> Head(calls), is |-> k, snap |-> x]
<1>1. UNCHANGED <<up, svc, worker, listening, connected, pending, task, need, left, first, gui, resets>>
  BY DEF service, refresh, guiVars
<1>2. calls \in Seq(Callers) /\ wire \in Seq(Message) /\ OneRefresh(calls, wire)
  BY DEF IInv, TypeOK, RefreshOK
<1>3. Head(calls) \in Callers
  BY <1>2
<1>4. m \in Message /\ m.to = Head(calls) /\ m.is = k /\ m.snap = x
  BY <1>3 DEF Message
<1>5. wire' = Append(wire, m)
  OBVIOUS
<1> HIDE DEF m
<1>6. /\ calls' \in Seq(Callers) /\ wire' \in Seq(Message) /\ OneRefresh(calls', wire')
      /\ NoRefresh(calls, wire) => NoRefresh(calls', wire')
  BY <1>2, <1>4, <1>5, AnswerIs
<1>7. \A i \in DOMAIN wire' : (i \in DOMAIN wire /\ wire'[i] = wire[i]) \/ wire'[i] = m
  BY <1>2, <1>4, <1>5
<1>8. TypeOK'
  BY <1>1, <1>6 DEF IInv, TypeOK
<1>9. CountsOK' /\ RefreshOK'
  BY <1>1, <1>6 DEF IInv, CountsOK, RefreshOK
<1>10. m.is # "signal"
  BY <1>4 DEF Answers
<1>11. Announced'
  BY <1>1, <1>7, <1>10 DEF IInv, Announced
<1>12. Answered'
  BY <1>1, <1>4, <1>7, Fields DEF IInv, Answered, Announced
<1>13. Outrun'
  BY <1>1 DEF IInv, Outrun
<1> QED
  BY <1>8, <1>9, <1>11, <1>12, <1>13 DEF IInv

LEMMA BusKeeps ==
  ASSUME IInv, Serve \/ Refuse \/ CallTimesOut
  PROVE  IInv'
<1>1. timeouts \in 0..MaxTimeouts /\ svc \in Snapshot /\ NoSnapshot \in Snapshot
  BY BoundsAssumption DEF IInv, TypeOK, NoSnapshot, Snapshot
<1>2. CASE Serve
  BY <1>1, <1>2, AnswerKeeps DEF Serve, Answers
<1>3. CASE Refuse
  BY <1>1, <1>3, AnswerKeeps DEF Refuse, Answers
<1>4. CASE CallTimesOut
  <2>1. timeouts' \in 0..MaxTimeouts
    BY <1>1, <1>4, BoundsAssumption DEF CallTimesOut
  <2> QED
    BY <1>1, <1>4, <2>1, AnswerKeeps DEF CallTimesOut, Answers
<1> QED
  BY <1>2, <1>3, <1>4

LEMMA CrashKeeps ==
  ASSUME IInv, Crash
  PROVE  IInv'
<1>1. /\ up /\ svc.run < MaxRuns /\ up' = FALSE /\ calls' = <<>>
      /\ UNCHANGED <<svc, worker, listening, connected, pending, task, need, left, first, gui, resets, timeouts>>
      /\ wire' = wire \o [i \in DOMAIN calls |-> [to |-> calls[i], is |-> "timeout", snap |-> NoSnapshot]]
  BY DEF Crash, refresh, guiVars
<1>2. calls \in Seq(Callers) /\ wire \in Seq(Message) /\ OneRefresh(calls, wire)
  BY DEF IInv, TypeOK, RefreshOK
<1>3. /\ wire' \in Seq(Message)
      /\ \A k \in DOMAIN wire' : (k \in DOMAIN wire /\ wire'[k] = wire[k]) \/ wire'[k].is = "timeout"
      /\ OneRefresh(calls', wire') /\ (NoRefresh(calls, wire) => NoRefresh(calls', wire'))
  <2> HIDE DEF IInv
  <2>1. \A v : v = wire \o [i \in DOMAIN calls |-> [to |-> calls[i], is |-> "timeout", snap |-> NoSnapshot]]
          => /\ v \in Seq(Message)
             /\ \A k \in DOMAIN v : (k \in DOMAIN wire /\ v[k] = wire[k]) \/ v[k].is = "timeout"
             /\ OneRefresh(<<>>, v) /\ (NoRefresh(calls, wire) => NoRefresh(<<>>, v))
    BY ONLY <1>2, CrashIs, Zenon
  <2> QED
    BY <1>1, <2>1, Zenon
<1>4. TypeOK'
  <2>1. <<>> \in Seq(Callers)
    OBVIOUS
  <2> QED
    BY <1>1, <1>3, <2>1 DEF IInv, TypeOK
<1>5. CountsOK' /\ RefreshOK'
  BY <1>1, <1>3, Fields DEF IInv, CountsOK, RefreshOK
<1>6. Announced' /\ Answered' /\ Outrun'
  BY <1>1, <1>3 DEF IInv, Announced, Answered, Outrun
<1> QED
  BY <1>4, <1>5, <1>6 DEF IInv

LEMMA BootKeeps ==
  ASSUME IInv, Boot
  PROVE  IInv'
<1>1. /\ ~up /\ up' = TRUE /\ svc' = [run |-> svc.run + 1, seq |-> 1]
      /\ UNCHANGED <<calls, wire, worker, listening, connected, pending, task, need, left, first, gui, resets, timeouts>>
  BY DEF Boot, refresh, guiVars
<1>2. svc.run \in 0..MaxRuns /\ svc.run # 0 /\ svc.run # MaxRuns /\ MaxRuns \in Nat
  BY <1>1, Fields DEF IInv, CountsOK
<1>3. svc.run + 1 \in 0..MaxRuns /\ svc.run + 1 # 1 /\ svc.run + 1 # 0 /\ 1 \in 0..MaxSeq
  BY <1>2, BoundsAssumption
<1>4. svc' \in Snapshot /\ svc'.run = svc.run + 1
  BY <1>1, <1>3 DEF Snapshot
<1>5. TypeOK'
  BY <1>1, <1>4 DEF IInv, TypeOK
<1>6. CountsOK' /\ RefreshOK'
  BY <1>1, <1>3, <1>4 DEF IInv, CountsOK, RefreshOK
<1>7. Announced' /\ Answered' /\ Outrun'
  BY <1>3, <1>4 DEF Announced, Answered, Outrun
<1> QED
  BY <1>5, <1>6, <1>7 DEF IInv
-----------------------------------------------------------------------------
(* The client and the GUI.                                                 *)

GuiType == gui \in [online : BOOLEAN, held : Snapshot] /\ resets \in BOOLEAN

LEMMA GuiIs ==
  ASSUME IInv
  PROVE  /\ \A x \in Snapshot : SetSnapshot(x) \/ Publish(x) => GuiType'
         /\ SetOffline => GuiType'
         /\ UNCHANGED guiVars => GuiType'
<1>1. gui \in [online : BOOLEAN, held : Snapshot] /\ resets \in BOOLEAN
  BY DEF IInv, TypeOK
<1>2. UNCHANGED guiVars => GuiType'
  BY <1>1 DEF guiVars, GuiType
<1>3. ASSUME NEW x \in Snapshot, SetSnapshot(x) PROVE GuiType'
  <2>1. [gui EXCEPT !.held = x] \in [online : BOOLEAN, held : Snapshot]
    BY <1>1
  <2> QED
    BY <1>2, <1>3, <2>1 DEF SetSnapshot, GuiType
<1>4. ASSUME SetOffline PROVE GuiType'
  <2>1. [gui EXCEPT !.online = FALSE] \in [online : BOOLEAN, held : Snapshot]
    BY <1>1
  <2> QED
    BY <1>4, <2>1 DEF SetOffline, GuiType
<1> QED
  BY <1>2, <1>3, <1>4 DEF Publish

\* What is left on the wire when a message is taken.
Taken ==
    /\ wire' \in Seq(Message) /\ OneRefresh(calls, wire')
    /\ NoRefresh(calls, wire) => NoRefresh(calls, wire')
    /\ \A i \in DOMAIN wire' : \E j \in DOMAIN wire : wire'[i] = wire[j]

\* An answer is received while the service does not move.
LEMMA ReceiveIs ==
  ASSUME IInv, wire # <<>>, wire' = Tail(wire)
  PROVE  /\ Head(wire) \in Message /\ Received \in Snapshot /\ Received.seq \in 0..MaxSeq
         /\ Taken
         /\ Head(wire).to = "refresh" => task = "waiting" /\ NoRefresh(calls, wire')
         /\ svc.run = 1 /\ Head(wire).to = "refresh" /\ Head(wire).is = "snapshot" => Received.seq >= need
<1>1. calls \in Seq(Callers) /\ wire \in Seq(Message) /\ OneRefresh(calls, wire)
  BY DEF IInv, TypeOK, RefreshOK
<1>2. /\ Head(wire) \in Message /\ Head(wire) = wire[1] /\ 1 \in DOMAIN wire
      /\ Tail(wire) \in Seq(Message)
      /\ \A i \in DOMAIN Tail(wire) : i + 1 \in DOMAIN wire /\ Tail(wire)[i] = wire[i + 1]
      /\ OneRefresh(calls, Tail(wire))
      /\ Head(wire).to = "refresh" \/ NoRefresh(calls, wire) => NoRefresh(calls, Tail(wire))
  BY <1>1, ReceiptIs
<1> DEFINE h == Head(wire)
<1> HIDE DEF h
<1>3. h \in Message /\ h = wire[1] /\ Received = h.snap
  BY <1>2 DEF h, Received
<1>4. h.snap \in Snapshot /\ h.snap.seq \in 0..MaxSeq
  BY <1>3, Fields DEF IInv
<1>5. h.to = "refresh" => task = "waiting"
  BY <1>2, <1>3 DEF IInv, RefreshOK, NoRefresh
<1>6. svc.run = 1 /\ h.to = "refresh" /\ h.is = "snapshot" => h.snap.seq >= need
  BY <1>2, <1>3 DEF IInv, Answered
<1>7. Taken
  BY <1>2 DEF Taken
<1> QED
  BY <1>2, <1>3, <1>4, <1>5, <1>6, <1>7 DEF h

\* A signal is received.
LEMMA SignalledIs ==
  ASSUME IInv, NEW n, Signalled(n), wire' = Without(wire, n)
  PROVE  /\ Taken /\ wire[n].snap.seq \in 0..MaxSeq
         /\ svc.run = 1 => wire[n].snap.seq <= svc.seq
<1>1. calls \in Seq(Callers) /\ wire \in Seq(Message) /\ OneRefresh(calls, wire)
  BY DEF IInv, TypeOK, RefreshOK
<1>2. n \in DOMAIN wire /\ wire[n].is = "signal" /\ wire[n] \in Message
  BY <1>1 DEF Signalled
<1>3. Taken
  BY <1>1, <1>2, WithoutIs DEF Taken
<1> QED
  BY <1>2, <1>3, Fields DEF IInv, Announced

\* What the refresh task holds, after it.
RefreshType == /\ pending \in 0..MaxSeq /\ need \in 0..MaxSeq /\ first \in 0..MaxSeq
               /\ left \in 0..MAX_COALESCED_REFRESHES /\ task \in {"none", "ready", "waiting"}

LEMMA ReceiveKeeps ==
  ASSUME IInv, Taken, UNCHANGED <<up, svc, calls>>, timeouts' \in 0..MaxTimeouts,
         listening' \in {"no", "yes", "failed"},
         worker' \in {"connect", "first", "watch"}, connected' \in BOOLEAN, GuiType', RefreshType',
         task' # "none" => left' # 0, Outrun',
         svc.run = 1 => pending' <= svc.seq /\ need' <= svc.seq,
         \/ NoRefresh(calls, wire') /\ task' # "waiting"
         \/ need' = need /\ task' = task
         \/ task = "none" /\ task' # "waiting"
  PROVE  IInv'
<1>1. /\ wire' \in Seq(Message) /\ OneRefresh(calls, wire')
      /\ NoRefresh(calls, wire) => NoRefresh(calls, wire')
      /\ \A i \in DOMAIN wire' : \E j \in DOMAIN wire : wire'[i] = wire[j]
  BY DEF Taken
<1>2. TypeOK'
  BY <1>1 DEF IInv, TypeOK, GuiType, RefreshType
<1>3. CountsOK'
  BY DEF IInv, CountsOK
<1>4. task' # "waiting" => NoRefresh(calls, wire')
  BY <1>1 DEF IInv, RefreshOK
<1>5. RefreshOK'
  BY <1>1, <1>4 DEF RefreshOK
<1>6. Announced'
  BY <1>1 DEF IInv, Announced
<1>7. Answered'
  <2>1. CASE need' = need
    BY <1>1, <2>1 DEF IInv, Answered
  <2>2. CASE task' # "waiting"
    BY <1>4, <2>2 DEF Answered, NoRefresh
  <2> QED
    BY <2>1, <2>2
<1> QED
  BY <1>2, <1>3, <1>5, <1>6, <1>7 DEF IInv

LEMMA RefreshTypeIs ==
  ASSUME IInv
  PROVE  RefreshType /\ (task # "none" => left # 0)
         /\ (svc.run = 1 => pending <= svc.seq /\ need <= svc.seq)
         /\ (UNCHANGED <<svc, refresh>> => Outrun')
  BY DEF IInv, TypeOK, RefreshType, CountsOK, Announced, Outrun, refresh

\* The messages that the refresh task has no part in.
LEMMA OthersReceiveKeeps ==
  ASSUME IInv, FirstSnapshot \/ PollGot \/ PollFails
  PROVE  IInv'
<1>1. /\ wire # <<>> /\ wire' = Tail(wire) /\ worker' \in {"connect", "first", "watch"}
      /\ UNCHANGED <<up, svc, calls, listening, timeouts, pending, task, need, left, first>>
  BY DEF FirstSnapshot, PollGot, PollFails, Receives, service, refresh, IInv, TypeOK
<1>2. connected' \in BOOLEAN
  BY DEF FirstSnapshot, PollGot, PollFails, IInv, TypeOK
<1>3. Received \in Snapshot /\ Taken
  BY <1>1, ReceiveIs
<1>4. GuiType'
  BY <1>3, GuiIs DEF FirstSnapshot, PollGot, PollFails
<1>5. /\ RefreshType' /\ (task' # "none" => left' # 0) /\ Outrun'
      /\ svc.run = 1 => pending' <= svc.seq /\ need' <= svc.seq
  BY <1>1, RefreshTypeIs DEF RefreshType, refresh
<1>6. listening' \in {"no", "yes", "failed"} /\ timeouts' \in 0..MaxTimeouts
  BY <1>1 DEF IInv, TypeOK
<1> QED
  BY <1>1, <1>2, <1>3, <1>4, <1>5, <1>6, ReceiveKeeps

LEMMA ListenerKeeps ==
  ASSUME IInv, NEW n, ListenerFails(n) \/ SignalLost(n)
  PROVE  IInv'
<1>1. /\ Signalled(n) /\ wire' = Without(wire, n)
      /\ UNCHANGED <<up, svc, calls, worker, pending, task, need, left, first, gui, resets>>
  BY DEF ListenerFails, SignalLost, service, refresh, guiVars
<1>2. /\ listening' \in {"no", "yes", "failed"} /\ connected' \in BOOLEAN
      /\ timeouts' \in 0..MaxTimeouts
  <2>1. listening \in {"no", "yes", "failed"} /\ connected \in BOOLEAN
    BY DEF IInv, TypeOK
  <2>2. timeouts \in 0..MaxTimeouts /\ MaxTimeouts \in Nat
    BY BoundsAssumption DEF IInv, TypeOK
  <2>3. CASE ListenerFails(n)
    <3>1. timeouts < MaxTimeouts /\ timeouts' = timeouts + 1
      BY <2>3 DEF ListenerFails
    <3>2. timeouts' \in 0..MaxTimeouts
      BY <2>2, <3>1
    <3> QED
      BY <2>3, <3>2 DEF ListenerFails
  <2>4. CASE SignalLost(n)
    BY <2>1, <2>2, <2>4 DEF SignalLost
  <2> QED
    BY <2>3, <2>4
<1>3. Taken
  BY <1>1, SignalledIs
<1>4. /\ RefreshType' /\ (task' # "none" => left' # 0) /\ Outrun'
      /\ svc.run = 1 => pending' <= svc.seq /\ need' <= svc.seq
  BY <1>1, RefreshTypeIs DEF RefreshType, refresh
<1>5. GuiType' /\ worker' \in {"connect", "first", "watch"}
  BY <1>1, GuiIs DEF IInv, TypeOK, guiVars
<1> QED
  BY <1>1, <1>2, <1>3, <1>4, <1>5, ReceiveKeeps

LEMMA LargestIs ==
  ASSUME NEW n \in Nat, NEW a \in 0..n, NEW b \in 0..n
  PROVE  /\ Largest(a, b) \in 0..n /\ Largest(a, b) \in {a, b} /\ Largest(a, b) >= a
         /\ \A m \in Nat : a <= m /\ b <= m => Largest(a, b) <= m
  BY DEF Largest

LEMMA SignalKeeps ==
  ASSUME IInv, NEW n, Signal(n)
  PROVE  IInv'
<1> DEFINE q == wire[n].snap.seq
<1>1. /\ Signalled(n) /\ wire' = Without(wire, n)
      /\ pending' = Largest(pending, q)
      /\ IF task = "none"
         THEN task' = "ready" /\ need' = 0 /\ left' = MAX_COALESCED_REFRESHES /\ first' = 0
         ELSE UNCHANGED <<task, need, left, first>>
      /\ UNCHANGED <<up, svc, calls, worker, listening, connected, guiVars, timeouts>>
  BY DEF Signal, StartRefresh, service
<1>2. Taken /\ q \in 0..MaxSeq /\ (svc.run = 1 => q <= svc.seq)
  BY <1>1, SignalledIs
<1> HIDE DEF q
<1>3. /\ pending \in 0..MaxSeq /\ MaxSeq \in Nat /\ svc.seq \in Nat
      /\ svc.run = 1 => pending <= svc.seq
  BY Fields DEF IInv, TypeOK, Announced
<1>4. /\ pending' \in 0..MaxSeq /\ (svc.run = 1 => pending' <= svc.seq) /\ pending' >= pending
      /\ pending' \in Nat
  <2>1. pending' \in 0..MaxSeq /\ pending' >= pending /\ (svc.run = 1 => pending' <= svc.seq)
    BY <1>1, <1>2, <1>3, LargestIs
  <2> QED
    BY <1>3, <2>1
<1>5. RefreshType' /\ (task' # "none" => left' # 0) /\ (svc.run = 1 => need' <= svc.seq)
  BY <1>1, <1>3, <1>4, RefreshTypeIs, BoundsAssumption DEF RefreshType
<1>6. GuiType' /\ worker' \in {"connect", "first", "watch"} /\ connected' \in BOOLEAN
      /\ listening' \in {"no", "yes", "failed"} /\ timeouts' \in 0..MaxTimeouts
  BY <1>1, GuiIs DEF IInv, TypeOK
<1>7. (need' = need /\ task' = task) \/ (task = "none" /\ task' # "waiting")
  BY <1>1
<1>8. Outrun'
  <2>1. pending \in Nat /\ left \in Nat /\ first \in Nat /\ MAX_COALESCED_REFRESHES \in Nat
    BY Fields DEF IInv
  <2>2. CASE task = "none"
    BY <1>1, <1>4, <2>1, <2>2 DEF Outrun
  <2>3. CASE task # "none"
    BY <1>1, <1>4, <2>1, <2>3 DEF IInv, Outrun
  <2> QED
    BY <2>2, <2>3
<1> QED
  BY <1>1, <1>2, <1>4, <1>5, <1>6, <1>7, <1>8, ReceiveKeeps

LEMMA RefreshGotKeeps ==
  ASSUME IInv, RefreshGot
  PROVE  IInv'
<1> DEFINE required == Largest(need, pending)
<1>1. /\ wire # <<>> /\ wire' = Tail(wire) /\ Head(wire).to = "refresh" /\ Head(wire).is = "snapshot"
      /\ Publish(Received) /\ need' = required
      /\ IF Received.seq >= required \/ left = 1
         THEN pending' = 0 /\ task' = "none" /\ left' = 0
         ELSE pending' = required /\ task' = "ready" /\ left' = left - 1
      /\ UNCHANGED <<up, svc, calls, worker, listening, connected, first, timeouts>>
  BY DEF RefreshGot, Receives, service
<1>2. /\ Received \in Snapshot /\ Received.seq \in 0..MaxSeq /\ task = "waiting" /\ Taken
      /\ NoRefresh(calls, wire') /\ (svc.run = 1 => Received.seq >= need)
  BY <1>1, ReceiveIs
<1>3. /\ pending \in 0..MaxSeq /\ need \in 0..MaxSeq /\ MaxSeq \in Nat /\ svc.seq \in Nat
      /\ svc.run = 1 => pending <= svc.seq /\ need <= svc.seq
  BY Fields DEF IInv, TypeOK, Announced
<1>4. required \in 0..MaxSeq /\ (svc.run = 1 => required <= svc.seq)
  BY <1>3, LargestIs
<1> HIDE DEF required
<1>5. left \in 0..MAX_COALESCED_REFRESHES /\ left # 0 /\ MAX_COALESCED_REFRESHES \in Nat
  BY <1>2, BoundsAssumption DEF IInv, TypeOK, CountsOK
<1>6. left # 1 => left - 1 \in 0..MAX_COALESCED_REFRESHES /\ left - 1 # 0
  BY <1>5
<1>7. /\ RefreshType' /\ (task' # "none" => left' # 0) /\ task' # "waiting"
      /\ svc.run = 1 => pending' <= svc.seq /\ need' <= svc.seq
  BY <1>1, <1>3, <1>4, <1>5, <1>6, RefreshTypeIs DEF RefreshType
<1>8. GuiType' /\ worker' \in {"connect", "first", "watch"} /\ connected' \in BOOLEAN
      /\ listening' \in {"no", "yes", "failed"} /\ timeouts' \in 0..MaxTimeouts
  BY <1>1, <1>2, GuiIs DEF IInv, TypeOK
<1>9. Outrun'
  <2> SUFFICES ASSUME svc.run = 1, task' = "ready"
               PROVE  pending' + left' >= first' + MAX_COALESCED_REFRESHES
    BY <1>1, <1>7 DEF Outrun
  <2>1. need + left >= first + MAX_COALESCED_REFRESHES /\ Received.seq >= need
    BY <1>2 DEF IInv, Outrun
  <2>2. pending' = required /\ left' = left - 1 /\ first' = first /\ ~(Received.seq >= required)
    BY <1>1
  <2>3. /\ need \in Nat /\ left \in Nat /\ first \in Nat /\ Received.seq \in Nat /\ required \in Nat
        /\ MAX_COALESCED_REFRESHES \in Nat
    BY <1>2, <1>3, <1>4, Fields DEF IInv
  <2> QED
    BY <2>1, <2>2, <2>3
<1> QED
  BY <1>1, <1>2, <1>7, <1>8, <1>9, ReceiveKeeps

LEMMA RefreshFailsKeeps ==
  ASSUME IInv, RefreshFails
  PROVE  IInv'
<1>1. /\ wire # <<>> /\ wire' = Tail(wire) /\ Head(wire).to = "refresh"
      /\ task' = "none" /\ left' = 0 /\ connected' \in BOOLEAN
      /\ UNCHANGED <<up, svc, calls, worker, listening, pending, need, first, guiVars, timeouts>>
  BY DEF RefreshFails, Receives, service, IInv, TypeOK
<1>2. /\ RefreshType' /\ (svc.run = 1 => pending' <= svc.seq /\ need' <= svc.seq)
      /\ Taken /\ NoRefresh(calls, wire') /\ Outrun'
  BY <1>1, ReceiveIs, RefreshTypeIs, BoundsAssumption DEF RefreshType, Outrun
<1>3. GuiType' /\ worker' \in {"connect", "first", "watch"}
      /\ listening' \in {"no", "yes", "failed"} /\ timeouts' \in 0..MaxTimeouts
  BY <1>1, GuiIs DEF IInv, TypeOK
<1> QED
  BY <1>1, <1>2, <1>3, ReceiveKeeps

\* The steps that drop or leave the messages.
LEMMA DisconnectKeeps ==
  ASSUME IInv, Disconnect
  PROVE  IInv'
<1>1. /\ SetOffline /\ worker' = "connect" /\ listening' = "no" /\ connected' = FALSE
      /\ calls' = <<>> /\ wire' = <<>> /\ pending' = 0 /\ task' = "none" /\ need' = 0 /\ left' = 0
      /\ first' = 0 /\ UNCHANGED <<up, svc, timeouts>>
  BY DEF Disconnect, service
<1>2. GuiType' /\ svc.seq \in Nat
  BY <1>1, GuiIs, Fields DEF IInv
<1>3. <<>> \in Seq(Callers) /\ <<>> \in Seq(Message) /\ OneRefresh(<<>>, <<>>) /\ NoRefresh(<<>>, <<>>)
  BY DEF OneRefresh, NoRefresh
<1>4. TypeOK'
  <2>1. 0 \in 0..MaxSeq /\ 0 \in 0..MAX_COALESCED_REFRESHES
    BY BoundsAssumption
  <2>2. up' \in BOOLEAN /\ svc' \in Snapshot /\ timeouts' \in 0..MaxTimeouts
    BY <1>1 DEF IInv, TypeOK
  <2> QED
    BY <1>1, <1>2, <1>3, <2>1, <2>2 DEF TypeOK, GuiType
<1>5. CountsOK' /\ RefreshOK'
  BY <1>1, <1>3 DEF IInv, CountsOK, RefreshOK
<1>6. Announced' /\ Answered' /\ Outrun'
  BY <1>1, <1>2 DEF Announced, Answered, Outrun
<1> QED
  BY <1>4, <1>5, <1>6 DEF IInv

LEMMA ConnectKeeps ==
  ASSUME IInv, Connect \/ Listen \/ ConnectFails
  PROVE  IInv'
<1>1. UNCHANGED <<up, svc, wire, pending, task, need, left, first, timeouts>>
  BY DEF Connect, Listen, ConnectFails, service, refresh
<1>2. GuiType'
  <2>1. [gui EXCEPT !.online = TRUE] \in [online : BOOLEAN, held : Snapshot]
    BY DEF IInv, TypeOK
  <2>2. CASE Connect
    BY <2>1, <2>2 DEF Connect, GuiType, IInv, TypeOK
  <2> QED
    BY <2>2, GuiIs DEF Listen, ConnectFails
<1>3. worker' \in {"connect", "first", "watch"} /\ listening' \in {"no", "yes", "failed"} /\ connected' \in BOOLEAN
  BY DEF Connect, Listen, ConnectFails, IInv, TypeOK
<1>4. /\ calls' \in Seq(Callers) /\ OneRefresh(calls', wire)
      /\ NoRefresh(calls, wire) => NoRefresh(calls', wire)
  <2>1. CASE calls' = calls
    BY <2>1 DEF IInv, TypeOK, RefreshOK
  <2>2. CASE calls' = <<"main">>
    <3>1. <<"main">> \in Seq(Callers) /\ \A i \in DOMAIN <<"main">> : <<"main">>[i] # "refresh"
      BY DEF Callers
    <3> QED
      BY <2>2, <3>1 DEF IInv, RefreshOK, OneRefresh, NoRefresh
  <2> QED
    BY <2>1, <2>2 DEF Connect, Listen, ConnectFails
<1>5. TypeOK'
  BY <1>1, <1>2, <1>3, <1>4 DEF IInv, TypeOK, GuiType
<1>6. CountsOK' /\ RefreshOK'
  BY <1>1, <1>4 DEF IInv, CountsOK, RefreshOK
<1>7. Announced' /\ Answered' /\ Outrun'
  BY <1>1 DEF IInv, Announced, Answered, Outrun
<1> QED
  BY <1>5, <1>6, <1>7 DEF IInv

LEMMA AskKeeps ==
  ASSUME IInv, RefreshAsks \/ Poll
  PROVE  IInv'
<1>1. /\ calls \in Seq(Callers) /\ wire \in Seq(Message) /\ OneRefresh(calls, wire)
      /\ {"poll", "refresh"} \subseteq Callers
  BY DEF IInv, TypeOK, RefreshOK, Callers
<1>2. UNCHANGED <<up, svc, wire, worker, listening, connected, left, gui, resets, timeouts>>
  BY DEF RefreshAsks, Poll, service, refresh, guiVars
<1>3. CASE RefreshAsks
  <2>1. /\ task = "ready" /\ need' = pending /\ pending' = 0 /\ task' = "waiting"
        /\ calls' = Append(calls, "refresh")
        /\ first' = IF left = MAX_COALESCED_REFRESHES THEN pending ELSE first
    BY <1>3 DEF RefreshAsks
  <2>2. NoRefresh(calls, wire)
    BY <2>1 DEF IInv, RefreshOK
  <2>3. calls' \in Seq(Callers) /\ OneRefresh(calls', wire)
    BY <1>1, <2>1, <2>2, AskIs
  <2>4. TypeOK'
    BY <1>2, <2>1, <2>3, BoundsAssumption DEF IInv, TypeOK
  <2>5. CountsOK' /\ RefreshOK'
    BY <1>2, <2>1, <2>3 DEF IInv, CountsOK, RefreshOK
  <2>6. Announced'
    <3>1. svc.seq \in Nat
      BY Fields DEF IInv
    <3> QED
      BY <1>2, <2>1, <3>1 DEF IInv, Announced
  <2>7. Answered'
    BY <1>2, <2>2 DEF Answered, NoRefresh
  <2>8. Outrun'
    <3>1. pending \in Nat /\ left \in Nat /\ first \in Nat /\ MAX_COALESCED_REFRESHES \in Nat
      BY Fields DEF IInv
    <3> QED
      BY <1>2, <2>1, <3>1 DEF IInv, Outrun
  <2> QED
    BY <2>4, <2>5, <2>6, <2>7, <2>8 DEF IInv
<1>4. CASE Poll
  <2>1. calls' = Append(calls, "poll") /\ UNCHANGED <<pending, task, need, first>>
    BY <1>4 DEF Poll, refresh
  <2>2. /\ calls' \in Seq(Callers) /\ OneRefresh(calls', wire)
        /\ NoRefresh(calls, wire) => NoRefresh(calls', wire)
    BY <1>1, <2>1, AskIs
  <2>3. TypeOK'
    BY <1>2, <2>1, <2>2 DEF IInv, TypeOK
  <2>4. CountsOK' /\ RefreshOK'
    BY <1>2, <2>1, <2>2 DEF IInv, CountsOK, RefreshOK
  <2>5. Announced' /\ Answered' /\ Outrun'
    BY <1>2, <2>1 DEF IInv, Announced, Answered, Outrun
  <2> QED
    BY <2>3, <2>4, <2>5 DEF IInv
<1> QED
  BY <1>3, <1>4
-----------------------------------------------------------------------------
(* The theorems.                                                           *)

LEMMA SyncInit == Init => IInv
<1> SUFFICES ASSUME Init PROVE IInv
  OBVIOUS
<1>1. /\ 0 \in 0..MaxSeq /\ 1 \in 0..MaxSeq /\ 0 \in 0..MaxRuns /\ 1 \in 0..MaxRuns
      /\ 0 \in 0..MAX_COALESCED_REFRESHES /\ 0 \in 0..MaxTimeouts
  BY BoundsAssumption
<1>2. svc \in Snapshot /\ svc.run = 1 /\ svc.seq = 1 /\ NoSnapshot \in Snapshot
  BY <1>1 DEF Init, Snapshot, NoSnapshot
<1>3. gui \in [online : BOOLEAN, held : Snapshot]
  BY <1>2 DEF Init
<1>4. <<>> \in Seq(Callers) /\ <<>> \in Seq(Message) /\ OneRefresh(<<>>, <<>>) /\ NoRefresh(<<>>, <<>>)
  BY DEF OneRefresh, NoRefresh
<1>5. TypeOK
  BY <1>1, <1>2, <1>3, <1>4 DEF Init, TypeOK
<1>6. CountsOK /\ RefreshOK
  BY <1>2, <1>4 DEF Init, CountsOK, RefreshOK
<1>7. Announced /\ Answered /\ Outrun
  BY <1>2 DEF Init, Announced, Answered, Outrun
<1> QED
  BY <1>5, <1>6, <1>7 DEF IInv

LEMMA SyncStep == IInv /\ [Next]_vars => IInv'
<1> SUFFICES ASSUME IInv, [Next]_vars PROVE IInv'
  OBVIOUS
<1>1. CASE Change
  BY <1>1, ChangeKeeps
<1>2. CASE Serve \/ Refuse \/ CallTimesOut
  BY <1>2, BusKeeps
<1>3. CASE Crash
  BY <1>3, CrashKeeps
<1>4. CASE Boot
  BY <1>4, BootKeeps
<1>5. CASE Connect \/ Listen \/ ConnectFails
  BY <1>5, ConnectKeeps
<1>6. CASE FirstSnapshot \/ PollGot \/ PollFails
  BY <1>6, OthersReceiveKeeps
<1>7. CASE FirstFails \/ WatchNotices
  BY <1>7, DisconnectKeeps DEF FirstFails, WatchNotices
<1>8. CASE \E i \in DOMAIN wire : Signal(i) \/ ListenerFails(i) \/ SignalLost(i)
  BY <1>8, SignalKeeps, ListenerKeeps
<1>9. CASE RefreshGot
  BY <1>9, RefreshGotKeeps
<1>10. CASE RefreshFails
  BY <1>10, RefreshFailsKeeps
<1>11. CASE RefreshAsks \/ Poll
  BY <1>11, AskKeeps
<1>12. CASE UNCHANGED vars
  BY <1>12 DEF vars, service, refresh, guiVars, IInv, TypeOK, CountsOK, RefreshOK, Announced, Answered, Outrun
<1> QED
  BY <1>1, <1>2, <1>3, <1>4, <1>5, <1>6, <1>7, <1>8, <1>9, <1>10, <1>11, <1>12 DEF Next

\* The inductive invariant holds of every behaviour: one call of the refresh
\* task is under way at a time, a task that fetches has a fetch left, and in
\* the first run of the service no signal and no request is ahead of it.
THEOREM SyncInvariant == Spec => []IInv
  BY SyncInit, SyncStep, PTL DEF Spec

\* Until the service is restarted, the answer to a fetch of _notify_snapshot
\* covers the sequence it was made for, and before MAX_COALESCED_REFRESHES gives
\* up a signalled change there was a later change for each of the fetches,
\* however many changes, polls and lost calls there are.
THEOREM SyncFetchesCover == Spec => []FetchesCover
<1>1. IInv => FetchesCover
  <2> SUFFICES ASSUME IInv, svc.run = 1, Receives("refresh", "snapshot")
               PROVE  /\ Received.seq >= need
                      /\ GivesUp => pending >= first + MAX_COALESCED_REFRESHES
    BY DEF FetchesCover
  <2>1. wire \in Seq(Message) /\ wire # <<>>
    BY DEF IInv, TypeOK, Receives
  <2>2. Head(wire) = wire[1] /\ 1 \in DOMAIN wire /\ Head(wire) \in Message
    BY <2>1
  <2>3. Received.seq >= need /\ Received.seq \in 0..MaxSeq
    BY <2>2, Fields DEF IInv, Answered, Receives, Received
  <2>4. ASSUME GivesUp PROVE pending >= first + MAX_COALESCED_REFRESHES
    <3>1. task = "waiting"
      BY <2>2 DEF IInv, RefreshOK, NoRefresh, Receives
    <3>2. need + left >= first + MAX_COALESCED_REFRESHES /\ left = 1
      BY <2>4, <3>1 DEF IInv, Outrun, GivesUp
    <3>3. /\ need \in Nat /\ pending \in Nat /\ first \in Nat /\ Received.seq \in Nat
          /\ MAX_COALESCED_REFRESHES \in Nat
      BY <2>3, Fields DEF IInv
    <3>4. Received.seq < pending
      BY <2>3, <2>4, <3>3 DEF GivesUp, Largest
    <3> QED
      BY <2>3, <3>2, <3>3, <3>4
  <2> QED
    BY <2>3, <2>4
<1> QED
  BY <1>1, SyncInvariant, PTL
=============================================================================
