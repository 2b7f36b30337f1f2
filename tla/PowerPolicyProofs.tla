-------------------------- MODULE PowerPolicyProofs --------------------------
(***************************************************************************)
(* Proofs about PowerPolicy: what an apply and its rollback leave in the   *)
(* hardware, and the inductive invariant behind the published profile, the *)
(* transition hooks and what the auto-switch loop records, for any         *)
(* profiles, any policy and any number of use cases, changes of the supply *)
(* and failures.                                                           *)
(***************************************************************************)
EXTENDS PowerPolicy, FiniteSetTheorems, TLAPS

\* What the governors and EPPs of the CPUs can be together: under the
\* performance governor there is no other EPP.
IsHardware(h) ==
    /\ h = Status(h.ppd, h.rapl, h.gov, h.epp, h.misc)
    /\ h.gov = "performance" => h.epp = "performance"
    /\ h.gov = Mixed => h.epp \in {"performance", Mixed}
-----------------------------------------------------------------------------
(* The hardware.                                                           *)

\* A group of files after its writes.
After(old, v, how) ==
    IF how = "ok" THEN v ELSE IF how = "partial" /\ old # v THEN Mixed ELSE old

LEMMA StatusFields ==
  ASSUME NEW p, NEW r, NEW g, NEW e, NEW m
  PROVE  LET s == Status(p, r, g, e, m)
         IN  s.ppd = p /\ s.rapl = r /\ s.gov = g /\ s.epp = e /\ s.misc = m
  BY DEF Status

LEMMA WrittenIs ==
  ASSUME NEW p, NEW r, NEW g, NEW e, NEW m, NEW v, NEW how
  PROVE  LET s == Status(p, r, g, e, m)
         IN  /\ Written(s, "rapl", v, how) = Status(p, After(r, v, how), g, e, m)
             /\ Written(s, "gov", v, how) = Status(p, r, After(g, v, how), e, m)
             /\ Written(s, "epp", v, how) = Status(p, r, g, After(e, v, how), m)
             /\ Written(s, "misc", v, how) = Status(p, r, g, e, After(m, v, how))
<1>1. CASE how = "ok"
  BY <1>1 DEF Written, Status, After
<1>2. CASE how = "partial"
  BY <1>2 DEF Written, Status, After
<1>3. CASE how # "ok" /\ how # "partial"
  BY <1>3 DEF Written, Status, After
<1> QED
  BY <1>1, <1>2, <1>3

\* The EPP that intel_pstate leaves with a governor.
Forced(g, e) ==
    IF g = "performance" THEN "performance"
    ELSE IF g = Mixed /\ e # "performance" THEN Mixed ELSE e

LEMMA SetGovernorIs ==
  ASSUME NEW p, NEW r, NEW g, NEW e, NEW m, NEW v, NEW how
  PROVE  SetGovernor(Status(p, r, g, e, m), v, how) =
             Status(p, r, After(g, v, how), Forced(After(g, v, how), e), m)
<1> DEFINE a == After(g, v, how)
           w == Status(p, r, a, e, m)
<1>1. Written(Status(p, r, g, e, m), "gov", v, how) = w
  BY WrittenIs
<1>2. w.gov = a /\ w.epp = e
  BY StatusFields
<1>3. \A x : [w EXCEPT !.epp = x] = Status(p, r, a, x, m)
  BY DEF Status
<1> HIDE DEF a, w
<1>4. SetGovernor(Status(p, r, g, e, m), v, how) =
        CASE w.gov = "performance" -> [w EXCEPT !.epp = "performance"]
          [] w.gov = Mixed /\ w.epp # "performance" -> [w EXCEPT !.epp = Mixed]
          [] OTHER -> w
  BY <1>1 DEF SetGovernor
<1>5. SetGovernor(Status(p, r, g, e, m), v, how) = Status(p, r, a, Forced(a, e), m)
  <2>1. CASE a = "performance"
    BY <1>2, <1>3, <1>4, <2>1 DEF Forced, Mixed
  <2>2. CASE a = Mixed /\ e # "performance"
    BY <1>2, <1>3, <1>4, <2>2 DEF Forced, Mixed
  <2>3. CASE a # "performance" /\ ~(a = Mixed /\ e # "performance")
    BY <1>2, <1>4, <2>3 DEF Forced, w
  <2> QED
    BY <2>1, <2>2, <2>3
<1> QED
  BY <1>5 DEF a

\* How the write of an EPP fares under a governor.
EppHow(g, v, how) ==
    IF v \in {"performance", Mixed} THEN how
    ELSE IF g = "performance" THEN "refused"
    ELSE IF g = Mixed /\ how = "ok" THEN "partial" ELSE how

LEMMA WriteEppIs ==
  ASSUME NEW p, NEW r, NEW g, NEW e, NEW m, NEW v, NEW how
  PROVE  WriteEpp(Status(p, r, g, e, m), v, how) =
             Status(p, r, g, After(e, v, EppHow(g, v, how)), m)
<1> DEFINE s == Status(p, r, g, e, m)
           other == v \notin {"performance", Mixed}
           c == CASE other /\ s.gov = "performance" -> "refused"
                  [] other /\ s.gov = Mixed /\ how = "ok" -> "partial"
                  [] OTHER -> how
<1>1. s.gov = g
  BY StatusFields
<1> HIDE DEF s
<1>2. c = EppHow(g, v, how)
  BY <1>1 DEF EppHow, Mixed
<1>3. WriteEpp(s, v, how) = Written(s, "epp", v, c)
  BY Zenon DEF WriteEpp
<1> HIDE DEF c
<1> QED
  BY <1>2, <1>3, WrittenIs DEF s

LEMMA SetPpdIs ==
  ASSUME NEW p, NEW r, NEW g, NEW e, NEW m, NEW v, NEW how
  PROVE  LET s == Status(p, r, g, e, m)
         IN  /\ PpdAccepts(s, how) <=> how = "ok" /\ g = "powersave"
             /\ SetPpdProfile(s, v, how) =
                    IF how = "ok" /\ g = "powersave" THEN Status(v, r, g, "daemon", m) ELSE s
<1> DEFINE s == Status(p, r, g, e, m)
<1>1. s.gov = g
  BY StatusFields
<1>2. [s EXCEPT !.ppd = v, !.epp = "daemon"] = Status(v, r, g, "daemon", m)
  <2>1. [s EXCEPT !.ppd = v] = Status(v, r, g, e, m)
    BY DEF Status
  <2>2. [Status(v, r, g, e, m) EXCEPT !.epp = "daemon"] = Status(v, r, g, "daemon", m)
    BY DEF Status
  <2>3. [s EXCEPT !.ppd = v, !.epp = "daemon"] = [[s EXCEPT !.ppd = v] EXCEPT !.epp = "daemon"]
    BY DEF Status
  <2> QED
    BY <2>1, <2>2, <2>3
<1> HIDE DEF s
<1>3. /\ PpdAccepts(s, how) <=> how = "ok" /\ g = "powersave"
      /\ SetPpdProfile(s, v, how) =
             IF how = "ok" /\ g = "powersave" THEN Status(v, r, g, "daemon", m) ELSE s
  BY <1>1, <1>2 DEF PpdAccepts, SetPpdProfile
<1> QED
  BY <1>3 DEF s

\* The three writes in a row.
LEMMA WriteLimitsIs ==
  ASSUME NEW p, NEW r, NEW g, NEW e, NEW m, NEW d, NEW f
  PROVE  LET g1 == After(g, d.gov, f["gov"])
             e1 == Forced(g1, e)
         IN  WriteLimits(Status(p, r, g, e, m), d, f) =
                 Status(p, After(r, d.rapl, f["rapl"]), g1,
                        After(e1, d.epp, EppHow(g1, d.epp, f["epp"])), After(m, d.misc, f["misc"]))
<1> DEFINE r1 == After(r, d.rapl, f["rapl"])
           g1 == After(g, d.gov, f["gov"])
           e1 == Forced(g1, e)
           e2 == After(e1, d.epp, EppHow(g1, d.epp, f["epp"]))
           limited == Written(Status(p, r, g, e, m), "rapl", d.rapl, f["rapl"])
           governed == SetGovernor(limited, d.gov, f["gov"])
           preferred == WriteEpp(governed, d.epp, f["epp"])
<1>1. limited = Status(p, r1, g, e, m)
  BY WrittenIs
<1>2. governed = Status(p, r1, g1, e1, m)
  BY <1>1, SetGovernorIs
<1>3. preferred = Status(p, r1, g1, e2, m)
  BY <1>2, WriteEppIs
<1>4. WriteLimits(Status(p, r, g, e, m), d, f) = Written(preferred, "misc", d.misc, f["misc"])
  BY Zenon DEF WriteLimits
<1>5. Written(preferred, "misc", d.misc, f["misc"]) =
        Status(p, r1, g1, e2, After(m, d.misc, f["misc"]))
  BY <1>3, WrittenIs
<1> QED
  BY <1>4, <1>5

\* A governor and an EPP that can be together.
Fit(g, e) ==
    /\ g = "performance" => e = "performance"
    /\ g = Mixed => e \in {"performance", Mixed}

LEMMA IsHardwareIs ==
  ASSUME NEW p, NEW r, NEW g, NEW e, NEW m
  PROVE  IsHardware(Status(p, r, g, e, m)) <=> Fit(g, e)
<1> DEFINE s == Status(p, r, g, e, m)
<1>1. s.ppd = p /\ s.rapl = r /\ s.gov = g /\ s.epp = e /\ s.misc = m
  BY StatusFields
<1> HIDE DEF s
<1>2. s = Status(p, r, g, e, m)
  BY DEF s
<1>3. IsHardware(s) <=> Fit(g, e)
  BY <1>1, <1>2 DEF IsHardware, Fit
<1> QED
  BY <1>3 DEF s

LEMMA FitKeeps ==
  ASSUME NEW g, NEW e, NEW v, NEW how
  PROVE  /\ Fit(g, Forced(g, e))
         /\ Fit(g, e) /\ (v # Mixed \/ g # "performance") => Fit(g, After(e, v, EppHow(g, v, how)))
  BY DEF Fit, Forced, After, EppHow, Mixed

\* One step of the transaction keeps the hardware consistent ...
LEMMA StepKeeps ==
  ASSUME NEW h, IsHardware(h), NEW v, NEW how
  PROVE  /\ IsHardware(SetGovernor(h, v, how)) /\ IsHardware(SetPpdProfile(h, v, how))
         /\ SetGovernor(h, v, how).gov = After(h.gov, v, how)
         /\ SetPpdProfile(h, v, how).gov = h.gov
<1> DEFINE g1 == After(h.gov, v, how)
<1>1. h = Status(h.ppd, h.rapl, h.gov, h.epp, h.misc) /\ Fit(h.gov, h.epp)
  BY DEF IsHardware, Fit
<1>2. SetGovernor(h, v, how) = Status(h.ppd, h.rapl, g1, Forced(g1, h.epp), h.misc)
  BY <1>1, SetGovernorIs
<1>3. SetPpdProfile(h, v, how) = IF how = "ok" /\ h.gov = "powersave"
                                 THEN Status(v, h.rapl, h.gov, "daemon", h.misc) ELSE h
  BY <1>1, SetPpdIs
<1>4. h.gov = "powersave" => Fit(h.gov, "daemon")
  BY DEF Fit, Mixed
<1>5. SetGovernor(h, v, how).gov = After(h.gov, v, how) /\ SetPpdProfile(h, v, how).gov = h.gov
  BY <1>2, <1>3, StatusFields
<1> QED
  BY <1>2, <1>3, <1>4, <1>5, FitKeeps, IsHardwareIs

\* ... and so do the writes that follow the daemon's, unless a mixed EPP is
\* written back under a governor that is still performance.
LEMMA LimitsKeep ==
  ASSUME NEW h, IsHardware(h), NEW d, NEW f,
         d.epp = Mixed => After(h.gov, d.gov, f["gov"]) # "performance"
  PROVE  IsHardware(WriteLimits(h, d, f))
<1> DEFINE g1 == After(h.gov, d.gov, f["gov"])
           e1 == Forced(g1, h.epp)
           e2 == After(e1, d.epp, EppHow(g1, d.epp, f["epp"]))
<1>1. h = Status(h.ppd, h.rapl, h.gov, h.epp, h.misc)
  BY DEF IsHardware
<1>2. WriteLimits(h, d, f) = Status(h.ppd, After(h.rapl, d.rapl, f["rapl"]), g1, e2,
                                    After(h.misc, d.misc, f["misc"]))
  BY <1>1, WriteLimitsIs
<1>3. Fit(g1, e1)
  BY FitKeeps
<1>4. Fit(g1, e2)
  BY <1>3, FitKeeps
<1> HIDE DEF g1, e2
<1> QED
  BY <1>2, <1>4, IsHardwareIs

\* The two ways through the groups, when nothing fails: from any hardware to
\* any other.
LEMMA ReachesTarget ==
  ASSUME NEW h, IsHardware(h), NEW d, IsHardware(d)
  PROVE  LET calm == SetGovernor(h, "powersave", "ok")
         IN  /\ PpdAccepts(calm, "ok")
             /\ WriteLimits(SetPpdProfile(calm, d.ppd, "ok"), d, AllOk) = d
<1> DEFINE calm == SetGovernor(h, "powersave", "ok")
           e1 == Forced("powersave", h.epp)
           set == SetPpdProfile(calm, d.ppd, "ok")
           e2 == Forced(d.gov, "daemon")
<1>1. h = Status(h.ppd, h.rapl, h.gov, h.epp, h.misc)
  BY DEF IsHardware
<1>2. \A o, v : After(o, v, "ok") = v
  BY DEF After
<1>3. calm = Status(h.ppd, h.rapl, "powersave", e1, h.misc)
  BY <1>1, <1>2, SetGovernorIs
<1>4. PpdAccepts(calm, "ok")
  BY <1>3, StatusFields DEF PpdAccepts
<1>5. set = Status(d.ppd, h.rapl, "powersave", "daemon", h.misc)
  BY <1>3, SetPpdIs
<1>6. \A x \in {"rapl", "gov", "epp", "misc"} : AllOk[x] = "ok"
  BY DEF AllOk, Groups
<1>7. WriteLimits(set, d, AllOk) =
        Status(d.ppd, d.rapl, d.gov, After(e2, d.epp, EppHow(d.gov, d.epp, "ok")), d.misc)
  BY <1>2, <1>5, <1>6, WriteLimitsIs
<1>8. After(e2, d.epp, EppHow(d.gov, d.epp, "ok")) = d.epp
  <2>1. Fit(d.gov, d.epp)
    BY DEF IsHardware, Fit
  <2> QED
    BY <2>1 DEF Fit, After, EppHow, Mixed
<1>9. d = Status(d.ppd, d.rapl, d.gov, d.epp, d.misc)
  BY DEF IsHardware
<1> QED
  BY <1>4, <1>7, <1>8, <1>9

LEMMA OneFailureIs ==
  ASSUME NEW f \in OneFailure
  PROVE  f["pre"] = "ok" \/ f["gov"] = "ok"
<1>1. AllOk["pre"] = "ok" /\ AllOk["gov"] = "ok"
  BY DEF AllOk, Groups
<1>2. ASSUME NEW g \in Groups, NEW how, f = [AllOk EXCEPT ![g] = how] PROVE f["pre"] = "ok" \/ f["gov"] = "ok"
  <2>1. g # "pre" \/ g # "gov"
    OBVIOUS
  <2> QED
    BY <1>2, <2>1 DEF AllOk, Groups
<1> QED
  BY <1>1, <1>2 DEF OneFailure

\* A rollback in which at most one group fails leaves consistent hardware.
LEMMA RestoreKeeps ==
  ASSUME NEW h, IsHardware(h), NEW previous, IsHardware(previous), NEW f \in OneFailure
  PROVE  IsHardware(RestorePowerStatus(h, previous, f))
<1> DEFINE calm == SetGovernor(h, "powersave", f["pre"])
           set == SetPpdProfile(calm, previous.ppd, f["ppd"])
<1>1. IsHardware(calm) /\ calm.gov = After(h.gov, "powersave", f["pre"])
  BY StepKeeps
<1>2. IsHardware(set) /\ set.gov = calm.gov
  BY <1>1, StepKeeps
<1>3. RestorePowerStatus(h, previous, f) = WriteLimits(set, previous, f)
  BY Zenon DEF RestorePowerStatus
<1> HIDE DEF set, calm
<1>4. previous.epp = Mixed => After(set.gov, previous.gov, f["gov"]) # "performance"
  <2>1. previous.epp = Mixed => previous.gov # "performance"
    BY DEF IsHardware, Mixed
  <2>2. CASE f["gov"] = "ok"
    BY <2>1, <2>2 DEF After
  <2>3. CASE f["pre"] = "ok"
    <3>1. set.gov = "powersave"
      BY <1>1, <1>2, <2>3 DEF After
    <3> QED
      BY <2>1, <3>1 DEF After, Mixed
  <2> QED
    BY <2>2, <2>3, OneFailureIs
<1> QED
  BY <1>2, <1>3, <1>4, LimitsKeep

LEMMA AttemptKeeps ==
  ASSUME NEW h, IsHardware(h), NEW d, d.epp # Mixed, NEW f
  PROVE  IsHardware(Attempt(h, d, f))
<1> DEFINE calm == SetGovernor(h, "powersave", f["pre"])
           set == SetPpdProfile(calm, d.ppd, f["ppd"])
<1>1. IsHardware(calm) /\ IsHardware(set)
  BY StepKeeps
<1>2. Attempt(h, d, f) = IF PpdAccepts(calm, f["ppd"]) THEN WriteLimits(set, d, f) ELSE calm
  BY Zenon DEF Attempt
<1> HIDE DEF set, calm
<1> QED
  BY <1>1, <1>2, LimitsKeep

\* apply_power_profile: it succeeds when no write fails and then reaches the
\* definition; when its rollback does not fail, the hardware is as it was.
LEMMA ApplyIs ==
  ASSUME NEW h, IsHardware(h), NEW d, IsHardware(d), d.epp # Mixed,
         NEW f, NEW r \in OneFailure
  PROVE  LET a == ApplyPowerProfile(h, d, f, r)
         IN  /\ IsHardware(a.hw) /\ a.ok \in BOOLEAN
             /\ a.ok => a.hw = d
             /\ f = AllOk => a.ok
             /\ r = AllOk /\ ~a.ok => a.hw = h
<1> DEFINE tried == Attempt(h, d, f)
           ok == f = AllOk /\ tried = d
           left == IF ok THEN tried ELSE RestorePowerStatus(tried, h, r)
           a == ApplyPowerProfile(h, d, f, r)
<1>1. a = [ok |-> ok, hw |-> left]
  BY Zenon DEF ApplyPowerProfile
<1>2. a.ok = ok /\ a.hw = left
  BY <1>1
<1>3. IsHardware(tried)
  BY AttemptKeeps
<1>4. AllOk["pre"] = "ok" /\ AllOk["ppd"] = "ok"
  BY DEF AllOk, Groups
<1>5. f = AllOk => tried = d
  BY <1>4, ReachesTarget DEF Attempt
<1>6. r = AllOk => RestorePowerStatus(tried, h, r) = h
  BY <1>3, <1>4, ReachesTarget DEF RestorePowerStatus
<1>7. IsHardware(RestorePowerStatus(tried, h, r))
  BY <1>3, RestoreKeeps
<1> HIDE DEF tried, a
<1>8. /\ IsHardware(a.hw) /\ a.ok \in BOOLEAN
      /\ a.ok => a.hw = d
      /\ f = AllOk => a.ok
      /\ r = AllOk /\ ~a.ok => a.hw = h
  BY <1>2, <1>3, <1>5, <1>6, <1>7
<1> QED
  BY <1>8 DEF a

LEMMA DefsAreHardware == \A d \in Defs : IsHardware(d) /\ d.epp # Mixed
  BY DefsAssumption DEF IsHardware

\* What the hardware function may do to the hardware, and what it costs.
LEMMA OutcomeIs ==
  ASSUME IsHardware(hw), faults \in Nat, NEW d \in Defs, NEW o \in Outcomes(d)
  PROVE  /\ IsHardware(o.res.hw) /\ o.res.ok \in BOOLEAN /\ o.had \in Nat
         /\ o.res.ok => o.res.hw = d
         /\ ~o.res.ok => o.had > faults
         /\ ~o.res.ok /\ o.had <= faults + 1 => o.res.hw = hw
<1>1. PICK m \in Mishaps(MaxFaults - faults) :
        o = [res |-> ApplyPowerProfile(hw, d, m[1], m[2]), had |-> faults + Failures(m)]
  BY DEF Outcomes
<1>2. AllOk \in OneFailure
  BY DEF OneFailure
<1>3. m[2] \in OneFailure
  BY <1>2 DEF Mishaps
<1> DEFINE a == ApplyPowerProfile(hw, d, m[1], m[2])
<1>4. o.res = a /\ o.had = faults + Failures(m)
  BY <1>1
<1>5. /\ IsHardware(a.hw) /\ a.ok \in BOOLEAN
      /\ a.ok => a.hw = d
      /\ m[1] = AllOk => a.ok
      /\ m[2] = AllOk /\ ~a.ok => a.hw = hw
  BY <1>3, ApplyIs, DefsAreHardware
<1>6. /\ Failures(m) \in {0, 1, 2} /\ (Failures(m) = 0 => m[1] = AllOk)
      /\ Failures(m) = 1 => m[2] = AllOk
  BY DEF Failures
<1> HIDE DEF a
<1> QED
  BY <1>4, <1>5, <1>6
-----------------------------------------------------------------------------
(* The inductive invariant.                                                *)

Labels == {"boot", "dead", "idle", "cap", "apply", "wait", "verify", "look", "last", "target",
           "sleep", "poll", "lock", "hook"}
\* Inside _apply_power_profile.
Applying == {"cap", "apply", "wait", "verify", "look"}
Supplies == BOOLEAN \cup {Unknown}
PolicyValues == (Names \X Names) \cup {Unknown}
Frames == [at : Labels, name : Names \cup {NoProfile}, keep : BOOLEAN, ret : {"idle", "last"}]
Queues == [by : Tasks \cup {"none", "nobody"}, def : Defs \cup {Unknown}]
Snapshots == [applied : Names \cup {NoProfile}, seen : Defs \cup {Unknown}, ac : Supplies,
              acVer : Nat, stale : BOOLEAN]
Loops == [ac : Supplies, acVer : Nat, pol : PolicyValues, polVer : Nat,
          lastAc : Supplies, lastPol : PolicyValues]

\* The configuration refers only to profiles it has.
ConfigOK ==
    /\ Builtin \subseteq DOMAIN defs /\ DOMAIN defs \subseteq Names
    /\ \A n \in DOMAIN defs : defs[n] \in Defs
    /\ want \in DOMAIN defs /\ auto \in Policies(DOMAIN defs)

HardwareOK == IsHardware(hw) /\ faults \in Nat

\* An apply belongs to the task that waits for it, and is of a definition.
QueueOK ==
    /\ q \in Queues
    /\ q.by \in Tasks => task[q.by].at = "wait" /\ q.def \in Defs

\* Only who holds the mutation lock applies; start-up holds none, but then the
\* loop has not been started.
TaskOK ==
    /\ task \in [Tasks -> Frames] /\ lock \in Tasks \cup {"free"}
    /\ \A t \in Tasks : task[t].at \in Applying => task[t].name \in DOMAIN defs
    /\ task["loop"].at \in Applying => lock = "loop"
    /\ task["user"].at # "idle" => lock = "user" \/ (lock = "free" /\ task["loop"].at = "dead")
    /\ task["user"].at = "idle" => lock # "user"
    /\ task["user"].at = "boot" => lock = "free"

\* The published profile is real, or the use case in progress still refreshes.
Real(s, d) ==
    s.stale = FALSE /\ s.applied # NoProfile => s.applied \in DOMAIN d /\ d[s.applied] = s.seen
Unrefreshed(f) == f.at \in {"last", "target"} \/ (f.at \in Applying /\ f.ret = "last")
SnapOK ==
    /\ snap \in Snapshots
    /\ Real(snap, defs) \/ Unrefreshed(task["user"])

\* Two observations of the supply made at the same version are the same.
Agree(v, x, w, y) == v = w /\ x # Unknown /\ y # Unknown => x = y
SupplySeen(s) == s.acVer <= acVer /\ Agree(s.acVer, s.ac, acVer, supply)
WorldOK ==
    /\ acVer \in Nat /\ polVer \in Nat /\ supply \in BOOLEAN
    /\ hooks \subseteq Nat \X Nat /\ lp \in Loops
    /\ SupplySeen(snap)

\* The supply and the policy that a hook has not been run for.
Fresh(v, p) == (\A h \in hooks : h[1] < v) \/ (\A h \in hooks : h[2] < p)

\* What the loop has dealt with is the newest it ran a hook for.
Newest(h, s) ==
    /\ \A g \in hooks : g[1] <= h[1] /\ g[2] <= h[2]
    /\ h[2] = polVer => lp.lastPol = Policy
    /\ Agree(h[1], lp.lastAc, acVer, supply) /\ Agree(h[1], lp.lastAc, s.acVer, s.ac)
HooksFor(s) ==
    /\ \A h \in hooks : h[1] <= s.acVer /\ h[2] <= polVer /\ (h[2] = polVer => auto.on)
    /\ lp.lastAc = Unknown => \A h \in hooks : h[2] < polVer
    /\ lp.lastAc # Unknown => \E h \in hooks : Newest(h, s)
HooksOK == HooksFor(snap)

\* What the loop knows where it is: the policy it read on waking, the supply it
\* polled, and under the lock what it is applying.
PollOK == task["loop"].at = "poll" /\ lp.pol # lp.lastPol => \A h \in hooks : h[2] < polVer
Polled(s) ==
    /\ lp.ac # Unknown /\ lp.acVer <= s.acVer
    /\ Agree(lp.acVer, lp.ac, acVer, supply) /\ Agree(lp.acVer, lp.ac, s.acVer, s.ac)
    /\ \A h \in hooks : h[1] <= lp.acVer
    /\ Fresh(lp.acVer, polVer)
Decided ==
    /\ lp.polVer = polVer /\ lp.pol = Policy /\ auto.on
    /\ task["loop"].name = PolicyTarget(lp.ac)
LoopFor(s) ==
    /\ PollOK
    /\ task["loop"].at \in {"lock"} \cup Applying => Polled(s)
    /\ task["loop"].at \in Applying => Decided
LoopOK == LoopFor(snap)

IInv ==
    /\ ConfigOK /\ HardwareOK /\ QueueOK /\ TaskOK /\ SnapOK /\ WorldOK /\ HooksOK /\ LoopOK
-----------------------------------------------------------------------------
(* Frames, and the observation of the supply.                              *)

LEMMA AtIs ==
  ASSUME NEW l \in Labels
  PROVE  /\ At(l) \in Frames
         /\ At(l).at = l /\ At(l).name = NoProfile /\ At(l).keep = FALSE /\ At(l).ret = "idle"
  BY DEF At, Frames

LEMMA MovesIs ==
  ASSUME NEW f \in Frames, NEW l \in Labels
  PROVE  LET g == [f EXCEPT !.at = l]
         IN  g \in Frames /\ g.at = l /\ g.name = f.name /\ g.keep = f.keep /\ g.ret = f.ret
  BY DEF Frames

LEMMA RetIs ==
  ASSUME NEW f \in Frames, NEW r \in {"idle", "last"}
  PROVE  LET g == [f EXCEPT !.ret = r]
         IN  g \in Frames /\ g.at = f.at /\ g.name = f.name /\ g.ret = r
  BY DEF Frames

\* The frames in which an apply begins.
LEMMA CapIs ==
  ASSUME NEW n \in Names
  PROVE  /\ LET g == [At("cap") EXCEPT !.name = n]
            IN  g \in Frames /\ g.at = "cap" /\ g.name = n /\ g.ret = "idle"
         /\ LET g == [At("cap") EXCEPT !.name = n, !.keep = TRUE]
            IN  g \in Frames /\ g.at = "cap" /\ g.name = n /\ g.ret = "idle"
<1>1. At("cap") \in Frames /\ At("cap").at = "cap" /\ At("cap").ret = "idle"
  BY AtIs DEF Labels
<1> DEFINE c == At("cap")
           b == [c EXCEPT !.name = n]
<1> HIDE DEF c
<1>2. b \in Frames /\ b.at = "cap" /\ b.name = n /\ b.ret = "idle"
  BY <1>1 DEF Frames, c
<1>3. LET g == [b EXCEPT !.keep = TRUE]
      IN  g \in Frames /\ g.at = "cap" /\ g.name = n /\ g.ret = "idle"
  <2> HIDE DEF b
  <2> QED
    BY <1>2 DEF Frames
<1>4. [c EXCEPT !.name = n, !.keep = TRUE] = [b EXCEPT !.keep = TRUE]
  OBVIOUS
<1> HIDE DEF b
<1> QED
  BY <1>2, <1>3, <1>4 DEF c, b

CapFrame(n, r) == [At("cap") EXCEPT !.name = n, !.ret = r]
LEMMA CapFrameIs ==
  ASSUME NEW n \in Names, NEW r \in {"idle", "last"}
  PROVE  LET g == CapFrame(n, r) IN g \in Frames /\ g.at = "cap" /\ g.name = n /\ g.ret = r
<1> DEFINE b == [At("cap") EXCEPT !.name = n]
<1>1. b \in Frames /\ b.at = "cap" /\ b.name = n
  BY CapIs
<1>2. CapFrame(n, r) = [b EXCEPT !.ret = r]
  BY DEF CapFrame
<1> HIDE DEF b
<1>3. LET g == [b EXCEPT !.ret = r] IN g \in Frames /\ g.at = "cap" /\ g.name = n /\ g.ret = r
  BY <1>1, RetIs
<1> QED
  BY <1>2, <1>3

\* One task moves, the other does not.
LEMMA PlaceIs ==
  ASSUME task \in [Tasks -> Frames], NEW t \in Tasks, NEW f \in Frames,
         task' = [task EXCEPT ![t] = f]
  PROVE  task' \in [Tasks -> Frames] /\ task'[t] = f /\ \A u \in Tasks \ {t} : task'[u] = task[u]
  OBVIOUS

LEMMA PlaceAtIs ==
  ASSUME task \in [Tasks -> Frames], NEW t \in Tasks, NEW l \in Labels,
         task' = [task EXCEPT ![t].at = l]
  PROVE  /\ task' \in [Tasks -> Frames]
         /\ task'[t].at = l /\ task'[t].name = task[t].name /\ task'[t].ret = task[t].ret
         /\ \A u \in Tasks \ {t} : task'[u] = task[u]
<1> DEFINE f == [task[t] EXCEPT !.at = l]
<1>1. f \in Frames /\ f.at = l /\ f.name = task[t].name /\ f.ret = task[t].ret
  BY MovesIs
<1>2. task' = [task EXCEPT ![t] = f]
  OBVIOUS
<1> HIDE DEF f
<1> QED
  BY <1>1, <1>2, PlaceIs

\* The published profile is one the hardware satisfies.
LEMMA AppliedNameIs == AppliedName \in Matched \/ AppliedName = NoProfile
<1>1. Cardinality(Matched) = 1 => Matched # {}
  BY FS_EmptySet
<1>2. Matched # {} => (CHOOSE n \in Matched : TRUE) \in Matched
  OBVIOUS
<1> QED
  BY <1>1, <1>2 DEF AppliedName

LEMMA ObservationIs ==
  ASSUME ConfigOK, WorldOK
  PROVE  /\ Observation \in Snapshots /\ Real(Observation, defs)
         /\ Observation.acVer = acVer /\ Observation.ac = supply
<1> DEFINE a == AppliedName
           e == IF hw \in Defs THEN hw ELSE Unknown
           o == Observation
<1>1. a = NoProfile \/ (a \in DOMAIN defs /\ defs[a] = hw)
  BY AppliedNameIs DEF Matched
<1>2. a \in Names \cup {NoProfile} /\ (a # NoProfile => a \in DOMAIN defs /\ defs[a] = e)
  BY <1>1 DEF ConfigOK
<1>3. e \in Defs \cup {Unknown}
  OBVIOUS
<1>4. supply \in Supplies /\ acVer \in Nat /\ FALSE \in BOOLEAN
  BY DEF WorldOK, Supplies
<1>5. o = [applied |-> a, seen |-> e, ac |-> supply, acVer |-> acVer, stale |-> FALSE]
  BY DEF Observation
<1> HIDE DEF a, e, o
<1>6. o \in Snapshots
  BY <1>2, <1>3, <1>4, <1>5 DEF Snapshots
<1>7. o.applied = a /\ o.seen = e /\ o.acVer = acVer /\ o.ac = supply
  BY <1>5
<1>8. Real(o, defs)
  BY <1>2, <1>7 DEF Real
<1> QED
  BY <1>6, <1>7, <1>8 DEF o

\* _refresh_power, however the read turns out: what is then published is real,
\* or is marked, and the supply it shows is the present one or the one it
\* showed before.
LEMMA RefreshIs ==
  ASSUME ConfigOK, HardwareOK, QueueOK, SnapOK, WorldOK, NEW read, RefreshPower(read)
  PROVE  /\ snap' \in Snapshots /\ Real(snap', defs)
         /\ \/ snap'.acVer = snap.acVer /\ snap'.ac = snap.ac
            \/ snap'.acVer = acVer /\ snap'.ac \in {supply, Unknown}
         /\ q' \in Queues /\ q'.by \notin Tasks /\ q.by \notin Tasks
         /\ faults' \in Nat
<1>1. q \in Queues /\ snap \in Snapshots /\ faults \in Nat
  BY DEF QueueOK, SnapOK, HardwareOK
<1>2. "none" \notin Tasks /\ "nobody" \notin Tasks
  BY DEF Tasks
<1>3. \A n \in Nat : Charge(n) => faults' \in Nat
  BY <1>1 DEF Charge
<1>4. LET p == [IdleQueue EXCEPT !.by = "nobody"] IN p \in Queues /\ p.by = "nobody"
  BY DEF IdleQueue, Queues
<1>5. CASE read = "ok"
  <2>1. q.by = "none" /\ snap' = Observation /\ q' = q /\ faults' = faults
    BY <1>5 DEF RefreshPower
  <2> QED
    BY <1>1, <1>2, <2>1, ObservationIs
<1>6. CASE read = "blind"
  <2> DEFINE o == Observation
             a == [o EXCEPT !.applied = NoProfile]
             b == [a EXCEPT !.seen = Unknown]
             c == [b EXCEPT !.ac = Unknown]
  <2>1. q.by = "none" /\ Charge(2) /\ q' = q
        /\ snap' = [Observation EXCEPT !.applied = NoProfile, !.seen = Unknown, !.ac = Unknown]
    BY <1>6 DEF RefreshPower
  <2>2. snap' = c
    BY <2>1
  <2>3. o \in Snapshots /\ o.acVer = acVer
    BY ObservationIs
  <2> HIDE DEF o
  <2>4. a \in Snapshots /\ a.applied = NoProfile /\ a.acVer = acVer
    BY <2>3 DEF Snapshots
  <2> HIDE DEF a
  <2>5. b \in Snapshots /\ b.applied = NoProfile /\ b.acVer = acVer
    BY <2>4 DEF Snapshots
  <2> HIDE DEF b
  <2>6. c \in Snapshots /\ c.applied = NoProfile /\ c.acVer = acVer /\ c.ac = Unknown
    BY <2>5 DEF Snapshots, Supplies
  <2> HIDE DEF c
  <2>7. Real(snap', defs)
    BY <2>2, <2>6 DEF Real
  <2> QED
    BY <1>1, <1>2, <1>3, <2>1, <2>2, <2>6, <2>7
<1>7. CASE read = "failed"
  <2>1. CanCall /\ snap' = [snap EXCEPT !.stale = TRUE]
        /\ IF Poisoned THEN q' = q /\ faults' = faults
                       ELSE Charge(2) /\ q' = [IdleQueue EXCEPT !.by = "nobody"]
    BY <1>7 DEF RefreshPower
  <2>2. snap' \in Snapshots /\ snap'.stale = TRUE /\ snap'.acVer = snap.acVer /\ snap'.ac = snap.ac
    BY <1>1, <2>1 DEF Snapshots
  <2>3. Real(snap', defs)
    BY <2>2 DEF Real
  <2>4. q.by \notin Tasks /\ q' \in Queues /\ q'.by \notin Tasks /\ faults' \in Nat
    BY <1>1, <1>2, <1>3, <1>4, <2>1 DEF CanCall, Poisoned
  <2> QED
    BY <2>2, <2>3, <2>4
<1> QED
  BY <1>5, <1>6, <1>7 DEF RefreshPower

\* A new observation of the supply fits all that has been seen and done before.
LEMMA SeenIs ==
  ASSUME SnapOK, WorldOK, HooksOK, LoopOK, NEW s \in Snapshots,
         \/ s.acVer = snap.acVer /\ s.ac = snap.ac
         \/ s.acVer = acVer /\ s.ac \in {supply, Unknown}
  PROVE  SupplySeen(s) /\ HooksFor(s) /\ LoopFor(s)
<1>1. /\ SupplySeen(snap) /\ acVer \in Nat /\ hooks \subseteq Nat \X Nat
      /\ snap.acVer \in Nat /\ s.acVer \in Nat /\ lp.acVer \in Nat
  BY DEF WorldOK, SnapOK, Snapshots, Loops
<1>2. CASE s.acVer = snap.acVer /\ s.ac = snap.ac
  <2>1. SupplySeen(s)
    BY <1>1, <1>2 DEF SupplySeen
  <2>2. \A h \in hooks : Newest(h, snap) => Newest(h, s)
    BY <1>2 DEF Newest
  <2>3. HooksFor(s)
    BY <1>2, <2>2 DEF HooksOK, HooksFor
  <2>4. LoopFor(s)
    BY <1>2 DEF LoopOK, LoopFor, Polled
  <2> QED
    BY <2>1, <2>3, <2>4
<1>3. CASE s.acVer = acVer /\ s.ac \in {supply, Unknown}
  <2>1. SupplySeen(s) /\ snap.acVer <= s.acVer
    BY <1>1, <1>3 DEF SupplySeen, Agree
  <2>2. \A h \in hooks : Newest(h, snap) => Newest(h, s)
    BY <1>3 DEF Newest, Agree
  <2>3. \A h \in hooks : h[1] <= s.acVer
    BY <1>1, <2>1 DEF HooksOK, HooksFor
  <2>4. HooksFor(s)
    BY <2>2, <2>3 DEF HooksOK, HooksFor
  <2>5. Polled(snap) => Polled(s)
    BY <1>1, <1>3, <2>1 DEF Polled, Agree
  <2>6. LoopFor(s)
    BY <2>5 DEF LoopOK, LoopFor
  <2> QED
    BY <2>1, <2>4, <2>6
<1> QED
  BY <1>2, <1>3

\* What is published, whether or not it was refreshed.
Published(s) == s \in Snapshots /\ SupplySeen(s) /\ HooksFor(s) /\ LoopFor(s)

LEMMA RefreshPublishes ==
  ASSUME IInv, NEW read, RefreshPower(read)
  PROVE  /\ Published(snap') /\ Real(snap', defs)
         /\ q' \in Queues /\ q'.by \notin Tasks /\ q.by \notin Tasks
         /\ faults' \in Nat
  BY RefreshIs, SeenIs DEF IInv, Published

LEMMA NothingPublished ==
  ASSUME IInv, snap' = snap
  PROVE  Published(snap')
<1>1. snap' \in Snapshots /\ snap'.acVer = snap.acVer /\ snap'.ac = snap.ac
  BY DEF IInv, SnapOK
<1> QED
  BY <1>1, SeenIs DEF IInv, Published
-----------------------------------------------------------------------------
(* The loop, its locals and its hooks.                                     *)

\* What only the loop, the supply and the policy change.
Settled == UNCHANGED <<acVer, supply, polVer, auto>>
LoopParts == WorldOK /\ HooksOK /\ LoopOK

\* Whatever the others do, and while the loop goes on applying.
LEMMA LoopStays ==
  ASSUME IInv, Settled, lp' = lp, hooks' = hooks, Published(snap'),
         \/ task'["loop"] = task["loop"]
         \/ /\ {task["loop"].at, task'["loop"].at} \subseteq Applying
            /\ task'["loop"].name = task["loop"].name
  PROVE  LoopParts'
<1>1. WorldOK'
  BY DEF IInv, WorldOK, Settled, Published, SupplySeen
<1>2. HooksOK'
  BY DEF Published, Settled, HooksOK, HooksFor, Newest, Policy
<1>3. PollOK'
  <2>1. task'["loop"].at = "poll" => task["loop"].at = "poll"
    BY DEF Applying
  <2> QED
    BY <2>1 DEF Published, LoopFor, PollOK, Settled
<1>4. task'["loop"].at \in {"lock"} \cup Applying => Polled(snap)'
  <2>1. task'["loop"].at \in {"lock"} \cup Applying => Polled(snap')
    BY DEF Published, LoopFor
  <2> QED
    BY <2>1 DEF Polled, Settled, Fresh
<1>5. task'["loop"].at \in Applying => Decided'
  <2>1. task'["loop"].at \in Applying => Decided
    BY DEF Published, LoopFor
  <2>2. task'["loop"].name = task["loop"].name
    OBVIOUS
  <2> QED
    BY <2>1, <2>2 DEF Decided, Policy, PolicyTarget, Settled
<1> QED
  BY <1>1, <1>2, <1>3, <1>4, <1>5 DEF LoopParts, LoopOK, LoopFor

LEMMA LoopFields ==
  ASSUME WorldOK
  PROVE  /\ lp \in Loops /\ lp.ac \in Supplies /\ lp.acVer \in Nat /\ lp.pol \in PolicyValues
         /\ lp.polVer \in Nat /\ lp.lastAc \in Supplies /\ lp.lastPol \in PolicyValues
  BY DEF WorldOK, Loops

LEMMA IteratedIs ==
  ASSUME NEW a \in Supplies, NEW p \in PolicyValues, Iterated(a, p)
  PROVE  lp' \in Loops /\ lp'.lastAc = a /\ lp'.lastPol = p
<1>1. Unknown \in Supplies /\ Unknown \in PolicyValues
  BY DEF Supplies, PolicyValues
<1> QED
  BY <1>1 DEF Iterated, Loops

Resting == {"dead", "sleep", "hook"}

\* The loop is done with an iteration, or has not begun one.
LEMMA LoopRests ==
  ASSUME IInv, Settled, hooks' = hooks, Published(snap'), task'["loop"].at \in Resting,
         lp' \in Loops, lp'.lastAc = lp.lastAc, lp'.lastPol = lp.lastPol
  PROVE  LoopParts'
<1>1. WorldOK'
  BY DEF IInv, WorldOK, Settled, Published, SupplySeen
<1>2. HooksOK'
  BY DEF Published, Settled, HooksOK, HooksFor, Newest, Policy
<1>3. LoopOK'
  BY DEF Resting, Applying, LoopOK, LoopFor, PollOK
<1> QED
  BY <1>1, <1>2, <1>3 DEF LoopParts

\* Switching is off: there is nothing it has dealt with.
LEMMA LoopForgets ==
  ASSUME IInv, Settled, hooks' = hooks, Published(snap'), task'["loop"].at \in Resting,
         ~auto.on, Forget
  PROVE  LoopParts'
<1>1. lp' \in Loops /\ lp'.lastAc = Unknown
  BY IteratedIs DEF Forget, Supplies, PolicyValues
<1>2. WorldOK'
  BY <1>1 DEF IInv, WorldOK, Settled, Published, SupplySeen
<1>3. \A h \in hooks : h[2] < polVer
  <2>1. \A h \in hooks : h[2] \in Nat /\ h[2] <= polVer /\ h[2] # polVer
    BY DEF Published, HooksFor, IInv, WorldOK
  <2>2. polVer \in Nat
    BY DEF IInv, WorldOK
  <2> QED
    BY <2>1, <2>2
<1>4. HooksOK'
  <2>1. \A h \in hooks : h[1] <= snap'.acVer /\ h[2] <= polVer /\ (h[2] = polVer => auto.on)
    BY DEF Published, HooksFor
  <2> QED
    BY <1>1, <1>3, <2>1 DEF Settled, HooksOK, HooksFor
<1>5. LoopOK'
  BY DEF Resting, Applying, LoopOK, LoopFor, PollOK
<1> QED
  BY <1>2, <1>4, <1>5 DEF LoopParts

\* The loop's apply has worked: its hook is the newest.
LEMMA LoopSucceeds ==
  ASSUME IInv, Settled, Published(snap'), task["loop"].at \in Applying, task'["loop"].at = "hook",
         Iterated(lp.ac, lp.pol), hooks' = hooks \cup {<<lp.acVer, lp.polVer>>}
  PROVE  LoopParts'
<1>0. PICK n : n = <<lp.acVer, lp.polVer>>
  OBVIOUS
<1>1. Polled(snap') /\ Decided
  BY DEF Published, LoopFor
<1>2. lp' \in Loops /\ lp'.lastAc = lp.ac /\ lp'.lastPol = lp.pol /\ n \in Nat \X Nat
  BY <1>0, LoopFields, IteratedIs DEF IInv
<1>3. n[1] = lp.acVer /\ n[2] = polVer
  BY <1>0, <1>1 DEF Decided
<1>4. /\ polVer \in Nat /\ lp.acVer \in Nat /\ hooks \subseteq Nat \X Nat
      /\ \A h \in hooks : h[1] <= snap'.acVer /\ h[2] <= polVer /\ (h[2] = polVer => auto.on)
  BY LoopFields DEF Published, HooksFor, IInv, WorldOK
<1>5. WorldOK'
  BY <1>0, <1>2 DEF IInv, WorldOK, Settled, Published, SupplySeen
<1>6. hooks' = hooks \cup {n}
  BY <1>0
<1>7. lp'.lastAc # Unknown /\ lp'.lastPol = Policy' /\ polVer' = polVer /\ auto' = auto
  BY <1>1, <1>2 DEF Polled, Decided, Policy, Settled
<1>8. \A h \in hooks' : h[1] <= snap'.acVer /\ h[2] <= polVer /\ (h[2] = polVer => auto.on)
  BY <1>1, <1>3, <1>4, <1>6 DEF Polled, Decided
<1>9. Newest(n, snap)'
  <2>1. \A g \in hooks' : g[1] <= n[1] /\ g[2] <= n[2]
    BY <1>1, <1>3, <1>4, <1>6 DEF Polled
  <2>2. Agree(n[1], lp'.lastAc, acVer', supply') /\ Agree(n[1], lp'.lastAc, snap'.acVer, snap'.ac)
    BY <1>1, <1>2, <1>3 DEF Polled, Settled
  <2> QED
    BY <1>7, <2>1, <2>2 DEF Newest
<1>10. HooksOK'
  BY <1>6, <1>7, <1>8, <1>9 DEF HooksOK, HooksFor
<1>11. LoopOK'
  BY DEF Applying, LoopOK, LoopFor, PollOK
<1> QED
  BY <1>5, <1>10, <1>11 DEF LoopParts

LEMMA PolicyIs ==
  ASSUME ConfigOK
  PROVE  /\ Policy \in PolicyValues /\ auto.on \in BOOLEAN
         /\ \A a \in Supplies : PolicyTarget(a) \in DOMAIN defs
<1>1. auto.ac \in DOMAIN defs /\ auto.bat \in DOMAIN defs /\ auto.on \in BOOLEAN
  BY DEF ConfigOK, Policies
<1> QED
  BY <1>1 DEF ConfigOK, Policy, PolicyValues, PolicyTarget

\* Awake with switching on: a policy other than the one dealt with is newer
\* than every hook.
LEMMA LoopAwakes ==
  ASSUME IInv, Settled, hooks' = hooks, Published(snap'), task'["loop"].at = "poll",
         lp' = [lp EXCEPT !.pol = Policy]
  PROVE  LoopParts'
<1>1. lp' \in Loops /\ lp'.pol = Policy /\ lp'.lastAc = lp.lastAc /\ lp'.lastPol = lp.lastPol
  BY LoopFields, PolicyIs DEF IInv, Loops
<1>2. WorldOK'
  BY <1>1 DEF IInv, WorldOK, Settled, Published, SupplySeen
<1>3. HooksOK'
  BY <1>1 DEF Published, Settled, HooksOK, HooksFor, Newest, Policy
<1>4. Policy # lp.lastPol => \A h \in hooks : h[2] < polVer
  <2>1. CASE lp.lastAc = Unknown
    BY <2>1 DEF Published, HooksFor
  <2>2. CASE lp.lastAc # Unknown
    <3>1. PICK n \in hooks : Newest(n, snap')
      BY <2>2 DEF Published, HooksFor
    <3>2. n[2] \in Nat /\ polVer \in Nat /\ n[2] <= polVer /\ \A h \in hooks : h[2] \in Nat
      BY DEF Published, HooksFor, IInv, WorldOK
    <3> QED
      BY <3>1, <3>2 DEF Newest
  <2> QED
    BY <2>1, <2>2
<1>5. LoopOK'
  BY <1>1, <1>4 DEF Applying, LoopOK, LoopFor, PollOK, Settled
<1> QED
  BY <1>2, <1>3, <1>5 DEF LoopParts

\* The poll finds something to do: a supply or a policy no hook was run for.
LEMMA LoopFinds ==
  ASSUME IInv, Settled, hooks' = hooks, Published(snap'),
         task["loop"].at = "poll", task'["loop"].at = "lock",
         snap'.ac # Unknown, ~(snap'.ac = lp.lastAc /\ lp.pol = lp.lastPol),
         lp' = [lp EXCEPT !.ac = snap'.ac, !.acVer = snap'.acVer, !.pol = Unknown]
  PROVE  LoopParts'
<1> DEFINE a == [lp EXCEPT !.ac = snap'.ac]
           b == [a EXCEPT !.acVer = snap'.acVer]
           c == [b EXCEPT !.pol = Unknown]
<1>1. lp' = c
  OBVIOUS
<1>2. /\ snap'.ac \in Supplies /\ snap'.acVer \in Nat /\ Unknown \in PolicyValues
      /\ lp \in Loops /\ hooks \subseteq Nat \X Nat /\ polVer \in Nat
  BY DEF Published, Snapshots, PolicyValues, IInv, WorldOK
<1>3. a \in Loops /\ a.ac = snap'.ac /\ a.lastAc = lp.lastAc /\ a.lastPol = lp.lastPol
  BY <1>2 DEF Loops
<1> HIDE DEF a
<1>4. b \in Loops /\ b.ac = snap'.ac /\ b.acVer = snap'.acVer
      /\ b.lastAc = lp.lastAc /\ b.lastPol = lp.lastPol
  BY <1>2, <1>3 DEF Loops
<1> HIDE DEF b
<1>5. c \in Loops /\ c.ac = snap'.ac /\ c.acVer = snap'.acVer
      /\ c.lastAc = lp.lastAc /\ c.lastPol = lp.lastPol
  BY <1>2, <1>4 DEF Loops
<1> HIDE DEF c
<1>6. WorldOK'
  BY <1>1, <1>5 DEF IInv, WorldOK, Settled, Published, SupplySeen
<1>7. HooksOK'
  BY <1>1, <1>5 DEF Published, Settled, HooksOK, HooksFor, Newest, Policy
<1>8. \A h \in hooks : h[1] <= snap'.acVer /\ h[1] \in Nat
  BY <1>2 DEF Published, HooksFor
<1>9. Fresh(snap'.acVer, polVer)
  <2>1. CASE lp.pol # lp.lastPol
    BY <2>1 DEF Published, LoopFor, PollOK, Fresh
  <2>2. CASE lp.lastAc = Unknown
    BY <2>2 DEF Published, HooksFor, Fresh
  <2>3. CASE lp.lastAc # Unknown /\ snap'.ac # lp.lastAc
    <3>1. PICK n \in hooks : Newest(n, snap')
      BY <2>3 DEF Published, HooksFor
    <3>2. n[1] # snap'.acVer /\ \A g \in hooks : g[1] <= n[1]
      BY <2>3, <3>1 DEF Newest, Agree
    <3>3. \A g \in hooks : g[1] < snap'.acVer
      BY <1>2, <1>8, <3>1, <3>2
    <3> QED
      BY <3>3 DEF Fresh
  <2> QED
    BY <2>1, <2>2, <2>3
<1>10. Polled(snap)'
  <2>1. lp'.ac # Unknown /\ lp'.acVer = snap'.acVer /\ lp'.ac = snap'.ac
    BY <1>1, <1>5
  <2>2. Agree(lp'.acVer, lp'.ac, acVer', supply') /\ Agree(lp'.acVer, lp'.ac, snap'.acVer, snap'.ac)
    BY <2>1 DEF Published, SupplySeen, Settled, Agree
  <2>3. Fresh(lp.acVer, polVer)'
    BY <1>9, <2>1 DEF Fresh, Settled
  <2>4. lp'.acVer <= snap'.acVer
    BY <1>2, <2>1
  <2> QED
    BY <1>8, <2>1, <2>2, <2>3, <2>4 DEF Polled
<1>11. LoopOK'
  BY <1>10 DEF Applying, LoopOK, LoopFor, PollOK
<1> QED
  BY <1>6, <1>7, <1>11 DEF LoopParts

\* Under the lock the policy is read again, and its target is applied.
LEMMA LoopDecides ==
  ASSUME IInv, Settled, hooks' = hooks, Published(snap'),
         task["loop"].at = "lock", task'["loop"].at = "cap",
         task'["loop"].name = PolicyTarget(lp.ac), auto.on,
         lp' = [lp EXCEPT !.pol = Policy, !.polVer = polVer]
  PROVE  LoopParts'
<1> DEFINE a == [lp EXCEPT !.pol = Policy]
           b == [a EXCEPT !.polVer = polVer]
<1>1. lp' = b
  OBVIOUS
<1>2. lp \in Loops /\ polVer \in Nat /\ Policy \in PolicyValues
  BY PolicyIs DEF IInv, WorldOK
<1>3. a \in Loops /\ a.pol = Policy /\ a.lastAc = lp.lastAc /\ a.lastPol = lp.lastPol
      /\ a.ac = lp.ac /\ a.acVer = lp.acVer
  BY <1>2 DEF Loops
<1> HIDE DEF a
<1>4. b \in Loops /\ b.pol = Policy /\ b.polVer = polVer /\ b.lastAc = lp.lastAc
      /\ b.lastPol = lp.lastPol /\ b.ac = lp.ac /\ b.acVer = lp.acVer
  BY <1>2, <1>3 DEF Loops
<1> HIDE DEF b
<1>5. WorldOK'
  BY <1>1, <1>4 DEF IInv, WorldOK, Settled, Published, SupplySeen
<1>6. HooksOK'
  BY <1>1, <1>4 DEF Published, Settled, HooksOK, HooksFor, Newest, Policy
<1>7. Polled(snap)'
  <2>1. Polled(snap')
    BY DEF Published, LoopFor
  <2> QED
    BY <1>1, <1>4, <2>1 DEF Polled, Settled, Fresh
<1>8. Decided'
  BY <1>1, <1>4 DEF Decided, Policy, PolicyTarget, Settled
<1>9. LoopOK'
  BY <1>7, <1>8 DEF LoopOK, LoopFor, PollOK
<1> QED
  BY <1>5, <1>6, <1>9 DEF LoopParts

\* A new policy is newer than every hook.
LEMMA PolicyChanges ==
  ASSUME IInv, NEW a, NewPolicy(a), UNCHANGED <<acVer, supply, lp, hooks, snap>>,
         task'["loop"] = task["loop"], task["loop"].at \notin Applying
  PROVE  LoopParts'
<1>1. Published(snap')
  BY NothingPublished
<1>2. CASE a = auto
  BY <1>1, <1>2, LoopStays DEF NewPolicy, Settled
<1>3. CASE a # auto
  <2>1. polVer' = polVer + 1 /\ polVer \in Nat /\ hooks \subseteq Nat \X Nat
    BY <1>3 DEF NewPolicy, IInv, WorldOK
  <2>2. \A h \in hooks : h[1] <= snap.acVer /\ h[2] \in Nat /\ h[2] <= polVer
    BY <2>1 DEF IInv, HooksOK, HooksFor
  <2>3. \A h \in hooks : h[1] <= snap.acVer /\ h[2] <= polVer' /\ h[2] < polVer' /\ h[2] # polVer'
    BY <2>1, <2>2
  <2>4. WorldOK'
    BY <2>1 DEF IInv, WorldOK, SupplySeen
  <2>5. \A h \in hooks : Newest(h, snap) => Newest(h, snap)'
    BY <2>3 DEF Newest
  <2>6. HooksOK'
    BY <2>3, <2>5 DEF IInv, HooksOK, HooksFor
  <2>7. PollOK'
    BY <2>3 DEF PollOK
  <2>8. Polled(snap) => Polled(snap)'
    BY <2>3 DEF Polled, Fresh
  <2>9. LoopOK'
    BY <2>7, <2>8 DEF IInv, LoopOK, LoopFor
  <2> QED
    BY <2>4, <2>6, <2>9 DEF LoopParts
<1> QED
  BY <1>2, <1>3

\* A new supply is newer than everything seen.
LEMMA SupplyChanges ==
  ASSUME IInv, SwitchSupply
  PROVE  LoopParts'
<1>1. /\ supply' = ~supply /\ acVer' = acVer + 1
      /\ UNCHANGED <<auto, polVer, snap, task, lp, hooks>>
  BY DEF SwitchSupply, config, loopVars
<1>2. /\ acVer \in Nat /\ snap.acVer \in Nat /\ lp.acVer \in Nat /\ hooks \subseteq Nat \X Nat
      /\ snap.acVer <= acVer
  BY DEF IInv, WorldOK, SupplySeen, Loops, SnapOK, Snapshots
<1>3. snap.acVer # acVer' /\ snap.acVer <= acVer'
  BY <1>1, <1>2
<1>4. WorldOK'
  BY <1>1, <1>2, <1>3 DEF IInv, WorldOK, SupplySeen, Agree
<1>5. \A h \in hooks : h[1] # acVer'
  <2>1. \A h \in hooks : h[1] \in Nat /\ h[1] <= snap.acVer
    BY <1>2 DEF IInv, HooksOK, HooksFor
  <2> QED
    BY <1>1, <1>2, <2>1
<1>6. \A h \in hooks : Newest(h, snap) => Newest(h, snap)'
  BY <1>1, <1>5 DEF Newest, Agree, Policy
<1>7. HooksOK'
  BY <1>1, <1>6 DEF IInv, HooksOK, HooksFor
<1>8. Polled(snap) => Polled(snap)'
  <2>1. lp.acVer <= snap.acVer => lp.acVer # acVer'
    BY <1>1, <1>2
  <2> QED
    BY <1>1, <2>1 DEF Polled, Fresh, Agree
<1>9. LoopOK'
  BY <1>1, <1>8 DEF IInv, LoopOK, LoopFor, PollOK, Decided, Policy, PolicyTarget
<1> QED
  BY <1>4, <1>7, <1>9 DEF LoopParts
-----------------------------------------------------------------------------
(* The two tasks, the lock and the queue.                                  *)

LEMMA TaskFacts ==
  ASSUME IInv
  PROVE  /\ task \in [Tasks -> Frames] /\ lock \in Tasks \cup {"free"}
         /\ task["user"] \in Frames /\ task["loop"] \in Frames
         /\ \A t \in Tasks : task[t].ret \in {"idle", "last"} /\ task[t].at \in Labels
                             /\ task[t].name \in Names \cup {NoProfile}
         /\ task["loop"].at \in Applying => lock = "loop" /\ task["user"].at = "idle"
         /\ task["user"].at # "idle" => task["loop"].at \notin Applying /\ lock # "loop"
         /\ "user" \in Tasks /\ "loop" \in Tasks
<1>1. task \in [Tasks -> Frames] /\ "user" \in Tasks /\ "loop" \in Tasks
  BY DEF IInv, TaskOK, Tasks
<1>2. \A f \in Frames : f.ret \in {"idle", "last"} /\ f.at \in Labels /\ f.name \in Names \cup {NoProfile}
  BY DEF Frames
<1> QED
  BY <1>1, <1>2 DEF IInv, TaskOK

\* The use case goes on, begins or ends.
LEMMA UserMoves ==
  ASSUME IInv, NEW f \in Frames, task' = [task EXCEPT !["user"] = f], f.at # "boot",
         f.at \in Applying => f.name \in DOMAIN defs',
         task["loop"].at \in Applying => DOMAIN defs \subseteq DOMAIN defs',
         \/ task["user"].at # "idle" /\ f.at # "idle" /\ lock' = lock
         \/ task["user"].at = "idle" /\ lock = "free" /\ f.at # "idle" /\ lock' = "user"
         \/ task["user"].at # "idle" /\ f.at = "idle" /\ lock' = "free"
  PROVE  TaskOK' /\ task'["user"] = f /\ task'["loop"] = task["loop"]
<1>1. task' \in [Tasks -> Frames] /\ task'["user"] = f /\ task'["loop"] = task["loop"]
  BY TaskFacts, PlaceIs DEF Tasks
<1>2. lock' \in Tasks \cup {"free"}
  BY TaskFacts
<1>3. \A t \in Tasks : task'[t].at \in Applying => task'[t].name \in DOMAIN defs'
  BY <1>1 DEF IInv, TaskOK, Tasks
<1>4. task'["loop"].at \in Applying => lock' = "loop"
  BY <1>1, TaskFacts
<1>5. /\ task'["user"].at # "idle" => lock' = "user" \/ (lock' = "free" /\ task'["loop"].at = "dead")
      /\ task'["user"].at = "idle" => lock' # "user"
      /\ task'["user"].at # "boot"
  BY <1>1 DEF IInv, TaskOK
<1> QED
  BY <1>1, <1>2, <1>3, <1>4, <1>5 DEF TaskOK

\* The loop moves without the lock, takes it, or releases it.
LEMMA LoopMoves ==
  ASSUME IInv, NEW f \in Frames, task' = [task EXCEPT !["loop"] = f], defs' = defs, f.at # "dead",
         f.at \in Applying => f.name \in DOMAIN defs,
         \/ task["loop"].at \notin Applying /\ f.at \notin Applying /\ lock' = lock
            /\ (task["loop"].at = "dead" => task["user"].at = "idle")
         \/ task["loop"].at \notin Applying \cup {"dead"} /\ lock = "free" /\ lock' = "loop"
         \/ task["loop"].at \in Applying /\ f.at \in Applying /\ lock' = lock
         \/ task["loop"].at \in Applying /\ f.at \notin Applying /\ lock' = "free"
  PROVE  TaskOK' /\ task'["loop"] = f /\ task'["user"] = task["user"]
<1>1. task' \in [Tasks -> Frames] /\ task'["loop"] = f /\ task'["user"] = task["user"]
  BY TaskFacts, PlaceIs DEF Tasks
<1>2. lock' \in Tasks \cup {"free"}
  BY TaskFacts
<1>3. \A t \in Tasks : task'[t].at \in Applying => task'[t].name \in DOMAIN defs'
  BY <1>1 DEF IInv, TaskOK, Tasks
<1>4. task'["loop"].at \in Applying => lock' = "loop"
  BY <1>1, TaskFacts
<1>5. task'["user"].at # "idle" => lock' = "user" \/ (lock' = "free" /\ task'["loop"].at = "dead")
  BY <1>1, TaskFacts DEF IInv, TaskOK
<1>6. /\ task'["user"].at = "idle" => lock' # "user"
      /\ task'["user"].at = "boot" => lock' = "free"
  BY <1>1, TaskFacts DEF IInv, TaskOK
<1> QED
  BY <1>1, <1>2, <1>3, <1>4, <1>5, <1>6 DEF TaskOK

\* The queue, while the tasks that do not wait for it move.
LEMMA QueueStays ==
  ASSUME IInv, q' = q, NEW t \in Tasks, task[t].at # "wait",
         \A u \in Tasks \ {t} : task'[u] = task[u]
  PROVE  QueueOK'
<1>1. q.by \in Tasks => q.by # t
  BY DEF IInv, QueueOK
<1> QED
  BY <1>1 DEF IInv, QueueOK

LEMMA QueueFree ==
  ASSUME q' \in Queues, q'.by \notin Tasks
  PROVE  QueueOK'
  BY DEF QueueOK

LEMMA QueueValues ==
  /\ IdleQueue \in Queues /\ IdleQueue.by = "none"
  /\ [IdleQueue EXCEPT !.by = "nobody"] \in Queues /\ [IdleQueue EXCEPT !.by = "nobody"].by = "nobody"
  /\ "none" \notin Tasks /\ "nobody" \notin Tasks
  BY DEF IdleQueue, Queues, Tasks
-----------------------------------------------------------------------------
(* The steps of an apply.                                                  *)

LEMMA LabelsAre ==
  /\ Applying \subseteq Labels /\ Resting \subseteq Labels
  /\ {"idle", "last", "target", "poll", "lock"} \subseteq Labels
  /\ {"cap", "apply", "wait", "verify", "look"} \subseteq Applying
  /\ {"idle", "dead", "last", "target", "sleep", "hook", "poll", "lock", "boot"} \cap Applying = {}
  BY DEF Labels, Applying, Resting

\* A use case is over, or goes on to its last refresh.
LEMMA UserEndsIs ==
  ASSUME IInv, UserEnds, defs' = defs, task["user"].at # "idle"
  PROVE  /\ TaskOK' /\ task'["loop"] = task["loop"] /\ lp' = lp /\ hooks' = hooks
         /\ Unrefreshed(task["user"]) /\ task["user"].at \in Applying => Unrefreshed(task'["user"])
<1> DEFINE r == task["user"].ret
           f == At(r)
<1>1. r \in {"idle", "last"} /\ r \in Labels /\ r \notin Applying
  BY TaskFacts, LabelsAre
<1>2. f \in Frames /\ f.at = r
  BY <1>1, AtIs
<1>3. task' = [task EXCEPT !["user"] = f] /\ lock' = (IF r = "idle" THEN "free" ELSE lock)
      /\ lp' = lp /\ hooks' = hooks
  BY DEF UserEnds, loopVars
<1> HIDE DEF f
<1>4. TaskOK' /\ task'["user"] = f /\ task'["loop"] = task["loop"]
  BY <1>1, <1>2, <1>3, UserMoves
<1>5. Unrefreshed(task["user"]) /\ task["user"].at \in Applying => r = "last"
  BY LabelsAre DEF Unrefreshed
<1>6. r = "last" => Unrefreshed(f)
  BY <1>2 DEF Unrefreshed
<1> QED
  BY <1>3, <1>4, <1>5, <1>6

LEMMA LoopEndsIs ==
  ASSUME IInv, NEW applied \in BOOLEAN, LoopEnds(applied), defs' = defs, Settled, Published(snap'),
         task["loop"].at \in Applying
  PROVE  TaskOK' /\ LoopParts' /\ task'["user"] = task["user"]
<1> DEFINE l == IF applied THEN "hook" ELSE "sleep"
           f == At(l)
<1>1. l \in Resting /\ l \in Labels /\ l \notin Applying /\ l # "dead"
  BY LabelsAre DEF Resting
<1>2. f \in Frames /\ f.at = l
  BY <1>1, AtIs
<1>3. task' = [task EXCEPT !["loop"] = f] /\ lock' = "free"
  BY DEF LoopEnds
<1> HIDE DEF f
<1>4. TaskOK' /\ task'["loop"] = f /\ task'["user"] = task["user"]
  BY <1>1, <1>2, <1>3, LoopMoves
<1>5. CASE applied
  <2>1. Iterated(lp.ac, lp.pol) /\ hooks' = hooks \cup {<<lp.acVer, lp.polVer>>} /\ task'["loop"].at = "hook"
    BY <1>2, <1>4, <1>5 DEF LoopEnds
  <2> QED
    BY <1>4, <2>1, LoopSucceeds
<1>6. CASE ~applied
  <2>1. Iterated(lp.lastAc, lp.lastPol) /\ hooks' = hooks /\ task'["loop"].at \in Resting
    BY <1>1, <1>2, <1>4, <1>6 DEF LoopEnds
  <2>2. lp' \in Loops /\ lp'.lastAc = lp.lastAc /\ lp'.lastPol = lp.lastPol
    BY <2>1, LoopFields, IteratedIs DEF IInv
  <2> QED
    BY <1>4, <2>1, <2>2, LoopRests
<1> QED
  BY <1>5, <1>6

LEMMA EndsIs ==
  ASSUME IInv, NEW t \in Tasks, NEW applied \in BOOLEAN, Ends(t, applied), defs' = defs,
         Settled, Published(snap'), task[t].at \in Applying
  PROVE  /\ TaskOK' /\ LoopParts'
         /\ Unrefreshed(task["user"]) => Unrefreshed(task'["user"])
<1>1. CASE t = "user"
  <2>1. UserEnds /\ task["user"].at \in Applying /\ task["user"].at # "idle"
    BY <1>1, LabelsAre DEF Ends
  <2> QED
    BY <2>1, UserEndsIs, LoopStays
<1>2. CASE t = "loop"
  <2>1. LoopEnds(applied) /\ task["loop"].at \in Applying
    BY <1>2 DEF Ends
  <2> QED
    BY <2>1, LoopEndsIs
<1> QED
  BY <1>1, <1>2 DEF Tasks

\* A task inside _apply_power_profile goes on there.
LEMMA ApplyMoves ==
  ASSUME IInv, NEW t \in Tasks, NEW l \in Applying, task[t].at \in Applying,
         task' = [task EXCEPT ![t].at = l], UNCHANGED <<defs, lock, snap, lp, hooks>>, Settled
  PROVE  /\ TaskOK' /\ LoopParts' /\ SnapOK' /\ task'[t].at = l
         /\ \A u \in Tasks \ {t} : task'[u] = task[u]
<1> DEFINE f == [task[t] EXCEPT !.at = l]
<1>1. task \in [Tasks -> Frames] /\ task[t] \in Frames /\ l \in Labels /\ l # "idle" /\ l # "dead" /\ l # "boot"
      /\ task[t].at # "idle"
  BY TaskFacts, LabelsAre
<1>2. f \in Frames /\ f.at = l /\ f.name = task[t].name /\ f.ret = task[t].ret
  BY <1>1, MovesIs
<1>3. task' = [task EXCEPT ![t] = f]
  OBVIOUS
<1> HIDE DEF f
<1>4. task'[t] = f /\ \A u \in Tasks \ {t} : task'[u] = task[u]
  BY <1>1, <1>2, <1>3, PlaceIs
<1>5. f.name \in DOMAIN defs
  BY <1>2 DEF IInv, TaskOK
<1>6. Published(snap')
  BY NothingPublished
<1>7. Unrefreshed(task["user"]) => Unrefreshed(task'["user"])
  <2>1. CASE t = "user"
    BY <1>2, <1>4, <2>1, LabelsAre DEF Unrefreshed
  <2>2. CASE t = "loop"
    BY <1>4, <2>2 DEF Tasks
  <2> QED
    BY <2>1, <2>2 DEF Tasks
<1>8. SnapOK'
  BY <1>7 DEF IInv, SnapOK
<1>9. CASE t = "user"
  <2>1. TaskOK' /\ task'["loop"] = task["loop"]
    BY <1>1, <1>2, <1>3, <1>5, <1>9, UserMoves
  <2> QED
    BY <1>2, <1>4, <1>6, <1>8, <2>1, LoopStays
<1>10. CASE t = "loop"
  <2>1. TaskOK' /\ task'["loop"] = f
    BY <1>1, <1>2, <1>3, <1>5, <1>10, LoopMoves
  <2>2. {task["loop"].at, task'["loop"].at} \subseteq Applying /\ task'["loop"].name = task["loop"].name
    BY <1>2, <1>10, <2>1
  <2> QED
    BY <1>2, <1>4, <1>6, <1>8, <2>1, <2>2, LoopStays
<1> QED
  BY <1>9, <1>10 DEF Tasks

LEMMA PreflightKeeps ==
  ASSUME IInv, NEW t \in Tasks, Preflight(t)
  PROVE  IInv'
<1>1. /\ task[t].at = "cap" /\ CanCall
      /\ UNCHANGED <<hw, defs, want, auto, polVer, supply, acVer, snap, ops>>
  BY DEF Preflight, config, world
<1>2. ConfigOK' /\ Settled
  BY <1>1 DEF IInv, ConfigOK, Settled
<1>3. q.by \notin Tasks /\ q \in Queues
  BY <1>1, QueueValues DEF CanCall, Poisoned, IInv, QueueOK
<1>4. CASE ~Poisoned /\ task' = [task EXCEPT ![t].at = "apply"] /\ UNCHANGED <<lock, q, loopVars, faults>>
  <2>1. TaskOK' /\ LoopParts' /\ SnapOK'
    BY <1>1, <1>2, <1>4, ApplyMoves, LabelsAre DEF loopVars
  <2>2. QueueOK'
    BY <1>3, <1>4, QueueFree
  <2>3. HardwareOK'
    BY <1>1, <1>4 DEF IInv, HardwareOK
  <2> QED
    BY <1>2, <2>1, <2>2, <2>3 DEF IInv, LoopParts
<1>5. CASE /\ IF Poisoned THEN UNCHANGED <<q, faults>>
              ELSE Faulty /\ q' \in {IdleQueue, [IdleQueue EXCEPT !.by = "nobody"]}
           /\ Ends(t, FALSE)
  <2>1. TaskOK' /\ LoopParts' /\ (Unrefreshed(task["user"]) => Unrefreshed(task'["user"]))
    BY <1>1, <1>2, <1>5, EndsIs, NothingPublished, LabelsAre
  <2>2. SnapOK'
    BY <1>1, <2>1 DEF IInv, SnapOK
  <2>3. QueueOK'
    BY <1>3, <1>5, QueueFree, QueueValues
  <2>4. HardwareOK'
    BY <1>1, <1>5 DEF IInv, HardwareOK, Faulty, Charge
  <2> QED
    BY <1>2, <2>1, <2>2, <2>3, <2>4 DEF IInv, LoopParts
<1> QED
  BY <1>4, <1>5 DEF Preflight

LEMMA BeginApplyKeeps ==
  ASSUME IInv, NEW t \in Tasks, BeginApply(t)
  PROVE  IInv'
<1>1. /\ task[t].at = "apply" /\ CanCall
      /\ UNCHANGED <<hw, defs, want, auto, polVer, supply, acVer, snap, lock, lp, hooks, faults>>
  BY DEF BeginApply, config, world, loopVars
<1>2. ConfigOK' /\ HardwareOK' /\ Settled
  BY <1>1 DEF IInv, ConfigOK, HardwareOK, Settled
<1>3. CASE Poisoned
  <2>1. task' = [task EXCEPT ![t].at = "look"] /\ q' = q /\ q.by \notin Tasks
    BY <1>3, QueueValues DEF BeginApply, Poisoned
  <2>2. TaskOK' /\ LoopParts' /\ SnapOK'
    BY <1>1, <1>2, <2>1, ApplyMoves, LabelsAre
  <2>3. QueueOK'
    BY <2>1, QueueFree DEF IInv, QueueOK
  <2> QED
    BY <1>2, <2>2, <2>3 DEF IInv, LoopParts
<1>4. CASE ~Poisoned
  <2> DEFINE d == defs[task[t].name]
  <2>1. task' = [task EXCEPT ![t].at = "wait"] /\ q' = [by |-> t, def |-> d]
    BY <1>4 DEF BeginApply
  <2>2. TaskOK' /\ LoopParts' /\ SnapOK' /\ task'[t].at = "wait"
    BY <1>1, <1>2, <2>1, ApplyMoves, LabelsAre
  <2>3. d \in Defs
    BY <1>1, LabelsAre DEF IInv, TaskOK, ConfigOK
  <2> HIDE DEF d
  <2>4. q' \in Queues /\ q'.by = t /\ q'.def = d
    BY <2>1, <2>3 DEF Queues
  <2>5. QueueOK'
    BY <2>2, <2>3, <2>4 DEF QueueOK
  <2> QED
    BY <1>2, <2>2, <2>5 DEF IInv, LoopParts
<1> QED
  BY <1>3, <1>4

LEMMA ApplyReturnsKeeps ==
  ASSUME IInv, NEW t \in Tasks, ApplyReturns(t)
  PROVE  IInv'
<1>1. /\ q.by = t /\ q' = IdleQueue
      /\ UNCHANGED <<defs, auto, polVer, supply, acVer, snap, lock, lp, hooks>>
  BY DEF ApplyReturns, world, loopVars
<1>2. task[t].at = "wait" /\ q.def \in Defs /\ task[t].name \in DOMAIN defs
  BY <1>1, LabelsAre DEF IInv, QueueOK, TaskOK
<1>3. PICK o \in Outcomes(q.def) :
        /\ hw' = o.res.hw
        /\ \/ /\ o.res.ok /\ faults' = o.had
              /\ want' = Persisted(t)
              /\ task' = [task EXCEPT ![t].at = "verify"]
           \/ /\ o.res.ok /\ task[t].keep /\ Faulty
              /\ task' = [task EXCEPT ![t].at = "look"] /\ UNCHANGED want
           \/ /\ ~o.res.ok /\ faults' = o.had
              /\ task' = [task EXCEPT ![t].at = "look"] /\ UNCHANGED want
  BY DEF ApplyReturns
<1>4. IsHardware(o.res.hw) /\ o.had \in Nat
  BY <1>2, OutcomeIs DEF IInv, HardwareOK
<1>5. HardwareOK'
  BY <1>3, <1>4 DEF IInv, HardwareOK, Faulty, Charge
<1>6. want' \in DOMAIN defs
  BY <1>2, <1>3 DEF IInv, ConfigOK, Persisted
<1>7. ConfigOK' /\ Settled
  BY <1>1, <1>6 DEF IInv, ConfigOK, Settled
<1>8. TaskOK' /\ LoopParts' /\ SnapOK'
  <2>1. PICK l \in Applying : task' = [task EXCEPT ![t].at = l]
    BY <1>3, LabelsAre
  <2> QED
    BY <1>1, <1>2, <1>7, <2>1, ApplyMoves, LabelsAre
<1>9. QueueOK'
  BY <1>1, QueueFree, QueueValues
<1> QED
  BY <1>5, <1>7, <1>8, <1>9 DEF IInv, LoopParts

LEMMA ApplyTimesOutKeeps ==
  ASSUME IInv, NEW t \in Tasks, ApplyTimesOut(t)
  PROVE  IInv'
<1>1. /\ q.by = t /\ q' = [q EXCEPT !.by = "nobody"] /\ Faulty
      /\ task' = [task EXCEPT ![t].at = "look"]
      /\ UNCHANGED <<hw, defs, want, auto, polVer, supply, acVer, snap, lock, lp, hooks>>
  BY DEF ApplyTimesOut, config, world, loopVars
<1>2. ConfigOK' /\ HardwareOK' /\ Settled
  BY <1>1 DEF IInv, ConfigOK, HardwareOK, Settled, Faulty, Charge
<1>3. TaskOK' /\ LoopParts' /\ SnapOK'
  BY <1>1, <1>2, ApplyMoves, LabelsAre DEF IInv, QueueOK
<1>4. q' \in Queues /\ q'.by = "nobody"
  BY <1>1 DEF IInv, QueueOK, Queues
<1>5. QueueOK'
  BY <1>4, QueueFree, QueueValues
<1> QED
  BY <1>2, <1>3, <1>5 DEF IInv, LoopParts

LEMMA LateReturnKeeps ==
  ASSUME IInv, LateReturn
  PROVE  IInv'
<1>1. /\ q' = IdleQueue
      /\ UNCHANGED <<defs, want, auto, polVer, supply, acVer, snap, lock, task, lp, hooks>>
  BY DEF LateReturn, config, world, loopVars
<1>2. HardwareOK'
  <2>1. CASE q.def = Unknown
    BY <2>1 DEF IInv, HardwareOK, LateReturn
  <2>2. CASE q.def # Unknown
    <3>1. q.def \in Defs
      BY <2>2 DEF IInv, QueueOK, Queues
    <3>2. PICK o \in Outcomes(q.def) : hw' = o.res.hw /\ faults' = o.had
      BY <2>2 DEF LateReturn
    <3> QED
      BY <3>1, <3>2, OutcomeIs DEF IInv, HardwareOK
  <2> QED
    BY <2>1, <2>2
<1>3. ConfigOK' /\ TaskOK' /\ SnapOK' /\ Settled
  BY <1>1 DEF IInv, ConfigOK, TaskOK, SnapOK, Settled
<1>4. QueueOK'
  BY <1>1, QueueFree, QueueValues
<1>5. LoopParts'
  BY <1>1, <1>3, LoopStays, NothingPublished
<1> QED
  BY <1>2, <1>3, <1>4, <1>5 DEF IInv, LoopParts

\* The two refreshes that end an apply.
LEMMA ApplyRefreshKeeps ==
  ASSUME IInv, NEW t \in Tasks, NEW read, NEW applied \in BOOLEAN, task[t].at \in Applying,
         RefreshPower(read), Ends(t, applied), UNCHANGED <<hw, config, world, ops>>
  PROVE  IInv'
<1>1. UNCHANGED <<hw, defs, want, auto, polVer, supply, acVer>>
  BY DEF config, world
<1>2. /\ Published(snap') /\ Real(snap', defs)
      /\ q' \in Queues /\ q'.by \notin Tasks /\ faults' \in Nat
  BY RefreshPublishes
<1>3. ConfigOK' /\ HardwareOK' /\ Settled
  BY <1>1, <1>2 DEF IInv, ConfigOK, HardwareOK, Settled
<1>4. TaskOK' /\ LoopParts'
  BY <1>1, <1>2, <1>3, EndsIs
<1>5. SnapOK'
  BY <1>1, <1>2 DEF SnapOK, Published
<1>6. QueueOK'
  BY <1>2, QueueFree
<1> QED
  BY <1>3, <1>4, <1>5, <1>6 DEF IInv, LoopParts

LEMMA VerifyKeeps ==
  ASSUME IInv, NEW t \in Tasks, NEW read, Verify(t, read) \/ Look(t, read)
  PROVE  IInv'
<1>1. CASE Verify(t, read)
  <2> DEFINE done == read = "ok" /\ hw = defs[task[t].name]
  <2>1. done \in BOOLEAN
    OBVIOUS
  <2>2. /\ task[t].at \in Applying /\ RefreshPower(read) /\ Ends(t, done)
        /\ UNCHANGED <<hw, config, world, ops>>
    BY <1>1, LabelsAre DEF Verify
  <2> QED
    BY <2>1, <2>2, ApplyRefreshKeeps
<1>2. CASE Look(t, read)
  <2>1. /\ task[t].at \in Applying /\ RefreshPower(read) /\ Ends(t, FALSE)
        /\ UNCHANGED <<hw, config, world, ops>>
    BY <1>2, LabelsAre DEF Look
  <2> QED
    BY <2>1, ApplyRefreshKeeps
<1> QED
  BY <1>1, <1>2
-----------------------------------------------------------------------------
(* The use cases.                                                          *)

\* A use case begins: nobody is applying, and what is published is real.
LEMMA EnterIs ==
  ASSUME IInv, NEW f \in Frames, f.at \notin {"idle", "boot"}, Enter(f),
         f.at \in Applying => f.name \in DOMAIN defs'
  PROVE  /\ HardwareOK' /\ QueueOK' /\ TaskOK'
         /\ task'["user"] = f /\ task'["loop"] = task["loop"] /\ task["loop"].at \notin Applying
         /\ snap \in Snapshots /\ Real(snap, defs)
         /\ UNCHANGED <<acVer, supply, snap, lp, hooks>>
<1>1. /\ task["user"].at = "idle" /\ lock = "free" /\ lock' = "user"
      /\ task' = [task EXCEPT !["user"] = f]
      /\ UNCHANGED <<hw, acVer, supply, snap, q, lp, hooks, faults>>
  BY DEF Enter, world, loopVars
<1>2. task["loop"].at \notin Applying
  BY <1>1, TaskFacts
<1>3. TaskOK' /\ task'["user"] = f /\ task'["loop"] = task["loop"]
  BY <1>1, <1>2, UserMoves
<1>4. HardwareOK'
  BY <1>1 DEF IInv, HardwareOK
<1>5. QueueOK'
  BY <1>1, <1>3, QueueStays DEF Tasks
<1>6. snap \in Snapshots /\ Real(snap, defs)
  BY <1>1, LabelsAre DEF IInv, SnapOK, Unrefreshed
<1> QED
  BY <1>1, <1>2, <1>3, <1>4, <1>5, <1>6

\* A use case that leaves the policy alone.
LEMMA UseCaseKeeps ==
  ASSUME IInv, NEW f \in Frames, f.at \notin {"idle", "boot"}, Enter(f), f.at \in Applying => f.name \in DOMAIN defs',
         UNCHANGED <<auto, polVer>>, ConfigOK', defs' = defs \/ Unrefreshed(f)
  PROVE  IInv'
<1>1. /\ HardwareOK' /\ QueueOK' /\ TaskOK'
      /\ task'["user"] = f /\ task'["loop"] = task["loop"]
      /\ snap \in Snapshots /\ Real(snap, defs)
      /\ UNCHANGED <<acVer, supply, snap, lp, hooks>>
  BY EnterIs
<1>2. LoopParts'
  BY <1>1, LoopStays, NothingPublished DEF Settled
<1>3. SnapOK'
  BY <1>1 DEF SnapOK
<1> QED
  BY <1>1, <1>2, <1>3 DEF IInv, LoopParts

\* A use case that may change it.
LEMMA PolicyUseCaseKeeps ==
  ASSUME IInv, NEW l \in {"last", "target"}, Enter(At(l)), NEW a \in Policies(DOMAIN defs), NewPolicy(a),
         UNCHANGED <<defs, want>>
  PROVE  IInv'
<1>1. At(l) \in Frames /\ At(l).at = l /\ l \notin {"idle", "boot"} /\ l \notin Applying
  BY AtIs, LabelsAre
<1> DEFINE f == At(l)
<1> HIDE DEF f
<1>2. /\ HardwareOK' /\ QueueOK' /\ TaskOK'
      /\ task'["user"] = f /\ task'["loop"] = task["loop"] /\ task["loop"].at \notin Applying
      /\ snap \in Snapshots /\ Real(snap, defs)
      /\ UNCHANGED <<acVer, supply, snap, lp, hooks>>
  BY <1>1, EnterIs DEF f
<1>3. LoopParts'
  BY <1>2, PolicyChanges
<1>4. SnapOK'
  BY <1>2 DEF SnapOK
<1>5. ConfigOK'
  BY DEF IInv, ConfigOK, NewPolicy
<1> QED
  BY <1>2, <1>3, <1>4, <1>5 DEF IInv, LoopParts

\* The registry with a definition of its own for one name.
LEMMA RegistryIs ==
  ASSUME ConfigOK, NEW n \in Names, NEW d \in Defs, NEW D, Builtin \subseteq D, D \subseteq Names,
         Referenced \subseteq D, D \subseteq DOMAIN defs \cup {n},
         defs' = [m \in D |-> IF m = n THEN d ELSE defs[m]], UNCHANGED <<want, auto>>
  PROVE  ConfigOK'
<1>1. DOMAIN defs' = D /\ \A m \in D : defs'[m] \in Defs
  BY DEF ConfigOK
<1>2. want' \in D /\ auto' \in Policies(D)
  BY DEF ConfigOK, Policies, Referenced
<1> QED
  BY <1>1, <1>2 DEF ConfigOK

LEMMA SetPowerProfileKeeps ==
  ASSUME IInv, SetPowerProfile
  PROVE  IInv'
<1>1. PICK n \in DOMAIN defs :
        Enter([At("cap") EXCEPT !.name = n, !.keep = TRUE]) /\ UNCHANGED <<defs, want, auto, polVer>>
  BY DEF SetPowerProfile, config
<1> DEFINE f == [At("cap") EXCEPT !.name = n, !.keep = TRUE]
<1>2. f \in Frames /\ f.at = "cap" /\ f.name = n
  BY CapIs DEF IInv, ConfigOK
<1>3. Enter(f)
  BY <1>1
<1> HIDE DEF f
<1>4. ConfigOK'
  BY <1>1 DEF IInv, ConfigOK
<1> QED
  BY <1>1, <1>2, <1>3, <1>4, UseCaseKeeps

LEMMA SetAutoSwitchKeeps ==
  ASSUME IInv, SetAutoSwitch
  PROVE  IInv'
<1>1. PICK on \in BOOLEAN :
        Enter(At("last")) /\ NewPolicy([auto EXCEPT !.on = on]) /\ UNCHANGED <<defs, want>>
  BY DEF SetAutoSwitch
<1>2. [auto EXCEPT !.on = on] \in Policies(DOMAIN defs)
  BY DEF IInv, ConfigOK, Policies
<1> QED
  BY <1>1, <1>2, PolicyUseCaseKeeps

LEMMA ConfigureAutoSwitchKeeps ==
  ASSUME IInv, ConfigureAutoSwitch
  PROVE  IInv'
  BY PolicyUseCaseKeeps DEF ConfigureAutoSwitch

LEMMA SavePowerProfileKeeps ==
  ASSUME IInv, SavePowerProfile
  PROVE  IInv'
<1>1. PICK n \in Names, d \in Defs :
        /\ Enter(IF snap.applied = n THEN [At("cap") EXCEPT !.name = n, !.ret = "last"]
                                     ELSE At("last"))
        /\ defs' = [m \in DOMAIN defs \cup {n} |-> IF m = n THEN d ELSE defs[m]]
        /\ UNCHANGED <<want, auto, polVer>>
  BY DEF SavePowerProfile
<1> DEFINE f == IF snap.applied = n THEN [At("cap") EXCEPT !.name = n, !.ret = "last"]
                                    ELSE At("last")
<1>2. /\ f \in Frames /\ f.at \in {"cap", "last"} /\ (f.at = "cap" => f.name = n /\ f.ret = "last")
  <2>1. CASE snap.applied = n
    <3>1. f = CapFrame(n, "last")
      BY <2>1 DEF CapFrame
    <3> HIDE DEF f
    <3> QED
      BY <3>1, CapFrameIs
  <2>2. CASE snap.applied # n
    BY <2>2, AtIs, LabelsAre
  <2> QED
    BY <2>1, <2>2
<1>3. Enter(f)
  BY <1>1
<1> HIDE DEF f
<1>4. Unrefreshed(f) /\ f.at \notin {"idle", "boot"}
  BY <1>2, LabelsAre DEF Unrefreshed
<1>5. n \in DOMAIN defs'
  BY <1>1
<1>6. ConfigOK'
  <2> DEFINE D == DOMAIN defs \cup {n}
  <2>1. Builtin \subseteq D /\ D \subseteq Names /\ Referenced \subseteq D
    BY DEF IInv, ConfigOK, Referenced, Policies
  <2>2. defs' = [m \in D |-> IF m = n THEN d ELSE defs[m]] /\ D \subseteq DOMAIN defs \cup {n}
    BY <1>1
  <2> HIDE DEF D
  <2> QED
    BY <1>1, <2>1, <2>2, RegistryIs DEF IInv
<1>7. f.at \in Applying => f.name \in DOMAIN defs'
  BY <1>2, <1>5, LabelsAre
<1> QED
  BY <1>1, <1>2, <1>3, <1>4, <1>6, <1>7, UseCaseKeeps

LEMMA DeletePowerProfileKeeps ==
  ASSUME IInv, DeletePowerProfile
  PROVE  IInv'
<1>1. PICK n \in (DOMAIN defs \cap Custom) \ Referenced :
        /\ Enter(At("last"))
        /\ defs' = [m \in DOMAIN defs \ {n} |-> defs[m]]
        /\ UNCHANGED <<want, auto, polVer>>
  BY DEF DeletePowerProfile
<1>2. At("last") \in Frames /\ At("last").at = "last"
  BY AtIs, LabelsAre
<1> DEFINE f == At("last")
<1>3. f \in Frames /\ f.at \notin {"idle", "boot"} /\ f.at \notin Applying /\ Unrefreshed(f) /\ Enter(f)
  BY <1>1, <1>2, LabelsAre DEF Unrefreshed
<1> HIDE DEF f
<1>4. ConfigOK'
  <2> DEFINE D == DOMAIN defs \ {n}
  <2>1. n \notin Builtin
    BY NamesAssumption
  <2>2. DOMAIN defs' = D /\ Builtin \subseteq D /\ D \subseteq Names /\ \A m \in D : defs'[m] \in Defs
    BY <1>1, <2>1 DEF IInv, ConfigOK
  <2>3. want' \in D /\ auto' \in Policies(D)
    BY <1>1 DEF IInv, ConfigOK, Policies, Referenced
  <2> QED
    BY <2>2, <2>3 DEF ConfigOK
<1> QED
  BY <1>1, <1>3, <1>4, UseCaseKeeps

LEMMA ReloadKeeps ==
  ASSUME IInv, Reload
  PROVE  IInv'
<1>1. At("target") \in Frames /\ At("target").at = "target"
  BY AtIs, LabelsAre
<1> DEFINE f == At("target")
<1>2. f \in Frames /\ f.at \notin {"idle", "boot"} /\ f.at \notin Applying /\ Unrefreshed(f)
  BY <1>1, LabelsAre DEF Unrefreshed
<1>3. Enter(f)
  BY DEF Reload
<1> HIDE DEF f
<1>4. CASE want' \in DOMAIN defs \ {want} /\ UNCHANGED <<defs, auto, polVer>>
  <2>1. ConfigOK'
    BY <1>4 DEF IInv, ConfigOK
  <2> QED
    BY <1>2, <1>3, <1>4, <2>1, UseCaseKeeps
<1>5. ASSUME NEW a \in Policies(DOMAIN defs), NewPolicy(a), UNCHANGED <<defs, want>> PROVE IInv'
  BY <1>3, <1>5, PolicyUseCaseKeeps DEF f
<1>6. ASSUME NEW n \in Names, NEW d \in Defs, UNCHANGED <<want, auto, polVer>>,
             defs' = [m \in Builtin \cup Referenced \cup {n} |-> IF m = n THEN d ELSE defs[m]]
      PROVE  IInv'
  <2> DEFINE D == Builtin \cup Referenced \cup {n}
  <2>1. Builtin \subseteq D /\ D \subseteq Names /\ Referenced \subseteq D /\ D \subseteq DOMAIN defs \cup {n}
    BY DEF IInv, ConfigOK, Referenced, Policies
  <2>2. defs' = [m \in D |-> IF m = n THEN d ELSE defs[m]]
    BY <1>6
  <2> HIDE DEF D
  <2>3. ConfigOK'
    BY <1>6, <2>1, <2>2, RegistryIs DEF IInv
  <2> QED
    BY <1>2, <1>3, <1>6, <2>3, UseCaseKeeps
<1> QED
  BY <1>4, <1>5, <1>6 DEF Reload

\* A refresh by anyone but the loop, after which the task is where task' says.
LEMMA OtherRefreshKeeps ==
  ASSUME IInv, NEW read, RefreshPower(read), UNCHANGED <<hw, config, world>>,
         TaskOK', task'["loop"] = task["loop"], lp' = lp, hooks' = hooks
  PROVE  IInv'
<1>1. UNCHANGED <<hw, defs, want, auto, polVer, supply, acVer>>
  BY DEF config, world
<1>2. /\ Published(snap') /\ Real(snap', defs)
      /\ q' \in Queues /\ q'.by \notin Tasks /\ faults' \in Nat
  BY RefreshPublishes
<1>3. ConfigOK' /\ HardwareOK' /\ Settled
  BY <1>1, <1>2 DEF IInv, ConfigOK, HardwareOK, Settled
<1>4. LoopParts'
  BY <1>2, <1>3, LoopStays
<1>5. SnapOK'
  BY <1>1, <1>2 DEF SnapOK, Published
<1>6. QueueOK'
  BY <1>2, QueueFree
<1> QED
  BY <1>3, <1>4, <1>5, <1>6 DEF IInv, LoopParts

LEMMA ReconcileIs ==
  ASSUME IInv, NEW n \in DOMAIN defs, NEW done \in {"idle", "last"}, Reconcile(n, done),
         defs' = defs, lock' = lock, task["user"].at # "idle", done = "idle" => lock = "free"
  PROVE  TaskOK' /\ task'["loop"] = task["loop"]
<1> DEFINE f == IF snap'.applied = n THEN At(done) ELSE [At("cap") EXCEPT !.name = n, !.ret = done]
<1>1. n \in Names /\ done \in Labels /\ done \notin Applying
  BY LabelsAre DEF IInv, ConfigOK
<1>2. /\ f \in Frames /\ f.at \in {done, "cap"} /\ (f.at \in Applying => f.name = n)
  <2>1. CASE snap'.applied = n
    BY <1>1, <2>1, AtIs
  <2>2. CASE snap'.applied # n
    <3> DEFINE g == [At("cap") EXCEPT !.name = n, !.ret = done]
    <3>1. g \in Frames /\ g.at = "cap" /\ g.name = n
      <4>1. g = CapFrame(n, done)
        BY DEF CapFrame
      <4>2. \A r \in {"idle", "last"} :
              LET c == CapFrame(n, r) IN c \in Frames /\ c.at = "cap" /\ c.name = n
        BY <1>1, CapFrameIs
      <4> HIDE DEF g
      <4> QED
        BY <4>1, <4>2
    <3>2. f = g
      BY <2>2
    <3> HIDE DEF f, g
    <3> QED
      BY <3>1, <3>2
  <2> QED
    BY <2>1, <2>2
<1>3. task' = [task EXCEPT !["user"] = f]
  BY DEF Reconcile
<1> HIDE DEF f
<1>4. f.at # "boot" /\ (f.at = "idle" => lock' = "free")
  BY <1>2
<1> QED
  BY <1>2, <1>3, <1>4, UserMoves

LEMMA UserRefreshKeeps ==
  ASSUME IInv, NEW read, BootReads(read) \/ ReloadTargets(read) \/ LastRefresh(read)
  PROVE  IInv'
<1>1. CASE BootReads(read)
  <2>1. /\ task["user"].at = "boot" /\ RefreshPower(read) /\ Reconcile(want, "idle")
        /\ UNCHANGED <<hw, config, world, lock, lp, hooks>>
    BY <1>1 DEF BootReads, loopVars
  <2>2. want \in DOMAIN defs /\ defs' = defs /\ lock = "free"
    BY <2>1 DEF IInv, ConfigOK, TaskOK, config
  <2>3. TaskOK' /\ task'["loop"] = task["loop"]
    BY <2>1, <2>2, ReconcileIs
  <2> QED
    BY <2>1, <2>3, OtherRefreshKeeps
<1>2. CASE ReloadTargets(read)
  <2> DEFINE n == IF auto.on /\ snap'.ac # Unknown THEN PolicyTarget(snap'.ac) ELSE want
  <2>1. /\ task["user"].at = "target" /\ RefreshPower(read) /\ Reconcile(n, "last")
        /\ UNCHANGED <<hw, config, world, lock, lp, hooks>>
    BY <1>2 DEF ReloadTargets, loopVars
  <2>2. snap' \in Snapshots
    BY <2>1, RefreshPublishes DEF Published
  <2>3. snap'.ac \in Supplies
    BY <2>2 DEF Snapshots
  <2>4. n \in DOMAIN defs /\ defs' = defs
    BY <2>1, <2>3, PolicyIs DEF IInv, ConfigOK, config
  <2> HIDE DEF n
  <2>5. TaskOK' /\ task'["loop"] = task["loop"]
    BY <2>1, <2>4, ReconcileIs
  <2> QED
    BY <2>1, <2>5, OtherRefreshKeeps
<1>3. CASE LastRefresh(read)
  <2>1. /\ task["user"].at = "last" /\ RefreshPower(read) /\ UserEnds
        /\ UNCHANGED <<hw, config, world>>
    BY <1>3 DEF LastRefresh
  <2>2. TaskOK' /\ task'["loop"] = task["loop"] /\ lp' = lp /\ hooks' = hooks
    BY <2>1, UserEndsIs DEF config
  <2> QED
    BY <2>1, <2>2, OtherRefreshKeeps
<1> QED
  BY <1>1, <1>2, <1>3

LEMMA RefreshTickKeeps ==
  ASSUME IInv, NEW read, RefreshTick(read)
  PROVE  IInv'
<1>1. RefreshPower(read) /\ UNCHANGED <<hw, config, world, lock, task, lp, hooks>>
  BY DEF RefreshTick, loopVars
<1>2. TaskOK'
  BY <1>1 DEF IInv, TaskOK, config
<1> QED
  BY <1>1, <1>2, OtherRefreshKeeps
-----------------------------------------------------------------------------
(* The loop and the surroundings.                                          *)

LEMMA LoopToIs ==
  ASSUME IInv, NEW l \in {"sleep", "poll", "lock"}, LoopTo(l), defs' = defs, lock' = lock,
         task["loop"].at \notin Applying, task["loop"].at = "dead" => task["user"].at = "idle"
  PROVE  TaskOK' /\ task'["loop"].at = l /\ task'["user"] = task["user"]
<1> DEFINE f == At(l)
<1>1. f \in Frames /\ f.at = l /\ l \notin Applying
  BY AtIs, LabelsAre DEF Resting, Labels
<1>2. task' = [task EXCEPT !["loop"] = f]
  BY DEF LoopTo
<1> HIDE DEF f
<1> QED
  BY <1>1, <1>2, LoopMoves

\* A step of the loop that neither reads nor calls.
LEMMA LoopOnlyKeeps ==
  ASSUME IInv, UNCHANGED <<hw, config, world, snap, q>>, faults' \in Nat, TaskOK', LoopParts',
         task'["user"] = task["user"], task["loop"].at # "wait"
  PROVE  IInv'
<1>1. ConfigOK' /\ HardwareOK' /\ SnapOK'
  BY DEF IInv, ConfigOK, HardwareOK, SnapOK, config
<1>2. QueueOK'
  BY QueueStays DEF Tasks
<1> QED
  BY <1>1, <1>2 DEF IInv, LoopParts

LEMMA StartLoopKeeps ==
  ASSUME IInv, StartLoop
  PROVE  IInv'
<1>1. /\ task["user"].at = "idle" /\ task["loop"].at = "dead" /\ LoopTo("sleep")
      /\ UNCHANGED <<hw, config, world, snap, lock, q, lp, hooks, faults>>
  BY DEF StartLoop, LoopTo, loopVars
<1>2. TaskOK' /\ task'["loop"].at = "sleep" /\ task'["user"] = task["user"]
  BY <1>1, LoopToIs, LabelsAre DEF config
<1>3. Settled /\ lp' \in Loops /\ faults' \in Nat
  BY <1>1, LoopFields DEF Settled, config, world, IInv, HardwareOK
<1>4. LoopParts'
  BY <1>1, <1>2, <1>3, LoopRests, NothingPublished DEF Resting
<1> QED
  BY <1>1, <1>2, <1>3, <1>4, LoopOnlyKeeps

LEMMA LoopWakesKeeps ==
  ASSUME IInv, LoopWakes
  PROVE  IInv'
<1>1. /\ task["loop"].at = "sleep"
      /\ UNCHANGED <<hw, config, world, snap, lock, q, hooks, faults>>
  BY DEF LoopWakes
<1>2. Settled /\ defs' = defs /\ faults' \in Nat /\ Published(snap')
  BY <1>1, NothingPublished DEF Settled, config, world, IInv, HardwareOK
<1>3. CASE auto.on
  <2>1. LoopTo("poll") /\ lp' = [lp EXCEPT !.pol = Policy]
    BY <1>3 DEF LoopWakes
  <2>2. TaskOK' /\ task'["loop"].at = "poll" /\ task'["user"] = task["user"]
    BY <1>1, <1>2, <2>1, LoopToIs, LabelsAre
  <2>3. LoopParts'
    BY <1>1, <1>2, <2>1, <2>2, LoopAwakes
  <2> QED
    BY <1>1, <1>2, <2>2, <2>3, LoopOnlyKeeps
<1>4. CASE ~auto.on
  <2>1. Forget /\ task' = task
    BY <1>4 DEF LoopWakes
  <2>2. TaskOK'
    BY <1>1, <1>2, <2>1 DEF IInv, TaskOK
  <2>3. LoopParts'
    BY <1>1, <1>2, <1>4, <2>1, LoopForgets DEF Resting
  <2> QED
    BY <1>1, <1>2, <2>1, <2>2, <2>3, LoopOnlyKeeps
<1> QED
  BY <1>3, <1>4

LEMMA LoopLocksKeeps ==
  ASSUME IInv, LoopLocks
  PROVE  IInv'
<1>1. /\ task["loop"].at = "lock" /\ lock = "free"
      /\ UNCHANGED <<hw, config, world, snap, q, hooks>>
  BY DEF LoopLocks
<1>2. Settled /\ defs' = defs /\ faults \in Nat /\ Published(snap')
  BY <1>1, NothingPublished DEF Settled, config, world, IInv, HardwareOK
<1>3. CASE /\ auto.on
           /\ lock' = "loop"
           /\ task' = [task EXCEPT !["loop"] = [At("cap") EXCEPT !.name = PolicyTarget(lp.ac)]]
           /\ lp' = [lp EXCEPT !.pol = Policy, !.polVer = polVer]
           /\ UNCHANGED faults
  <2> DEFINE n == PolicyTarget(lp.ac)
             f == [At("cap") EXCEPT !.name = n]
  <2>1. n \in DOMAIN defs /\ n \in Names
    BY PolicyIs, LoopFields DEF IInv, ConfigOK
  <2>2. f \in Frames /\ f.at = "cap" /\ f.name = n
    BY <2>1, CapIs
  <2>3. task' = [task EXCEPT !["loop"] = f]
    BY <1>3
  <2> HIDE DEF f
  <2>4. TaskOK' /\ task'["loop"] = f /\ task'["user"] = task["user"]
    BY <1>1, <1>2, <1>3, <2>1, <2>2, <2>3, LoopMoves, LabelsAre
  <2>5. LoopParts'
    BY <1>1, <1>2, <1>3, <2>2, <2>4, LoopDecides
  <2> QED
    BY <1>1, <1>2, <1>3, <2>4, <2>5, LoopOnlyKeeps
<1>4. CASE ~auto.on /\ LoopTo("sleep") /\ Forget /\ UNCHANGED <<lock, faults>>
  <2>1. TaskOK' /\ task'["loop"].at = "sleep" /\ task'["user"] = task["user"]
    BY <1>1, <1>2, <1>4, LoopToIs, LabelsAre
  <2>2. LoopParts'
    BY <1>1, <1>2, <1>4, <2>1, LoopForgets DEF Resting
  <2> QED
    BY <1>1, <1>2, <1>4, <2>1, <2>2, LoopOnlyKeeps
<1>5. CASE Faulty /\ LoopTo("sleep") /\ Iterated(lp.lastAc, lp.lastPol) /\ UNCHANGED lock
  <2>1. TaskOK' /\ task'["loop"].at = "sleep" /\ task'["user"] = task["user"]
    BY <1>1, <1>2, <1>5, LoopToIs, LabelsAre
  <2>2. lp' \in Loops /\ lp'.lastAc = lp.lastAc /\ lp'.lastPol = lp.lastPol
    BY <1>5, LoopFields, IteratedIs DEF IInv
  <2>3. LoopParts'
    BY <1>1, <1>2, <2>1, <2>2, LoopRests DEF Resting
  <2>4. faults' \in Nat
    BY <1>2, <1>5 DEF Faulty, Charge
  <2> QED
    BY <1>1, <1>2, <2>1, <2>3, <2>4, LoopOnlyKeeps
<1> QED
  BY <1>3, <1>4, <1>5 DEF LoopLocks

\* The reads of the loop.
LEMMA LoopRefreshKeeps ==
  ASSUME IInv, NEW read, LoopPolls(read) \/ HookEnds(read)
  PROVE  IInv'
<1>1. /\ RefreshPower(read) /\ task["loop"].at \in {"poll", "hook"}
      /\ UNCHANGED <<hw, defs, want, auto, polVer, supply, acVer, lock, hooks>>
  BY DEF LoopPolls, HookEnds, config, world, loopVars
<1>2. /\ Published(snap') /\ Real(snap', defs)
      /\ q' \in Queues /\ q'.by \notin Tasks /\ faults' \in Nat
  BY <1>1, RefreshPublishes
<1>3. ConfigOK' /\ HardwareOK' /\ Settled /\ SnapOK' /\ QueueOK'
  BY <1>1, <1>2, QueueFree DEF IInv, ConfigOK, HardwareOK, Settled, SnapOK, Published
<1>4. \A l \in {"sleep", "lock"} : LoopTo(l) => TaskOK' /\ task'["loop"].at = l
  BY <1>1, LoopToIs, LabelsAre
<1>5. CASE HookEnds(read)
  <2>1. LoopTo("sleep") /\ lp' = lp
    BY <1>5 DEF HookEnds, loopVars
  <2>2. LoopParts'
    BY <1>1, <1>2, <1>3, <1>4, <2>1, LoopRests, LoopFields DEF Resting, IInv
  <2> QED
    BY <1>3, <1>4, <2>1, <2>2 DEF IInv, LoopParts
<1>6. CASE LoopPolls(read)
  <2>1. CASE snap'.ac = Unknown \/ (snap'.ac = lp.lastAc /\ lp.pol = lp.lastPol)
    <3>1. LoopTo("sleep") /\ Iterated(lp.lastAc, lp.lastPol)
      BY <1>6, <2>1 DEF LoopPolls
    <3>2. lp' \in Loops /\ lp'.lastAc = lp.lastAc /\ lp'.lastPol = lp.lastPol
      BY <3>1, LoopFields, IteratedIs DEF IInv
    <3>3. LoopParts'
      BY <1>1, <1>2, <1>3, <1>4, <3>1, <3>2, LoopRests DEF Resting
    <3> QED
      BY <1>3, <1>4, <3>1, <3>3 DEF IInv, LoopParts
  <2>2. CASE ~(snap'.ac = Unknown \/ (snap'.ac = lp.lastAc /\ lp.pol = lp.lastPol))
    <3>1. /\ LoopTo("lock") /\ task["loop"].at = "poll"
          /\ lp' = [lp EXCEPT !.ac = snap'.ac, !.acVer = snap'.acVer, !.pol = Unknown]
      BY <1>6, <2>2 DEF LoopPolls
    <3>2. LoopParts'
      BY <1>1, <1>2, <1>3, <1>4, <2>2, <3>1, LoopFinds
    <3> QED
      BY <1>3, <1>4, <3>1, <3>2 DEF IInv, LoopParts
  <2> QED
    BY <2>1, <2>2
<1> QED
  BY <1>5, <1>6

LEMMA WorldKeeps ==
  ASSUME IInv, SwitchSupply \/ Meddle
  PROVE  IInv'
<1>1. UNCHANGED <<defs, want, auto, polVer, snap, lock, q, task>>
  BY DEF SwitchSupply, Meddle, config
<1>2. ConfigOK' /\ QueueOK' /\ TaskOK' /\ SnapOK'
  BY <1>1 DEF IInv, ConfigOK, QueueOK, TaskOK, SnapOK
<1>3. CASE SwitchSupply
  <2>1. HardwareOK'
    BY <1>3 DEF SwitchSupply, IInv, HardwareOK
  <2> QED
    BY <1>2, <1>3, <2>1, SupplyChanges DEF IInv, LoopParts
<1>4. CASE Meddle
  <2>1. PICK d \in Defs : hw' = SetPpdProfile(hw, d.ppd, "ok") /\ Charge(2)
    BY <1>4 DEF Meddle
  <2>2. HardwareOK'
    BY <2>1, StepKeeps DEF IInv, HardwareOK, Charge
  <2>3. Settled /\ lp' = lp /\ hooks' = hooks
    BY <1>1, <1>4 DEF Meddle, Settled, world, loopVars
  <2>4. LoopParts'
    BY <1>1, <2>3, LoopStays, NothingPublished
  <2> QED
    BY <1>2, <2>2, <2>4 DEF IInv, LoopParts
<1> QED
  BY <1>3, <1>4
-----------------------------------------------------------------------------
(* The theorems.                                                           *)

LEMMA PowerInit == Init => IInv
<1> SUFFICES ASSUME Init PROVE IInv
  OBVIOUS
<1>1. PICK c \in SUBSET Custom : defs \in [Builtin \cup c -> Defs]
  BY DEF Init
<1>2. ConfigOK
  BY <1>1 DEF Init, ConfigOK, Names
<1>3. HardwareOK
  BY DefsAreHardware DEF Init, HardwareOK
<1>4. QueueOK
  BY QueueValues DEF Init, QueueOK
<1>5. TaskOK /\ task["loop"].at = "dead"
  <2>1. /\ At("boot") \in Frames /\ At("boot").at = "boot"
        /\ At("dead") \in Frames /\ At("dead").at = "dead"
    BY AtIs DEF Labels
  <2>2. /\ task \in [Tasks -> Frames] /\ task["user"] = At("boot") /\ task["loop"] = At("dead")
        /\ lock = "free"
    BY <2>1 DEF Init, Tasks
  <2> QED
    BY <2>1, <2>2, LabelsAre DEF TaskOK, Tasks
<1>6. snap = [applied |-> NoProfile, seen |-> Unknown, ac |-> Unknown, acVer |-> 0, stale |-> FALSE]
  BY DEF Init
<1>7. snap \in Snapshots /\ snap.applied = NoProfile /\ snap.ac = Unknown /\ snap.acVer = 0
  BY <1>6 DEF Snapshots, Supplies
<1>8. SnapOK
  BY <1>7 DEF SnapOK, Real
<1>9. lp = [ac |-> Unknown, acVer |-> 0, pol |-> Unknown, polVer |-> 0,
            lastAc |-> Unknown, lastPol |-> Unknown]
  BY DEF Init
<1>10. lp \in Loops /\ lp.lastAc = Unknown
  BY <1>9 DEF Loops, Supplies, PolicyValues
<1>11. WorldOK
  BY <1>7, <1>10 DEF Init, WorldOK, SupplySeen, Agree
<1>12. HooksOK
  BY <1>10 DEF Init, HooksOK, HooksFor
<1>13. LoopOK
  BY <1>5, LabelsAre DEF LoopOK, LoopFor, PollOK
<1> QED
  BY <1>2, <1>3, <1>4, <1>5, <1>8, <1>11, <1>12, <1>13 DEF IInv

LEMMA PowerStutters ==
  ASSUME IInv, UNCHANGED vars
  PROVE  IInv'
<1>1. /\ UNCHANGED <<hw, defs, want, auto, supply, snap, lock, q, task, lp, acVer, polVer, hooks>>
      /\ faults' = faults
  BY DEF vars
<1>2. ConfigOK' /\ HardwareOK' /\ QueueOK' /\ TaskOK' /\ SnapOK' /\ Settled
  BY <1>1 DEF IInv, ConfigOK, HardwareOK, QueueOK, TaskOK, SnapOK, Settled
<1>3. LoopParts'
  BY <1>1, <1>2, LoopStays, NothingPublished
<1> QED
  BY <1>2, <1>3 DEF IInv, LoopParts

LEMMA PowerStep == IInv /\ [Next]_vars => IInv'
<1> SUFFICES ASSUME IInv, [Next]_vars PROVE IInv'
  OBVIOUS
<1>1. ASSUME NEW t \in Tasks, ApplyStep(t) PROVE IInv'
  BY <1>1, PreflightKeeps, BeginApplyKeeps, VerifyKeeps DEF ApplyStep
<1>2. CASE UserStep
  BY <1>1, <1>2, UserRefreshKeeps DEF UserStep, Tasks
<1>3. CASE LoopStep
  BY <1>1, <1>3, StartLoopKeeps, LoopWakesKeeps, LoopLocksKeeps, LoopRefreshKeeps DEF LoopStep, Tasks
<1>4. ASSUME NEW t \in Tasks, ApplyReturns(t) \/ ApplyTimesOut(t) PROVE IInv'
  BY <1>4, ApplyReturnsKeeps, ApplyTimesOutKeeps
<1>5. CASE LateReturn
  BY <1>5, LateReturnKeeps
<1>6. CASE SetPowerProfile \/ SetAutoSwitch \/ ConfigureAutoSwitch
  BY <1>6, SetPowerProfileKeeps, SetAutoSwitchKeeps, ConfigureAutoSwitchKeeps
<1>7. CASE SavePowerProfile \/ DeletePowerProfile \/ Reload
  BY <1>7, SavePowerProfileKeeps, DeletePowerProfileKeeps, ReloadKeeps
<1>8. ASSUME NEW read \in Reads, RefreshTick(read) PROVE IInv'
  BY <1>8, RefreshTickKeeps
<1>9. CASE SwitchSupply \/ Meddle
  BY <1>9, WorldKeeps
<1>10. CASE UNCHANGED vars
  BY <1>10, PowerStutters
<1> QED
  BY <1>2, <1>3, <1>4, <1>5, <1>6, <1>7, <1>8, <1>9, <1>10 DEF Next

\* The inductive invariant holds of every behaviour: the lock decides who
\* applies, an apply belongs to the task that waits for it, the configuration
\* refers only to profiles it has, and the loop's locals, its hooks and the
\* published supply agree on which change was dealt with.
THEOREM PowerInvariant == Spec => []IInv
  BY PowerInit, PowerStep, PTL DEF Spec

\* What _refresh_power publishes, when no use case is in progress, names a
\* profile whose present definition the published values satisfy.
THEOREM PowerPublishesRealProfiles == Spec => []PublishedProfileIsReal
<1>1. IInv => PublishedProfileIsReal
  <2> SUFFICES ASSUME IInv, task["user"].at = "idle", ~snap.stale, snap.applied # NoProfile
               PROVE  snap.applied \in DOMAIN defs /\ defs[snap.applied] = snap.seen
    BY DEF PublishedProfileIsReal
  <2>1. snap.stale \in BOOLEAN
    BY DEF IInv, SnapOK, Snapshots
  <2>2. Real(snap, defs)
    BY LabelsAre DEF IInv, SnapOK, Unrefreshed
  <2> QED
    BY <2>1, <2>2 DEF Real
<1> QED
  BY <1>1, PowerInvariant, PTL

\* Only ApplyReturns takes an apply out of the queue.
LEMMA OnlyApplyReturns ==
  ASSUME IInv, Next, q.by \in Tasks, q'.by = "none"
  PROVE  ApplyReturns(q.by)
<1>1. q'.by # q.by /\ q \in Queues /\ "nobody" # "none"
  BY QueueValues DEF IInv, QueueOK
<1>2. ~CanCall
  BY QueueValues DEF CanCall, Poisoned
<1>3. \A read : ~RefreshPower(read)
  BY RefreshPublishes
<1>4. \A t \in Tasks : ~ApplyStep(t)
  BY <1>2, <1>3 DEF ApplyStep, Preflight, BeginApply, Verify, Look
<1>5. ~UserStep
  BY <1>3, <1>4 DEF UserStep, BootReads, ReloadTargets, LastRefresh, Tasks
<1>6. ~LoopStep
  BY <1>1, <1>3, <1>4 DEF LoopStep, StartLoop, LoopWakes, LoopLocks, LoopPolls, HookEnds, Tasks
<1>7. \A t \in Tasks : ~ApplyTimesOut(t)
  <2>1. [q EXCEPT !.by = "nobody"].by = "nobody"
    BY <1>1 DEF Queues
  <2> QED
    BY <1>1, <2>1 DEF ApplyTimesOut
<1>8. ~LateReturn /\ \A read : ~RefreshTick(read)
  BY <1>2, <1>3 DEF LateReturn, CanCall, RefreshTick
<1>9. \A f : ~Enter(f)
  BY <1>1 DEF Enter
<1>10. ~SwitchSupply /\ ~Meddle
  BY <1>1 DEF SwitchSupply, Meddle
<1>11. \A t \in Tasks : ApplyReturns(t) => q.by = t
  BY DEF ApplyReturns
<1>12. ~SetPowerProfile /\ ~SetAutoSwitch /\ ~ConfigureAutoSwitch
  BY <1>9 DEF SetPowerProfile, SetAutoSwitch, ConfigureAutoSwitch
<1>13. ~SavePowerProfile /\ ~DeletePowerProfile /\ ~Reload
  BY <1>9 DEF SavePowerProfile, DeletePowerProfile, Reload
<1> QED
  BY <1>5, <1>6, <1>7, <1>8, <1>10, <1>11, <1>12, <1>13 DEF Next

\* apply_power_profile with its rollback, whatever state failures and other
\* programs have left the hardware in: without a failure it reaches the
\* definition, and with one failed group it reaches it or changes nothing.
THEOREM PowerAppliesAllOrNothing == Spec => ApplyIsAllOrNothing
<1> DEFINE AllOrNothing ==
      q.by \in Tasks /\ q'.by = "none" /\ faults' <= faults + 1 =>
         /\ hw' \in {hw, q.def}
         /\ faults' = faults => hw' = q.def
<1>1. ASSUME IInv, [Next]_vars PROVE [AllOrNothing]_vars
  <2> SUFFICES ASSUME Next, q.by \in Tasks, q'.by = "none", faults' <= faults + 1
               PROVE  hw' \in {hw, q.def} /\ (faults' = faults => hw' = q.def)
    BY <1>1
  <2>1. ApplyReturns(q.by) /\ q.def \in Defs /\ IsHardware(hw) /\ faults \in Nat
    BY <1>1, OnlyApplyReturns DEF IInv, QueueOK, HardwareOK
  <2>2. PICK o \in Outcomes(q.def) : hw' = o.res.hw /\ (o.res.ok \/ (~o.res.ok /\ faults' = o.had))
    BY <2>1 DEF ApplyReturns
  <2>3. /\ o.res.ok => o.res.hw = q.def
        /\ ~o.res.ok => o.had > faults
        /\ ~o.res.ok /\ o.had <= faults + 1 => o.res.hw = hw
        /\ o.had \in Nat
    BY <2>1, <2>2, OutcomeIs
  <2>4. CASE o.res.ok
    BY <2>2, <2>3, <2>4
  <2>5. CASE ~o.res.ok
    <3>1. faults' = o.had /\ o.had > faults
      BY <2>2, <2>3, <2>5
    <3>2. hw' = hw
      BY <2>2, <2>3, <2>5, <3>1
    <3>3. faults' # faults
      BY <2>1, <2>3, <3>1
    <3> QED
      BY <3>2, <3>3
  <2> QED
    BY <2>4, <2>5
<1> QED
  BY <1>1, PowerInvariant, PTL DEF Spec, ApplyIsAllOrNothing

\* A step in which the loop records nothing and starts no hook.
LoopQuiet ==
    /\ \/ lp'.lastAc = lp.lastAc /\ lp'.lastPol = lp.lastPol
       \/ lp'.lastAc = Unknown /\ lp'.lastPol = Unknown
    /\ task'["loop"].at = "hook" => task["loop"].at = "hook"

\* ... and the one in which it does both.
LoopActs ==
    /\ task["loop"].at \in Applying /\ hw = defs[task["loop"].name]
    /\ lp'.lastAc = lp.ac /\ lp'.lastPol = lp.pol

LEMMA QuietUser ==
  ASSUME IInv, lp' = lp, NEW f, task' = [task EXCEPT !["user"] = f]
  PROVE  LoopQuiet
  BY TaskFacts DEF LoopQuiet

LEMMA QuietLoop ==
  ASSUME IInv, NEW l \in {"sleep", "poll", "lock"}, LoopTo(l)
  PROVE  task'["loop"].at = l
<1>1. task'["loop"] = At(l)
  BY TaskFacts DEF LoopTo
<1> QED
  BY <1>1, AtIs DEF Labels

LEMMA EndsQuiet ==
  ASSUME IInv, NEW t \in Tasks, NEW applied \in BOOLEAN, Ends(t, applied), task[t].at \in Applying,
         applied => hw = defs[task[t].name]
  PROVE  LoopQuiet \/ LoopActs
<1>1. CASE t = "user"
  BY <1>1, QuietUser DEF Ends, UserEnds, loopVars
<1>2. CASE t = "loop" /\ applied
  <2>1. Iterated(lp.ac, lp.pol)
    BY <1>2 DEF Ends, LoopEnds
  <2>2. lp'.lastAc = lp.ac /\ lp'.lastPol = lp.pol
    BY <2>1, LoopFields, IteratedIs DEF IInv
  <2> QED
    BY <1>2, <2>2 DEF LoopActs
<1>3. CASE t = "loop" /\ ~applied
  <2>1. Iterated(lp.lastAc, lp.lastPol) /\ task' = [task EXCEPT !["loop"] = At("sleep")]
    BY <1>3 DEF Ends, LoopEnds
  <2>2. lp'.lastAc = lp.lastAc /\ lp'.lastPol = lp.lastPol
    BY <2>1, LoopFields, IteratedIs DEF IInv
  <2>3. task'["loop"].at = "sleep"
    BY <2>1, QuietLoop DEF LoopTo
  <2> QED
    BY <2>2, <2>3 DEF LoopQuiet
<1> QED
  BY <1>1, <1>2, <1>3 DEF Tasks

LEMMA MoveQuiet ==
  ASSUME IInv, lp' = lp, NEW t \in Tasks, NEW l \in Applying, task' = [task EXCEPT ![t].at = l]
  PROVE  LoopQuiet
<1>1. task'[t].at = l /\ \A u \in Tasks \ {t} : task'[u] = task[u]
  BY TaskFacts, PlaceAtIs, LabelsAre
<1>2. task'["loop"] = task["loop"] \/ task'["loop"].at = l
  BY <1>1 DEF Tasks
<1> QED
  BY <1>2, LabelsAre DEF LoopQuiet

LEMMA ApplyQuiet ==
  ASSUME IInv, NEW t \in Tasks, ApplyStep(t)
  PROVE  LoopQuiet \/ LoopActs
<1>1. CASE Preflight(t)
  <2>1. CASE task' = [task EXCEPT ![t].at = "apply"] /\ UNCHANGED loopVars
    BY <2>1, MoveQuiet, LabelsAre DEF loopVars
  <2>2. CASE Ends(t, FALSE) /\ task[t].at = "cap"
    BY <2>2, EndsQuiet, LabelsAre
  <2> QED
    BY <1>1, <2>1, <2>2 DEF Preflight
<1>2. CASE BeginApply(t)
  <2>1. PICK l \in Applying : task' = [task EXCEPT ![t].at = l] /\ lp' = lp
    BY <1>2, LabelsAre DEF BeginApply, loopVars
  <2> QED
    BY <2>1, MoveQuiet
<1>3. ASSUME NEW read, Verify(t, read) PROVE LoopQuiet \/ LoopActs
  <2> DEFINE done == read = "ok" /\ hw = defs[task[t].name]
  <2>1. done \in BOOLEAN /\ Ends(t, done) /\ task[t].at \in Applying
    BY <1>3, LabelsAre DEF Verify
  <2>2. done => hw = defs[task[t].name]
    OBVIOUS
  <2> HIDE DEF done
  <2> QED
    BY <2>1, <2>2, EndsQuiet
<1>4. ASSUME NEW read, Look(t, read) PROVE LoopQuiet \/ LoopActs
  <2>1. Ends(t, FALSE) /\ task[t].at \in Applying
    BY <1>4, LabelsAre DEF Look
  <2> QED
    BY <2>1, EndsQuiet
<1> QED
  BY <1>1, <1>2, <1>3, <1>4 DEF ApplyStep

LEMMA UserQuiet ==
  ASSUME IInv, \/ SetPowerProfile \/ SetAutoSwitch \/ ConfigureAutoSwitch
               \/ SavePowerProfile \/ DeletePowerProfile \/ Reload
               \/ \E read \in Reads : BootReads(read) \/ ReloadTargets(read) \/ LastRefresh(read)
  PROVE  LoopQuiet
<1>1. \A f : Enter(f) => LoopQuiet
  BY QuietUser DEF Enter, loopVars
<1>2. SetPowerProfile \/ SetAutoSwitch \/ ConfigureAutoSwitch => LoopQuiet
  BY <1>1 DEF SetPowerProfile, SetAutoSwitch, ConfigureAutoSwitch
<1>3. SavePowerProfile \/ DeletePowerProfile \/ Reload => LoopQuiet
  BY <1>1 DEF SavePowerProfile, DeletePowerProfile, Reload
<1>4. ASSUME NEW read, BootReads(read) \/ ReloadTargets(read) PROVE LoopQuiet
  <2>1. PICK n, done : Reconcile(n, done) /\ lp' = lp
    BY <1>4 DEF BootReads, ReloadTargets, loopVars
  <2> QED
    BY <2>1, QuietUser DEF Reconcile
<1>5. ASSUME NEW read, LastRefresh(read) PROVE LoopQuiet
  BY <1>5, QuietUser DEF LastRefresh, UserEnds, loopVars
<1> QED
  BY <1>2, <1>3, <1>4, <1>5

LEMMA OwnQuiet ==
  ASSUME IInv, \/ StartLoop \/ LoopWakes \/ LoopLocks
               \/ \E read \in Reads : LoopPolls(read) \/ HookEnds(read)
  PROVE  LoopQuiet
<1>1. lp \in Loops /\ lp.lastAc \in Supplies /\ lp.lastPol \in PolicyValues
  BY LoopFields DEF IInv
<1>2. Unknown \in Supplies /\ Unknown \in PolicyValues
  BY DEF Supplies, PolicyValues
<1>3. /\ Forget => lp'.lastAc = Unknown /\ lp'.lastPol = Unknown
      /\ Iterated(lp.lastAc, lp.lastPol) => lp'.lastAc = lp.lastAc /\ lp'.lastPol = lp.lastPol
  BY <1>1, <1>2, IteratedIs DEF Forget
<1>4. \A l \in {"sleep", "poll", "lock"} : LoopTo(l) => task'["loop"].at # "hook"
  BY QuietLoop
<1>5. CASE StartLoop
  BY <1>4, <1>5 DEF StartLoop, LoopTo, LoopQuiet, loopVars
<1>6. CASE LoopWakes
  <2>1. lp' = [lp EXCEPT !.pol = Policy] => lp'.lastAc = lp.lastAc /\ lp'.lastPol = lp.lastPol
    BY <1>1 DEF Loops
  <2> QED
    BY <1>3, <1>4, <1>6, <2>1 DEF LoopWakes, LoopQuiet
<1>7. CASE LoopLocks
  <2>1. lp' = [lp EXCEPT !.pol = Policy, !.polVer = polVer] =>
          lp'.lastAc = lp.lastAc /\ lp'.lastPol = lp.lastPol
    BY <1>1 DEF Loops
  <2>2. ASSUME auto.on, task' = [task EXCEPT !["loop"] = [At("cap") EXCEPT !.name = PolicyTarget(lp.ac)]]
        PROVE  task'["loop"].at # "hook"
    <3> DEFINE f == [At("cap") EXCEPT !.name = PolicyTarget(lp.ac)]
    <3>1. PolicyTarget(lp.ac) \in Names
      BY PolicyIs, LoopFields DEF IInv, ConfigOK
    <3>2. f.at = "cap"
      BY <3>1, CapIs
    <3>3. task'["loop"] = f
      BY <2>2, TaskFacts
    <3> QED
      BY <3>2, <3>3
  <2> QED
    BY <1>3, <1>4, <1>7, <2>1, <2>2 DEF LoopLocks, LoopQuiet
<1>8. ASSUME NEW read, LoopPolls(read) PROVE LoopQuiet
  <2>1. lp' = [lp EXCEPT !.ac = snap'.ac, !.acVer = snap'.acVer, !.pol = Unknown] =>
          lp'.lastAc = lp.lastAc /\ lp'.lastPol = lp.lastPol
    BY <1>1 DEF Loops
  <2> QED
    BY <1>3, <1>4, <1>8, <2>1 DEF LoopPolls, LoopQuiet
<1>9. ASSUME NEW read, HookEnds(read) PROVE LoopQuiet
  BY <1>4, <1>9 DEF HookEnds, LoopQuiet, loopVars
<1> QED
  BY <1>5, <1>6, <1>7, <1>8, <1>9

LEMMA LoopTurns ==
  ASSUME IInv, [Next]_vars
  PROVE  LoopQuiet \/ LoopActs
<1>1. CASE UserStep
  BY <1>1, ApplyQuiet, UserQuiet DEF UserStep, Tasks
<1>2. CASE LoopStep
  BY <1>2, ApplyQuiet, OwnQuiet DEF LoopStep, Tasks
<1>3. ASSUME NEW t \in Tasks, ApplyReturns(t) \/ ApplyTimesOut(t) PROVE LoopQuiet
  <2>1. PICK l \in Applying : task' = [task EXCEPT ![t].at = l] /\ lp' = lp
    BY <1>3, LabelsAre DEF ApplyReturns, ApplyTimesOut, loopVars
  <2> QED
    BY <2>1, MoveQuiet
<1>4. CASE \/ SetPowerProfile \/ SetAutoSwitch \/ ConfigureAutoSwitch
           \/ SavePowerProfile \/ DeletePowerProfile \/ Reload
  BY <1>4, UserQuiet
<1>5. CASE \/ LateReturn \/ SwitchSupply \/ Meddle \/ UNCHANGED vars
           \/ \E read \in Reads : RefreshTick(read)
  BY <1>5 DEF LateReturn, SwitchSupply, Meddle, vars, RefreshTick, loopVars, LoopQuiet
<1> QED
  BY <1>1, <1>2, <1>3, <1>4, <1>5 DEF Next

\* The transition hook is not run again for a supply and a policy it was run
\* for, however the loop's polls, its failures and the use cases interleave.
THEOREM PowerHooksOnce == Spec => HookOncePerChange
<1> DEFINE Once == task["loop"].at # "hook" /\ task'["loop"].at = "hook"
                     => <<lp.acVer, lp.polVer>> \notin hooks
<1>1. ASSUME IInv, [Next]_vars PROVE Once
  <2> SUFFICES ASSUME task["loop"].at # "hook", task'["loop"].at = "hook"
               PROVE  <<lp.acVer, lp.polVer>> \notin hooks
    OBVIOUS
  <2>1. task["loop"].at \in Applying
    BY <1>1, LoopTurns DEF LoopQuiet, LoopActs
  <2>2. Fresh(lp.acVer, polVer) /\ lp.polVer = polVer
    BY <1>1, <2>1 DEF IInv, LoopOK, LoopFor, Polled, Decided
  <2>3. lp.acVer \in Nat /\ lp.polVer \in Nat
    BY <1>1, LoopFields DEF IInv
  <2> QED
    BY <2>2, <2>3 DEF Fresh
<1> QED
  BY <1>1, PowerInvariant, PTL DEF Spec, HookOncePerChange

\* What the loop records as dealt with is what the policy of that moment
\* selects, and is in the hardware then.
THEOREM PowerRecordsWhatIsApplied == Spec => DoneMeansApplied
<1> DEFINE Done ==
      <<lp'.lastAc, lp'.lastPol>> \notin {<<lp.lastAc, lp.lastPol>>, <<Unknown, Unknown>>} =>
         /\ hw = defs[PolicyTarget(lp'.lastAc)]
         /\ lp'.lastPol = Policy
<1>1. ASSUME IInv, [Next]_vars PROVE Done
  <2>1. CASE LoopQuiet
    BY <2>1 DEF LoopQuiet
  <2>2. CASE LoopActs
    <3>1. Decided
      BY <1>1, <2>2 DEF LoopActs, IInv, LoopOK, LoopFor
    <3> QED
      BY <2>2, <3>1 DEF LoopActs, Decided, PolicyTarget
  <2> QED
    BY <1>1, <2>1, <2>2, LoopTurns
<1> QED
  BY <1>1, PowerInvariant, PTL DEF Spec, DoneMeansApplied
=============================================================================
