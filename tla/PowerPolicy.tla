----------------------------- MODULE PowerPolicy -----------------------------
(***************************************************************************)
(* Power profiles in backend/application.py: the registry of profiles, the *)
(* manual choice and the AC/battery policy, the use cases that change them *)
(* and apply a profile, the auto-switch loop with its transition hook, and *)
(* the published observation.                                              *)
(*                                                                         *)
(* Two tasks apply profiles, a use case ("user") and the loop, both under  *)
(* the mutation lock; the refresh loop only reads.  A read goes through    *)
(* the command queue and is one step; an apply is two, because its caller  *)
(* may give up on it while it goes on in the thread.                       *)
(***************************************************************************)
EXTENDS PowerHardware

CONSTANTS Builtin,     \* the names that cannot be deleted
          Custom,      \* the names a user may give
          Defs,        \* the definitions a profile may have
          NoProfile,   \* the name of no profile
          Unknown,     \* None, for whatever has not been seen
          MaxOps,      \* bound on use cases
          MaxSwitches, \* bound on changes of the supply
          MaxFaults    \* budget for what goes wrong

Names == Builtin \cup Custom

ASSUME NamesAssumption == Builtin # {} /\ Builtin \cap Custom = {} /\ NoProfile \notin Names
ASSUME DefsAssumption ==
    \A d \in Defs : /\ d = Status(d.ppd, d.rapl, d.gov, d.epp, d.misc)
                    /\ d.gov # Mixed /\ d.epp # Mixed
                    /\ d.gov = "performance" => d.epp = "performance"
ASSUME BoundsAssumption == MaxOps \in Nat /\ MaxSwitches \in Nat /\ MaxFaults \in Nat

VARIABLES hw,      \* the values in the hardware
          defs,    \* config power.profiles
          want,    \* config power.profile, the manual choice
          auto,    \* config power.auto_switch
          supply,  \* the AC adapter is online
          snap,    \* the published power observation
          lock,    \* holder of _mutation_lock
          q,       \* the command queue: an apply in progress, or a timed-out call
          task,    \* the use case in progress and _auto_switch_loop
          lp,      \* the loop's locals
          acVer, polVer, \* ghosts: changes of the supply, of the policy
          hooks,   \* ghost: the changes for which a hook was run
          ops, faults    \* use cases called, budget used

vars == <<hw, defs, want, auto, supply, snap, lock, q, task, lp, acVer, polVer, hooks, ops, faults>>
config == <<defs, want, auto, polVer>>
world == <<supply, acVer>>
loopVars == <<lp, hooks>>

Tasks == {"user", "loop"}
IdleQueue == [by |-> "none", def |-> Unknown]
At(l) == [at |-> l, name |-> NoProfile, keep |-> FALSE, ret |-> "idle"]

\* The policy as the loop compares it, and what it selects.
Policy == <<auto.ac, auto.bat>>
PolicyTarget(ac) == IF ac THEN auto.ac ELSE auto.bat
Policies(names) == [on : BOOLEAN, ac : names, bat : names]

\* The names the configuration refers to.
Referenced == {want, auto.ac, auto.bat}

Init ==
    /\ hw \in Defs /\ supply \in BOOLEAN
    /\ \E s \in SUBSET Custom : defs \in [Builtin \cup s -> Defs]
    /\ want \in DOMAIN defs /\ auto \in Policies(DOMAIN defs)
    /\ snap = [applied |-> NoProfile, seen |-> Unknown, ac |-> Unknown, acVer |-> 0, stale |-> FALSE]
    /\ lock = "free" /\ q = IdleQueue
    /\ task = [t \in Tasks |-> IF t = "user" THEN At("boot") ELSE At("dead")]
    /\ lp = [ac |-> Unknown, acVer |-> 0, pol |-> Unknown, polVer |-> 0,
             lastAc |-> Unknown, lastPol |-> Unknown]
    /\ acVer = 0 /\ polVer = 0 /\ hooks = {} /\ ops = 0 /\ faults = 0
-----------------------------------------------------------------------------
(* Reading the hardware.                                                   *)

\* The profiles whose definition the hardware satisfies, and the one published:
\* the manual choice, or the only one.
Matched == {n \in DOMAIN defs : defs[n] = hw}
AppliedName ==
    IF want \in Matched THEN want
    ELSE IF Cardinality(Matched) = 1 THEN CHOOSE n \in Matched : TRUE ELSE NoProfile

Poisoned == q.by = "nobody"
CanCall == q.by = "none" \/ Poisoned

\* What goes wrong is charged to a budget; a failing write, save or apply costs
\* one unit, a failing read or another program two.
Charge(n) == faults + n <= MaxFaults /\ faults' = faults + n
Faulty == Charge(1)

Observation == [applied |-> AppliedName, seen |-> IF hw \in Defs THEN hw ELSE Unknown, ac |-> supply, acVer |-> acVer, stale |-> FALSE]

Reads == {"ok", "blind", "failed"}

\* _refresh_power: the read succeeds; it finds nothing it can use, which is
\* published too; or it is refused, or times out and poisons the queue, and the
\* last observation is marked stale.
RefreshPower(read) ==
    \/ /\ read = "ok" /\ q.by = "none"
       /\ snap' = Observation /\ UNCHANGED <<q, faults>>
    \/ /\ read = "blind" /\ q.by = "none" /\ Charge(2)
       /\ snap' = [Observation EXCEPT !.applied = NoProfile, !.seen = Unknown, !.ac = Unknown]
       /\ UNCHANGED q
    \/ /\ read = "failed" /\ CanCall
       /\ snap' = [snap EXCEPT !.stale = TRUE]
       /\ IF Poisoned THEN UNCHANGED <<q, faults>>
                      ELSE Charge(2) /\ q' = [IdleQueue EXCEPT !.by = "nobody"]
-----------------------------------------------------------------------------
(* _apply_power_profile.                                                   *)

\* An iteration of the loop is over; its locals mean nothing any more.
Iterated(ac, pol) ==
    lp' = [ac |-> Unknown, acVer |-> 0, pol |-> Unknown, polVer |-> 0, lastAc |-> ac, lastPol |-> pol]

LoopEnds_OldPolicy(applied) ==
    /\ task' = [task EXCEPT !["loop"] = At(IF applied THEN "hook" ELSE "sleep")]
    /\ lock' = "free"
    /\ IF applied
       THEN /\ Iterated(lp.ac, lp.lastPol)
            /\ hooks' = hooks \cup {<<lp.acVer, lp.polVer>>}
       ELSE Iterated(lp.lastAc, lp.lastPol) /\ UNCHANGED hooks

\* The loop's apply is over: if it worked, the change is done with and its hook
\* runs, after the lock is released.
LoopEnds(applied) ==
    /\ task' = [task EXCEPT !["loop"] = At(IF applied THEN "hook" ELSE "sleep")]
    /\ lock' = "free"
    /\ IF applied
       THEN /\ Iterated(lp.ac, lp.pol)
            /\ hooks' = hooks \cup {<<lp.acVer, lp.polVer>>}
       ELSE Iterated(lp.lastAc, lp.lastPol) /\ UNCHANGED hooks

\* A use case is over, or goes on to its last refresh.
UserEnds ==
    /\ task' = [task EXCEPT !["user"] = At(task["user"].ret)]
    /\ lock' = IF task["user"].ret = "idle" THEN "free" ELSE lock
    /\ UNCHANGED loopVars

Ends(t, applied) == IF t = "user" THEN UserEnds ELSE LoopEnds(applied)

\* The capability is read; without it nothing is tried.
Preflight(t) ==
    /\ task[t].at = "cap" /\ CanCall
    /\ \/ /\ ~Poisoned
          /\ task' = [task EXCEPT ![t].at = "apply"]
          /\ UNCHANGED <<lock, q, loopVars, faults>>
       \/ /\ IF Poisoned THEN UNCHANGED <<q, faults>>
             ELSE Faulty /\ q' \in {IdleQueue, [IdleQueue EXCEPT !.by = "nobody"]}
          /\ Ends(t, FALSE)
    /\ UNCHANGED <<hw, config, world, snap, ops>>

\* The apply is put, or refused.
BeginApply(t) ==
    /\ task[t].at = "apply" /\ CanCall
    /\ IF Poisoned
       THEN task' = [task EXCEPT ![t].at = "look"] /\ UNCHANGED q
       ELSE /\ task' = [task EXCEPT ![t].at = "wait"]
            /\ q' = [by |-> t, def |-> defs[task[t].name]]
    /\ UNCHANGED <<hw, config, world, snap, lock, loopVars, ops, faults>>

\* Any one group of writes may fail in the transaction, and one in its rollback.
OneFailure == {AllOk} \cup {[AllOk EXCEPT ![g] = how] : g \in Groups, how \in {"refused", "partial"}}
Mishaps(n) ==
    IF n = 0 THEN {<<AllOk, AllOk>>} ELSE OneFailure \X (IF n = 1 THEN {AllOk} ELSE OneFailure)
Failures(m) == IF m[1] = AllOk THEN 0 ELSE IF m[2] = AllOk THEN 1 ELSE 2

\* What the hardware function may do, and the failures there were by then.
Outcomes(d) ==
    {[res |-> ApplyPowerProfile(hw, d, m[1], m[2]), had |-> faults + Failures(m)] :
        m \in Mishaps(MaxFaults - faults)}

\* The manual choice after a successful apply: the loop leaves it alone.
Persisted(t) == IF task[t].keep THEN task[t].name ELSE want

\* The apply returns.  A manual choice that was applied is saved, if the disk
\* lets it.
ApplyReturns(t) ==
    /\ q.by = t
    /\ \E o \in Outcomes(q.def) :
        /\ hw' = o.res.hw
        /\ \/ /\ o.res.ok /\ faults' = o.had
              /\ want' = Persisted(t)
              /\ task' = [task EXCEPT ![t].at = "verify"]
           \/ /\ o.res.ok /\ task[t].keep /\ Faulty
              /\ task' = [task EXCEPT ![t].at = "look"] /\ UNCHANGED want
           \/ /\ ~o.res.ok /\ faults' = o.had
              /\ task' = [task EXCEPT ![t].at = "look"] /\ UNCHANGED want
    /\ q' = IdleQueue
    /\ UNCHANGED <<defs, auto, polVer, world, snap, lock, loopVars, ops>>

\* The caller gives up; the transaction goes on.
ApplyTimesOut(t) ==
    /\ q.by = t /\ Faulty
    /\ q' = [q EXCEPT !.by = "nobody"]
    /\ task' = [task EXCEPT ![t].at = "look"]
    /\ UNCHANGED <<hw, config, world, snap, lock, loopVars, ops>>

\* A timed-out call is over.
LateReturn ==
    /\ Poisoned
    /\ IF q.def = Unknown THEN UNCHANGED <<hw, faults>>
       ELSE \E o \in Outcomes(q.def) : hw' = o.res.hw /\ faults' = o.had
    /\ q' = IdleQueue
    /\ UNCHANGED <<config, world, snap, lock, task, loopVars, ops>>

\* What was applied is read back and compared once more.
Verify(t, read) ==
    /\ task[t].at = "verify"
    /\ RefreshPower(read)
    /\ Ends(t, read = "ok" /\ hw = defs[task[t].name])
    /\ UNCHANGED <<hw, config, world, ops>>

\* After a failure the observation is refreshed.
Look(t, read) ==
    /\ task[t].at = "look"
    /\ RefreshPower(read)
    /\ Ends(t, FALSE)
    /\ UNCHANGED <<hw, config, world, ops>>
-----------------------------------------------------------------------------
(* Use cases.                                                              *)

\* A use case begins: it holds the mutation lock from now on.
Enter(frame) ==
    /\ task["user"].at = "idle" /\ lock = "free" /\ ops < MaxOps
    /\ lock' = "user" /\ ops' = ops + 1
    /\ task' = [task EXCEPT !["user"] = frame]
    /\ UNCHANGED <<hw, world, snap, q, loopVars, faults>>

NewPolicy(a) == auto' = a /\ polVer' = IF a = auto THEN polVer ELSE polVer + 1

SetPowerProfile ==
    \E n \in DOMAIN defs :
        /\ Enter([At("cap") EXCEPT !.name = n, !.keep = TRUE])
        /\ UNCHANGED config

SetAutoSwitch ==
    \E on \in BOOLEAN :
        Enter(At("last")) /\ NewPolicy([auto EXCEPT !.on = on]) /\ UNCHANGED <<defs, want>>

ConfigureAutoSwitch ==
    \E a \in Policies(DOMAIN defs) :
        Enter(At("last")) /\ NewPolicy(a) /\ UNCHANGED <<defs, want>>

SavePowerProfile_NoRefresh ==
    \E n \in Names, d \in Defs :
        /\ Enter(IF snap.applied = n THEN [At("cap") EXCEPT !.name = n]
                                     ELSE At("last"))
        /\ defs' = [m \in DOMAIN defs \cup {n} |-> IF m = n THEN d ELSE defs[m]]
        /\ UNCHANGED <<want, auto, polVer>>

\* A profile that is in force is applied again with its new definition.
SavePowerProfile ==
    \E n \in Names, d \in Defs :
        /\ Enter(IF snap.applied = n THEN [At("cap") EXCEPT !.name = n, !.ret = "last"]
                                     ELSE At("last"))
        /\ defs' = [m \in DOMAIN defs \cup {n} |-> IF m = n THEN d ELSE defs[m]]
        /\ UNCHANGED <<want, auto, polVer>>

DeletePowerProfile ==
    \E n \in (DOMAIN defs \cap Custom) \ Referenced :
        /\ Enter(At("last"))
        /\ defs' = [m \in DOMAIN defs \ {n} |-> defs[m]]
        /\ UNCHANGED <<want, auto, polVer>>

\* reload() of a file in which one table was edited.  Only valid files are
\* loaded, and a built-in profile is there whether the file has it or not.
Reload ==
    /\ Enter(At("target"))
    /\ \/ /\ want' \in DOMAIN defs \ {want} /\ UNCHANGED <<defs, auto, polVer>>
       \/ \E a \in Policies(DOMAIN defs) \ {auto} : NewPolicy(a) /\ UNCHANGED <<defs, want>>
       \/ \E n \in Names, d \in Defs :
            /\ defs' = [m \in Builtin \cup Referenced \cup {n} |-> IF m = n THEN d ELSE defs[m]]
            /\ defs' # defs
            /\ UNCHANGED <<want, auto, polVer>>

\* The profile the policy or the manual choice selects is applied unless it is
\* in force.
Reconcile(name, done) ==
    task' = [task EXCEPT !["user"] =
        IF snap'.applied = name THEN At(done) ELSE [At("cap") EXCEPT !.name = name, !.ret = done]]

ReloadTargets(read) ==
    /\ task["user"].at = "target"
    /\ RefreshPower(read)
    /\ Reconcile(IF auto.on /\ snap'.ac # Unknown THEN PolicyTarget(snap'.ac) ELSE want, "last")
    /\ UNCHANGED <<hw, config, world, lock, loopVars, ops>>

\* The refresh that ends a use case.
LastRefresh(read) ==
    /\ task["user"].at = "last"
    /\ RefreshPower(read)
    /\ UserEnds
    /\ UNCHANGED <<hw, config, world, ops>>

\* initialize(): the first observation, and the manual choice applied again.
BootReads(read) ==
    /\ task["user"].at = "boot"
    /\ RefreshPower(read)
    /\ Reconcile(want, "idle")
    /\ UNCHANGED <<hw, config, world, lock, loopVars, ops>>

\* start_background().
StartLoop ==
    /\ task["user"].at = "idle" /\ task["loop"].at = "dead"
    /\ task' = [task EXCEPT !["loop"] = At("sleep")]
    /\ UNCHANGED <<hw, config, world, snap, lock, q, loopVars, ops, faults>>
-----------------------------------------------------------------------------
(* _auto_switch_loop.                                                      *)

LoopTo(l) == task' = [task EXCEPT !["loop"] = At(l)]
Forget == Iterated(Unknown, Unknown)

\* Every 2 s, or later after failures.
LoopWakes ==
    /\ task["loop"].at = "sleep"
    /\ IF auto.on THEN LoopTo("poll") /\ lp' = [lp EXCEPT !.pol = Policy]
                  ELSE Forget /\ UNCHANGED task
    /\ UNCHANGED <<hw, config, world, snap, lock, q, hooks, ops, faults>>

LoopPolls_OnlySupply(read) ==
    /\ task["loop"].at = "poll"
    /\ RefreshPower(read)
    /\ IF snap'.ac = Unknown \/ snap'.ac = lp.lastAc
       THEN LoopTo("sleep") /\ Iterated(lp.lastAc, lp.lastPol)
       ELSE LoopTo("lock") /\ lp' = [lp EXCEPT !.ac = snap'.ac, !.acVer = snap'.acVer, !.pol = Unknown]
    /\ UNCHANGED <<hw, config, world, lock, hooks, ops>>

\* Nothing to do when supply and policy are those already dealt with.
LoopPolls(read) ==
    /\ task["loop"].at = "poll"
    /\ RefreshPower(read)
    /\ IF snap'.ac = Unknown \/ (snap'.ac = lp.lastAc /\ lp.pol = lp.lastPol)
       THEN LoopTo("sleep") /\ Iterated(lp.lastAc, lp.lastPol)
       ELSE LoopTo("lock") /\ lp' = [lp EXCEPT !.ac = snap'.ac, !.acVer = snap'.acVer, !.pol = Unknown]
    /\ UNCHANGED <<hw, config, world, lock, hooks, ops>>

\* Under the lock the policy is read again; a pending fan restore sends the
\* loop back to sleep.
LoopLocks ==
    /\ task["loop"].at = "lock" /\ lock = "free"
    /\ \/ /\ auto.on
          /\ lock' = "loop"
          /\ task' = [task EXCEPT !["loop"] = [At("cap") EXCEPT !.name = PolicyTarget(lp.ac)]]
          /\ lp' = [lp EXCEPT !.pol = Policy, !.polVer = polVer]
          /\ UNCHANGED faults
       \/ ~auto.on /\ LoopTo("sleep") /\ Forget /\ UNCHANGED <<lock, faults>>
       \/ Faulty /\ LoopTo("sleep") /\ Iterated(lp.lastAc, lp.lastPol) /\ UNCHANGED lock
    /\ UNCHANGED <<hw, config, world, snap, q, hooks, ops>>

\* The hook ends, by itself or killed after 15 s, and its status is published.
HookEnds(read) ==
    /\ task["loop"].at = "hook"
    /\ RefreshPower(read)
    /\ LoopTo("sleep")
    /\ UNCHANGED <<hw, config, world, lock, loopVars, ops>>
-----------------------------------------------------------------------------
(* The surroundings.                                                       *)

\* _refresh_loop.
RefreshTick(read) ==
    /\ task["loop"].at # "dead"
    /\ RefreshPower(read)
    /\ UNCHANGED <<hw, config, world, lock, task, loopVars, ops>>

\* The adapter is plugged in or pulled.
SwitchSupply ==
    /\ acVer < MaxSwitches
    /\ supply' = ~supply /\ acVer' = acVer + 1
    /\ UNCHANGED <<hw, config, snap, lock, q, task, loopVars, ops, faults>>

\* Another program asks the daemon for a profile of its own.
Meddle ==
    /\ Charge(2)
    /\ \E d \in Defs : hw' = SetPpdProfile(hw, d.ppd, "ok")
    /\ UNCHANGED <<config, world, snap, lock, q, task, loopVars, ops>>

ApplyStep(t) ==
    /\ task[t].at \in {"cap", "apply", "verify", "look"}
    /\ \/ Preflight(t) \/ BeginApply(t)
       \/ \E read \in Reads : Verify(t, read) \/ Look(t, read)

UserStep ==
    \/ ApplyStep("user")
    \/ /\ task["user"].at \in {"boot", "target", "last"}
       /\ \E read \in Reads : BootReads(read) \/ ReloadTargets(read) \/ LastRefresh(read)

LoopStep ==
    \/ ApplyStep("loop") \/ StartLoop \/ LoopWakes \/ LoopLocks
    \/ /\ task["loop"].at \in {"poll", "hook"}
       /\ \E read \in Reads : LoopPolls(read) \/ HookEnds(read)

Next ==
    \/ UserStep \/ LoopStep
    \/ \E t \in Tasks : ApplyReturns(t) \/ ApplyTimesOut(t)
    \/ LateReturn
    \/ SetPowerProfile \/ SetAutoSwitch \/ ConfigureAutoSwitch
    \/ SavePowerProfile \/ DeletePowerProfile \/ Reload
    \/ \E read \in Reads : RefreshTick(read)
    \/ SwitchSupply \/ Meddle

Spec == Init /\ [][Next]_vars

\* The event loop runs both tasks, whose locks are FIFO, and every call in the
\* thread ends.  Use cases, the supply and faults need not happen.
HardwareAnswers == []<>(q.by = "none")
Fairness == SF_vars(UserStep) /\ SF_vars(LoopStep) /\ HardwareAnswers
LiveSpec == Spec /\ Fairness
-----------------------------------------------------------------------------
(* Properties.                                                             *)

TypeOK ==
    /\ hw \in [{"ppd", "rapl", "gov", "epp", "misc"} ->
                 UNION {{d[f] : f \in DOMAIN d} : d \in Defs} \cup {Mixed, "powersave", "performance", "daemon"}]
    /\ DOMAIN defs \subseteq Names /\ \A n \in DOMAIN defs : defs[n] \in Defs
    /\ want \in Names /\ auto \in Policies(Names)
    /\ supply \in BOOLEAN /\ snap.ac \in BOOLEAN \cup {Unknown} /\ snap.applied \in Names \cup {NoProfile}
    /\ lock \in Tasks \cup {"free"} /\ q.by \in Tasks \cup {"none", "nobody"}
    /\ lp.lastAc \in BOOLEAN \cup {Unknown}
    /\ acVer \in 0..MaxSwitches /\ ops \in 0..MaxOps /\ faults \in 0..MaxFaults

\* With no operation in progress, a published profile that is not marked stale
\* is one whose definition of today the published observation satisfies,
\* whatever was saved, deleted, reloaded or given up on meanwhile.
PublishedProfileIsReal ==
    lock = "free" /\ task["user"].at = "idle" /\ ~snap.stale /\ snap.applied # NoProfile =>
        snap.applied \in DOMAIN defs /\ defs[snap.applied] = snap.seen

\* safety.md:38, "at most once per AC/battery transition or policy change": a
\* hook is never started again for a supply it has been started for, unless the
\* policy has changed.
HookOncePerChange ==
    [][task["loop"].at # "hook" /\ task'["loop"].at = "hook"
         => <<lp.acVer, lp.polVer>> \notin hooks]_vars

\* An apply is all or nothing.  When no write fails it reaches its definition,
\* from wherever failures and other programs have left the hardware; when one
\* group fails and the rollback does not, the hardware is as it was, although
\* the governor, the EPP and the daemon constrain one another's order.
ApplyIsAllOrNothing ==
    [][q.by \in Tasks /\ q'.by = "none" /\ faults' <= faults + 1 =>
         /\ hw' \in {hw, q.def}
         /\ faults' = faults => hw' = q.def]_vars

\* What the loop records as dealt with is in the hardware at that moment, for
\* the policy as it is then and not as it was when the loop woke.
DoneMeansApplied ==
    [][<<lp'.lastAc, lp'.lastPol>> \notin {<<lp.lastAc, lp.lastPol>>, <<Unknown, Unknown>>} =>
         /\ hw = defs[PolicyTarget(lp'.lastAc)]
         /\ lp'.lastPol = Policy]_vars

\* While switching is enabled, the loop comes to have applied the profile for
\* the supply and the policy as they are, however its polls interleave with
\* changes of both, failures and use cases.
AutoSwitchFollows ==
    /\ DoneMeansApplied
    /\ <>[](auto.on => lp.lastAc = supply /\ lp.lastPol = Policy)
=============================================================================
