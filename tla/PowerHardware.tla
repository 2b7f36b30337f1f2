---------------------------- MODULE PowerHardware ----------------------------
(***************************************************************************)
(* apply_power_profile and its rollback in backend/hardware.py, as what    *)
(* they leave in the hardware for every way their writes can fail.         *)
(*                                                                         *)
(* The service writes six groups of values: the governor of every CPU (to  *)
(* powersave, "pre"), the profile of power-profiles-daemon, the RAPL       *)
(* limits, the final governor, the EPP of every CPU, and turbo with the    *)
(* performance ceiling ("misc").  A group is written to the end whatever   *)
(* becomes of its members: it is then all new, all old, or Mixed.          *)
(***************************************************************************)
EXTENDS Naturals, FiniteSets

Groups == {"pre", "ppd", "rapl", "gov", "epp", "misc"}

\* A value no definition has: some CPUs or domains were written, others not.
Mixed == "mixed"

\* The fields of a profile's definition, and what is read of the hardware.
Status(ppd, rapl, gov, epp, misc) ==
    [ppd |-> ppd, rapl |-> rapl, gov |-> gov, epp |-> epp, misc |-> misc]

\* What becomes of each group's writes.
Writes == [Groups -> {"ok", "refused", "partial"}]
AllOk == [g \in Groups |-> "ok"]

\* _write_text_verified, for a group of files.
Written(h, field, v, how) ==
    CASE how = "ok"                        -> [h EXCEPT ![field] = v]
      [] how = "partial" /\ h[field] # v   -> [h EXCEPT ![field] = Mixed]
      [] OTHER                             -> h

\* intel_pstate: the performance governor forces its own EPP on its CPUs ...
SetGovernor(h, v, how) ==
    LET w == Written(h, "gov", v, how)
    IN  CASE w.gov = "performance"                       -> [w EXCEPT !.epp = "performance"]
          [] w.gov = Mixed /\ w.epp # "performance"      -> [w EXCEPT !.epp = Mixed]
          [] OTHER                                       -> w

\* ... and refuses any other while it is active.
WriteEpp(h, v, how) ==
    LET other == v \notin {"performance", Mixed}
    IN  Written(h, "epp", v,
                CASE other /\ h.gov = "performance"           -> "refused"
                  [] other /\ h.gov = Mixed /\ how = "ok"     -> "partial"
                  [] OTHER                                    -> how)

\* The daemon has to write an EPP of its own choice to change its profile.
PpdAccepts(h, how) == how = "ok" /\ h.gov = "powersave"
SetPpdProfile(h, v, how) ==
    IF PpdAccepts(h, how) THEN [h EXCEPT !.ppd = v, !.epp = "daemon"] ELSE h

\* The sysfs values that follow the daemon's transition.
WriteLimits(h, d, f) ==
    LET limited  == Written(h, "rapl", d.rapl, f["rapl"])
        governed == SetGovernor(limited, d.gov, f["gov"])
    IN  Written(WriteEpp(governed, d.epp, f["epp"]), "misc", d.misc, f["misc"])

RestorePowerStatus_Straight(h, previous, f) ==
    WriteLimits(SetPpdProfile(h, previous.ppd, f["ppd"]), previous, f)

\* _restore_power_status: back to what was read before the transaction.  A
\* daemon that refuses does not stop it.
RestorePowerStatus(h, previous, f) ==
    LET calm == SetGovernor(h, "powersave", f["pre"])
    IN  WriteLimits(SetPpdProfile(calm, previous.ppd, f["ppd"]), previous, f)

\* The hardware before apply_power_profile decides: the daemon's refusal ends
\* the transaction early.
Attempt(h, d, f) ==
    LET calm == SetGovernor(h, "powersave", f["pre"])
    IN  IF PpdAccepts(calm, f["ppd"])
        THEN WriteLimits(SetPpdProfile(calm, d.ppd, f["ppd"]), d, f)
        ELSE calm

\* apply_power_profile with its writes faring as f and those of its rollback as
\* r: the hardware it leaves, and whether all its checks are true.
ApplyPowerProfile(h, d, f, r) ==
    LET tried == Attempt(h, d, f)
        ok    == f = AllOk /\ tried = d
    IN  [ok |-> ok, hw |-> IF ok THEN tried ELSE RestorePowerStatus(tried, h, r)]
=============================================================================
