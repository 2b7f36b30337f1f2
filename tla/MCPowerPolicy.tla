---------------------------- MODULE MCPowerPolicy ----------------------------
(***************************************************************************)
(* A quiet and a fast definition for PowerPolicy, and a start on AC with   *)
(* one profile of each.  Starting on battery is the same with the names in *)
(* the policy exchanged; the other configurations come about by use cases. *)
(***************************************************************************)
EXTENDS PowerPolicy

MCDefs == {Status("power-saver", "low", "powersave", "power", "capped"),
           Status("performance", "high", "performance", "performance", "free")}

MCStart ==
    /\ Init
    /\ supply /\ want \in Builtin
    /\ DOMAIN defs = Names /\ \A m, n \in Names : m # n => defs[m] # defs[n]

MCSpec == MCStart /\ [][Next]_vars /\ Fairness
=============================================================================
