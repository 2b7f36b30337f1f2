------------------------ MODULE TouchpadControlProofs ------------------------
(***************************************************************************)
(* Proofs about TouchpadControl: the inductive invariant behind its five   *)
(* safety properties, for any hidraw nodes and any number of hotplug       *)
(* events, faults and use cases.                                           *)
(***************************************************************************)
EXTENDS TouchpadControl, SequenceTheorems, TLAPS

Kinds == {"none", "pad", "other"}
Fds == [path : Paths \cup {NoPath}, kind : Kinds, live : BOOLEAN]
Reports == [cmd : Nat, val : Nat, set : Settings \cup {"clock", "query"}, last : BOOLEAN]
Workers == [cmd : {"none", "read", "apply", "query"},
            at : {"idle", "reading", "probe", "open", "confirm", "write", "answer", "done"},
            path : Paths \cup {NoPath}, fd : Fds, todo : Seq(Reports), applied : Nat,
            completed : SUBSET Settings, waits : BOOLEAN, ok : BOOLEAN]

\* The registers of a setting.
Registers(s) == {CommandsOf[s][i] : i \in 1..Len(CommandsOf[s])}

\* All registers of a setting hold a value, or were reset with the touchpad.
InRegisters(s, val) == \A c \in Registers(s) : fw[c] \in {val, Reset}
Config(daemon, pad, maps) == [daemon |-> daemon, pad |-> pad, maps |-> maps]
Domain(fresh, daemon, pad, rows) ==
    [fresh |-> fresh, daemon |-> daemon, pad |-> pad, rows |-> rows]
-----------------------------------------------------------------------------
(* The inductive invariant.                                                *)

\* What is open and registered follows from where the task is.
RuntimeOK ==
    /\ node \in [Paths -> Kinds]
    /\ health \in {"STOPPED", "STOPPING", "RUNNING"}
    /\ pc \in {"none", "created", "retry", "opening", "uinput", "session"}
    /\ hid \in Fds /\ (hid.kind = "none" => hid = NoFd)
    /\ pc = "opening" => seen \in Paths
    /\ pc \in {"none", "created", "retry", "opening"} =>
           hid.kind = "none" /\ uin = FALSE /\ reader = FALSE /\ fds = 0
    /\ pc = "uinput" => hid.kind # "none" /\ uin = FALSE /\ reader = FALSE /\ fds = 1
    /\ pc = "session" => hid.kind # "none" /\ uin = TRUE /\ reader \in BOOLEAN /\ fds = 2
    /\ health = "STOPPED" => pc = "none"

\* What a use case knows of the daemon at each of its awaits: l is where it
\* is, a its argument, h the daemon's health, d the setting.
KnownAt(l, a, h, d) ==
    /\ d \in BOOLEAN
    /\ h = "STOPPING" => l \in {"qStop", "stopping", "sdStop"}
    /\ l \in {"qStop", "stopping", "sdStop"} => h # "RUNNING"
    /\ l \in {"qSubmit", "qWait", "qEnd", "down"} => h = "STOPPED"
    /\ l \in {"idle", "apProbe", "apWait", "apSave", "apPart", "refresh", "yield"} =>
           (h = "RUNNING" <=> d = TRUE)
    /\ l \in {"qStop", "qSubmit", "qWait", "qEnd"} => a = d
    /\ l = "stopping" => d = FALSE
LockOK ==
    /\ uc = At(uc.at, uc.arg) /\ cfg = Config(cfg.daemon, cfg.pad, cfg.maps)
    /\ KnownAt(uc.at, uc.arg, health, cfg.daemon)

\* A live descriptor of the worker is open on what its node holds, and once it
\* has been confirmed that is the touchpad; somebody waits for the worker only
\* in the matching use case.
Matches(w, l) ==
    /\ w.cmd = "query" /\ w.waits = TRUE => l = "qWait"
    /\ w.cmd = "apply" /\ w.waits = TRUE => l = "apWait"
    /\ l = "apWait" => w.cmd = "apply" /\ w.waits = TRUE
    /\ l \in {"apSave", "apPart"} => w.todo = <<>>
WorkerOK ==
    /\ wk \in Workers /\ Matches(wk, uc.at)
    /\ wk.at = "reading" => wk.cmd = "read"
    /\ wk.at = "answer" => wk.cmd = "query"
    /\ wk.at \in {"open", "confirm"} => wk.path \in Paths
    /\ wk.fd.live => /\ wk.fd.kind # "none" /\ wk.fd.path \in Paths
                     /\ node[wk.fd.path] = wk.fd.kind /\ wk.fd.path = wk.path
                     /\ wk.at \in {"confirm", "write", "answer"}
                     /\ wk.at # "confirm" => wk.fd.kind = "pad"

\* What the worker has yet to write is none of what the service answers for.
TodoOK ==
    \A i \in 1..Len(wk.todo) :
        /\ wk.todo[i].cmd \in Commands =>
               /\ wk.todo[i].set \in Settings \ sure
               /\ wk.todo[i].cmd \in Registers(wk.todo[i].set)
        /\ uc.at = "apWait" /\ wk.todo[i].set \in Settings =>
               /\ wk.todo[i].set \in DOMAIN uc.arg
               /\ wk.todo[i].cmd \in Commands /\ wk.todo[i].val = uc.arg[wk.todo[i].set]
        /\ wk.todo[i].last =>
               /\ wk.todo[i].set \in Settings
               /\ \A j \in 1..Len(wk.todo) : i < j => wk.todo[j].set # wk.todo[i].set

\* What has been written of the profile so far, and what is complete of it.
BatchOK ==
    uc.at = "apWait" =>
        /\ DOMAIN uc.arg \subseteq Settings
        /\ wk.at # "done" \/ wk.ok =>
               \A s \in DOMAIN uc.arg : \A c \in Registers(s) :
                   \/ fw[c] \in {uc.arg[s], Reset}
                   \/ \E i \in 1..Len(wk.todo) : wk.todo[i].cmd = c /\ wk.todo[i].set = s
        /\ wk.at = "done" => wk.todo = <<>>
        /\ \A s \in wk.completed :
               /\ s \in DOMAIN uc.arg /\ InRegisters(s, uc.arg[s])
               /\ \A i \in 1..Len(wk.todo) : wk.todo[i].set # s

\* What is about to be saved, and what has been, is in the registers.
SavedOK ==
    /\ DOMAIN fw = Commands
    /\ uc.at \in {"apProbe", "apSave", "apPart"} => DOMAIN uc.arg \subseteq Settings
    /\ uc.at = "apProbe" => \A s \in DOMAIN uc.arg : uc.arg[s] \in Nat
    /\ uc.at \in {"apSave", "apPart"} => \A s \in DOMAIN uc.arg : InRegisters(s, uc.arg[s])
    /\ sure \subseteq Settings /\ sure \subseteq DOMAIN cfg.pad
    /\ \A s \in sure : InRegisters(s, cfg.pad[s])

\* Except in a use case that has still to refresh it, the published domain is
\* stale or what the configuration says.
Owing == {"refresh", "recon", "yield", "stopping"}
PublishedOK ==
    /\ pub = Domain(pub.fresh, pub.daemon, pub.pad, pub.rows)
    /\ uc.at \notin Owing /\ pub.fresh =>
           /\ pub.daemon = cfg.daemon /\ pub.pad = cfg.pad
           /\ pub.rows = GestureEntries(cfg.maps)

IInv == RuntimeOK /\ LockOK /\ WorkerOK /\ TodoOK /\ BatchOK /\ SavedOK /\ PublishedOK
-----------------------------------------------------------------------------
(* The runtime and its descriptors.                                        *)

\* A descriptor keeps its device; one that is gone is not live.
LEMMA NoFdIs == NoFd \in Fds /\ NoFd.kind = "none" /\ NoFd.live = FALSE /\ NoFd.path = NoPath
  BY DEF NoFd, Fds, Kinds

LEMMA UnpluggedIs ==
  ASSUME NEW fd \in Fds, NEW p
  PROVE  LET u == Unplugged(fd, p)
         IN  /\ u \in Fds /\ u.kind = fd.kind /\ u.path = fd.path
             /\ u.live => fd.live /\ fd.path # p
             /\ fd = NoFd => u = NoFd
<1>1. CASE fd.path # p
  BY <1>1, NoFdIs DEF Unplugged
<1>2. CASE fd.path = p
  <2>1. Unplugged(fd, p) = [fd EXCEPT !.live = FALSE]
    BY <1>2 DEF Unplugged
  <2>2. fd.live = FALSE => [fd EXCEPT !.live = FALSE] = fd
    BY DEF Fds
  <2> QED
    BY <2>1, <2>2, NoFdIs DEF Fds
<1> QED
  BY <1>1, <1>2

LEMMA OpenedIs ==
  ASSUME RuntimeOK, NEW p \in Paths, node[p] # "none"
  PROVE  /\ Fd(p) \in Fds /\ Fd(p).kind = node[p] /\ Fd(p).kind # "none"
         /\ Fd(p).path = p /\ Fd(p).live = TRUE
  BY DEF RuntimeOK, Fd, Fds

\* Closing a session closes what was open, wherever the task was.
LEMMA CloseIs ==
  ASSUME RuntimeOK, CloseSession
  PROVE  /\ hid' = NoFd /\ hid'.kind = "none" /\ uin' = FALSE /\ reader' = FALSE /\ fds' = 0
<1>1. hid # NoFd <=> hid.kind # "none"
  BY NoFdIs DEF RuntimeOK
<1>2. fds = (IF hid.kind # "none" THEN 1 ELSE 0) + (IF uin THEN 1 ELSE 0)
  BY DEF RuntimeOK
<1>3. fds' = fds - (IF hid # NoFd THEN 1 ELSE 0) - (IF uin THEN 1 ELSE 0)
  BY DEF CloseSession
<1>4. fds' = 0
  BY <1>1, <1>2, <1>3
<1> QED
  BY <1>4, NoFdIs DEF CloseSession

LEMMA RuntimeFrame ==
  ASSUME RuntimeOK, UNCHANGED <<node, runtimeVars>>
  PROVE  RuntimeOK'
  BY DEF RuntimeOK, runtimeVars

\* The task's own steps.
LEMMA TaskKeeps ==
  ASSUME RuntimeOK, RuntimeStep
  PROVE  RuntimeOK' /\ UNCHANGED <<node, health>>
<1>a. UNCHANGED <<node, health>>
  BY DEF RuntimeStep, TaskStep, Discover, OpenHid, CreateUinput, SessionFails, TaskCancelled,
         ReadFails, kernelVars
<1>1. CASE Discover
  BY <1>1, <1>a DEF Discover, RuntimeOK, sessionVars, Touchpad
<1>2. CASE OpenHid
  <2>1. CASE node[seen] # "none" /\ hid' = Fd(seen) /\ fds' = fds + 1 /\ pc' = "uinput"
             /\ UNCHANGED <<uin, reader, done, running, faults>>
    <3>1. pc = "opening" /\ seen \in Paths
      BY <1>2 DEF OpenHid, RuntimeOK
    <3>2. hid' \in Fds /\ hid'.kind # "none"
      BY <2>1, <3>1, OpenedIs
    <3>3. fds' = 1 /\ uin' = FALSE /\ reader' = FALSE
      BY <2>1, <3>1 DEF RuntimeOK
    <3> QED
      BY <1>a, <2>1, <3>1, <3>2, <3>3 DEF RuntimeOK
  <2>2. CASE CloseSession /\ pc' = "retry"
    BY <1>2, <1>a, <2>2, CloseIs, NoFdIs DEF OpenHid, RuntimeOK
  <2> QED
    BY <1>2, <2>1, <2>2 DEF OpenHid
<1>3. CASE CreateUinput
  <2>1. CASE uin' = TRUE /\ fds' = fds + 1 /\ reader' = TRUE /\ pc' = "session" /\ UNCHANGED hid
    BY <1>3, <1>a, <2>1 DEF CreateUinput, RuntimeOK
  <2>2. CASE CloseSession /\ pc' = "retry"
    BY <1>3, <1>a, <2>2, CloseIs, NoFdIs DEF CreateUinput, RuntimeOK
  <2> QED
    BY <1>3, <2>1, <2>2 DEF CreateUinput
<1>4. CASE SessionFails
  BY <1>4, <1>a, CloseIs, NoFdIs DEF SessionFails, RuntimeOK
<1>5. CASE TaskCancelled
  <2>1. CASE pc = "created" /\ UNCHANGED sessionVars
    BY <1>5, <1>a, <2>1 DEF TaskCancelled, RuntimeOK, sessionVars
  <2>2. CASE CloseSession
    BY <1>5, <1>a, <2>2, CloseIs, NoFdIs DEF TaskCancelled, RuntimeOK
  <2> QED
    BY <1>5, <2>1, <2>2 DEF TaskCancelled
<1>6. CASE ReadFails
  BY <1>6, <1>a DEF ReadFails, RuntimeOK
<1> QED
  BY <1>a, <1>1, <1>2, <1>3, <1>4, <1>5, <1>6 DEF RuntimeStep, TaskStep
-----------------------------------------------------------------------------
(* Records.                                                                *)

LEMMA AtIs ==
  ASSUME NEW l, NEW a
  PROVE  At(l, a).at = l /\ At(l, a).arg = a
  BY DEF At

LEMMA IdleIs == Idle.at = "idle" /\ Idle = At("idle", <<>>)
  BY DEF Idle, At

LEMMA MovesTo ==
  ASSUME NEW u, u = At(u.at, u.arg), NEW l
  PROVE  [u EXCEPT !.at = l] = At(l, u.arg)
  BY DEF At

LEMMA ConfigFields ==
  ASSUME NEW d, NEW p, NEW m, NEW c, c = Config(d, p, m)
  PROVE  c = Config(c.daemon, c.pad, c.maps) /\ c.daemon = d /\ c.pad = p /\ c.maps = m
<1>1. c.daemon = d /\ c.pad = p /\ c.maps = m
  BY DEF Config
<1> QED
  BY <1>1, Zenon

LEMMA ConfigPad ==
  ASSUME NEW c, c = Config(c.daemon, c.pad, c.maps), NEW x, NEW d, d = [c EXCEPT !.pad = x]
  PROVE  d = Config(d.daemon, d.pad, d.maps) /\ d.daemon = c.daemon /\ d.pad = x /\ d.maps = c.maps
<1>1. d = Config(c.daemon, x, c.maps)
  BY DEF Config
<1> QED
  BY <1>1, ConfigFields

LEMMA DomainIs ==
  ASSUME NEW d, d = Domain(d.fresh, d.daemon, d.pad, d.rows), NEW x
  PROVE  [d EXCEPT !.fresh = x] = Domain(x, d.daemon, d.pad, d.rows)
  BY DEF Domain
-----------------------------------------------------------------------------
(* The use cases and the daemon.                                           *)

\* A use case at l with argument a, when nothing else is known of the step.
LEMMA LockMoves ==
  ASSUME LockOK, NEW l, NEW a, uc' = At(l, a), cfg' = Config(cfg'.daemon, cfg'.pad, cfg'.maps),
         KnownAt(l, a, health', cfg'.daemon)
  PROVE  LockOK'
<1>1. uc'.at = l /\ uc'.arg = a
  BY AtIs
<1> QED
  BY <1>1 DEF LockOK

LEMMA LockKeeps == IInv /\ [Next]_vars => LockOK'
<1> SUFFICES ASSUME IInv, [Next]_vars PROVE LockOK'
  OBVIOUS
<1>a. RuntimeOK /\ LockOK
  BY DEF IInv
<1>b. /\ uc = At(uc.at, uc.arg) /\ cfg = Config(cfg.daemon, cfg.pad, cfg.maps)
      /\ KnownAt(uc.at, uc.arg, health, cfg.daemon)
  BY <1>a DEF LockOK
<1>c. health \in {"STOPPED", "STOPPING", "RUNNING"}
  BY <1>a DEF RuntimeOK
<1>g. cfg = Config(cfg.daemon, cfg.pad, cfg.maps)
  BY <1>b
<1>d. ASSUME UNCHANGED <<uc, health, cfg>> PROVE LockOK'
  BY <1>a, <1>d DEF LockOK
<1>e. ASSUME UNCHANGED <<health, cfg>>, NEW l, NEW a, uc' = At(l, a),
             KnownAt(l, a, health, cfg.daemon)
      PROVE  LockOK'
  <2>1. cfg' = Config(cfg'.daemon, cfg'.pad, cfg'.maps) /\ KnownAt(l, a, health', cfg'.daemon)
    BY <1>b, <1>e
  <2> QED
    BY <1>a, <1>e, <2>1, LockMoves
<1>1. CASE \/ \E p \in Paths : UnplugDevice(p) \/ \E kind \in {"pad", "other"} : PlugDevice(p, kind)
           \/ WorkerStep \/ RefreshLoop \/ ShutdownBegins \/ UNCHANGED vars
  BY <1>1, <1>d DEF UnplugDevice, PlugDevice, WorkerStep, RefreshLoop, RefreshGestures,
                    ShutdownBegins, appVars, runtimeVars, vars
<1>2. CASE RuntimeRuns
  BY <1>a, <1>2, <1>d, TaskKeeps DEF RuntimeRuns, appVars
<1>3. ASSUME NEW profile, ApplyBegins(profile) PROVE LockOK'
  <2>1. uc = Idle /\ uc' = At("apProbe", profile) /\ UNCHANGED <<health, cfg>>
    BY <1>3 DEF ApplyBegins, Begin, runtimeVars
  <2>2. KnownAt("apProbe", profile, health, cfg.daemon)
    BY <1>b, <2>1, IdleIs DEF KnownAt
  <2> QED
    BY <1>e, <2>1, <2>2
<1>4. CASE ApplyProbes
  <2>1. uc.at = "apProbe" /\ UNCHANGED <<health, cfg>>
    BY <1>4 DEF ApplyProbes, runtimeVars
  <2>2. KnownAt("idle", <<>>, health, cfg.daemon) /\ KnownAt("apWait", uc.arg, health, cfg.daemon)
    BY <1>b, <2>1 DEF KnownAt
  <2>3. uc' = Idle \/ uc' = [uc EXCEPT !.at = "apWait"]
    BY <1>4 DEF ApplyProbes
  <2> QED
    BY <1>b, <1>e, <2>1, <2>2, <2>3, IdleIs, MovesTo
<1>5. CASE ApplyAnswered
  <2>1. uc.at = "apWait" /\ UNCHANGED <<health, cfg>>
    BY <1>5 DEF ApplyAnswered, runtimeVars, appVars
  <2>2. \A a : /\ KnownAt("idle", a, health, cfg.daemon) /\ KnownAt("refresh", a, health, cfg.daemon)
               /\ KnownAt("apSave", a, health, cfg.daemon) /\ KnownAt("apPart", a, health, cfg.daemon)
    BY <1>b, <2>1 DEF KnownAt
  <2>3. \/ uc' = Idle \/ uc' = [uc EXCEPT !.at = "apSave"] \/ uc' = At("refresh", <<>>)
        \/ uc' = At("apPart", [s \in wk.completed |-> uc.arg[s]])
    BY <1>5 DEF ApplyAnswered
  <2> QED
    BY <1>b, <1>e, <2>1, <2>2, <2>3, IdleIs, MovesTo
<1>6. CASE ApplyTimesOut
  <2>1. uc.at = "apWait" /\ uc' = Idle /\ UNCHANGED <<health, cfg>>
    BY <1>6 DEF ApplyTimesOut, runtimeVars, appVars
  <2>2. KnownAt("idle", <<>>, health, cfg.daemon)
    BY <1>b, <2>1 DEF KnownAt
  <2> QED
    BY <1>e, <2>1, <2>2, IdleIs
<1>7. CASE ApplySaves
  <2>1. uc.at \in {"apSave", "apPart"} /\ UNCHANGED health
    BY <1>7 DEF ApplySaves, runtimeVars
  <2>2. cfg' = [cfg EXCEPT !.pad = Merge(cfg.pad, uc.arg)] \/ UNCHANGED cfg
    BY <1>7 DEF ApplySaves
  <2>3. cfg' = Config(cfg'.daemon, cfg'.pad, cfg'.maps) /\ cfg'.daemon = cfg.daemon
    BY <1>b, <2>2, ConfigPad
  <2>4. uc' = At("idle", <<>>) \/ uc' = At("refresh", <<>>)
    BY <1>7, IdleIs DEF ApplySaves
  <2>5. /\ KnownAt("idle", <<>>, health', cfg'.daemon)
        /\ KnownAt("refresh", <<>>, health', cfg'.daemon)
    BY <1>b, <2>1, <2>3 DEF KnownAt
  <2> QED
    BY <1>a, <2>3, <2>4, <2>5, LockMoves
<1>8. CASE UseCaseRefreshes
  <2>1. uc.at = "refresh" /\ uc' = Idle /\ UNCHANGED <<health, cfg>>
    BY <1>8 DEF UseCaseRefreshes, RefreshGestures, runtimeVars
  <2>2. KnownAt("idle", <<>>, health, cfg.daemon)
    BY <1>b, <2>1 DEF KnownAt
  <2> QED
    BY <1>e, <2>1, <2>2, IdleIs
<1>f. ASSUME UNCHANGED cfg, NEW l, NEW a, uc' = At(l, a), KnownAt(l, a, health', cfg.daemon)
      PROVE  LockOK'
  <2>1. cfg' = Config(cfg'.daemon, cfg'.pad, cfg'.maps) /\ KnownAt(l, a, health', cfg'.daemon)
    BY <1>b, <1>f
  <2> QED
    BY <1>a, <1>f, <2>1, LockMoves
<1>9. CASE QueryBegins
  <2>1. /\ uc = Idle /\ uc' = At("qStop", cfg.daemon) /\ UNCHANGED cfg
        /\ health' = IF health = "RUNNING" THEN "STOPPING" ELSE health
    BY <1>9 DEF QueryBegins, Begin, SupervisorStop
  <2>2. KnownAt("qStop", cfg.daemon, health', cfg.daemon)
    BY <1>b, <1>c, <2>1, IdleIs DEF KnownAt
  <2> QED
    BY <1>f, <2>1, <2>2
<1>10. CASE QueryStopped
  <2>1. /\ uc.at = "qStop" /\ uc' = [uc EXCEPT !.at = "qSubmit"] /\ UNCHANGED cfg
        /\ health' = "STOPPED"
    BY <1>10 DEF QueryStopped, SupervisorStopped, appVars
  <2>2. KnownAt("qSubmit", uc.arg, health', cfg.daemon)
    BY <1>b, <2>1 DEF KnownAt
  <2> QED
    BY <1>b, <1>f, <2>1, <2>2, MovesTo
<1>11. CASE QuerySubmits
  <2>1. uc.at = "qSubmit" /\ UNCHANGED <<health, cfg>>
    BY <1>11 DEF QuerySubmits, runtimeVars, appVars
  <2>2. uc' = [uc EXCEPT !.at = "qEnd"] \/ uc' = [uc EXCEPT !.at = "qWait"]
    BY <1>11 DEF QuerySubmits
  <2>3. KnownAt("qEnd", uc.arg, health, cfg.daemon) /\ KnownAt("qWait", uc.arg, health, cfg.daemon)
    BY <1>b, <2>1 DEF KnownAt
  <2> QED
    BY <1>b, <1>e, <2>1, <2>2, <2>3, MovesTo
<1>12. CASE QueryAnswered
  <2>1. uc.at = "qWait" /\ uc' = [uc EXCEPT !.at = "qEnd"] /\ UNCHANGED <<health, cfg>>
    BY <1>12 DEF QueryAnswered, runtimeVars, appVars
  <2>2. KnownAt("qEnd", uc.arg, health, cfg.daemon)
    BY <1>b, <2>1 DEF KnownAt
  <2> QED
    BY <1>b, <1>e, <2>1, <2>2, MovesTo
<1>13. CASE QueryRestarts
  <2>1. uc.at = "qEnd" /\ health = "STOPPED" /\ uc.arg = cfg.daemon /\ cfg.daemon \in BOOLEAN
    BY <1>b, <1>13 DEF QueryRestarts, KnownAt
  <2>2. CASE cfg.daemon = TRUE
    <3>1. health' = "RUNNING" /\ uc' = At("yield", <<>>) /\ UNCHANGED cfg
      BY <1>13, <2>1, <2>2 DEF QueryRestarts, SupervisorStart, appVars
    <3>2. KnownAt("yield", <<>>, health', cfg.daemon)
      BY <2>2, <3>1 DEF KnownAt
    <3> QED
      BY <1>f, <3>1, <3>2
  <2>3. CASE cfg.daemon = FALSE
    <3>1. health' = "STOPPED" /\ uc' = At("refresh", <<>>) /\ UNCHANGED cfg
      BY <1>13, <2>1, <2>3 DEF QueryRestarts, runtimeVars, appVars
    <3>2. KnownAt("refresh", <<>>, health', cfg.daemon)
      BY <2>3, <3>1 DEF KnownAt
    <3> QED
      BY <1>f, <3>1, <3>2
  <2> QED
    BY <2>1, <2>2, <2>3
<1>14. ASSUME NEW on \in BOOLEAN, DaemonSaved(on) PROVE LockOK'
  <2>1. uc = Idle /\ UNCHANGED health
    BY <1>14 DEF DaemonSaved, Begin, runtimeVars
  <2>2. CASE cfg' = [cfg EXCEPT !.daemon = on] /\ uc' = At("recon", <<>>)
    <3>a. cfg' = Config(on, cfg.pad, cfg.maps)
      BY <1>g, <2>2 DEF Config
    <3>1. cfg' = Config(cfg'.daemon, cfg'.pad, cfg'.maps) /\ cfg'.daemon \in BOOLEAN
      BY <3>a, ConfigFields
    <3>2. KnownAt("recon", <<>>, health', cfg'.daemon)
      BY <1>b, <2>1, <3>1, IdleIs DEF KnownAt
    <3> QED
      BY <1>a, <2>2, <3>1, <3>2, LockMoves
  <2>3. CASE UNCHANGED <<cfg, uc>>
    BY <1>d, <2>1, <2>3
  <2> QED
    BY <1>14, <2>2, <2>3 DEF DaemonSaved
<1>15. ASSUME NEW on \in BOOLEAN, ReloadGestures(on) PROVE LockOK'
  <2>1. /\ uc = Idle /\ UNCHANGED health /\ cfg' = [cfg EXCEPT !.daemon = on]
        /\ uc' = At(IF on # cfg.daemon THEN "recon" ELSE "refresh", <<>>)
    BY <1>15 DEF ReloadGestures, Begin, runtimeVars
  <2>a. cfg' = Config(on, cfg.pad, cfg.maps)
    BY <1>g, <2>1 DEF Config
  <2>2. cfg' = Config(cfg'.daemon, cfg'.pad, cfg'.maps) /\ cfg'.daemon = on
    BY <2>a, ConfigFields
  <2>3. KnownAt("recon", <<>>, health', cfg'.daemon)
    BY <1>b, <2>1, <2>2, IdleIs DEF KnownAt
  <2>4. on = cfg.daemon => KnownAt("refresh", <<>>, health', cfg'.daemon)
    BY <1>b, <2>1, <2>2, IdleIs DEF KnownAt
  <2> QED
    BY <1>a, <2>1, <2>2, <2>3, <2>4, LockMoves
<1>16. CASE Reconciles
  <2>1. uc.at = "recon" /\ health # "STOPPING" /\ cfg.daemon \in BOOLEAN /\ UNCHANGED cfg
    BY <1>b, <1>16 DEF Reconciles, KnownAt, appVars
  <2>2. CASE cfg.daemon = TRUE
    <3>1. health' = "RUNNING" /\ uc' = At("yield", <<>>)
      BY <1>16, <2>2 DEF Reconciles, SupervisorStart, runtimeVars
    <3>2. KnownAt("yield", <<>>, health', cfg.daemon)
      BY <2>2, <3>1 DEF KnownAt
    <3> QED
      BY <1>f, <2>1, <3>1, <3>2
  <2>3. CASE cfg.daemon = FALSE
    <3>1. /\ health' = (IF health = "RUNNING" THEN "STOPPING" ELSE health)
          /\ uc' = At("stopping", <<>>)
      BY <1>16, <2>3 DEF Reconciles, SupervisorStop
    <3>2. KnownAt("stopping", <<>>, health', cfg.daemon)
      BY <1>c, <2>1, <2>3, <3>1 DEF KnownAt
    <3> QED
      BY <1>f, <2>1, <3>1, <3>2
  <2> QED
    BY <2>1, <2>2, <2>3
<1>17. CASE Reconciled
  <2>1. uc' = At("refresh", <<>>) /\ UNCHANGED cfg
    BY <1>17 DEF Reconciled, appVars
  <2>2. \/ uc.at = "yield" /\ UNCHANGED health
        \/ uc.at = "stopping" /\ health' = "STOPPED"
    BY <1>17 DEF Reconciled, SupervisorStopped, runtimeVars
  <2>3. KnownAt("refresh", <<>>, health', cfg.daemon)
    BY <1>b, <2>2 DEF KnownAt
  <2> QED
    BY <1>f, <2>1, <2>3
<1>18. CASE MappingSaved
  <2>1. uc = Idle /\ UNCHANGED health
    BY <1>18 DEF MappingSaved, Begin, runtimeVars
  <2>2. ASSUME NEW maps, cfg' = [cfg EXCEPT !.maps = maps], uc' = At("refresh", <<>>)
        PROVE  LockOK'
    <3>a. cfg' = Config(cfg.daemon, cfg.pad, maps)
      BY <1>g, <2>2 DEF Config
    <3>1. cfg' = Config(cfg'.daemon, cfg'.pad, cfg'.maps) /\ cfg'.daemon = cfg.daemon
      BY <3>a, ConfigFields
    <3>2. KnownAt("refresh", <<>>, health', cfg'.daemon)
      BY <1>b, <2>1, <3>1, IdleIs DEF KnownAt
    <3> QED
      BY <1>a, <2>2, <3>1, <3>2, LockMoves
  <2>3. CASE UNCHANGED <<cfg, uc>>
    BY <1>d, <2>1, <2>3
  <2> QED
    BY <1>18, <2>2, <2>3 DEF MappingSaved
<1>19. CASE ShutdownStops
  <2>1. UNCHANGED cfg
    BY <1>19 DEF ShutdownStops, appVars
  <2>2. CASE uc = Idle /\ SupervisorStop /\ uc' = At("sdStop", <<>>)
    <3>1. KnownAt("sdStop", <<>>, health', cfg.daemon)
      BY <1>b, <1>c, <2>2, IdleIs DEF KnownAt, SupervisorStop
    <3> QED
      BY <1>f, <2>1, <2>2, <3>1
  <2>3. CASE uc.at = "sdStop" /\ SupervisorStopped /\ uc' = At("down", <<>>)
    <3>1. KnownAt("down", <<>>, health', cfg.daemon)
      BY <1>b, <2>3 DEF KnownAt, SupervisorStopped
    <3> QED
      BY <1>f, <2>1, <2>3, <3>1
  <2> QED
    BY <1>19, <2>2, <2>3 DEF ShutdownStops
<1> QED
  BY <1>1, <1>2, <1>3, <1>4, <1>5, <1>6, <1>7, <1>8, <1>9, <1>10, <1>11, <1>12, <1>13, <1>14,
     <1>15, <1>16, <1>17, <1>18, <1>19 DEF Next, UseCaseStep
\* The supervisor starts a task only after the last one is gone, and says
\* STOPPED only then.
LEMMA SupervisorKeeps ==
  ASSUME RuntimeOK, UNCHANGED node,
         \/ SupervisorStart /\ health # "STOPPING"
         \/ SupervisorStop
         \/ SupervisorStopped /\ health # "RUNNING"
         \/ UNCHANGED runtimeVars
  PROVE  RuntimeOK'
<1>1. CASE SupervisorStart /\ health # "STOPPING"
  <2>1. CASE health = "RUNNING"
    BY <1>1, <2>1, RuntimeFrame DEF SupervisorStart
  <2>2. CASE health # "RUNNING"
    <3>1. /\ health' = "RUNNING" /\ pc' = "created"
          /\ UNCHANGED <<seen, hid, uin, reader, fds>>
      BY <1>1, <2>2 DEF SupervisorStart, sessionVars
    <3>2. pc = "none"
      BY <1>1, <2>2 DEF RuntimeOK
    <3> QED
      BY <3>1, <3>2 DEF RuntimeOK
  <2> QED
    BY <2>1, <2>2
<1>2. CASE SupervisorStop
  BY <1>2 DEF SupervisorStop, RuntimeOK, sessionVars
<1>3. CASE SupervisorStopped /\ health # "RUNNING"
  BY <1>3 DEF SupervisorStopped, RuntimeOK, sessionVars
<1>4. CASE UNCHANGED runtimeVars
  BY <1>4, RuntimeFrame
<1> QED
  BY <1>1, <1>2, <1>3, <1>4

LEMMA RuntimeKeeps == IInv /\ [Next]_vars => RuntimeOK'
<1> SUFFICES ASSUME IInv, [Next]_vars PROVE RuntimeOK'
  OBVIOUS
<1>a. RuntimeOK /\ KnownAt(uc.at, uc.arg, health, cfg.daemon)
  BY DEF IInv, LockOK
<1>1. ASSUME NEW p \in Paths, UnplugDevice(p) PROVE RuntimeOK'
  <2>1. /\ node' = [node EXCEPT ![p] = "none"] /\ hid' = Unplugged(hid, p)
        /\ UNCHANGED <<health, pc, seen, uin, reader, fds>>
    BY <1>1 DEF UnplugDevice, Unplug
  <2>2. node' \in [Paths -> Kinds]
    BY <1>a, <2>1 DEF RuntimeOK, Kinds
  <2>3. hid \in Fds
    BY <1>a DEF RuntimeOK
  <2>4. hid' \in Fds /\ hid'.kind = hid.kind /\ (hid = NoFd => hid' = NoFd)
    BY <2>1, <2>3, UnpluggedIs
  <2> QED
    BY <1>a, <2>1, <2>2, <2>4 DEF RuntimeOK
<1>2. ASSUME NEW p \in Paths, NEW kind \in {"pad", "other"}, PlugDevice(p, kind) PROVE RuntimeOK'
  <2>1. node' = [node EXCEPT ![p] = kind] /\ UNCHANGED runtimeVars
    BY <1>2 DEF PlugDevice, Plug
  <2>2. node' \in [Paths -> Kinds]
    BY <1>a, <2>1 DEF RuntimeOK, Kinds
  <2> QED
    BY <1>a, <2>1, <2>2 DEF RuntimeOK, runtimeVars
<1>3. CASE RuntimeRuns
  BY <1>a, <1>3, TaskKeeps DEF RuntimeRuns
<1>4. CASE QueryBegins \/ QueryStopped \/ QueryRestarts \/ Reconciles \/ Reconciled \/ ShutdownStops
  <2>1. UNCHANGED node
    BY <1>4 DEF QueryBegins, QueryStopped, QueryRestarts, Reconciles, Reconciled, ShutdownStops
  <2>2. \/ SupervisorStart /\ health # "STOPPING"
        \/ SupervisorStop
        \/ SupervisorStopped /\ health # "RUNNING"
        \/ UNCHANGED runtimeVars
    BY <1>a, <1>4 DEF QueryBegins, QueryStopped, QueryRestarts, Reconciles, Reconciled,
                      ShutdownStops, KnownAt
  <2> QED
    BY <1>a, <2>1, <2>2, SupervisorKeeps
<1>5. CASE \/ WorkerStep \/ RefreshLoop \/ ShutdownBegins \/ UNCHANGED vars
           \/ ApplyProbes \/ ApplyAnswered \/ ApplySaves \/ UseCaseRefreshes \/ ApplyTimesOut
           \/ QuerySubmits \/ QueryAnswered \/ MappingSaved
  BY <1>a, <1>5, RuntimeFrame
     DEF WorkerStep, RefreshLoop, RefreshGestures, ShutdownBegins, ApplyProbes, ApplyAnswered,
         ApplySaves, UseCaseRefreshes, ApplyTimesOut, QuerySubmits, QueryAnswered, MappingSaved, vars
<1>6. CASE \/ \E profile \in Profiles : ApplyBegins(profile)
           \/ \E on \in BOOLEAN : DaemonSaved(on) \/ ReloadGestures(on)
  BY <1>a, <1>6, RuntimeFrame DEF ApplyBegins, DaemonSaved, ReloadGestures
<1> QED
  BY <1>1, <1>2, <1>3, <1>4, <1>5, <1>6 DEF Next, UseCaseStep
-----------------------------------------------------------------------------
(* The published domain.                                                   *)

\* A use case that changes the configuration, or did, owes a refresh.
LEMMA PublishedMoves ==
  ASSUME PublishedOK, UNCHANGED pub,
         uc'.at \in Owing \/ (UNCHANGED cfg /\ (uc.at \notin Owing \/ UNCHANGED uc))
  PROVE  PublishedOK'
  BY DEF PublishedOK

LEMMA PublishedKeeps == IInv /\ [Next]_vars => PublishedOK'
<1> SUFFICES ASSUME IInv, [Next]_vars PROVE PublishedOK'
  OBVIOUS
<1>a. PublishedOK /\ uc = At(uc.at, uc.arg)
  BY DEF IInv, LockOK
<1>1. ASSUME RefreshGestures PROVE PublishedOK'
  <2>1. UNCHANGED cfg
    BY <1>1 DEF RefreshGestures
  <2>2. CASE pub' = Published
    <3>1. pub' = Domain(TRUE, cfg.daemon, cfg.pad, GestureEntries(cfg.maps))
      BY <2>2 DEF Published, Domain
    <3>2. pub'.daemon = cfg.daemon /\ pub'.pad = cfg.pad /\ pub'.rows = GestureEntries(cfg.maps)
          /\ pub'.fresh = TRUE
      BY <3>1, Zenon DEF Domain
    <3>3. pub' = Domain(pub'.fresh, pub'.daemon, pub'.pad, pub'.rows)
      BY <3>1, <3>2, Zenon
    <3> QED
      BY <2>1, <3>2, <3>3 DEF PublishedOK
  <2>3. CASE pub' = [pub EXCEPT !.fresh = FALSE]
    <3>0. pub = Domain(pub.fresh, pub.daemon, pub.pad, pub.rows)
      BY <1>a DEF PublishedOK
    <3>1. pub' = Domain(FALSE, pub.daemon, pub.pad, pub.rows)
      BY <2>3, <3>0, DomainIs
    <3>2. pub'.daemon = pub.daemon /\ pub'.pad = pub.pad /\ pub'.rows = pub.rows /\ pub'.fresh = FALSE
      BY <3>1, Zenon DEF Domain
    <3>3. pub' = Domain(pub'.fresh, pub'.daemon, pub'.pad, pub'.rows)
      BY <3>1, <3>2, Zenon
    <3> QED
      BY <3>2, <3>3 DEF PublishedOK
  <2> QED
    BY <1>1, <2>2, <2>3 DEF RefreshGestures
<1>2. CASE RefreshLoop \/ UseCaseRefreshes
  BY <1>1, <1>2 DEF RefreshLoop, UseCaseRefreshes
<1>3. CASE \/ \E p \in Paths : UnplugDevice(p) \/ \E kind \in {"pad", "other"} : PlugDevice(p, kind)
           \/ WorkerStep \/ RuntimeRuns \/ ShutdownBegins \/ UNCHANGED vars
  BY <1>a, <1>3, PublishedMoves
     DEF UnplugDevice, PlugDevice, WorkerStep, RuntimeRuns, ShutdownBegins, appVars, vars
<1>4. CASE \/ ApplyProbes \/ ApplyAnswered \/ ApplyTimesOut \/ QueryStopped \/ QuerySubmits
           \/ QueryAnswered
  <2>1. UNCHANGED <<pub, cfg>> /\ uc.at \notin Owing
    BY <1>4 DEF ApplyProbes, ApplyAnswered, ApplyTimesOut, QueryStopped, QuerySubmits, QueryAnswered,
                Owing, appVars
  <2> QED
    BY <1>a, <2>1, PublishedMoves
<1>5. CASE (\E profile \in Profiles : ApplyBegins(profile)) \/ QueryBegins \/ ShutdownStops
  <2>1. UNCHANGED <<pub, cfg>> /\ uc.at \notin Owing
    BY <1>5, IdleIs DEF ApplyBegins, Begin, QueryBegins, ShutdownStops, Owing, appVars
  <2> QED
    BY <1>a, <2>1, PublishedMoves
<1>6. CASE QueryRestarts \/ Reconciles \/ Reconciled
  <2>1. UNCHANGED pub /\ uc'.at \in Owing
    BY <1>6, AtIs DEF QueryRestarts, Reconciles, Reconciled, Owing, appVars
  <2> QED
    BY <1>a, <2>1, PublishedMoves
<1>7. CASE MappingSaved \/ \E on \in BOOLEAN : DaemonSaved(on) \/ ReloadGestures(on)
  <2>1. UNCHANGED pub /\ (UNCHANGED <<cfg, uc>> \/ uc'.at \in Owing)
    BY <1>7, AtIs DEF MappingSaved, DaemonSaved, ReloadGestures, Owing
  <2> QED
    BY <1>a, <2>1, PublishedMoves
<1>8. CASE ApplySaves
  <2>1. UNCHANGED pub /\ uc.at \notin Owing /\ (UNCHANGED cfg \/ uc'.at \in Owing)
    BY <1>8, AtIs DEF ApplySaves, Owing
  <2> QED
    BY <1>a, <2>1, PublishedMoves
<1> QED
  BY <1>2, <1>3, <1>4, <1>5, <1>6, <1>7, <1>8 DEF Next, UseCaseStep
-----------------------------------------------------------------------------
(* The worker.                                                             *)

LEMMA IdleWorkerIs ==
  /\ IdleWorker \in Workers /\ IdleWorker.cmd = "none" /\ IdleWorker.at = "idle"
  /\ IdleWorker.fd = NoFd /\ IdleWorker.todo = <<>> /\ IdleWorker.waits = FALSE
<1>1. <<>> \in Seq(Reports)
  OBVIOUS
<1> QED
  BY <1>1, NoFdIs DEF IdleWorker, Workers

LEMMA WorkerFields ==
  ASSUME NEW w \in Workers
  PROVE  /\ w.fd \in Fds /\ w.todo \in Seq(Reports) /\ w.completed \subseteq Settings
         /\ w.waits \in BOOLEAN /\ w.ok \in BOOLEAN /\ w.applied \in Nat
  BY DEF Workers

LEMMA AbandonedIs ==
  LET w == AbandonedRead
  IN  /\ w \in Workers /\ w.cmd = "read" /\ w.at = "reading" /\ w.fd = NoFd /\ w.todo = <<>>
      /\ w.waits = FALSE
<1> DEFINE v == IdleWorker
<1>1. v \in Workers /\ v.fd = NoFd /\ v.todo = <<>> /\ v.waits = FALSE
  BY IdleWorkerIs
<1> HIDE DEF v
<1>2. LET w == [v EXCEPT !.cmd = "read", !.at = "reading"]
      IN  /\ w \in Workers /\ w.cmd = "read" /\ w.at = "reading" /\ w.fd = NoFd /\ w.todo = <<>>
          /\ w.waits = FALSE
  BY <1>1 DEF Workers
<1> QED
  BY <1>2 DEF v, AbandonedRead

LEMMA CommandIs ==
  ASSUME NEW c \in {"apply", "query"}, NEW rs, <<ClockReport>> \o rs \in Seq(Reports)
  PROVE  LET w == Command(c, rs)
         IN  /\ w \in Workers /\ w.cmd = c /\ w.at = "probe" /\ w.fd = NoFd
             /\ w.todo = <<ClockReport>> \o rs /\ w.waits = TRUE /\ w.completed = {}
<1> DEFINE v == IdleWorker
           t == <<ClockReport>> \o rs
<1>1. v \in Workers /\ v.fd = NoFd /\ v.completed = {}
  BY IdleWorkerIs DEF IdleWorker
<1>2. t \in Seq(Reports)
  OBVIOUS
<1> HIDE DEF v, t
<1>3. LET w == [v EXCEPT !.cmd = c, !.at = "probe", !.todo = t, !.waits = TRUE]
      IN  /\ w \in Workers /\ w.cmd = c /\ w.at = "probe" /\ w.fd = NoFd
          /\ w.todo = t /\ w.waits = TRUE /\ w.completed = {}
  BY <1>1, <1>2 DEF Workers
<1> QED
  BY <1>3 DEF v, t, Command

\* A call that somebody waits for is done; any other leaves no trace.
LEMMA FinishedIs ==
  ASSUME NEW w \in Workers, NEW b \in BOOLEAN
  PROVE  LET f == Finished(w, b)
         IN  /\ f \in Workers /\ f.fd = NoFd /\ f.todo = <<>>
             /\ w.waits = TRUE =>
                  /\ f.at = "done" /\ f.cmd = w.cmd /\ f.waits = TRUE /\ f.ok = b
                  /\ f.completed = w.completed
             /\ w.waits = FALSE => f = IdleWorker
<1>1. CASE w.waits = TRUE
  <2>1. Finished(w, b) = [w EXCEPT !.at = "done", !.fd = NoFd, !.todo = <<>>, !.ok = b]
    BY <1>1 DEF Finished
  <2>2. <<>> \in Seq(Reports)
    OBVIOUS
  <2>3. LET f == [w EXCEPT !.at = "done", !.fd = NoFd, !.todo = <<>>, !.ok = b]
        IN  /\ f \in Workers /\ f.fd = NoFd /\ f.todo = <<>>
            /\ f.at = "done" /\ f.cmd = w.cmd /\ f.waits = w.waits /\ f.ok = b
            /\ f.completed = w.completed
    BY <2>2, NoFdIs DEF Workers
  <2> QED
    BY <1>1, <2>1, <2>3
<1>2. CASE w.waits = FALSE
  BY <1>2, IdleWorkerIs DEF Finished
<1> QED
  BY <1>1, <1>2, WorkerFields

\* The call ends, while its use case waits or after it has gone on.
LEMMA FinishKeeps ==
  ASSUME WorkerOK, NEW b \in BOOLEAN, wk' = Finished(wk, b), UNCHANGED <<node, uc>>
  PROVE  WorkerOK'
<1>1. wk \in Workers /\ wk.waits \in BOOLEAN /\ Matches(wk, uc.at)
  BY WorkerFields DEF WorkerOK
<1>2. CASE wk.waits = TRUE
  <2>1. /\ wk' \in Workers /\ wk'.fd.live = FALSE /\ wk'.todo = <<>> /\ wk'.at = "done"
        /\ wk'.cmd = wk.cmd /\ wk'.waits = TRUE
    BY <1>1, <1>2, FinishedIs, NoFdIs
  <2>2. Matches(wk', uc'.at)
    BY <1>1, <1>2, <2>1 DEF Matches
  <2> QED
    BY <2>1, <2>2 DEF WorkerOK
<1>3. CASE wk.waits = FALSE
  <2>1. /\ wk' \in Workers /\ wk'.fd.live = FALSE /\ wk'.todo = <<>> /\ wk'.at = "idle"
        /\ wk'.cmd = "none" /\ wk'.waits = FALSE
    BY <1>1, <1>3, FinishedIs, NoFdIs, IdleWorkerIs
  <2>2. Matches(wk', uc'.at)
    BY <1>1, <1>3, <2>1 DEF Matches
  <2> QED
    BY <2>1, <2>2 DEF WorkerOK
<1> QED
  BY <1>1, <1>2, <1>3

\* Every system call of the worker, for whatever the kernel does in between.
LEMMA WorkerMoves ==
  ASSUME RuntimeOK, WorkerOK, TodoOK, WorkerStep
  PROVE  WorkerOK'
<1>a. UNCHANGED <<node, uc>> /\ wk \in Workers /\ Matches(wk, uc.at)
  BY DEF WorkerStep, WorkerOK
<1>1. CASE WorkerProbes
  <2>1. ASSUME NEW p \in Touchpad, wk' = [wk EXCEPT !.at = "open", !.path = p] PROVE WorkerOK'
    <3>1. p \in Paths
      BY <2>1 DEF Touchpad
    <3>2. /\ wk' \in Workers /\ wk'.at = "open" /\ wk'.path = p /\ wk'.fd = wk.fd
          /\ wk'.cmd = wk.cmd /\ wk'.waits = wk.waits /\ wk'.todo = wk.todo
      BY <1>a, <2>1, <3>1 DEF Workers
    <3> QED
      BY <1>1, <1>a, <3>1, <3>2 DEF WorkerProbes, WorkerOK, Matches
  <2> QED
    BY <1>1, <1>a, <2>1, FinishKeeps DEF WorkerProbes
<1>2. CASE WorkerOpens
  <2>1. CASE node[wk.path] # "none" /\ wk' = [wk EXCEPT !.at = "confirm", !.fd = Fd(wk.path)]
    <3>1. wk.path \in Paths
      BY <1>2 DEF WorkerOpens, WorkerOK
    <3>2. /\ Fd(wk.path) \in Fds /\ Fd(wk.path).kind = node[wk.path] /\ Fd(wk.path).kind # "none"
          /\ Fd(wk.path).path = wk.path
      BY <2>1, <3>1, OpenedIs
    <3>3. /\ wk' \in Workers /\ wk'.at = "confirm" /\ wk'.path = wk.path /\ wk'.fd = Fd(wk.path)
          /\ wk'.cmd = wk.cmd /\ wk'.waits = wk.waits /\ wk'.todo = wk.todo
      BY <1>a, <2>1, <3>2 DEF Workers
    <3> QED
      BY <1>a, <3>1, <3>2, <3>3 DEF WorkerOK, Matches
  <2> QED
    BY <1>2, <1>a, <2>1, FinishKeeps DEF WorkerOpens
<1>3. CASE WorkerConfirms
  <2>1. CASE Touchpad = {wk.path} /\ wk' = [wk EXCEPT !.at = "write"]
    <3>1. node[wk.path] = "pad"
      BY <2>1 DEF Touchpad, Verified
    <3>2. /\ wk' \in Workers /\ wk'.at = "write" /\ wk'.path = wk.path /\ wk'.fd = wk.fd
          /\ wk'.cmd = wk.cmd /\ wk'.waits = wk.waits /\ wk'.todo = wk.todo
      BY <1>a, <2>1 DEF Workers
    <3> QED
      BY <1>a, <3>1, <3>2 DEF WorkerOK, Matches
  <2> QED
    BY <1>3, <1>a, <2>1, FinishKeeps DEF WorkerConfirms
<1>4. CASE WorkerWrites
  <2> DEFINE report == Head(wk.todo)
             n == IF report.set \in Settings THEN 1 ELSE 0
             done1 == IF report.last THEN {report.set} ELSE {}
  <2>1. CASE wk' = [wk EXCEPT !.todo = Tail(@), !.applied = @ + n, !.completed = @ \cup done1]
    <3>1. wk.todo # <<>> /\ wk.at = "write"
      BY <1>4 DEF WorkerWrites
    <3>2. Tail(wk.todo) \in Seq(Reports)
      BY <1>a, <3>1, WorkerFields
    <3>3. wk.applied + n \in Nat
      BY <1>a, WorkerFields
    <3>a. wk.todo \in Seq(Reports) /\ 1 \in 1..Len(wk.todo) /\ report = wk.todo[1]
      BY <1>a, <3>1, WorkerFields
    <3>b. report.last => report.set \in Settings
      BY <3>a DEF TodoOK
    <3>4. wk.completed \cup done1 \subseteq Settings
      BY <1>a, <3>b, WorkerFields
    <3> HIDE DEF n, done1
    <3>5. /\ wk' \in Workers /\ wk'.at = "write" /\ wk'.path = wk.path /\ wk'.fd = wk.fd
          /\ wk'.cmd = wk.cmd /\ wk'.waits = wk.waits
      BY <1>a, <2>1, <3>1, <3>2, <3>3, <3>4 DEF Workers
    <3>6. Matches(wk', uc'.at)
      BY <1>a, <3>1, <3>5 DEF Matches
    <3> QED
      BY <1>a, <3>1, <3>5, <3>6 DEF WorkerOK
  <2> QED
    BY <1>4, <1>a, <2>1, FinishKeeps DEF WorkerWrites
<1>5. CASE WorkerEnds
  <2>1. CASE wk.cmd = "query" /\ wk' = [wk EXCEPT !.at = "answer"]
    <3>1. wk.at = "write"
      BY <1>5 DEF WorkerEnds
    <3>2. /\ wk' \in Workers /\ wk'.at = "answer" /\ wk'.path = wk.path /\ wk'.fd = wk.fd
          /\ wk'.cmd = wk.cmd /\ wk'.waits = wk.waits /\ wk'.todo = wk.todo
      BY <1>a, <2>1 DEF Workers
    <3> QED
      BY <1>a, <2>1, <3>1, <3>2 DEF WorkerOK, Matches
  <2> QED
    BY <1>5, <1>a, <2>1, FinishKeeps DEF WorkerEnds
<1>6. CASE WorkerReadsAnswer
  BY <1>6, <1>a, FinishKeeps DEF WorkerReadsAnswer
<1>7. CASE WorkerReturns
  <2>1. wk' = IdleWorker /\ wk.cmd = "read"
    BY <1>7 DEF WorkerReturns, WorkerOK
  <2> QED
    BY <1>a, <2>1, IdleWorkerIs, NoFdIs DEF WorkerOK, Matches
<1> QED
  BY <1>1, <1>2, <1>3, <1>4, <1>5, <1>6, <1>7 DEF WorkerStep
-----------------------------------------------------------------------------
(* The reports of a profile.                                               *)

LEMMA RegistersAre ==
  /\ Registers("press_text") = {3} /\ Registers("three_finger_drag") = {5, 17}
  /\ \A s \in Settings : /\ CommandsOf[s] \in Seq(Nat)
                         /\ \A i \in 1..Len(CommandsOf[s]) : CommandsOf[s][i] \in Registers(s)
<1>1. CommandsOf["press_text"] = <<3>> /\ CommandsOf["three_finger_drag"] = <<5, 17>>
  BY DEF CommandsOf
<1>2. Registers("press_text") = {3}
  <2>1. Registers("press_text") = {<<3>>[i] : i \in 1..Len(<<3>>)}
    BY <1>1 DEF Registers
  <2>2. 1..Len(<<3>>) = {1} /\ <<3>>[1] = 3
    OBVIOUS
  <2> QED
    BY <2>1, <2>2
<1>3. Registers("three_finger_drag") = {5, 17}
  <2>1. Registers("three_finger_drag") = {<<5, 17>>[i] : i \in 1..Len(<<5, 17>>)}
    BY <1>1 DEF Registers
  <2>2. 1..Len(<<5, 17>>) = {1, 2} /\ <<5, 17>>[1] = 5 /\ <<5, 17>>[2] = 17
    OBVIOUS
  <2> QED
    BY <2>1, <2>2
<1>4. \A s \in Settings : CommandsOf[s] \in Seq(Nat)
  <2>1. <<3>> \in Seq(Nat) /\ <<5, 17>> \in Seq(Nat)
    OBVIOUS
  <2> QED
    BY <1>1, <2>1 DEF Settings
<1>5. \A s : \A i \in 1..Len(CommandsOf[s]) : CommandsOf[s][i] \in Registers(s)
  BY DEF Registers
<1> QED
  BY <1>2, <1>3, <1>4, <1>5

LEMMA ReportIs ==
  ASSUME NEW c \in Nat, NEW v \in Nat, NEW s \in Settings \cup {"clock", "query"}, NEW b \in BOOLEAN
  PROVE  LET r == Report(c, v, s, b)
         IN r \in Reports /\ r.cmd = c /\ r.val = v /\ r.set = s /\ r.last = b
  BY DEF Report, Reports

\* The reports of a setting write it to all its registers; the last says so.
Writes(q, s, v) ==
    /\ q \in Seq(Reports)
    /\ \A i \in 1..Len(q) : /\ q[i].set = s /\ q[i].val = v /\ q[i].cmd \in Registers(s)
                            /\ q[i].last => i = Len(q)
    /\ \A c \in Registers(s) : \E i \in 1..Len(q) : q[i].cmd = c

LEMMA SettingWrites ==
  ASSUME NEW s \in Settings, NEW v \in Nat
  PROVE  Writes(SettingReports(s, v), s, v)
<1> DEFINE q == SettingReports(s, v)
           n == Len(CommandsOf[s])
<1>1. n \in Nat /\ \A i \in 1..n : CommandsOf[s][i] \in Nat
  BY RegistersAre
<1>2. q = [i \in 1..n |-> Report(CommandsOf[s][i], v, s, i = n)]
  BY DEF SettingReports
<1> HIDE DEF q
<1>3. ASSUME NEW i \in 1..n
      PROVE  /\ q[i] \in Reports /\ q[i].cmd = CommandsOf[s][i] /\ q[i].val = v /\ q[i].set = s
             /\ q[i].last => i = n
  <2>1. q[i] = Report(CommandsOf[s][i], v, s, i = n)
    BY <1>2
  <2>2. CommandsOf[s][i] \in Nat /\ s \in Settings \cup {"clock", "query"}
    BY <1>1
  <2> DEFINE b == (i = n)
  <2>3. b \in BOOLEAN
    OBVIOUS
  <2>4. b => i = n
    OBVIOUS
  <2>5. q[i] = Report(CommandsOf[s][i], v, s, b)
    BY <2>1
  <2> HIDE DEF b
  <2> QED
    BY <2>2, <2>3, <2>4, <2>5, ReportIs
<1>4. DOMAIN q = 1..n
  BY <1>2
<1>5. q \in [1..n -> Reports]
  BY <1>2, <1>3
<1>6. q \in Seq(Reports) /\ Len(q) = n
  BY <1>1, <1>5
<1>7. \A c \in Registers(s) : \E i \in 1..Len(q) : q[i].cmd = c
  <2> SUFFICES ASSUME NEW c \in Registers(s) PROVE \E i \in 1..Len(q) : q[i].cmd = c
    OBVIOUS
  <2>1. PICK i \in 1..n : c = CommandsOf[s][i]
    BY DEF Registers
  <2> QED
    BY <1>3, <1>6, <2>1
<1>8. \A i \in 1..n : CommandsOf[s][i] \in Registers(s)
  BY RegistersAre
<1> HIDE DEF n
<1>9. Writes(q, s, v)
  BY <1>3, <1>6, <1>7, <1>8 DEF Writes
<1> QED
  BY <1>9 DEF q

\* A batch for a profile: every report writes a setting of the profile or none,
\* the one marked last is the last of its setting, and nothing is left out.
IsBatch(q, profile) ==
    /\ q \in Seq(Reports)
    /\ \A i \in 1..Len(q) :
           /\ q[i].cmd \in Commands => q[i].set \in Settings
           /\ q[i].set \in Settings =>
                  /\ q[i].set \in DOMAIN profile /\ q[i].val = profile[q[i].set]
                  /\ q[i].cmd \in Registers(q[i].set)
           /\ q[i].last => /\ q[i].set \in Settings
                           /\ \A j \in 1..Len(q) : i < j => q[j].set # q[i].set
    /\ \A s \in DOMAIN profile : \A c \in Registers(s) :
           \E i \in 1..Len(q) : q[i].cmd = c /\ q[i].set = s

LEMMA ProfileIsBatch ==
  ASSUME NEW profile, DOMAIN profile \subseteq Settings,
         \A s \in DOMAIN profile : profile[s] \in Nat
  PROVE  IsBatch(<<ClockReport>> \o ProfileReports(profile), profile)
<1> DEFINE one == "press_text"
           two == "three_finger_drag"
           Of(s) == IF s \in DOMAIN profile THEN SettingReports(s, profile[s]) ELSE <<>>
           a == Of(one)
           b == Of(two)
           u == a \o b
           t == <<ClockReport>> \o u
<1>1. ProfileReports(profile) = u
  BY DEF ProfileReports
<1>2. one \in Settings /\ two \in Settings /\ one # two /\ \A s \in Settings : s = one \/ s = two
  BY DEF Settings
<1>3. /\ a \in Seq(Reports)
      /\ one \in DOMAIN profile => Writes(a, one, profile[one])
      /\ one \notin DOMAIN profile => Len(a) = 0
  <2>1. CASE one \in DOMAIN profile
    BY <1>2, <2>1, SettingWrites DEF Writes
  <2>2. CASE one \notin DOMAIN profile
    BY <2>2
  <2> QED
    BY <2>1, <2>2
<1>4. /\ b \in Seq(Reports)
      /\ two \in DOMAIN profile => Writes(b, two, profile[two])
      /\ two \notin DOMAIN profile => Len(b) = 0
  <2>1. CASE two \in DOMAIN profile
    BY <1>2, <2>1, SettingWrites DEF Writes
  <2>2. CASE two \notin DOMAIN profile
    BY <2>2
  <2> QED
    BY <2>1, <2>2
<1>5. ClockReport \in Reports /\ ClockReport.cmd = 0 /\ ClockReport.set = "clock"
      /\ ClockReport.last = FALSE
  BY DEF ClockReport, Report, Reports
<1> HIDE DEF a, b
<1>6. /\ u \in Seq(Reports) /\ Len(u) = Len(a) + Len(b) /\ Len(a) \in Nat /\ Len(b) \in Nat
      /\ \A i \in 1..Len(u) : u[i] = IF i <= Len(a) THEN a[i] ELSE b[i - Len(a)]
  BY <1>3, <1>4, ConcatProperties
<1> HIDE DEF u
<1>7. /\ t \in Seq(Reports) /\ Len(t) = 1 + Len(u) /\ t[1] = ClockReport
      /\ \A i \in 1..Len(t) : 1 < i => t[i] = u[i - 1]
  <2>1. <<ClockReport>> \in Seq(Reports) /\ Len(<<ClockReport>>) = 1 /\ <<ClockReport>>[1] = ClockReport
    BY <1>5
  <2> QED
    BY <1>6, <2>1, ConcatProperties
<1> HIDE DEF t
\* Where a report of the batch comes from.
<1>8. ASSUME NEW i \in 1..Len(t), t[i].set \in Settings \/ t[i].last \/ t[i].cmd \in Commands
      PROVE  \/ 1 < i /\ i - 1 \in 1..Len(a) /\ t[i] = a[i - 1] /\ one \in DOMAIN profile
             \/ /\ 1 < i /\ i - 1 - Len(a) \in 1..Len(b) /\ t[i] = b[i - 1 - Len(a)]
                /\ two \in DOMAIN profile
  <2>1. 1 < i
    <3>1. CASE i = 1
      BY <1>5, <1>7, <1>8, <3>1 DEF Settings, Commands
    <3> QED
      BY <3>1
  <2>2. i - 1 \in 1..Len(u) /\ t[i] = u[i - 1]
    BY <1>6, <1>7, <2>1
  <2>3. CASE i - 1 <= Len(a)
    BY <1>3, <1>6, <2>1, <2>2, <2>3
  <2>4. CASE ~(i - 1 <= Len(a))
    BY <1>4, <1>6, <2>1, <2>2, <2>4
  <2> QED
    BY <2>3, <2>4
\* A setting of the profile is written by its own reports.
<1>9. ASSUME NEW i \in 1..Len(t), t[i].set \in Settings \/ t[i].last \/ t[i].cmd \in Commands
      PROVE  /\ t[i].set \in Settings /\ t[i].set \in DOMAIN profile
             /\ t[i].val = profile[t[i].set] /\ t[i].cmd \in Registers(t[i].set)
             /\ t[i].set = one => i - 1 \in 1..Len(a) /\ (t[i].last => i - 1 = Len(a))
             /\ t[i].set = two => /\ i - 1 - Len(a) \in 1..Len(b)
                                  /\ t[i].last => i - 1 - Len(a) = Len(b)
  <2>1. CASE 1 < i /\ i - 1 \in 1..Len(a) /\ t[i] = a[i - 1] /\ one \in DOMAIN profile
    <3>1. Writes(a, one, profile[one])
      BY <1>3, <2>1
    <3>2. /\ a[i - 1].set = one /\ a[i - 1].val = profile[one] /\ a[i - 1].cmd \in Registers(one)
          /\ a[i - 1].last => i - 1 = Len(a)
      BY <2>1, <3>1 DEF Writes
    <3> QED
      BY <1>2, <2>1, <3>2
  <2>2. CASE /\ 1 < i /\ i - 1 - Len(a) \in 1..Len(b) /\ t[i] = b[i - 1 - Len(a)]
             /\ two \in DOMAIN profile
    <3>1. Writes(b, two, profile[two])
      BY <1>4, <2>2
    <3> DEFINE k == i - 1 - Len(a)
    <3>2. /\ b[k].set = two /\ b[k].val = profile[two] /\ b[k].cmd \in Registers(two)
          /\ b[k].last => k = Len(b)
      BY <2>2, <3>1 DEF Writes
    <3> QED
      BY <1>2, <2>2, <3>2
  <2> QED
    BY <1>8, <1>9, <2>1, <2>2
<1>10. ASSUME NEW i \in 1..Len(t), t[i].last, NEW j \in 1..Len(t), i < j
       PROVE  t[j].set # t[i].set
  <2> SUFFICES ASSUME t[j].set = t[i].set PROVE FALSE
    OBVIOUS
  <2>1. t[i].set \in Settings /\ t[j].set \in Settings
    BY <1>9, <1>10
  <2>2. CASE t[i].set = one
    BY <1>6, <1>9, <1>10, <2>1, <2>2
  <2>3. CASE t[i].set = two
    BY <1>6, <1>9, <1>10, <2>1, <2>3
  <2> QED
    BY <1>2, <2>1, <2>2, <2>3
<1>11. ASSUME NEW s \in DOMAIN profile, NEW c \in Registers(s)
       PROVE  \E i \in 1..Len(t) : t[i].cmd = c /\ t[i].set = s
  <2>1. CASE s = one
    <3>1. PICK k \in 1..Len(a) : a[k].cmd = c /\ a[k].set = s
      BY <1>3, <2>1 DEF Writes
    <3>2. k + 1 \in 1..Len(t) /\ t[k + 1] = a[k]
      BY <1>6, <1>7
    <3> QED
      BY <3>1, <3>2
  <2>2. CASE s = two
    <3>1. PICK k \in 1..Len(b) : b[k].cmd = c /\ b[k].set = s
      BY <1>4, <2>2 DEF Writes
    <3> DEFINE m == k + Len(a)
    <3>2. m \in 1..Len(u) /\ ~(m <= Len(a)) /\ m - Len(a) = k
      BY <1>6
    <3>3. u[m] = b[k]
      BY <1>6, <3>2
    <3>4. m + 1 \in 1..Len(t) /\ 1 < m + 1 /\ (m + 1) - 1 = m
      BY <1>6, <1>7, <3>2
    <3>5. t[m + 1] = b[k]
      BY <1>7, <3>3, <3>4
    <3> QED
      BY <3>1, <3>4, <3>5
  <2> QED
    BY <1>2, <2>1, <2>2
<1>12. IsBatch(t, profile)
  BY <1>7, <1>9, <1>10, <1>11 DEF IsBatch
<1> QED
  BY <1>1, <1>12 DEF t

LEMMA QueryIsBatch ==
  LET t == <<ClockReport>> \o <<QueryReport>>
  IN  /\ t \in Seq(Reports)
      /\ \A i \in 1..Len(t) :
             t[i].cmd \notin Commands /\ t[i].set \notin Settings /\ ~t[i].last
<1>1. /\ ClockReport \in Reports /\ ClockReport.cmd = 0 /\ ClockReport.set = "clock"
      /\ ClockReport.last = FALSE
  BY DEF ClockReport, Report, Reports
<1>2. /\ QueryReport \in Reports /\ QueryReport.cmd = 240 /\ QueryReport.set = "query"
      /\ QueryReport.last = FALSE
  BY DEF QueryReport, Report, Reports
<1> DEFINE a == ClockReport
           b == QueryReport
           t == <<a>> \o <<b>>
<1>3. /\ <<a>> \in Seq(Reports) /\ Len(<<a>>) = 1 /\ <<a>>[1] = a
      /\ <<b>> \in Seq(Reports) /\ Len(<<b>>) = 1 /\ <<b>>[1] = b
  BY <1>1, <1>2
<1>4. /\ t \in Seq(Reports) /\ Len(t) = 2
      /\ \A i \in 1..2 : t[i] = IF i <= 1 THEN <<a>>[i] ELSE <<b>>[i - 1]
  BY <1>3, ConcatProperties
<1>5. \A i \in 1..2 : t[i] = a \/ t[i] = b
  BY <1>3, <1>4
<1>6. \A r \in {a, b} : r.cmd \notin Commands /\ r.set \notin Settings /\ ~r.last
  BY <1>1, <1>2 DEF Commands, Settings
<1> QED
  BY <1>4, <1>5, <1>6
-----------------------------------------------------------------------------
(* The worker, whoever moves.                                              *)

LEMMA WorkerRests ==
  ASSUME wk' \in {IdleWorker, AbandonedRead}, uc'.at # "apWait"
  PROVE  WorkerOK'
<1>1. /\ wk' \in Workers /\ wk'.fd.live = FALSE /\ wk'.todo = <<>> /\ wk'.waits = FALSE
      /\ wk'.at \in {"idle", "reading"} /\ (wk'.at = "reading" => wk'.cmd = "read")
  BY IdleWorkerIs, AbandonedIs, NoFdIs
<1>2. Matches(wk', uc'.at)
  BY <1>1 DEF Matches
<1> QED
  BY <1>1, <1>2 DEF WorkerOK

LEMMA WorkerStays ==
  ASSUME WorkerOK, UNCHANGED <<node, wk>>, Matches(wk, uc'.at)
  PROVE  WorkerOK'
  BY DEF WorkerOK

\* Between its waits a use case leaves the worker alone.
LEMMA MatchesMoves ==
  ASSUME NEW w, NEW l, NEW m, Matches(w, l), l \notin {"qWait", "apWait"},
         m \notin {"apWait", "apSave", "apPart"}
  PROVE  Matches(w, m)
  BY DEF Matches

\* The caller gives up; the worker goes on.
LEMMA WorkerAbandoned ==
  ASSUME WorkerOK, UNCHANGED node, wk' = [wk EXCEPT !.waits = FALSE],
         uc'.at \notin {"apWait", "apSave", "apPart"}
  PROVE  WorkerOK'
<1>1. /\ wk' \in Workers /\ wk'.at = wk.at /\ wk'.path = wk.path /\ wk'.fd = wk.fd
      /\ wk'.cmd = wk.cmd /\ wk'.waits = FALSE
  BY DEF WorkerOK, Workers
<1>2. Matches(wk', uc'.at)
  BY <1>1 DEF Matches
<1> QED
  BY <1>1, <1>2 DEF WorkerOK

LEMMA WorkerCommanded ==
  ASSUME NEW c \in {"apply", "query"}, NEW rs, <<ClockReport>> \o rs \in Seq(Reports),
         wk' = Command(c, rs), uc'.at = IF c = "apply" THEN "apWait" ELSE "qWait"
  PROVE  WorkerOK'
<1>1. wk' \in Workers /\ wk'.cmd = c /\ wk'.at = "probe" /\ wk'.fd.live = FALSE /\ wk'.waits = TRUE
  BY CommandIs, NoFdIs
<1> QED
  BY <1>1 DEF WorkerOK, Matches

LEMMA WorkerKeeps == IInv /\ [Next]_vars => WorkerOK'
<1> SUFFICES ASSUME IInv, [Next]_vars PROVE WorkerOK'
  OBVIOUS
<1>a. RuntimeOK /\ WorkerOK /\ TodoOK /\ Matches(wk, uc.at) /\ uc = At(uc.at, uc.arg)
  BY DEF IInv, LockOK, WorkerOK
<1>c. ASSUME UNCHANGED <<node, wk>>, uc.at \notin {"qWait", "apWait"},
             uc'.at \notin {"apWait", "apSave", "apPart"}
      PROVE  WorkerOK'
  BY <1>a, <1>c, WorkerStays, MatchesMoves
<1>1. ASSUME NEW p \in Paths, UnplugDevice(p) PROVE WorkerOK'
  <2>1. node' = [node EXCEPT ![p] = "none"] /\ wk' = [wk EXCEPT !.fd = Unplugged(wk.fd, p)] /\ UNCHANGED uc
    BY <1>1 DEF UnplugDevice, Unplug
  <2>2. wk \in Workers /\ wk.fd \in Fds
    BY <1>a, WorkerFields DEF WorkerOK
  <2>3. /\ Unplugged(wk.fd, p) \in Fds /\ Unplugged(wk.fd, p).kind = wk.fd.kind
        /\ Unplugged(wk.fd, p).path = wk.fd.path
        /\ Unplugged(wk.fd, p).live => wk.fd.live /\ wk.fd.path # p
    BY <2>2, UnpluggedIs
  <2>4. /\ wk' \in Workers /\ wk'.at = wk.at /\ wk'.path = wk.path /\ wk'.fd = Unplugged(wk.fd, p)
        /\ wk'.cmd = wk.cmd /\ wk'.waits = wk.waits /\ wk'.todo = wk.todo
    BY <2>1, <2>2, <2>3 DEF Workers
  <2>5. \A r \in Paths : r # p => node'[r] = node[r]
    BY <1>a, <2>1 DEF RuntimeOK
  <2>6. Matches(wk', uc'.at)
    BY <1>a, <2>1, <2>4 DEF Matches
  <2> QED
    BY <1>a, <2>3, <2>4, <2>5, <2>6 DEF WorkerOK
<1>2. ASSUME NEW p \in Paths, NEW kind \in {"pad", "other"}, PlugDevice(p, kind) PROVE WorkerOK'
  <2>1. /\ node' = [node EXCEPT ![p] = kind] /\ node[p] = "none" /\ UNCHANGED <<uc, wk>>
    BY <1>2 DEF PlugDevice, Plug
  <2>2. \A r \in Paths : r # p => node'[r] = node[r]
    BY <1>a, <2>1 DEF RuntimeOK
  <2> QED
    BY <1>a, <2>1, <2>2 DEF WorkerOK
<1>3. CASE WorkerStep
  BY <1>a, <1>3, WorkerMoves
<1>4. CASE RuntimeRuns \/ ShutdownBegins \/ UNCHANGED vars
  <2>1. UNCHANGED <<node, wk, uc>>
    BY <1>a, <1>4, TaskKeeps DEF RuntimeRuns, ShutdownBegins, vars
  <2> QED
    BY <1>a, <2>1, WorkerStays
<1>5. CASE RefreshLoop \/ UseCaseRefreshes
  <2>1. UNCHANGED node /\ (UNCHANGED wk \/ (wk = IdleWorker /\ wk' = AbandonedRead))
    BY <1>5 DEF RefreshLoop, UseCaseRefreshes, RefreshGestures
  <2>2. UNCHANGED uc \/ (uc.at = "refresh" /\ uc'.at = "idle")
    BY <1>5, IdleIs DEF RefreshLoop, UseCaseRefreshes
  <2>3. CASE UNCHANGED wk
    BY <1>a, <1>c, <2>1, <2>2, <2>3, WorkerStays
  <2>4. CASE wk = IdleWorker /\ wk' = AbandonedRead
    <3>1. uc'.at # "apWait"
      BY <1>a, <2>2, <2>4, IdleWorkerIs DEF Matches
    <3> QED
      BY <2>4, <3>1, WorkerRests
  <2> QED
    BY <2>1, <2>3, <2>4
<1>6. CASE \/ \E profile \in Profiles : ApplyBegins(profile)
           \/ QueryBegins \/ QueryStopped \/ QueryRestarts \/ Reconciles \/ Reconciled
           \/ MappingSaved \/ ShutdownStops
           \/ \E on \in BOOLEAN : DaemonSaved(on) \/ ReloadGestures(on)
  <2>1. UNCHANGED <<node, wk>> /\ uc.at \notin {"qWait", "apWait"}
    BY <1>6, IdleIs DEF ApplyBegins, Begin, QueryBegins, QueryStopped, QueryRestarts, Reconciles,
                        Reconciled, MappingSaved, ShutdownStops, DaemonSaved, ReloadGestures
  <2>2. uc'.at \notin {"apWait", "apSave", "apPart"}
    BY <1>a, <1>6, AtIs, MovesTo, IdleIs
       DEF ApplyBegins, Begin, QueryBegins, QueryStopped, QueryRestarts, Reconciles,
           Reconciled, MappingSaved, ShutdownStops, DaemonSaved, ReloadGestures
  <2> QED
    BY <1>c, <2>1, <2>2
<1>7. CASE ApplyProbes
  <2>1. UNCHANGED node /\ uc.at = "apProbe"
    BY <1>7 DEF ApplyProbes
  <2>2. CASE uc' = Idle /\ UNCHANGED wk
    BY <1>c, <2>1, <2>2, IdleIs
  <2>3. CASE uc' = Idle /\ wk' = AbandonedRead
    BY <2>3, IdleIs, WorkerRests
  <2>4. CASE uc' = [uc EXCEPT !.at = "apWait"] /\ wk' = Command("apply", ProfileReports(uc.arg))
    <3>1. /\ DOMAIN uc.arg \subseteq Settings
          /\ \A s \in DOMAIN uc.arg : uc.arg[s] \in Nat
      BY <2>1 DEF IInv, SavedOK
    <3>2. <<ClockReport>> \o ProfileReports(uc.arg) \in Seq(Reports)
      BY <3>1, ProfileIsBatch DEF IsBatch
    <3>3. uc'.at = "apWait"
      BY <1>a, <2>4, MovesTo, AtIs
    <3> QED
      BY <2>4, <3>2, <3>3, WorkerCommanded
  <2> QED
    BY <1>7, <2>2, <2>3, <2>4 DEF ApplyProbes
<1>8. CASE ApplyAnswered
  <2>1. wk' = IdleWorker
    BY <1>8 DEF ApplyAnswered
  <2>2. \/ uc' = Idle \/ uc' = [uc EXCEPT !.at = "apSave"] \/ uc' = At("refresh", <<>>)
        \/ uc' = At("apPart", [s \in wk.completed |-> uc.arg[s]])
    BY <1>8 DEF ApplyAnswered
  <2>3. uc'.at # "apWait"
    BY <1>a, <2>2, AtIs, MovesTo, IdleIs
  <2> QED
    BY <2>1, <2>3, WorkerRests
<1>9. CASE ApplyTimesOut
  <2>1. uc'.at = "idle" /\ UNCHANGED node /\ wk' = [wk EXCEPT !.waits = FALSE]
    BY <1>9, IdleIs DEF ApplyTimesOut
  <2> QED
    BY <1>a, <2>1, WorkerAbandoned
<1>10. CASE ApplySaves
  <2>1. UNCHANGED <<node, wk>> /\ uc.at \in {"apSave", "apPart"}
    BY <1>10 DEF ApplySaves
  <2>2. uc'.at \in {"idle", "refresh"}
    BY <1>10, AtIs, IdleIs DEF ApplySaves
  <2> QED
    BY <1>c, <2>1, <2>2
<1>11. CASE QuerySubmits
  <2>1. UNCHANGED node /\ uc.at = "qSubmit"
    BY <1>11 DEF QuerySubmits
  <2>2. CASE uc' = [uc EXCEPT !.at = "qEnd"] /\ UNCHANGED wk
    <3>1. uc'.at = "qEnd"
      BY <1>a, <2>2, MovesTo, AtIs
    <3> QED
      BY <1>c, <2>1, <2>2, <3>1
  <2>3. CASE uc' = [uc EXCEPT !.at = "qWait"] /\ wk' = Command("query", <<QueryReport>>)
    <3>1. uc'.at = "qWait"
      BY <1>a, <2>3, MovesTo, AtIs
    <3> QED
      BY <2>3, <3>1, QueryIsBatch, WorkerCommanded
  <2> QED
    BY <1>11, <2>2, <2>3 DEF QuerySubmits
<1>12. CASE QueryAnswered
  <2>1. UNCHANGED node /\ uc' = [uc EXCEPT !.at = "qEnd"]
    BY <1>12 DEF QueryAnswered
  <2>2. uc'.at = "qEnd"
    BY <1>a, <2>1, MovesTo, AtIs
  <2>3. wk' = IdleWorker \/ wk' = [wk EXCEPT !.waits = FALSE]
    BY <1>12 DEF QueryAnswered
  <2> QED
    BY <1>a, <2>1, <2>2, <2>3, WorkerRests, WorkerAbandoned
<1> QED
  BY <1>1, <1>2, <1>3, <1>4, <1>5, <1>6, <1>7, <1>8, <1>9, <1>10, <1>11, <1>12
     DEF Next, UseCaseStep
-----------------------------------------------------------------------------
(* The registers.                                                          *)

LEMMA RegistersApart ==
  /\ \A s \in Settings : Registers(s) \subseteq Commands
  /\ \A s, t \in Settings : \A c : c \in Registers(s) /\ c \in Registers(t) => s = t
  BY RegistersAre DEF Settings, Commands

\* A use case that has nothing to apply moves.
LEMMA FirmwareQuiet ==
  ASSUME TodoOK, SavedOK, wk'.todo = wk.todo \/ wk'.todo = <<>>, UNCHANGED <<fw, sure>>,
         cfg'.pad = cfg.pad, uc'.at \notin {"apWait", "apProbe", "apSave", "apPart"}
  PROVE  TodoOK' /\ BatchOK' /\ SavedOK'
<1>1. TodoOK'
  <2>1. CASE wk'.todo = wk.todo
    BY <2>1 DEF TodoOK
  <2>2. CASE wk'.todo = <<>>
    BY <2>2 DEF TodoOK
  <2> QED
    BY <2>1, <2>2
<1>2. BatchOK'
  BY DEF BatchOK
<1>3. SavedOK'
  BY DEF SavedOK, InRegisters
<1> QED
  BY <1>1, <1>2, <1>3

\* Nobody touches the batch; the touchpad may lose its power.
LEMMA FirmwareStays ==
  ASSUME TodoOK, BatchOK, SavedOK, UNCHANGED <<uc, sure>>, cfg'.pad = cfg.pad,
         wk'.todo = wk.todo, wk'.completed = wk.completed,
         (wk'.at = wk.at /\ wk'.ok = wk.ok) \/ (wk.at # "done" /\ wk'.at # "done"),
         DOMAIN fw' = Commands, \A c \in Commands : fw'[c] = fw[c] \/ fw'[c] = Reset
  PROVE  TodoOK' /\ BatchOK' /\ SavedOK'
<1>1. TodoOK'
  BY DEF TodoOK
<1>2. ASSUME NEW s \in Settings, NEW v, InRegisters(s, v)
      PROVE  \A c \in Registers(s) : fw'[c] \in {v, Reset}
  BY <1>2, RegistersApart DEF InRegisters
<1>3. BatchOK'
  <2> SUFFICES ASSUME uc.at = "apWait" PROVE BatchOK'
    BY DEF BatchOK
  <2>0. DOMAIN uc.arg \subseteq Settings /\ (wk'.at = "done" => wk'.todo = <<>>)
    BY DEF BatchOK
  <2>1. wk'.at # "done" \/ wk'.ok =>
          \A s \in DOMAIN uc.arg : \A c \in Registers(s) :
              \/ fw'[c] \in {uc.arg[s], Reset}
              \/ \E i \in 1..Len(wk.todo) : wk.todo[i].cmd = c /\ wk.todo[i].set = s
    <3> SUFFICES ASSUME wk'.at # "done" \/ wk'.ok, NEW s \in DOMAIN uc.arg, NEW c \in Registers(s)
                 PROVE  \/ fw'[c] \in {uc.arg[s], Reset}
                        \/ \E i \in 1..Len(wk.todo) : wk.todo[i].cmd = c /\ wk.todo[i].set = s
      OBVIOUS
    <3>1. \/ fw[c] \in {uc.arg[s], Reset}
          \/ \E i \in 1..Len(wk.todo) : wk.todo[i].cmd = c /\ wk.todo[i].set = s
      BY DEF BatchOK
    <3>2. c \in Commands
      BY <2>0, RegistersApart
    <3> QED
      BY <3>1, <3>2
  <2>2. ASSUME NEW s \in wk.completed
        PROVE  /\ s \in DOMAIN uc.arg /\ \A c \in Registers(s) : fw'[c] \in {uc.arg[s], Reset}
               /\ \A i \in 1..Len(wk.todo) : wk.todo[i].set # s
    <3>1. s \in DOMAIN uc.arg /\ InRegisters(s, uc.arg[s])
      BY <2>2 DEF BatchOK
    <3> QED
      BY <1>2, <2>0, <2>2, <3>1 DEF BatchOK
  <2> QED
    BY <2>0, <2>1, <2>2 DEF BatchOK, InRegisters
<1>4. SavedOK'
  <2>1. \A s \in sure : \A c \in Registers(s) : fw'[c] \in {cfg.pad[s], Reset}
    BY <1>2 DEF SavedOK
  <2>2. uc.at \in {"apSave", "apPart"} =>
          \A s \in DOMAIN uc.arg : \A c \in Registers(s) : fw'[c] \in {uc.arg[s], Reset}
    BY <1>2 DEF SavedOK
  <2> QED
    BY <2>1, <2>2 DEF SavedOK, InRegisters
<1> QED
  BY <1>1, <1>3, <1>4

\* The next report, and what it leaves alone.
LEMMA HeadIs ==
  ASSUME WorkerOK, wk.todo # <<>>
  PROVE  /\ wk.todo \in Seq(Reports) /\ 1 \in 1..Len(wk.todo) /\ Head(wk.todo) = wk.todo[1]
         /\ Tail(wk.todo) \in Seq(Reports) /\ Len(wk.todo) \in Nat
         /\ Len(Tail(wk.todo)) = Len(wk.todo) - 1
         /\ \A i \in 1..Len(Tail(wk.todo)) :
                i + 1 \in 1..Len(wk.todo) /\ Tail(wk.todo)[i] = wk.todo[i + 1]
         /\ \A i \in 1..Len(wk.todo) :
                1 < i => i - 1 \in 1..Len(Tail(wk.todo)) /\ Tail(wk.todo)[i - 1] = wk.todo[i]
<1>1. wk.todo \in Seq(Reports)
  BY WorkerFields DEF WorkerOK
<1> DEFINE q == wk.todo
<1> HIDE DEF q
<1>2. q \in Seq(Reports) /\ q # <<>>
  BY <1>1 DEF q
<1>3. /\ 1 \in 1..Len(q) /\ Head(q) = q[1] /\ Tail(q) \in Seq(Reports) /\ Len(q) \in Nat
      /\ Len(Tail(q)) = Len(q) - 1 /\ \A i \in 1..Len(Tail(q)) : Tail(q)[i] = q[i + 1]
  BY <1>2
<1>4. \A i \in 1..Len(Tail(q)) : i + 1 \in 1..Len(q)
  BY <1>3
<1>5. \A i \in 1..Len(q) : 1 < i => i - 1 \in 1..Len(Tail(q)) /\ (i - 1) + 1 = i
  BY <1>3
<1> QED
  BY <1>1, <1>3, <1>4, <1>5 DEF q

LEMMA WriteSpares ==
  ASSUME WorkerOK, TodoOK, SavedOK, wk.todo # <<>>, fw' \in {fw, Accepted(Head(wk.todo))},
         NEW s \in Settings, Head(wk.todo).cmd \in Commands => s # Head(wk.todo).set
  PROVE  \A c \in Registers(s) : fw'[c] = fw[c]
<1> DEFINE r == Head(wk.todo)
<1>1. r.cmd \in Commands => r.set \in Settings /\ r.cmd \in Registers(r.set)
  BY HeadIs DEF TodoOK
<1>2. fw' = fw \/ (r.cmd \in Commands /\ fw' = [fw EXCEPT ![r.cmd] = r.val])
  BY DEF Accepted
<1> HIDE DEF r
<1>3. r.cmd \in Commands => s # r.set
  BY DEF r
<1>4. ASSUME NEW c \in Registers(s) PROVE fw'[c] = fw[c]
  <2>1. c \in Commands /\ (r.cmd \in Commands => c # r.cmd)
    BY <1>1, <1>3, RegistersApart
  <2> QED
    BY <1>2, <2>1 DEF SavedOK
<1> QED
  BY <1>4

\* The call ends: as a success only when all of a batch has been written; a
\* failed write may still have reached the register it was meant for.
LEMMA FirmwareFinishes ==
  ASSUME WorkerOK, TodoOK, BatchOK, SavedOK, UNCHANGED <<uc, sure, cfg>>,
         NEW b \in BOOLEAN, wk' = Finished(wk, b),
         b /\ uc.at = "apWait" => wk.todo = <<>> /\ wk.at # "done",
         UNCHANGED fw \/ (~b /\ wk.todo # <<>> /\ fw' \in {fw, Accepted(Head(wk.todo))})
  PROVE  TodoOK' /\ BatchOK' /\ SavedOK'
<1>0. wk \in Workers /\ wk.waits \in BOOLEAN /\ Matches(wk, uc.at)
  BY WorkerFields DEF WorkerOK
<1>1. wk'.todo = <<>>
  BY <1>0, FinishedIs
<1>2. TodoOK'
  BY <1>1 DEF TodoOK
<1>3. DOMAIN fw' = Commands
  BY DEF SavedOK, Accepted
<1>4. ASSUME NEW s \in Settings, NEW v, InRegisters(s, v),
             s \in sure \/ wk.todo = <<>> \/ \A i \in 1..Len(wk.todo) : wk.todo[i].set # s
      PROVE  \A c \in Registers(s) : fw'[c] \in {v, Reset}
  <2>1. CASE UNCHANGED fw
    BY <1>4, <2>1 DEF InRegisters
  <2>2. CASE wk.todo # <<>> /\ fw' \in {fw, Accepted(Head(wk.todo))}
    <3>1. Head(wk.todo).cmd \in Commands => s # Head(wk.todo).set
      BY <1>4, <2>2, HeadIs DEF TodoOK
    <3>2. \A c \in Registers(s) : fw'[c] = fw[c]
      BY <2>2, <3>1, WriteSpares
    <3> QED
      BY <1>4, <3>2 DEF InRegisters
  <2> QED
    BY <2>1, <2>2
<1>5. BatchOK'
  <2> SUFFICES ASSUME uc.at = "apWait" PROVE BatchOK'
    BY DEF BatchOK
  <2>1. wk.waits = TRUE
    BY <1>0 DEF Matches
  <2>2. wk'.at = "done" /\ wk'.ok = b /\ wk'.completed = wk.completed
    BY <1>0, <2>1, FinishedIs
  <2>3. DOMAIN uc.arg \subseteq Settings
    BY DEF BatchOK
  <2>4. b => \A s \in DOMAIN uc.arg : \A c \in Registers(s) : fw'[c] \in {uc.arg[s], Reset}
    <3> SUFFICES ASSUME b, NEW s \in DOMAIN uc.arg, NEW c \in Registers(s)
                 PROVE  fw'[c] \in {uc.arg[s], Reset}
      OBVIOUS
    <3>1. wk.todo = <<>> /\ wk.at # "done" /\ UNCHANGED fw
      OBVIOUS
    <3>2. \/ fw[c] \in {uc.arg[s], Reset}
          \/ \E i \in 1..Len(wk.todo) : wk.todo[i].cmd = c /\ wk.todo[i].set = s
      BY <3>1 DEF BatchOK
    <3> QED
      BY <3>1, <3>2
  <2>5. ASSUME NEW s \in wk.completed
        PROVE  s \in DOMAIN uc.arg /\ \A c \in Registers(s) : fw'[c] \in {uc.arg[s], Reset}
    <3>1. /\ s \in DOMAIN uc.arg /\ InRegisters(s, uc.arg[s])
          /\ \A i \in 1..Len(wk.todo) : wk.todo[i].set # s
      BY <2>5 DEF BatchOK
    <3> QED
      BY <1>4, <2>3, <3>1
  <2>6. wk'.ok => b
    BY <2>2
  <2> QED
    BY <1>1, <2>2, <2>3, <2>4, <2>5, <2>6 DEF BatchOK, InRegisters
<1>6. SavedOK'
  <2>1. \A s \in sure : \A c \in Registers(s) : fw'[c] \in {cfg.pad[s], Reset}
    BY <1>4 DEF SavedOK
  <2>2. uc.at \in {"apSave", "apPart"} =>
          \A s \in DOMAIN uc.arg : \A c \in Registers(s) : fw'[c] \in {uc.arg[s], Reset}
    BY <1>0, <1>4 DEF SavedOK, Matches
  <2> QED
    BY <1>3, <2>1, <2>2 DEF SavedOK, InRegisters
<1> QED
  BY <1>2, <1>5, <1>6

\* A report is written: its register holds it, and the setting is complete when
\* it was the last.
LEMMA FirmwareWrites ==
  ASSUME WorkerOK, TodoOK, BatchOK, SavedOK, UNCHANGED <<uc, sure, cfg>>,
         wk.at = "write", wk.todo # <<>>, wk.fd.live, fw' = Accepted(Head(wk.todo)),
         wk'.at = wk.at, wk'.todo = Tail(wk.todo),
         wk'.completed = wk.completed \cup
                            (IF Head(wk.todo).last THEN {Head(wk.todo).set} ELSE {})
  PROVE  TodoOK' /\ BatchOK' /\ SavedOK'
<1> DEFINE r == Head(wk.todo)
           q == wk.todo
           t == Tail(wk.todo)
<1>1. /\ 1 \in 1..Len(q) /\ r = q[1]
      /\ \A i \in 1..Len(t) : i + 1 \in 1..Len(q) /\ t[i] = q[i + 1]
      /\ \A i \in 1..Len(q) : 1 < i => i - 1 \in 1..Len(t) /\ t[i - 1] = q[i]
      /\ Len(q) \in Nat /\ Len(t) \in Nat
  BY HeadIs
<1>2. /\ r.cmd \in Commands => r.set \in Settings /\ r.set \notin sure /\ r.cmd \in Registers(r.set)
      /\ uc.at = "apWait" /\ r.set \in Settings =>
             r.set \in DOMAIN uc.arg /\ r.cmd \in Commands /\ r.val = uc.arg[r.set]
      /\ r.last => r.set \in Settings /\ \A j \in 1..Len(q) : 1 < j => q[j].set # r.set
  BY <1>1 DEF TodoOK
<1>3. /\ r.cmd \in Commands => fw' = [fw EXCEPT ![r.cmd] = r.val]
      /\ r.cmd \notin Commands => fw' = fw
  BY DEF Accepted, Verified, WorkerOK
<1>4. DOMAIN fw' = Commands
  BY <1>3 DEF SavedOK
<1>5. ASSUME NEW s \in Settings, r.cmd \in Commands => s # r.set
      PROVE  \A c \in Registers(s) : fw'[c] = fw[c]
  BY <1>5, WriteSpares
<1>6. wk'.todo = t /\ wk'.at = "write"
  OBVIOUS
<1>7. wk'.completed = wk.completed \cup (IF r.last THEN {r.set} ELSE {})
  OBVIOUS
<1>8. wk.todo = q
  OBVIOUS
<1> HIDE DEF r, q, t
<1>9. TodoOK'
  <2>1. ASSUME NEW i \in 1..Len(t)
        PROVE  /\ t[i].cmd \in Commands =>
                     t[i].set \in Settings \ sure /\ t[i].cmd \in Registers(t[i].set)
               /\ uc.at = "apWait" /\ t[i].set \in Settings =>
                     /\ t[i].set \in DOMAIN uc.arg
                     /\ t[i].cmd \in Commands /\ t[i].val = uc.arg[t[i].set]
               /\ t[i].last => t[i].set \in Settings
    <3>1. i + 1 \in 1..Len(q) /\ t[i] = q[i + 1]
      BY <1>1
    <3> DEFINE k == i + 1
    <3>2. k \in 1..Len(wk.todo) /\ t[i] = wk.todo[k]
      BY <1>8, <3>1
    <3> HIDE DEF k
    <3>3. /\ wk.todo[k].cmd \in Commands =>
               wk.todo[k].set \in Settings \ sure /\ wk.todo[k].cmd \in Registers(wk.todo[k].set)
          /\ uc.at = "apWait" /\ wk.todo[k].set \in Settings =>
               /\ wk.todo[k].set \in DOMAIN uc.arg
               /\ wk.todo[k].cmd \in Commands /\ wk.todo[k].val = uc.arg[wk.todo[k].set]
          /\ wk.todo[k].last => wk.todo[k].set \in Settings
      BY <3>2 DEF TodoOK
    <3> QED
      BY <3>2, <3>3
  <2>2. ASSUME NEW i \in 1..Len(t), t[i].last, NEW j \in 1..Len(t), i < j
        PROVE  t[j].set # t[i].set
    <3>1. i + 1 \in 1..Len(q) /\ j + 1 \in 1..Len(q) /\ i + 1 < j + 1 /\ q[i + 1].last
      BY <1>1, <2>2
    <3>2. q[j + 1].set # q[i + 1].set
      BY <1>8, <3>1 DEF TodoOK
    <3> QED
      BY <1>1, <3>2
  <2> QED
    BY <1>6, <2>1, <2>2 DEF TodoOK
<1>10. BatchOK'
  <2> SUFFICES ASSUME uc.at = "apWait" PROVE BatchOK'
    BY DEF BatchOK
  <2>1. DOMAIN uc.arg \subseteq Settings
    BY DEF BatchOK
  <2>2. ASSUME NEW s \in DOMAIN uc.arg, NEW c \in Registers(s)
        PROVE  \/ fw'[c] \in {uc.arg[s], Reset}
               \/ \E i \in 1..Len(t) : t[i].cmd = c /\ t[i].set = s
    <3>0. s \in Settings /\ c \in Commands
      BY <2>1, <2>2, RegistersApart
    <3>1. CASE r.set = s /\ r.cmd = c
      BY <1>2, <1>3, <3>0, <3>1 DEF SavedOK
    <3>2. CASE ~(r.set = s /\ r.cmd = c)
      <4>1. fw'[c] = fw[c]
        BY <1>2, <1>3, <3>0, <3>2, <2>2, RegistersApart DEF SavedOK
      <4>2. \/ fw[c] \in {uc.arg[s], Reset}
            \/ \E i \in 1..Len(q) : q[i].cmd = c /\ q[i].set = s
        BY <1>8, <2>2 DEF BatchOK
      <4>3. ASSUME NEW i \in 1..Len(q), q[i].cmd = c, q[i].set = s
            PROVE  \E k \in 1..Len(t) : t[k].cmd = c /\ t[k].set = s
        <5>1. 1 < i
          BY <1>1, <3>2, <4>3
        <5> QED
          BY <1>1, <4>3, <5>1
      <4> QED
        BY <4>1, <4>2, <4>3
    <3> QED
      BY <3>1, <3>2
  <2>3. ASSUME NEW s \in wk.completed
        PROVE  /\ s \in DOMAIN uc.arg /\ \A c \in Registers(s) : fw'[c] \in {uc.arg[s], Reset}
               /\ \A i \in 1..Len(t) : t[i].set # s
    <3>1. /\ s \in DOMAIN uc.arg /\ InRegisters(s, uc.arg[s])
          /\ \A i \in 1..Len(q) : q[i].set # s
      BY <1>8, <2>3 DEF BatchOK
    <3>2. s # r.set /\ s \in Settings
      BY <1>1, <2>1, <3>1
    <3> QED
      BY <1>1, <1>5, <3>1, <3>2 DEF InRegisters
  <2>4. ASSUME r.last
        PROVE  /\ r.set \in DOMAIN uc.arg
               /\ \A c \in Registers(r.set) : fw'[c] \in {uc.arg[r.set], Reset}
               /\ \A i \in 1..Len(t) : t[i].set # r.set
    <3>1. r.set \in DOMAIN uc.arg
      BY <1>2, <2>4
    <3>2. ASSUME NEW i \in 1..Len(t) PROVE t[i].set # r.set
      <4>1. i + 1 \in 1..Len(q) /\ 1 < i + 1 /\ t[i] = q[i + 1]
        BY <1>1
      <4> QED
        BY <1>2, <2>4, <4>1
    <3> QED
      BY <2>2, <3>1, <3>2
  <2>5. ASSUME NEW s \in wk'.completed
        PROVE  /\ s \in DOMAIN uc.arg /\ \A c \in Registers(s) : fw'[c] \in {uc.arg[s], Reset}
               /\ \A i \in 1..Len(t) : t[i].set # s
    BY <1>7, <2>3, <2>4, <2>5
  <2>6. wk'.at # "done" /\ t = wk'.todo
    BY <1>6
  <2>7. ASSUME NEW s \in DOMAIN uc.arg, NEW c \in Registers(s)
        PROVE  \/ fw'[c] \in {uc.arg[s], Reset}
               \/ \E i \in 1..Len(wk'.todo) : wk'.todo[i].cmd = c /\ wk'.todo[i].set = s
    <3>1. \/ fw'[c] \in {uc.arg[s], Reset}
          \/ \E i \in 1..Len(t) : t[i].cmd = c /\ t[i].set = s
      BY <2>2, <2>7
    <3> QED
      BY <2>6, <3>1, Zenon
  <2>8. ASSUME NEW s \in wk'.completed
        PROVE  /\ s \in DOMAIN uc.arg /\ \A c \in Registers(s) : fw'[c] \in {uc.arg[s], Reset}
               /\ \A i \in 1..Len(wk'.todo) : wk'.todo[i].set # s
    <3>1. /\ s \in DOMAIN uc.arg /\ \A c \in Registers(s) : fw'[c] \in {uc.arg[s], Reset}
          /\ \A i \in 1..Len(t) : t[i].set # s
      BY <2>5, <2>8
    <3> QED
      BY <2>6, <3>1, Zenon
  <2> QED
    BY <2>1, <2>6, <2>7, <2>8 DEF BatchOK, InRegisters
<1>11. SavedOK'
  <2>1. ASSUME NEW s \in sure PROVE \A c \in Registers(s) : fw'[c] \in {cfg.pad[s], Reset}
    <3>1. s \in Settings /\ InRegisters(s, cfg.pad[s])
      BY <2>1 DEF SavedOK
    <3>2. \A c \in Registers(s) : fw'[c] = fw[c]
      BY <1>2, <1>5, <2>1, <3>1
    <3> QED
      BY <3>1, <3>2 DEF InRegisters
  <2>2. uc.at \notin {"apSave", "apPart"}
    BY DEF WorkerOK, Matches
  <2> QED
    BY <1>4, <2>1, <2>2 DEF SavedOK, InRegisters
<1> QED
  BY <1>9, <1>10, <1>11

\* With nothing to write and nobody waiting, only what is saved matters.
LEMMA FirmwareEmpties ==
  ASSUME SavedOK, UNCHANGED <<uc, fw, sure, cfg>>, uc.at # "apWait", wk'.todo = <<>>
  PROVE  TodoOK' /\ BatchOK' /\ SavedOK'
<1>1. TodoOK' /\ BatchOK'
  BY DEF TodoOK, BatchOK
<1>2. SavedOK'
  BY DEF SavedOK, InRegisters
<1> QED
  BY <1>1, <1>2

\* Every system call of the worker.
LEMMA FirmwareMoves ==
  ASSUME WorkerOK, TodoOK, BatchOK, SavedOK, WorkerStep
  PROVE  TodoOK' /\ BatchOK' /\ SavedOK'
<1>a. UNCHANGED <<uc, sure, cfg>> /\ wk \in Workers /\ Matches(wk, uc.at) /\ DOMAIN fw = Commands
  BY DEF WorkerStep, WorkerOK, appVars, SavedOK
<1>b. ASSUME UNCHANGED fw, wk.at # "done", wk'.at # "done",
             wk'.todo = wk.todo, wk'.completed = wk.completed
      PROVE  TodoOK' /\ BatchOK' /\ SavedOK'
  BY <1>a, <1>b, FirmwareStays
<1>c. ASSUME wk' = Finished(wk, FALSE),
             UNCHANGED fw \/ (wk.todo # <<>> /\ fw' \in {fw, Accepted(Head(wk.todo))})
      PROVE  TodoOK' /\ BatchOK' /\ SavedOK'
  BY <1>a, <1>c, FirmwareFinishes
<1>1. CASE WorkerProbes
  <2>1. ASSUME NEW p \in Touchpad, wk' = [wk EXCEPT !.at = "open", !.path = p]
        PROVE  wk'.at = "open" /\ wk'.todo = wk.todo /\ wk'.completed = wk.completed
    BY <1>a, <2>1 DEF Workers
  <2> QED
    BY <1>1, <1>b, <1>c, <2>1 DEF WorkerProbes
<1>2. CASE WorkerOpens
  <2>1. CASE wk' = [wk EXCEPT !.at = "confirm", !.fd = Fd(wk.path)]
    <3>1. wk'.at = "confirm" /\ wk'.todo = wk.todo /\ wk'.completed = wk.completed
      BY <1>a, <2>1 DEF Workers
    <3> QED
      BY <1>2, <1>b, <3>1 DEF WorkerOpens
  <2> QED
    BY <1>2, <1>c, <2>1 DEF WorkerOpens
<1>3. CASE WorkerConfirms
  <2>1. CASE wk' = [wk EXCEPT !.at = "write"]
    <3>1. wk'.at = "write" /\ wk'.todo = wk.todo /\ wk'.completed = wk.completed
      BY <1>a, <2>1 DEF Workers
    <3> QED
      BY <1>3, <1>b, <3>1 DEF WorkerConfirms
  <2> QED
    BY <1>3, <1>c, <2>1 DEF WorkerConfirms
<1>4. CASE WorkerWrites
  <2> DEFINE report == Head(wk.todo)
             n == IF report.set \in Settings THEN 1 ELSE 0
             done1 == IF report.last THEN {report.set} ELSE {}
  <2>1. CASE /\ wk.fd.live /\ fw' = Accepted(report)
             /\ wk' = [wk EXCEPT !.todo = Tail(@), !.applied = @ + n, !.completed = @ \cup done1]
    <3>1. wk.todo # <<>> /\ wk.at = "write"
      BY <1>4 DEF WorkerWrites
    <3> HIDE DEF n, done1
    <3>2. /\ wk'.at = wk.at /\ wk'.todo = Tail(wk.todo)
          /\ wk'.completed = wk.completed \cup done1
      BY <1>a, <2>1 DEF Workers
    <3> QED
      BY <1>a, <2>1, <3>1, <3>2, FirmwareWrites DEF done1
  <2>2. CASE wk' = Finished(wk, FALSE) /\ fw' \in {fw, Accepted(report)}
    BY <1>4, <1>c, <2>2 DEF WorkerWrites
  <2> QED
    BY <1>4, <2>1, <2>2 DEF WorkerWrites
<1>5. CASE WorkerEnds
  <2>0. wk.at = "write" /\ wk.todo = <<>> /\ UNCHANGED fw
    BY <1>5 DEF WorkerEnds
  <2>1. CASE wk' = [wk EXCEPT !.at = "answer"]
    <3>1. wk'.at = "answer" /\ wk'.todo = wk.todo /\ wk'.completed = wk.completed
      BY <1>a, <2>1 DEF Workers
    <3> QED
      BY <1>b, <2>0, <3>1
  <2>2. CASE wk' = Finished(wk, TRUE)
    BY <1>a, <2>0, <2>2, FirmwareFinishes
  <2> QED
    BY <1>5, <2>1, <2>2 DEF WorkerEnds
<1>6. CASE WorkerReadsAnswer
  <2>1. uc.at # "apWait" /\ UNCHANGED fw
    BY <1>6, <1>a DEF WorkerReadsAnswer, WorkerOK, Matches
  <2>2. CASE wk' = Finished(wk, TRUE)
    BY <1>a, <2>1, <2>2, FirmwareFinishes
  <2> QED
    BY <1>6, <1>c, <2>1, <2>2 DEF WorkerReadsAnswer
<1>7. CASE WorkerReturns
  <2>1. wk'.todo = <<>> /\ uc.at # "apWait" /\ UNCHANGED fw
    BY <1>7, <1>a, IdleWorkerIs DEF WorkerReturns, WorkerOK, Matches
  <2> QED
    BY <1>a, <2>1, FirmwareEmpties
<1> QED
  BY <1>1, <1>2, <1>3, <1>4, <1>5, <1>6, <1>7 DEF WorkerStep

\* A profile is handed to the worker; what it is about to write is no longer
\* answered for.
LEMMA FirmwareCommanded ==
  ASSUME SavedOK, uc.at = "apProbe", uc'.at = "apWait", uc'.arg = uc.arg,
         wk' = Command("apply", ProfileReports(uc.arg)), sure' = sure \ DOMAIN uc.arg,
         UNCHANGED <<fw, cfg>>
  PROVE  TodoOK' /\ BatchOK' /\ SavedOK'
<1> DEFINE q == <<ClockReport>> \o ProfileReports(uc.arg)
<1>1. DOMAIN uc.arg \subseteq Settings /\ \A s \in DOMAIN uc.arg : uc.arg[s] \in Nat
  BY DEF SavedOK
<1>2. IsBatch(q, uc.arg)
  BY <1>1, ProfileIsBatch
<1>3. wk'.todo = q /\ wk'.completed = {} /\ wk'.at = "probe"
  BY <1>2, CommandIs DEF IsBatch
<1> HIDE DEF q
<1>4. TodoOK'
  <2>1. ASSUME NEW i \in 1..Len(q)
        PROVE  /\ q[i].cmd \in Commands =>
                     q[i].set \in Settings \ sure' /\ q[i].cmd \in Registers(q[i].set)
               /\ q[i].set \in Settings =>
                     /\ q[i].set \in DOMAIN uc.arg
                     /\ q[i].cmd \in Commands /\ q[i].val = uc.arg[q[i].set]
               /\ q[i].last => /\ q[i].set \in Settings
                               /\ \A j \in 1..Len(q) : i < j => q[j].set # q[i].set
    BY <1>2, <2>1, RegistersApart DEF IsBatch
  <2> QED
    BY <1>3, <2>1 DEF TodoOK
<1>5. BatchOK'
  <2>1. \A s \in DOMAIN uc.arg : \A c \in Registers(s) :
            \E i \in 1..Len(q) : q[i].cmd = c /\ q[i].set = s
    BY <1>2 DEF IsBatch
  <2> QED
    BY <1>1, <1>3, <2>1 DEF BatchOK
<1>6. SavedOK'
  BY DEF SavedOK, InRegisters
<1> QED
  BY <1>4, <1>5, <1>6

\* The answer of the worker decides what is saved.
LEMMA FirmwareAnswered ==
  ASSUME WorkerOK, TodoOK, BatchOK, SavedOK, uc = At(uc.at, uc.arg), ApplyAnswered
  PROVE  TodoOK' /\ BatchOK' /\ SavedOK'
<1>1. /\ uc.at = "apWait" /\ wk.at = "done" /\ wk'.todo = <<>> /\ UNCHANGED <<fw, cfg, sure>>
      /\ wk.ok \in BOOLEAN
  BY IdleWorkerIs, WorkerFields DEF ApplyAnswered, appVars, WorkerOK
<1>2. DOMAIN uc.arg \subseteq Settings /\ wk.todo = <<>>
  BY <1>1 DEF BatchOK
<1>3. ASSUME uc'.at # "apWait" PROVE TodoOK' /\ BatchOK'
  BY <1>1, <1>3 DEF TodoOK, BatchOK
<1>4. CASE wk.ok
  <2>1. uc' = At("apSave", uc.arg)
    BY <1>4, MovesTo DEF ApplyAnswered
  <2>2. uc'.at = "apSave" /\ uc'.arg = uc.arg
    BY <2>1, AtIs
  <2>3. \A s \in DOMAIN uc.arg : \A c \in Registers(s) : fw[c] \in {uc.arg[s], Reset}
    BY <1>1, <1>2, <1>4 DEF BatchOK
  <2>4. SavedOK'
    BY <1>1, <1>2, <2>2, <2>3 DEF SavedOK, InRegisters
  <2> QED
    BY <1>3, <2>2, <2>4
<1>5. CASE uc' = Idle \/ uc' = At("refresh", <<>>)
  <2>1. uc'.at \in {"idle", "refresh"}
    BY <1>5, AtIs, IdleIs
  <2> QED
    BY <1>1, <2>1, FirmwareQuiet
<1>6. CASE uc' = At("apPart", [s \in wk.completed |-> uc.arg[s]])
  <2> DEFINE part == [s \in wk.completed |-> uc.arg[s]]
  <2>1. uc'.at = "apPart" /\ uc'.arg = part
    BY <1>6, AtIs
  <2>2. \A s \in wk.completed : s \in DOMAIN uc.arg /\ InRegisters(s, uc.arg[s])
    BY <1>1 DEF BatchOK
  <2>3. DOMAIN part \subseteq Settings
    BY <1>2, <2>2
  <2>4. \A s \in DOMAIN part : \A c \in Registers(s) : fw[c] \in {part[s], Reset}
    BY <2>2 DEF InRegisters
  <2> HIDE DEF part
  <2>5. SavedOK'
    BY <1>1, <2>1, <2>3, <2>4 DEF SavedOK, InRegisters
  <2> QED
    BY <1>3, <2>1, <2>5
<1> QED
  BY <1>1, <1>4, <1>5, <1>6 DEF ApplyAnswered

\* What the worker accepted is saved, and from now on answered for.
LEMMA FirmwareSaved ==
  ASSUME WorkerOK, SavedOK, cfg = Config(cfg.daemon, cfg.pad, cfg.maps),
         uc.at \in {"apSave", "apPart"}, uc'.at \notin {"apWait", "apProbe", "apSave", "apPart"},
         cfg' = [cfg EXCEPT !.pad = Merge(@, uc.arg)], sure' = sure \cup DOMAIN uc.arg,
         UNCHANGED <<wk, fw>>
  PROVE  TodoOK' /\ BatchOK' /\ SavedOK'
<1>1. wk'.todo = <<>>
  BY DEF WorkerOK, Matches
<1>2. TodoOK' /\ BatchOK'
  BY <1>1 DEF TodoOK, BatchOK
<1>3. cfg'.pad = Merge(cfg.pad, uc.arg)
  BY ConfigPad
<1>4. /\ DOMAIN cfg'.pad = DOMAIN cfg.pad \cup DOMAIN uc.arg
      /\ \A s \in DOMAIN uc.arg : cfg'.pad[s] = uc.arg[s]
      /\ \A s \in DOMAIN cfg.pad : s \notin DOMAIN uc.arg => cfg'.pad[s] = cfg.pad[s]
  BY <1>3 DEF Merge
<1>5. ASSUME NEW s \in sure' PROVE \A c \in Registers(s) : fw[c] \in {cfg'.pad[s], Reset}
  <2>1. CASE s \in DOMAIN uc.arg
    BY <1>4, <2>1 DEF SavedOK, InRegisters
  <2>2. CASE s \in sure /\ s \notin DOMAIN uc.arg
    BY <1>4, <2>2 DEF SavedOK, InRegisters
  <2> QED
    BY <1>5, <2>1, <2>2
<1>6. SavedOK'
  BY <1>4, <1>5 DEF SavedOK, InRegisters
<1> QED
  BY <1>2, <1>6

LEMMA FirmwareKeeps == IInv /\ [Next]_vars => TodoOK' /\ BatchOK' /\ SavedOK'
<1> SUFFICES ASSUME IInv, [Next]_vars PROVE TodoOK' /\ BatchOK' /\ SavedOK'
  OBVIOUS
<1>a. /\ WorkerOK /\ TodoOK /\ BatchOK /\ SavedOK /\ wk \in Workers /\ Matches(wk, uc.at)
      /\ uc = At(uc.at, uc.arg) /\ cfg = Config(cfg.daemon, cfg.pad, cfg.maps)
      /\ DOMAIN fw = Commands
  BY DEF IInv, LockOK, WorkerOK, SavedOK
<1>q. ASSUME wk'.todo = wk.todo \/ wk'.todo = <<>>, UNCHANGED <<fw, sure>>,
             cfg'.pad = cfg.pad, uc'.at \notin {"apWait", "apProbe", "apSave", "apPart"}
      PROVE  TodoOK' /\ BatchOK' /\ SavedOK'
  BY <1>a, <1>q, FirmwareQuiet
<1>1. ASSUME NEW p \in Paths, UnplugDevice(p) PROVE TodoOK' /\ BatchOK' /\ SavedOK'
  <2>1. wk' = [wk EXCEPT !.fd = Unplugged(@, p)] /\ UNCHANGED <<uc, fw, sure, cfg>>
    BY <1>1 DEF UnplugDevice, appVars
  <2>2. wk'.at = wk.at /\ wk'.ok = wk.ok /\ wk'.todo = wk.todo /\ wk'.completed = wk.completed
    BY <1>a, <2>1 DEF Workers
  <2> QED
    BY <1>a, <2>1, <2>2, FirmwareStays
<1>2. ASSUME NEW p \in Paths, NEW kind \in {"pad", "other"}, PlugDevice(p, kind)
      PROVE  TodoOK' /\ BatchOK' /\ SavedOK'
  <2>1. UNCHANGED <<uc, wk, sure, cfg>> /\ (fw' = [c \in Commands |-> Reset] \/ fw' = fw)
    BY <1>2 DEF PlugDevice, appVars
  <2>2. DOMAIN fw' = Commands /\ \A c \in Commands : fw'[c] = fw[c] \/ fw'[c] = Reset
    BY <1>a, <2>1
  <2> QED
    BY <1>a, <2>1, <2>2, FirmwareStays
<1>3. CASE WorkerStep
  BY <1>a, <1>3, FirmwareMoves
<1>4. CASE RuntimeRuns \/ ShutdownBegins \/ UNCHANGED vars
  <2>1. UNCHANGED <<uc, wk, fw, sure, cfg>>
    BY <1>4 DEF RuntimeRuns, ShutdownBegins, vars, appVars
  <2> QED
    BY <1>a, <2>1, FirmwareStays
<1>5. CASE RefreshLoop \/ UseCaseRefreshes
  <2>1. UNCHANGED <<fw, sure, cfg>> /\ (UNCHANGED wk \/ (wk = IdleWorker /\ wk' = AbandonedRead))
    BY <1>5 DEF RefreshLoop, UseCaseRefreshes, RefreshGestures
  <2>2. wk'.todo = wk.todo \/ wk'.todo = <<>>
    BY <2>1, AbandonedIs
  <2>3. CASE uc'.at = "idle"
    BY <1>q, <2>1, <2>2, <2>3
  <2>4. CASE UNCHANGED uc /\ UNCHANGED wk
    BY <1>a, <2>1, <2>4, FirmwareStays
  <2>5. CASE UNCHANGED uc /\ wk = IdleWorker /\ wk' = AbandonedRead
    <3>1. uc.at # "apWait" /\ wk'.todo = <<>>
      BY <1>a, <2>5, IdleWorkerIs, AbandonedIs DEF Matches
    <3> QED
      BY <1>a, <2>1, <2>5, <3>1, FirmwareEmpties
  <2> QED
    BY <1>5, <2>1, <2>3, <2>4, <2>5, IdleIs DEF RefreshLoop, UseCaseRefreshes
<1>6. ASSUME NEW profile \in Profiles, ApplyBegins(profile) PROVE TodoOK' /\ BatchOK' /\ SavedOK'
  <2>1. UNCHANGED <<wk, fw, cfg, sure>> /\ uc'.at = "apProbe" /\ uc'.arg = profile /\ uc.at = "idle"
    BY <1>6, AtIs, IdleIs DEF ApplyBegins, Begin
  <2>2. DOMAIN profile \subseteq Settings /\ \A s \in DOMAIN profile : profile[s] \in Values
    BY DEF Profiles
  <2>3. \A v \in Values : v \in Nat
    BY DEF Values
  <2>4. TodoOK' /\ BatchOK'
    BY <1>a, <2>1 DEF TodoOK, BatchOK
  <2>5. SavedOK'
    BY <1>a, <2>1, <2>2, <2>3 DEF SavedOK, InRegisters
  <2> QED
    BY <2>4, <2>5
<1>7. CASE \/ QueryBegins \/ QueryStopped \/ QueryRestarts \/ Reconciles \/ Reconciled \/ ShutdownStops
  <2>1. UNCHANGED <<wk, fw, sure, cfg>>
    BY <1>7 DEF QueryBegins, QueryStopped, QueryRestarts, Reconciles, Reconciled, ShutdownStops, appVars
  <2>2. uc'.at \notin {"apWait", "apProbe", "apSave", "apPart"}
    BY <1>a, <1>7, AtIs, MovesTo
       DEF QueryBegins, QueryStopped, QueryRestarts, Reconciles, Reconciled, ShutdownStops
  <2> QED
    BY <1>q, <2>1, <2>2
<1>8. CASE MappingSaved \/ \E on \in BOOLEAN : DaemonSaved(on) \/ ReloadGestures(on)
  <2>1. UNCHANGED <<wk, fw, sure>> /\ uc.at = "idle"
    BY <1>8, IdleIs DEF MappingSaved, DaemonSaved, ReloadGestures, Begin
  <2>2. uc'.at \notin {"apWait", "apProbe", "apSave", "apPart"}
    BY <1>8, <2>1, AtIs DEF MappingSaved, DaemonSaved, ReloadGestures
  <2>3. \/ UNCHANGED cfg \/ \E x : cfg' = [cfg EXCEPT !.maps = x]
        \/ \E x : cfg' = [cfg EXCEPT !.daemon = x]
    BY <1>8 DEF MappingSaved, DaemonSaved, ReloadGestures
  <2>4. cfg'.pad = cfg.pad
    BY <1>a, <2>3 DEF Config
  <2> QED
    BY <1>q, <2>1, <2>2, <2>4
<1>9. CASE ApplyProbes
  <2>1. UNCHANGED <<fw, cfg>> /\ uc.at = "apProbe"
    BY <1>9 DEF ApplyProbes
  <2>2. CASE uc' = Idle /\ UNCHANGED sure /\ (UNCHANGED wk \/ wk' = AbandonedRead)
    BY <1>q, <2>1, <2>2, IdleIs, AbandonedIs
  <2>3. CASE /\ uc' = [uc EXCEPT !.at = "apWait"] /\ wk' = Command("apply", ProfileReports(uc.arg))
             /\ sure' = sure \ DOMAIN uc.arg
    <3>1. uc'.at = "apWait" /\ uc'.arg = uc.arg
      BY <1>a, <2>3, MovesTo, AtIs
    <3> QED
      BY <1>a, <2>1, <2>3, <3>1, FirmwareCommanded
  <2> QED
    BY <1>9, <2>2, <2>3 DEF ApplyProbes
<1>10. CASE ApplyAnswered
  BY <1>a, <1>10, FirmwareAnswered
<1>11. CASE ApplyTimesOut \/ QueryAnswered
  <2>1. UNCHANGED <<fw, sure, cfg>> /\ (wk' = IdleWorker \/ wk' = [wk EXCEPT !.waits = FALSE])
    BY <1>11 DEF ApplyTimesOut, QueryAnswered, appVars
  <2>2. wk'.todo = wk.todo \/ wk'.todo = <<>>
    BY <1>a, <2>1, IdleWorkerIs DEF Workers
  <2>3. uc'.at \in {"idle", "qEnd"}
    BY <1>a, <1>11, IdleIs, MovesTo, AtIs DEF ApplyTimesOut, QueryAnswered
  <2> QED
    BY <1>q, <2>1, <2>2, <2>3
<1>12. CASE ApplySaves
  <2>1. UNCHANGED <<wk, fw>> /\ uc.at \in {"apSave", "apPart"}
    BY <1>12 DEF ApplySaves
  <2>2. uc'.at \in {"idle", "refresh"}
    BY <1>12, AtIs, IdleIs DEF ApplySaves
  <2>3. CASE cfg' = [cfg EXCEPT !.pad = Merge(@, uc.arg)] /\ sure' = sure \cup DOMAIN uc.arg
    BY <1>a, <2>1, <2>2, <2>3, FirmwareSaved
  <2>4. CASE UNCHANGED <<cfg, sure>>
    BY <1>q, <2>1, <2>2, <2>4
  <2> QED
    BY <1>12, <2>3, <2>4 DEF ApplySaves
<1>13. CASE QuerySubmits
  <2>1. UNCHANGED <<fw, sure, cfg>>
    BY <1>13 DEF QuerySubmits, appVars
  <2>a. uc' = [uc EXCEPT !.at = "qEnd"] \/ uc' = [uc EXCEPT !.at = "qWait"]
    BY <1>13 DEF QuerySubmits
  <2>2. uc'.at \in {"qEnd", "qWait"}
    <3>1. uc' = At("qEnd", uc.arg) \/ uc' = At("qWait", uc.arg)
      BY <1>a, <2>a, MovesTo
    <3> QED
      BY <3>1, AtIs
  <2>3. CASE UNCHANGED wk
    BY <1>q, <2>1, <2>2, <2>3
  <2>4. CASE wk' = Command("query", <<QueryReport>>)
    <3> DEFINE q == <<ClockReport>> \o <<QueryReport>>
    <3>1. /\ q \in Seq(Reports)
          /\ \A i \in 1..Len(q) :
                 q[i].cmd \notin Commands /\ q[i].set \notin Settings /\ ~q[i].last
      BY QueryIsBatch
    <3>2. wk'.todo = q
      BY <2>4, <3>1, CommandIs
    <3> HIDE DEF q
    <3>3. TodoOK'
      BY <3>1, <3>2 DEF TodoOK
    <3>4. BatchOK' /\ SavedOK'
      BY <1>a, <2>1, <2>2 DEF BatchOK, SavedOK, InRegisters
    <3> QED
      BY <3>3, <3>4
  <2> QED
    BY <1>13, <2>3, <2>4 DEF QuerySubmits
<1> QED
  BY <1>1, <1>2, <1>3, <1>4, <1>5, <1>6, <1>7, <1>8, <1>9, <1>10, <1>11, <1>12, <1>13
     DEF Next, UseCaseStep
-----------------------------------------------------------------------------
(* The theorems.                                                           *)

LEMMA TouchpadInit == Init => IInv
<1> SUFFICES ASSUME Init PROVE IInv
  OBVIOUS
<1>1. RuntimeOK
  BY NoFdIs DEF Init, RuntimeInit, RuntimeOK, Kinds
<1>2. uc = Idle /\ uc.at = "idle" /\ uc = At("idle", <<>>) /\ uc.arg = <<>>
  BY IdleIs, AtIs DEF Init
<1>3. cfg = Config(FALSE, <<>>, <<>>) /\ health = "STOPPED"
  BY DEF Init, RuntimeInit, Config
<1>4. cfg = Config(cfg.daemon, cfg.pad, cfg.maps) /\ cfg.daemon = FALSE
  <2>1. cfg.daemon = FALSE
    BY <1>3, Zenon DEF Config
  <2>2. cfg.pad = <<>> /\ cfg.maps = <<>>
    BY <1>3, Zenon DEF Config
  <2> QED
    BY <1>3, <2>1, <2>2, Zenon
<1>5. LockOK
  BY <1>2, <1>3, <1>4 DEF LockOK, KnownAt
<1>6. /\ wk \in Workers /\ wk.cmd = "none" /\ wk.at = "idle" /\ wk.fd.live = FALSE
      /\ wk.todo = <<>> /\ wk.waits = FALSE
  BY IdleWorkerIs, NoFdIs DEF Init
<1>7. WorkerOK
  BY <1>2, <1>6 DEF WorkerOK, Matches
<1>8. TodoOK /\ BatchOK
  BY <1>2, <1>6 DEF TodoOK, BatchOK
<1>9. SavedOK
  BY <1>2 DEF Init, SavedOK
<1>10. PublishedOK
  <2>1. pub = Domain(TRUE, cfg.daemon, cfg.pad, GestureEntries(cfg.maps))
    BY DEF Init, Published, Domain
  <2>2. pub.fresh = TRUE /\ pub.daemon = cfg.daemon /\ pub.pad = cfg.pad
        /\ pub.rows = GestureEntries(cfg.maps)
    BY <2>1, Zenon DEF Domain
  <2>3. pub = Domain(pub.fresh, pub.daemon, pub.pad, pub.rows)
    BY <2>1, <2>2, Zenon
  <2> QED
    BY <2>2, <2>3 DEF PublishedOK
<1> QED
  BY <1>1, <1>5, <1>7, <1>8, <1>9, <1>10 DEF IInv

LEMMA TouchpadStep == IInv /\ [Next]_vars => IInv'
  BY RuntimeKeeps, LockKeeps, WorkerKeeps, FirmwareKeeps, PublishedKeeps DEF IInv

\* Every reachable state of the touchpad service satisfies the inductive
\* invariant: what the daemon has open, what the use case knows at each await,
\* what the worker is about to write and what the configuration promises.
THEOREM TouchpadInvariant == Spec => []IInv
  BY TouchpadInit, TouchpadStep, PTL DEF Spec

\* The gesture runtime has open exactly the descriptors its fields name, with
\* its reader registered only on an open one, whatever fails or is unplugged
\* between two system calls of _run_session and _close_session.
THEOREM TouchpadDescriptors == Spec => []DescriptorsAccounted
<1>1. IInv => DescriptorsAccounted
  <2> SUFFICES ASSUME RuntimeOK PROVE DescriptorsAccounted
    BY DEF IInv
  <2>1. hid # NoFd <=> hid.kind # "none"
    BY NoFdIs DEF RuntimeOK
  <2> QED
    BY <2>1 DEF RuntimeOK, DescriptorsAccounted
<1> QED
  BY <1>1, TouchpadInvariant, PTL

\* No report reaches a device that is not the touchpad: the second lookup of
\* _open_verified is enough, although the node's number can be reused at any
\* moment before and after it.
THEOREM TouchpadWritesOnlyThere == Spec => []OnlyTouchpadWritten
<1>1. IInv => OnlyTouchpadWritten
  BY DEF IInv, WorkerOK, OnlyTouchpadWritten
<1> QED
  BY <1>1, TouchpadInvariant, PTL

\* Between use cases the daemon runs exactly when the configuration says so,
\* and while a query is waited for the daemon has nothing open.
THEOREM TouchpadDaemonFollows == Spec => []DaemonFollowsConfig
<1>1. IInv => DaemonFollowsConfig
  <2> SUFFICES ASSUME IInv PROVE DaemonFollowsConfig
    OBVIOUS
  <2>1. ASSUME uc = Idle PROVE (health = "RUNNING") = cfg.daemon
    <3>1. uc.at = "idle" /\ KnownAt(uc.at, uc.arg, health, cfg.daemon)
      BY <2>1, IdleIs DEF IInv, LockOK
    <3>2. cfg.daemon \in BOOLEAN /\ (health = "RUNNING" <=> cfg.daemon = TRUE)
      BY <3>1 DEF KnownAt
    <3> QED
      BY <3>2
  <2>2. ASSUME wk.cmd = "query", wk.waits PROVE fds = 0
    <3>1. wk.waits = TRUE
      BY <2>2, WorkerFields DEF IInv, WorkerOK
    <3>2. uc.at = "qWait"
      BY <2>2, <3>1 DEF IInv, WorkerOK, Matches
    <3>3. health = "STOPPED"
      BY <3>2 DEF IInv, LockOK, KnownAt
    <3> QED
      BY <3>3 DEF IInv, RuntimeOK
  <2> QED
    BY <2>1, <2>2 DEF DaemonFollowsConfig
<1> QED
  BY <1>1, TouchpadInvariant, PTL

\* What apply_touchpad_settings has answered for as applied and persisted is
\* what all registers of the setting hold, as long as the touchpad keeps its
\* power: after partial batches, timeouts, failed saves and any interleaving of
\* a batch that nobody waits for with what the service does next.
THEOREM TouchpadSavedIsApplied == Spec => []SavedIsInFirmware
<1>1. IInv => SavedIsInFirmware
  <2> SUFFICES ASSUME SavedOK, NEW s \in sure, NEW i \in 1..Len(CommandsOf[s])
               PROVE  fw[CommandsOf[s][i]] \in {cfg.pad[s], Reset}
    BY DEF IInv, SavedIsInFirmware
  <2>1. CommandsOf[s][i] \in Registers(s)
    BY DEF Registers
  <2>2. InRegisters(s, cfg.pad[s])
    BY DEF SavedOK
  <2> QED
    BY <2>1, <2>2 DEF InRegisters
<1> QED
  BY <1>1, TouchpadInvariant, PTL

\* _mapping_for selects what _gesture_entries shows for the first key of a
\* report that has a row, for every saved set of mappings.
LEMMA EntriesShowTheChord ==
  ASSUME NEW maps, NEW sub \in {"6:1", "6:2"}
  PROVE  LET rows == GestureEntries(maps)
             key == IF sub \in DOMAIN rows THEN sub ELSE "6"
         IN  MappingFor(maps, KeysOf(sub)) = (IF rows[key].enabled THEN rows[key].mapping ELSE "")
<1> DEFINE rows == GestureEntries(maps)
           Chord(k) == IF k \notin DOMAIN maps THEN DefaultOf(k)
                       ELSE IF ~maps[k].enabled THEN ""
                       ELSE IF maps[k].mapping # "" THEN maps[k].mapping ELSE DefaultOf(k)
           Shown(k) == IF rows[k].enabled THEN rows[k].mapping ELSE ""
<1>1. DOMAIN DefaultMapping = {"6"} /\ DefaultMapping["6"] = "print"
  BY DEF DefaultMapping
<1>2. DefaultOf("6") = "print" /\ DefaultOf(sub) = "" /\ sub # "6"
  BY <1>1 DEF DefaultOf
<1>3. DOMAIN rows = {"6"} \cup DOMAIN maps
  BY <1>1 DEF GestureEntries
<1>4. KeysOf(sub)[1] = sub /\ KeysOf(sub)[2] = "6"
  BY DEF KeysOf
<1>5. MappingFor(maps, KeysOf(sub)) = IF sub \in DOMAIN maps THEN Chord(sub) ELSE Chord("6")
  BY <1>2, <1>4 DEF MappingFor
<1>6. ASSUME NEW k \in {"6"} \cup DOMAIN maps PROVE Chord(k) = Shown(k)
  <2> DEFINE e == k \in DOMAIN maps => maps[k].enabled
             m == IF k \in DOMAIN maps /\ maps[k].mapping # "" THEN maps[k].mapping ELSE DefaultOf(k)
             row == [enabled |-> e, mapping |-> m]
  <2>1. rows[k] = row
    BY <1>1 DEF GestureEntries
  <2>2. row.enabled = e
    BY Zenon
  <2>3. row.mapping = m
    BY Zenon
  <2> HIDE DEF row
  <2>4. rows[k].enabled = e
    BY <2>1, <2>2, Zenon
  <2>5. rows[k].mapping = m
    BY <2>1, <2>3, Zenon
  <2> QED
    BY <2>4, <2>5
<1>7. sub \in DOMAIN rows <=> sub \in DOMAIN maps
  BY <1>2, <1>3
<1> QED
  BY <1>5, <1>6, <1>7

\* Between use cases the published gestures domain is marked stale, or says
\* what is configured and shows the chord that a report really selects.
THEOREM TouchpadPublishesWhatIsDispatched == Spec => []PublishedIsDispatched
<1>1. IInv => PublishedIsDispatched
  <2> SUFFICES ASSUME PublishedOK, uc = Idle, pub.fresh
               PROVE  /\ pub.daemon = cfg.daemon /\ pub.pad = cfg.pad
                      /\ \A sub \in {"6:1", "6:2"} :
                             LET key == IF sub \in DOMAIN pub.rows THEN sub ELSE "6"
                             IN  MappingFor(cfg.maps, KeysOf(sub)) =
                                     (IF pub.rows[key].enabled THEN pub.rows[key].mapping ELSE "")
    BY DEF IInv, PublishedIsDispatched
  <2>1. /\ pub.daemon = cfg.daemon /\ pub.pad = cfg.pad /\ pub.rows = GestureEntries(cfg.maps)
    BY IdleIs DEF PublishedOK, Owing
  <2> QED
    BY <2>1, EntriesShowTheChord
<1> QED
  BY <1>1, TouchpadInvariant, PTL
=============================================================================
