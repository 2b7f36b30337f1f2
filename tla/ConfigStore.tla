----------------------------- MODULE ConfigStore -----------------------------
(***************************************************************************)
(* backend/config_store.py: the desired state in memory, the state file,   *)
(* its one backup, and what a save leaves behind when it fails, when the   *)
(* process is killed or when the power goes in the middle of it.           *)
(*                                                                         *)
(* update() runs under a lock and without awaits, so the process does      *)
(* nothing else during a save; the steps of a save are separate actions    *)
(* because a kill, a power cut or an administrator editing the file can    *)
(* come between them.  A parsed, validated state is a member of States; a  *)
(* file that does not parse or validate is Corrupt.                        *)
(***************************************************************************)
CONSTANTS States,   \* the valid ServiceStates
          Default,  \* default_state()
          Missing,  \* there is no such file
          Corrupt,  \* the file is there and does not load
          Faults    \* what may go wrong: a subset of AllFaults

\* A write or a copy fails; the directory cannot be opened for its fsync; that
\* fsync fails; the process is killed; the power goes; somebody edits the file.
AllFaults == {"disk", "dirOpen", "dirSync", "kill", "power", "edit"}

ASSUME StatesAssumption ==
    Default \in States /\ Missing \notin States /\ Corrupt \notin States /\ Missing # Corrupt
ASSUME FaultsAssumption == Faults \subseteq AllFaults

VARIABLES primary,   \* state.toml as a reader sees it
          survivors, \* what a power cut may leave of state.toml
          backup,    \* state.toml.bak
          mem,       \* _state
          valid,     \* _valid
          pc,        \* where the process is: "down", "idle" or in a save
          new,       \* the state being saved
          acked,     \* ghost: the last state a caller was told is persisted
          tried,     \* ghost: the states whose save began after that
          older,     \* ghost: states before acked that a failed fsync of the directory left alive
          edited     \* ghost: the file was edited since

vars == <<primary, survivors, backup, mem, valid, pc, new, acked, tried, older, edited>>
files == <<primary, survivors, backup>>
ghosts == <<acked, tried, older, edited>>

SaveSteps == {"check", "copy", "copying", "temp", "rename", "sync"}

Init ==
    /\ primary \in States \cup {Missing} /\ survivors = {primary}
    /\ backup \in States \cup {Missing}
    /\ mem = Default /\ valid = TRUE /\ pc = "down" /\ new = Default
    /\ acked = primary /\ tried = {} /\ older = {} /\ edited = FALSE
-----------------------------------------------------------------------------
(* _load.                                                                  *)

\* _state_from_dict: a file that parses and has every field in range is a state
\* (what a save writes is one); anything else is Corrupt.
Loads(file) == file \in States

\* The primary is adopted when it is readable; without one, the defaults are.
\* A file edited by hand becomes the persisted state once it is read.
Adopt ==
    /\ primary # Corrupt
    /\ mem' = IF primary = Missing THEN Default ELSE primary
    /\ valid' = TRUE
    /\ IF edited /\ survivors = {primary}
       THEN acked' = primary /\ tried' = {} /\ older' = {} /\ edited' = FALSE
       ELSE UNCHANGED ghosts

\* load() of a new process: a corrupt primary may be replaced by the backup,
\* and the store is degraded either way.
Boot ==
    /\ pc = "down"
    /\ pc' = "idle"
    /\ \/ Adopt
       \/ /\ primary = Corrupt
          /\ mem' = IF Loads(backup) THEN backup ELSE Default
          /\ valid' = FALSE
          /\ UNCHANGED ghosts
    /\ UNCHANGED <<files, new>>

Reload_FromBackup ==
    /\ pc = "idle"
    /\ \/ Adopt
       \/ /\ primary = Corrupt
          /\ mem' = IF Loads(backup) THEN backup ELSE mem
          /\ valid' = FALSE
          /\ UNCHANGED ghosts
    /\ UNCHANGED <<files, pc, new>>

\* reload(): a corrupt primary leaves the live state active, degraded.
Reload ==
    /\ pc = "idle"
    /\ \/ Adopt
       \/ primary = Corrupt /\ valid' = FALSE /\ UNCHANGED <<mem, ghosts>>
    /\ UNCHANGED <<files, pc, new>>
-----------------------------------------------------------------------------
(* update and _save_atomic.                                                *)

\* update() with a mutator that gives the valid state s.
Update(s) ==
    /\ pc = "idle"
    /\ pc' = "check" /\ new' = s /\ tried' = tried \cup {s}
    /\ UNCHANGED <<files, mem, valid, acked, older, edited>>

\* Only a primary that loads is copied to the backup.
CheckPrimary ==
    /\ pc = "check"
    /\ pc' = IF Loads(primary) THEN "copy" ELSE "temp"
    /\ UNCHANGED <<files, mem, valid, new, ghosts>>

\* shutil.copy2 truncates the backup, then fills it with the primary.
CopyBegins ==
    /\ pc = "copy"
    /\ \/ primary # Missing /\ backup' = Corrupt /\ pc' = "copying"
       \/ primary = Missing /\ pc' = "temp" /\ UNCHANGED backup
    /\ UNCHANGED <<primary, survivors, mem, valid, new, ghosts>>

\* A copy that fails is logged and the save goes on; an edit in the middle of
\* it may be copied in part.
CopyEnds ==
    /\ pc = "copying"
    /\ pc' = "temp"
    /\ \/ backup' \in (IF edited THEN {primary, Corrupt} ELSE {primary}) \ {Missing}
       \/ "disk" \in Faults /\ UNCHANGED backup
    /\ UNCHANGED <<primary, survivors, mem, valid, new, ghosts>>

\* The temporary file is written and fsynced.
WriteTemp ==
    /\ pc = "temp"
    /\ pc' = "rename"
    /\ UNCHANGED <<files, mem, valid, new, ghosts>>

\* os.replace: the new file takes the name at once, and on the disk some time.
Rename ==
    /\ pc = "rename"
    /\ primary' = new /\ survivors' = survivors \cup {new} /\ pc' = "sync"
    /\ UNCHANGED <<backup, mem, valid, new, ghosts>>

SyncDir_Skipped ==
    /\ pc = "sync"
    /\ pc' = "idle" /\ mem' = new /\ valid' = TRUE
    /\ acked' = new /\ tried' = {} /\ older' = {}
    /\ edited' = (primary # new)
    /\ UNCHANGED <<files, new>>

\* The directory is fsynced, and the caller is told that s is persisted: also
\* when that fsync fails, which _fsync_dir swallows.
SyncDir ==
    /\ pc = "sync"
    /\ pc' = "idle" /\ mem' = new /\ valid' = TRUE
    /\ acked' = new /\ tried' = {}
    /\ \/ survivors' = {primary} /\ older' = {} /\ edited' = (primary # new)
       \/ /\ "dirSync" \in Faults
          /\ older' = older \cup {acked} \cup tried
          /\ UNCHANGED <<survivors, edited>>
    /\ UNCHANGED <<primary, backup, new>>

SaveFails_Unnoticed ==
    /\ \/ pc \in {"temp", "rename"} /\ "disk" \in Faults
       \/ pc = "sync" /\ "dirOpen" \in Faults
    /\ pc' = "idle"
    /\ UNCHANGED <<files, mem, valid, new, ghosts>>

\* The save raises: the state in memory stays, and the store is degraded.
SaveFails ==
    /\ \/ pc \in {"temp", "rename"} /\ "disk" \in Faults
       \/ pc = "sync" /\ "dirOpen" \in Faults
    /\ pc' = "idle" /\ valid' = FALSE
    /\ UNCHANGED <<files, mem, new, ghosts>>

Save == CheckPrimary \/ CopyBegins \/ CopyEnds \/ WriteTemp \/ Rename \/ SyncDir \/ SaveFails
-----------------------------------------------------------------------------
(* The outside world.                                                      *)

Kill ==
    /\ "kill" \in Faults /\ pc # "down"
    /\ pc' = "down"
    /\ UNCHANGED <<files, mem, valid, new, ghosts>>

\* Renames that no fsync of the directory has followed may be undone; the
\* backup is never fsynced.  A state lost that way is acknowledged no longer.
PowerCut ==
    /\ "power" \in Faults
    /\ pc' = "down"
    /\ primary' \in survivors /\ survivors' = {primary'}
    /\ backup' \in {backup, Corrupt}
    /\ older' = {}
    /\ IF ~edited /\ primary' \in older \ ({acked} \cup tried)
       THEN acked' = primary' /\ tried' = {}
       ELSE UNCHANGED <<acked, tried>>
    /\ UNCHANGED <<mem, valid, new, edited>>

\* The administrator replaces or removes the state file.
Edit(c) ==
    /\ "edit" \in Faults
    /\ primary' = c /\ survivors' = {c} /\ edited' = TRUE
    /\ UNCHANGED <<backup, mem, valid, pc, new, acked, tried, older>>

Next ==
    \/ Boot \/ Reload \/ \E s \in States : Update(s)
    \/ Save
    \/ Kill \/ PowerCut \/ \E c \in States \cup {Missing, Corrupt} : Edit(c)

Spec == Init /\ [][Next]_vars
-----------------------------------------------------------------------------
(* Properties.                                                             *)

TypeOK ==
    /\ primary \in States \cup {Missing, Corrupt}
    /\ primary \in survivors /\ survivors \subseteq States \cup {Missing, Corrupt}
    /\ backup \in States \cup {Missing, Corrupt}
    /\ mem \in States /\ new \in States
    /\ valid \in BOOLEAN /\ edited \in BOOLEAN
    /\ pc \in SaveSteps \cup {"down", "idle"}
    /\ acked \in States \cup {Missing} /\ tried \subseteq States
    /\ older \subseteq States \cup {Missing}

\* Unless somebody edited it, the file is at every moment, and after every kill,
\* a whole state: the last one reported as persisted or one whose save was begun
\* later.  A power cut leaves one of those too, and goes back behind what was
\* reported only over saves whose fsync of the directory failed unnoticed.
\* Nothing else acknowledged is rolled back and nothing torn is ever read.
AckedSurvives ==
    ~edited => /\ primary \in {acked} \cup tried
               /\ survivors \subseteq {acked} \cup tried \cup older

\* A store that reports itself valid has in memory what is on disk: every
\* divergence a failed save leaves behind shows as degraded health.
HealthTellsDivergence ==
    pc = "idle" /\ valid /\ ~edited =>
        mem = primary \/ (primary = Missing /\ mem = Default)

\* safety.md:70, "During a running reload, a corrupt primary leaves the newer
\* in-memory last-known-good state active; it never replaces it with the older
\* backup": while the process runs, its state only changes to the one just
\* saved or to the one read from the primary.
LiveStateOutranksBackup ==
    [][pc # "down" /\ pc' # "down" /\ mem' # mem =>
         mem' = new \/ mem' = primary \/ (primary = Missing /\ mem' = Default)]_vars
=============================================================================
