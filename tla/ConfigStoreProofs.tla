------------------------- MODULE ConfigStoreProofs -------------------------
(***************************************************************************)
(* Proofs about ConfigStore, for any set of states and any set of faults.  *)
(***************************************************************************)
EXTENDS ConfigStore, TLAPS

\* A save in progress counts among the ones tried since the last report, and
\* what it has renamed is the file until somebody edits that.
SaveIsTried ==
    /\ pc \in SaveSteps => new \in tried
    /\ pc = "sync" /\ ~edited => primary = new

IInv == TypeOK /\ SaveIsTried /\ AckedSurvives /\ HealthTellsDivergence

\* The invariant holds before the first process starts.
LEMMA StoreInit == Init => IInv
  BY StatesAssumption
     DEF Init, IInv, TypeOK, SaveIsTried, AckedSurvives, HealthTellsDivergence, SaveSteps

\* Reading a readable primary, as load() and reload() do, keeps the ghosts true
\* of the file and puts the file's state, or the defaults, into memory.
LEMMA AdoptKeeps ==
  ASSUME TypeOK, AckedSurvives, Adopt, UNCHANGED files
  PROVE  /\ mem' \in States /\ valid' = TRUE /\ edited' \in BOOLEAN
         /\ acked' \in States \cup {Missing} /\ tried' \subseteq States
         /\ older' \subseteq States \cup {Missing}
         /\ AckedSurvives'
         /\ mem' = primary \/ (primary = Missing /\ mem' = Default)
  BY StatesAssumption DEF TypeOK, AckedSurvives, Adopt, files, ghosts

\* Every step of the store, the process or the outside world preserves it.
LEMMA StoreStep == IInv /\ [Next]_vars => IInv'
<1> SUFFICES ASSUME IInv, [Next]_vars PROVE IInv'
  OBVIOUS
<1> USE StatesAssumption
<1>a. TypeOK /\ SaveIsTried /\ AckedSurvives /\ HealthTellsDivergence
  BY DEF IInv
<1>1. CASE Boot
  <2>1. UNCHANGED files /\ UNCHANGED new /\ pc' = "idle"
    BY <1>1 DEF Boot
  <2>2. CASE Adopt
    BY <1>a, <2>1, <2>2, AdoptKeeps
       DEF IInv, TypeOK, SaveIsTried, HealthTellsDivergence, SaveSteps, files
  <2>3. CASE primary = Corrupt /\ mem' \in States /\ valid' = FALSE /\ UNCHANGED ghosts
    BY <1>a, <2>1, <2>3
       DEF IInv, TypeOK, SaveIsTried, AckedSurvives, HealthTellsDivergence, SaveSteps,
           files, ghosts
  <2> QED
    BY <1>a, <1>1, <2>2, <2>3 DEF Boot, Loads, TypeOK
<1>2. CASE Reload
  <2>1. UNCHANGED files /\ UNCHANGED <<new, pc>> /\ pc = "idle"
    BY <1>2 DEF Reload
  <2>2. CASE Adopt
    BY <1>a, <2>1, <2>2, AdoptKeeps
       DEF IInv, TypeOK, SaveIsTried, HealthTellsDivergence, SaveSteps, files
  <2>3. CASE primary = Corrupt /\ valid' = FALSE /\ UNCHANGED <<mem, ghosts>>
    BY <1>a, <2>1, <2>3
       DEF IInv, TypeOK, SaveIsTried, AckedSurvives, HealthTellsDivergence, SaveSteps,
           files, ghosts
  <2> QED
    BY <1>2, <2>2, <2>3 DEF Reload
<1>3. ASSUME NEW s \in States, Update(s) PROVE IInv'
  BY <1>a, <1>3
     DEF Update, IInv, TypeOK, SaveIsTried, AckedSurvives, HealthTellsDivergence, SaveSteps,
         files
<1>4. CASE Save
  <2>1. CASE CheckPrimary
    BY <1>a, <2>1
       DEF CheckPrimary, Loads, IInv, TypeOK, SaveIsTried, AckedSurvives, HealthTellsDivergence,
           SaveSteps, files, ghosts
  <2>2. CASE CopyBegins
    BY <1>a, <2>2
       DEF CopyBegins, IInv, TypeOK, SaveIsTried, AckedSurvives, HealthTellsDivergence,
           SaveSteps, ghosts
  <2>3. CASE CopyEnds
    BY <1>a, <2>3
       DEF CopyEnds, IInv, TypeOK, SaveIsTried, AckedSurvives, HealthTellsDivergence,
           SaveSteps, ghosts
  <2>4. CASE WriteTemp
    BY <1>a, <2>4
       DEF WriteTemp, IInv, TypeOK, SaveIsTried, AckedSurvives, HealthTellsDivergence,
           SaveSteps, files, ghosts
  <2>5. CASE Rename
    BY <1>a, <2>5
       DEF Rename, IInv, TypeOK, SaveIsTried, AckedSurvives, HealthTellsDivergence,
           SaveSteps, ghosts
  <2>6. CASE SyncDir
    <3>1. /\ new \in tried /\ pc = "sync" /\ pc' = "idle" /\ mem' = new /\ acked' = new /\ tried' = {}
          /\ valid' = TRUE /\ UNCHANGED <<primary, backup, new>>
      BY <1>a, <2>6 DEF SyncDir, SaveIsTried, SaveSteps
    <3>2. CASE survivors' = {primary} /\ older' = {} /\ edited' = (primary # new)
      BY <1>a, <3>1, <3>2
         DEF IInv, TypeOK, SaveIsTried, AckedSurvives, HealthTellsDivergence, SaveSteps
    <3>3. CASE older' = older \cup {acked} \cup tried /\ UNCHANGED <<survivors, edited>>
      BY <1>a, <3>1, <3>3
         DEF IInv, TypeOK, SaveIsTried, AckedSurvives, HealthTellsDivergence, SaveSteps
    <3> QED
      BY <2>6, <3>2, <3>3 DEF SyncDir
  <2>7. CASE SaveFails
    BY <1>a, <2>7
       DEF SaveFails, IInv, TypeOK, SaveIsTried, AckedSurvives, HealthTellsDivergence,
           SaveSteps, files, ghosts
  <2> QED
    BY <1>4, <2>1, <2>2, <2>3, <2>4, <2>5, <2>6, <2>7 DEF Save
<1>5. CASE Kill
  BY <1>a, <1>5
     DEF Kill, IInv, TypeOK, SaveIsTried, AckedSurvives, HealthTellsDivergence, SaveSteps,
         files, ghosts
<1>6. CASE PowerCut
  BY <1>a, <1>6
     DEF PowerCut, IInv, TypeOK, SaveIsTried, AckedSurvives, HealthTellsDivergence, SaveSteps,
         ghosts
<1>7. ASSUME NEW c \in States \cup {Missing, Corrupt}, Edit(c) PROVE IInv'
  BY <1>a, <1>7
     DEF Edit, IInv, TypeOK, SaveIsTried, AckedSurvives, HealthTellsDivergence, SaveSteps
<1>8. CASE UNCHANGED vars
  BY <1>a, <1>8
     DEF vars, IInv, TypeOK, SaveIsTried, AckedSurvives, HealthTellsDivergence
<1> QED
  BY <1>1, <1>2, <1>3, <1>4, <1>5, <1>6, <1>7, <1>8 DEF Next

\* The inductive invariant of the store.
THEOREM StoreInvariant == Spec => []IInv
  BY StoreInit, StoreStep, PTL DEF Spec

\* Types: in particular the state in memory is always a valid one.
THEOREM StoreTypeOK == Spec => []TypeOK
  BY StoreInvariant, PTL DEF IInv

\* Whatever fails or is killed between two steps of a save, the file holds the
\* last state reported as persisted or a later attempt, whole.  So it does after
\* a power cut, unless the last saves had their fsync of the directory fail,
\* which _fsync_dir swallows: then it holds one of the states before those.
THEOREM StoreKeepsAcknowledged == Spec => []AckedSurvives
  BY StoreInvariant, PTL DEF IInv

\* A store that calls itself valid has the file's state in memory.
THEOREM StoreHealthIsHonest == Spec => []HealthTellsDivergence
  BY StoreInvariant, PTL DEF IInv

\* A running process never falls back to the backup.
THEOREM StorePrefersLiveState == Spec => LiveStateOutranksBackup
<1> DEFINE Allowed == pc # "down" /\ pc' # "down" /\ mem' # mem =>
                        mem' = new \/ mem' = primary \/ (primary = Missing /\ mem' = Default)
<1>1. ASSUME [Next]_vars PROVE [Allowed]_vars
  BY <1>1 DEF Next, Boot, Reload, Adopt, Update, Save, CheckPrimary, CopyBegins, CopyEnds,
              WriteTemp, Rename, SyncDir, SaveFails, Kill, PowerCut, Edit, vars
<1> QED
  BY <1>1, PTL DEF Spec, LiveStateOutranksBackup
=============================================================================
