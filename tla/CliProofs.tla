------------------------------ MODULE CliProofs ------------------------------
(***************************************************************************)
(* The files of the command line tools, for any number of processes that   *)
(* may die anywhere: the updater's binary stays usable, never goes back,   *)
(* and updates are announced; the store of packages stays whole.           *)
(***************************************************************************)
EXTENDS Updater, PackageStore, FiniteSetTheorems, WellFoundedInduction, TLAPS

-----------------------------------------------------------------------------
(***************************************************************************)
(* The updater.                                                            *)
(***************************************************************************)

(* As long as no lock has grown old, whoever is inside holds it.           *)
Flight ==
  /\ overlapped => aged
  /\ lockStale => aged
  /\ \A p \in Updaters : step[p] = "reclaim" => aged
  /\ \A p \in Updaters : step[p] \in Inside => lock = p \/ aged
  /\ \A p, q \in Updaters : p # q /\ step[p] \in Inside /\ step[q] \in Inside => overlapped

(* What a process holds at each of its steps, whoever else is inside.      *)
Carries(p) ==
  /\ goal[p] <= released
  /\ step[p] \in {"download", "downloading"} => goal[p] > 0
  /\ copied[p] # NoContent => step[p] \in {"replace", "put", "rollback"}
  /\ step[p] = "replace" => copied[p] # NoContent /\ ~windows
  /\ step[p] \in {"aside", "put", "rollback"} => windows

(* A file that is there has something in it, and the install path is empty *)
(* only during a swap by renames, or after one that was cut short.         *)
Files ==
  /\ partial # NoFile => partial.holds # NoContent
  /\ stagedFile # NoFile => stagedFile.holds # NoContent
  /\ binary = NoContent =>
       windows /\ (stranded \/ \E p \in Updaters : step[p] \in {"put", "rollback"})

(* Past the check, while no other update runs.                             *)
Past == Inside \ {"throttle", "check", "err_load", "err_save", "release"}

(* What a process inside finds where it put it, if it is alone there.      *)
Finds(p) ==
  /\ step[p] \in Past => goal[p] >= best
  /\ step[p] = "copy" => stagedFile.holds = goal[p]
  /\ step[p] = "replace" => copied[p] = goal[p]
  /\ step[p] \in {"aside", "put"} => fresh = goal[p]
  /\ step[p] \in {"put", "rollback"} /\ copied[p] # NoContent => old = NoContent \/ old >= best

Alone ==
  /\ binary = NoContent \/ binary >= best
  /\ best <= released
  /\ \A p \in Updaters : Finds(p)

(* What everybody remembers of update.json.                                *)
Remembers ==
  /\ \A p \in Updaters :
       step[p] \in {"peeked", "seen_save", "won_save", "err_save"} /\ p \notin behind
         => mem[p].updatedTo = record.updatedTo
  /\ \A h \in Commands : hookStep[h] = "save" /\ h \notin behind => unannounced = 0 \/ clobbered

UpdaterInv ==
  /\ UpdaterTypeOK
  /\ Flight
  /\ Files /\ \A p \in Updaters : Carries(p)
  /\ overlapped \/ Alone
  /\ UpdateAnnounced /\ Remembers


LEMMA UpdaterInvInit == UpdaterInit => UpdaterInv
  <1> SUFFICES ASSUME UpdaterInit PROVE UpdaterInv
    OBVIOUS
  <1> USE UpdaterAssumption DEF UpdaterInit, NoContent, NoFile, BlankRecord, Content, Truncated
  <1>1. UpdaterTypeOK
    <2>1. record \in RecordType /\ mem \in [Updaters \cup Commands -> RecordType]
      BY DEF RecordType
    <2>2. partial \in FileType /\ stagedFile \in FileType
      BY DEF FileType
    <2>3. step \in [Updaters -> UpdaterSteps]
      BY DEF UpdaterSteps
    <2>4. image \in [Updaters -> 0..Newest] /\ goal \in [Updaters -> 0..Newest]
      OBVIOUS
    <2>5. background \in [Updaters -> BOOLEAN] /\ copied \in [Updaters -> Content]
      OBVIOUS
    <2>6. hookStep \in [Commands -> {"closed", "idle", "save", "spawn"}]
      OBVIOUS
    <2>7. /\ released \in 1..Newest /\ best \in 1..Newest /\ unannounced \in 0..Newest
          /\ binary \in Content /\ fresh \in Content /\ old \in Content
      OBVIOUS
    <2>8. QED  BY <2>1, <2>2, <2>3, <2>4, <2>5, <2>6, <2>7 DEF UpdaterTypeOK
  <1>2. \A p \in Updaters : step[p] \in {"idle", "gone"}
    OBVIOUS
  <1>3. Flight
    BY <1>2 DEF Flight, Inside
  <1>4. Files
    BY DEF Files
  <1>5. \A p \in Updaters : Carries(p) /\ Finds(p)
    BY <1>2 DEF Carries, Finds, Past, Inside
  <1>6. Alone
    BY <1>5 DEF Alone
  <1>7. UpdateAnnounced /\ Remembers
    BY <1>2 DEF UpdateAnnounced, Remembers
  <1>8. QED  BY <1>1, <1>3, <1>4, <1>5, <1>6, <1>7 DEF UpdaterInv

(* An update process moves nobody but itself.                              *)
LEMMA OthersStay ==
  ASSUME UpdaterTypeOK, NEW p \in Updaters, UpdaterStep(p), NEW q \in Updaters, q # p
  PROVE step'[q] = step[q] /\ goal'[q] = goal[q] /\ copied'[q] = copied[q]
  <1> USE DEF UpdaterStep, StartUpdate, Starts, AcquireLock, RemoveStaleLock, RetryLock, ReleaseLock,
          TakeLock, LockIsStale, Peek, SavePeek, Throttle, CheckLatest, LoadRecord, SaveChecked,
          SaveError, SaveUpdated, CleanupOld, OpenPartial, ReceiveBinary, Written, Checksum,
          StageBinary, Verify, CopyStaged, Replace, Installs, MoveAside, PutNew, RollBack,
          Unstage, Dies, Goes, Ends, Load, Save, install, locking, staging, notes, process
  <1>1. step'[q] = step[q]
    BY DEF UpdaterTypeOK
  <1>2. goal'[q] = goal[q]
    BY DEF UpdaterTypeOK
  <1>3. copied'[q] = copied[q]
    BY DEF UpdaterTypeOK
  <1>4. QED  BY <1>1, <1>2, <1>3

(* Whoever is not inside touches neither the install nor the staging.      *)
LEMMA OutsideQuiet ==
  ASSUME UpdaterTypeOK, NEW p \in Updaters, UpdaterStep(p), step[p] \notin Inside
  PROVE UNCHANGED <<binary, fresh, old, best, partial, stagedFile>>
  BY DEF UpdaterTypeOK, Inside,
          UpdaterStep, StartUpdate, Starts, AcquireLock, RemoveStaleLock, RetryLock, ReleaseLock,
          TakeLock, LockIsStale, Peek, SavePeek, Throttle, CheckLatest, LoadRecord, SaveChecked,
          SaveError, SaveUpdated, CleanupOld, OpenPartial, ReceiveBinary, Written, Checksum,
          StageBinary, Verify, CopyStaged, Replace, Installs, MoveAside, PutNew, RollBack,
          Unstage, Dies, Goes, Ends, Load, Save, install, locking, staging, notes, process

(* A shell moves no update process, except that it may start one, and of   *)
(* the install it touches only what was put aside.                         *)
LEMMA HookQuiet ==
  ASSUME UpdaterTypeOK, NEW h \in Commands, HookSteps(h)
  PROVE /\ UNCHANGED <<windows, released, binary, fresh, best, stranded, locking, staging,
                       goal, copied>>
        /\ old' \in {old, NoContent}
        /\ \A p \in Updaters :
             \/ step'[p] = step[p]
             \/ step[p] = "idle" /\ step'[p] \in {"lock"}
  <1> USE DEF UpdaterTypeOK, HookSteps, ShowNotices, SaveNotices, SpawnBackground, CleanupOld,
              Starts, Goes, install, process
  <1>1. UNCHANGED <<windows, released, binary, fresh, best, stranded, locking, staging,
                       goal, copied>>
    OBVIOUS
  <1>2. old' \in {old, NoContent}
    OBVIOUS
  <1>3. \A p \in Updaters : \/ step'[p] = step[p]
                            \/ step[p] = "idle" /\ step'[p] \in {"lock"}
    OBVIOUS
  <1>4. QED  BY <1>1, <1>2, <1>3

----------------------------------------------------------------------------
(* Types.                                                                  *)
LEMMA RecordEdits ==
  ASSUME NEW r \in RecordType, NEW v \in 0..Newest
  PROVE  /\ BlankRecord \in RecordType
         /\ [r EXCEPT !.checked = TRUE] \in RecordType
         /\ [r EXCEPT !.failed = TRUE, !.surfaced = FALSE] \in RecordType
         /\ [r EXCEPT !.updatedTo = v, !.failed = FALSE] \in RecordType
         /\ [r EXCEPT !.updatedTo = 0, !.surfaced = r.failed \/ @] \in RecordType
         /\ [r EXCEPT !.checked = FALSE] \in RecordType
         /\ [r EXCEPT !.checked = FALSE].updatedTo = r.updatedTo
  <1> USE UpdaterAssumption DEF RecordType
  <1>1. 0 \in 0..Newest
    OBVIOUS
  <1>2. BlankRecord \in RecordType
    BY <1>1 DEF BlankRecord
  <1>3. [r EXCEPT !.checked = TRUE] \in RecordType /\ [r EXCEPT !.checked = FALSE] \in RecordType
    OBVIOUS
  <1>4. [r EXCEPT !.failed = TRUE, !.surfaced = FALSE] \in RecordType
    OBVIOUS
  <1>5. [r EXCEPT !.updatedTo = v, !.failed = FALSE] \in RecordType
    OBVIOUS
  <1>6. [r EXCEPT !.updatedTo = 0, !.surfaced = r.failed \/ @] \in RecordType
    <2>1. CASE r.failed \/ r.surfaced
      <3>1. [r EXCEPT !.updatedTo = 0, !.surfaced = TRUE] \in RecordType
        BY <1>1
      <3>2. (r.failed \/ r.surfaced) = TRUE
        BY <2>1
      <3>3. QED  BY <3>1, <3>2
    <2>2. CASE ~(r.failed \/ r.surfaced)
      <3>1. [r EXCEPT !.updatedTo = 0, !.surfaced = FALSE] \in RecordType
        BY <1>1
      <3>2. (r.failed \/ r.surfaced) = FALSE
        BY <2>2
      <3>3. QED  BY <3>1, <3>2
    <2>3. QED  BY <2>1, <2>2
  <1>7. [r EXCEPT !.checked = FALSE].updatedTo = r.updatedTo
    OBVIOUS
  <1>8. QED  BY <1>2, <1>3, <1>4, <1>5, <1>6, <1>7

LEMMA LoadTypes ==
  ASSUME UpdaterTypeOK, NEW x \in Updaters \cup Commands, Load(x)
  PROVE record' \in RecordType /\ mem' \in [Updaters \cup Commands -> RecordType]
  BY DEF Load, UpdaterTypeOK

LEMMA SaveTypes ==
  ASSUME UpdaterTypeOK, NEW x \in Updaters \cup Commands, NEW r \in RecordType, Save(x, r)
  PROVE record' \in RecordType /\ mem' \in [Updaters \cup Commands -> RecordType]
  BY RecordEdits DEF Save, UpdaterTypeOK

LEMMA RecordTypes ==
  ASSUME UpdaterTypeOK, NEW p \in Updaters, UpdaterStep(p)
  PROVE record' \in RecordType /\ mem' \in [Updaters \cup Commands -> RecordType]
  <1> USE DEF UpdaterTypeOK
  <1>1. CASE Peek(p) \/ LoadRecord(p)
    BY <1>1, LoadTypes DEF Peek, LoadRecord
  <1>2. CASE SavePeek(p)
    BY <1>2, RecordEdits, SaveTypes DEF SavePeek
  <1>3. CASE SaveChecked(p)
    BY <1>3, RecordEdits, SaveTypes DEF SaveChecked
  <1>4. CASE SaveError(p) \/ SaveUpdated(p)
    BY <1>4, RecordEdits, SaveTypes DEF SaveError, SaveUpdated
  <1>5. CASE UNCHANGED <<record, mem>>
    BY <1>5
  <1>6. QED
    <2> USE DEF
          UpdaterStep, StartUpdate, Starts, AcquireLock, RemoveStaleLock, RetryLock, ReleaseLock,
          TakeLock, LockIsStale, Peek, SavePeek, Throttle, CheckLatest, LoadRecord, SaveChecked,
          SaveError, SaveUpdated, CleanupOld, OpenPartial, ReceiveBinary, Written, Checksum,
          StageBinary, Verify, CopyStaged, Replace, Installs, MoveAside, PutNew, RollBack,
          Unstage, Dies, Goes, Ends, Load, Save, install, locking, staging, notes, process
    <2>1. QED  BY <1>1, <1>2, <1>3, <1>4, <1>5

LEMMA StepTypes ==
  ASSUME UpdaterTypeOK, NEW p \in Updaters, UpdaterStep(p)
  PROVE step' \in [Updaters -> UpdaterSteps]
  <1> USE DEF UpdaterStep, StartUpdate, Starts, AcquireLock, RemoveStaleLock, RetryLock, ReleaseLock,
          TakeLock, LockIsStale, Peek, SavePeek, Throttle, CheckLatest, LoadRecord, SaveChecked,
          SaveError, SaveUpdated, CleanupOld, OpenPartial, ReceiveBinary, Written, Checksum,
          StageBinary, Verify, CopyStaged, Replace, Installs, MoveAside, PutNew, RollBack,
          Unstage, Dies, Goes, Ends, Load, Save, install, locking, staging, notes, process
  <1>1. step' = [step EXCEPT ![p] = step'[p]]
    BY DEF UpdaterTypeOK
  <1>2. step'[p] \in UpdaterSteps
    BY DEF UpdaterTypeOK, UpdaterSteps, Inside
  <1>3. QED  BY <1>1, <1>2 DEF UpdaterTypeOK

LEMMA UpdaterTypes ==
  ASSUME UpdaterTypeOK, NEW p \in Updaters, UpdaterStep(p)
  PROVE UpdaterTypeOK'
  <1> USE DEF UpdaterStep, StartUpdate, Starts, AcquireLock, RemoveStaleLock, RetryLock, ReleaseLock,
          TakeLock, LockIsStale, Peek, SavePeek, Throttle, CheckLatest, LoadRecord, SaveChecked,
          SaveError, SaveUpdated, CleanupOld, OpenPartial, ReceiveBinary, Written, Checksum,
          StageBinary, Verify, CopyStaged, Replace, Installs, MoveAside, PutNew, RollBack,
          Unstage, Dies, Goes, Ends, Load, Save, install, locking, staging, notes, process
  <1>1. (windows \in BOOLEAN /\ lockStale \in BOOLEAN /\ aged \in BOOLEAN /\ overlapped \in BOOLEAN)'
    BY DEF UpdaterTypeOK
  <1>2. (stranded \in BOOLEAN /\ clobbered \in BOOLEAN)'
    BY DEF UpdaterTypeOK
  <1>3. (released \in 1..Newest /\ unannounced \in 0..Newest)'
    BY DEF UpdaterTypeOK
  <1>4. (best \in 1..Newest)'
    BY UpdaterAssumption DEF UpdaterTypeOK, FileType, Content, NoContent, Truncated
  <1>5. (binary \in Content)'
    BY UpdaterAssumption DEF UpdaterTypeOK, FileType, Content, NoContent, Truncated
  <1>6. (fresh \in Content /\ old \in Content)'
    BY UpdaterAssumption DEF UpdaterTypeOK, FileType, Content, NoContent, Truncated
  <1>7. (lock \in Updaters \cup {Nobody})'
    BY DEF UpdaterTypeOK
  <1>8. (partial \in FileType /\ stagedFile \in FileType)'
    BY UpdaterAssumption DEF UpdaterTypeOK, FileType, NoFile, Content, NoContent, Truncated
  <1>9. (image \in [Updaters -> 0..Newest])'
    BY UpdaterAssumption DEF UpdaterTypeOK, Content, Truncated
  <1>10. (goal \in [Updaters -> 0..Newest])'
    BY UpdaterAssumption DEF UpdaterTypeOK
  <1>11. (background \in [Updaters -> BOOLEAN])'
    BY DEF UpdaterTypeOK
  <1>12. (copied \in [Updaters -> Content])'
    BY UpdaterAssumption DEF UpdaterTypeOK, FileType, Content, NoContent, Truncated
  <1>13. (hookStep \in [Commands -> {"closed", "idle", "save", "spawn"}])'
    BY DEF UpdaterTypeOK
  <1>14. (behind \subseteq Updaters \cup Commands)'
    BY DEF UpdaterTypeOK, Holding
  <1>15. QED
    BY <1>1, <1>2, <1>3, <1>4, <1>5, <1>6, <1>7, <1>8, <1>9, <1>10, <1>11, <1>12, <1>13, <1>14,
       RecordTypes, StepTypes DEF UpdaterTypeOK

LEMMA HookTypes ==
  ASSUME UpdaterTypeOK, NEW h \in Commands, HookSteps(h)
  PROVE UpdaterTypeOK'
  <1> USE UpdaterAssumption
      DEF HookSteps, ShowNotices, SaveNotices, SpawnBackground, CleanupOld, Starts, Goes, HookGoes,
          install, locking, staging, process
  <1>1. (/\ windows \in BOOLEAN /\ lockStale \in BOOLEAN /\ aged \in BOOLEAN /\ overlapped \in BOOLEAN
         /\ stranded \in BOOLEAN /\ clobbered \in BOOLEAN)'
    BY DEF UpdaterTypeOK
  <1>2. (/\ released \in 1..Newest /\ best \in 1..Newest /\ unannounced \in 0..Newest
         /\ binary \in Content /\ fresh \in Content /\ old \in Content)'
    BY DEF UpdaterTypeOK, Content, NoContent, Truncated
  <1>3. (lock \in Updaters \cup {Nobody} /\ partial \in FileType /\ stagedFile \in FileType)'
    BY DEF UpdaterTypeOK
  <1>4. (record \in RecordType)'
    BY DEF UpdaterTypeOK
  <1>5. (mem \in [Updaters \cup Commands -> RecordType])'
    <2> HIDE DEF ShowNotices, SaveNotices, SpawnBackground
    <2>1. record \in RecordType /\ 0 \in 0..Newest
      BY DEF UpdaterTypeOK
    <2>2. CASE ShowNotices(h)
      BY <2>1, <2>2, RecordEdits DEF UpdaterTypeOK, ShowNotices
    <2>3. CASE SaveNotices(h)
      BY <2>3 DEF UpdaterTypeOK, SaveNotices
    <2>4. CASE SpawnBackground(h)
      BY <2>1, <2>4, RecordEdits DEF UpdaterTypeOK, SpawnBackground
    <2>5. QED  BY <2>2, <2>3, <2>4
  <1>6. (step \in [Updaters -> UpdaterSteps])'
    BY DEF UpdaterTypeOK, UpdaterSteps
  <1>7. (image \in [Updaters -> 0..Newest])'
    BY DEF UpdaterTypeOK, Content, Truncated
  <1>8. (goal \in [Updaters -> 0..Newest] /\ background \in [Updaters -> BOOLEAN]
         /\ copied \in [Updaters -> Content])'
    BY DEF UpdaterTypeOK
  <1>9. (hookStep \in [Commands -> {"closed", "idle", "save", "spawn"}])'
    BY DEF UpdaterTypeOK
  <1>10. (behind \subseteq Updaters \cup Commands)'
    BY DEF UpdaterTypeOK, Holding
  <1>11. QED
    BY <1>1, <1>2, <1>3, <1>4, <1>5, <1>6, <1>7, <1>8, <1>9, <1>10 DEF UpdaterTypeOK

----------------------------------------------------------------------------
(* The steps of an update process.                                         *)
LEMMA FlightStep ==
  ASSUME UpdaterInv, NEW p \in Updaters, UpdaterStep(p) PROVE Flight'
  <1> USE DEF UpdaterStep, StartUpdate, Starts, AcquireLock, RemoveStaleLock, RetryLock, ReleaseLock,
          TakeLock, LockIsStale, Peek, SavePeek, Throttle, CheckLatest, LoadRecord, SaveChecked,
          SaveError, SaveUpdated, CleanupOld, OpenPartial, ReceiveBinary, Written, Checksum,
          StageBinary, Verify, CopyStaged, Replace, Installs, MoveAside, PutNew, RollBack,
          Unstage, Dies, Goes, Ends, Load, Save, install, locking, staging, notes, process
  <1> USE UpdaterAssumption DEF UpdaterInv, UpdaterTypeOK
  <1>1. \A q \in Updaters \ {p} : step'[q] = step[q]
    <2> HIDE DEF UpdaterStep
    <2> QED  BY OthersStay
  <1>2. (aged => aged') /\ (overlapped => overlapped')
    OBVIOUS
  <1>3. (overlapped => aged)'
    BY <1>1 DEF Flight
  <1>4. (lockStale => aged)'
    BY <1>1 DEF Flight
  <1>5. step'[p] = "reclaim" => aged'
    <2>1. CASE AcquireLock(p)
      <3> HIDE DEF UpdaterStep
      <3> QED  BY <2>1 DEF Flight
    <2>2. CASE ~AcquireLock(p)
      <3>1. step'[p] # "reclaim"
        BY <2>2
      <3>2. QED  BY <3>1
    <2>3. QED  BY <2>1, <2>2
  <1>6. step'[p] \in Inside => lock' = p \/ aged'
    <2>1. CASE step[p] \in Inside
      <3>1. (lock = p \/ aged) /\ lock \in Updaters \cup {Nobody} /\ p # Nobody
        BY <2>1 DEF Flight
      <3>2. step'[p] \notin Inside \/ lock' = lock
        BY <2>1 DEF Inside
      <3>3. QED  BY <1>2, <3>1, <3>2
    <2>2. CASE step[p] \notin Inside
      <3>1. step'[p] \notin Inside \/ lock' = p
        BY <2>2 DEF Inside
      <3>2. QED  BY <3>1
    <2>3. QED  BY <2>1, <2>2
  <1>7. ASSUME NEW q \in Updaters, q # p, step[q] \in Inside, ~aged' PROVE lock' = q
    BY <1>7, <1>2 DEF Flight, Inside
  <1>8. ASSUME NEW q \in Updaters, q # p, step[q] \in Inside, step'[p] \in Inside PROVE overlapped'
    <2>1. CASE step[p] \in Inside
      <3>1. overlapped
        <4> HIDE DEF UpdaterStep
        <4> QED  BY <1>8, <2>1 DEF Flight
      <3>2. QED  BY <1>2, <3>1
    <2>2. CASE step[p] \notin Inside
      <3>1. step'[p] = "throttle"
        BY <1>8, <2>2 DEF Inside
      <3>2. overlapped' = (overlapped \/ \E r \in Updaters \ {p} : step[r] \in Inside)
        BY <2>2, <3>1 DEF Inside
      <3>3. QED  BY <1>8, <3>2
    <2>3. QED  BY <2>1, <2>2
  <1>9. QED
    BY <1>1, <1>2, <1>3, <1>4, <1>5, <1>6, <1>7, <1>8 DEF Flight

LEMMA FilesStep ==
  ASSUME UpdaterInv, NEW p \in Updaters, UpdaterStep(p) PROVE Files'
  <1> USE DEF UpdaterStep, StartUpdate, Starts, AcquireLock, RemoveStaleLock, RetryLock, ReleaseLock,
          TakeLock, LockIsStale, Peek, SavePeek, Throttle, CheckLatest, LoadRecord, SaveChecked,
          SaveError, SaveUpdated, CleanupOld, OpenPartial, ReceiveBinary, Written, Checksum,
          StageBinary, Verify, CopyStaged, Replace, Installs, MoveAside, PutNew, RollBack,
          Unstage, Dies, Goes, Ends, Load, Save, install, locking, staging, notes, process
  <1> USE UpdaterAssumption
      DEF UpdaterInv, UpdaterTypeOK, FileType, Content, NoFile, NoContent, Truncated
  <1>1. (partial # NoFile => partial.holds # NoContent)'
    <2>1. CASE ReceiveBinary(p)
      <3> HIDE DEF UpdaterStep
      <3> QED  BY <2>1 DEF Carries, Files
    <2>2. CASE ~ReceiveBinary(p)
      <3>1. \/ partial' = partial \/ partial' = NoFile
            \/ partial' = [by |-> p, holds |-> Truncated]
        <4> HIDE DEF UpdaterInv
        <4> QED  BY <2>2
      <3> HIDE DEF UpdaterStep
      <3>2. QED  BY <3>1 DEF Files
    <2>3. QED  BY <2>1, <2>2
  <1>2. (stagedFile # NoFile => stagedFile.holds # NoContent)'
    BY DEF Carries, Files
  <1>3. (binary = NoContent => windows)'
    BY DEF Carries, Files
  <1>4. ASSUME binary' = NoContent, ~stranded'
        PROVE  \E q \in Updaters : step'[q] \in {"put", "rollback"}
    <2>1. ~stranded
      BY <1>4
    <2>2. CASE binary # NoContent
      <3>1. step'[p] \in {"put", "rollback"}
        BY <1>4, <2>2 DEF Carries, Files
      <3>2. QED  BY <3>1
    <2>3. CASE binary = NoContent
      <3>1. PICK q \in Updaters : step[q] \in {"put", "rollback"}
        BY <2>1, <2>3 DEF Files
      <3>2. CASE q # p
        <4>1. step'[q] = step[q]
          <5> HIDE DEF UpdaterStep
          <5> QED  BY <3>2, OthersStay
        <4>2. QED  BY <3>1, <4>1
      <3>3. CASE q = p
        <4>1. step'[p] \in {"put", "rollback"}
          BY <1>4, <2>1, <2>3, <3>1, <3>3
        <4>2. QED  BY <4>1
      <3>4. QED  BY <3>2, <3>3
    <2>4. QED  BY <2>2, <2>3
  <1>5. QED  BY <1>1, <1>2, <1>3, <1>4 DEF Files

LEMMA CarriesStep ==
  ASSUME UpdaterInv, NEW p \in Updaters, UpdaterStep(p), NEW q \in Updaters PROVE Carries(q)'
  <1> USE DEF UpdaterStep, StartUpdate, Starts, AcquireLock, RemoveStaleLock, RetryLock, ReleaseLock,
          TakeLock, LockIsStale, Peek, SavePeek, Throttle, CheckLatest, LoadRecord, SaveChecked,
          SaveError, SaveUpdated, CleanupOld, OpenPartial, ReceiveBinary, Written, Checksum,
          StageBinary, Verify, CopyStaged, Replace, Installs, MoveAside, PutNew, RollBack,
          Unstage, Dies, Goes, Ends, Load, Save, install, locking, staging, notes, process
  <1> USE UpdaterAssumption DEF UpdaterInv, UpdaterTypeOK, NoContent
  <1>1. windows' = windows /\ released' = released
    OBVIOUS
  <1>2. CASE q # p
    <2> HIDE DEF UpdaterStep
    <2>1. QED  BY <1>1, <1>2, OthersStay DEF Carries
  <1>3. CASE q = p
    <2>1. (goal[p] <= released)'
      BY DEF Carries
    <2>2. (step[p] \in {"download", "downloading"} => goal[p] > 0)'
      BY DEF Carries
    <2>3. (copied[p] # NoContent => step[p] \in {"replace", "put", "rollback"})'
      BY DEF Carries
    <2>4. (step[p] = "replace" => copied[p] # NoContent)'
      BY DEF Carries, Files, NoFile
    <2>5. (step[p] = "replace" => ~windows)'
      BY DEF Carries
    <2>6. (step[p] \in {"aside", "put", "rollback"} => windows)'
      BY DEF Carries
    <2>7. QED  BY <1>3, <2>1, <2>2, <2>3, <2>4, <2>5, <2>6 DEF Carries
  <1>4. QED  BY <1>2, <1>3

(* What a process that is alone inside does to what it will find.          *)
LEMMA FindsStep ==
  ASSUME UpdaterTypeOK, NEW p \in Updaters, UpdaterStep(p), Carries(p), Alone PROVE Finds(p)'
  <1> USE DEF UpdaterStep, StartUpdate, Starts, AcquireLock, RemoveStaleLock, RetryLock, ReleaseLock,
          TakeLock, LockIsStale, Peek, SavePeek, Throttle, CheckLatest, LoadRecord, SaveChecked,
          SaveError, SaveUpdated, CleanupOld, OpenPartial, ReceiveBinary, Written, Checksum,
          StageBinary, Verify, CopyStaged, Replace, Installs, MoveAside, PutNew, RollBack,
          Unstage, Dies, Goes, Ends, Load, Save, install, locking, staging, notes, process
  <1> USE UpdaterAssumption DEF UpdaterTypeOK, NoContent, Content, Truncated
  <1>0. Finds(p)
    BY DEF Alone
  <1>1. (step[p] \in Past => goal[p] >= best)'
    <2>1. CASE CheckLatest(p)
      <3> HIDE DEF UpdaterStep
      <3>1. \/ goal' = [goal EXCEPT ![p] = released]
            \/ step'[p] = "err_load"
        BY <2>1
      <3>2. best' = best /\ best <= released
        BY <2>1 DEF Alone
      <3>3. goal'[p] = released \/ step'[p] \notin Past
        BY <3>1 DEF Past
      <3>4. QED  BY <3>2, <3>3
    <2>2. CASE Replace(p) \/ PutNew(p)
      BY <1>0, <2>2 DEF Replace, PutNew, Installs, Goes, Past, Inside, Finds
    <2>3. CASE ~(CheckLatest(p) \/ Replace(p) \/ PutNew(p))
      <3> SUFFICES ASSUME step'[p] \in Past PROVE goal'[p] >= best'
        OBVIOUS
      <3>1. step[p] \in Past
        BY <2>3 DEF Past, Inside
      <3>2. goal'[p] = goal[p] /\ best' = best
        BY <2>3 DEF Past, Inside
      <3>3. QED  BY <1>0, <3>1, <3>2 DEF Finds
    <2>4. QED  BY <2>1, <2>2, <2>3
  <1>2. (step[p] = "copy" => stagedFile.holds = goal[p])'
    BY <1>0 DEF Finds
  <1>3. (step[p] = "replace" => copied[p] = goal[p])'
    BY <1>0 DEF Finds
  <1>4. (step[p] \in {"aside", "put"} => fresh = goal[p])'
    BY <1>0 DEF Finds
  <1>5. (step[p] \in {"put", "rollback"} /\ copied[p] # NoContent => old = NoContent \/ old >= best)'
    BY <1>0 DEF Finds, Alone, Carries
  <1>6. QED  BY <1>1, <1>2, <1>3, <1>4, <1>5 DEF Finds

(* Nobody else inside means that nobody else wrote there.                  *)
LEMMA AloneStep ==
  ASSUME UpdaterInv, NEW p \in Updaters, UpdaterStep(p), ~overlapped' PROVE Alone'
  <1> USE DEF UpdaterStep, StartUpdate, Starts, AcquireLock, RemoveStaleLock, RetryLock, ReleaseLock,
          TakeLock, LockIsStale, Peek, SavePeek, Throttle, CheckLatest, LoadRecord, SaveChecked,
          SaveError, SaveUpdated, CleanupOld, OpenPartial, ReceiveBinary, Written, Checksum,
          StageBinary, Verify, CopyStaged, Replace, Installs, MoveAside, PutNew, RollBack,
          Unstage, Dies, Goes, Ends, Load, Save, install, locking, staging, notes, process
  <1> USE UpdaterAssumption DEF UpdaterTypeOK, NoContent, Content, Truncated
  <1>1. ~overlapped
    OBVIOUS
  <1>2. UpdaterTypeOK /\ Flight /\ Carries(p) /\ Alone /\ Finds(p)
    BY <1>1 DEF UpdaterInv, Alone
  <1>3. (binary = NoContent \/ binary >= best)'
    <2>1. CASE Replace(p)
      BY <1>2, <2>1 DEF Replace, Installs, Finds, Alone, Past, Inside
    <2>2. CASE PutNew(p)
      BY <1>2, <2>2 DEF PutNew, Installs, Finds, Alone, Past, Inside
    <2>3. CASE RollBack(p) \/ MoveAside(p)
      BY <1>2, <2>3 DEF RollBack, MoveAside, Finds, Alone
    <2>4. CASE ~(Replace(p) \/ PutNew(p) \/ RollBack(p) \/ MoveAside(p))
      BY <1>2, <2>4 DEF Alone
    <2>5. QED  BY <2>1, <2>2, <2>3, <2>4
  <1>4. (best <= released)'
    BY <1>2 DEF Finds, Carries, Alone
  <1>5. Finds(p)'
    BY <1>2, FindsStep
  <1>6. ASSUME NEW q \in Updaters, q # p PROVE Finds(q)'
    <2>1. Finds(q)
      BY <1>2 DEF Alone
    <2>2. step'[q] = step[q] /\ goal'[q] = goal[q] /\ copied'[q] = copied[q]
      BY <1>2, <1>6, OthersStay
    <2>3. CASE step[q] \notin Inside
      BY <2>2, <2>3 DEF Finds, Inside, Past
    <2>4. CASE step[q] \in Inside
      <3>1. step[p] \notin Inside
        BY <1>1, <1>2, <1>6, <2>4 DEF Flight
      <3>2. UNCHANGED <<binary, fresh, old, best, partial, stagedFile>>
        BY <1>2, <3>1, OutsideQuiet
      <3>3. QED  BY <2>1, <2>2, <3>2 DEF Finds
    <2>5. QED  BY <2>3, <2>4
  <1>7. QED  BY <1>3, <1>4, <1>5, <1>6 DEF Alone

(* Who saves the record it loaded keeps the news that are in it.           *)
LEMMA OldNewsKept ==
  ASSUME UpdaterInv, NEW p \in Updaters, SavePeek(p) \/ SaveChecked(p) \/ SaveError(p)
  PROVE  UpdateAnnounced'
  <1>1. UpdateAnnounced /\ Remembers /\ mem[p] \in RecordType
    BY DEF UpdaterInv, UpdaterTypeOK
  <1>2. p \notin behind => mem[p].updatedTo = record.updatedTo
    BY <1>1 DEF Remembers, SavePeek, SaveChecked, SaveError
  <1>3. /\ unannounced' = unannounced
        /\ \/ record' = record /\ clobbered' = clobbered
           \/ record'.updatedTo = mem[p].updatedTo /\ clobbered' = (clobbered \/ p \in behind)
    <2>1. CASE SavePeek(p)
      BY <1>1, <2>1 DEF SavePeek, Save, RecordType
    <2>2. CASE SaveChecked(p)
      BY <1>1, <2>2 DEF SaveChecked, Save, RecordType
    <2>3. CASE SaveError(p)
      BY <1>1, <2>3 DEF SaveError, Save, RecordType
    <2>4. QED  BY <2>1, <2>2, <2>3
  <1>4. QED  BY <1>1, <1>2, <1>3 DEF UpdateAnnounced

LEMMA RemembersStep ==
  ASSUME UpdaterInv, NEW p \in Updaters, UpdaterStep(p) PROVE UpdateAnnounced' /\ Remembers'
  <1> USE DEF UpdaterStep, StartUpdate, Starts, AcquireLock, RemoveStaleLock, RetryLock, ReleaseLock,
          TakeLock, LockIsStale, Peek, SavePeek, Throttle, CheckLatest, LoadRecord, SaveChecked,
          SaveError, SaveUpdated, CleanupOld, OpenPartial, ReceiveBinary, Written, Checksum,
          StageBinary, Verify, CopyStaged, Replace, Installs, MoveAside, PutNew, RollBack,
          Unstage, Dies, Goes, Ends, Load, Save, install, locking, staging, notes, process
  <1> USE UpdaterAssumption DEF UpdaterInv, UpdaterTypeOK, RecordType
  <1>1. UpdateAnnounced'
    <2>1. CASE SavePeek(p) \/ SaveChecked(p) \/ SaveError(p)
      BY <2>1, OldNewsKept
    <2>2. CASE SaveUpdated(p)
      BY <2>2 DEF UpdateAnnounced, SaveUpdated, Save
    <2>3. CASE ~(SavePeek(p) \/ SaveChecked(p) \/ SaveError(p) \/ SaveUpdated(p))
      <3>1. UNCHANGED <<record, unannounced, clobbered>>
        BY <2>3
      <3>2. QED  BY <3>1 DEF UpdateAnnounced
    <2>4. QED  BY <2>1, <2>2, <2>3
  <1>2. (step[p] \in {"peeked", "seen_save", "won_save", "err_save"} /\ p \notin behind
           => mem[p].updatedTo = record.updatedTo)'
    <2>1. CASE Peek(p) \/ LoadRecord(p)
      <3> HIDE DEF UpdaterStep
      <3> QED  BY <2>1
    <2>2. CASE ~(Peek(p) \/ LoadRecord(p))
      <3>1. step'[p] \notin {"peeked", "seen_save", "won_save", "err_save"}
        BY <2>2
      <3>2. QED  BY <3>1
    <2>3. QED  BY <2>1, <2>2
  <1>3. ASSUME NEW q \in Updaters, q # p
        PROVE  (step[q] \in {"peeked", "seen_save", "won_save", "err_save"} /\ q \notin behind
                  => mem[q].updatedTo = record.updatedTo)'
    <2>1. step'[q] = step[q]
      <3> HIDE DEF UpdaterStep
      <3> QED  BY <1>3, OthersStay
    <2>2. QED  BY <1>3, <2>1 DEF Remembers, Holding
  <1>4. hookStep' = hookStep
    OBVIOUS
  <1>5. ASSUME NEW h \in Commands
        PROVE  (hookStep[h] = "save" /\ h \notin behind => unannounced = 0 \/ clobbered)'
    <2>1. CASE h \in behind \/ hookStep[h] # "save"
      BY <1>4, <2>1 DEF Remembers, Holding
    <2>2. CASE h \notin behind /\ hookStep[h] = "save"
      BY <1>4, <2>2 DEF Remembers, Holding
    <2>3. QED  BY <2>1, <2>2
  <1>6. QED  BY <1>1, <1>2, <1>3, <1>5 DEF Remembers

LEMMA UpdaterStepKeeps ==
  ASSUME UpdaterInv, NEW p \in Updaters, UpdaterStep(p) PROVE UpdaterInv'
  <1>1. UpdaterTypeOK'
    BY UpdaterTypes DEF UpdaterInv
  <1>2. \A q \in Updaters : Carries(q)'
    BY CarriesStep
  <1>3. QED
    BY <1>1, <1>2, FlightStep, FilesStep, AloneStep, RemembersStep DEF UpdaterInv

----------------------------------------------------------------------------
(* The shells and the world.                                               *)
LEMMA HookStepKeeps ==
  ASSUME UpdaterInv, NEW h \in Commands, HookSteps(h) PROVE UpdaterInv'
  <1> USE UpdaterAssumption
  <1>1. UpdaterTypeOK /\ UpdaterTypeOK'
    BY HookTypes DEF UpdaterInv
  <1>2. /\ UNCHANGED <<windows, released, binary, fresh, best, stranded, locking, staging,
                       goal, copied>>
        /\ old' \in {old, NoContent}
        /\ \A p \in Updaters : \/ step'[p] = step[p]
                               \/ step[p] = "idle" /\ step'[p] \in {"lock"}
    BY <1>1, HookQuiet
  <1>3. Flight'
    BY <1>2 DEF UpdaterInv, Flight, Inside, locking
  <1>4. Files'
    BY <1>2 DEF UpdaterInv, Files, staging
  <1>5. \A p \in Updaters : Carries(p)'
    BY <1>2 DEF UpdaterInv, Carries
  <1>6. overlapped' \/ Alone'
    BY <1>2 DEF UpdaterInv, Alone, Finds, Past, Inside, staging, locking
  <1>7. UpdateAnnounced'
    BY <1>1 DEF UpdaterInv, UpdaterTypeOK, RecordType, UpdateAnnounced, Remembers, HookSteps,
                ShowNotices, SaveNotices, SpawnBackground
  <1>8. Remembers'
    <2> USE DEF UpdaterInv, UpdaterTypeOK, RecordType, HookSteps, ShowNotices, SaveNotices,
                SpawnBackground, HookGoes, Holding
    <2>1. ASSUME NEW p \in Updaters,
                 step'[p] \in {"peeked", "seen_save", "won_save", "err_save"}, p \notin behind'
          PROVE  mem'[p].updatedTo = record'.updatedTo
      <3>1. step[p] = step'[p]
        BY <1>2, <2>1
      <3>2. CASE SaveNotices(h)
        BY <1>1, <2>1, <3>1, <3>2
      <3>3. CASE ShowNotices(h) \/ SpawnBackground(h)
        <4>1. record' = record /\ p # h
          <5>1. p # h
            BY UpdaterAssumption
          <5>2. record' = record
            BY <3>3 DEF ShowNotices, SpawnBackground
          <5>3. QED  BY <5>1, <5>2
        <4>2. mem'[p] = mem[p]
          BY <1>1, <3>3, <4>1
        <4>3. p \notin behind
          BY <2>1, <3>3, <4>1
        <4>4. QED  BY <2>1, <3>1, <4>1, <4>2, <4>3 DEF Remembers
      <3>4. QED  BY <3>2, <3>3
    <2>2. ASSUME NEW g \in Commands, hookStep'[g] = "save", g \notin behind'
          PROVE  unannounced' = 0 \/ clobbered'
      BY <1>1, <2>2 DEF UpdateAnnounced, Remembers
    <2>3. QED  BY <2>1, <2>2 DEF Remembers
  <1>9. QED
    BY <1>1, <1>3, <1>4, <1>5, <1>6, <1>7, <1>8 DEF UpdaterInv

LEMMA WorldStepKeeps ==
  ASSUME UpdaterInv, Release \/ LockAges \/ WindowPasses \/ UNCHANGED updaterVars PROVE UpdaterInv'
  <1> USE UpdaterAssumption
  <1>1. UNCHANGED <<windows, install, lock, overlapped, staging, behind, unannounced, clobbered, step,
                    process, hookStep>>
    BY DEF Release, LockAges, WindowPasses, updaterVars, install, locking, staging, notes, process
  <1>2. (aged => aged') /\ (lockStale' => lockStale \/ aged')
    BY DEF Release, LockAges, WindowPasses, updaterVars, locking
  <1>3. released' \in 1..Newest /\ released <= released'
    BY DEF UpdaterInv, UpdaterTypeOK, Release, LockAges, WindowPasses, updaterVars
  <1>4. /\ record' \in RecordType /\ record'.updatedTo = record.updatedTo
        /\ mem' \in [Updaters \cup Commands -> RecordType]
        /\ \A x \in Updaters \cup Commands : mem'[x].updatedTo = mem[x].updatedTo
    <2>1. CASE Release \/ LockAges \/ UNCHANGED updaterVars
      BY <2>1 DEF UpdaterInv, UpdaterTypeOK, Release, LockAges, updaterVars, notes
    <2>2. CASE WindowPasses
      BY <2>2, RecordEdits DEF UpdaterInv, UpdaterTypeOK, WindowPasses
    <2>3. QED  BY <2>1, <2>2
  <1>5. UpdaterTypeOK'
    <2>1. lockStale' \in BOOLEAN /\ aged' \in BOOLEAN
      BY DEF UpdaterInv, UpdaterTypeOK, Release, LockAges, WindowPasses, updaterVars, locking
    <2>2. QED
      BY <1>1, <1>3, <1>4, <2>1 DEF UpdaterInv, UpdaterTypeOK, install, staging, process
  <1>6. Flight'
    BY <1>1, <1>2 DEF UpdaterInv, Flight
  <1>7. Files'
    BY <1>1 DEF UpdaterInv, Files, install, staging
  <1>8. \A p \in Updaters : Carries(p)'
    BY <1>1, <1>3 DEF UpdaterInv, UpdaterTypeOK, Carries, process
  <1>9. overlapped' \/ Alone'
    BY <1>1, <1>3 DEF UpdaterInv, UpdaterTypeOK, Alone, Finds, install, staging, process
  <1>10. UpdateAnnounced' /\ Remembers'
    BY <1>1, <1>4 DEF UpdaterInv, UpdateAnnounced, Remembers
  <1>11. QED
    BY <1>5, <1>6, <1>7, <1>8, <1>9, <1>10 DEF UpdaterInv

(* The updater's inductive invariant (updater.py).                         *)
THEOREM UpdaterHolds == UpdaterSpec => []UpdaterInv
  <1>1. UpdaterInv /\ [UpdaterNext]_updaterVars => UpdaterInv'
    <2> SUFFICES ASSUME UpdaterInv, [UpdaterNext]_updaterVars PROVE UpdaterInv'
      OBVIOUS
    <2>1. CASE Release \/ LockAges \/ WindowPasses \/ UNCHANGED updaterVars
      BY <2>1, WorldStepKeeps
    <2>2. ASSUME NEW p \in Updaters, UpdaterStep(p) PROVE UpdaterInv'
      BY <2>2, UpdaterStepKeeps
    <2>3. ASSUME NEW h \in Commands, HookSteps(h) PROVE UpdaterInv'
      BY <2>3, HookStepKeeps
    <2>4. QED  BY <2>1, <2>2, <2>3 DEF UpdaterNext
  <1>2. QED  BY UpdaterInvInit, <1>1, PTL DEF UpdaterSpec

(* However many updates and shells there are and whoever dies when: the    *)
(* install path holds a whole binary except within a swap by renames, the  *)
(* installed version never goes back, two updates are under way at once    *)
(* only over a lock that grew old, and the next command announces what was *)
(* installed (updater.py).                                                 *)
THEOREM UpdaterIsSound == UpdaterSpec => []UpdaterSound
  <1> USE UpdaterAssumption
  <1>1. UpdaterInv => TargetUsable
    BY DEF UpdaterInv, UpdaterTypeOK, Content, NoContent, Truncated, Files, Alone, TargetUsable
  <1>2. UpdaterInv => SingleFlight
    BY DEF UpdaterInv, Flight, SingleFlight
  <1>3. UpdaterInv => NeverOlder
    BY DEF UpdaterInv, Alone, NeverOlder
  <1>4. UpdaterInv => UpdaterSound
    BY <1>1, <1>2, <1>3 DEF UpdaterInv, UpdaterSound
  <1>5. QED  BY UpdaterHolds, <1>4, PTL

-----------------------------------------------------------------------------
(***************************************************************************)
(* The package store.                                                      *)
(***************************************************************************)

(***************************************************************************)
(* What is left to do for a command: to move the old package away and to   *)
(* place the new one, to place one, to remove one, to give one the plain   *)
(* name (TakesPlainName).                                                  *)
(***************************************************************************)
Detaching(prior) ==
  <<Deletion(Detached(prior)), Copying(Plain, Detached(prior)), Deletion(Plain), Copying(Unpacked, Plain)>>
SettingAside(prior) == <<Copying(Plain, Detached(prior)), Deletion(Plain), Copying(Unpacked, Plain)>>
Clearing(d) == <<Deletion(d), Copying(Unpacked, d)>>
Unpacking(d) == <<Copying(Unpacked, d)>>
Dropping(d) == <<Deletion(d)>>

Swaps(t, prior) == cmd[t].todo = Detaching(prior) \/ cmd[t].todo = SettingAside(prior)
Fills(t, d) == cmd[t].dst = d /\ (cmd[t].todo = Clearing(d) \/ cmd[t].todo = Unpacking(d))
Drops(t, d) == cmd[t].todo = Dropping(d)
Renames(t, d) == cmd[t].todo = TakesPlainName(d)

Does(t, op, at) == cmd[t].op = op /\ cmd[t].at = at
Installing(t) == Does(t, "install", "work")

Shape(t) ==
  \/ ~HasWork(t)
  \/ Installing(t) /\ cmd[t].dst = Plain /\ \E prior \in Packages : Swaps(t, prior)
  \/ Installing(t) /\ \E d \in Dirs : Fills(t, d)
  \/ Does(t, "uninstall", "work") /\ \E d \in Dirs : Drops(t, d)
  \/ Does(t, "uninstall", "tidy") /\ \E d \in Dirs \ {Plain} : Drops(t, d) \/ Renames(t, d)

Tasks == [act : {"remove", "copy"}, from : Dirs \cup {Unpacked}, to : Dirs]
CommandRecords ==
  [at : {"idle", "closed", "look", "fetch", "place", "work", "fix", "tidy"},
   op : {"install", "uninstall"}, want : Requests \cup {Nothing}, mirror : Nat,
   pkg : Packages \cup {Nothing}, dst : Dirs \cup {Nothing}, todo : Seq(Tasks),
   left : SUBSET Parts, open : Parts \cup {Nothing}]

Begins(t) == cmd[t].left = {} /\ cmd[t].open = Nothing

(* What each terminal's command knows at each of its steps.                *)
CommandOK(t) ==
  /\ cmd[t].at \in {"idle", "closed"} => cmd[t] \in {Resting, Closed}
  /\ cmd[t].at \in {"look", "fetch", "place"} \/ Installing(t) => cmd[t].want \in Requests
  /\ cmd[t].at \in {"fetch", "place"} => cmd[t].op = "install"
  /\ cmd[t].at \in {"fix", "tidy"} => cmd[t].op = "uninstall"
  /\ cmd[t].at = "place" => cmd[t].pkg \in Packages /\ Fits(cmd[t].pkg, cmd[t].want)
  /\ Installing(t) => cmd[t].pkg \in placed /\ cmd[t].dst \in {Plain, Detached(cmd[t].pkg)}
  /\ cmd[t].at \notin {"work", "tidy"} => ~HasWork(t)
  /\ cmd[t].open \notin cmd[t].left
  /\ (HasWork(t) => Task(t).act = "remove") => Begins(t)
  /\ cmd[t].op = "uninstall" /\ cmd[t].at \in {"work", "fix", "tidy"} => removed # {}
  /\ Shape(t)

Active(t) == cmd[t] \notin {Resting, Closed}

(* Two commands run at the same time only where crowded says so.           *)
OneAtWork == ~crowded => \A t, u \in Terminals : Active(t) /\ Active(u) => t = u

Ran ==
  /\ shelf \in [Dirs -> {NoDir} \cup Contents]
  /\ cmd \in [Terminals -> CommandRecords] /\ \A t \in Terminals : CommandOK(t)
  /\ owed \subseteq placed /\ placed \subseteq Packages
  /\ cut \in {"no", "yes", "resumed"} /\ crowded \in BOOLEAN
  /\ OneAtWork

(***************************************************************************)
(* Commands that install one package, at the same time even: its parts are *)
(* under the plain name or to come there.                                  *)
(***************************************************************************)
EachPart(g) ==
  /\ shelf[Plain] # NoDir
  /\ shelf[Plain].meta = g \/ \E t \in Terminals : "meta" \in cmd[t].left \/ cmd[t].open = "meta"
  /\ \/ shelf[Plain].of = {g} /\ shelf[Plain].whole
     \/ \E t \in Terminals : "files" \in cmd[t].left \/ (cmd[t].open = "files" /\ shelf[Plain].of = {g})

ToCome == \E t \in Terminals : HasWork(t) /\ Begins(t)

Alike(g) ==
  /\ shelf[Plain] # NoDir => shelf[Plain].meta \in {g, Nothing, Torn} /\ shelf[Plain].of \subseteq {g}
  /\ \A t \in Terminals : HasWork(t) => Fills(t, Plain)
  /\ placed = {g} => ToCome \/ EachPart(g)

Twins == cut = "no" /\ removed = {} => \A g \in Packages : placed \subseteq {g} => Alike(g)

(***************************************************************************)
(* One command at a time, until one works on what another left unfinished. *)
(***************************************************************************)
InHand(t, d) == HasWork(t) /\ Task(t).to = d

(* The parts that a copy did not come to, the one it is at, and the rest.  *)
CopyGoes(t) ==
  LET a == shelf[Task(t).to]
      s == Source(t)
  IN  IF Begins(t) THEN a = NoDir
      ELSE /\ a # NoDir /\ s # NoDir /\ s # Empty
           /\ IF "meta" \in cmd[t].left THEN a.meta = Nothing /\ s.meta # Nothing
              ELSE a.meta = IF cmd[t].open = "meta" THEN Torn ELSE s.meta
           /\ IF "files" \in cmd[t].left THEN a.of = {} /\ ~a.whole /\ s.of # {}
              ELSE a.of = s.of /\ a.whole = (cmd[t].open # "files" /\ s.whole)

Regular == \A d \in Dirs : shelf[d] # NoDir /\ shelf[d].of = {} => ~shelf[d].whole

(* A directory of a finished command, and the version of the plain one.    *)
Fine(d) == shelf[d] = NoDir \/ \E m \in placed : shelf[d] = Complete(m) /\ d \in {Plain, Detached(m)}
NoneExternal == \A m \in placed : ~External(m)
NoneNewer(v, S) == NoneExternal => \A d \in Dirs \ S : shelf[d] # NoDir => shelf[d].meta.version <= v
PlainNewest(S) == shelf[Plain] # NoDir /\ NoneNewer(shelf[Plain].meta.version, S)
Ready == PlainNewest({}) \/ \A d \in Dirs : shelf[d] = NoDir

(* What the directories are like at each step, if none was cut short.      *)
Stage(t) ==
  \/ ~HasWork(t) /\ cmd[t].at \in {"look", "tidy"} /\ Ready
  \/ /\ ~HasWork(t) /\ cmd[t].at = "fetch" /\ Ready
     /\ \A g \in Packages, d \in Dirs : Fits(g, cmd[t].want) => shelf[d] # Complete(g)
  \/ ~HasWork(t) /\ cmd[t].at = "place" /\ Ready /\ \A d \in Dirs : shelf[d] # Complete(cmd[t].pkg)
  \/ ~HasWork(t) /\ Installing(t) /\ Ready /\ shelf[cmd[t].dst] = Complete(cmd[t].pkg)
  \/ ~HasWork(t) /\ Removing(t) /\ (shelf[Plain] = NoDir \/ PlainNewest({}))
  \/ /\ Installing(t) /\ cmd[t].dst = Plain
     /\ \E prior \in Packages : /\ Swaps(t, prior) /\ shelf[Plain] = Complete(prior)
                               /\ NoneNewer(cmd[t].pkg.version, {Detached(prior)})
  \/ Installing(t) /\ Fills(t, Plain) /\ NoneNewer(cmd[t].pkg.version, {Plain})
  \/ /\ Installing(t)
     /\ \E d \in Dirs \ {Plain} :
          /\ Fills(t, d) /\ PlainNewest({d})
          /\ NoneExternal => cmd[t].pkg.version <= shelf[Plain].meta.version
  \/ Does(t, "uninstall", "work") /\ \E d \in Dirs : Drops(t, d) /\ (d = Plain \/ PlainNewest({d}))
  \/ /\ Does(t, "uninstall", "tidy")
     /\ \E d \in Dirs \ {Plain} :
          \/ Drops(t, d) /\ PlainNewest({d})
          \/ Renames(t, d) /\ shelf[d] # NoDir /\ NoneNewer(shelf[d].meta.version, {Plain})

KeptBeside(t) ==
  \A g \in owed : Rivals(g) # {} \/ \E d \in Dirs : shelf[d] = Complete(g) /\ ~InHand(t, d)

Busy(t) ==
  /\ KeptBeside(t)
  /\ HasWork(t) /\ Task(t).act = "copy" => CopyGoes(t)
  /\ cut = "yes" => ~Installing(t)
  /\ cut = "no" => Stage(t) /\ \A d \in Dirs : InHand(t, d) \/ Fine(d)

AtRest ==
  /\ \A g \in owed : Rivals(g) # {} \/ Shelved(g)
  /\ cut = "no" => Ready /\ \A d \in Dirs : Fine(d)

Orderly ==
  ~crowded /\ cut # "resumed" =>
    /\ Regular
    /\ \A t \in Terminals : Active(t) => Busy(t)
    /\ (\A t \in Terminals : ~Active(t)) => AtRest

StoreInv == Ran /\ Twins /\ AnswersWhole /\ Orderly

-----------------------------------------------------------------------------
(* Packages, tasks and their sequences.                                    *)

LEMMA PackageFacts ==
  ASSUME NEW g \in Packages
  PROVE  /\ g.version \in Nat /\ g.from \in Owners \cup Uris
         /\ g = [from |-> g.from, version |-> g.version]
         /\ External(g) => g.version = UriVersion[g.from]
         /\ Detached(g) \in Dirs /\ Detached(g) # Plain
         /\ g # Nothing /\ g # Torn
<1>1. /\ g.version \in Nat /\ g.from \in Owners \cup Uris
      /\ g = [from |-> g.from, version |-> g.version]
      /\ External(g) => g.version = UriVersion[g.from]
  BY PackageAssumption, NamesAssumption DEF Packages, RegistryPackages, External
<1>2. Detached(g) # Plain
  BY <1>1, NamesAssumption DEF Detached, External
<1> QED
  BY <1>1, <1>2, NamesAssumption DEF Dirs

LEMMA DirFacts == Plain \in Dirs /\ Unpacked \notin Dirs
<1>1. \A g \in Packages : Detached(g) # Unpacked
  BY PackageFacts, NamesAssumption DEF Detached, External, Unpacked
<1> QED
  BY <1>1, NamesAssumption DEF Dirs, Unpacked

LEMMA Tuples ==
  ASSUME NEW a, NEW b, NEW c, NEW d
  PROVE  /\ Head(<<a>>) = a /\ Tail(<<a>>) = << >> /\ <<a>> # << >>
         /\ Head(<<a, b>>) = a /\ Tail(<<a, b>>) = <<b>> /\ <<a, b>> # << >>
         /\ Head(<<a, b, c>>) = a /\ Tail(<<a, b, c>>) = <<b, c>> /\ <<a, b, c>> # << >>
         /\ Head(<<a, b, c, d>>) = a /\ Tail(<<a, b, c, d>>) = <<b, c, d>> /\ <<a, b, c, d>> # << >>
<1>1. Head(<<a>>) = a /\ Tail(<<a>>) = << >> /\ <<a>> # << >>
  OBVIOUS
<1>2. Head(<<a, b>>) = a /\ Tail(<<a, b>>) = <<b>> /\ <<a, b>> # << >>
  OBVIOUS
<1>3. Head(<<a, b, c>>) = a /\ Tail(<<a, b, c>>) = <<b, c>> /\ <<a, b, c>> # << >>
  OBVIOUS
<1>4. Head(<<a, b, c, d>>) = a /\ Tail(<<a, b, c, d>>) = <<b, c, d>> /\ <<a, b, c, d>> # << >>
  OBVIOUS
<1> QED
  BY <1>1, <1>2, <1>3, <1>4

LEMMA TaskFields ==
  ASSUME NEW s, NEW d
  PROVE  /\ Deletion(d).act = "remove" /\ Deletion(d).to = d /\ Deletion(d).from = Unpacked
         /\ Copying(s, d).act = "copy" /\ Copying(s, d).to = d /\ Copying(s, d).from = s
BY DEF Deletion, Copying

(* The task in hand and the tasks after it.                                *)
LEMMA TaskSequences ==
  ASSUME NEW prior, NEW d
  PROVE  /\ Detaching(prior) # << >> /\ Head(Detaching(prior)) = Deletion(Detached(prior))
         /\ Tail(Detaching(prior)) = SettingAside(prior)
         /\ SettingAside(prior) # << >> /\ Head(SettingAside(prior)) = Copying(Plain, Detached(prior))
         /\ Tail(SettingAside(prior)) = Clearing(Plain)
         /\ Clearing(d) # << >> /\ Head(Clearing(d)) = Deletion(d)
         /\ Tail(Clearing(d)) = Unpacking(d)
         /\ Unpacking(d) # << >> /\ Head(Unpacking(d)) = Copying(Unpacked, d)
         /\ Tail(Unpacking(d)) = << >>
         /\ Dropping(d) # << >> /\ Head(Dropping(d)) = Deletion(d) /\ Tail(Dropping(d)) = << >>
         /\ TakesPlainName(d) # << >> /\ Head(TakesPlainName(d)) = Copying(d, Plain)
         /\ Tail(TakesPlainName(d)) = Dropping(d)
<1>1. /\ Detaching(prior) # << >> /\ Head(Detaching(prior)) = Deletion(Detached(prior))
      /\ Tail(Detaching(prior)) = SettingAside(prior)
  BY Tuples DEF Detaching, SettingAside
<1>2. /\ SettingAside(prior) # << >> /\ Head(SettingAside(prior)) = Copying(Plain, Detached(prior))
      /\ Tail(SettingAside(prior)) = Clearing(Plain)
  BY Tuples DEF SettingAside, Clearing
<1>3. Clearing(d) # << >> /\ Head(Clearing(d)) = Deletion(d) /\ Tail(Clearing(d)) = Unpacking(d)
  BY Tuples DEF Clearing, Unpacking
<1>4. /\ Unpacking(d) # << >> /\ Head(Unpacking(d)) = Copying(Unpacked, d)
      /\ Tail(Unpacking(d)) = << >>
  BY Tuples DEF Unpacking
<1>5. Dropping(d) # << >> /\ Head(Dropping(d)) = Deletion(d) /\ Tail(Dropping(d)) = << >>
  BY Tuples DEF Dropping
<1>6. /\ TakesPlainName(d) # << >> /\ Head(TakesPlainName(d)) = Copying(d, Plain)
      /\ Tail(TakesPlainName(d)) = Dropping(d)
  BY Tuples DEF TakesPlainName, Dropping
<1> QED
  BY <1>1, <1>2, <1>3, <1>4, <1>5, <1>6

LEMMA TaskTypes ==
  ASSUME NEW d \in Dirs
  PROVE  /\ \A prior \in Packages : Detaching(prior) \in Seq(Tasks) /\ SettingAside(prior) \in Seq(Tasks)
         /\ Clearing(d) \in Seq(Tasks) /\ Unpacking(d) \in Seq(Tasks)
         /\ Dropping(d) \in Seq(Tasks) /\ TakesPlainName(d) \in Seq(Tasks)
<1>1. \A e \in Dirs : Deletion(e) \in Tasks /\ Copying(d, e) \in Tasks
                       /\ Copying(Plain, e) \in Tasks /\ Copying(Unpacked, e) \in Tasks
  BY DirFacts DEF Deletion, Copying, Tasks
<1>2. ASSUME NEW prior \in Packages
      PROVE  Detaching(prior) \in Seq(Tasks) /\ SettingAside(prior) \in Seq(Tasks)
  BY <1>1, PackageFacts, DirFacts DEF Detaching, SettingAside
<1>3. Clearing(d) \in Seq(Tasks) /\ Unpacking(d) \in Seq(Tasks)
  BY <1>1 DEF Clearing, Unpacking
<1>4. Dropping(d) \in Seq(Tasks) /\ TakesPlainName(d) \in Seq(Tasks)
  BY <1>1, DirFacts DEF Dropping, TakesPlainName
<1> QED
  BY <1>2, <1>3, <1>4

(* The three ways to place a package beside an old one.                    *)
LEMMA Placements ==
  ASSUME NEW g \in Packages, NEW prior
  PROVE  \/ /\ prior \in Packages /\ Outranks(g, prior)
            /\ Placement(g, prior) = Detaching(prior) /\ Last(Placement(g, prior)).to = Plain
         \/ /\ prior \in Packages /\ YieldsTo(g, prior)
            /\ Placement(g, prior) = Clearing(Detached(g)) /\ Last(Placement(g, prior)).to = Detached(g)
         \/ /\ prior \in Packages => g = prior
            /\ Placement(g, prior) = Clearing(Plain) /\ Last(Placement(g, prior)).to = Plain
<1>1. \A d : Last(Clearing(d)).to = d
  BY TaskFields DEF Clearing, Last
<1>2. Last(Detaching(prior)).to = Plain
  BY TaskFields DEF Detaching, Last
<1>3. CASE prior \notin Packages
  BY <1>3, <1>1 DEF Placement, Clearing
<1>4. CASE prior \in Packages /\ Outranks(g, prior)
  BY <1>4, <1>2 DEF Placement, Detaching, YieldsTo
<1>5. CASE prior \in Packages /\ ~Outranks(g, prior) /\ YieldsTo(g, prior)
  BY <1>5, <1>1 DEF Placement, Clearing
<1>6. CASE prior \in Packages /\ ~Outranks(g, prior) /\ ~YieldsTo(g, prior)
  <2>1. Placement(g, prior) = Clearing(Plain)
    BY <1>6 DEF Placement, Clearing
  <2>2. g = prior
    BY <1>6, PackageFacts DEF Outranks, YieldsTo, External
  <2> QED
    BY <2>1, <2>2, <1>1
<1> QED
  BY <1>3, <1>4, <1>5, <1>6

TaskOK(t) ==
  /\ Task(t).to \in Dirs /\ Task(t).act \in {"remove", "copy"}
  /\ Task(t).from \in Dirs \cup {Unpacked} /\ Task(t).from # Task(t).to
  /\ Task(t).act = "copy" /\ Task(t).from = Unpacked => Installing(t)

LEMMA WorkFacts ==
  ASSUME Ran, NEW t \in Terminals, HasWork(t)
  PROVE  /\ Task(t).to \in Dirs /\ Task(t).act \in {"remove", "copy"}
         /\ Task(t).from \in Dirs \cup {Unpacked} /\ Task(t).from # Task(t).to
         /\ Task(t).act = "copy" /\ Task(t).from = Unpacked => Installing(t)
         /\ Task(t).from = Unpacked => Source(t) = Complete(cmd[t].pkg)
         /\ Task(t).from # Unpacked => Source(t) = shelf[Task(t).from]
         /\ Task(t).act = "copy" => Source(t) \in {NoDir} \cup Contents
         /\ cmd[t].at \in {"work", "tidy"} /\ Active(t)
<1>1. CommandOK(t) /\ cmd[t] \in CommandRecords /\ shelf \in [Dirs -> {NoDir} \cup Contents]
  BY DEF Ran
<1>2. cmd[t].at \in {"work", "tidy"} /\ Active(t)
  BY <1>1 DEF CommandOK, Active, Resting, Closed, HasWork
<1>3. Installing(t) => cmd[t].pkg \in Packages
  BY <1>1 DEF CommandOK, Ran
<1>4. TaskOK(t)
  <2>1. ASSUME NEW prior \in Packages, Swaps(t, prior), Installing(t) PROVE TaskOK(t)
    <3>1. Task(t) = Deletion(Detached(prior)) \/ Task(t) = Copying(Plain, Detached(prior))
      BY <2>1, TaskSequences DEF Swaps, Task
    <3>2. Detached(prior) \in Dirs /\ Detached(prior) # Plain
      BY PackageFacts
    <3> QED
      BY <3>1, <3>2, DirFacts, TaskFields DEF TaskOK
  <2>2. ASSUME NEW d \in Dirs, Fills(t, d), Installing(t) PROVE TaskOK(t)
    BY <2>2, DirFacts, TaskSequences, TaskFields DEF Fills, Task, TaskOK
  <2>3. ASSUME NEW d \in Dirs, Drops(t, d) PROVE TaskOK(t)
    <3>1. Task(t) = Deletion(d)
      BY <2>3, TaskSequences DEF Drops, Task
    <3> QED
      BY <3>1, DirFacts, TaskFields DEF TaskOK
  <2>4. ASSUME NEW d \in Dirs \ {Plain}, Renames(t, d) PROVE TaskOK(t)
    <3>1. Task(t) = Copying(d, Plain)
      BY <2>4, TaskSequences DEF Renames, Task
    <3> QED
      BY <3>1, DirFacts, TaskFields DEF TaskOK
  <2> QED
    BY <1>1, <2>1, <2>2, <2>3, <2>4 DEF CommandOK, Shape
<1>5. Task(t).from = Unpacked => Source(t) = Complete(cmd[t].pkg)
  BY DEF Source
<1>6. Task(t).from # Unpacked => Source(t) = shelf[Task(t).from]
  BY DEF Source
<1>7. \A g \in Packages : Complete(g) \in Contents
  BY DEF Complete, Contents
<1>8. Task(t).act = "copy" => Source(t) \in {NoDir} \cup Contents
  <2>1. CASE Task(t).from = Unpacked
    BY <2>1, <1>3, <1>4, <1>5, <1>7 DEF TaskOK
  <2>2. CASE Task(t).from # Unpacked
    BY <2>2, <1>1, <1>4, <1>6 DEF TaskOK
  <2> QED
    BY <2>1, <2>2
<1> QED
  BY <1>2, <1>4, <1>5, <1>6, <1>8 DEF TaskOK

-----------------------------------------------------------------------------
(***************************************************************************)
(* Terminals: what their commands know.                                    *)
(***************************************************************************)

(* What a step of one terminal's command has to show.                      *)
LEMMA OneMoves ==
  ASSUME Ran, NEW t \in Terminals, Active(t), NEW c \in CommandRecords,
         cmd' = [cmd EXCEPT ![t] = c], CommandOK(t)',
         shelf' \in [Dirs -> {NoDir} \cup Contents], cut' \in {"no", "yes", "resumed"},
         owed' \subseteq placed', placed \subseteq placed', placed' \subseteq Packages,
         removed \subseteq removed', crowded' = crowded
  PROVE  Ran'
<1>1. cmd' \in [Terminals -> CommandRecords]
  BY DEF Ran
<1>2. ASSUME NEW u \in Terminals PROVE CommandOK(u)'
  <2>1. CASE u = t
    BY <2>1
  <2>2. CASE u # t
    <3>1. cmd'[u] = cmd[u] /\ CommandOK(u)
      BY <2>2 DEF Ran
    <3>2. Shape(u)'
      BY <3>1 DEF CommandOK, Shape, HasWork, Swaps, Fills, Drops, Renames, Does, Installing
    <3> QED
      BY <3>1, <3>2 DEF CommandOK, HasWork, Installing, Does, Task, Begins
  <2> QED
    BY <2>1, <2>2
<1>3. OneAtWork'
  <2>1. \A u \in Terminals : Active(u)' => Active(u)
    BY DEF Ran, Active
  <2> QED
    BY <2>1 DEF Ran, OneAtWork
<1> QED
  BY <1>1, <1>2, <1>3 DEF Ran

(* What a command knows depends on the commands and on what was placed and *)
(* removed only.                                                           *)
LEMMA CommandsKeep ==
  ASSUME UNCHANGED <<cmd, placed, removed>>, NEW t
  PROVE  CommandOK(t)' <=> CommandOK(t)
<1>1. /\ HasWork(t)' <=> HasWork(t)
      /\ Begins(t)' <=> Begins(t)
      /\ Installing(t)' <=> Installing(t)
      /\ Task(t)' = Task(t)
  BY DEF HasWork, Begins, Installing, Does, Task
<1>2. Shape(t)' <=> Shape(t)
  <2>1. \A d : /\ Fills(t, d)' <=> Fills(t, d)
               /\ Swaps(t, d)' <=> Swaps(t, d)
               /\ Drops(t, d)' <=> Drops(t, d)
               /\ Renames(t, d)' <=> Renames(t, d)
    BY DEF Fills, Swaps, Drops, Renames
  <2>2. \A op, at : Does(t, op, at)' <=> Does(t, op, at)
    BY DEF Does
  <2> QED
    BY <1>1, <2>1, <2>2 DEF Shape
<1> QED
  BY <1>1, <1>2 DEF CommandOK

LEMMA StillRan ==
  ASSUME Ran, UNCHANGED packageVars PROVE Ran'
<1>1. \A t : CommandOK(t)' <=> CommandOK(t)
  BY CommandsKeep DEF packageVars, past
<1> QED
  BY <1>1 DEF Ran, OneAtWork, Active, packageVars, bounds, past

(* A command that has no work in hand.                                     *)
LEMMA Rests ==
  ASSUME NEW t, cmd'[t] = Resting
  PROVE  CommandOK(t)' /\ Resting \in CommandRecords /\ ~Active(t)' /\ ~HasWork(t)' /\ Begins(t)'
BY PartsAssumption DEF Resting, CommandRecords, CommandOK, Shape, HasWork, Begins, Installing, Does, Active

LEMMA Retries ==
  ASSUME Ran, NEW t \in Terminals, cmd[t].at = "fetch" \/ HasWork(t) \/ Installing(t),
         cmd'[t] = Retry(cmd[t])
  PROVE  /\ CommandOK(t)' /\ Retry(cmd[t]) \in CommandRecords /\ ~HasWork(t)' /\ Begins(t)'
         /\ \/ cmd'[t] = Resting
            \/ /\ cmd'[t].at = "fetch" /\ cmd'[t].op = "install" /\ cmd'[t].want = cmd[t].want
               /\ cmd[t].op = "install"
<1>1. CASE cmd'[t] = Resting
  BY <1>1, Rests
<1>2. CASE cmd'[t] # Resting
  <2>1. /\ cmd[t].op = "install" /\ cmd[t].mirror \in Nat /\ cmd[t].want \in Requests
    <3>1. cmd[t] \in CommandRecords /\ CommandOK(t)
      BY DEF Ran
    <3>2. cmd[t].op = "install"
      BY <1>2 DEF Retry
    <3>3. cmd[t].at = "fetch" \/ Installing(t)
      BY <3>1, <3>2 DEF CommandOK, Shape, Does, Installing
    <3> QED
      BY <3>1, <3>2, <3>3 DEF CommandOK, CommandRecords
  <2>2. cmd'[t] = [Resting EXCEPT !.at = "fetch", !.want = cmd[t].want, !.mirror = cmd[t].mirror + 1]
    BY <1>2 DEF Retry
  <2> QED
    <3>1. /\ cmd'[t].at = "fetch" /\ cmd'[t].op = "install" /\ cmd'[t].want = cmd[t].want
          /\ cmd'[t].todo = << >> /\ cmd'[t].left = {} /\ cmd'[t].open = Nothing
      BY <2>2 DEF Resting
    <3>2. Retry(cmd[t]) \in CommandRecords
      <4>1. cmd'[t] = [at |-> "fetch", op |-> "install", want |-> cmd[t].want,
                       mirror |-> cmd[t].mirror + 1, pkg |-> Nothing, dst |-> Nothing,
                       todo |-> << >>, left |-> {}, open |-> Nothing]
        BY <2>2 DEF Resting
      <4> QED
        BY <2>1, <4>1 DEF CommandRecords
    <3>3. ~HasWork(t)' /\ Begins(t)' /\ CommandOK(t)'
      BY <2>1, <3>1, PartsAssumption DEF CommandOK, Shape, HasWork, Begins, Installing, Does
    <3> QED
      BY <2>1, <3>1, <3>2, <3>3
<1> QED
  BY <1>1, <1>2

(* A command that goes on without work.                                    *)
LEMMA ListingsType ==
  ASSUME Ran, NEW L \in Legibles, NEW r, NEW x \in Best(Installed(L), r)
  PROVE  /\ x[1] \in Dirs /\ shelf[x[1]] # NoDir
         /\ \/ x = <<x[1], shelf[x[1]].meta>> /\ MetaOf(x[1]) = x[2] /\ x[2] # Nothing
            \/ x[1] \in MaybeLegible
<1>1. x \in Installed(L)
  BY DEF Best
<1>2. CASE \E d \in Dirs : MetaOf(d) # Nothing /\ x = <<d, shelf[d].meta>>
  BY <1>2 DEF MetaOf
<1>3. CASE \E d \in L : x = <<d, Legacy(d)>>
  BY <1>3 DEF Legibles, MaybeLegible
<1> QED
  BY <1>1, <1>2, <1>3 DEF Installed

(* The work that is left, one task on.                                     *)
LEMMA WorkGoesOn ==
  ASSUME Ran, NEW t \in Terminals, HasWork(t), cmd'[t].todo = Tail(cmd[t].todo),
         cmd'[t].op = cmd[t].op, cmd'[t].at = cmd[t].at, cmd'[t].dst = cmd[t].dst
  PROVE  Shape(t)' /\ Tail(cmd[t].todo) \in Seq(Tasks)
<1>1. CommandOK(t) /\ Tail(cmd[t].todo) \in Seq(Tasks)
  BY DEF Ran, CommandRecords, HasWork
<1>2. ASSUME NEW prior \in Packages, Swaps(t, prior), Installing(t), cmd[t].dst = Plain PROVE Shape(t)'
  BY <1>2, DirFacts, TaskSequences DEF Swaps, Shape, Installing, Does, Fills
<1>3. ASSUME NEW d \in Dirs, Fills(t, d), Installing(t) PROVE Shape(t)'
  BY <1>3, TaskSequences DEF Fills, Shape, Installing, Does, HasWork
<1>4. ASSUME NEW d \in Dirs, Drops(t, d) PROVE Shape(t)'
  BY <1>4, TaskSequences DEF Drops, Shape, HasWork
<1>5. ASSUME NEW d \in Dirs \ {Plain}, Renames(t, d), Does(t, "uninstall", "tidy") PROVE Shape(t)'
  BY <1>5, TaskSequences DEF Renames, Drops, Shape, Does
<1> QED
  BY <1>1, <1>2, <1>3, <1>4, <1>5 DEF CommandOK, Shape

LEMMA RunRan == ASSUME Ran, NEW t \in Terminals, Run(t) PROVE Ran'
<1>1. PICK o \in {"install", "uninstall"}, r \in Requests :
        cmd' = [cmd EXCEPT ![t] = [Resting EXCEPT !.at = "look", !.op = o, !.want = r]]
  BY DEF Run, Become
<1> DEFINE c == [Resting EXCEPT !.at = "look", !.op = o, !.want = r]
<1>2. /\ c \in CommandRecords /\ c.at = "look" /\ c.op = o /\ c.want = r
      /\ c.todo = << >> /\ c.left = {} /\ c.open = Nothing
  <2>1. /\ Resting \in CommandRecords /\ Resting.todo = << >> /\ Resting.left = {}
        /\ Resting.open = Nothing
    BY DEF Resting, CommandRecords
  <2> QED
    BY <2>1 DEF CommandRecords
<1>3. cmd' \in [Terminals -> CommandRecords] /\ cmd'[t] = c
  BY <1>1, <1>2 DEF Ran
<1>4. ASSUME NEW u \in Terminals PROVE CommandOK(u)'
  <2>1. CASE u = t
    BY <1>2, <1>3, <2>1, PartsAssumption DEF CommandOK, Shape, HasWork, Begins, Installing, Does
  <2>2. CASE u # t
    <3>1. cmd'[u] = cmd[u] /\ CommandOK(u)
      BY <1>1, <2>2 DEF Ran
    <3>2. Shape(u)'
      BY <3>1 DEF CommandOK, Shape, HasWork, Swaps, Fills, Drops, Renames, Does, Installing
    <3> QED
      BY <3>1, <3>2 DEF CommandOK, HasWork, Installing, Does, Task, Begins, Run
  <2> QED
    BY <2>1, <2>2
<1>5. OneAtWork'
  <2>1. ~crowded' => \A u \in Terminals \ {t} : ~Active(u)
    BY DEF Run, Active
  <2>2. \A u \in Terminals \ {t} : cmd'[u] = cmd[u]
    BY <1>1 DEF Ran
  <2> QED
    BY <2>1, <2>2 DEF OneAtWork, Active
<1>6. crowded' \in BOOLEAN
  BY DEF Run, Ran
<1> QED
  BY <1>3, <1>4, <1>5, <1>6 DEF Run, Ran

LEMMA LookToInstallRan == ASSUME Ran, NEW t \in Terminals, LookToInstall(t) PROVE Ran'
<1>1. Active(t) /\ cmd \in [Terminals -> CommandRecords] /\ CommandOK(t)
  BY DEF LookToInstall, Active, Resting, Closed, Ran
<1>2. CASE cmd' = [cmd EXCEPT ![t] = Resting]
  <2>1. cmd'[t] = Resting
    BY <1>1, <1>2
  <2> QED
    BY <1>1, <1>2, <2>1, Rests, OneMoves DEF LookToInstall, Ran
<1>3. CASE cmd' = [cmd EXCEPT ![t] = [cmd[t] EXCEPT !.at = "fetch", !.mirror = 1]]
  <2> DEFINE c == [cmd[t] EXCEPT !.at = "fetch", !.mirror = 1]
  <2>1. c \in CommandRecords /\ cmd'[t] = c
    <3>1. cmd[t] \in CommandRecords
      BY <1>1
    <3>2. [cmd[t] EXCEPT !.at = "fetch"] \in CommandRecords
      BY <3>1 DEF CommandRecords
    <3>3. c \in CommandRecords
      BY <3>2 DEF CommandRecords
    <3> QED
      BY <1>1, <1>3, <3>3
  <2>2. CommandOK(t)'
    BY <1>1, <2>1 DEF CommandOK, CommandRecords, Shape, HasWork, Begins, Installing, Does, LookToInstall
  <2> QED
    BY <1>1, <1>3, <2>1, <2>2, OneMoves DEF LookToInstall, Ran
<1> QED
  BY <1>2, <1>3 DEF LookToInstall, Become, Answer

LEMMA ListingFailsRan == ASSUME Ran, NEW t \in Terminals, ListingFails(t) PROVE Ran'
<1>1. Active(t) /\ cmd \in [Terminals -> CommandRecords]
  BY DEF ListingFails, Active, Resting, Closed, Ran
<1>2. cmd' = [cmd EXCEPT ![t] = Resting] /\ cmd'[t] = Resting
  BY <1>1 DEF ListingFails, Become
<1> QED
  BY <1>1, <1>2, Rests, OneMoves DEF ListingFails, Ran, past

LEMMA FetchRan == ASSUME Ran, NEW t \in Terminals, Fetch(t) PROVE Ran'
<1>1. Active(t) /\ cmd \in [Terminals -> CommandRecords] /\ CommandOK(t)
  BY DEF Fetch, Active, Resting, Closed, Ran
<1>2. PICK g \in Offered(cmd[t].want) : cmd' = [cmd EXCEPT ![t] = [cmd[t] EXCEPT !.at = "place", !.pkg = g]]
  BY DEF Fetch, Become
<1>3. g \in Packages /\ Fits(g, cmd[t].want)
  <2>1. cmd[t].want \in Requests /\ cmd[t].want.uri \in Uris \cup {Nothing}
    BY <1>1, PackageAssumption DEF CommandOK, Fetch
  <2> QED
    BY <1>2, <2>1 DEF Offered, Packages, Fits
<1> DEFINE c == [cmd[t] EXCEPT !.at = "place", !.pkg = g]
<1>4. c \in CommandRecords /\ cmd'[t] = c
  BY <1>1, <1>2, <1>3 DEF CommandRecords
<1>5. CommandOK(t)'
  BY <1>1, <1>3, <1>4 DEF CommandOK, CommandRecords, Shape, HasWork, Begins, Installing, Does, Fetch
<1> QED
  BY <1>1, <1>2, <1>4, <1>5, OneMoves DEF Fetch, Ran, past

LEMMA FetchFailsRan == ASSUME Ran, NEW t \in Terminals, FetchFails(t) PROVE Ran'
<1>1. Active(t) /\ cmd \in [Terminals -> CommandRecords] /\ cmd[t].at = "fetch"
  BY DEF FetchFails, Active, Resting, Closed, Ran
<1>2. cmd' = [cmd EXCEPT ![t] = Retry(cmd[t])] /\ cmd'[t] = Retry(cmd[t])
  BY <1>1 DEF FetchFails, Become
<1> QED
  BY <1>1, <1>2, Retries, OneMoves DEF FetchFails, Ran, past

LEMMA PlaceRan == ASSUME Ran, NEW t \in Terminals, Place(t) PROVE Ran'
<1>1. /\ Active(t) /\ cmd \in [Terminals -> CommandRecords] /\ CommandOK(t) /\ cmd[t].at = "place"
      /\ cmd[t].pkg \in Packages
  BY DEF Place, Active, Resting, Closed, Ran, CommandOK
<1> DEFINE prior == MetaOf(Plain)
           work == Placement(cmd[t].pkg, prior)
           c == [cmd[t] EXCEPT !.at = "work", !.todo = work, !.dst = Last(work).to]
<1>2. cmd' = [cmd EXCEPT ![t] = c] /\ cmd'[t] = c
  BY <1>1 DEF Place, Become
<1>3. /\ Detached(cmd[t].pkg) \in Dirs /\ Plain \in Dirs
      /\ Last(work).to \in {Plain, Detached(cmd[t].pkg)} /\ work \in Seq(Tasks)
  BY <1>1, Placements, PackageFacts, DirFacts, TaskTypes
<1>4. c \in CommandRecords
  <2> HIDE DEF work
  <2> QED
    BY <1>1, <1>3, ZenonT(30) DEF CommandRecords
<1>5. /\ cmd'[t].at = "work" /\ cmd'[t].op = "install" /\ cmd'[t].pkg = cmd[t].pkg
      /\ cmd'[t].want = cmd[t].want /\ cmd'[t].todo = work /\ cmd'[t].dst = Last(work).to
      /\ cmd'[t].left = cmd[t].left /\ cmd'[t].open = cmd[t].open
  <2> HIDE DEF work
  <2> QED
    BY <1>1, <1>2 DEF CommandRecords, CommandOK
<1>6. Shape(t)'
  <2>1. CASE prior \in Packages /\ work = Detaching(prior) /\ Last(work).to = Plain
    BY <1>5, <2>1 DEF Shape, Installing, Does, Swaps
  <2>2. CASE work = Clearing(Detached(cmd[t].pkg)) /\ Last(work).to = Detached(cmd[t].pkg)
    BY <1>3, <1>5, <2>2 DEF Shape, Installing, Does, Fills
  <2>3. CASE work = Clearing(Plain) /\ Last(work).to = Plain
    BY <1>3, <1>5, <2>3 DEF Shape, Installing, Does, Fills
  <2> QED
    BY <1>1, <2>1, <2>2, <2>3, Placements
<1>7. CommandOK(t)'
  <2>1. Begins(t) /\ cmd[t].want \in Requests
    BY <1>1 DEF CommandOK
  <2>2. cmd[t].pkg \in placed'
    BY DEF Place
  <2> QED
    BY <1>1, <1>3, <1>5, <1>6, <2>1, <2>2, PartsAssumption DEF CommandOK, Begins, Installing, Does
<1> HIDE DEF c
<1> QED
  BY <1>1, <1>2, <1>4, <1>7, OneMoves DEF Place, Ran

(* The steps of a removal and of a copy.                                   *)
LEMMA RemoveFileRan == ASSUME Ran, NEW t \in Terminals, RemoveFile(t) PROVE Ran'
<1>1. Task(t).to \in Dirs /\ shelf[Task(t).to] \in Contents
  BY WorkFacts DEF RemoveFile, Ran
<1>2. shelf' \in [Dirs -> {NoDir} \cup Contents]
  <2>1. PICK c \in Contents : shelf' = [shelf EXCEPT ![Task(t).to] = c]
    <3> DEFINE s == shelf[Task(t).to]
    <3>1. /\ [s EXCEPT !.meta = Nothing] \in Contents /\ [s EXCEPT !.whole = FALSE] \in Contents
          /\ [s EXCEPT !.of = {}] \in Contents
      BY <1>1 DEF Contents
    <3> QED
      BY <3>1 DEF RemoveFile, SetDir
  <2> QED
    BY <2>1 DEF Ran
<1>3. \A u : CommandOK(u)' <=> CommandOK(u)
  BY CommandsKeep DEF RemoveFile, past
<1> QED
  BY <1>2, <1>3 DEF RemoveFile, Ran, OneAtWork, Active, bounds, past

LEMMA RemoveDirRan == ASSUME Ran, NEW t \in Terminals, RemoveDir(t) PROVE Ran'
<1>1. /\ HasWork(t) /\ Task(t).to \in Dirs /\ Active(t) /\ CommandOK(t)
      /\ cmd \in [Terminals -> CommandRecords]
  BY WorkFacts DEF RemoveDir, Ran
<1> DEFINE c == [cmd[t] EXCEPT !.todo = Tail(cmd[t].todo), !.left = {}]
<1>2. cmd' = [cmd EXCEPT ![t] = c] /\ cmd'[t] = c
  BY <1>1 DEF RemoveDir, TaskDone, Become
<1>3. /\ cmd'[t].todo = Tail(cmd[t].todo) /\ cmd'[t].op = cmd[t].op /\ cmd'[t].at = cmd[t].at
      /\ cmd'[t].dst = cmd[t].dst /\ cmd'[t].want = cmd[t].want /\ cmd'[t].pkg = cmd[t].pkg
      /\ cmd'[t].left = {} /\ cmd'[t].open = Nothing
  BY <1>1, <1>2 DEF CommandRecords, CommandOK, RemoveDir, Begins
<1>4. Shape(t)' /\ c \in CommandRecords
  <2>1. Shape(t)' /\ Tail(cmd[t].todo) \in Seq(Tasks)
    BY <1>1, <1>3, WorkGoesOn
  <2> QED
    BY <1>1, <2>1 DEF CommandRecords
<1>5. shelf' \in [Dirs -> {NoDir} \cup Contents]
  BY <1>1 DEF RemoveDir, SetDir, Ran
<1>6. CommandOK(t)'
  <2>1. cmd[t].at \in {"work", "tidy"}
    BY <1>1, WorkFacts
  <2> QED
    BY <1>1, <1>3, <1>4, <2>1, PartsAssumption DEF CommandOK, Begins, Installing, Does, RemoveDir, bounds, past
<1> HIDE DEF c
<1> QED
  BY <1>1, <1>2, <1>4, <1>5, <1>6, OneMoves DEF RemoveDir, Ran, bounds, past

LEMMA SourceParted ==
  ASSUME Ran, NEW t \in Terminals
  PROVE  SourceParts(t) \subseteq Parts /\ Nothing \notin SourceParts(t)
BY PartsAssumption DEF SourceParts

LEMMA MakeDirRan == ASSUME Ran, NEW t \in Terminals, MakeDir(t) PROVE Ran'
<1>1. /\ HasWork(t) /\ Task(t).to \in Dirs /\ Task(t).act = "copy" /\ Active(t) /\ CommandOK(t)
      /\ cmd \in [Terminals -> CommandRecords] /\ Begins(t) /\ cmd[t].at \in {"work", "tidy"}
  BY WorkFacts DEF MakeDir, Ran, Begins
<1> DEFINE c == [cmd[t] EXCEPT !.left = SourceParts(t)]
<1>2. cmd' = [cmd EXCEPT ![t] = c] /\ cmd'[t] = c
  BY <1>1 DEF MakeDir, Become
<1>3. c \in CommandRecords
  BY <1>1, SourceParted, ZenonT(30) DEF CommandRecords
<1>4. /\ cmd'[t].todo = cmd[t].todo /\ cmd'[t].op = cmd[t].op /\ cmd'[t].at = cmd[t].at
      /\ cmd'[t].dst = cmd[t].dst /\ cmd'[t].want = cmd[t].want /\ cmd'[t].pkg = cmd[t].pkg
      /\ cmd'[t].left = SourceParts(t) /\ cmd'[t].open = Nothing
  BY <1>1, <1>2 DEF CommandRecords, Begins
<1>5. shelf' \in [Dirs -> {NoDir} \cup Contents]
  <2>1. Empty \in Contents
    BY DEF Empty, Contents
  <2> QED
    BY <1>1, <2>1 DEF MakeDir, SetDir, Ran
<1>6. CommandOK(t)'
  <2>1. Shape(t)' /\ (HasWork(t)' <=> HasWork(t)) /\ Task(t)' = Task(t)
    BY <1>1, <1>4 DEF CommandOK, Shape, HasWork, Swaps, Fills, Drops, Renames, Does, Installing, Task
  <2> QED
    BY <1>1, <1>4, <2>1, SourceParted DEF CommandOK, Begins, Installing, Does, MakeDir, bounds, past
<1> HIDE DEF c
<1> QED
  BY <1>1, <1>2, <1>3, <1>5, <1>6, OneMoves DEF MakeDir, Ran, bounds, past

LEMMA CopyFacts ==
  ASSUME Ran, NEW t \in Terminals, HasWork(t), ~Begins(t)
  PROVE  /\ Task(t).act = "copy" /\ Active(t) /\ CommandOK(t) /\ cmd[t].at \in {"work", "tidy"}
         /\ cmd[t] \in CommandRecords /\ Source(t) \in {NoDir} \cup Contents
         /\ Task(t).to \in Dirs /\ cmd[t].open \notin cmd[t].left
<1>1. CommandOK(t) /\ cmd[t] \in CommandRecords
  BY DEF Ran
<1>2. Task(t).act = "copy"
  BY <1>1, WorkFacts DEF CommandOK
<1> QED
  BY <1>1, <1>2, WorkFacts DEF CommandOK

LEMMA CopyOpensRan == ASSUME Ran, NEW t \in Terminals, CopyOpens(t) PROVE Ran'
<1>1. PICK p \in cmd[t].left :
        /\ cmd' = [cmd EXCEPT ![t] = [cmd[t] EXCEPT !.open = p, !.left = cmd[t].left \ {p}]]
        /\ SetDir(Task(t).to,
             IF p = "meta" THEN [shelf[Task(t).to] EXCEPT !.meta = Torn]
             ELSE [shelf[Task(t).to] EXCEPT !.of = @ \cup Source(t).of, !.whole = FALSE])
  BY DEF CopyOpens, Become
<1>2. HasWork(t) /\ ~Begins(t)
  BY DEF CopyOpens, Begins
<1>3. /\ shelf[Task(t).to] \in Contents /\ Source(t) \in Contents /\ p \in Parts
      /\ cmd \in [Terminals -> CommandRecords]
  BY <1>2, CopyFacts DEF CopyOpens, Ran, CommandRecords
<1> DEFINE c == [cmd[t] EXCEPT !.open = p, !.left = cmd[t].left \ {p}]
<1>4. c \in CommandRecords /\ cmd'[t] = c /\ cmd' = [cmd EXCEPT ![t] = c]
  BY <1>1, <1>3, ZenonT(30) DEF CommandRecords
<1>5. /\ cmd'[t].todo = cmd[t].todo /\ cmd'[t].op = cmd[t].op /\ cmd'[t].at = cmd[t].at
      /\ cmd'[t].dst = cmd[t].dst /\ cmd'[t].want = cmd[t].want /\ cmd'[t].pkg = cmd[t].pkg
      /\ cmd'[t].left = cmd[t].left \ {p} /\ cmd'[t].open = p
  BY <1>3, <1>4 DEF CommandRecords
<1>6. shelf' \in [Dirs -> {NoDir} \cup Contents]
  <2>1. /\ [shelf[Task(t).to] EXCEPT !.meta = Torn] \in Contents
        /\ [shelf[Task(t).to] EXCEPT !.of = @ \cup Source(t).of, !.whole = FALSE] \in Contents
    BY <1>3 DEF Contents
  <2> QED
    BY <1>1, <1>2, <2>1, CopyFacts DEF SetDir, Ran
<1>7. CommandOK(t)'
  <2>1. Shape(t)' /\ (HasWork(t)' <=> HasWork(t)) /\ Task(t)' = Task(t)
    BY <1>2, <1>5, CopyFacts DEF CommandOK, Shape, HasWork, Swaps, Fills, Drops, Renames, Does, Installing, Task
  <2> QED
    BY <1>2, <1>5, <2>1, CopyFacts DEF CommandOK, Begins, Installing, Does, CopyOpens, bounds, past
<1> HIDE DEF c
<1> QED
  BY <1>2, <1>4, <1>6, <1>7, CopyFacts, OneMoves DEF CopyOpens, Ran, bounds, past

LEMMA CopyClosesRan == ASSUME Ran, NEW t \in Terminals, CopyCloses(t) PROVE Ran'
<1>1. HasWork(t) /\ ~Begins(t)
  BY DEF CopyCloses, Begins
<1>2. shelf[Task(t).to] \in Contents /\ Source(t) \in Contents /\ cmd \in [Terminals -> CommandRecords]
  BY <1>1, CopyFacts DEF CopyCloses, Ran
<1>3. shelf' \in [Dirs -> {NoDir} \cup Contents]
  <2>1. /\ [shelf[Task(t).to] EXCEPT !.meta = Source(t).meta] \in Contents
        /\ [shelf[Task(t).to] EXCEPT !.whole = Source(t).whole] \in Contents
    BY <1>2 DEF Contents
  <2> QED
    BY <1>1, <2>1, CopyFacts DEF CopyCloses, SetDir, Ran
<1>4. CASE cmd[t].left = {}
  <2> DEFINE c == [cmd[t] EXCEPT !.open = Nothing, !.todo = Tail(cmd[t].todo)]
  <2>1. cmd' = [cmd EXCEPT ![t] = c] /\ cmd'[t] = c
    BY <1>2, <1>4 DEF CopyCloses, Become
  <2>2. /\ cmd'[t].todo = Tail(cmd[t].todo) /\ cmd'[t].op = cmd[t].op /\ cmd'[t].at = cmd[t].at
        /\ cmd'[t].dst = cmd[t].dst /\ cmd'[t].want = cmd[t].want /\ cmd'[t].pkg = cmd[t].pkg
        /\ cmd'[t].left = {} /\ cmd'[t].open = Nothing
    BY <1>2, <1>4, <2>1 DEF CommandRecords
  <2>3. Shape(t)' /\ Tail(cmd[t].todo) \in Seq(Tasks)
    BY <1>1, <2>2, WorkGoesOn
  <2>4. c \in CommandRecords
    BY <1>2, <2>3 DEF CommandRecords
  <2>5. CommandOK(t)'
    BY <1>1, <2>2, <2>3, CopyFacts, PartsAssumption DEF CommandOK, Begins, Installing, Does, CopyCloses, bounds, past
  <2> HIDE DEF c
  <2> QED
    BY <1>1, <1>3, <2>1, <2>4, <2>5, CopyFacts, OneMoves DEF CopyCloses, Ran, bounds, past
<1>5. CASE cmd[t].left # {}
  <2> DEFINE c == [cmd[t] EXCEPT !.open = Nothing]
  <2>1. cmd' = [cmd EXCEPT ![t] = c] /\ cmd'[t] = c
    BY <1>2, <1>5 DEF CopyCloses, Become
  <2>2. /\ cmd'[t].todo = cmd[t].todo /\ cmd'[t].op = cmd[t].op /\ cmd'[t].at = cmd[t].at
        /\ cmd'[t].dst = cmd[t].dst /\ cmd'[t].want = cmd[t].want /\ cmd'[t].pkg = cmd[t].pkg
        /\ cmd'[t].left = cmd[t].left /\ cmd'[t].open = Nothing
    BY <1>2, <2>1 DEF CommandRecords
  <2>6. c \in CommandRecords
    BY <1>2 DEF CommandRecords
  <2>3. Shape(t)' /\ (HasWork(t)' <=> HasWork(t)) /\ Task(t)' = Task(t)
    BY <1>1, <2>2, CopyFacts DEF CommandOK, Shape, HasWork, Swaps, Fills, Drops, Renames, Does, Installing, Task
  <2>4. Nothing \notin cmd[t].left
    BY <1>2, PartsAssumption DEF CommandRecords
  <2>5. CommandOK(t)'
    BY <1>1, <2>2, <2>3, <2>4, CopyFacts DEF CommandOK, Begins, Installing, Does, CopyCloses, bounds, past
  <2> HIDE DEF c
  <2> QED
    BY <1>1, <1>3, <2>1, <2>5, <2>6, CopyFacts, OneMoves DEF CopyCloses, Ran, bounds, past
<1> QED
  BY <1>4, <1>5

(* The rest of the steps.                                                  *)
LEMMA IoFailsRan == ASSUME Ran, NEW t \in Terminals, IoFails(t) PROVE Ran'
<1>1. cmd \in [Terminals -> CommandRecords] /\ HasWork(t)
  BY DEF IoFails, Ran
<1>2. cmd' = [cmd EXCEPT ![t] = Retry(cmd[t])] /\ cmd'[t] = Retry(cmd[t])
  BY <1>1 DEF IoFails, Become
<1> QED
  BY <1>1, <1>2, WorkFacts, Retries, OneMoves DEF IoFails, Ran

LEMMA DisturbedRan == ASSUME Ran, NEW t \in Terminals, Disturbed(t) PROVE Ran'
<1>1. cmd \in [Terminals -> CommandRecords] /\ HasWork(t)
  BY DEF Disturbed, Ran
<1>2. cmd' = [cmd EXCEPT ![t] = Retry(cmd[t])] /\ cmd'[t] = Retry(cmd[t])
  BY <1>1 DEF Disturbed, Become
<1> QED
  BY <1>1, <1>2, WorkFacts, Retries, OneMoves DEF Disturbed, Ran, past

LEMMA PlacedRan == ASSUME Ran, NEW t \in Terminals, Placed(t) PROVE Ran'
<1>1. /\ cmd \in [Terminals -> CommandRecords] /\ Installing(t) /\ Active(t) /\ cmd[t].pkg \in placed
  BY DEF Placed, Ran, Installing, Does, CommandOK, Active, Resting, Closed
<1>2. CASE cmd' = [cmd EXCEPT ![t] = Resting] /\ owed' = owed \cup {cmd[t].pkg}
  <2>1. cmd'[t] = Resting
    BY <1>1, <1>2
  <2> QED
    BY <1>1, <1>2, <2>1, Rests, OneMoves DEF Placed, Ran
<1>3. CASE cmd' = [cmd EXCEPT ![t] = Retry(cmd[t])] /\ owed' = owed
  <2>1. cmd'[t] = Retry(cmd[t])
    BY <1>1, <1>3
  <2> QED
    BY <1>1, <1>3, <2>1, Retries, OneMoves DEF Placed, Ran
<1> QED
  BY <1>2, <1>3 DEF Placed, Answer, Become

LEMMA LookToUninstallRan == ASSUME Ran, NEW t \in Terminals, LookToUninstall(t) PROVE Ran'
<1>1. /\ cmd \in [Terminals -> CommandRecords] /\ Active(t) /\ CommandOK(t)
      /\ cmd[t].at = "look" /\ cmd[t].op = "uninstall" /\ Begins(t)
  <2>1. /\ cmd \in [Terminals -> CommandRecords] /\ Active(t) /\ CommandOK(t)
        /\ cmd[t].at = "look" /\ cmd[t].op = "uninstall"
    <3>1. cmd[t].at = "look" /\ cmd[t].op = "uninstall"
      BY DEF LookToUninstall
    <3> QED
      BY <3>1 DEF Ran, Active, Resting, Closed
  <2> QED
    BY <2>1 DEF CommandOK
<1>2. CASE cmd' = [cmd EXCEPT ![t] = Resting] /\ UNCHANGED <<owed, removed>>
  <2>1. cmd'[t] = Resting
    BY <1>1, <1>2
  <2> QED
    BY <1>1, <1>2, <2>1, Rests, OneMoves DEF LookToUninstall, Ran
<1>3. ASSUME NEW L \in Legibles, NEW x \in Best(Installed(L), cmd[t].want),
             cmd' = [cmd EXCEPT ![t] = [cmd[t] EXCEPT !.at = "work", !.todo = <<Deletion(x[1])>>]],
             owed' = owed \ {x[2]}, removed' = removed \cup {x[2]}
      PROVE  Ran'
  <2>1. x[1] \in Dirs
    BY <1>3, ListingsType
  <2> DEFINE c == [cmd[t] EXCEPT !.at = "work", !.todo = Dropping(x[1])]
  <2>2. cmd' = [cmd EXCEPT ![t] = c] /\ cmd'[t] = c
    BY <1>1, <1>3 DEF Dropping
  <2>3. c \in CommandRecords
    BY <1>1, <2>1, TaskTypes, ZenonT(30) DEF CommandRecords
  <2>4. /\ cmd'[t].at = "work" /\ cmd'[t].op = "uninstall" /\ cmd'[t].todo = Dropping(x[1])
        /\ cmd'[t].left = {} /\ cmd'[t].open = Nothing
    BY <1>1, <2>2 DEF CommandRecords, Begins
  <2>5. CommandOK(t)'
    BY <1>3, <2>1, <2>4, PartsAssumption DEF CommandOK, Shape, Drops, Begins, Installing, Does
  <2> HIDE DEF c
  <2> QED
    BY <1>1, <1>3, <2>2, <2>3, <2>5, OneMoves DEF LookToUninstall, Ran
<1> QED
  BY <1>2, <1>3 DEF LookToUninstall, Become

LEMMA RemovedRan == ASSUME Ran, NEW t \in Terminals, Removed(t) PROVE Ran'
<1>1. /\ cmd \in [Terminals -> CommandRecords] /\ Active(t) /\ CommandOK(t)
      /\ cmd[t].at = "work" /\ cmd[t].op = "uninstall" /\ ~HasWork(t)
  BY DEF Removed, Ran, Active, Resting, Closed
<1> DEFINE c == [cmd[t] EXCEPT !.at = "fix"]
<1>2. cmd' = [cmd EXCEPT ![t] = c] /\ cmd'[t] = c
  BY <1>1 DEF Removed, Become
<1>3. c \in CommandRecords
  BY <1>1 DEF CommandRecords
<1>4. /\ cmd'[t].at = "fix" /\ cmd'[t].op = "uninstall" /\ cmd'[t].todo = << >>
      /\ cmd'[t].left = cmd[t].left /\ cmd'[t].open = cmd[t].open
  BY <1>1, <1>2 DEF CommandRecords, HasWork
<1>5. CommandOK(t)'
  BY <1>1, <1>4 DEF CommandOK, Shape, HasWork, Begins, Installing, Does, Removed, past
<1> HIDE DEF c
<1> QED
  BY <1>1, <1>2, <1>3, <1>5, OneMoves DEF Removed, Ran, past

LEMMA FixRan == ASSUME Ran, NEW t \in Terminals, Fix(t) PROVE Ran'
<1>1. /\ cmd \in [Terminals -> CommandRecords] /\ Active(t) /\ CommandOK(t)
      /\ cmd[t].at = "fix" /\ cmd[t].op = "uninstall" /\ Begins(t)
  <2>1. cmd \in [Terminals -> CommandRecords] /\ Active(t) /\ CommandOK(t) /\ cmd[t].at = "fix"
    <3>1. cmd[t].at = "fix"
      BY DEF Fix
    <3> QED
      BY <3>1 DEF Ran, Active, Resting, Closed
  <2> QED
    BY <2>1 DEF CommandOK
<1>2. CASE cmd' = [cmd EXCEPT ![t] = Resting]
  <2>1. cmd'[t] = Resting
    BY <1>1, <1>2
  <2> QED
    BY <1>1, <1>2, <2>1, Rests, OneMoves DEF Fix, Ran, past
<1>3. ASSUME NEW L \in Legibles, NEW x \in Best(Installed(L), AnyOfTheName), shelf[Plain] = NoDir,
             cmd' = [cmd EXCEPT ![t] = [cmd[t] EXCEPT !.at = "tidy", !.todo = TakesPlainName(x[1])]]
      PROVE  Ran'
  <2>1. x[1] \in Dirs \ {Plain}
    BY <1>3, ListingsType
  <2> DEFINE c == [cmd[t] EXCEPT !.at = "tidy", !.todo = TakesPlainName(x[1])]
  <2>2. cmd' = [cmd EXCEPT ![t] = c] /\ cmd'[t] = c
    BY <1>1, <1>3
  <2>3. c \in CommandRecords
    BY <1>1, <2>1, TaskTypes, ZenonT(30) DEF CommandRecords
  <2>4. /\ cmd'[t].at = "tidy" /\ cmd'[t].op = "uninstall" /\ cmd'[t].todo = TakesPlainName(x[1])
        /\ cmd'[t].left = {} /\ cmd'[t].open = Nothing
    BY <1>1, <2>2 DEF CommandRecords, Begins
  <2>5. CommandOK(t)'
    BY <1>1, <2>1, <2>4, PartsAssumption DEF CommandOK, Shape, Renames, Begins, Installing, Does, Fix, past
  <2> HIDE DEF c
  <2> QED
    BY <1>1, <1>3, <2>2, <2>3, <2>5, OneMoves DEF Fix, Ran, past
<1> QED
  BY <1>2, <1>3 DEF Fix, Become

LEMMA TidiedRan == ASSUME Ran, NEW t \in Terminals, Tidied(t) PROVE Ran'
<1>1. Active(t) /\ cmd \in [Terminals -> CommandRecords]
  BY DEF Tidied, Active, Resting, Closed, Ran
<1>2. cmd' = [cmd EXCEPT ![t] = Resting] /\ cmd'[t] = Resting
  BY <1>1 DEF Tidied, Become
<1> QED
  BY <1>1, <1>2, Rests, OneMoves DEF Tidied, Ran, past

LEMMA KilledRan == ASSUME Ran, NEW t \in Terminals, Killed(t) PROVE Ran'
<1>1. Active(t) /\ cmd \in [Terminals -> CommandRecords]
  BY DEF Killed, Active, Ran
<1>2. cmd' = [cmd EXCEPT ![t] = Resting] /\ cmd'[t] = Resting
  BY <1>1 DEF Killed, Become
<1> QED
  BY <1>1, <1>2, Rests, OneMoves DEF Killed, Ran

LEMMA RanStep == ASSUME Ran, [PackageNext]_packageVars PROVE Ran'
BY StillRan, RunRan, LookToInstallRan, LookToUninstallRan, ListingFailsRan, FetchRan, FetchFailsRan,
   PlaceRan, RemoveFileRan, RemoveDirRan, MakeDirRan, CopyOpensRan, CopyClosesRan, IoFailsRan,
   DisturbedRan, PlacedRan, RemovedRan, FixRan, TidiedRan, KilledRan
   DEF PackageNext

LEMMA RanInit == PackageInit => Ran
<1> SUFFICES ASSUME PackageInit PROVE Ran
  OBVIOUS
<1>1. ASSUME NEW t \in Terminals PROVE cmd[t] \in {Resting, Closed}
  BY DEF PackageInit
<1>0. Closed = [at |-> "closed", op |-> "install", want |-> Nothing, mirror |-> 0, pkg |-> Nothing,
                dst |-> Nothing, todo |-> << >>, left |-> {}, open |-> Nothing]
  BY DEF Closed, Resting
<1>2. Resting \in CommandRecords /\ Closed \in CommandRecords
  BY <1>0 DEF Resting, CommandRecords
<1>3. ASSUME NEW t \in Terminals PROVE CommandOK(t)
  <2>1. /\ cmd[t].at \in {"idle", "closed"} /\ cmd[t].op = "install" /\ cmd[t].todo = << >>
        /\ cmd[t].left = {} /\ cmd[t].open = Nothing
    BY <1>0, <1>1 DEF Resting
  <2> QED
    BY <1>1, <2>1 DEF CommandOK, Shape, HasWork, Begins, Installing, Does
<1>4. cmd \in [Terminals -> CommandRecords]
  BY <1>1, <1>2 DEF PackageInit
<1> QED
  BY <1>1, <1>3, <1>4 DEF PackageInit, Ran, OneAtWork, Active

-----------------------------------------------------------------------------
(***************************************************************************)
(* One package, installed in any number of terminals at a time.            *)
(***************************************************************************)

LEMMA FillFacts ==
  ASSUME NEW t, NEW d, Fills(t, d)
  PROVE  /\ HasWork(t) /\ Task(t).to = d
         /\ \/ Task(t).act = "remove" /\ Tail(cmd[t].todo) = Unpacking(d)
            \/ /\ Task(t).act = "copy" /\ Task(t).from = Unpacked
               /\ Source(t) = Complete(cmd[t].pkg) /\ Tail(cmd[t].todo) = << >>
<1>1. CASE cmd[t].todo = Clearing(d)
  BY <1>1, TaskSequences, TaskFields DEF HasWork, Task
<1>2. CASE cmd[t].todo = Unpacking(d)
  <2>1. HasWork(t) /\ Task(t) = Copying(Unpacked, d) /\ Tail(cmd[t].todo) = << >>
    BY <1>2, TaskSequences DEF HasWork, Task
  <2> QED
    BY <2>1, TaskFields DEF Source
<1> QED
  BY <1>1, <1>2 DEF Fills

(* A command without work does not come between those that have some.      *)
LEMMA AlikeBeside ==
  ASSUME Ran, NEW t \in Terminals, NEW g \in Packages, Alike(g), ~HasWork(t), ~HasWork(t)', Begins(t)',
         \A u \in Terminals \ {t} : cmd'[u] = cmd[u], shelf' = shelf, placed' = placed
  PROVE  Alike(g)'
<1>1. Begins(t)
  BY DEF Ran, CommandOK
<1>2. \A u \in Terminals \ {t} : /\ HasWork(u)' <=> HasWork(u)
                                 /\ Begins(u)' <=> Begins(u)
                                 /\ Fills(u, Plain)' <=> Fills(u, Plain)
  BY DEF HasWork, Begins, Fills
<1>3. ToCome => ToCome'
  BY <1>2 DEF ToCome
<1>4. EachPart(g) => EachPart(g)'
  <2> SUFFICES ASSUME EachPart(g) PROVE EachPart(g)'
    OBVIOUS
  <2>1. ASSUME NEW u \in Terminals, cmd[u].left # {} \/ cmd[u].open # Nothing PROVE u # t
    BY <2>1, <1>1 DEF Begins
  <2>2. /\ \A u \in Terminals : "meta" \in cmd[u].left \/ cmd[u].open = "meta" => cmd'[u] = cmd[u]
        /\ \A u \in Terminals : "files" \in cmd[u].left \/ cmd[u].open = "files" => cmd'[u] = cmd[u]
    BY <2>1, PartsAssumption DEF Parts
  <2> QED
    BY <2>2 DEF EachPart
<1>5. \A u \in Terminals : HasWork(u)' => Fills(u, Plain)'
  BY <1>2 DEF Alike
<1> QED
  BY <1>3, <1>4, <1>5 DEF Alike

(* Work in hand of one package's installation.                             *)
LEMMA AlikeWork ==
  ASSUME Ran, NEW t \in Terminals, NEW g \in Packages, Alike(g), placed \subseteq {g}, removed = {},
         HasWork(t)
  PROVE  /\ Fills(t, Plain) /\ Task(t).to = Plain /\ Installing(t) /\ cmd[t].pkg = g
         /\ Task(t).act = "copy" => Source(t) = Complete(g)
         /\ placed = {g}
<1>1. Fills(t, Plain) /\ CommandOK(t)
  BY DEF Alike, Ran
<1>2. Installing(t)
  BY <1>1, FillFacts DEF CommandOK, Shape, Does
<1> QED
  BY <1>1, <1>2, FillFacts DEF CommandOK

LEMMA AlikePlace ==
  ASSUME Ran, Ran', NEW t \in Terminals, Place(t), NEW g \in Packages, placed' \subseteq {g}, Alike(g)
  PROVE  Alike(g)'
<1>1. /\ cmd[t].pkg = g /\ cmd[t].at = "place" /\ ~HasWork(t) /\ Begins(t)
      /\ cmd \in [Terminals -> CommandRecords] /\ cmd[t] \in CommandRecords
  BY DEF Place, Ran, CommandOK
<1>2. Placement(g, MetaOf(Plain)) = Clearing(Plain) /\ Last(Placement(g, MetaOf(Plain))).to = Plain
  <2>1. MetaOf(Plain) \in {g, Nothing, Torn}
    BY DEF Alike, MetaOf
  <2>2. ~Outranks(g, g) /\ ~YieldsTo(g, g)
    BY PackageFacts DEF Outranks, YieldsTo
  <2>3. Nothing \notin Packages /\ Torn \notin Packages
    BY NamesAssumption
  <2> QED
    BY <2>1, <2>2, <2>3, Placements
<1>3. /\ cmd' = [cmd EXCEPT ![t] = [cmd[t] EXCEPT !.at = "work", !.todo = Clearing(Plain), !.dst = Plain]]
  BY <1>1, <1>2 DEF Place, Become
<1>4. cmd'[t].todo = Clearing(Plain) /\ cmd'[t].dst = Plain /\ Begins(t)'
  <2>1. cmd'[t] = [cmd[t] EXCEPT !.at = "work", !.todo = Clearing(Plain), !.dst = Plain]
    BY <1>1, <1>3
  <2> QED
    BY <1>1, <2>1 DEF CommandRecords, Begins
<1>5. HasWork(t)' /\ Fills(t, Plain)'
  BY <1>4, TaskSequences DEF HasWork, Fills
<1>6. \A u \in Terminals \ {t} : cmd'[u] = cmd[u]
  BY <1>3
<1>7. \A u \in Terminals : HasWork(u)' => Fills(u, Plain)'
  BY <1>5, <1>6 DEF Alike, HasWork, Fills
<1> QED
  BY <1>4, <1>5, <1>7 DEF Alike, ToCome, Place

LEMMA AlikeRemoval ==
  ASSUME Ran, Ran', NEW t \in Terminals, RemoveFile(t) \/ RemoveDir(t),
         NEW g \in Packages, placed' \subseteq {g}, removed = {}, Alike(g)
  PROVE  Alike(g)'
<1>1. placed' = placed /\ HasWork(t) /\ Task(t).act = "remove" /\ cmd \in [Terminals -> CommandRecords]
  BY DEF RemoveFile, RemoveDir, past, Ran
<1>2. Fills(t, Plain) /\ Task(t).to = Plain /\ Tail(cmd[t].todo) = Unpacking(Plain) /\ Begins(t)
  BY <1>1, AlikeWork, FillFacts DEF Ran, CommandOK
<1>3. CASE RemoveFile(t)
  <2>1. cmd' = cmd
    BY <1>3 DEF RemoveFile
  <2>2. ToCome'
    BY <1>1, <1>2, <2>1 DEF ToCome, HasWork, Begins
  <2>3. shelf'[Plain] # NoDir => shelf'[Plain].meta \in {g, Nothing, Torn} /\ shelf'[Plain].of \subseteq {g}
    <3>1. shelf[Plain] \in Contents /\ shelf \in [Dirs -> {NoDir} \cup Contents] /\ Plain \in Dirs
      BY <1>2, <1>3, DirFacts DEF RemoveFile, Ran
    <3>2. PICK c \in {[shelf[Plain] EXCEPT !.meta = Nothing], [shelf[Plain] EXCEPT !.whole = FALSE],
                      [shelf[Plain] EXCEPT !.of = {}]} : shelf'[Plain] = c
      BY <1>2, <1>3, <3>1 DEF RemoveFile, SetDir
    <3>3. shelf[Plain].meta \in {g, Nothing, Torn} /\ shelf[Plain].of \subseteq {g}
      BY <3>1, PartsAssumption DEF Alike
    <3> QED
      BY <3>1, <3>2, <3>3 DEF Contents
  <2>4. \A u \in Terminals : HasWork(u)' => Fills(u, Plain)'
    BY <2>1 DEF Alike, HasWork, Fills
  <2> QED
    BY <2>2, <2>3, <2>4 DEF Alike
<1>4. CASE RemoveDir(t)
  <2>1. cmd' = [cmd EXCEPT ![t] = [cmd[t] EXCEPT !.todo = Unpacking(Plain), !.left = {}]]
    BY <1>2, <1>4 DEF RemoveDir, TaskDone, Become
  <2>2. cmd'[t].todo = Unpacking(Plain) /\ cmd'[t].dst = Plain /\ Begins(t)'
    <3>1. cmd'[t] = [cmd[t] EXCEPT !.todo = Unpacking(Plain), !.left = {}] /\ cmd[t] \in CommandRecords
      BY <1>1, <2>1
    <3> QED
      BY <1>2, <3>1 DEF Begins, Fills, CommandRecords
  <2>3. HasWork(t)' /\ Fills(t, Plain)'
    BY <2>2, TaskSequences DEF HasWork, Fills
  <2>4. \A u \in Terminals : HasWork(u)' => Fills(u, Plain)'
    BY <2>1, <2>3 DEF Alike, HasWork, Fills
  <2>5. shelf'[Plain] = NoDir
    BY <1>2, <1>4, DirFacts DEF RemoveDir, SetDir, Ran
  <2> QED
    BY <2>2, <2>3, <2>4, <2>5 DEF Alike, ToCome
<1> QED
  BY <1>3, <1>4

LEMMA AlikeMakeDir ==
  ASSUME Ran, Ran', NEW t \in Terminals, MakeDir(t),
         NEW g \in Packages, placed' \subseteq {g}, removed = {}, Alike(g)
  PROVE  Alike(g)'
<1>1. placed' = placed /\ HasWork(t) /\ Task(t).act = "copy" /\ cmd \in [Terminals -> CommandRecords]
  BY DEF MakeDir, past, Ran
<1>2. Fills(t, Plain) /\ Task(t).to = Plain /\ Source(t) = Complete(g)
  BY <1>1, AlikeWork DEF MakeDir, past
<1>3. SourceParts(t) = Parts
  <2>1. Complete(g).meta = g /\ Complete(g).of = {g} /\ g # Nothing
    BY PackageFacts DEF Complete
  <2> QED
    BY <1>2, <2>1 DEF SourceParts
<1>4. cmd' = [cmd EXCEPT ![t] = [cmd[t] EXCEPT !.left = Parts]]
  BY <1>3 DEF MakeDir, Become
<1>5. cmd'[t].left = Parts /\ cmd'[t].todo = cmd[t].todo /\ cmd'[t].dst = cmd[t].dst
  BY <1>1, <1>4 DEF CommandRecords
<1>6. shelf'[Plain] = IF shelf[Plain] = NoDir THEN Empty ELSE shelf[Plain]
  BY <1>2, DirFacts DEF MakeDir, SetDir, Ran
<1>7. Empty # NoDir /\ Empty.meta = Nothing /\ Empty.of = {}
  <2>1. Empty \in Contents
    BY DEF Empty, Contents
  <2> QED
    BY <2>1, PartsAssumption DEF Empty
<1>8. shelf'[Plain] # NoDir /\ shelf'[Plain].meta \in {g, Nothing, Torn} /\ shelf'[Plain].of \subseteq {g}
  BY <1>6, <1>7 DEF Alike
<1>9. EachPart(g)'
  BY <1>5, <1>8 DEF EachPart, Parts
<1>10. \A u \in Terminals : HasWork(u)' => Fills(u, Plain)'
  BY <1>2, <1>4, <1>5 DEF Alike, HasWork, Fills
<1> QED
  BY <1>8, <1>9, <1>10 DEF Alike

(* What the others are to bring, while one terminal works on the parts.    *)
LEMMA OthersBring ==
  ASSUME NEW t \in Terminals, \A u \in Terminals \ {t} : cmd'[u] = cmd[u], ~Begins(t), ToCome
  PROVE  ToCome'
BY DEF ToCome, HasWork, Begins

LEMMA AlikeCopyOpens ==
  ASSUME Ran, Ran', NEW t \in Terminals, CopyOpens(t),
         NEW g \in Packages, placed' \subseteq {g}, removed = {}, Alike(g)
  PROVE  Alike(g)'
<1>1. /\ placed' = placed /\ HasWork(t) /\ ~Begins(t) /\ cmd[t].open = Nothing
      /\ cmd \in [Terminals -> CommandRecords]
  BY DEF CopyOpens, past, Ran, Begins
<1>2. /\ Fills(t, Plain) /\ Task(t).to = Plain /\ Source(t) = Complete(g) /\ shelf[Plain] \in Contents
      /\ shelf \in [Dirs -> {NoDir} \cup Contents] /\ Plain \in Dirs /\ placed = {g}
  BY <1>1, AlikeWork, CopyFacts DEF CopyOpens, past, Ran
<1>3. PICK p \in cmd[t].left :
        /\ cmd' = [cmd EXCEPT ![t] = [cmd[t] EXCEPT !.open = p, !.left = cmd[t].left \ {p}]]
        /\ SetDir(Plain, IF p = "meta" THEN [shelf[Plain] EXCEPT !.meta = Torn]
                         ELSE [shelf[Plain] EXCEPT !.of = @ \cup Source(t).of, !.whole = FALSE])
  BY <1>2 DEF CopyOpens, Become
<1>4. /\ cmd'[t].left = cmd[t].left \ {p} /\ cmd'[t].open = p
      /\ cmd'[t].todo = cmd[t].todo /\ cmd'[t].dst = cmd[t].dst /\ p \in Parts
  BY <1>1, <1>3 DEF CommandRecords
<1>5. \A u \in Terminals \ {t} : cmd'[u] = cmd[u]
  BY <1>3
<1>6. \A u \in Terminals : HasWork(u)' => Fills(u, Plain)'
  BY <1>2, <1>4, <1>5 DEF Alike, HasWork, Fills
<1>7. shelf[Plain].meta \in {g, Nothing, Torn} /\ shelf[Plain].of \subseteq {g}
  BY <1>2, PartsAssumption DEF Alike
<1>8. CASE p = "meta"
  <2>1. /\ shelf'[Plain].meta = Torn /\ shelf'[Plain].of = shelf[Plain].of
        /\ shelf'[Plain].whole = shelf[Plain].whole /\ shelf'[Plain] # NoDir
    <3>1. shelf'[Plain] = [shelf[Plain] EXCEPT !.meta = Torn]
      BY <1>2, <1>3, <1>8 DEF SetDir
    <3>2. shelf'[Plain] \in Contents
      BY <1>2, <3>1 DEF Contents
    <3> QED
      BY <1>2, <3>1, <3>2, PartsAssumption DEF Contents
  <2>2. EachPart(g) => EachPart(g)'
    <3> SUFFICES ASSUME EachPart(g) PROVE EachPart(g)'
      OBVIOUS
    <3>1. \E u \in Terminals : cmd'[u].open = "meta"
      BY <1>4, <1>8
    <3>2. ASSUME NEW u \in Terminals, "files" \in cmd[u].left PROVE "files" \in cmd'[u].left
      BY <1>4, <1>5, <1>8, <3>2
    <3>3. ASSUME NEW u \in Terminals, cmd[u].open = "files" PROVE cmd'[u].open = "files"
      BY <1>1, <1>5, <3>3, PartsAssumption DEF Parts
    <3> QED
      BY <2>1, <3>1, <3>2, <3>3 DEF EachPart
  <2> QED
    BY <1>1, <1>2, <1>5, <1>6, <1>7, <2>1, <2>2, OthersBring DEF Alike
<1>9. CASE p = "files"
  <2>1. /\ shelf'[Plain].meta = shelf[Plain].meta /\ shelf'[Plain].of = {g} /\ shelf'[Plain] # NoDir
    <3>1. shelf'[Plain] = [shelf[Plain] EXCEPT !.of = shelf[Plain].of \cup {g}, !.whole = FALSE]
      BY <1>2, <1>3, <1>9 DEF SetDir, Complete
    <3>2. shelf'[Plain] \in Contents
      <4>1. shelf[Plain].of \cup {g} \in SUBSET Packages
        BY <1>2 DEF Contents
      <4> QED
        BY <1>2, <3>1, <4>1 DEF Contents
    <3> QED
      BY <1>2, <1>7, <3>1, <3>2, PartsAssumption DEF Contents
  <2>2. EachPart(g) => EachPart(g)'
    BY <1>1, <1>4, <1>5, <1>9, <2>1, PartsAssumption DEF EachPart, Parts
  <2> QED
    BY <1>1, <1>2, <1>5, <1>6, <1>7, <2>1, <2>2, OthersBring DEF Alike
<1> QED
  BY <1>4, <1>8, <1>9 DEF Parts

LEMMA AlikeCopyCloses ==
  ASSUME Ran, Ran', NEW t \in Terminals, CopyCloses(t),
         NEW g \in Packages, placed' \subseteq {g}, removed = {}, Alike(g)
  PROVE  Alike(g)'
<1>1. /\ placed' = placed /\ HasWork(t) /\ ~Begins(t) /\ cmd[t].open \in Parts
      /\ cmd \in [Terminals -> CommandRecords] /\ cmd[t] \in CommandRecords
      /\ cmd[t].open \notin cmd[t].left
  BY DEF CopyCloses, past, Ran, Begins, CommandRecords, CommandOK
<1>2. /\ Fills(t, Plain) /\ Task(t).to = Plain /\ Source(t) = Complete(g) /\ shelf[Plain] \in Contents
      /\ shelf \in [Dirs -> {NoDir} \cup Contents] /\ Plain \in Dirs /\ placed = {g}
      /\ Tail(cmd[t].todo) = << >>
  BY <1>1, AlikeWork, FillFacts, CopyFacts DEF CopyCloses, past, Ran
<1>3. /\ cmd'[t].left = cmd[t].left /\ cmd'[t].open = Nothing /\ cmd'[t].dst = cmd[t].dst
      /\ cmd'[t].todo = cmd[t].todo \/ cmd'[t].todo = << >>
  <2>1. CASE cmd[t].left = {}
    <3>1. cmd'[t] = [cmd[t] EXCEPT !.open = Nothing, !.todo = << >>]
      BY <1>1, <1>2, <2>1 DEF CopyCloses, Become
    <3> QED
      BY <1>1, <3>1 DEF CommandRecords
  <2>2. CASE cmd[t].left # {}
    <3>1. cmd'[t] = [cmd[t] EXCEPT !.open = Nothing]
      BY <1>1, <2>2 DEF CopyCloses, Become
    <3> QED
      BY <1>1, <3>1 DEF CommandRecords
  <2> QED
    BY <2>1, <2>2
<1>4. \A u \in Terminals \ {t} : cmd'[u] = cmd[u]
  BY <1>1 DEF CopyCloses, Become
<1>5. \A u \in Terminals : HasWork(u)' => Fills(u, Plain)'
  BY <1>2, <1>3, <1>4 DEF Alike, HasWork, Fills
<1>6. shelf[Plain].meta \in {g, Nothing, Torn} /\ shelf[Plain].of \subseteq {g}
  BY <1>2, PartsAssumption DEF Alike
<1>7. CASE cmd[t].open = "meta"
  <2>1. /\ shelf'[Plain].meta = g /\ shelf'[Plain].of = shelf[Plain].of
        /\ shelf'[Plain].whole = shelf[Plain].whole /\ shelf'[Plain] # NoDir
    <3>1. shelf'[Plain] = [shelf[Plain] EXCEPT !.meta = g]
      BY <1>2, <1>7 DEF CopyCloses, SetDir, Complete
    <3>2. shelf'[Plain] \in Contents
      BY <1>2, <3>1 DEF Contents
    <3> QED
      BY <1>2, <3>1, <3>2, PartsAssumption DEF Contents
  <2>2. EachPart(g) => EachPart(g)'
    BY <1>3, <1>4, <1>7, <2>1 DEF EachPart
  <2> QED
    BY <1>1, <1>2, <1>4, <1>5, <1>6, <2>1, <2>2, OthersBring DEF Alike
<1>8. CASE cmd[t].open = "files"
  <2>1. /\ shelf'[Plain].meta = shelf[Plain].meta /\ shelf'[Plain].of = shelf[Plain].of
        /\ shelf'[Plain].whole = TRUE /\ shelf'[Plain] # NoDir
    <3>1. shelf'[Plain] = [shelf[Plain] EXCEPT !.whole = TRUE]
      BY <1>2, <1>8 DEF CopyCloses, SetDir, Complete
    <3>2. shelf'[Plain] \in Contents
      BY <1>2, <3>1 DEF Contents
    <3> QED
      BY <1>2, <3>1, <3>2, PartsAssumption DEF Contents
  <2>2. EachPart(g) => EachPart(g)'
    BY <1>1, <1>3, <1>4, <1>8, <2>1 DEF EachPart
  <2> QED
    BY <1>1, <1>2, <1>4, <1>5, <1>6, <2>1, <2>2, OthersBring DEF Alike
<1> QED
  BY <1>1, <1>7, <1>8 DEF Parts

(* Its directory is gone under a copy: another command is to fill it.      *)
LEMMA AlikeDisturbed ==
  ASSUME Ran, Ran', NEW t \in Terminals, Disturbed(t),
         NEW g \in Packages, placed' \subseteq {g}, removed = {}, Alike(g)
  PROVE  Alike(g)'
<1>1. /\ placed' = placed /\ shelf' = shelf /\ HasWork(t) /\ Task(t).act = "copy"
      /\ cmd \in [Terminals -> CommandRecords]
      /\ cmd' = [cmd EXCEPT ![t] = Retry(cmd[t])]
  BY DEF Disturbed, past, Ran, Become
<1>2. Task(t).to = Plain /\ Source(t) = Complete(g) /\ placed = {g}
  BY <1>1, AlikeWork
<1>3. Complete(g) # Empty /\ Complete(g) # NoDir
  <2>1. Complete(g) \in Contents /\ Complete(g).of # Empty.of
    BY DEF Complete, Contents, Empty
  <2> QED
    BY <2>1, PartsAssumption
<1>4. shelf[Plain] = NoDir /\ ~Begins(t)
  BY <1>2, <1>3 DEF Disturbed, Begins
<1>5. \A u \in Terminals \ {t} : cmd'[u] = cmd[u]
  BY <1>1
<1>6. ToCome'
  BY <1>2, <1>4, <1>5, OthersBring DEF Alike, EachPart
<1>7. ~HasWork(t)'
  BY <1>1, Retries
<1>8. \A u \in Terminals : HasWork(u)' => Fills(u, Plain)'
  BY <1>5, <1>7 DEF Alike, HasWork, Fills
<1> QED
  BY <1>1, <1>4, <1>6, <1>8 DEF Alike

(* The steps of one terminal, and what none of them takes back.            *)
PackageStep(t) ==
  \/ Run(t) \/ LookToInstall(t) \/ LookToUninstall(t) \/ ListingFails(t)
  \/ Fetch(t) \/ FetchFails(t) \/ Place(t)
  \/ RemoveFile(t) \/ RemoveDir(t) \/ MakeDir(t) \/ CopyOpens(t) \/ CopyCloses(t)
  \/ IoFails(t) \/ Disturbed(t) \/ Placed(t)
  \/ Removed(t) \/ Fix(t) \/ Tidied(t) \/ Killed(t)

LEMMA StepsGoOn ==
  ASSUME Ran, NEW t \in Terminals, PackageStep(t)
  PROVE  /\ placed \subseteq placed' /\ removed \subseteq removed'
         /\ \A u \in Terminals \ {t} : cmd'[u] = cmd[u]
         /\ (cut' = "no" => cut = "no") /\ (cut' # "resumed" => cut # "resumed")
<1>1. placed \subseteq placed'
  BY DEF PackageStep, Run, LookToInstall, LookToUninstall, ListingFails, Fetch, FetchFails, Place,
         RemoveFile, RemoveDir, MakeDir, CopyOpens, CopyCloses, IoFails, Disturbed, Placed,
         Removed, Fix, Tidied, Killed, past
<1>2. removed \subseteq removed'
  BY DEF PackageStep, Run, LookToInstall, LookToUninstall, ListingFails, Fetch, FetchFails, Place,
         RemoveFile, RemoveDir, MakeDir, CopyOpens, CopyCloses, IoFails, Disturbed, Placed,
         Removed, Fix, Tidied, Killed, past
<1>3. (cut' = "no" => cut = "no") /\ (cut' # "resumed" => cut # "resumed")
  BY DEF PackageStep, Run, LookToInstall, LookToUninstall, ListingFails, Fetch, FetchFails, Place,
         RemoveFile, RemoveDir, MakeDir, CopyOpens, CopyCloses, IoFails, Disturbed, Placed,
         Removed, Fix, Tidied, Killed, past
<1>4. cmd' = cmd \/ \E c : cmd' = [cmd EXCEPT ![t] = c]
  BY DEF PackageStep, Run, LookToInstall, LookToUninstall, ListingFails, Fetch, FetchFails, Place,
         RemoveFile, RemoveDir, MakeDir, CopyOpens, CopyCloses, IoFails, Disturbed, Placed,
         Removed, Fix, Tidied, Killed, Become, Answer, TaskDone
<1>5. \A u \in Terminals \ {t} : cmd'[u] = cmd[u]
  BY <1>4 DEF Ran
<1> QED
  BY <1>1, <1>2, <1>3, <1>5

(* Steps without work, where nothing was removed or cut short.             *)
LEMMA IdleSteps ==
  ASSUME Ran, Ran', NEW t \in Terminals, cut' = "no", removed' = {},
         \/ Run(t) \/ LookToInstall(t) \/ ListingFails(t) \/ Fetch(t) \/ FetchFails(t)
         \/ Placed(t) \/ LookToUninstall(t) \/ Removed(t) \/ Fix(t) \/ Tidied(t) \/ Killed(t)
  PROVE  ~HasWork(t) /\ ~HasWork(t)' /\ shelf' = shelf /\ placed' = placed
<1>1. CommandOK(t) /\ CommandOK(t)' /\ cmd \in [Terminals -> CommandRecords] /\ cmd[t] \in CommandRecords
  BY DEF Ran
<1>2. cmd'[t] = Resting => ~HasWork(t)'
  BY Rests
<1>3. CASE Run(t)
  <2>1. ~HasWork(t)
    <3>1. cmd[t] = Resting
      BY <1>3 DEF Run
    <3> QED
      BY <3>1 DEF Resting, HasWork
  <2>2. cmd'[t].at = "look"
    BY <1>1, <1>3 DEF Run, Become, Resting
  <2> QED
    BY <1>1, <1>3, <2>1, <2>2 DEF CommandOK, Run
<1>4. CASE LookToInstall(t)
  <2>1. ~HasWork(t)
    BY <1>1, <1>4 DEF CommandOK, LookToInstall
  <2>2. cmd'[t] = Resting \/ cmd'[t].at = "fetch"
    BY <1>1, <1>4, ZenonT(30) DEF LookToInstall, Become, Answer, CommandRecords
  <2> QED
    BY <1>1, <1>2, <1>4, <2>1, <2>2 DEF CommandOK, LookToInstall
<1>5. CASE ListingFails(t)
  <2>1. ~HasWork(t)
    BY <1>1, <1>5 DEF CommandOK, ListingFails
  <2>2. cmd'[t] = Resting
    BY <1>1, <1>5 DEF ListingFails, Become
  <2> QED
    BY <1>2, <1>5, <2>1, <2>2 DEF ListingFails, past
<1>6. CASE Fetch(t)
  <2>1. ~HasWork(t)
    BY <1>1, <1>6 DEF CommandOK, Fetch
  <2>2. cmd'[t].at = "place"
    BY <1>1, <1>6, ZenonT(30) DEF Fetch, Become, CommandRecords
  <2> QED
    BY <1>1, <1>6, <2>1, <2>2 DEF CommandOK, Fetch, past
<1>7. CASE FetchFails(t)
  <2>1. ~HasWork(t) /\ cmd[t].at = "fetch"
    BY <1>1, <1>7 DEF CommandOK, FetchFails
  <2>2. cmd'[t] = Retry(cmd[t])
    BY <1>1, <1>7 DEF FetchFails, Become
  <2> QED
    BY <1>7, <2>1, <2>2, Retries DEF FetchFails, past
<1>8. CASE Placed(t)
  <2>1. ~HasWork(t) /\ Installing(t)
    BY <1>8 DEF Placed, Installing, Does
  <2>2. cmd'[t] = Resting \/ cmd'[t] = Retry(cmd[t])
    BY <1>1, <1>8 DEF Placed, Become, Answer
  <2> QED
    BY <1>2, <1>8, <2>1, <2>2, Retries DEF Placed
<1>9. CASE LookToUninstall(t)
  <2>1. ~HasWork(t)
    BY <1>1, <1>9 DEF CommandOK, LookToUninstall
  <2>2. cmd'[t] = Resting
    BY <1>1, <1>9 DEF LookToUninstall, Become
  <2> QED
    BY <1>2, <1>9, <2>1, <2>2 DEF LookToUninstall
<1>10. CASE Removed(t)
  <2>1. cmd'[t].at = "fix"
    BY <1>1, <1>10 DEF Removed, Become, CommandRecords
  <2> QED
    BY <1>1, <1>10, <2>1 DEF CommandOK, Removed, past
<1>11. CASE Fix(t)
  <2>1. cmd[t].at = "fix" /\ removed = {}
    BY <1>11 DEF Fix, past
  <2> QED
    BY <1>1, <2>1 DEF CommandOK
<1>12. CASE Tidied(t)
  <2>1. cmd'[t] = Resting
    BY <1>1, <1>12 DEF Tidied, Become
  <2> QED
    BY <1>2, <1>12, <2>1 DEF Tidied, past
<1>13. CASE Killed(t)
  <2>1. cmd'[t] = Resting /\ ~HasWork(t)
    BY <1>1, <1>13 DEF Killed, Become
  <2> QED
    BY <1>2, <1>13, <2>1 DEF Killed
<1> QED
  BY <1>3, <1>4, <1>5, <1>6, <1>7, <1>8, <1>9, <1>10, <1>11, <1>12, <1>13

(* The parts of the package are under the plain name, or to come there.    *)
LEMMA TwinsStep == ASSUME Ran, Ran', Twins, [PackageNext]_packageVars PROVE Twins'
<1> SUFFICES ASSUME cut' = "no", removed' = {}, NEW g \in Packages, placed' \subseteq {g} PROVE Alike(g)'
  BY DEF Twins
<1>1. CASE UNCHANGED packageVars
  BY <1>1 DEF Twins, Alike, ToCome, EachPart, HasWork, Begins, Fills, packageVars, past
<1>2. ASSUME NEW t \in Terminals, PackageStep(t) PROVE Alike(g)'
  <2>1. cut = "no" /\ removed = {} /\ placed \subseteq {g}
    <3>1. placed \subseteq placed' /\ removed \subseteq removed' /\ (cut' = "no" => cut = "no")
      BY <1>2, StepsGoOn
    <3> QED
      BY <3>1
  <2>2. Alike(g) /\ CommandOK(t) /\ cmd \in [Terminals -> CommandRecords]
    BY <2>1 DEF Twins, Ran
  <2>3. CASE Place(t) BY <2>2, <2>3, AlikePlace
  <2>4. CASE RemoveFile(t) \/ RemoveDir(t) BY <2>1, <2>2, <2>4, AlikeRemoval
  <2>5. CASE MakeDir(t) BY <2>1, <2>2, <2>5, AlikeMakeDir
  <2>6. CASE CopyOpens(t) BY <2>1, <2>2, <2>6, AlikeCopyOpens
  <2>7. CASE CopyCloses(t) BY <2>1, <2>2, <2>7, AlikeCopyCloses
  <2>8. CASE Disturbed(t) BY <2>1, <2>2, <2>8, AlikeDisturbed
  <2>9. CASE IoFails(t) BY <2>9 DEF IoFails
  <2>10. CASE ~HasWork(t) /\ ~HasWork(t)' /\ shelf' = shelf /\ placed' = placed
    <3>1. Begins(t)'
      BY <2>10 DEF Ran, CommandOK
    <3>2. \A u \in Terminals \ {t} : cmd'[u] = cmd[u]
      BY <1>2, <2>2, StepsGoOn
    <3> QED
      BY <2>2, <2>10, <3>1, <3>2, AlikeBeside
  <2>11. CASE Run(t) \/ LookToInstall(t) \/ ListingFails(t) \/ Fetch(t) \/ FetchFails(t)
    BY <2>2, <2>10, <2>11, IdleSteps
  <2>12. CASE Placed(t) \/ LookToUninstall(t) \/ Removed(t) \/ Fix(t) \/ Tidied(t) \/ Killed(t)
    BY <2>2, <2>10, <2>12, IdleSteps
  <2> QED
    BY <1>2, <2>3, <2>4, <2>5, <2>6, <2>7, <2>8, <2>9, <2>11, <2>12 DEF PackageStep
<1> QED
  BY <1>1, <1>2 DEF PackageNext, PackageStep
-----------------------------------------------------------------------------
(***************************************************************************)
(* What is listed, of directories with whole packages only.                *)
(***************************************************************************)

(* Of some packages, one is the newest: packages as new as another are a   *)
(* subset of those as new as an older one, and finite.                     *)
LEMMA Highest ==
  ASSUME NEW G \in SUBSET Packages, G # {}
  PROVE  \E h \in G : \A k \in G : k.version <= h.version
<1> DEFINE AsNew(g) == {k \in Packages : g.version <= k.version}
           family == {AsNew(g) : g \in G}
<1>1. IsWellFoundedOn(StrictSubsetOrdering(Packages), FiniteSubsetsOf(Packages))
  BY FS_StrictSubsetOrderingWellFounded
<1>2. family \subseteq FiniteSubsetsOf(Packages)
  BY NamesAssumption, FS_Subset DEF FiniteSubsetsOf
<1>3. family # {}
  OBVIOUS
<1> HIDE DEF family
<1>4. PICK least \in family : \A other \in family : <<other, least>> \notin StrictSubsetOrdering(Packages)
  BY <1>1, <1>2, <1>3, WFMin, Zenon
<1>5. PICK h \in G : least = AsNew(h)
  BY DEF family
<1>6. ASSUME NEW k \in G, ~(k.version <= h.version) PROVE FALSE
  <2>1. k.version \in Nat /\ h.version \in Nat /\ h \in Packages /\ \A p \in Packages : p.version \in Nat
    BY PackageFacts
  <2>2. AsNew(k) \subseteq AsNew(h) /\ h \in AsNew(h) /\ h \notin AsNew(k)
    BY <1>6, <2>1
  <2>3. AsNew(k) \in family /\ AsNew(k) \in SUBSET Packages /\ least \in SUBSET Packages
    BY <1>5 DEF family
  <2>4. <<AsNew(k), least>> \in StrictSubsetOrdering(Packages)
    BY <1>5, <2>2, <2>3 DEF StrictSubsetOrdering
  <2> QED
    BY <1>4, <2>3, <2>4
<1> QED
  BY <1>6

LEMMA CompleteFacts ==
  ASSUME NEW g
  PROVE  /\ Complete(g).meta = g /\ Complete(g).of = {g} /\ Complete(g).whole
         /\ \A h : Complete(h) = Complete(g) => h = g
         /\ Complete(g) # Empty /\ (g \in Packages => Complete(g) \in Contents /\ Complete(g) # NoDir)
<1>1. Complete(g).meta = g /\ Complete(g).of = {g} /\ Complete(g).whole
  BY DEF Complete
<1>2. \A h : Complete(h).meta = h
  BY DEF Complete
<1>3. ~Empty.whole
  BY DEF Empty
<1>4. g \in Packages => Complete(g) \in Contents
  BY DEF Complete, Contents
<1> QED
  BY <1>1, <1>2, <1>3, <1>4, PartsAssumption

LEMMA FineFacts ==
  ASSUME Ran, NEW d \in Dirs, Fine(d), shelf[d] # NoDir
  PROVE  /\ \E m \in placed : m \in Packages /\ shelf[d] = Complete(m) /\ d \in {Plain, Detached(m)}
         /\ shelf[d] = Complete(shelf[d].meta) /\ shelf[d].meta \in placed /\ shelf[d].meta \in Packages
         /\ MetaOf(d) = shelf[d].meta /\ Whole(d)
<1>1. PICK m \in placed : shelf[d] = Complete(m) /\ d \in {Plain, Detached(m)}
  BY DEF Fine
<1>2. m \in Packages /\ shelf[d].meta = m
  BY <1>1, CompleteFacts DEF Ran
<1> QED
  BY <1>1, <1>2 DEF MetaOf, Whole

LEMMA Listings ==
  ASSUME Ran, \A d \in Dirs : Fine(d), NEW L \in Legibles
  PROVE  /\ Listable
         /\ \A x : x \in Installed(L) <=> \E d \in Dirs, m \in Packages : shelf[d] = Complete(m) /\ x = <<d, m>>
<1>1. ASSUME NEW d \in Dirs PROVE MetaOf(d) # Torn /\ d \notin MaybeLegible
  <2>1. CASE shelf[d] = NoDir
    BY <2>1, NamesAssumption DEF MetaOf, MaybeLegible
  <2>2. CASE shelf[d] # NoDir
    BY <2>2, FineFacts, PackageFacts DEF MaybeLegible
  <2> QED
    BY <2>1, <2>2
<1>2. MaybeLegible = {} /\ L = {}
  BY <1>1 DEF MaybeLegible, Legibles
<1>3. ASSUME NEW x, x \in Installed(L)
      PROVE  \E d \in Dirs, m \in Packages : shelf[d] = Complete(m) /\ x = <<d, m>>
  <2>1. PICK d \in Dirs : MetaOf(d) # Nothing /\ x = <<d, shelf[d].meta>>
    BY <1>2, <1>3 DEF Installed
  <2>2. shelf[d] # NoDir
    BY <2>1 DEF MetaOf
  <2> QED
    BY <2>1, <2>2, FineFacts
<1>4. ASSUME NEW d \in Dirs, NEW m \in Packages, shelf[d] = Complete(m)
      PROVE  <<d, m>> \in Installed(L)
  <2>1. shelf[d] # NoDir /\ shelf[d].meta = m /\ m # Nothing
    BY <1>4, CompleteFacts, PackageFacts
  <2>2. MetaOf(d) # Nothing
    BY <2>1 DEF MetaOf
  <2> QED
    BY <2>1, <2>2 DEF Installed
<1> QED
  BY <1>1, <1>3, <1>4 DEF Listable

(* A package that fits is found, if there is one.                          *)
LEMMA BestThere ==
  ASSUME Ran, \A d \in Dirs : Fine(d), NEW L \in Legibles, NEW r,
         NEW d \in Dirs, NEW g \in Packages, shelf[d] = Complete(g), Fits(g, r)
  PROVE  Best(Installed(L), r) # {}
<1> DEFINE G == {k \in Packages : Fits(k, r) /\ \E e \in Dirs : shelf[e] = Complete(k)}
           fitting == {x \in Installed(L) : Fits(x[2], r)}
           newest  == {x \in fitting : \A y \in fitting : y[2].version <= x[2].version}
<1>1. G \in SUBSET Packages /\ G # {}
  OBVIOUS
<1>2. PICK h \in G : \A k \in G : k.version <= h.version
  BY <1>1, Highest, Zenon
<1>3. PICK e \in Dirs : shelf[e] = Complete(h)
  OBVIOUS
<1>4. \A y \in fitting : y[2] \in G
  BY Listings
<1>5. <<e, h>> \in newest
  BY <1>2, <1>3, <1>4, Listings
<1>6. Best(Installed(L), r) = {x \in newest : (\E y \in newest : y[1] = Plain) => x[1] = Plain}
  BY DEF Best
<1> HIDE DEF newest
<1> QED
  BY <1>5, <1>6

(* What is the best of all is as new as any.                               *)
LEMMA BestOfAll ==
  ASSUME Ran, \A d \in Dirs : Fine(d), NEW L \in Legibles, NEW x \in Best(Installed(L), AnyOfTheName)
  PROVE  \A d \in Dirs : shelf[d] # NoDir => shelf[d].meta.version <= x[2].version
<1>1. ASSUME NEW d \in Dirs, shelf[d] # NoDir
      PROVE  shelf[d].meta.version <= x[2].version
  <2>1. shelf[d].meta \in Packages /\ shelf[d] = Complete(shelf[d].meta)
    BY <1>1, FineFacts
  <2>2. <<d, shelf[d].meta>> \in Installed(L)
    BY <2>1, Listings
  <2>3. Fits(shelf[d].meta, AnyOfTheName)
    BY <2>1, PackageFacts DEF Fits, AnyOfTheName
  <2> QED
    BY <2>2, <2>3 DEF Best
<1> QED
  BY <1>1

LEMMA BestIs ==
  ASSUME Ran, \A d \in Dirs : Fine(d), NEW L \in Legibles, NEW r, NEW x \in Best(Installed(L), r)
  PROVE  /\ x[1] \in Dirs /\ x[2] \in Packages /\ shelf[x[1]] = Complete(x[2]) /\ shelf[x[1]] # NoDir
         /\ Whole(x[1])
<1>1. x \in Installed(L)
  BY DEF Best
<1>2. PICK d \in Dirs, m \in Packages : shelf[d] = Complete(m) /\ x = <<d, m>>
  BY <1>1, Listings
<1> QED
  BY <1>2, CompleteFacts DEF Whole

-----------------------------------------------------------------------------
(***************************************************************************)
(* One command at a time.                                                  *)
(***************************************************************************)

(* What is so after a step of a terminal in which no other has a command.  *)
Settled(t) == Regular /\ (Active(t) => Busy(t)) /\ (~Active(t) => AtRest)

LEMMA LoneCommand ==
  ASSUME Ran, NEW t \in Terminals, PackageStep(t), ~crowded'
  PROVE  /\ ~crowded /\ \A u \in Terminals \ {t} : ~Active(u) /\ ~Active(u)'
         /\ Active(t) \/ Run(t)
<1>1. CASE Run(t)
  <2>1. ~crowded /\ \A u \in Terminals \ {t} : ~Active(u)
    BY <1>1 DEF Run, Active
  <2> QED
    BY <1>1, <2>1, StepsGoOn DEF Active
<1>2. CASE ~Run(t)
  <2>1. Active(t)
    <3>1. HasWork(t) => Active(t)
      BY WorkFacts
    <3>2. cmd[t].at \notin {"idle", "closed"} => Active(t)
      BY DEF Active, Resting, Closed
    <3>3. cmd[t].at \notin {"idle", "closed"} \/ HasWork(t) \/ Killed(t)
      BY <1>2 DEF PackageStep, LookToInstall, LookToUninstall, ListingFails, Fetch, FetchFails, Place,
         RemoveFile, RemoveDir, MakeDir, CopyOpens, CopyCloses, IoFails, Disturbed, Placed,
         Removed, Fix, Tidied
    <3> QED
      BY <3>1, <3>2, <3>3 DEF Killed, Active
  <2>2. crowded' = crowded
    BY <1>2 DEF PackageStep, LookToInstall, LookToUninstall, ListingFails, Fetch, FetchFails, Place,
         RemoveFile, RemoveDir, MakeDir, CopyOpens, CopyCloses, IoFails, Disturbed, Placed,
         Removed, Fix, Tidied, Killed, past
  <2>3. \A u \in Terminals \ {t} : ~Active(u)
    BY <2>1, <2>2 DEF Ran, OneAtWork
  <2> QED
    BY <2>1, <2>2, <2>3, StepsGoOn DEF Active
<1> QED
  BY <1>1, <1>2

(* Stages without work, and with some.                                     *)
LEMMA IdleStages ==
  ASSUME NEW t, Stage(t), ~HasWork(t)
  PROVE  /\ cmd[t].at \in {"look", "tidy", "fetch", "place"} \/ Installing(t) => Ready
         /\ cmd[t].at = "fetch" => \A g \in Packages, d \in Dirs : Fits(g, cmd[t].want) => shelf[d] # Complete(g)
         /\ cmd[t].at = "place" => \A d \in Dirs : shelf[d] # Complete(cmd[t].pkg)
         /\ Installing(t) => shelf[cmd[t].dst] = Complete(cmd[t].pkg)
         /\ Removing(t) => shelf[Plain] = NoDir \/ PlainNewest({})
<1>1. /\ \A prior : ~Swaps(t, prior)
      /\ \A d : ~Fills(t, d) /\ ~Drops(t, d) /\ ~Renames(t, d)
  BY TaskSequences DEF HasWork, Swaps, Fills, Drops, Renames
<1> QED
  BY <1>1 DEF Stage, Installing, Does, Removing

(* A step that leaves the directories as they are, without work after it.  *)
LEMMA IdleSettles ==
  ASSUME NEW t \in Terminals, Regular, KeptBeside(t), shelf' = shelf, owed' \subseteq owed, ~HasWork(t)',
         cut' = "yes" => ~Installing(t)',
         cut' = "no" => /\ \A d \in Dirs : Fine(d)'
                        /\ (Active(t)' => Stage(t)') /\ (~Active(t)' => Ready')
  PROVE  Settled(t)'
<1>1. Regular'
  BY DEF Regular
<1>2. \A g \in owed' : Rivals(g) # {} \/ \E d \in Dirs : shelf'[d] = Complete(g)
  BY DEF KeptBeside
<1>3. KeptBeside(t)'
  BY <1>2 DEF KeptBeside, InHand
<1>4. \A g \in owed' : Rivals(g) # {} \/ Shelved(g)'
  BY <1>2 DEF Shelved
<1> QED
  BY <1>1, <1>3, <1>4 DEF Settled, Busy, AtRest

(* What is so of the directories stays so, with more packages placed.      *)
LEMMA ShelfKeeps ==
  ASSUME shelf' = shelf, placed \subseteq placed'
  PROVE  /\ \A d : Fine(d) => Fine(d)'
         /\ \A v, S : NoneNewer(v, S) => NoneNewer(v, S)'
         /\ \A S : PlainNewest(S) => PlainNewest(S)'
         /\ Ready => Ready'
<1>1. \A d : Fine(d) => Fine(d)'
  BY DEF Fine
<1>2. NoneExternal' => NoneExternal
  BY DEF NoneExternal
<1>3. \A v, S : NoneNewer(v, S) => NoneNewer(v, S)'
  BY <1>2 DEF NoneNewer
<1>4. \A S : PlainNewest(S) => PlainNewest(S)'
  BY <1>3 DEF PlainNewest
<1> QED
  BY <1>1, <1>3, <1>4 DEF Ready

LEMMA RunSettles ==
  ASSUME Ran, Ran', NEW t \in Terminals, Run(t), Regular, AtRest
  PROVE  Settled(t)'
<1>1. /\ shelf' = shelf /\ owed' = owed /\ cut' = cut /\ placed' = placed
      /\ cmd[t] = Resting /\ cmd'[t].at = "look"
  BY DEF Run, Become, Ran, Resting
<1>2. ~HasWork(t)' /\ ~Installing(t)'
  BY <1>1 DEF Ran, CommandOK, Installing, Does
<1>3. KeptBeside(t)
  <2>1. ~HasWork(t)
    BY <1>1 DEF HasWork, Resting
  <2> QED
    BY <2>1 DEF AtRest, KeptBeside, InHand, Shelved
<1>4. cut' = "no" => Ready' /\ Stage(t)' /\ \A d \in Dirs : Fine(d)'
  BY <1>1, <1>2, ShelfKeeps DEF AtRest, Stage
<1> QED
  BY <1>1, <1>2, <1>3, <1>4, IdleSettles

(* The command came to rest.                                               *)
LEMMA RestSettles ==
  ASSUME NEW t \in Terminals, Regular, KeptBeside(t), shelf' = shelf, owed' \subseteq owed,
         placed' = placed, cmd'[t] = Resting, cut' = "no" => Ready /\ \A d \in Dirs : Fine(d)
  PROVE  Settled(t)'
<1>1. ~HasWork(t)' /\ ~Active(t)' /\ ~Installing(t)'
  <2>1. cmd'[t].at = "idle"
    BY DEF Resting
  <2> QED
    BY <2>1, Rests DEF Installing, Does
<1> QED
  BY <1>1, ShelfKeeps, IdleSettles

LEMMA LookToInstallSettles ==
  ASSUME Ran, Ran', NEW t \in Terminals, LookToInstall(t), Regular, Busy(t), cut' # "resumed"
  PROVE  Settled(t)' /\ (cut' = "no" => (unfit' => unfit))
<1>1. /\ shelf' = shelf /\ owed' = owed /\ cut' = cut /\ placed' = placed /\ cmd[t].at = "look"
      /\ ~HasWork(t) /\ KeptBeside(t)
  BY DEF LookToInstall, Ran, CommandOK, Busy
<1>2. ASSUME cut = "no" PROVE Ready /\ \A d \in Dirs : Fine(d)
  BY <1>1, <1>2, IdleStages DEF Busy, InHand
<1>3. PICK L \in Legibles :
        \/ \E x \in Best(Installed(L), cmd[t].want) : Answer(t, x[1])
        \/ /\ Best(Installed(L), cmd[t].want) = {} /\ UNCHANGED unfit
           /\ Become(t, [cmd[t] EXCEPT !.at = "fetch", !.mirror = 1])
  BY DEF LookToInstall
<1>4. CASE \E x \in Best(Installed(L), cmd[t].want) : Answer(t, x[1])
  <2>1. cmd'[t] = Resting
    BY <1>4 DEF Answer, Become, Ran
  <2>2. ASSUME cut = "no", unfit' PROVE unfit
    <3>1. PICK x \in Best(Installed(L), cmd[t].want) : unfit' = (unfit \/ ~Whole(x[1]))
      BY <1>4 DEF Answer
    <3>2. Whole(x[1])
      BY <1>2, <2>2, BestIs
    <3> QED
      BY <2>2, <3>1, <3>2
  <2> QED
    BY <1>1, <1>2, <2>1, <2>2, RestSettles
<1>5. CASE /\ Best(Installed(L), cmd[t].want) = {} /\ UNCHANGED unfit
           /\ Become(t, [cmd[t] EXCEPT !.at = "fetch", !.mirror = 1])
  <2>1. cmd'[t].at = "fetch" /\ cmd'[t].want = cmd[t].want
    BY <1>5 DEF Become, Ran, CommandRecords
  <2>2. ~HasWork(t)' /\ ~Installing(t)'
    BY <2>1 DEF Ran, CommandOK, Installing, Does
  <2>3. ASSUME cut' = "no" PROVE Stage(t)' /\ Ready' /\ \A d \in Dirs : Fine(d)'
    <3>1. \A g \in Packages, d \in Dirs : Fits(g, cmd[t].want) => shelf[d] # Complete(g)
      BY <1>1, <1>2, <1>5, <2>3, BestThere
    <3> QED
      BY <1>1, <1>2, <2>1, <2>2, <2>3, <3>1, ShelfKeeps DEF Stage
  <2> QED
    BY <1>1, <1>5, <2>2, <2>3, IdleSettles
<1> QED
  BY <1>3, <1>4, <1>5

LEMMA ListingFailsSettles ==
  ASSUME Ran, NEW t \in Terminals, ListingFails(t), Regular, Busy(t)
  PROVE  Settled(t)'
<1>1. /\ shelf' = shelf /\ owed' = owed /\ cut' = cut /\ placed' = placed
      /\ ~HasWork(t) /\ KeptBeside(t) /\ cmd'[t] = Resting /\ ~Listable
  BY DEF ListingFails, Become, Ran, CommandOK, Busy, past
<1>2. cut # "no"
  <2>1. SUFFICES ASSUME \A d \in Dirs : Fine(d) PROVE FALSE
    BY <1>1 DEF Busy, InHand
  <2>2. \A d \in Dirs : MetaOf(d) # Torn
    <3>1. ASSUME NEW d \in Dirs PROVE MetaOf(d) # Torn
      <4>1. CASE shelf[d] = NoDir
        BY <4>1, NamesAssumption DEF MetaOf
      <4>2. CASE shelf[d] # NoDir
        BY <2>1, <4>2, FineFacts, PackageFacts
      <4> QED
        BY <4>1, <4>2
    <3> QED
      BY <3>1
  <2> QED
    BY <1>1, <2>2 DEF Listable
<1> QED
  BY <1>1, <1>2, RestSettles

LEMMA FetchSettles ==
  ASSUME Ran, Ran', NEW t \in Terminals, Fetch(t), Regular, Busy(t)
  PROVE  Settled(t)'
<1>1. /\ shelf' = shelf /\ owed' = owed /\ cut' = cut /\ placed' = placed /\ cmd[t].at = "fetch"
      /\ ~HasWork(t) /\ KeptBeside(t)
  BY DEF Fetch, Ran, CommandOK, Busy, past
<1>2. cmd'[t].at = "place" /\ cmd'[t].want = cmd[t].want /\ cmd'[t].pkg \in Packages /\ Fits(cmd'[t].pkg, cmd[t].want)
  <2>1. cmd'[t].at = "place" /\ cmd'[t].want = cmd[t].want
    BY DEF Fetch, Become, Ran, CommandRecords
  <2> QED
    BY <2>1 DEF Ran, CommandOK
<1>3. ~HasWork(t)' /\ ~Installing(t)'
  BY <1>2 DEF Ran, CommandOK, Installing, Does
<1>4. ASSUME cut' = "no" PROVE Stage(t)' /\ Ready' /\ \A d \in Dirs : Fine(d)'
  <2>1. Ready /\ (\A d \in Dirs : Fine(d)) /\ \A d \in Dirs : shelf[d] # Complete(cmd'[t].pkg)
    BY <1>1, <1>2, <1>4, IdleStages DEF Busy, InHand
  <2> QED
    BY <1>1, <1>2, <1>3, <2>1, ShelfKeeps DEF Stage
<1> QED
  BY <1>1, <1>3, <1>4, IdleSettles

LEMMA FetchFailsSettles ==
  ASSUME Ran, Ran', NEW t \in Terminals, FetchFails(t), Regular, Busy(t)
  PROVE  Settled(t)'
<1>1. /\ shelf' = shelf /\ owed' = owed /\ cut' = cut /\ placed' = placed /\ cmd[t].at = "fetch"
      /\ ~HasWork(t) /\ KeptBeside(t) /\ cmd'[t] = Retry(cmd[t])
  BY DEF FetchFails, Become, Ran, CommandOK, Busy, past
<1>2. ASSUME cut = "no"
      PROVE  /\ Ready /\ \A d \in Dirs : Fine(d)
             /\ \A g \in Packages, d \in Dirs : Fits(g, cmd[t].want) => shelf[d] # Complete(g)
  BY <1>1, <1>2, IdleStages DEF Busy, InHand
<1>3. CASE cmd'[t] = Resting
  BY <1>1, <1>2, <1>3, RestSettles
<1>4. CASE cmd'[t].at = "fetch" /\ cmd'[t].want = cmd[t].want
  <2>1. ~HasWork(t)' /\ ~Installing(t)'
    BY <1>4 DEF Ran, CommandOK, Installing, Does
  <2>2. ASSUME cut' = "no" PROVE Stage(t)' /\ Ready' /\ \A d \in Dirs : Fine(d)'
    BY <1>1, <1>2, <1>4, <2>1, <2>2, ShelfKeeps DEF Stage
  <2> QED
    BY <1>1, <2>1, <2>2, IdleSettles
<1> QED
  BY <1>1, <1>3, <1>4, Retries

(* The old package keeps a place of its own, another has its version, or   *)
(* it was the one under the name that the new one takes.                   *)
LEMMA PlaceSettles ==
  ASSUME Ran, Ran', NEW t \in Terminals, Place(t), Regular, Busy(t), cut' # "resumed"
  PROVE  Settled(t)'
<1>0. PICK g, prior : g = cmd[t].pkg /\ prior = MetaOf(Plain)
  OBVIOUS
<1> DEFINE work == Placement(g, prior)
<1>1. /\ shelf' = shelf /\ owed' = owed /\ cut = "no" /\ cut' = "no" /\ placed' = placed \cup {g}
      /\ cmd[t].at = "place" /\ ~HasWork(t) /\ KeptBeside(t) /\ g \in Packages /\ cmd[t].op = "install"
      /\ Begins(t)
  BY <1>0 DEF Place, Ran, CommandOK, Busy
<1>2. /\ Ready /\ \A d \in Dirs : Fine(d)
      /\ \A d \in Dirs : shelf[d] # Complete(g)
  BY <1>0, <1>1, IdleStages DEF Busy, InHand
<1>3. /\ cmd'[t].at = "work" /\ cmd'[t].op = "install" /\ cmd'[t].pkg = g
      /\ cmd'[t].todo = work /\ cmd'[t].dst = Last(work).to
      /\ cmd'[t].left = {} /\ cmd'[t].open = Nothing
  <2>1. cmd'[t] = [cmd[t] EXCEPT !.at = "work", !.todo = work, !.dst = Last(work).to] /\ cmd[t] \in CommandRecords
    BY <1>0 DEF Place, Become, Ran
  <2> HIDE DEF work
  <2> QED
    BY <1>0, <1>1, <2>1 DEF CommandRecords, Begins
<1> HIDE DEF work
<1>4. ASSUME NEW p \in Packages, shelf[Plain] = Complete(p) PROVE prior = p
  BY <1>0, <1>4, CompleteFacts DEF MetaOf
<1>5. ASSUME prior \in Packages PROVE shelf[Plain] = Complete(prior) /\ shelf[Plain] # NoDir /\ prior \in placed
  <2>1. shelf[Plain] # NoDir /\ Plain \in Dirs
    BY <1>5, NamesAssumption, DirFacts, <1>0 DEF MetaOf
  <2> QED
    BY <1>0, <1>2, <1>5, <2>1, FineFacts
<1>6. ASSUME NEW d \in Dirs \ {Plain}, NEW p \in Packages, shelf[d] = Complete(p) PROVE Detached(p) = d
  BY <1>2, <1>6, CompleteFacts DEF Fine
<1>7. Installing(t)' /\ Begins(t)' /\ \A d : Fine(d) => Fine(d)'
  BY <1>1, <1>3, ShelfKeeps DEF Installing, Does, Begins
<1>8. NoneExternal' => NoneExternal
  BY <1>1 DEF NoneExternal
<1> DEFINE Works(d) == /\ HasWork(t)' /\ Task(t)'.to = d /\ Task(t)'.act = "remove"
<1>9. ASSUME NEW d \in Dirs, Works(d), Stage(t)',
             \A p \in owed : shelf[d] = Complete(p) => Rivals(p) # {} \/ \E e \in Dirs \ {d} : shelf[e] = Complete(p)
      PROVE  Settled(t)'
  <2>1. KeptBeside(t)'
    <3>1. \A p \in owed : Rivals(p) # {} \/ \E e \in Dirs : shelf[e] = Complete(p)
      BY <1>1 DEF KeptBeside
    <3>2. \A p \in owed : Rivals(p) # {} \/ \E e \in Dirs \ {d} : shelf[e] = Complete(p)
      BY <1>9, <3>1
    <3> QED
      BY <1>1, <1>9, <3>2 DEF KeptBeside, InHand
  <2>2. Active(t)'
    <3>1. cmd'[t].at # Resting.at /\ cmd'[t].at # Closed.at
      BY <1>3 DEF Resting, Closed
    <3> QED
      BY <3>1 DEF Active
  <2> QED
    BY <1>1, <1>2, <1>7, <1>9, <2>1, <2>2 DEF Settled, Busy, Regular
<1>10. CASE prior \in Packages /\ Outranks(g, prior) /\ work = Detaching(prior) /\ Last(work).to = Plain
  <2>1. Works(Detached(prior)) /\ Swaps(t, prior)' /\ Detached(prior) \in Dirs /\ Detached(prior) # Plain
    <3>1. HasWork(t)' /\ Task(t)' = Deletion(Detached(prior)) /\ Swaps(t, prior)'
      BY <1>3, <1>10, TaskSequences DEF HasWork, Task, Swaps
    <3> QED
      BY <1>10, <3>1, TaskFields, PackageFacts
  <2>2. NoneNewer(g.version, {Detached(prior)})'
    <3>1. SUFFICES ASSUME NoneExternal', NEW d \in Dirs, shelf[d] # NoDir PROVE shelf[d].meta.version <= g.version
      BY <1>1 DEF NoneNewer
    <3>2. prior.version < g.version /\ prior.version \in Nat /\ g.version \in Nat
      BY <1>1, <1>5, <1>8, <1>10, <3>1, PackageFacts DEF Outranks, NoneExternal
    <3>3. shelf[d].meta.version <= prior.version /\ shelf[d].meta.version \in Nat
      <4>1. shelf[Plain].meta = prior /\ PlainNewest({})
        BY <1>2, <1>5, <1>10, CompleteFacts, DirFacts DEF Ready
      <4> QED
        BY <1>2, <1>8, <3>1, <4>1, FineFacts, PackageFacts DEF PlainNewest, NoneNewer
    <3> QED
      BY <3>2, <3>3
  <2>3. Stage(t)'
    BY <1>1, <1>3, <1>5, <1>7, <1>10, <2>1, <2>2 DEF Stage
  <2>4. ASSUME NEW p \in owed, shelf[Detached(prior)] = Complete(p)
        PROVE  Rivals(p) # {} \/ \E e \in Dirs \ {Detached(prior)} : shelf[e] = Complete(p)
    <3>1. p \in Packages /\ Detached(p) = Detached(prior)
      BY <1>6, <2>1, <2>4 DEF Ran
    <3>2. CASE p = prior
      BY <1>5, <1>10, <2>1, <3>2, DirFacts
    <3>3. CASE p # prior
      BY <1>10, <3>1, <3>3 DEF Rivals
    <3> QED
      BY <3>2, <3>3
  <2> QED
    BY <1>9, <2>1, <2>3, <2>4
<1>11. CASE /\ prior \in Packages /\ YieldsTo(g, prior) /\ work = Clearing(Detached(g))
            /\ Last(work).to = Detached(g)
  <2>1. /\ Works(Detached(g)) /\ Fills(t, Detached(g))' /\ Detached(g) \in Dirs /\ Detached(g) # Plain
    <3>1. HasWork(t)' /\ Task(t)' = Deletion(Detached(g)) /\ Fills(t, Detached(g))'
      BY <1>3, <1>11, TaskSequences DEF HasWork, Task, Fills
    <3> QED
      BY <1>1, <3>1, TaskFields, PackageFacts
  <2>2. PlainNewest({Detached(g)})'
    BY <1>1, <1>2, <1>5, <1>8, <1>11, DirFacts DEF Ready, PlainNewest, NoneNewer
  <2>3. g.version <= shelf[Plain].meta.version
    <3>1. shelf[Plain].meta = prior
      BY <1>5, <1>11, CompleteFacts
    <3>2. ~External(prior) /\ ~(g.version > prior.version)
      BY <1>11 DEF YieldsTo, Outranks
    <3> QED
      BY <1>1, <1>11, <3>1, <3>2, PackageFacts
  <2>4. Stage(t)'
    BY <1>1, <1>3, <1>7, <2>1, <2>2, <2>3 DEF Stage
  <2>5. ASSUME NEW p \in owed, shelf[Detached(g)] = Complete(p) PROVE Rivals(p) # {}
    <3>1. p \in Packages /\ Detached(p) = Detached(g) /\ p # g
      BY <1>2, <1>6, <2>1, <2>5 DEF Ran
    <3> QED
      BY <1>1, <3>1 DEF Rivals
  <2> QED
    BY <1>9, <2>1, <2>4, <2>5
<1>12. CASE (prior \in Packages => g = prior) /\ work = Clearing(Plain) /\ Last(work).to = Plain
  <2>1. prior \notin Packages
    BY <1>2, <1>5, <1>12, DirFacts
  <2>2. \A d \in Dirs : shelf[d] = NoDir
    <3>1. shelf[Plain] = NoDir
      BY <1>2, <2>1, DirFacts, FineFacts, <1>0
    <3> QED
      BY <1>2, <3>1 DEF Ready, PlainNewest
  <2>3. Works(Plain) /\ Fills(t, Plain)' /\ Plain \in Dirs
    BY <1>3, <1>12, TaskSequences, TaskFields, DirFacts DEF HasWork, Task, Fills
  <2>4. Stage(t)'
    BY <1>1, <1>3, <1>7, <2>2, <2>3 DEF Stage, NoneNewer
  <2>5. \A p \in owed : shelf[Plain] # Complete(p)
    BY <2>2, <2>3, CompleteFacts DEF Ran
  <2> QED
    BY <1>9, <2>3, <2>4, <2>5
<1> QED
  BY <1>1, <1>10, <1>11, <1>12, Placements DEF work

LEMMA PlacedSettles ==
  ASSUME Ran, Ran', NEW t \in Terminals, Placed(t), Regular, Busy(t), cut' # "resumed"
  PROVE  Settled(t)' /\ (cut' = "no" => (unfit' => unfit))
<1>1. /\ shelf' = shelf /\ cut' = "no" /\ cut = "no" /\ placed' = placed /\ ~HasWork(t) /\ KeptBeside(t)
      /\ Installing(t) /\ cmd[t].pkg \in Packages /\ cmd[t].dst \in Dirs
  <2>1. Installing(t) /\ ~HasWork(t) /\ shelf' = shelf /\ cut' = cut /\ placed' = placed
    BY DEF Placed, Installing, Does
  <2> QED
    BY <2>1, DirFacts, PackageFacts DEF Ran, CommandOK, Busy
<1>2. Ready /\ (\A d \in Dirs : Fine(d)) /\ shelf[cmd[t].dst] = Complete(cmd[t].pkg)
  BY <1>1, IdleStages DEF Busy, InHand
<1>3. MetaOf(cmd[t].dst) # Torn /\ Whole(cmd[t].dst)
  BY <1>1, <1>2, CompleteFacts, PackageFacts DEF MetaOf, Whole
<1>4. Answer(t, cmd[t].dst) /\ owed' = owed \cup {cmd[t].pkg}
  BY <1>3 DEF Placed
<1>5. cmd'[t] = Resting /\ (unfit' => unfit)
  BY <1>3, <1>4 DEF Answer, Become, Ran
<1>6. ~Active(t)' /\ Ready' /\ (\A d \in Dirs : Fine(d)') /\ Regular'
  BY <1>1, <1>2, <1>5, Rests, ShelfKeeps DEF Regular
<1>7. \A g \in owed' : Rivals(g) # {} \/ Shelved(g)'
  BY <1>1, <1>2, <1>4 DEF KeptBeside, Shelved
<1> QED
  BY <1>5, <1>6, <1>7 DEF Settled, AtRest

LEMMA LookToUninstallSettles ==
  ASSUME Ran, Ran', NEW t \in Terminals, LookToUninstall(t), Regular, Busy(t)
  PROVE  Settled(t)'
<1>1. /\ shelf' = shelf /\ cut' = cut /\ placed' = placed /\ cmd[t].at = "look" /\ cmd[t].op = "uninstall"
      /\ ~HasWork(t) /\ KeptBeside(t) /\ cmd[t] \in CommandRecords /\ Begins(t)
  BY DEF LookToUninstall, Ran, CommandOK, Busy
<1>2. ASSUME cut = "no" PROVE Ready /\ \A d \in Dirs : Fine(d)
  BY <1>1, <1>2, IdleStages DEF Busy, InHand
<1>3. PICK L \in Legibles :
        \/ Best(Installed(L), cmd[t].want) = {} /\ Become(t, Resting) /\ UNCHANGED <<owed, removed>>
        \/ \E x \in Best(Installed(L), cmd[t].want) :
            /\ Become(t, [cmd[t] EXCEPT !.at = "work", !.todo = <<Deletion(x[1])>>])
            /\ owed' = owed \ {x[2]} /\ removed' = removed \cup {x[2]}
  BY DEF LookToUninstall
<1>4. CASE Become(t, Resting) /\ owed' = owed
  <2>1. cmd'[t] = Resting
    BY <1>4 DEF Become, Ran
  <2> QED
    BY <1>1, <1>2, <1>4, <2>1, RestSettles
<1>5. ASSUME NEW x \in Best(Installed(L), cmd[t].want),
             Become(t, [cmd[t] EXCEPT !.at = "work", !.todo = <<Deletion(x[1])>>]), owed' = owed \ {x[2]}
      PROVE  Settled(t)'
  <2>1. cmd'[t].at = "work" /\ cmd'[t].op = "uninstall" /\ cmd'[t].todo = Dropping(x[1])
    <3>1. cmd'[t] = [cmd[t] EXCEPT !.at = "work", !.todo = Dropping(x[1])]
      BY <1>5 DEF Become, Ran, Dropping
    <3> QED
      BY <1>1, <3>1 DEF CommandRecords
  <2>2. HasWork(t)' /\ Task(t)' = Deletion(x[1]) /\ Drops(t, x[1])' /\ Does(t, "uninstall", "work")'
    BY <2>1, TaskSequences DEF HasWork, Task, Drops, Does
  <2>3. Task(t)'.to = x[1] /\ Task(t)'.act = "remove" /\ x[1] \in Dirs /\ ~Installing(t)' /\ Active(t)'
    <3>1. cmd'[t].at # Resting.at /\ cmd'[t].at # Closed.at
      BY <2>1 DEF Resting, Closed
    <3> QED
      BY <2>1, <2>2, <3>1, TaskFields, ListingsType DEF Installing, Does, Active
  <2>4. KeptBeside(t)'
    <3> SUFFICES ASSUME NEW g \in owed, g # x[2], Rivals(g) = {}
                 PROVE  \E d \in Dirs \ {x[1]} : shelf[d] = Complete(g)
      BY <1>1, <1>5, <2>2, <2>3 DEF KeptBeside, InHand
    <3>1. PICK d \in Dirs : shelf[d] = Complete(g)
      BY <1>1 DEF KeptBeside
    <3>2. g \in Packages /\ g # Nothing /\ shelf[d].meta = g
      BY <3>1, CompleteFacts, PackageFacts DEF Ran
    <3>3. d # x[1]
      <4>1. CASE x = <<x[1], shelf[x[1]].meta>>
        BY <3>2, <4>1
      <4>2. CASE x[1] \in MaybeLegible
        BY <3>2, <4>2 DEF MaybeLegible
      <4> QED
        BY <4>1, <4>2, ListingsType
    <3> QED
      BY <3>1, <3>3
  <2>5. ASSUME cut' = "no" PROVE Stage(t)' /\ \A d \in Dirs : Fine(d)'
    <3>1. Ready /\ \A d \in Dirs : Fine(d)
      BY <1>1, <1>2, <2>5
    <3>2. PlainNewest({})
      BY <3>1, ListingsType DEF Ready
    <3>3. PlainNewest({x[1]})'
      BY <1>1, <3>2, ShelfKeeps DEF PlainNewest, NoneNewer
    <3> QED
      BY <1>1, <2>2, <2>3, <3>1, <3>3, ShelfKeeps DEF Stage
  <2> QED
    BY <1>1, <2>2, <2>3, <2>4, <2>5 DEF Settled, Busy, Regular
<1> QED
  BY <1>3, <1>4, <1>5

LEMMA RemovedSettles ==
  ASSUME Ran, Ran', NEW t \in Terminals, Removed(t), Regular, Busy(t)
  PROVE  Settled(t)'
<1>1. /\ shelf' = shelf /\ owed' = owed /\ cut' = cut /\ placed' = placed /\ ~HasWork(t) /\ KeptBeside(t)
      /\ Removing(t)
  BY DEF Removed, Busy, past, Removing
<1>2. cmd'[t].at = "fix" /\ cmd'[t].op = "uninstall"
  BY DEF Removed, Become, Ran, CommandRecords
<1>3. ~HasWork(t)' /\ ~Installing(t)' /\ Removing(t)' /\ Active(t)'
  <2>1. cmd'[t].at # Resting.at /\ cmd'[t].at # Closed.at
    BY <1>2 DEF Resting, Closed
  <2> QED
    BY <1>2, <2>1 DEF Ran, CommandOK, Installing, Does, Removing, Active
<1>4. ASSUME cut = "no" PROVE Stage(t)' /\ \A d \in Dirs : Fine(d)'
  <2>1. (shelf[Plain] = NoDir \/ PlainNewest({})) /\ \A d \in Dirs : Fine(d)
    BY <1>1, <1>4, IdleStages DEF Busy, InHand
  <2> QED
    BY <1>1, <1>3, <2>1, ShelfKeeps DEF Stage
<1> QED
  BY <1>1, <1>3, <1>4, IdleSettles

(* The best of the others is to take the plain name if that is free.       *)
LEMMA FixSettles ==
  ASSUME Ran, Ran', NEW t \in Terminals, Fix(t), Regular, Busy(t)
  PROVE  Settled(t)'
<1>1. /\ shelf' = shelf /\ owed' = owed /\ cut' = cut /\ placed' = placed /\ cmd[t].at = "fix"
      /\ cmd[t].op = "uninstall" /\ ~HasWork(t) /\ KeptBeside(t) /\ cmd[t] \in CommandRecords /\ Begins(t)
      /\ Removing(t)
  <2>1. /\ shelf' = shelf /\ owed' = owed /\ cut' = cut /\ placed' = placed /\ cmd[t].at = "fix"
    BY DEF Fix, past
  <2> QED
    BY <2>1 DEF Ran, CommandOK, Busy, Removing
<1>2. ASSUME cut = "no" PROVE (shelf[Plain] = NoDir \/ PlainNewest({})) /\ \A d \in Dirs : Fine(d)
  BY <1>1, <1>2, IdleStages DEF Busy, InHand
<1>3. PICK L \in Legibles :
        LET choice == {x \in Best(Installed(L), AnyOfTheName) : shelf[Plain] = NoDir} IN
        \/ choice = {} /\ Become(t, Resting)
        \/ \E x \in choice : Become(t, [cmd[t] EXCEPT !.at = "tidy", !.todo = TakesPlainName(x[1])])
  BY DEF Fix
<1>4. CASE {x \in Best(Installed(L), AnyOfTheName) : shelf[Plain] = NoDir} = {} /\ Become(t, Resting)
  <2>1. cmd'[t] = Resting
    BY <1>4 DEF Become, Ran
  <2>2. ASSUME cut = "no" PROVE Ready
    <3>1. CASE PlainNewest({})
      BY <3>1 DEF Ready
    <3>2. CASE shelf[Plain] = NoDir
      <4>1. Best(Installed(L), AnyOfTheName) = {}
        BY <1>4, <3>2
      <4>2. ASSUME NEW d \in Dirs, shelf[d] # NoDir PROVE FALSE
        <5>1. shelf[d].meta \in Packages /\ shelf[d] = Complete(shelf[d].meta)
          BY <1>2, <2>2, <4>2, FineFacts
        <5>2. Fits(shelf[d].meta, AnyOfTheName)
          BY <5>1, PackageFacts DEF Fits, AnyOfTheName
        <5> QED
          BY <1>2, <2>2, <4>1, <5>1, <5>2, BestThere
      <4> QED
        BY <4>2 DEF Ready
    <3> QED
      BY <1>2, <2>2, <3>1, <3>2
  <2> QED
    BY <1>1, <1>2, <2>1, <2>2, RestSettles
<1>5. ASSUME NEW x \in Best(Installed(L), AnyOfTheName), shelf[Plain] = NoDir,
             Become(t, [cmd[t] EXCEPT !.at = "tidy", !.todo = TakesPlainName(x[1])])
      PROVE  Settled(t)'
  <2>1. cmd'[t].at = "tidy" /\ cmd'[t].op = "uninstall" /\ cmd'[t].todo = TakesPlainName(x[1])
        /\ cmd'[t].left = {} /\ cmd'[t].open = Nothing
    <3>1. cmd'[t] = [cmd[t] EXCEPT !.at = "tidy", !.todo = TakesPlainName(x[1])]
      BY <1>5 DEF Become, Ran
    <3> QED
      BY <1>1, <3>1 DEF CommandRecords, Begins
  <2>2. HasWork(t)' /\ Task(t)' = Copying(x[1], Plain) /\ Renames(t, x[1])' /\ Does(t, "uninstall", "tidy")'
        /\ Begins(t)'
    BY <2>1, TaskSequences DEF HasWork, Task, Renames, Does, Begins
  <2>3. /\ Task(t)'.to = Plain /\ x[1] \in Dirs /\ x[1] # Plain /\ shelf[x[1]] # NoDir
        /\ ~Installing(t)' /\ Active(t)'
    <3>1. cmd'[t].at # Resting.at /\ cmd'[t].at # Closed.at
      BY <2>1 DEF Resting, Closed
    <3> QED
      BY <1>5, <2>1, <2>2, <3>1, TaskFields, ListingsType DEF Installing, Does, Active
  <2>4. KeptBeside(t)'
    <3> SUFFICES ASSUME NEW g \in owed, Rivals(g) = {}
                 PROVE  \E d \in Dirs \ {Plain} : shelf[d] = Complete(g)
      BY <1>1, <2>2, <2>3 DEF KeptBeside, InHand
    <3>1. PICK d \in Dirs : shelf[d] = Complete(g)
      BY <1>1 DEF KeptBeside
    <3>2. d # Plain
      BY <1>5, <3>1, CompleteFacts DEF Ran
    <3> QED
      BY <3>1, <3>2
  <2>5. ASSUME cut' = "no" PROVE Stage(t)' /\ \A d \in Dirs : Fine(d)'
    <3>1. \A d \in Dirs : Fine(d)
      BY <1>1, <1>2, <2>5
    <3>2. shelf[x[1]].meta = x[2]
      BY <3>1, BestIs, CompleteFacts
    <3>3. NoneNewer(shelf[x[1]].meta.version, {Plain})
      BY <3>1, <3>2, BestOfAll DEF NoneNewer
    <3>4. NoneNewer(shelf[x[1]].meta.version, {Plain})'
      BY <1>1, <3>3 DEF NoneNewer, NoneExternal
    <3> QED
      BY <1>1, <2>2, <2>3, <3>1, <3>4, ShelfKeeps DEF Stage
  <2>6. CopyGoes(t)'
    BY <1>1, <1>5, <2>2, <2>3 DEF CopyGoes
  <2> QED
    BY <1>1, <2>2, <2>3, <2>4, <2>5, <2>6 DEF Settled, Busy, Regular
<1> QED
  BY <1>3, <1>4, <1>5

LEMMA TidiedSettles ==
  ASSUME Ran, NEW t \in Terminals, Tidied(t), Regular, Busy(t)
  PROVE  Settled(t)'
<1>1. /\ shelf' = shelf /\ owed' = owed /\ cut' = cut /\ placed' = placed /\ ~HasWork(t) /\ KeptBeside(t)
      /\ cmd[t].at = "tidy" /\ cmd'[t] = Resting
  BY DEF Tidied, Become, Ran, Busy, past
<1>2. cut = "no" => Ready /\ \A d \in Dirs : Fine(d)
  BY <1>1, IdleStages DEF Busy, InHand
<1> QED
  BY <1>1, <1>2, RestSettles

LEMMA KilledSettles ==
  ASSUME Ran, NEW t \in Terminals, Killed(t), Regular, Busy(t)
  PROVE  Settled(t)'
<1>1. /\ shelf' = shelf /\ owed' = owed /\ placed' = placed /\ KeptBeside(t) /\ cmd'[t] = Resting
  BY DEF Killed, Become, Ran, Busy
<1>2. ASSUME cut' = "no" PROVE Ready /\ \A d \in Dirs : Fine(d)
  <2>1. cut = "no" /\ ~HasWork(t) /\ ~Removing(t) /\ Active(t) /\ CommandOK(t) /\ cmd[t] \in CommandRecords
    BY <1>2 DEF Killed, Active, Ran
  <2>2. cmd[t].at \in {"look", "tidy", "fetch", "place"} \/ Installing(t)
    BY <2>1 DEF Active, CommandOK, CommandRecords, Removing, Installing, Does
  <2> QED
    BY <2>1, <2>2, IdleStages DEF Busy, InHand
<1> QED
  BY <1>1, <1>2, RestSettles

LEMMA IoFailsSettles ==
  ASSUME Ran, Ran', NEW t \in Terminals, IoFails(t), Regular, Busy(t), cut' # "resumed"
  PROVE  Settled(t)'
<1>1. /\ shelf' = shelf /\ owed' = owed /\ cut' = "yes" /\ KeptBeside(t) /\ HasWork(t)
      /\ cmd'[t] = Retry(cmd[t])
  BY DEF IoFails, Become, Ran, Busy
<1>2. ~HasWork(t)' /\ ~Installing(t)'
  BY <1>1, Retries DEF Installing, Does, Resting
<1> QED
  BY <1>1, <1>2, IdleSettles

(***************************************************************************)
(* The steps of a task: only the directory in hand changes.                *)
(***************************************************************************)
OnlyInHand(t) ==
  /\ HasWork(t) /\ \A d \in Dirs \ {Task(t).to} : shelf'[d] = shelf[d]
  /\ UNCHANGED <<owed, crowded, cut, unfit, placed, removed>>
  /\ cmd'[t].op = cmd[t].op /\ cmd'[t].at = cmd[t].at /\ cmd'[t].pkg = cmd[t].pkg /\ cmd'[t].dst = cmd[t].dst

LEMMA InHandOf ==
  ASSUME NEW t
  PROVE  /\ \A prior : Swaps(t, prior) => Task(t).to = Detached(prior)
         /\ \A d : Fills(t, d) => Task(t).to = d
         /\ \A d : Drops(t, d) => Task(t).to = d /\ Task(t).act = "remove"
         /\ \A d : Renames(t, d) => Task(t).to = Plain /\ Task(t).act = "copy" /\ Task(t).from = d
<1>1. ASSUME NEW prior, Swaps(t, prior) PROVE Task(t).to = Detached(prior)
  <2>1. Task(t) = Deletion(Detached(prior)) \/ Task(t) = Copying(Plain, Detached(prior))
    BY <1>1, TaskSequences DEF Swaps, Task
  <2> QED
    BY <2>1, TaskFields
<1>2. ASSUME NEW d, Fills(t, d) PROVE Task(t).to = d
  BY <1>2, FillFacts
<1>3. ASSUME NEW d, Drops(t, d) PROVE Task(t).to = d /\ Task(t).act = "remove"
  <2>1. Task(t) = Deletion(d)
    BY <1>3, TaskSequences DEF Drops, Task
  <2> QED
    BY <2>1, TaskFields
<1>4. ASSUME NEW d, Renames(t, d)
      PROVE  Task(t).to = Plain /\ Task(t).act = "copy" /\ Task(t).from = d
  <2>1. Task(t) = Copying(d, Plain)
    BY <1>4, TaskSequences DEF Renames, Task
  <2> QED
    BY <2>1, TaskFields
<1> QED
  BY <1>1, <1>2, <1>3, <1>4

(* The stages of a command with work, one by one.                          *)
SwapStage(t, prior) ==
  /\ Installing(t) /\ cmd[t].dst = Plain
  /\ Swaps(t, prior) /\ shelf[Plain] = Complete(prior) /\ NoneNewer(cmd[t].pkg.version, {Detached(prior)})
PlainStage(t) == Installing(t) /\ Fills(t, Plain) /\ NoneNewer(cmd[t].pkg.version, {Plain})
BesideStage(t, d) ==
  /\ Installing(t) /\ Fills(t, d) /\ PlainNewest({d})
  /\ NoneExternal => cmd[t].pkg.version <= shelf[Plain].meta.version
DropStage(t, d) == Does(t, "uninstall", "work") /\ Drops(t, d) /\ (d = Plain \/ PlainNewest({d}))
TidyStage(t, d) == Does(t, "uninstall", "tidy") /\ Drops(t, d) /\ PlainNewest({d})
RenameStage(t, d) ==
  /\ Does(t, "uninstall", "tidy") /\ Renames(t, d)
  /\ shelf[d] # NoDir /\ NoneNewer(shelf[d].meta.version, {Plain})

LEMMA WorkStages ==
  ASSUME NEW t, Stage(t), HasWork(t)
  PROVE  \/ \E prior \in Packages : SwapStage(t, prior)
         \/ PlainStage(t)
         \/ \E d \in Dirs \ {Plain} : BesideStage(t, d)
         \/ \E d \in Dirs : DropStage(t, d)
         \/ \E d \in Dirs \ {Plain} : TidyStage(t, d) \/ RenameStage(t, d)
BY Zenon DEF Stage, SwapStage, PlainStage, BesideStage, DropStage, TidyStage, RenameStage

LEMMA StagesWork ==
  ASSUME NEW t,
         \/ \E prior \in Packages : SwapStage(t, prior)
         \/ PlainStage(t)
         \/ \E d \in Dirs \ {Plain} : BesideStage(t, d)
         \/ \E d \in Dirs : DropStage(t, d)
         \/ \E d \in Dirs \ {Plain} : TidyStage(t, d) \/ RenameStage(t, d)
  PROVE  Stage(t)
BY Zenon DEF Stage, SwapStage, PlainStage, BesideStage, DropStage, TidyStage, RenameStage

LEMMA StageHolds ==
  ASSUME Ran, NEW t \in Terminals, OnlyInHand(t), cmd'[t].todo = cmd[t].todo, Stage(t)
  PROVE  Stage(t)'
<1>1. NoneExternal' <=> NoneExternal
  BY DEF NoneExternal, OnlyInHand
<1>2. /\ \A prior : Swaps(t, prior)' <=> Swaps(t, prior)
      /\ \A d : /\ Fills(t, d)' <=> Fills(t, d)
                /\ Drops(t, d)' <=> Drops(t, d)
                /\ Renames(t, d)' <=> Renames(t, d)
      /\ (Installing(t)' <=> Installing(t)) /\ \A op, at : Does(t, op, at)' <=> Does(t, op, at)
  BY DEF Swaps, Fills, Drops, Renames, Installing, Does, OnlyInHand
<1>3. \A v : NoneNewer(v, {Task(t).to}) => \A D : D = Task(t).to => NoneNewer(v, {D})'
  BY <1>1 DEF NoneNewer, OnlyInHand
<1>4. Plain \in Dirs /\ (Task(t).to # Plain => shelf'[Plain] = shelf[Plain])
  BY DirFacts DEF OnlyInHand
<1>5. \A D : D = Task(t).to /\ D # Plain /\ PlainNewest({D}) => PlainNewest({D})'
  BY <1>3, <1>4 DEF PlainNewest
<1>6. ASSUME NEW prior \in Packages, SwapStage(t, prior) PROVE SwapStage(t, prior)'
  BY <1>2, <1>3, <1>4, <1>6, PackageFacts, InHandOf DEF SwapStage, OnlyInHand
<1>7. ASSUME PlainStage(t) PROVE PlainStage(t)'
  BY <1>2, <1>3, <1>7, InHandOf DEF PlainStage, OnlyInHand
<1>8. ASSUME NEW d \in Dirs \ {Plain}, BesideStage(t, d) PROVE BesideStage(t, d)'
  BY <1>1, <1>2, <1>4, <1>5, <1>8, InHandOf DEF BesideStage, OnlyInHand
<1>9. ASSUME NEW d \in Dirs, DropStage(t, d) PROVE DropStage(t, d)'
  BY <1>2, <1>5, <1>9, InHandOf DEF DropStage
<1>10. ASSUME NEW d \in Dirs \ {Plain}, TidyStage(t, d) PROVE TidyStage(t, d)'
  BY <1>2, <1>5, <1>10, InHandOf DEF TidyStage
<1>11. ASSUME NEW d \in Dirs \ {Plain}, RenameStage(t, d) PROVE RenameStage(t, d)'
  <2>1. Task(t).to = Plain /\ shelf'[d] = shelf[d]
    BY <1>11, InHandOf DEF RenameStage, OnlyInHand
  <2> QED
    BY <1>2, <1>3, <1>11, <2>1 DEF RenameStage
<1> DEFINE Staged ==
      \/ \E prior \in Packages : SwapStage(t, prior)
      \/ PlainStage(t)
      \/ \E d \in Dirs \ {Plain} : BesideStage(t, d)
      \/ \E d \in Dirs : DropStage(t, d)
      \/ \E d \in Dirs \ {Plain} : TidyStage(t, d) \/ RenameStage(t, d)
<1>12. Staged
  BY WorkStages DEF OnlyInHand
<1>13. Staged'
  BY <1>6, <1>7, <1>8, <1>9, <1>10, <1>11, <1>12
<1> QED
  BY <1>13, Zenon DEF Stage, SwapStage, PlainStage, BesideStage, DropStage, TidyStage, RenameStage

(* What a step within a task has to show.                                  *)
LEMMA WorkHolds ==
  ASSUME Ran, Ran', NEW t \in Terminals, OnlyInHand(t), cmd'[t].todo = cmd[t].todo, Busy(t), Regular',
         Task(t).act = "copy" => CopyGoes(t)'
  PROVE  Settled(t)'
<1>1. HasWork(t)' /\ Task(t)' = Task(t) /\ (Installing(t)' <=> Installing(t)) /\ HasWork(t) /\ Task(t).to \in Dirs
  BY WorkFacts DEF OnlyInHand, HasWork, Task, Installing, Does
<1>2. Active(t)'
  <2>1. cmd'[t].todo # Resting.todo /\ cmd'[t].todo # Closed.todo
    BY <1>1 DEF HasWork, Resting, Closed
  <2> QED
    BY <2>1 DEF Active
<1>3. \A d \in Dirs : InHand(t, d)' <=> InHand(t, d)
  BY <1>1 DEF InHand
<1>4. \A d \in Dirs : ~InHand(t, d) => shelf'[d] = shelf[d]
  BY <1>1 DEF InHand, OnlyInHand
<1>5. KeptBeside(t)'
  BY <1>3, <1>4 DEF Busy, KeptBeside, OnlyInHand
<1>6. cut' = "yes" => ~Installing(t)'
  BY <1>1 DEF Busy, OnlyInHand
<1>7. ASSUME cut' = "no" PROVE Stage(t)' /\ \A d \in Dirs : InHand(t, d)' \/ Fine(d)'
  <2>1. \A d \in Dirs : ~InHand(t, d) /\ Fine(d) => Fine(d)'
    BY <1>4 DEF Fine, OnlyInHand
  <2> QED
    BY <1>3, <1>7, <2>1, StageHolds DEF Busy, OnlyInHand
<1> QED
  BY <1>1, <1>2, <1>5, <1>6, <1>7 DEF Settled, Busy

LEMMA RemoveFileSettles ==
  ASSUME Ran, Ran', NEW t \in Terminals, RemoveFile(t), Regular, Busy(t)
  PROVE  Settled(t)'
<1>0. PICK D \in Dirs : D = Task(t).to
  BY WorkFacts DEF RemoveFile
<1>1. HasWork(t) /\ shelf[D] \in Contents /\ Task(t).act = "remove" /\ cmd' = cmd
  BY <1>0 DEF RemoveFile, Ran
<1>2. \A d \in Dirs \ {D} : shelf'[d] = shelf[d]
  BY <1>0 DEF RemoveFile, SetDir, Ran
<1>3. shelf'[D].of = {} => ~shelf'[D].whole
  <2>1. shelf[D].of = {} => ~shelf[D].whole
    BY <1>1, PartsAssumption DEF Regular
  <2>2. CASE shelf'[D] = [shelf[D] EXCEPT !.meta = Nothing]
    BY <1>1, <2>1, <2>2 DEF Contents
  <2>3. CASE shelf'[D] = [shelf[D] EXCEPT !.whole = FALSE]
    BY <1>1, <2>3 DEF Contents
  <2>4. CASE shelf'[D] = [shelf[D] EXCEPT !.of = {}] /\ ~shelf[D].whole
    BY <1>1, <2>4 DEF Contents
  <2> QED
    BY <1>0, <2>2, <2>3, <2>4 DEF RemoveFile, SetDir, Ran
<1>4. Regular'
  BY <1>2, <1>3 DEF Regular
<1>5. OnlyInHand(t)
  BY <1>0, <1>1, <1>2 DEF OnlyInHand, RemoveFile, past
<1> QED
  BY <1>1, <1>4, <1>5, WorkHolds

(* The task after the one in hand.                                         *)
LEMMA NextTask ==
  ASSUME Ran, NEW t \in Terminals, HasWork(t), cmd'[t].todo = Tail(cmd[t].todo)
  PROVE  /\ Task(t).act = "remove" =>
              ~HasWork(t)' \/ (HasWork(t)' /\ Task(t)'.to = Task(t).to)
         /\ Task(t).act = "copy" =>
              \/ ~HasWork(t)'
              \/ HasWork(t)' /\ Task(t)'.to = Task(t).from /\ Task(t)'.act = "remove" /\ Task(t).from \in Dirs
<1>0. Shape(t)
  BY DEF Ran, CommandOK
<1>1. ASSUME NEW prior \in Packages, cmd[t].todo = Detaching(prior)
      PROVE  Task(t).act = "remove" /\ HasWork(t)' /\ Task(t)'.to = Task(t).to
  <2>1. Task(t) = Deletion(Detached(prior)) /\ HasWork(t)' /\ Task(t)' = Copying(Plain, Detached(prior))
    BY <1>1, TaskSequences DEF Task, HasWork
  <2> QED
    BY <2>1, TaskFields
<1>2. ASSUME NEW prior \in Packages, cmd[t].todo = SettingAside(prior)
      PROVE  /\ Task(t).act = "copy" /\ HasWork(t)' /\ Task(t)'.to = Task(t).from /\ Task(t)'.act = "remove"
             /\ Task(t).from \in Dirs
  <2>1. Task(t) = Copying(Plain, Detached(prior)) /\ HasWork(t)' /\ Task(t)' = Deletion(Plain)
    BY <1>2, TaskSequences DEF Task, HasWork
  <2> QED
    BY <2>1, TaskFields, DirFacts
<1>3. ASSUME NEW d, cmd[t].todo = Clearing(d)
      PROVE  Task(t).act = "remove" /\ HasWork(t)' /\ Task(t)'.to = Task(t).to
  <2>1. Task(t) = Deletion(d) /\ HasWork(t)' /\ Task(t)' = Copying(Unpacked, d)
    BY <1>3, TaskSequences DEF Task, HasWork
  <2> QED
    BY <2>1, TaskFields
<1>4. ASSUME NEW d, cmd[t].todo = Unpacking(d) \/ Drops(t, d) PROVE ~HasWork(t)'
  BY <1>4, TaskSequences DEF HasWork, Drops
<1>5. ASSUME NEW d \in Dirs, Renames(t, d)
      PROVE  /\ Task(t).act = "copy" /\ HasWork(t)' /\ Task(t)'.to = Task(t).from /\ Task(t)'.act = "remove"
             /\ Task(t).from \in Dirs
  <2>1. Task(t) = Copying(d, Plain) /\ HasWork(t)' /\ Task(t)' = Deletion(d)
    BY <1>5, TaskSequences DEF Task, HasWork, Renames
  <2> QED
    BY <2>1, <1>5, TaskFields
<1> QED
  BY <1>0, <1>1, <1>2, <1>3, <1>4, <1>5 DEF Shape, Swaps, Fills

LEMMA RemoveDirStage ==
  ASSUME Ran, NEW t \in Terminals, OnlyInHand(t), Task(t).act = "remove", shelf'[Task(t).to] = NoDir,
         cmd'[t].todo = Tail(cmd[t].todo), Stage(t)
  PROVE  Stage(t)'
<1>1. /\ (NoneExternal' <=> NoneExternal)
      /\ (Installing(t)' <=> Installing(t)) /\ \A op, at : Does(t, op, at)' <=> Does(t, op, at)
  BY DEF NoneExternal, OnlyInHand, Installing, Does
<1>2. \A v : NoneNewer(v, {Task(t).to}) => \A S : NoneNewer(v, S)'
  BY <1>1 DEF NoneNewer, OnlyInHand
<1>3. Plain \in Dirs /\ (Task(t).to # Plain => shelf'[Plain] = shelf[Plain])
  BY DirFacts DEF OnlyInHand
<1>4. Task(t).to # Plain /\ PlainNewest({Task(t).to}) => \A S : PlainNewest(S)'
  BY <1>2, <1>3 DEF PlainNewest
<1>5. ASSUME NEW prior \in Packages, SwapStage(t, prior) PROVE SwapStage(t, prior)'
  <2>1. cmd[t].todo = Detaching(prior)
    <3>1. cmd[t].todo = SettingAside(prior) => Task(t) = Copying(Plain, Detached(prior))
      BY TaskSequences DEF Task
    <3> QED
      BY <1>5, <3>1, TaskFields DEF SwapStage, Swaps
  <2>2. Swaps(t, prior)'
    BY <2>1, TaskSequences DEF Swaps
  <2>3. Task(t).to = Detached(prior) /\ Detached(prior) # Plain
    BY <1>5, PackageFacts, InHandOf DEF SwapStage
  <2>4. shelf'[Plain] = Complete(prior)
    BY <1>3, <1>5, <2>3 DEF SwapStage
  <2>5. NoneNewer(cmd[t].pkg.version, {Detached(prior)})'
    BY <1>2, <1>5, <2>3 DEF SwapStage, OnlyInHand
  <2> QED
    BY <1>1, <1>5, <2>2, <2>4, <2>5 DEF SwapStage, OnlyInHand
<1>6. ASSUME NEW d, Fills(t, d) PROVE Fills(t, d)' /\ Task(t).to = d
  BY <1>6, FillFacts DEF Fills, OnlyInHand
<1>7. ASSUME PlainStage(t) PROVE PlainStage(t)'
  BY <1>1, <1>2, <1>6, <1>7 DEF PlainStage, OnlyInHand
<1>8. ASSUME NEW d \in Dirs \ {Plain}, BesideStage(t, d) PROVE BesideStage(t, d)'
  BY <1>1, <1>3, <1>4, <1>6, <1>8 DEF BesideStage, OnlyInHand
<1>9. ASSUME NEW d \in Dirs, DropStage(t, d) PROVE Stage(t)'
  <2>1. ~HasWork(t)' /\ Task(t).to = d
    BY <1>9, TaskSequences, InHandOf DEF DropStage, Drops, HasWork
  <2>2. shelf'[Plain] = NoDir \/ PlainNewest({})'
    BY <1>4, <1>9, <2>1 DEF DropStage
  <2>3. Removing(t)'
    BY <1>9 DEF DropStage, Does, Removing, OnlyInHand
  <2> QED
    BY <2>1, <2>2, <2>3 DEF Stage
<1>10. ASSUME NEW d \in Dirs \ {Plain}, TidyStage(t, d) PROVE Stage(t)'
  <2>1. ~HasWork(t)' /\ Task(t).to = d
    BY <1>10, TaskSequences, InHandOf DEF TidyStage, Drops, HasWork
  <2>2. Ready' /\ cmd'[t].at = "tidy"
    BY <1>4, <1>10, <2>1 DEF TidyStage, Ready, Does, OnlyInHand
  <2> QED
    BY <2>1, <2>2 DEF Stage
<1>11. ASSUME NEW d, RenameStage(t, d) PROVE FALSE
  BY <1>11, InHandOf DEF RenameStage
<1>12. \/ \E prior \in Packages : SwapStage(t, prior)'
       \/ PlainStage(t)'
       \/ \E d \in Dirs \ {Plain} : BesideStage(t, d)'
       \/ Stage(t)'
  BY <1>5, <1>7, <1>8, <1>9, <1>10, <1>11, WorkStages DEF OnlyInHand
<1> QED
  BY <1>12, Zenon DEF Stage, SwapStage, PlainStage, BesideStage

LEMMA RemoveDirSettles ==
  ASSUME Ran, Ran', NEW t \in Terminals, RemoveDir(t), Regular, Busy(t)
  PROVE  Settled(t)'
<1>0. PICK D \in Dirs : D = Task(t).to
  BY WorkFacts DEF RemoveDir
<1>1. HasWork(t) /\ Task(t).act = "remove" /\ cmd[t] \in CommandRecords /\ Begins(t) /\ cmd[t].at \in {"work", "tidy"}
  BY WorkFacts DEF RemoveDir, Ran, CommandOK
<1>2. /\ cmd'[t].op = cmd[t].op /\ cmd'[t].at = cmd[t].at /\ cmd'[t].pkg = cmd[t].pkg /\ cmd'[t].dst = cmd[t].dst
      /\ cmd'[t].todo = Tail(cmd[t].todo) /\ cmd'[t].left = {} /\ cmd'[t].open = Nothing
  <2>1. cmd'[t] = [cmd[t] EXCEPT !.todo = Tail(cmd[t].todo), !.left = {}]
    BY DEF RemoveDir, TaskDone, Become, Ran
  <2> QED
    BY <1>1, <2>1 DEF CommandRecords, Begins
<1>3. shelf'[D] = NoDir /\ \A d \in Dirs \ {D} : shelf'[d] = shelf[d]
  BY <1>0 DEF RemoveDir, SetDir, Ran
<1>4. OnlyInHand(t)
  BY <1>0, <1>1, <1>2, <1>3 DEF OnlyInHand, RemoveDir, past
<1>5. ~HasWork(t)' \/ (HasWork(t)' /\ Task(t)'.to = D)
  BY <1>0, <1>1, <1>2, NextTask
<1>6. Active(t)'
  <2>1. cmd'[t].at # Resting.at /\ cmd'[t].at # Closed.at
    BY <1>1, <1>2 DEF Resting, Closed
  <2> QED
    BY <2>1 DEF Active
<1>7. Regular'
  BY <1>3 DEF Regular
<1>8. KeptBeside(t)'
  <2>1. \A d \in Dirs : ~InHand(t, d) => shelf'[d] = shelf[d] /\ ~InHand(t, d)'
    BY <1>0, <1>1, <1>3, <1>5 DEF InHand
  <2> QED
    BY <1>4, <2>1 DEF Busy, KeptBeside, OnlyInHand
<1>9. HasWork(t)' => CopyGoes(t)'
  BY <1>2, <1>3, <1>5 DEF CopyGoes, Begins
<1>10. cut' = "yes" => ~Installing(t)'
  BY <1>4 DEF Busy, OnlyInHand, Installing, Does
<1>11. ASSUME cut' = "no" PROVE Stage(t)' /\ \A d \in Dirs : Fine(d)'
  <2>1. \A d \in Dirs : Fine(d)'
    BY <1>0, <1>1, <1>3, <1>4, <1>11 DEF Busy, InHand, Fine, OnlyInHand
  <2> QED
    BY <1>0, <1>1, <1>2, <1>3, <1>4, <1>11, <2>1, RemoveDirStage DEF Busy, OnlyInHand
<1> QED
  BY <1>6, <1>7, <1>8, <1>9, <1>10, <1>11 DEF Settled, Busy

(* What is copied has a file or a .piopm, and is in full only with files.  *)
LEMMA SourceFacts ==
  ASSUME Ran, Regular, NEW t \in Terminals, HasWork(t), Task(t).act = "copy", Source(t) # NoDir
  PROVE  /\ Source(t) \in Contents /\ (Source(t).of = {} => ~Source(t).whole)
         /\ Source(t) # Empty => Source(t).meta # Nothing \/ Source(t).of # {}
<1>1. Source(t) \in Contents
  BY WorkFacts
<1>2. Source(t).of = {} => ~Source(t).whole
  <2>1. CASE Task(t).from = Unpacked
    BY <2>1, WorkFacts, CompleteFacts, ZenonT(30)
  <2>2. CASE Task(t).from # Unpacked
    BY <2>2, WorkFacts DEF Regular
  <2> QED
    BY <2>1, <2>2
<1>3. ASSUME Source(t).meta = Nothing, Source(t).of = {} PROVE Source(t) = Empty
  <2>1. Source(t).whole = FALSE
    BY <1>1, <1>2, <1>3 DEF Contents
  <2> QED
    BY <1>1, <1>3, <2>1 DEF Contents, Empty
<1> QED
  BY <1>1, <1>2, <1>3

LEMMA SameSource ==
  ASSUME Ran, NEW t \in Terminals, OnlyInHand(t), cmd'[t].todo = cmd[t].todo
  PROVE  Source(t)' = Source(t) /\ Task(t)' = Task(t)
<1>1. Task(t)' = Task(t)
  BY DEF Task
<1>2. CASE Task(t).from = Unpacked
  BY <1>1, <1>2 DEF Source, OnlyInHand
<1>3. CASE Task(t).from # Unpacked
  BY <1>1, <1>3, WorkFacts DEF Source, OnlyInHand
<1> QED
  BY <1>1, <1>2, <1>3

LEMMA MakeDirSettles ==
  ASSUME Ran, Ran', NEW t \in Terminals, MakeDir(t), Regular, Busy(t)
  PROVE  Settled(t)'
<1>0. PICK D \in Dirs : D = Task(t).to
  BY WorkFacts DEF MakeDir
<1>1. /\ HasWork(t) /\ Task(t).act = "copy" /\ cmd[t] \in CommandRecords /\ Begins(t) /\ CopyGoes(t)
      /\ Source(t) \notin {NoDir, Empty}
  BY DEF MakeDir, Ran, Begins, Busy
<1>2. shelf[D] = NoDir
  BY <1>0, <1>1 DEF CopyGoes
<1>3. shelf'[D] = Empty /\ \A d \in Dirs \ {D} : shelf'[d] = shelf[d]
  BY <1>0, <1>2 DEF MakeDir, SetDir, Ran
<1>4. /\ cmd'[t].op = cmd[t].op /\ cmd'[t].at = cmd[t].at /\ cmd'[t].pkg = cmd[t].pkg /\ cmd'[t].dst = cmd[t].dst
      /\ cmd'[t].todo = cmd[t].todo /\ cmd'[t].left = SourceParts(t) /\ cmd'[t].open = Nothing
  <2>1. cmd'[t] = [cmd[t] EXCEPT !.left = SourceParts(t)]
    BY DEF MakeDir, Become, Ran
  <2> QED
    BY <1>1, <2>1 DEF CommandRecords, Begins
<1>5. OnlyInHand(t)
  BY <1>0, <1>1, <1>3, <1>4 DEF OnlyInHand, MakeDir, past
<1>6. Empty # NoDir /\ Empty.meta = Nothing /\ Empty.of = {} /\ ~Empty.whole
  <2>1. Empty \in Contents
    BY DEF Empty, Contents
  <2> QED
    BY <2>1, PartsAssumption DEF Empty
<1>7. Regular'
  BY <1>3, <1>6 DEF Regular
<1>8. CopyGoes(t)'
  <2>1. Source(t)' = Source(t) /\ Task(t)' = Task(t)
    BY <1>4, <1>5, SameSource
  <2>2. /\ "meta" \in SourceParts(t) <=> Source(t).meta # Nothing
        /\ "files" \in SourceParts(t) <=> Source(t).of # {}
    BY DEF SourceParts, Parts
  <2>3. ~Begins(t)'
    BY <1>1, <1>4, <2>2, SourceFacts DEF Begins
  <2>4. Nothing # "meta" /\ Nothing # "files"
    BY PartsAssumption DEF Parts
  <2>5. Source(t).of = {} => Source(t).whole = FALSE
    BY <1>1, SourceFacts DEF Contents
  <2>6. Empty.whole = FALSE
    BY DEF Empty
  <2> QED
    BY <1>0, <1>1, <1>3, <1>4, <1>6, <2>1, <2>2, <2>3, <2>4, <2>5, <2>6 DEF CopyGoes
<1> QED
  BY <1>4, <1>5, <1>7, <1>8, WorkHolds

LEMMA CopyOpensSettles ==
  ASSUME Ran, Ran', NEW t \in Terminals, CopyOpens(t), Regular, Busy(t)
  PROVE  Settled(t)'
<1>0. HasWork(t) /\ ~Begins(t) /\ cmd[t].open = Nothing
  BY DEF CopyOpens, Begins
<1>1. PICK D \in Dirs : D = Task(t).to
  BY <1>0, CopyFacts
<1>2. /\ Task(t).act = "copy" /\ cmd[t] \in CommandRecords /\ CopyGoes(t) /\ Source(t) # NoDir
      /\ shelf[D] \in Contents /\ Source(t) \in Contents
  BY <1>0, <1>1, CopyFacts DEF CopyOpens, Ran, Busy
<1>3. PICK p \in cmd[t].left :
        /\ cmd'[t] = [cmd[t] EXCEPT !.open = p, !.left = cmd[t].left \ {p}]
        /\ SetDir(D, IF p = "meta" THEN [shelf[D] EXCEPT !.meta = Torn]
                     ELSE [shelf[D] EXCEPT !.of = shelf[D].of \cup Source(t).of, !.whole = FALSE])
  BY <1>1 DEF CopyOpens, Become, Ran
<1>4. /\ cmd'[t].op = cmd[t].op /\ cmd'[t].at = cmd[t].at /\ cmd'[t].pkg = cmd[t].pkg /\ cmd'[t].dst = cmd[t].dst
      /\ cmd'[t].todo = cmd[t].todo /\ cmd'[t].left = cmd[t].left \ {p} /\ cmd'[t].open = p /\ p \in Parts
  BY <1>2, <1>3 DEF CommandRecords
<1>5. \A d \in Dirs \ {D} : shelf'[d] = shelf[d]
  BY <1>3 DEF SetDir, Ran
<1>6. OnlyInHand(t)
  BY <1>0, <1>1, <1>4, <1>5 DEF OnlyInHand, CopyOpens, past
<1>7. Source(t)' = Source(t) /\ Task(t)' = Task(t) /\ ~Begins(t)'
  <2>1. p # Nothing
    BY <1>4, PartsAssumption
  <2> QED
    BY <1>4, <1>6, <2>1, SameSource DEF Begins
<1>8. /\ IF "meta" \in cmd[t].left THEN shelf[D].meta = Nothing /\ Source(t).meta # Nothing
         ELSE shelf[D].meta = Source(t).meta
      /\ IF "files" \in cmd[t].left THEN shelf[D].of = {} /\ ~shelf[D].whole /\ Source(t).of # {}
         ELSE shelf[D].of = Source(t).of /\ shelf[D].whole = Source(t).whole
  <2>1. Nothing # "meta" /\ Nothing # "files"
    BY PartsAssumption DEF Parts
  <2>2. Source(t).whole \in BOOLEAN
    BY <1>2 DEF Contents
  <2> QED
    BY <1>0, <1>1, <1>2, <2>1, <2>2 DEF CopyGoes
<1>9. Source(t) # Empty
  BY <1>0, <1>2 DEF CopyGoes
<1>10. CASE p = "meta"
  <2>1. shelf'[D] = [shelf[D] EXCEPT !.meta = Torn]
    BY <1>1, <1>3, <1>10 DEF SetDir, Ran
  <2>2. shelf'[D].meta = Torn /\ shelf'[D].of = shelf[D].of /\ shelf'[D].whole = shelf[D].whole /\ shelf'[D] # NoDir
    <3>1. shelf'[D] \in Contents
      BY <1>2, <2>1 DEF Contents
    <3> QED
      BY <1>2, <2>1, <3>1, PartsAssumption DEF Contents
  <2>3. Regular'
    BY <1>2, <1>5, <2>2, PartsAssumption DEF Regular
  <2>4. CopyGoes(t)'
    <3>1. Source(t).whole \in BOOLEAN
      BY <1>2 DEF Contents
    <3> QED
      BY <1>1, <1>2, <1>4, <1>7, <1>8, <1>9, <1>10, <2>2, <3>1 DEF CopyGoes
  <2> QED
    BY <1>4, <1>6, <2>3, <2>4, WorkHolds
<1>11. CASE p = "files"
  <2>1. shelf'[D] = [shelf[D] EXCEPT !.of = shelf[D].of \cup Source(t).of, !.whole = FALSE]
    BY <1>1, <1>3, <1>11 DEF SetDir, Ran
  <2>2. /\ shelf'[D].meta = shelf[D].meta /\ shelf'[D].of = Source(t).of /\ shelf'[D].whole = FALSE
        /\ shelf'[D] # NoDir
    <3>1. shelf[D].of \cup Source(t).of \in SUBSET Packages
      BY <1>2 DEF Contents
    <3>2. shelf'[D] \in Contents
      BY <1>2, <2>1, <3>1 DEF Contents
    <3>3. shelf[D].of \cup Source(t).of = Source(t).of
      BY <1>8, <1>11
    <3> QED
      BY <1>2, <2>1, <3>2, <3>3, PartsAssumption DEF Contents
  <2>3. Regular'
    BY <1>5, <2>2 DEF Regular
  <2>4. CopyGoes(t)'
    BY <1>1, <1>2, <1>4, <1>7, <1>8, <1>9, <1>11, <2>2 DEF CopyGoes
  <2> QED
    BY <1>4, <1>6, <2>3, <2>4, WorkHolds
<1> QED
  BY <1>4, <1>10, <1>11 DEF Parts

(* A copy that closes a part; it was the last one.                         *)
LEMMA CloseFacts ==
  ASSUME Ran, NEW t \in Terminals, CopyCloses(t), Busy(t), Regular
  PROVE  /\ HasWork(t) /\ ~Begins(t) /\ Task(t).act = "copy" /\ Task(t).to \in Dirs /\ OnlyInHand(t)
         /\ cmd'[t].left = cmd[t].left /\ cmd'[t].open = Nothing
         /\ cmd'[t].todo = IF cmd[t].left = {} THEN Tail(cmd[t].todo) ELSE cmd[t].todo
         /\ shelf'[Task(t).to] # NoDir /\ Regular'
         /\ Source(t) \in Contents /\ Source(t) # Empty
         /\ LET a == shelf'[Task(t).to]
                s == Source(t)
            IN  /\ IF "meta" \in cmd[t].left THEN a.meta = Nothing /\ s.meta # Nothing ELSE a.meta = s.meta
                /\ IF "files" \in cmd[t].left THEN a.of = {} /\ ~a.whole /\ s.of # {}
                   ELSE a.of = s.of /\ a.whole = s.whole
<1>0. HasWork(t) /\ ~Begins(t) /\ cmd[t].open # Nothing
  BY DEF CopyCloses, Begins
<1>1. PICK D \in Dirs : D = Task(t).to
  BY <1>0, CopyFacts
<1>2. /\ Task(t).act = "copy" /\ cmd[t] \in CommandRecords /\ CopyGoes(t) /\ Source(t) # NoDir
      /\ shelf[D] \in Contents /\ Source(t) \in Contents /\ cmd[t].open \in Parts
  BY <1>0, <1>1, CopyFacts DEF CopyCloses, Ran, Busy, CommandRecords
<1>3. /\ cmd'[t].op = cmd[t].op /\ cmd'[t].at = cmd[t].at /\ cmd'[t].pkg = cmd[t].pkg /\ cmd'[t].dst = cmd[t].dst
      /\ cmd'[t].todo = IF cmd[t].left = {} THEN Tail(cmd[t].todo) ELSE cmd[t].todo
      /\ cmd'[t].left = cmd[t].left /\ cmd'[t].open = Nothing
  <2>1. CASE cmd[t].left = {}
    <3>1. cmd'[t] = [cmd[t] EXCEPT !.open = Nothing, !.todo = Tail(cmd[t].todo)]
      BY <2>1 DEF CopyCloses, Become, Ran
    <3> QED
      BY <1>2, <2>1, <3>1 DEF CommandRecords
  <2>2. CASE cmd[t].left # {}
    <3>1. cmd'[t] = [cmd[t] EXCEPT !.open = Nothing]
      BY <2>2 DEF CopyCloses, Become, Ran
    <3> QED
      BY <1>2, <2>2, <3>1 DEF CommandRecords
  <2> QED
    BY <2>1, <2>2
<1>4. \A d \in Dirs \ {D} : shelf'[d] = shelf[d]
  BY <1>1 DEF CopyCloses, SetDir, Ran
<1>5. OnlyInHand(t)
  BY <1>0, <1>1, <1>3, <1>4 DEF OnlyInHand, CopyCloses, past
<1>6. Source(t) # Empty /\ (Source(t).of = {} => ~Source(t).whole) /\ Source(t).whole \in BOOLEAN
  BY <1>0, <1>2, SourceFacts DEF CopyGoes, Contents
<1>7. cmd[t].open \notin cmd[t].left
  BY DEF Ran, CommandOK
<1>8. CASE cmd[t].open = "meta"
  <2>1. shelf'[D] = [shelf[D] EXCEPT !.meta = Source(t).meta]
    BY <1>1, <1>8 DEF CopyCloses, SetDir, Ran
  <2>2. /\ shelf'[D].meta = Source(t).meta /\ shelf'[D].of = shelf[D].of /\ shelf'[D].whole = shelf[D].whole
        /\ shelf'[D] # NoDir
    <3>1. shelf'[D] \in Contents
      BY <1>2, <2>1 DEF Contents
    <3> QED
      BY <1>2, <2>1, <3>1, PartsAssumption DEF Contents
  <2>3. IF "files" \in cmd[t].left THEN shelf[D].of = {} /\ ~shelf[D].whole /\ Source(t).of # {}
        ELSE shelf[D].of = Source(t).of /\ shelf[D].whole = Source(t).whole
    BY <1>0, <1>1, <1>2, <1>6, <1>8 DEF CopyGoes
  <2>4. Regular'
    BY <1>2, <1>4, <2>2, PartsAssumption DEF Regular
  <2> QED
    BY <1>0, <1>1, <1>2, <1>3, <1>5, <1>6, <1>7, <1>8, <2>2, <2>3, <2>4
<1>9. CASE cmd[t].open = "files"
  <2>1. shelf'[D] = [shelf[D] EXCEPT !.whole = Source(t).whole]
    BY <1>1, <1>9 DEF CopyCloses, SetDir, Ran
  <2>2. /\ shelf'[D].meta = shelf[D].meta /\ shelf'[D].of = shelf[D].of /\ shelf'[D].whole = Source(t).whole
        /\ shelf'[D] # NoDir
    <3>1. shelf'[D] \in Contents
      BY <1>2, <2>1 DEF Contents
    <3> QED
      BY <1>2, <2>1, <3>1, PartsAssumption DEF Contents
  <2>3. /\ IF "meta" \in cmd[t].left THEN shelf[D].meta = Nothing /\ Source(t).meta # Nothing
           ELSE shelf[D].meta = Source(t).meta
        /\ shelf[D].of = Source(t).of
    BY <1>0, <1>1, <1>2, <1>7, <1>9 DEF CopyGoes
  <2>4. Regular'
    BY <1>4, <1>6, <2>2, <2>3 DEF Regular
  <2> QED
    BY <1>0, <1>1, <1>2, <1>3, <1>5, <1>6, <1>7, <1>9, <2>2, <2>3, <2>4
<1> QED
  BY <1>2, <1>8, <1>9 DEF Parts

LEMMA CopyEndsStage ==
  ASSUME Ran, NEW t \in Terminals, OnlyInHand(t), Task(t).act = "copy", Task(t).to \in Dirs,
         shelf'[Task(t).to] = Source(t), cmd'[t].todo = Tail(cmd[t].todo), Stage(t),
         \A d \in Dirs : InHand(t, d) \/ Fine(d), NEW D, D = Task(t).to
  PROVE  Stage(t)' /\ Fine(D)'
<1>1. /\ (NoneExternal' <=> NoneExternal) /\ placed' = placed /\ HasWork(t)
      /\ (Installing(t)' <=> Installing(t)) /\ \A op, at : Does(t, op, at)' <=> Does(t, op, at)
  BY DEF NoneExternal, OnlyInHand, Installing, Does
<1>2. Plain \in Dirs /\ \A d \in Dirs : d # Task(t).to => shelf'[d] = shelf[d] /\ Fine(d)
  BY DirFacts DEF OnlyInHand, InHand
<1>3. ASSUME NEW d \in Dirs, Fills(t, d)
      PROVE  /\ Task(t).to = d /\ Source(t) = Complete(cmd[t].pkg) /\ ~HasWork(t)'
             /\ shelf'[d] = Complete(cmd[t].pkg)
  BY <1>3, FillFacts DEF HasWork
<1>4. ASSUME Installing(t)
      PROVE  cmd[t].pkg \in placed /\ cmd[t].pkg \in Packages /\ cmd[t].dst \in {Plain, Detached(cmd[t].pkg)}
  BY <1>4 DEF Ran, CommandOK
<1>5. ASSUME NEW prior \in Packages, SwapStage(t, prior) PROVE Stage(t)' /\ Fine(D)'
  <2>1. cmd[t].todo = SettingAside(prior) /\ Task(t) = Copying(Plain, Detached(prior))
    <3>1. cmd[t].todo = Detaching(prior) => Task(t) = Deletion(Detached(prior))
      BY TaskSequences DEF Task
    <3>2. cmd[t].todo = SettingAside(prior)
      BY <1>5, <3>1, TaskFields DEF SwapStage, Swaps
    <3> QED
      BY <3>2, TaskSequences DEF Task
  <2>2. Fills(t, Plain)'
    BY <1>5, <2>1, TaskSequences DEF Fills, SwapStage, OnlyInHand
  <2>3. Task(t).to = Detached(prior) /\ Task(t).from = Plain /\ Detached(prior) # Plain
    BY <2>1, TaskFields, PackageFacts
  <2>4. Source(t) = Complete(prior) /\ shelf'[Detached(prior)] = Complete(prior)
    BY <1>2, <1>5, <2>3, DirFacts DEF Source, SwapStage
  <2>5. NoneNewer(cmd[t].pkg.version, {Plain})'
    <3>1. NoneExternal => prior.version <= cmd[t].pkg.version
      BY <1>2, <1>5, <2>3, CompleteFacts, PackageFacts DEF SwapStage, NoneNewer
    <3> QED
      BY <1>1, <1>2, <1>5, <2>3, <2>4, <3>1, CompleteFacts DEF SwapStage, NoneNewer, OnlyInHand
  <2>6. PlainStage(t)'
    BY <1>1, <1>5, <2>2, <2>5 DEF SwapStage, PlainStage, OnlyInHand
  <2>7. prior \in placed
    BY <1>2, <1>5, <2>3, CompleteFacts, FineFacts, PackageFacts DEF SwapStage
  <2>8. Stage(t)'
    BY <2>6 DEF Stage, PlainStage
  <2> QED
    BY <1>1, <2>3, <2>4, <2>7, <2>8 DEF Fine
<1>6. ASSUME PlainStage(t) PROVE Stage(t)' /\ Fine(D)'
  <2>1. /\ Task(t).to = Plain /\ ~HasWork(t)' /\ shelf'[Plain] = Complete(cmd[t].pkg) /\ cmd[t].dst = Plain
    BY <1>2, <1>3, <1>6 DEF PlainStage, Fills
  <2>2. /\ cmd[t].pkg \in Packages /\ cmd[t].pkg \in placed /\ shelf'[Plain] # NoDir
        /\ shelf'[Plain].meta = cmd[t].pkg
    BY <1>4, <1>6, <2>1, CompleteFacts DEF PlainStage
  <2>3. PlainNewest({})'
    BY <1>1, <1>2, <1>6, <2>1, <2>2, PackageFacts DEF PlainStage, PlainNewest, NoneNewer
  <2>4. Stage(t)'
    BY <1>1, <1>6, <2>1, <2>3 DEF Stage, PlainStage, Ready, OnlyInHand
  <2> QED
    BY <1>1, <2>1, <2>2, <2>4 DEF Fine
<1>7. ASSUME NEW d \in Dirs \ {Plain}, BesideStage(t, d) PROVE Stage(t)' /\ Fine(D)'
  <2>1. Task(t).to = d /\ ~HasWork(t)' /\ shelf'[d] = Complete(cmd[t].pkg) /\ cmd[t].dst = d
    BY <1>3, <1>7 DEF BesideStage, Fills
  <2>2. cmd[t].pkg \in Packages /\ cmd[t].pkg \in placed /\ shelf'[d].meta = cmd[t].pkg /\ d \in {Plain, Detached(cmd[t].pkg)}
    BY <1>4, <1>7, <2>1, CompleteFacts DEF BesideStage
  <2>3. PlainNewest({})'
    BY <1>1, <1>2, <1>7, <2>1, <2>2 DEF BesideStage, PlainNewest, NoneNewer
  <2>4. Stage(t)'
    BY <1>1, <1>7, <2>1, <2>3 DEF Stage, BesideStage, Ready, OnlyInHand
  <2> QED
    BY <1>1, <2>1, <2>2, <2>4 DEF Fine
<1>8. ASSUME NEW d \in Dirs, DropStage(t, d) \/ TidyStage(t, d) PROVE FALSE
  BY <1>8, InHandOf DEF DropStage, TidyStage
<1>9. ASSUME NEW d \in Dirs \ {Plain}, RenameStage(t, d) PROVE Stage(t)' /\ Fine(D)'
  <2>1. Task(t).to = Plain /\ Task(t).from = d /\ Drops(t, d)'
    BY <1>9, InHandOf, TaskSequences DEF RenameStage, Drops, Renames
  <2>2. shelf'[Plain] = shelf[d] /\ shelf'[d] = shelf[d]
    BY <1>2, <2>1, DirFacts DEF Source
  <2>3. PICK m \in placed : m \in Packages /\ shelf[d] = Complete(m)
    BY <1>2, <1>9, <2>1, FineFacts DEF RenameStage
  <2>4. PlainNewest({d})'
    BY <1>1, <1>2, <1>9, <2>1, <2>2, <2>3, CompleteFacts, PackageFacts DEF RenameStage, PlainNewest, NoneNewer
  <2>5. TidyStage(t, d)'
    BY <1>1, <1>9, <2>1, <2>4 DEF RenameStage, TidyStage
  <2>6. Stage(t)'
    BY <2>5 DEF Stage, TidyStage
  <2> QED
    BY <1>1, <2>1, <2>2, <2>3, <2>6 DEF Fine
<1> QED
  BY <1>1, <1>5, <1>6, <1>7, <1>8, <1>9, WorkStages

LEMMA CopyClosesSettles ==
  ASSUME Ran, Ran', NEW t \in Terminals, CopyCloses(t), Regular, Busy(t)
  PROVE  Settled(t)'
<1>1. /\ HasWork(t) /\ Task(t).act = "copy" /\ Task(t).to \in Dirs /\ OnlyInHand(t) /\ Regular'
      /\ cmd'[t].left = cmd[t].left /\ cmd'[t].open = Nothing /\ shelf'[Task(t).to] # NoDir
  BY CloseFacts
<1>2. CASE cmd[t].left # {}
  <2>1. cmd'[t].todo = cmd[t].todo
    BY <1>2, CloseFacts
  <2>2. Source(t)' = Source(t) /\ Task(t)' = Task(t) /\ ~Begins(t)'
    BY <1>1, <1>2, <2>1, SameSource DEF Begins
  <2>3. Source(t) \in Contents /\ Source(t) # Empty /\ Source(t) # NoDir /\ Source(t).whole \in BOOLEAN
    BY CloseFacts, PartsAssumption DEF Contents
  <2>4. Nothing # "meta" /\ Nothing # "files"
    BY PartsAssumption DEF Parts
  <2>5. CopyGoes(t)'
    BY <1>1, <2>2, <2>3, <2>4, CloseFacts DEF CopyGoes
  <2> QED
    BY <1>1, <2>1, <2>5, WorkHolds
<1>3. CASE cmd[t].left = {}
  <2>1. cmd'[t].todo = Tail(cmd[t].todo)
    BY <1>3, CloseFacts
  <2>2. shelf'[Task(t).to] = Source(t)
    <3>1. shelf'[Task(t).to] \in Contents /\ Source(t) \in Contents
      BY <1>1, CloseFacts DEF Ran
    <3>2. /\ shelf'[Task(t).to].meta = Source(t).meta /\ shelf'[Task(t).to].of = Source(t).of
          /\ shelf'[Task(t).to].whole = Source(t).whole
      BY <1>3, CloseFacts
    <3> QED
      BY <3>1, <3>2 DEF Contents
  <2>3. \/ ~HasWork(t)'
        \/ /\ HasWork(t)' /\ Task(t)'.to = Task(t).from /\ Task(t)'.act = "remove"
           /\ Task(t).from \in Dirs \ {Task(t).to} /\ Source(t) = shelf[Task(t).from]
    BY <1>1, <2>1, NextTask, WorkFacts, DirFacts
  <2>4. Active(t)'
    <3>1. cmd'[t].at \in {"work", "tidy"}
      BY <1>1, WorkFacts DEF OnlyInHand
    <3>2. cmd'[t].at # Resting.at /\ cmd'[t].at # Closed.at
      BY <3>1 DEF Resting, Closed
    <3> QED
      BY <3>2 DEF Active
  <2>5. KeptBeside(t)'
    <3>1. SUFFICES ASSUME NEW g \in owed, Rivals(g) = {}
                   PROVE  \E d \in Dirs : shelf'[d] = Complete(g) /\ ~InHand(t, d)'
      BY <1>1 DEF KeptBeside, OnlyInHand
    <3>2. PICK d \in Dirs : shelf[d] = Complete(g) /\ d # Task(t).to
      BY <1>1, <3>1 DEF Busy, KeptBeside, InHand
    <3>3. shelf'[d] = Complete(g)
      BY <1>1, <3>2 DEF OnlyInHand
    <3>4. CASE ~HasWork(t)' \/ d # Task(t).from
      BY <2>3, <3>3, <3>4 DEF InHand
    <3>5. CASE HasWork(t)' /\ d = Task(t).from
      BY <1>1, <2>2, <2>3, <3>2, <3>5 DEF InHand
    <3> QED
      BY <3>4, <3>5
  <2>6. HasWork(t)' => Task(t)'.act = "remove"
    BY <2>3
  <2>7. cut' = "yes" => ~Installing(t)'
    BY <1>1 DEF Busy, OnlyInHand, Installing, Does
  <2>8. ASSUME cut' = "no" PROVE Stage(t)' /\ \A d \in Dirs : Fine(d)'
    <3>1. Stage(t) /\ \A d \in Dirs : InHand(t, d) \/ Fine(d)
      BY <1>1, <2>8 DEF Busy, OnlyInHand
    <3>2. ASSUME NEW D, D = Task(t).to PROVE Stage(t)' /\ Fine(D)'
      BY <1>1, <2>1, <2>2, <3>1, <3>2, CopyEndsStage
    <3>3. ASSUME NEW d \in Dirs, d # Task(t).to PROVE Fine(d)'
      BY <1>1, <3>1, <3>3 DEF InHand, Fine, OnlyInHand
    <3> QED
      BY <3>2, <3>3
  <2> QED
    BY <1>1, <2>4, <2>5, <2>6, <2>7, <2>8 DEF Settled, Busy
<1> QED
  BY <1>2, <1>3

(* Nothing disturbs a lone command, but what another left unfinished.      *)
LEMMA DisturbedSettles ==
  ASSUME Ran, Ran', NEW t \in Terminals, Disturbed(t), Regular, Busy(t), cut' # "resumed"
  PROVE  Settled(t)'
<1>1. /\ shelf' = shelf /\ owed' = owed /\ cut' = cut /\ placed' = placed /\ KeptBeside(t) /\ HasWork(t)
      /\ Task(t).act = "copy" /\ CopyGoes(t) /\ cmd'[t] = Retry(cmd[t])
  BY DEF Disturbed, Become, Ran, Busy, past
<1>2. Begins(t) /\ Source(t) \in {NoDir, Empty}
  BY DEF Disturbed, CopyGoes, Begins, Busy
<1>3. ASSUME NEW d \in Dirs, Fine(d), shelf[d] \in {NoDir, Empty} PROVE shelf[d] = NoDir
  BY <1>3, FineFacts, CompleteFacts
<1>4. ~Installing(t) /\ cut # "no"
  <2>1. cut # "no"
    <3> SUFFICES ASSUME cut = "no" PROVE FALSE
      OBVIOUS
    <3>1. Stage(t) /\ \A d \in Dirs : InHand(t, d) \/ Fine(d)
      BY DEF Busy
    <3>2. ASSUME NEW prior \in Packages, SwapStage(t, prior) PROVE FALSE
      <4>1. Task(t) = Deletion(Detached(prior)) \/ Task(t) = Copying(Plain, Detached(prior))
        BY <3>2, TaskSequences DEF SwapStage, Swaps, Task
      <4>2. Task(t).from = Plain
        BY <1>1, <4>1, TaskFields
      <4>3. Source(t) = Complete(prior)
        BY <3>2, <4>2, DirFacts DEF Source, SwapStage
      <4> QED
        BY <1>2, <4>3, CompleteFacts
    <3>3. ASSUME NEW d, Fills(t, d), Installing(t) PROVE FALSE
      <4>1. Source(t) = Complete(cmd[t].pkg) /\ cmd[t].pkg \in Packages
        BY <1>1, <3>3, FillFacts DEF Ran, CommandOK
      <4> QED
        BY <1>2, <4>1, CompleteFacts
    <3>4. ASSUME NEW d \in Dirs \ {Plain}, RenameStage(t, d) PROVE FALSE
      <4>1. Task(t).to = Plain /\ Task(t).from = d
        BY <3>4, InHandOf DEF RenameStage
      <4>2. Source(t) = shelf[d] /\ Fine(d)
        BY <3>1, <4>1, DirFacts DEF Source, InHand
      <4> QED
        BY <1>2, <1>3, <3>4, <4>2 DEF RenameStage
    <3>5. ASSUME NEW d, DropStage(t, d) \/ TidyStage(t, d) PROVE FALSE
      BY <1>1, <3>5, InHandOf DEF DropStage, TidyStage
    <3> QED
      BY <1>1, <3>1, <3>2, <3>3, <3>4, <3>5, WorkStages DEF PlainStage, BesideStage
  <2> QED
    BY <1>1, <2>1 DEF Busy, Ran
<1>5. cmd'[t] = Resting
  <2>1. cmd[t].op # "install"
    BY <1>1, <1>4, WorkFacts DEF Ran, CommandOK, Shape, Installing, Does
  <2> QED
    BY <1>1, <2>1 DEF Retry
<1> QED
  BY <1>1, <1>4, <1>5, RestSettles


-----------------------------------------------------------------------------
(***************************************************************************)
(* Every step, and the theorems.                                           *)
(***************************************************************************)

(* A step of a lone terminal, before work is resumed.                      *)
LEMMA LoneStep ==
  ASSUME Ran, Ran', Orderly, NEW t \in Terminals, PackageStep(t), ~crowded', cut' # "resumed"
  PROVE  Settled(t)' /\ (cut' = "no" => (unfit' => unfit))
<1>1. ~crowded /\ cut # "resumed" /\ Regular /\ \A u \in Terminals \ {t} : ~Active(u)
  BY LoneCommand, StepsGoOn DEF Orderly
<1>2. Active(t) => Busy(t)
  BY <1>1 DEF Orderly
<1>3. CASE Run(t)
  <2>1. ~Active(t)
    BY <1>3 DEF Run, Active
  <2>2. AtRest
    BY <1>1, <2>1 DEF Orderly
  <2> QED
    BY <1>1, <1>3, <2>2, RunSettles DEF Run
<1>4. CASE ~Run(t)
  <2>1. Busy(t)
    BY <1>2, <1>4, LoneCommand
  <2>2. CASE LookToInstall(t)
    BY <1>1, <2>1, <2>2, LookToInstallSettles
  <2>3. CASE Placed(t)
    BY <1>1, <2>1, <2>3, PlacedSettles
  <2>4. CASE LookToUninstall(t)
    BY <1>1, <2>1, <2>4, LookToUninstallSettles DEF LookToUninstall
  <2>5. CASE ListingFails(t) \/ Fetch(t) \/ FetchFails(t) \/ Removed(t) \/ Fix(t) \/ Tidied(t)
    <3>1. unfit' = unfit
      BY <2>5 DEF ListingFails, Fetch, FetchFails, Removed, Fix, Tidied, past
    <3> QED
      BY <1>1, <2>1, <2>5, <3>1, ListingFailsSettles, FetchSettles, FetchFailsSettles, RemovedSettles,
         FixSettles, TidiedSettles
  <2>6. CASE Place(t)
    BY <1>1, <2>1, <2>6, PlaceSettles DEF Place
  <2>7. CASE Killed(t) \/ IoFails(t)
    <3>1. unfit' = unfit
      BY <2>7 DEF Killed, IoFails
    <3> QED
      BY <1>1, <2>1, <2>7, <3>1, KilledSettles, IoFailsSettles
  <2>8. CASE RemoveFile(t) \/ RemoveDir(t) \/ MakeDir(t) \/ CopyOpens(t) \/ CopyCloses(t) \/ Disturbed(t)
    <3>1. unfit' = unfit
      BY <2>8 DEF RemoveFile, RemoveDir, MakeDir, CopyOpens, CopyCloses, Disturbed, past
    <3> QED
      BY <1>1, <2>1, <2>8, <3>1, RemoveFileSettles, RemoveDirSettles, MakeDirSettles, CopyOpensSettles,
         CopyClosesSettles, DisturbedSettles
  <2> QED
    BY <1>4, <2>2, <2>3, <2>4, <2>5, <2>6, <2>7, <2>8 DEF PackageStep
<1> QED
  BY <1>3, <1>4

LEMMA OrderlyStep ==
  ASSUME Ran, Ran', Orderly, AnswersWhole, [PackageNext]_packageVars
  PROVE  Orderly' /\ AnswersWhole'
<1>1. CASE UNCHANGED packageVars
  <2>1. shelf' = shelf /\ cmd' = cmd /\ owed' = owed /\ crowded' = crowded /\ cut' = cut
        /\ unfit' = unfit /\ placed' = placed /\ removed' = removed
    BY <1>1 DEF packageVars, past
  <2>2. AnswersWhole' /\ Regular' = Regular /\ \A t : (Active(t)' <=> Active(t))
    BY <2>1 DEF AnswersWhole, Regular, Active
  <2>3. AtRest => AtRest'
    BY <2>1, ShelfKeeps DEF AtRest, Shelved
  <2>4. ASSUME NEW t PROVE Busy(t) => Busy(t)'
    <3>1. /\ Task(t)' = Task(t) /\ Source(t)' = Source(t) /\ (HasWork(t)' <=> HasWork(t))
          /\ (Begins(t)' <=> Begins(t)) /\ (Installing(t)' <=> Installing(t))
      BY <2>1 DEF Task, Source, HasWork, Begins, Installing, Does
    <3>2. \A d : (InHand(t, d)' <=> InHand(t, d)) /\ (Fine(d) => Fine(d)')
      BY <2>1, <3>1, ShelfKeeps DEF InHand
    <3>3. KeptBeside(t) => KeptBeside(t)'
      BY <2>1, <3>2 DEF KeptBeside
    <3>4. CopyGoes(t) => CopyGoes(t)'
      BY <2>1, <3>1 DEF CopyGoes
    <3>5. Stage(t) => Stage(t)'
      <4>1. Ready => Ready'
        BY <2>1, ShelfKeeps
      <4>2. \A v, S : NoneNewer(v, S) => NoneNewer(v, S)'
        BY <2>1, ShelfKeeps
      <4>3. (\A S : PlainNewest(S) => PlainNewest(S)') /\ (NoneExternal' <=> NoneExternal)
        BY <2>1, ShelfKeeps DEF NoneExternal
      <4> QED
        BY <2>1, <3>1, <4>1, <4>2, <4>3 DEF Stage, Does, Removing, Swaps, Fills, Drops, Renames
    <3> QED
      BY <2>1, <3>1, <3>2, <3>3, <3>4, <3>5 DEF Busy
  <2> QED
    BY <2>1, <2>2, <2>3, <2>4 DEF Orderly
<1>2. ASSUME NEW t \in Terminals, PackageStep(t) PROVE Orderly' /\ AnswersWhole'
  <2>1. ASSUME ~crowded', cut' # "resumed"
        PROVE  /\ Settled(t)' /\ (cut' = "no" => (unfit' => unfit))
               /\ \A u \in Terminals \ {t} : ~Active(u)'
    BY <1>2, <2>1, LoneStep, LoneCommand
  <2>2. Orderly'
    <3> SUFFICES ASSUME ~crowded', cut' # "resumed"
                 PROVE  /\ Regular'
                        /\ \A u \in Terminals : Active(u)' => Busy(u)'
                        /\ (\A u \in Terminals : ~Active(u)') => AtRest'
      BY DEF Orderly
    <3> QED
      BY <2>1 DEF Settled
  <2>3. AnswersWhole'
    <3> SUFFICES ASSUME unfit', ~crowded', cut' = "no" PROVE FALSE
      BY DEF AnswersWhole
    <3>1. unfit /\ ~crowded /\ cut = "no"
      BY <1>2, <2>1, LoneCommand, StepsGoOn
    <3> QED
      BY <3>1 DEF AnswersWhole
  <2> QED
    BY <2>2, <2>3
<1> QED
  BY <1>1, <1>2 DEF PackageNext, PackageStep

LEMMA StoreInit == PackageInit => StoreInv
<1> SUFFICES ASSUME PackageInit PROVE StoreInv
  OBVIOUS
<1>1. Ran
  BY RanInit
<1>2. ASSUME NEW t \in Terminals PROVE ~HasWork(t) /\ ~Active(t)
  <2>1. cmd[t] \in {Resting, Closed}
    BY DEF PackageInit
  <2>2. Resting.todo = << >> /\ Closed.todo = << >>
    BY DEF Resting, Closed
  <2> QED
    BY <2>1, <2>2 DEF HasWork, Active
<1>3. \A d \in Dirs : shelf[d] = NoDir
  BY DEF PackageInit
<1>4. Twins
  BY <1>2, <1>3, DirFacts DEF PackageInit, Twins, Alike
<1>5. AnswersWhole
  BY DEF PackageInit, AnswersWhole
<1>6. Orderly
  BY <1>2, <1>3 DEF PackageInit, Orderly, Regular, AtRest, Ready, Fine
<1> QED
  BY <1>1, <1>4, <1>5, <1>6 DEF StoreInv

(* The invariant is the specification's: what is left of StoreSound then.  *)
LEMMA KeptHolds == ASSUME StoreInv PROVE Kept
<1> SUFFICES ASSUME ~crowded, cut # "resumed", NEW g \in owed, Rivals(g) = {} PROVE Shelved(g)
  BY DEF Kept
<1>1. CASE \E t \in Terminals : Active(t)
  BY <1>1 DEF StoreInv, Orderly, Busy, KeptBeside, Shelved
<1>2. CASE \A t \in Terminals : ~Active(t)
  BY <1>2 DEF StoreInv, Orderly, AtRest
<1> QED
  BY <1>1, <1>2

LEMMA TwinsHold == ASSUME StoreInv PROVE TwinsAgree
<1> SUFFICES ASSUME AllRest, cut = "no", removed = {}, Cardinality(placed) = 1, NEW g \in owed
             PROVE  Shelved(g)
  BY DEF TwinsAgree
<1>1. g \in placed /\ placed \subseteq Packages /\ g \in Packages
  BY DEF StoreInv, Ran
<1>2. placed = {g}
  <2>1. IsFiniteSet(placed)
    BY <1>1, NamesAssumption, FS_Subset
  <2>2. PICK h : placed = {h}
    BY <2>1, FS_Singleton
  <2> QED
    BY <1>1, <2>2
<1>3. ASSUME NEW t \in Terminals PROVE ~HasWork(t) /\ cmd[t].left = {} /\ cmd[t].open \notin Parts
  BY PartsAssumption DEF AllRest, HasWork, Resting, Closed
<1>4. Alike(g)
  BY <1>1, <1>2 DEF StoreInv, Twins
<1>5. EachPart(g)
  BY <1>2, <1>3, <1>4 DEF Alike, ToCome
<1>6. shelf[Plain].meta = g /\ shelf[Plain].of = {g} /\ shelf[Plain].whole /\ shelf[Plain] # NoDir
  BY <1>3, <1>5 DEF EachPart, Parts
<1>7. shelf[Plain] \in Contents
  BY <1>6, DirFacts DEF StoreInv, Ran
<1>8. shelf[Plain] = Complete(g)
  BY <1>6, <1>7 DEF Contents, Complete
<1> QED
  BY <1>8, DirFacts DEF Shelved

LEMMA InOrderHolds == ASSUME StoreInv PROVE InOrder
<1> SUFFICES ASSUME AllRest, ~crowded, cut = "no", NEW d \in Dirs, shelf[d] # NoDir
             PROVE  /\ Whole(d) /\ Whole(Plain)
                    /\ (\E g \in placed : External(g)) \/ shelf[d].meta.version <= shelf[Plain].meta.version
  BY DEF InOrder
<1>1. Ready /\ \A e \in Dirs : Fine(e)
  <2>1. \A t \in Terminals : ~Active(t)
    BY DEF AllRest, Active
  <2> QED
    BY <2>1 DEF StoreInv, Orderly, AtRest
<1>2. PlainNewest({})
  BY <1>1 DEF Ready
<1>3. Whole(d) /\ Whole(Plain)
  BY <1>1, <1>2, DirFacts, FineFacts DEF PlainNewest, StoreInv
<1>4. NoneExternal => shelf[d].meta.version <= shelf[Plain].meta.version
  BY <1>2 DEF PlainNewest, NoneNewer
<1> QED
  BY <1>3, <1>4 DEF NoneExternal

LEMMA TypesHold == ASSUME StoreInv PROVE StoreTypeOK
<1>1. ASSUME NEW t \in Terminals PROVE cmd[t].left \subseteq Parts /\ cmd[t].open \in Parts \cup {Nothing}
  <2>1. cmd[t] \in CommandRecords
    BY DEF StoreInv, Ran
  <2> QED
    BY <2>1 DEF CommandRecords
<1> QED
  BY <1>1 DEF StoreInv, Ran, StoreTypeOK

(* The directories and the commands are always as described above: what    *)
(* each terminal knows at each step of an installation or a removal; that  *)
(* commands which install one package side by side bring its parts; that a *)
(* lone command leaves, at every file, what is needed to end in order      *)
(* (nff-rs/platformio_rs/src/package/manager.rs).                               *)
THEOREM StoreHolds == PackageSpec => []StoreInv
<1>1. PackageInit => StoreInv
  BY StoreInit
<1>2. StoreInv /\ [PackageNext]_packageVars => StoreInv'
  <2> SUFFICES ASSUME StoreInv, [PackageNext]_packageVars PROVE StoreInv'
    OBVIOUS
  <2>1. Ran'
    BY RanStep DEF StoreInv
  <2>2. Twins'
    BY <2>1, TwinsStep DEF StoreInv
  <2>3. Orderly' /\ AnswersWhole'
    BY <2>1, OrderlyStep DEF StoreInv
  <2> QED
    BY <2>1, <2>2, <2>3 DEF StoreInv
<1> QED
  BY <1>1, <1>2, PTL DEF PackageSpec

(* For any packages, requests, terminals, mirrors, kills and failures of   *)
(* the disk: what was installed stays in full until it is uninstalled,     *)
(* twins agree, an installation answers with a whole package, and commands *)
(* that end leave whole packages only, the newest under the plain name,    *)
(* with the exceptions that Kept, AnswersWhole and InOrder name            *)
(* (manager.rs:498-518, 618-659, 849-861).                                 *)
THEOREM StoreIsSound == PackageSpec => []StoreSound
<1>1. StoreInv => StoreSound
  <2> SUFFICES ASSUME StoreInv PROVE StoreSound
    OBVIOUS
  <2> QED
    BY TypesHold, KeptHolds, TwinsHold, InOrderHolds DEF StoreSound, StoreInv
<1> QED
  BY <1>1, StoreHolds, PTL

=============================================================================
