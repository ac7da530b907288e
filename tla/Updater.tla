------------------------------ MODULE Updater ------------------------------
(***************************************************************************)
(* The self-updater of a standalone nff binary: commands that show notices *)
(* and spawn a background update, update processes under update.lock, the  *)
(* staging directory, the swap of the installed binary, and update.json,   *)
(* which everybody reads and writes whole.                                 *)
(***************************************************************************)
EXTENDS Integers, FiniteSets

CONSTANTS
  Updaters,    \* processes that run `nff update', each once
  Commands,    \* shells in which nff commands are run, one after another
  Newest,      \* the last version that is released
  Nobody       \* no process

ASSUME UpdaterAssumption ==
  Newest \in Nat \ {0} /\ Nobody \notin Updaters /\ Updaters \cap Commands = {}

(* What a file holds: nothing, half a binary, or a version.                *)
NoContent == 0
Truncated == -1
Content == {Truncated} \cup 0..Newest
NoFile == [by |-> Nobody, holds |-> NoContent]

Inside == {"throttle", "check", "seen_load", "seen_save", "download", "downloading", "checksum",
           "stage", "verify", "copy", "replace", "aside", "put", "rollback", "unstage",
           "won_load", "won_save", "err_load", "err_save", "release"}
UpdaterSteps == Inside \cup {"idle", "peek", "peeked", "lock", "reclaim", "retry", "gone"}

VARIABLES
  windows,     \* the swap renames instead of replacing
  released,    \* the latest release
  binary,      \* the file at the install path
  fresh, old,  \* <target>.new and <target>.old, on Windows
  lock,        \* update.lock: who wrote it
  lockStale,   \* it is older than LOCK_STALE_SECONDS
  partial, stagedFile,  \* the staging directory: [by, holds]
  record,      \* update.json: [checked, updatedTo, failed, surfaced]
  step, image, background, goal, copied,   \* each updater
  hookStep,    \* each shell
  mem,         \* the copy of update.json each process has loaded
  behind,      \* the processes whose copy somebody has written over since
  best, aged, overlapped, stranded, unannounced, clobbered   \* the past

updaterVars == <<windows, released, binary, fresh, old, lock, lockStale, partial, stagedFile, record,
                 step, image, background, goal, copied, hookStep, mem, behind,
                 best, aged, overlapped, stranded, unannounced, clobbered>>
install == <<binary, fresh, old, best, stranded>>
locking == <<lock, lockStale, aged, overlapped>>
staging == <<partial, stagedFile>>
notes   == <<record, mem, behind, unannounced, clobbered>>
process == <<image, background, goal, copied>>

BlankRecord == [checked |-> FALSE, updatedTo |-> 0, failed |-> FALSE, surfaced |-> FALSE]

UpdaterInit ==
  /\ windows \in BOOLEAN
  /\ released \in 1..Newest
  /\ binary = 1 /\ fresh = NoContent /\ old = NoContent
  /\ lock = Nobody /\ lockStale = FALSE
  /\ partial = NoFile /\ stagedFile = NoFile
  /\ record = BlankRecord
  /\ step \in [Updaters -> {"idle", "gone"}]        \* those that are run
  /\ image = [p \in Updaters |-> 0]
  /\ background = [p \in Updaters |-> FALSE]
  /\ goal = [p \in Updaters |-> 0]
  /\ copied = [p \in Updaters |-> NoContent]
  /\ hookStep \in [Commands -> {"idle", "closed"}]   \* those in use
  /\ mem = [x \in Updaters \cup Commands |-> BlankRecord]
  /\ behind = {}
  /\ best = 1 /\ aged = FALSE /\ overlapped = FALSE /\ stranded = FALSE
  /\ unannounced = 0 /\ clobbered = FALSE

Goes(p, next) == step' = [step EXCEPT ![p] = next]
Ends(p) == /\ Goes(p, "gone")
           /\ image' = [image EXCEPT ![p] = 0]
           /\ background' = [background EXCEPT ![p] = FALSE]
           /\ goal' = [goal EXCEPT ![p] = 0]
           /\ copied' = [copied EXCEPT ![p] = NoContent]

(* load_state, and save_state of a changed copy.                           *)
Holding == {p \in Updaters : step[p] \in {"peeked", "seen_save", "won_save", "err_save"}}
             \cup {h \in Commands : hookStep[h] = "save"}
Load(x) == /\ mem' = [mem EXCEPT ![x] = record]
           /\ behind' = behind \ {x}
           /\ UNCHANGED <<record, clobbered>>
Save(x, r) ==
  /\ record' = r
  /\ clobbered' = (clobbered \/ x \in behind)
  /\ behind' = Holding \ {x}
  /\ mem' = [mem EXCEPT ![x] = BlankRecord]

----------------------------------------------------------------------------
(* The world: releases, time.                                              *)
Release ==
  /\ released < Newest /\ released' = released + 1
  /\ UNCHANGED <<windows, install, locking, staging, notes, step, process, hookStep>>

LockAges ==
  /\ lock # Nobody /\ ~lockStale
  /\ lockStale' = TRUE /\ aged' = TRUE
  /\ UNCHANGED <<windows, released, install, lock, overlapped, staging, notes, step, process, hookStep>>

(* The throttle window of the last check ends, in every copy of it.        *)
WindowPasses ==
  /\ record.checked
  /\ record' = [record EXCEPT !.checked = FALSE]
  /\ mem' = [x \in DOMAIN mem |-> [mem[x] EXCEPT !.checked = FALSE]]
  /\ UNCHANGED <<windows, released, install, locking, staging, behind, unannounced, clobbered,
                 step, process, hookStep>>

----------------------------------------------------------------------------
(* The lock.                                                               *)
Starts(p, isBackground, first) ==
  /\ step[p] = "idle" /\ binary > 0
  /\ Goes(p, first)
  /\ image' = [image EXCEPT ![p] = binary]
  /\ background' = [background EXCEPT ![p] = isBackground]

StartUpdate(p) ==
  /\ \E first \in {"lock", "peek"} : Starts(p, FALSE, first)
  /\ UNCHANGED <<windows, released, install, locking, staging, notes, goal, copied, hookStep>>

TakeLock(p) ==
  /\ lock' = p /\ lockStale' = FALSE
  /\ overlapped' = (overlapped \/ \E q \in Updaters \ {p} : step[q] \in Inside)
  /\ Goes(p, "throttle")
  /\ UNCHANGED aged

AnyLock == TRUE
LockIsStale == lockStale

AcquireLock(p) ==
  /\ step[p] = "lock"
  /\ \/ lock = Nobody /\ TakeLock(p) /\ UNCHANGED process
     \/ lock # Nobody /\ LockIsStale /\ Goes(p, "reclaim") /\ UNCHANGED <<locking, process>>
     \/ lock # Nobody /\ ~LockIsStale /\ Ends(p) /\ UNCHANGED locking
  /\ UNCHANGED <<windows, released, install, staging, notes, hookStep>>

(* It unlinks whatever lock is there by now.                               *)
RemoveStaleLock(p) ==
  /\ step[p] = "reclaim"
  /\ \/ lock = Nobody /\ Ends(p)
     \/ lock # Nobody /\ Goes(p, "retry") /\ UNCHANGED process
  /\ lock' = Nobody /\ lockStale' = FALSE
  /\ UNCHANGED <<windows, released, install, aged, overlapped, staging, notes, hookStep>>

RetryLock(p) ==
  /\ step[p] = "retry"
  /\ \/ lock = Nobody /\ TakeLock(p) /\ UNCHANGED process
     \/ /\ lock # Nobody /\ Ends(p)
        /\ IF lockStale THEN lock' = Nobody /\ lockStale' = FALSE ELSE UNCHANGED <<lock, lockStale>>
        /\ UNCHANGED <<aged, overlapped>>
  /\ UNCHANGED <<windows, released, install, staging, notes, hookStep>>

ReleaseLock(p) ==
  /\ step[p] = "release"
  /\ lock' = Nobody /\ lockStale' = FALSE
  /\ Ends(p)
  /\ UNCHANGED <<windows, released, install, aged, overlapped, staging, notes, hookStep>>

----------------------------------------------------------------------------
(* `nff update --check', without the lock: a load, the network, a save.    *)
Peek(p) ==
  /\ step[p] = "peek"
  /\ Load(p) /\ Goes(p, "peeked")
  /\ UNCHANGED <<windows, released, install, locking, staging, unannounced, process, hookStep>>

SavePeek(p) ==
  /\ step[p] = "peeked"
  /\ Ends(p)
  /\ \/ Save(p, [mem[p] EXCEPT !.checked = TRUE])
     \/ UNCHANGED <<record, mem, behind, clobbered>>   \* no answer: it raises
  /\ UNCHANGED <<windows, released, install, locking, staging, unannounced, hookStep>>

----------------------------------------------------------------------------
(* The check, and the record of what came of it.                           *)
Throttle(p) ==
  /\ step[p] = "throttle"
  /\ Goes(p, IF background[p] /\ record.checked THEN "release" ELSE "check")
  /\ UNCHANGED <<windows, released, install, locking, staging, notes, process, hookStep>>

CheckLatest(p) ==
  /\ step[p] = "check"
  /\ \/ Goes(p, "seen_load") /\ goal' = [goal EXCEPT ![p] = released]
     \/ Goes(p, "err_load") /\ UNCHANGED goal
  /\ UNCHANGED <<windows, released, install, locking, staging, notes, image, background, copied, hookStep>>

LoadRecord(p) ==
  /\ step[p] \in {"seen_load", "won_load", "err_load"}
  /\ Load(p)
  /\ Goes(p, CASE step[p] = "seen_load" -> "seen_save"
               [] step[p] = "won_load"  -> "won_save"
               [] OTHER                 -> "err_save")
  /\ UNCHANGED <<windows, released, install, locking, staging, unannounced, process, hookStep>>

SaveChecked(p) ==
  /\ step[p] = "seen_save"
  /\ Save(p, [mem[p] EXCEPT !.checked = TRUE])
  /\ Goes(p, IF goal[p] > image[p] THEN "download" ELSE "release")
  /\ UNCHANGED <<windows, released, install, locking, staging, unannounced, process, hookStep>>

SaveError(p) ==
  /\ step[p] = "err_save"
  /\ Save(p, [mem[p] EXCEPT !.failed = TRUE, !.surfaced = FALSE])
  /\ Goes(p, "release")
  /\ UNCHANGED <<windows, released, install, locking, staging, unannounced, process, hookStep>>

(* On Windows an image that runs cannot be deleted, only renamed.          *)
OldHeld == \E p \in Updaters : step[p] \notin {"idle", "gone"} /\ image[p] = old
CleanupOld == \/ ~OldHeld /\ old' = NoContent
              \/ UNCHANGED old

SaveUpdated(p) ==
  /\ step[p] = "won_save"
  /\ Save(p, [mem[p] EXCEPT !.updatedTo = goal[p], !.failed = FALSE])
  /\ unannounced' = goal[p]
  /\ CleanupOld
  /\ Goes(p, "release")
  /\ UNCHANGED <<windows, released, binary, fresh, best, stranded, locking, staging, process, hookStep>>

----------------------------------------------------------------------------
(* Download, checksum, staging, the trial run of the staged binary.           *)
OpenPartial(p) ==
  /\ step[p] = "download"
  /\ partial' = [by |-> p, holds |-> Truncated]
  /\ Goes(p, "downloading")
  /\ UNCHANGED <<windows, released, install, locking, stagedFile, notes, process, hookStep>>

(* The bytes end up in the file that was opened, whatever it is called by  *)
(* now, if it has a name at all.                                           *)
Written(p, file) == IF file.by = p THEN [file EXCEPT !.holds = goal[p]] ELSE file

ReceiveBinary(p) ==
  /\ step[p] = "downloading"
  /\ \/ /\ partial' = Written(p, partial) /\ stagedFile' = Written(p, stagedFile)
        /\ Goes(p, "checksum")
     \/ Goes(p, "err_load") /\ UNCHANGED staging
  /\ UNCHANGED <<windows, released, install, locking, notes, process, hookStep>>

(* A partial file that somebody removed is an error nobody records.        *)
Checksum(p) ==
  /\ step[p] = "checksum"
  /\ \/ partial.holds = goal[p] /\ Goes(p, "stage") /\ UNCHANGED partial
     \/ partial.holds \notin {goal[p], NoContent} /\ Goes(p, "err_load") /\ partial' = NoFile
     \/ partial = NoFile /\ Goes(p, "release") /\ UNCHANGED partial
     \/ Goes(p, "err_load") /\ UNCHANGED partial      \* no SHA256SUMS
  /\ UNCHANGED <<windows, released, install, locking, stagedFile, notes, process, hookStep>>

StageBinary(p) ==
  /\ step[p] = "stage"
  /\ IF partial = NoFile
       THEN Goes(p, "err_load") /\ UNCHANGED staging
       ELSE Goes(p, "verify") /\ stagedFile' = partial /\ partial' = NoFile
  /\ UNCHANGED <<windows, released, install, locking, notes, process, hookStep>>

Verify(p) ==
  /\ step[p] = "verify"
  /\ \/ stagedFile.holds = goal[p] /\ Goes(p, "copy")
     \/ Goes(p, "err_load")
  /\ UNCHANGED <<windows, released, install, locking, staging, notes, process, hookStep>>

----------------------------------------------------------------------------
(* The swap.                                                               *)
Installs(content) ==
  /\ binary' = content
  /\ best' = IF content > best THEN content ELSE best

CopyStaged(p) ==
  /\ step[p] = "copy"
  /\ \/ /\ stagedFile # NoFile /\ ~windows
        /\ copied' = [copied EXCEPT ![p] = stagedFile.holds]
        /\ Goes(p, "replace")
        /\ UNCHANGED <<fresh, old>>
     \/ /\ stagedFile # NoFile /\ windows
        /\ fresh' = stagedFile.holds
        /\ CleanupOld
        /\ Goes(p, "aside")
        /\ UNCHANGED copied
     \/ Goes(p, "err_load") /\ UNCHANGED <<fresh, old, copied>>
  /\ UNCHANGED <<windows, released, binary, best, stranded, locking, staging, notes,
                 image, background, goal, hookStep>>

Replace(p) ==
  /\ step[p] = "replace"
  /\ copied' = [copied EXCEPT ![p] = NoContent]
  /\ \/ Installs(copied[p]) /\ Goes(p, "unstage")
     \/ Goes(p, "err_load") /\ UNCHANGED <<binary, best>>
  /\ UNCHANGED <<windows, released, fresh, old, stranded, locking, staging, notes,
                 image, background, goal, hookStep>>

(* A rename onto a file that exists fails.  `copied' remembers that the    *)
(* binary was put aside, and which.                                        *)
MoveAside(p) ==
  /\ step[p] = "aside"
  /\ \/ /\ binary # NoContent /\ old = NoContent
        /\ old' = binary /\ binary' = NoContent
        /\ copied' = [copied EXCEPT ![p] = binary]
        /\ Goes(p, "put")
        /\ UNCHANGED fresh
     \/ /\ binary = NoContent
        /\ Goes(p, "put")
        /\ UNCHANGED <<old, binary, copied, fresh>>
     \/ /\ fresh' = NoContent
        /\ Goes(p, "err_load")
        /\ UNCHANGED <<old, binary, copied>>
  /\ UNCHANGED <<windows, released, best, stranded, locking, staging, notes,
                 image, background, goal, hookStep>>

PutNew(p) ==
  /\ step[p] = "put"
  /\ \/ /\ fresh # NoContent /\ binary = NoContent
        /\ Installs(fresh) /\ fresh' = NoContent
        /\ copied' = [copied EXCEPT ![p] = NoContent]
        /\ Goes(p, "unstage")
     \/ /\ Goes(p, "rollback")
        /\ UNCHANGED <<binary, best, fresh, copied>>
  /\ UNCHANGED <<windows, released, old, stranded, locking, staging, notes,
                 image, background, goal, hookStep>>

(* Only what was put aside is put back, and that may fail too.             *)
RollBack(p) ==
  /\ step[p] = "rollback"
  /\ fresh' = NoContent
  /\ copied' = [copied EXCEPT ![p] = NoContent]
  /\ Goes(p, "err_load")
  /\ \/ /\ copied[p] # NoContent /\ old # NoContent /\ binary = NoContent
        /\ binary' = old /\ old' = NoContent
        /\ UNCHANGED stranded
     \/ stranded' = (stranded \/ binary = NoContent) /\ UNCHANGED <<binary, old>>
  /\ UNCHANGED <<windows, released, best, locking, staging, notes,
                 image, background, goal, hookStep>>

Unstage(p) ==
  /\ step[p] = "unstage"
  /\ stagedFile' = NoFile \/ stagedFile' = stagedFile
  /\ Goes(p, "won_load")
  /\ UNCHANGED <<windows, released, install, locking, partial, notes, process, hookStep>>

(* The machine goes down or the process is killed: nothing is released.    *)
Dies(p) ==
  /\ step[p] \notin {"idle", "gone"}
  /\ Ends(p)
  /\ stranded' = (stranded \/ step[p] \in {"put", "rollback"})
  /\ UNCHANGED <<windows, released, binary, fresh, old, best, locking, staging, notes,
                 hookStep>>

----------------------------------------------------------------------------
(* after_command_hook: notices, the save, the cleanup, the spawn.          *)
HookGoes(h, next) == hookStep' = [hookStep EXCEPT ![h] = next]

ShowNotices(h) ==
  /\ hookStep[h] = "idle" /\ binary > 0
  /\ mem' = [mem EXCEPT ![h] = [record EXCEPT !.updatedTo = 0, !.surfaced = record.failed \/ @]]
  /\ behind' = behind \ {h}
  /\ unannounced' = IF record.updatedTo = unannounced THEN 0 ELSE unannounced
  /\ HookGoes(h, IF record.updatedTo # 0 \/ (record.failed /\ ~record.surfaced)
                   THEN "save" ELSE "spawn")
  /\ UNCHANGED <<windows, released, install, locking, staging, record, clobbered, step, process>>

SaveNotices(h) ==
  /\ hookStep[h] = "save"
  /\ record' = mem[h]
  /\ clobbered' = (clobbered \/ h \in behind)
  /\ behind' = Holding \ {h}
  /\ HookGoes(h, "spawn")
  /\ UNCHANGED <<windows, released, install, locking, staging, mem, unannounced, step, process>>

SpawnBackground(h) ==
  /\ hookStep[h] = "spawn"
  /\ HookGoes(h, "idle")
  /\ mem' = [mem EXCEPT ![h] = BlankRecord]
  /\ CleanupOld
  /\ IF ~mem[h].checked /\ (lock = Nobody \/ lockStale)
       THEN \/ \E p \in Updaters : Starts(p, TRUE, "lock")
            \/ UNCHANGED <<step, image, background>>
       ELSE UNCHANGED <<step, image, background>>
  /\ UNCHANGED <<windows, released, binary, fresh, best, stranded, locking, staging, record,
                 behind, unannounced, clobbered, goal, copied>>

----------------------------------------------------------------------------
UpdaterStep(p) ==
  \/ StartUpdate(p) \/ AcquireLock(p) \/ RemoveStaleLock(p) \/ RetryLock(p) \/ ReleaseLock(p)
  \/ Peek(p) \/ SavePeek(p)
  \/ Throttle(p) \/ CheckLatest(p) \/ LoadRecord(p) \/ SaveChecked(p) \/ SaveError(p) \/ SaveUpdated(p)
  \/ OpenPartial(p) \/ ReceiveBinary(p) \/ Checksum(p) \/ StageBinary(p) \/ Verify(p)
  \/ CopyStaged(p) \/ Replace(p) \/ MoveAside(p) \/ PutNew(p) \/ RollBack(p) \/ Unstage(p)
  \/ Dies(p)
HookSteps(h) == ShowNotices(h) \/ SaveNotices(h) \/ SpawnBackground(h)

UpdaterNext ==
  \/ Release \/ LockAges \/ WindowPasses
  \/ \E p \in Updaters : UpdaterStep(p)
  \/ \E h \in Commands : HookSteps(h)

UpdaterSpec == UpdaterInit /\ [][UpdaterNext]_updaterVars

----------------------------------------------------------------------------
RecordType == [checked : BOOLEAN, updatedTo : 0..Newest, failed : BOOLEAN, surfaced : BOOLEAN]
FileType == [by : Updaters \cup {Nobody}, holds : Content]

UpdaterTypeOK ==
  /\ windows \in BOOLEAN /\ lockStale \in BOOLEAN /\ aged \in BOOLEAN /\ overlapped \in BOOLEAN
  /\ stranded \in BOOLEAN /\ clobbered \in BOOLEAN
  /\ released \in 1..Newest /\ best \in 1..Newest /\ unannounced \in 0..Newest
  /\ binary \in Content /\ fresh \in Content /\ old \in Content
  /\ lock \in Updaters \cup {Nobody}
  /\ partial \in FileType /\ stagedFile \in FileType
  /\ record \in RecordType
  /\ step \in [Updaters -> UpdaterSteps]
  /\ image \in [Updaters -> 0..Newest] /\ goal \in [Updaters -> 0..Newest]
  /\ background \in [Updaters -> BOOLEAN] /\ copied \in [Updaters -> Content]
  /\ hookStep \in [Commands -> {"closed", "idle", "save", "spawn"}]
  /\ mem \in [Updaters \cup Commands -> RecordType]
  /\ behind \subseteq Updaters \cup Commands

(* The install path holds a whole binary, whoever dies when, except that   *)
(* on Windows it is empty between the two renames of a swap, and stays so  *)
(* if the process dies there or the way back fails too.  A torn one could  *)
(* get there only from updates that overlap: the partial file of one is    *)
(* what another stages and a third, past its trial run, installs.          *)
TargetUsable ==
  /\ binary = Truncated => overlapped
  /\ binary = NoContent =>
       windows /\ (stranded \/ \E p \in Updaters : step[p] \in {"put", "rollback"})

(* Two updates are under way at once only if a lock had grown old: its     *)
(* holder took longer than LOCK_STALE_SECONDS, or two processes both found *)
(* a dead updater's lock and the slower one unlinked the faster one's.     *)
SingleFlight ==
  /\ overlapped => aged
  /\ \A p, q \in Updaters : p # q /\ step[p] \in Inside /\ step[q] \in Inside => overlapped

(* The installed version never goes back, unless two updates overlapped.   *)
NeverOlder == overlapped \/ binary = NoContent \/ binary >= best

(* A recorded update is announced by the next command, unless somebody     *)
(* saved a copy of update.json loaded before it was recorded.              *)
UpdateAnnounced == unannounced # 0 => record.updatedTo = unannounced \/ clobbered

UpdaterSound == UpdaterTypeOK /\ TargetUsable /\ SingleFlight /\ NeverOlder /\ UpdateAnnounced

=============================================================================
