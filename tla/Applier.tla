------------------------------- MODULE Applier -------------------------------
(* The text-edit path of internal/edit/applier.go: every file of the batch is *)
(* read and its new content computed, then every new content is staged in a   *)
(* temporary file beside its target, then the files are committed one by one  *)
(* by two renames (path -> backup, temporary -> path).  A failure undoes the  *)
(* files already committed and removes what was staged; success discards the  *)
(* backups.                                                                   *)
(*                                                                            *)
(* The applier shares the disk with other programs and with the operating     *)
(* system: an editor may save a file at any moment, any system call may fail, *)
(* and the process may be killed between any two calls.                       *)
EXTENDS Integers

CONSTANTS
    N,          \* files of the batch, in the order of WorkspaceEdit.FileEdits
    MaxFaults,  \* bound: system calls that fail in one execution
    MaxSaves    \* bound: saves of a file by another program in one execution

ASSUME ApplierAssumption == N \in Nat /\ MaxFaults \in Nat /\ MaxSaves \in Nat

VARIABLES
    orig,       \* what is at the file's own path
    tmp,        \* what is at the path of its .refute.tmp file
    bak,        \* what is at the path of its .refute.bak file
    base,       \* the content computePendingFiles read
    tmpPath,    \* files whose pendingFile.tmpPath is set
    backupPath, \* files whose pendingFile.backupPath is set
    pc,         \* the next system call
    i,          \* the file the main loops are at
    k,          \* the file rollback or cleanupPending is at
    stop,       \* the last file cleanupPending is given
    errs,       \* the errors joined in the result, <<what failed, file>>
    up,         \* FALSE once the process has been killed
    faults,     \* system calls that failed so far
    saves       \* saves by another program so far

disk == <<orig, tmp, bak>>
plan == <<base, tmpPath, backupPath>>
vars == <<orig, tmp, bak, base, tmpPath, backupPath, pc, i, k, stop, errs,
          up, faults, saves>>

Files == 1 .. N
None == "none"                          \* no file at that path
User == {"old", "saved"}                \* versions somebody wrote by hand
Edited(c) == IF c = "old" THEN "old+" ELSE "saved+"     \* applyEdits
Product == {"old+", "saved+"}           \* versions the batch produces
Scrap == {"partial", "empty"}           \* an unfinished or a placeholder file

Steps == {"read", "stage", "reserve", "backup", "install", "restore",
          "undoRemove", "undoRestore", "cleanTmp", "cleanBak", "discard"}
Causes == {"read", "stage", "commit", "restore", "rollback", "leftover"}

TypeOK ==
    /\ orig \in [Files -> User \cup Product \cup {None}]
    /\ tmp  \in [Files -> Product \cup Scrap \cup {None}]
    /\ bak  \in [Files -> User \cup Scrap \cup {None}]
    /\ base \in [Files -> User \cup {None}]
    /\ tmpPath \subseteq Files
    /\ backupPath \subseteq Files
    /\ pc \in Steps \cup {"done"}
    /\ i \in 1 .. N + 1
    /\ k \in 0 .. N + 1
    /\ stop \in 0 .. N
    /\ errs \subseteq Causes \X Files
    /\ up \in BOOLEAN
    /\ faults \in 0 .. MaxFaults
    /\ saves \in 0 .. MaxSaves

Init ==
    /\ orig = [f \in Files |-> "old"]
    /\ tmp = [f \in Files |-> None]
    /\ bak = [f \in Files |-> None]
    /\ base = [f \in Files |-> None]
    /\ tmpPath = {} /\ backupPath = {}
    /\ pc = "read" /\ i = 1 /\ k = 0 /\ stop = 0
    /\ errs = {} /\ up = TRUE /\ faults = 0 /\ saves = 0

(* ------------------------------- helpers -------------------------------- *)

Works == UNCHANGED faults
FailTimes(n) == faults + n <= MaxFaults /\ faults' = faults + n
Fails == FailTimes(1)

Report(cause, f) == errs' = errs \cup {<<cause, f>>}

\* Faulty variants, here and below: mistakes TLC must notice when they take the
\* place of the definition that follows.  This rollback forgets one file ...
GiveUpShort == pc' = "undoRemove" /\ k' = i - 2 /\ stop' = N
\* ... and this one is forgotten while everything is cleaned up.
GiveUpNoUndo == pc' = "cleanTmp" /\ k' = 1 /\ stop' = N

\* commitPendingFiles gives up at file i: rollback(committed), then
\* cleanupPending(pendingFiles[i:]).
GiveUp == pc' = "undoRemove" /\ k' = i - 1 /\ stop' = N

(* ----------------------- compute and stage the batch -------------------- *)

\* os.ReadFile, os.Stat and applyEdits for the next file.
ReadFile ==
    /\ pc = "read" /\ i <= N
    /\ base' = [base EXCEPT ![i] = orig[i]]
    /\ i' = i + 1
    /\ Works
    /\ UNCHANGED <<disk, tmpPath, backupPath, pc, k, stop, errs, saves>>

\* The file cannot be read, is named twice or its edits do not fit.
RejectFile ==
    /\ pc = "read" /\ i <= N
    /\ Report("read", i)
    /\ pc' = "done"
    /\ UNCHANGED <<disk, plan, i, k, stop, faults, saves>>

\* writeTempFile for the next file.
Stage ==
    /\ pc = "stage" /\ i <= N
    /\ Works
    /\ tmp' = [tmp EXCEPT ![i] = Edited(base[i])]
    /\ tmpPath' = tmpPath \cup {i}
    /\ i' = i + 1
    /\ UNCHANGED <<orig, bak, base, backupPath, pc, k, stop, errs, saves>>

\* Faulty: what was staged before the failure stays.
StageFailsNoCleanup ==
    /\ pc = "stage" /\ i <= N
    /\ Fails
    /\ Report("stage", i)
    /\ pc' = "done"
    /\ UNCHANGED <<disk, plan, i, k, stop, saves>>

\* writeTempFile fails; its deferred os.Remove may fail too.
StageFails ==
    /\ pc = "stage" /\ i <= N
    /\ \/ Fails /\ UNCHANGED tmp
       \/ FailTimes(2) /\ tmp' = [tmp EXCEPT ![i] = "partial"]
    /\ Report("stage", i)
    /\ pc' = "cleanTmp" /\ k' = 1 /\ stop' = i - 1
    /\ UNCHANGED <<orig, bak, plan, i, saves>>

\* A loop over the files ends and the next phase begins.
NextPhase ==
    /\ pc \in {"read", "stage", "reserve", "discard"} /\ i > N
    /\ pc' = CASE pc = "read"    -> "stage"
               [] pc = "stage"   -> "reserve"
               [] pc = "reserve" -> "discard"
               [] pc = "discard" -> "done"
    /\ i' = IF pc = "discard" THEN i ELSE 1
    /\ UNCHANGED <<disk, plan, k, stop, errs, faults, saves>>

(* --------------------------- commit the batch --------------------------- *)

\* reserveBackupPath: a free name, created and removed again.
Reserve ==
    /\ pc = "reserve" /\ i <= N
    /\ Works
    /\ backupPath' = backupPath \cup {i}
    /\ pc' = "backup"
    /\ UNCHANGED <<disk, base, tmpPath, i, k, stop, errs, saves>>

ReserveFails ==
    /\ pc = "reserve" /\ i <= N
    /\ Fails
    /\ \E left \in {None, "empty"} : bak' = [bak EXCEPT ![i] = left]
    /\ Report("commit", i)
    /\ GiveUp
    /\ UNCHANGED <<orig, tmp, plan, i, saves>>

\* os.Rename(p.origPath, p.backupPath).
Backup ==
    /\ pc = "backup"
    /\ Works
    /\ bak' = [bak EXCEPT ![i] = orig[i]]
    /\ orig' = [orig EXCEPT ![i] = None]
    /\ pc' = "install"
    /\ UNCHANGED <<tmp, plan, i, k, stop, errs, saves>>

BackupFails ==
    /\ pc = "backup"
    /\ Fails
    /\ Report("commit", i)
    /\ GiveUp
    /\ UNCHANGED <<disk, plan, i, saves>>

\* os.Rename(p.tmpPath, p.origPath).
Install ==
    /\ pc = "install"
    /\ Works
    /\ orig' = [orig EXCEPT ![i] = tmp[i]]
    /\ tmp' = [tmp EXCEPT ![i] = None]
    /\ tmpPath' = tmpPath \ {i}
    /\ pc' = "reserve" /\ i' = i + 1
    /\ UNCHANGED <<bak, base, backupPath, k, stop, errs, saves>>

InstallFails ==
    /\ pc = "install"
    /\ Fails
    /\ Report("commit", i)
    /\ pc' = "restore"
    /\ UNCHANGED <<disk, plan, i, k, stop, saves>>

\* os.Rename(p.backupPath, p.origPath) of the file that could not be installed.
Restore ==
    /\ pc = "restore"
    /\ Works
    /\ orig' = [orig EXCEPT ![i] = bak[i]]
    /\ bak' = [bak EXCEPT ![i] = None]
    /\ GiveUp
    /\ UNCHANGED <<tmp, plan, i, errs, saves>>

RestoreFails ==
    /\ pc = "restore"
    /\ Fails
    /\ Report("restore", i)
    /\ GiveUp
    /\ UNCHANGED <<disk, plan, i, saves>>

(* ------------------------------ undo the batch -------------------------- *)

\* os.Remove(p.origPath) of the last committed file not yet undone; a failure
\* is ignored.
UndoRemove ==
    /\ pc = "undoRemove" /\ k >= 1
    /\ \/ Works /\ orig' = [orig EXCEPT ![k] = None]
       \/ Fails /\ UNCHANGED orig
    /\ pc' = "undoRestore"
    /\ UNCHANGED <<tmp, bak, plan, i, k, stop, errs, saves>>

\* os.Rename(p.backupPath, p.origPath) of that file.
UndoRestore ==
    /\ pc = "undoRestore"
    /\ \/ /\ Works
          /\ orig' = [orig EXCEPT ![k] = bak[k]]
          /\ bak' = [bak EXCEPT ![k] = None]
          /\ UNCHANGED errs
       \/ Fails /\ Report("rollback", k) /\ UNCHANGED <<orig, bak>>
    /\ pc' = "undoRemove" /\ k' = k - 1
    /\ UNCHANGED <<tmp, plan, i, stop, saves>>

\* Faulty: cleanupPending is given every file of the batch.
UndoDoneCleanAll ==
    /\ pc = "undoRemove" /\ k = 0
    /\ pc' = "cleanTmp" /\ k' = 1
    /\ UNCHANGED <<disk, plan, i, stop, errs, faults, saves>>

\* rollback returns and cleanupPending starts at the file that failed.
UndoDone ==
    /\ pc = "undoRemove" /\ k = 0
    /\ pc' = "cleanTmp" /\ k' = i
    /\ UNCHANGED <<disk, plan, i, stop, errs, faults, saves>>

\* cleanupPending ignores the errors of its removals.
CleanTmp ==
    /\ pc = "cleanTmp" /\ k <= stop
    /\ \/ k \in tmpPath /\ Works /\ tmp' = [tmp EXCEPT ![k] = None]
       \/ k \in tmpPath /\ Fails /\ UNCHANGED tmp
       \/ k \notin tmpPath /\ UNCHANGED <<tmp, faults>>
    /\ pc' = "cleanBak"
    /\ UNCHANGED <<orig, bak, plan, i, k, stop, errs, saves>>

CleanBak ==
    /\ pc = "cleanBak"
    /\ \/ k \in backupPath /\ Works /\ bak' = [bak EXCEPT ![k] = None]
       \/ k \in backupPath /\ Fails /\ UNCHANGED bak
       \/ k \notin backupPath /\ UNCHANGED <<bak, faults>>
    /\ pc' = "cleanTmp" /\ k' = k + 1
    /\ UNCHANGED <<orig, tmp, plan, i, stop, errs, saves>>

CleanDone ==
    /\ pc = "cleanTmp" /\ k > stop
    /\ pc' = "done"
    /\ UNCHANGED <<disk, plan, i, k, stop, errs, faults, saves>>

(* ------------------------------ keep the batch -------------------------- *)

\* os.Remove(p.backupPath) once every file is committed; a failure is joined
\* to the result.
Discard ==
    /\ pc = "discard" /\ i <= N
    /\ \/ Works /\ bak' = [bak EXCEPT ![i] = None] /\ UNCHANGED errs
       \/ Fails /\ Report("leftover", i) /\ UNCHANGED bak
    /\ i' = i + 1
    /\ UNCHANGED <<orig, tmp, plan, pc, k, stop, saves>>

(* ------------------------------ environment ----------------------------- *)

\* Another program writes the file, creating it when it is not there.
Save(f) ==
    /\ pc # "done" /\ saves < MaxSaves
    /\ saves' = saves + 1
    /\ orig' = [orig EXCEPT ![f] = "saved"]
    /\ UNCHANGED <<tmp, bak, plan, pc, i, k, stop, errs, up, faults>>

\* The process is killed between two system calls.
Crash ==
    /\ up /\ pc \in Steps
    /\ up' = FALSE
    /\ UNCHANGED <<disk, plan, pc, i, k, stop, errs, faults, saves>>

Call ==
    \/ ReadFile \/ RejectFile \/ Stage \/ StageFails \/ NextPhase
    \/ Reserve \/ ReserveFails \/ Backup \/ BackupFails
    \/ Install \/ InstallFails \/ Restore \/ RestoreFails
    \/ UndoRemove \/ UndoRestore \/ UndoDone
    \/ CleanTmp \/ CleanBak \/ CleanDone \/ Discard

Step == up /\ Call /\ UNCHANGED up

Next == Step \/ Crash \/ \E f \in Files : Save(f)

Spec == Init /\ [][Next]_vars

(* ------------------------------ properties ------------------------------ *)

Blamed(f) == <<"restore", f>> \in errs \/ <<"rollback", f>> \in errs
Kept == \A e \in errs : e[1] = "leftover"   \* every file was committed

\* Whatever fails and whenever the process is killed, a version of every file
\* that somebody wrote by hand stays on disk, at its own path or in its
\* backup, until commitPendingFiles has committed the whole batch and removes
\* the backups.  The one exception is the file whose restore the result
\* reports as failed.
OriginalKept ==
    \A f \in Files :
        \/ orig[f] \in User
        \/ bak[f] \in User
        \/ pc \in {"discard", "done"} /\ Kept
        \/ <<"restore", f>> \in errs

\* rollback's error says "backup ... remains": it does, with the content to
\* restore by hand, also after cleanupPending and on return.
NamedBackupRemains ==
    \A f \in Files : <<"rollback", f>> \in errs => bak[f] \in User

\* The restore error of commitPendingFiles names the backup of the file it
\* could not put back; rollback's comment promises that such a backup remains.
RestoreBackupRemains ==
    \A f \in Files :
        pc = "done" /\ <<"restore", f>> \in errs =>
            bak[f] \in User \/ orig[f] \in User

\* A single failing system call leaves no temporary file behind, and a backup
\* that still holds somebody's version is always named by the result.
NoSilentLitter ==
    pc = "done" =>
        \A f \in Files :
            /\ tmp[f] # None => faults > 1
            /\ bak[f] \in User => Blamed(f) \/ <<"leftover", f>> \in errs

\* The very version that was moved aside (a save made while the batch was being
\* staged included, not the version that was read) leaves its backup only for
\* the file's own path, unless the batch is committed or the restore of the file
\* is reported as failed.
MovedVersionReturns ==
    [][\A f \in Files :
          bak[f] \in User /\ bak'[f] # bak[f] =>
              \/ orig'[f] = bak[f]
              \/ pc = "discard"
              \/ <<"restore", f>> \in errs]_vars

(* ------------------------ the contract it implements -------------------- *)

\* What a person who recovers a missing file from its backup finds.
Recoverable == [f \in Files |-> IF orig[f] = None /\ bak[f] # "empty"
                                THEN bak[f] ELSE orig[f]]

\* The files replaced and not put back.
Mine == CASE pc \in {"reserve", "backup", "install", "restore"} -> 1 .. i - 1
          [] pc \in {"undoRemove", "undoRestore"} -> 1 .. k
          [] pc = "discard" \/ (pc = "done" /\ Kept) -> Files
          [] OTHER -> {}
BlamedFiles == {f \in Files : Blamed(f)}
Outcome == CASE ~up -> "killed"
             [] up /\ pc = "done" /\ Kept -> "applied"
             [] up /\ pc = "done" /\ ~Kept -> "failed"
             [] up /\ pc \in {"read", "stage", "reserve", "backup", "install", "discard"} -> "applying"
             [] OTHER -> "undoing"

Atomic == INSTANCE AtomicApply WITH
    file <- Recoverable, mine <- Mine, blamed <- BlamedFiles, outcome <- Outcome

\* The calls of the applier, seen through Recoverable, are steps of the
\* all-or-nothing contract that docs/json-schema.md promises.
AtomicSpec == Atomic!Spec
=============================================================================
