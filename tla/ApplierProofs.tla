---------------------------- MODULE ApplierProofs ----------------------------
(* Proofs about Applier for every batch size and every number of faults and   *)
(* saves.  The invariants of Applier are not inductive: that a backup holds a  *)
(* hand-written version when rollback renames it over the file depends on how  *)
(* far the commit loop came before it failed.  Where, one conjunct per phase,  *)
(* records that for every file relative to the cursors i and k.  Ledger adds   *)
(* what the staged files, the backups and the errors have to do with each      *)
(* other, which the litter and the returned versions follow from.  The last    *)
(* part shows step by step that Applier implements AtomicApply.                *)
EXTENDS Applier, TLAPS

Forward == {"read", "stage", "reserve", "backup", "install", "discard"}

\* The cursors stay within the batch, phase by phase.
Cursors ==
    /\ pc \in {"backup", "install", "restore"} => i <= N
    /\ pc = "undoRemove" => i <= N /\ k < i /\ stop = N
    /\ pc = "undoRestore" => i <= N /\ k >= 1 /\ k < i /\ stop = N
    /\ pc \in {"cleanTmp", "cleanBak"} => k >= 1
    /\ pc = "cleanBak" => k <= stop

\* Before commitPendingFiles no file has been touched.
Untouched ==
    pc \in {"read", "stage"} => \A f \in Files : orig[f] \in User

\* What is staged for the files that are still to be committed.
Staged ==
    /\ pc = "stage" => \A f \in Files : f < i => tmp[f] \in Product
    /\ pc \in {"reserve", "backup", "install", "restore"} =>
           \A f \in Files : f >= i => tmp[f] \in Product

\* During the commit loop: committed files have a backup, the later ones are
\* untouched, the current one is at its path or in its backup.
Committing ==
    pc \in {"reserve", "backup", "install", "restore"} =>
        \A f \in Files :
            /\ f < i => bak[f] \in User
            /\ f > i => orig[f] \in User
            /\ f = i => IF pc \in {"install", "restore"}
                        THEN bak[f] \in User ELSE orig[f] \in User

Reported(f) == <<"restore", f>> \in errs
Named(f) == <<"rollback", f>> \in errs /\ bak[f] \in User

\* During rollback: the files up to k still have their backup, the others are
\* back or their loss is reported.
Undoing ==
    pc \in {"undoRemove", "undoRestore"} =>
        \A f \in Files :
            /\ f <= k => bak[f] \in User
            /\ f > k => orig[f] \in User \/ Named(f) \/ Reported(f)

\* During cleanupPending, and once an error has been returned.
Undone ==
    pc \in {"cleanTmp", "cleanBak"} \/ (pc = "done" /\ ~Kept) =>
        \A f \in Files : orig[f] \in User \/ Named(f) \/ Reported(f)

\* Nothing is reported on the way forward but leftover backups.
Silent ==
    /\ pc \in {"read", "stage", "reserve", "backup", "install"} => errs = {}
    /\ pc = "discard" => Kept

\* A backup that rollback names is out of reach of what still runs.
OutOfReach ==
    \A f \in Files :
        <<"rollback", f>> \in errs =>
            /\ bak[f] \in User
            /\ pc \in {"undoRemove", "undoRestore", "cleanTmp", "cleanBak", "done"}
            /\ pc \in {"undoRemove", "undoRestore"} => k < f /\ f < i
            /\ pc \in {"cleanTmp", "cleanBak"} => f < k

IndInv ==
    /\ TypeOK /\ Cursors /\ Untouched /\ Staged /\ Committing
    /\ Undoing /\ Undone /\ Silent /\ OutOfReach

(* ------------------------------- the proofs ------------------------------ *)

\* Nothing has happened yet: every phase but the first is vacuous.
LEMMA InitIndInv == Init => IndInv
    BY ApplierAssumption DEF Init, IndInv, TypeOK, Cursors, Untouched, Staged, Committing,
            Undoing, Undone, Silent, OutOfReach, Reported, Named, Kept,
       Files, None, User, Product, Scrap, Steps, Causes

\* Every system call, every save by another program and a kill keep IndInv.
LEMMA StepIndInv == IndInv /\ [Next]_vars => IndInv'
<1> SUFFICES ASSUME IndInv, [Next]_vars PROVE IndInv'
    OBVIOUS
<1> USE ApplierAssumption
        DEF IndInv, TypeOK, Cursors, Untouched, Staged, Committing,
            Undoing, Undone, Silent, OutOfReach, Reported, Named, Kept,
            Files, None, User, Product, Scrap, Steps, Causes, disk, plan, Works,
            Fails, FailTimes, Report, GiveUp, Edited
\* computing and staging the batch
<1>1. CASE up /\ ReadFile /\ UNCHANGED up
    BY <1>1 DEF ReadFile
<1>2. CASE up /\ RejectFile /\ UNCHANGED up
    BY <1>2 DEF RejectFile
<1>3. CASE up /\ Stage /\ UNCHANGED up
    BY <1>3 DEF Stage
<1>4. CASE up /\ StageFails /\ UNCHANGED up
    BY <1>4 DEF StageFails
<1>5. CASE up /\ NextPhase /\ UNCHANGED up
    BY <1>5 DEF NextPhase
\* committing it
<1>6. CASE up /\ Reserve /\ UNCHANGED up
    BY <1>6 DEF Reserve
<1>7. CASE up /\ ReserveFails /\ UNCHANGED up
    BY <1>7 DEF ReserveFails
<1>8. CASE up /\ Backup /\ UNCHANGED up
    BY <1>8 DEF Backup
<1>9. CASE up /\ BackupFails /\ UNCHANGED up
    BY <1>9 DEF BackupFails
<1>10. CASE up /\ Install /\ UNCHANGED up
    BY <1>10 DEF Install
<1>11. CASE up /\ InstallFails /\ UNCHANGED up
    BY <1>11 DEF InstallFails
<1>12. CASE up /\ Restore /\ UNCHANGED up
    BY <1>12 DEF Restore
<1>13. CASE up /\ RestoreFails /\ UNCHANGED up
    BY <1>13 DEF RestoreFails
\* undoing it
<1>14. CASE up /\ UndoRemove /\ UNCHANGED up
    BY <1>14 DEF UndoRemove
<1>15. CASE up /\ UndoRestore /\ UNCHANGED up
    \* k stops being among the files whose backup is still to be restored:
    \* either its backup is at its path now or rollback names it.
    <2>1. k \in Files /\ i \in Files /\ k < i /\ stop = N
        BY <1>15 DEF UndoRestore
    <2>2. bak[k] \in User
        <3>1. \A f \in Files : f <= k => bak[f] \in User
            BY <1>15 DEF UndoRestore
        <3>2. k <= k
            BY <2>1
        <3> QED
            BY <2>1, <3>1, <3>2
    <2>3. TypeOK'
        <3>1. orig' \in [Files -> User \cup Product \cup {None}]
            BY <1>15, <2>1, <2>2 DEF UndoRestore
        <3>2. bak' \in [Files -> User \cup Scrap \cup {None}]
            BY <1>15, <2>1, <2>2 DEF UndoRestore
        <3>3. errs' \subseteq Causes \X Files
            BY <1>15, <2>1, <2>2 DEF UndoRestore
        <3> QED
            BY <1>15, <2>1, <2>2, <3>1, <3>2, <3>3 DEF UndoRestore
    <2>4. Cursors'
        BY <1>15, <2>1, <2>2 DEF UndoRestore
    <2>5. Untouched' /\ Staged' /\ Committing'
        BY <1>15 DEF UndoRestore
    <2>6. Undoing'
        <3>1. SUFFICES ASSUME NEW f \in Files
                       PROVE  /\ f <= k' => bak'[f] \in User
                              /\ f > k' => orig'[f] \in User \/ Named(f)' \/ Reported(f)'
            BY <1>15 DEF UndoRestore
        <3>2. CASE f = k
            BY <1>15, <2>1, <2>2, <3>2 DEF UndoRestore
        <3>3. CASE f # k
            BY <1>15, <2>1, <2>2, <3>3 DEF UndoRestore
        <3> QED
            BY <3>1, <3>2, <3>3
    <2>7. Undone' /\ Silent'
        BY <1>15 DEF UndoRestore
    <2>8. OutOfReach'
        <3>1. SUFFICES ASSUME NEW f \in Files, <<"rollback", f>> \in errs'
                       PROVE  bak'[f] \in User /\ k' < f /\ f < i'
            BY <1>15 DEF UndoRestore
        <3>2. CASE f = k
            BY <1>15, <2>1, <2>2, <3>1, <3>2 DEF UndoRestore
        <3>3. CASE f # k
            BY <1>15, <2>1, <2>2, <3>1, <3>3 DEF UndoRestore
        <3> QED
            BY <3>2, <3>3
    <2> QED
        BY <2>3, <2>4, <2>5, <2>6, <2>7, <2>8
<1>16. CASE up /\ UndoDone /\ UNCHANGED up
    BY <1>16 DEF UndoDone
<1>17. CASE up /\ CleanTmp /\ UNCHANGED up
    BY <1>17 DEF CleanTmp
<1>18. CASE up /\ CleanBak /\ UNCHANGED up
    BY <1>18 DEF CleanBak
<1>19. CASE up /\ CleanDone /\ UNCHANGED up
    BY <1>19 DEF CleanDone
\* keeping it
<1>20. CASE up /\ Discard /\ UNCHANGED up
    BY <1>20 DEF Discard
\* the environment
<1>21. ASSUME NEW f \in Files, Save(f) PROVE IndInv'
    BY <1>21 DEF Save
<1>22. CASE Crash
    BY <1>22 DEF Crash
<1>23. CASE UNCHANGED vars
    <2>1. UNCHANGED <<orig, tmp, bak, base, tmpPath, backupPath>>
        BY <1>23 DEF vars
    <2>2. UNCHANGED <<pc, i, k, stop, errs, up, faults, saves>>
        BY <1>23 DEF vars
    <2> QED
        BY <2>1, <2>2
<1> QED
    BY <1>1, <1>2, <1>3, <1>4, <1>5, <1>6, <1>7, <1>8, <1>9, <1>10,
       <1>11, <1>12, <1>13, <1>14, <1>15, <1>16, <1>17, <1>18, <1>19, <1>20, <1>21, <1>22, <1>23
       DEF Next, Step, Call

\* The inductive invariant holds in every execution.
THEOREM Invariance == Spec => []IndInv
    BY InitIndInv, StepIndInv, PTL DEF Spec

\* The state of the applier keeps its type in every execution.
THEOREM TypeCorrect == Spec => []TypeOK
    BY Invariance, PTL DEF IndInv

\* For every batch, however many system calls fail, wherever another program
\* saves and wherever the process is killed: a hand-written version of every
\* file stays on disk until the batch is committed, except where the result
\* reports that commitPendingFiles could not put a file back.
THEOREM KeepsOriginals == Spec => []OriginalKept
<1>1. IndInv => OriginalKept
    <2> SUFFICES ASSUME IndInv, NEW f \in Files
                 PROVE  \/ orig[f] \in User
                        \/ bak[f] \in User
                        \/ pc \in {"discard", "done"} /\ Kept
                        \/ Reported(f)
        BY DEF OriginalKept, Reported
    <2> USE ApplierAssumption DEF IndInv
    <2>1. CASE pc \in {"read", "stage"}
        BY <2>1 DEF Untouched
    <2>2. CASE pc \in {"reserve", "backup", "install", "restore"}
        <3>1. i \in Int /\ f \in Int
            BY DEF TypeOK, Files
        <3>2. CASE f = i
            BY <2>2, <3>2 DEF Committing
        <3> QED
            BY <2>2, <3>1, <3>2 DEF Committing
    <2>3. CASE pc \in {"undoRemove", "undoRestore"}
        <3>1. k \in Int /\ f \in Int
            BY DEF TypeOK, Files
        <3>2. f <= k \/ f > k
            BY <3>1
        <3> QED
            BY <2>3, <3>2 DEF Undoing, Named
    <2>4. CASE pc \in {"cleanTmp", "cleanBak"} \/ (pc = "done" /\ ~Kept)
        BY <2>4 DEF Undone, Named
    <2>5. CASE pc = "discard" \/ (pc = "done" /\ Kept)
        BY <2>5 DEF Silent
    <2> QED
        BY <2>1, <2>2, <2>3, <2>4, <2>5 DEF TypeOK, Steps
<1> QED
    BY Invariance, <1>1, PTL

\* A backup that rollback's error names is there, with the version to restore,
\* at every later moment of the execution.
THEOREM KeepsNamedBackups == Spec => []NamedBackupRemains
<1>1. IndInv => NamedBackupRemains
    BY DEF NamedBackupRemains, IndInv, OutOfReach
<1> QED
    BY Invariance, <1>1, PTL

(* ------------------------ the ledger of the batch ------------------------ *)

\* Nothing holds a hand-written version in a backup before Backup moves it
\* there, and cleanupPending meets one only where a restore has failed.
BackupsAreFresh ==
    /\ pc \in {"read", "stage"} => \A f \in Files : bak[f] \notin User
    /\ pc \in {"reserve", "backup"} => \A f \in Files : f >= i => bak[f] \notin User
    /\ pc \in {"install", "restore"} => \A f \in Files : f > i => bak[f] \notin User
    /\ pc \in {"undoRemove", "undoRestore"} =>
           \A f \in Files : f >= i => bak[f] \notin User \/ Reported(f)
    /\ pc \in {"cleanTmp", "cleanBak"} =>
           \A f \in Files : f >= k => bak[f] \notin User \/ Reported(f)

\* A backup that holds a hand-written version and is behind the cursor is named.
BackupsAreClaimed ==
    /\ pc \in {"undoRemove", "undoRestore"} =>
           \A f \in Files : f > k /\ bak[f] \in User => Blamed(f)
    /\ pc \in {"cleanTmp", "cleanBak"} => \A f \in Files : bak[f] \in User => Blamed(f)
    /\ pc = "discard" => \A f \in Files : f < i /\ bak[f] \in User => <<"leftover", f>> \in errs
    /\ pc = "done" => \A f \in Files : bak[f] \in User => Blamed(f) \/ <<"leftover", f>> \in errs

\* Until a second call fails, every temporary file is one that is still to be
\* committed or cleaned up.
TmpFilesAreTracked ==
    /\ pc = "read" => \A f \in Files : tmp[f] = None
    /\ pc = "stage" => \A f \in Files : (f < i => f \in tmpPath) /\ (f >= i => tmp[f] = None)
    /\ pc \in {"reserve", "backup", "install", "restore", "undoRemove", "undoRestore"} =>
           \A f \in Files : (f < i => tmp[f] = None) /\ (f >= i => f \in tmpPath)
    /\ pc = "cleanTmp" =>
           \A f \in Files : /\ f < k \/ f > stop => tmp[f] = None
                            /\ f >= k /\ f <= stop => f \in tmpPath
    /\ pc = "cleanBak" =>
           \A f \in Files : /\ f <= k \/ f > stop => tmp[f] = None
                            /\ f > k /\ f <= stop => f \in tmpPath
    /\ pc \in {"discard", "done"} => \A f \in Files : tmp[f] = None

\* A batch is undone only after a call has failed and been reported.
FailureIsReported ==
    pc \in {"restore", "undoRemove", "undoRestore", "cleanTmp", "cleanBak"} => faults >= 1 /\ ~Kept

\* A committed file stays at its path.
CommittedIsThere ==
    /\ pc \in {"reserve", "backup", "install", "restore"} => \A f \in Files : f < i => orig[f] # None
    /\ pc = "discard" => \A f \in Files : orig[f] # None

Ledger ==
    /\ BackupsAreFresh /\ BackupsAreClaimed /\ FailureIsReported /\ CommittedIsThere
    /\ faults <= 1 => TmpFilesAreTracked

\* Nothing is staged, moved or reported at the start.
LEMMA InitLedger == Init => Ledger
BY ApplierAssumption
   DEF Init, Ledger, BackupsAreFresh, BackupsAreClaimed, TmpFilesAreTracked, FailureIsReported,
       CommittedIsThere, None, User

\* Every step keeps hand-written versions out of the backups to come.
LEMMA StepFresh == IndInv /\ BackupsAreFresh /\ [Next]_vars => BackupsAreFresh'
<1> SUFFICES ASSUME IndInv, BackupsAreFresh, [Next]_vars PROVE BackupsAreFresh'
    OBVIOUS
<1> USE ApplierAssumption
        DEF IndInv, TypeOK, Cursors, Committing, Reported, BackupsAreFresh, Files, None,
           User, Product, Scrap, Steps, Causes, disk, plan, Works,
            Fails, FailTimes, Report, GiveUp, Edited
<1>1. CASE up /\ ReadFile /\ UNCHANGED up
    BY <1>1 DEF ReadFile
<1>2. CASE up /\ RejectFile /\ UNCHANGED up
    BY <1>2 DEF RejectFile
<1>3. CASE up /\ Stage /\ UNCHANGED up
    BY <1>3 DEF Stage
<1>4. CASE up /\ StageFails /\ UNCHANGED up
    BY <1>4 DEF StageFails
<1>5. CASE up /\ NextPhase /\ UNCHANGED up
    BY <1>5 DEF NextPhase
<1>6. CASE up /\ Reserve /\ UNCHANGED up
    BY <1>6 DEF Reserve
<1>7. CASE up /\ ReserveFails /\ UNCHANGED up
    BY <1>7 DEF ReserveFails
<1>8. CASE up /\ Backup /\ UNCHANGED up
    BY <1>8 DEF Backup
<1>9. CASE up /\ BackupFails /\ UNCHANGED up
    BY <1>9 DEF BackupFails
<1>10. CASE up /\ Install /\ UNCHANGED up
    BY <1>10 DEF Install
<1>11. CASE up /\ InstallFails /\ UNCHANGED up
    BY <1>11 DEF InstallFails
<1>12. CASE up /\ Restore /\ UNCHANGED up
    BY <1>12 DEF Restore
<1>13. CASE up /\ RestoreFails /\ UNCHANGED up
    BY <1>13 DEF RestoreFails
<1>14. CASE up /\ UndoRemove /\ UNCHANGED up
    BY <1>14 DEF UndoRemove
<1>15. CASE up /\ UndoRestore /\ UNCHANGED up
    BY <1>15 DEF UndoRestore
<1>16. CASE up /\ UndoDone /\ UNCHANGED up
    BY <1>16 DEF UndoDone
<1>17. CASE up /\ CleanTmp /\ UNCHANGED up
    BY <1>17 DEF CleanTmp
<1>18. CASE up /\ CleanBak /\ UNCHANGED up
    BY <1>18 DEF CleanBak
<1>19. CASE up /\ CleanDone /\ UNCHANGED up
    BY <1>19 DEF CleanDone
<1>20. CASE up /\ Discard /\ UNCHANGED up
    BY <1>20 DEF Discard
<1>21. ASSUME NEW f \in Files, Save(f) PROVE BackupsAreFresh'
    BY <1>21 DEF Save
<1>22. CASE Crash
    BY <1>22 DEF Crash
<1>23. CASE UNCHANGED vars
    <2>1. UNCHANGED <<orig, tmp, bak, base, tmpPath, backupPath>>
        BY <1>23 DEF vars
    <2>2. UNCHANGED <<pc, i, k, stop, errs, up, faults, saves>>
        BY <1>23 DEF vars
    <2> QED
        BY <2>1, <2>2
<1> QED
    BY <1>1, <1>2, <1>3, <1>4, <1>5, <1>6, <1>7, <1>8, <1>9, <1>10,
       <1>11, <1>12, <1>13, <1>14, <1>15, <1>16, <1>17, <1>18, <1>19, <1>20, <1>21, <1>22, <1>23
       DEF Next, Step, Call

\* Every step keeps the hand-written versions that stay behind named.
LEMMA StepClaimed == IndInv /\ BackupsAreClaimed /\ BackupsAreFresh /\ [Next]_vars => BackupsAreClaimed'
<1> SUFFICES ASSUME IndInv, BackupsAreClaimed, BackupsAreFresh, [Next]_vars PROVE BackupsAreClaimed'
    OBVIOUS
<1> USE ApplierAssumption
        DEF IndInv, TypeOK, Cursors, Committing, Undoing, Silent, Kept, Reported,
           Blamed, BackupsAreFresh, BackupsAreClaimed, Files, None, User, Product,
           Scrap, Steps, Causes, disk, plan, Works,
            Fails, FailTimes, Report, GiveUp, Edited
<1>1. CASE up /\ ReadFile /\ UNCHANGED up
    BY <1>1 DEF ReadFile
<1>2. CASE up /\ RejectFile /\ UNCHANGED up
    BY <1>2 DEF RejectFile
<1>3. CASE up /\ Stage /\ UNCHANGED up
    BY <1>3 DEF Stage
<1>4. CASE up /\ StageFails /\ UNCHANGED up
    BY <1>4 DEF StageFails
<1>5. CASE up /\ NextPhase /\ UNCHANGED up
    BY <1>5 DEF NextPhase
<1>6. CASE up /\ Reserve /\ UNCHANGED up
    BY <1>6 DEF Reserve
<1>7. CASE up /\ ReserveFails /\ UNCHANGED up
    BY <1>7 DEF ReserveFails
<1>8. CASE up /\ Backup /\ UNCHANGED up
    BY <1>8 DEF Backup
<1>9. CASE up /\ BackupFails /\ UNCHANGED up
    BY <1>9 DEF BackupFails
<1>10. CASE up /\ Install /\ UNCHANGED up
    BY <1>10 DEF Install
<1>11. CASE up /\ InstallFails /\ UNCHANGED up
    BY <1>11 DEF InstallFails
<1>12. CASE up /\ Restore /\ UNCHANGED up
    BY <1>12 DEF Restore
<1>13. CASE up /\ RestoreFails /\ UNCHANGED up
    BY <1>13 DEF RestoreFails
<1>14. CASE up /\ UndoRemove /\ UNCHANGED up
    BY <1>14 DEF UndoRemove
<1>15. CASE up /\ UndoRestore /\ UNCHANGED up
    BY <1>15 DEF UndoRestore
<1>16. CASE up /\ UndoDone /\ UNCHANGED up
    BY <1>16 DEF UndoDone
<1>17. CASE up /\ CleanTmp /\ UNCHANGED up
    BY <1>17 DEF CleanTmp
<1>18. CASE up /\ CleanBak /\ UNCHANGED up
    BY <1>18 DEF CleanBak
<1>19. CASE up /\ CleanDone /\ UNCHANGED up
    BY <1>19 DEF CleanDone
<1>20. CASE up /\ Discard /\ UNCHANGED up
    BY <1>20 DEF Discard
<1>21. ASSUME NEW f \in Files, Save(f) PROVE BackupsAreClaimed'
    BY <1>21 DEF Save
<1>22. CASE Crash
    BY <1>22 DEF Crash
<1>23. CASE UNCHANGED vars
    <2>1. UNCHANGED <<orig, tmp, bak, base, tmpPath, backupPath>>
        BY <1>23 DEF vars
    <2>2. UNCHANGED <<pc, i, k, stop, errs, up, faults, saves>>
        BY <1>23 DEF vars
    <2> QED
        BY <2>1, <2>2
<1> QED
    BY <1>1, <1>2, <1>3, <1>4, <1>5, <1>6, <1>7, <1>8, <1>9, <1>10,
       <1>11, <1>12, <1>13, <1>14, <1>15, <1>16, <1>17, <1>18, <1>19, <1>20, <1>21, <1>22, <1>23
       DEF Next, Step, Call

\* Every step keeps the error that made the batch fail among those reported.
LEMMA StepFailure == IndInv /\ FailureIsReported /\ [Next]_vars => FailureIsReported'
<1> SUFFICES ASSUME IndInv, FailureIsReported, [Next]_vars PROVE FailureIsReported'
    OBVIOUS
<1> USE ApplierAssumption
        DEF IndInv, TypeOK, Cursors, Silent, Kept, FailureIsReported, Files, None, User,
           Product, Scrap, Steps, Causes, disk, plan, Works,
            Fails, FailTimes, Report, GiveUp, Edited
<1>1. CASE up /\ ReadFile /\ UNCHANGED up
    BY <1>1 DEF ReadFile
<1>2. CASE up /\ RejectFile /\ UNCHANGED up
    BY <1>2 DEF RejectFile
<1>3. CASE up /\ Stage /\ UNCHANGED up
    BY <1>3 DEF Stage
<1>4. CASE up /\ StageFails /\ UNCHANGED up
    <2>1. <<"stage", i>> \in errs' /\ <<"stage", i>>[1] # "leftover"
        BY <1>4 DEF StageFails
    <2>2. ~Kept'
        BY <2>1
    <2> QED
        BY <1>4, <2>2 DEF StageFails
<1>5. CASE up /\ NextPhase /\ UNCHANGED up
    BY <1>5 DEF NextPhase
<1>6. CASE up /\ Reserve /\ UNCHANGED up
    BY <1>6 DEF Reserve
<1>7. CASE up /\ ReserveFails /\ UNCHANGED up
    <2>1. <<"commit", i>> \in errs' /\ <<"commit", i>>[1] # "leftover"
        BY <1>7 DEF ReserveFails
    <2>2. ~Kept'
        BY <2>1
    <2> QED
        BY <1>7, <2>2 DEF ReserveFails
<1>8. CASE up /\ Backup /\ UNCHANGED up
    BY <1>8 DEF Backup
<1>9. CASE up /\ BackupFails /\ UNCHANGED up
    <2>1. <<"commit", i>> \in errs' /\ <<"commit", i>>[1] # "leftover"
        BY <1>9 DEF BackupFails
    <2>2. ~Kept'
        BY <2>1
    <2> QED
        BY <1>9, <2>2 DEF BackupFails
<1>10. CASE up /\ Install /\ UNCHANGED up
    BY <1>10 DEF Install
<1>11. CASE up /\ InstallFails /\ UNCHANGED up
    <2>1. <<"commit", i>> \in errs' /\ <<"commit", i>>[1] # "leftover"
        BY <1>11 DEF InstallFails
    <2>2. ~Kept'
        BY <2>1
    <2> QED
        BY <1>11, <2>2 DEF InstallFails
<1>12. CASE up /\ Restore /\ UNCHANGED up
    BY <1>12 DEF Restore
<1>13. CASE up /\ RestoreFails /\ UNCHANGED up
    BY <1>13 DEF RestoreFails
<1>14. CASE up /\ UndoRemove /\ UNCHANGED up
    BY <1>14 DEF UndoRemove
<1>15. CASE up /\ UndoRestore /\ UNCHANGED up
    BY <1>15 DEF UndoRestore
<1>16. CASE up /\ UndoDone /\ UNCHANGED up
    BY <1>16 DEF UndoDone
<1>17. CASE up /\ CleanTmp /\ UNCHANGED up
    BY <1>17 DEF CleanTmp
<1>18. CASE up /\ CleanBak /\ UNCHANGED up
    BY <1>18 DEF CleanBak
<1>19. CASE up /\ CleanDone /\ UNCHANGED up
    BY <1>19 DEF CleanDone
<1>20. CASE up /\ Discard /\ UNCHANGED up
    BY <1>20 DEF Discard
<1>21. ASSUME NEW f \in Files, Save(f) PROVE FailureIsReported'
    BY <1>21 DEF Save
<1>22. CASE Crash
    BY <1>22 DEF Crash
<1>23. CASE UNCHANGED vars
    <2>1. UNCHANGED <<orig, tmp, bak, base, tmpPath, backupPath>>
        BY <1>23 DEF vars
    <2>2. UNCHANGED <<pc, i, k, stop, errs, up, faults, saves>>
        BY <1>23 DEF vars
    <2> QED
        BY <2>1, <2>2
<1> QED
    BY <1>1, <1>2, <1>3, <1>4, <1>5, <1>6, <1>7, <1>8, <1>9, <1>10,
       <1>11, <1>12, <1>13, <1>14, <1>15, <1>16, <1>17, <1>18, <1>19, <1>20, <1>21, <1>22, <1>23
       DEF Next, Step, Call

\* Every step keeps the committed files at their paths.
LEMMA StepCommitted == IndInv /\ CommittedIsThere /\ [Next]_vars => CommittedIsThere'
<1> SUFFICES ASSUME IndInv, CommittedIsThere, [Next]_vars PROVE CommittedIsThere'
    OBVIOUS
<1> USE ApplierAssumption
        DEF IndInv, TypeOK, Cursors, Staged, Committing, CommittedIsThere, Files, None,
           User, Product, Scrap, Steps, Causes, disk, plan, Works,
            Fails, FailTimes, Report, GiveUp, Edited
<1>1. CASE up /\ ReadFile /\ UNCHANGED up
    BY <1>1 DEF ReadFile
<1>2. CASE up /\ RejectFile /\ UNCHANGED up
    BY <1>2 DEF RejectFile
<1>3. CASE up /\ Stage /\ UNCHANGED up
    BY <1>3 DEF Stage
<1>4. CASE up /\ StageFails /\ UNCHANGED up
    BY <1>4 DEF StageFails
<1>5. CASE up /\ NextPhase /\ UNCHANGED up
    BY <1>5 DEF NextPhase
<1>6. CASE up /\ Reserve /\ UNCHANGED up
    BY <1>6 DEF Reserve
<1>7. CASE up /\ ReserveFails /\ UNCHANGED up
    BY <1>7 DEF ReserveFails
<1>8. CASE up /\ Backup /\ UNCHANGED up
    BY <1>8 DEF Backup
<1>9. CASE up /\ BackupFails /\ UNCHANGED up
    BY <1>9 DEF BackupFails
<1>10. CASE up /\ Install /\ UNCHANGED up
    BY <1>10 DEF Install
<1>11. CASE up /\ InstallFails /\ UNCHANGED up
    BY <1>11 DEF InstallFails
<1>12. CASE up /\ Restore /\ UNCHANGED up
    BY <1>12 DEF Restore
<1>13. CASE up /\ RestoreFails /\ UNCHANGED up
    BY <1>13 DEF RestoreFails
<1>14. CASE up /\ UndoRemove /\ UNCHANGED up
    BY <1>14 DEF UndoRemove
<1>15. CASE up /\ UndoRestore /\ UNCHANGED up
    BY <1>15 DEF UndoRestore
<1>16. CASE up /\ UndoDone /\ UNCHANGED up
    BY <1>16 DEF UndoDone
<1>17. CASE up /\ CleanTmp /\ UNCHANGED up
    BY <1>17 DEF CleanTmp
<1>18. CASE up /\ CleanBak /\ UNCHANGED up
    BY <1>18 DEF CleanBak
<1>19. CASE up /\ CleanDone /\ UNCHANGED up
    BY <1>19 DEF CleanDone
<1>20. CASE up /\ Discard /\ UNCHANGED up
    BY <1>20 DEF Discard
<1>21. ASSUME NEW f \in Files, Save(f) PROVE CommittedIsThere'
    BY <1>21 DEF Save
<1>22. CASE Crash
    BY <1>22 DEF Crash
<1>23. CASE UNCHANGED vars
    <2>1. UNCHANGED <<orig, tmp, bak, base, tmpPath, backupPath>>
        BY <1>23 DEF vars
    <2>2. UNCHANGED <<pc, i, k, stop, errs, up, faults, saves>>
        BY <1>23 DEF vars
    <2> QED
        BY <2>1, <2>2
<1> QED
    BY <1>1, <1>2, <1>3, <1>4, <1>5, <1>6, <1>7, <1>8, <1>9, <1>10,
       <1>11, <1>12, <1>13, <1>14, <1>15, <1>16, <1>17, <1>18, <1>19, <1>20, <1>21, <1>22, <1>23
       DEF Next, Step, Call

\* Every step that is not the second failure keeps track of the temporary files.
LEMMA StepTracked ==
    IndInv /\ TmpFilesAreTracked /\ FailureIsReported /\ faults' <= 1 /\ [Next]_vars
        => TmpFilesAreTracked'
<1> SUFFICES ASSUME IndInv, TmpFilesAreTracked, FailureIsReported, faults' <= 1, [Next]_vars
             PROVE  TmpFilesAreTracked'
    OBVIOUS
<1> USE ApplierAssumption
        DEF IndInv, TypeOK, Cursors, Silent, Kept, FailureIsReported,
           TmpFilesAreTracked, Files, None, User, Product, Scrap, Steps, Causes, disk,
           plan, Works,
            Fails, FailTimes, Report, GiveUp, Edited
<1>1. CASE up /\ ReadFile /\ UNCHANGED up
    BY <1>1 DEF ReadFile
<1>2. CASE up /\ RejectFile /\ UNCHANGED up
    BY <1>2 DEF RejectFile
<1>3. CASE up /\ Stage /\ UNCHANGED up
    BY <1>3 DEF Stage
<1>4. CASE up /\ StageFails /\ UNCHANGED up
    BY <1>4 DEF StageFails
<1>5. CASE up /\ NextPhase /\ UNCHANGED up
    BY <1>5 DEF NextPhase
<1>6. CASE up /\ Reserve /\ UNCHANGED up
    BY <1>6 DEF Reserve
<1>7. CASE up /\ ReserveFails /\ UNCHANGED up
    BY <1>7 DEF ReserveFails
<1>8. CASE up /\ Backup /\ UNCHANGED up
    BY <1>8 DEF Backup
<1>9. CASE up /\ BackupFails /\ UNCHANGED up
    BY <1>9 DEF BackupFails
<1>10. CASE up /\ Install /\ UNCHANGED up
    BY <1>10 DEF Install
<1>11. CASE up /\ InstallFails /\ UNCHANGED up
    BY <1>11 DEF InstallFails
<1>12. CASE up /\ Restore /\ UNCHANGED up
    BY <1>12 DEF Restore
<1>13. CASE up /\ RestoreFails /\ UNCHANGED up
    BY <1>13 DEF RestoreFails
<1>14. CASE up /\ UndoRemove /\ UNCHANGED up
    BY <1>14 DEF UndoRemove
<1>15. CASE up /\ UndoRestore /\ UNCHANGED up
    BY <1>15 DEF UndoRestore
<1>16. CASE up /\ UndoDone /\ UNCHANGED up
    BY <1>16 DEF UndoDone
<1>17. CASE up /\ CleanTmp /\ UNCHANGED up
    BY <1>17 DEF CleanTmp
<1>18. CASE up /\ CleanBak /\ UNCHANGED up
    BY <1>18 DEF CleanBak
<1>19. CASE up /\ CleanDone /\ UNCHANGED up
    BY <1>19 DEF CleanDone
<1>20. CASE up /\ Discard /\ UNCHANGED up
    BY <1>20 DEF Discard
<1>21. ASSUME NEW f \in Files, Save(f) PROVE TmpFilesAreTracked'
    BY <1>21 DEF Save
<1>22. CASE Crash
    BY <1>22 DEF Crash
<1>23. CASE UNCHANGED vars
    <2>1. UNCHANGED <<orig, tmp, bak, base, tmpPath, backupPath>>
        BY <1>23 DEF vars
    <2>2. UNCHANGED <<pc, i, k, stop, errs, up, faults, saves>>
        BY <1>23 DEF vars
    <2> QED
        BY <2>1, <2>2
<1> QED
    BY <1>1, <1>2, <1>3, <1>4, <1>5, <1>6, <1>7, <1>8, <1>9, <1>10,
       <1>11, <1>12, <1>13, <1>14, <1>15, <1>16, <1>17, <1>18, <1>19, <1>20, <1>21, <1>22, <1>23
       DEF Next, Step, Call

\* The ledger is kept in every execution.
LEMMA LedgerHolds == Spec => [](IndInv /\ Ledger)
<1>1. IndInv /\ Ledger /\ [Next]_vars => Ledger'
    <2> SUFFICES ASSUME IndInv, Ledger, [Next]_vars PROVE Ledger'
        OBVIOUS
    <2>1. BackupsAreFresh' /\ BackupsAreClaimed' /\ FailureIsReported' /\ CommittedIsThere'
        BY StepFresh, StepClaimed, StepFailure, StepCommitted DEF Ledger
    <2>2. ASSUME faults' <= 1 PROVE TmpFilesAreTracked'
        <3>1. faults <= faults'
            BY DEF IndInv, TypeOK, Next, Step, Call, Save, Crash, vars, Works, Fails,
               FailTimes, GiveUp,
                   ReadFile, RejectFile, Stage, StageFails, NextPhase, Reserve,
                      ReserveFails, Backup, BackupFails,
                   Install, InstallFails, Restore, RestoreFails, UndoRemove,
                      UndoRestore, UndoDone, CleanTmp,
                   CleanBak, CleanDone, Discard
        <3>2. faults \in Nat /\ faults' \in Nat
            BY StepIndInv, ApplierAssumption DEF IndInv, TypeOK
        <3>3. faults <= 1
            BY <2>2, <3>1, <3>2
        <3> QED
            BY <2>2, <3>3, StepTracked DEF Ledger
    <2> QED
        BY <2>1, <2>2 DEF Ledger
<1> QED
    BY InitIndInv, StepIndInv, InitLedger, <1>1, PTL DEF Spec

\* A single failing call leaves no temporary file behind, and the result names
\* every backup that still holds a hand-written version.
THEOREM LeavesNoSilentLitter == Spec => []NoSilentLitter
<1>1. IndInv /\ Ledger => NoSilentLitter
    <2> SUFFICES ASSUME IndInv, Ledger, pc = "done", NEW f \in Files
                 PROVE  /\ tmp[f] # None => faults > 1
                        /\ bak[f] \in User => Blamed(f) \/ <<"leftover", f>> \in errs
        BY DEF NoSilentLitter
    <2>1. faults \in Int
        BY ApplierAssumption DEF IndInv, TypeOK
    <2> QED
        BY <2>1 DEF Ledger, TmpFilesAreTracked, BackupsAreClaimed
<1> QED
    BY LedgerHolds, <1>1, PTL

\* The version that was moved aside leaves its backup only for the file's own
\* path, in every step: the moves back are the only calls that empty a backup
\* which holds one, but for the discard of a committed batch and the cleanup
\* after a restore that is reported as failed.
THEOREM ReturnsMovedVersions == Spec => MovedVersionReturns
<1> DEFINE Returns == \A f \in Files :
                          bak[f] \in User /\ bak'[f] # bak[f] =>
                              \/ orig'[f] = bak[f]
                              \/ pc = "discard"
                              \/ <<"restore", f>> \in errs
<1>a. IndInv /\ Ledger /\ [Next]_vars => [Returns]_vars
    <2> SUFFICES ASSUME IndInv, BackupsAreFresh, [Next]_vars PROVE Returns
        BY DEF Ledger
    <2> USE ApplierAssumption
        DEF IndInv, TypeOK, Cursors, BackupsAreFresh, Reported, Files, None, User,
           Product, Scrap, Steps, Causes, disk, plan, Works,
            Fails, FailTimes, Report, GiveUp, Edited
    <2>1. CASE up /\ ReadFile /\ UNCHANGED up
        BY <2>1 DEF ReadFile
    <2>2. CASE up /\ RejectFile /\ UNCHANGED up
        BY <2>2 DEF RejectFile
    <2>3. CASE up /\ Stage /\ UNCHANGED up
        BY <2>3 DEF Stage
    <2>4. CASE up /\ StageFails /\ UNCHANGED up
        BY <2>4 DEF StageFails
    <2>5. CASE up /\ NextPhase /\ UNCHANGED up
        BY <2>5 DEF NextPhase
    <2>6. CASE up /\ Reserve /\ UNCHANGED up
        BY <2>6 DEF Reserve
    <2>7. CASE up /\ ReserveFails /\ UNCHANGED up
        BY <2>7 DEF ReserveFails
    <2>8. CASE up /\ Backup /\ UNCHANGED up
        BY <2>8 DEF Backup
    <2>9. CASE up /\ BackupFails /\ UNCHANGED up
        BY <2>9 DEF BackupFails
    <2>10. CASE up /\ Install /\ UNCHANGED up
        BY <2>10 DEF Install
    <2>11. CASE up /\ InstallFails /\ UNCHANGED up
        BY <2>11 DEF InstallFails
    <2>12. CASE up /\ Restore /\ UNCHANGED up
        BY <2>12 DEF Restore
    <2>13. CASE up /\ RestoreFails /\ UNCHANGED up
        BY <2>13 DEF RestoreFails
    <2>14. CASE up /\ UndoRemove /\ UNCHANGED up
        BY <2>14 DEF UndoRemove
    <2>15. CASE up /\ UndoRestore /\ UNCHANGED up
        BY <2>15 DEF UndoRestore
    <2>16. CASE up /\ UndoDone /\ UNCHANGED up
        BY <2>16 DEF UndoDone
    <2>17. CASE up /\ CleanTmp /\ UNCHANGED up
        BY <2>17 DEF CleanTmp
    <2>18. CASE up /\ CleanBak /\ UNCHANGED up
        BY <2>18 DEF CleanBak
    <2>19. CASE up /\ CleanDone /\ UNCHANGED up
        BY <2>19 DEF CleanDone
    <2>20. CASE up /\ Discard /\ UNCHANGED up
        BY <2>20 DEF Discard
    <2>21. ASSUME NEW f \in Files, Save(f) PROVE Returns
        BY <2>21 DEF Save
    <2>22. CASE Crash
        BY <2>22 DEF Crash
    <2>23. CASE UNCHANGED vars
        <3>1. UNCHANGED <<orig, tmp, bak, base, tmpPath, backupPath>>
            BY <2>23 DEF vars
        <3>2. UNCHANGED <<pc, i, k, stop, errs, up, faults, saves>>
            BY <2>23 DEF vars
        <3> QED
            BY <3>1, <3>2
    <2> QED
        BY <2>1, <2>2, <2>3, <2>4, <2>5, <2>6, <2>7, <2>8, <2>9, <2>10,
           <2>11, <2>12, <2>13, <2>14, <2>15, <2>16, <2>17, <2>18, <2>19, <2>20, <2>21, <2>22, <2>23
           DEF Next, Step, Call
<1> QED
    BY LedgerHolds, <1>a, PTL DEF MovedVersionReturns, Spec

(* --------------------- the contract it implements ------------------------ *)

\* What Recoverable says of a file.
LEMMA RecoverableAt ==
    /\ DOMAIN Recoverable = Files /\ Recoverable = [f \in Files |-> Recoverable[f]]
    /\ \A f \in Files : Recoverable[f] = IF orig[f] = None /\ bak[f] # "empty" THEN bak[f] ELSE orig[f]
BY DEF Recoverable

\* What is recovered of the other files stays as it was.
LEMMA RecoverableChanges ==
    ASSUME NEW f \in Files, \A g \in Files : g # f => orig'[g] = orig[g] /\ bak'[g] = bak[g]
    PROVE  Recoverable' = [Recoverable EXCEPT ![f] = Recoverable'[f]]
BY DEF Recoverable

\* Without a change that shows, the contract takes no step.
LEMMA Stutters ==
    ASSUME UNCHANGED <<Recoverable, Mine, BlamedFiles, Outcome>>
    PROVE  UNCHANGED Atomic!vars
BY DEF Atomic!vars

\* A report with another cause names no file as lost.
LEMMA OtherReports ==
    ASSUME NEW cause \in {"read", "stage", "commit", "leftover"}, NEW f, Report(cause, f)
    PROVE  UNCHANGED BlamedFiles
BY DEF Report, BlamedFiles, Blamed

\* A report of a failed restore names that file.
LEMMA BlamingReports ==
    ASSUME NEW cause \in {"restore", "rollback"}, NEW f \in Files, Report(cause, f)
    PROVE  BlamedFiles' = BlamedFiles \cup {f}
BY DEF Report, BlamedFiles, Blamed

\* The first state of the applier is one of the contract.
LEMMA InitImplements == Init => Atomic!Init
<1> SUFFICES ASSUME Init PROVE Atomic!Init
    OBVIOUS
<1>1. Recoverable \in [Files -> User]
    BY DEF Init, Recoverable, User, None
<1>2. Mine = {} /\ BlamedFiles = {} /\ Outcome = "applying"
    BY DEF Init, Mine, BlamedFiles, Blamed, Outcome
<1> QED
    BY <1>1, <1>2 DEF Atomic!Init

\* Every step of the applier, of another program and of the operating system is
\* one of the contract, or does not show.
LEMMA StepImplements == IndInv /\ Ledger /\ [Next]_vars => [Atomic!Next]_(Atomic!vars)
<1> SUFFICES ASSUME IndInv, Ledger, [Next]_vars PROVE [Atomic!Next]_(Atomic!vars)
    OBVIOUS
<1> USE ApplierAssumption
        DEF IndInv, Ledger, TypeOK, Files, Steps, disk, plan, Works, Fails, FailTimes, GiveUp
<1>u. None \notin User /\ None \notin Product /\ "empty" \notin User /\ "empty" # None
    BY DEF None, User, Product
\* computing and staging the batch
<1>1. CASE up /\ ReadFile /\ UNCHANGED up
    <2>1. UNCHANGED Recoverable
        BY <1>1 DEF ReadFile, Recoverable
    <2>2. UNCHANGED Mine
        BY <1>1 DEF ReadFile, Mine
    <2>3. UNCHANGED BlamedFiles
        BY <1>1, OtherReports DEF ReadFile, BlamedFiles, Blamed
    <2>4. UNCHANGED Outcome
        BY <1>1 DEF ReadFile, Outcome
    <2> QED
        BY <2>1, <2>2, <2>3, <2>4, Stutters
<1>2. CASE up /\ RejectFile /\ UNCHANGED up
    <2>1. UNCHANGED Recoverable
        BY <1>2 DEF RejectFile, Recoverable
    <2>2. UNCHANGED BlamedFiles
        BY <1>2, OtherReports DEF RejectFile
    <2>3. <<"read", i>> \in errs' /\ <<"read", i>>[1] # "leftover"
        BY <1>2 DEF RejectFile, Report
    <2>4. ~Kept'
        BY <2>3 DEF Kept
    <2>5. Mine = {} /\ Mine' = {}
        BY <1>2, <2>4 DEF RejectFile, Mine
    <2>6. Outcome = "applying" /\ Outcome' = "failed"
        BY <1>2, <2>4 DEF RejectFile, Outcome
    <2> QED
        BY <2>1, <2>2, <2>5, <2>6 DEF Atomic!Next, Atomic!Fail
<1>3. CASE up /\ Stage /\ UNCHANGED up
    <2>1. UNCHANGED Recoverable
        BY <1>3 DEF Stage, Recoverable
    <2>2. UNCHANGED Mine
        BY <1>3 DEF Stage, Mine
    <2>3. UNCHANGED BlamedFiles
        BY <1>3, OtherReports DEF Stage, BlamedFiles, Blamed
    <2>4. UNCHANGED Outcome
        BY <1>3 DEF Stage, Outcome
    <2> QED
        BY <2>1, <2>2, <2>3, <2>4, Stutters
<1>4. CASE up /\ StageFails /\ UNCHANGED up
    <2>1. UNCHANGED Recoverable
        BY <1>4 DEF StageFails, Recoverable
    <2>2. UNCHANGED Mine
        BY <1>4 DEF StageFails, Mine
    <2>3. UNCHANGED BlamedFiles
        BY <1>4, OtherReports DEF StageFails
    <2>4. Outcome = "applying" /\ Outcome' = "undoing"
        BY <1>4 DEF StageFails, Outcome
    <2> QED
        BY <2>1, <2>2, <2>3, <2>4 DEF Atomic!Next, Atomic!Abandon
<1>5. CASE up /\ NextPhase /\ UNCHANGED up
    <2>1. UNCHANGED <<Recoverable, BlamedFiles>>
        BY <1>5 DEF NextPhase, Recoverable, BlamedFiles, Blamed
    <2>2. CASE pc \in {"read", "stage"}
        <3>1. Mine = {} /\ Mine' = {}
            BY <1>5, <2>2 DEF NextPhase, Mine
        <3>2. UNCHANGED Outcome
            BY <1>5, <2>2 DEF NextPhase, Outcome
        <3> QED
            BY <2>1, <3>1, <3>2, Stutters
    <2>3. CASE pc = "reserve"
        <3>1. i = N + 1 /\ pc' = "discard"
            BY <1>5, <2>3 DEF NextPhase
        <3>2. Mine = Files /\ Mine' = Files
            BY <2>3, <3>1 DEF Mine
        <3>3. UNCHANGED Outcome
            BY <1>5, <2>3 DEF NextPhase, Outcome
        <3> QED
            BY <2>1, <3>2, <3>3, Stutters
    <2>4. CASE pc = "discard"
        <3>1. Kept /\ Kept' /\ pc' = "done"
            BY <1>5, <2>4 DEF NextPhase, Silent, Kept
        <3>2. Mine = Files /\ Mine' = Files
            BY <2>4, <3>1 DEF Mine
        <3>3. Outcome = "applying" /\ Outcome' = "applied"
            BY <1>5, <2>4, <3>1 DEF Outcome
        <3> QED
            BY <2>1, <3>2, <3>3 DEF Atomic!Next, Atomic!Succeed
    <2> QED
        BY <1>5, <2>2, <2>3, <2>4 DEF NextPhase
\* committing it
<1>6. CASE up /\ Reserve /\ UNCHANGED up
    <2>1. UNCHANGED Recoverable
        BY <1>6 DEF Reserve, Recoverable
    <2>2. UNCHANGED Mine
        BY <1>6 DEF Reserve, Mine
    <2>3. UNCHANGED BlamedFiles
        BY <1>6, OtherReports DEF Reserve, BlamedFiles, Blamed
    <2>4. UNCHANGED Outcome
        BY <1>6 DEF Reserve, Outcome
    <2> QED
        BY <2>1, <2>2, <2>3, <2>4, Stutters
<1>7. CASE up /\ ReserveFails /\ UNCHANGED up
    <2>1. UNCHANGED Recoverable
        <3>1. i \in Files /\ orig[i] # None
            BY <1>7, <1>u DEF ReserveFails, Committing
        <3> QED
            BY <1>7, <3>1 DEF ReserveFails, Recoverable
    <2>2. UNCHANGED Mine
        BY <1>7 DEF ReserveFails, Mine
    <2>3. UNCHANGED BlamedFiles
        BY <1>7, OtherReports DEF ReserveFails
    <2>4. Outcome = "applying" /\ Outcome' = "undoing"
        BY <1>7 DEF ReserveFails, Outcome
    <2> QED
        BY <2>1, <2>2, <2>3, <2>4 DEF Atomic!Next, Atomic!Abandon
<1>8. CASE up /\ Backup /\ UNCHANGED up
    <2>1. UNCHANGED Recoverable
        <3>1. i \in Files /\ orig[i] # None /\ orig[i] # "empty"
            BY <1>8, <1>u DEF Backup, Committing, Cursors
        <3> QED
            BY <1>8, <3>1 DEF Backup, Recoverable
    <2>2. UNCHANGED Mine
        BY <1>8 DEF Backup, Mine
    <2>3. UNCHANGED BlamedFiles
        BY <1>8, OtherReports DEF Backup, BlamedFiles, Blamed
    <2>4. UNCHANGED Outcome
        BY <1>8 DEF Backup, Outcome
    <2> QED
        BY <2>1, <2>2, <2>3, <2>4, Stutters
<1>9. CASE up /\ BackupFails /\ UNCHANGED up
    <2>1. UNCHANGED Recoverable
        BY <1>9 DEF BackupFails, Recoverable
    <2>2. UNCHANGED Mine
        BY <1>9 DEF BackupFails, Mine
    <2>3. UNCHANGED BlamedFiles
        BY <1>9, OtherReports DEF BackupFails
    <2>4. Outcome = "applying" /\ Outcome' = "undoing"
        BY <1>9 DEF BackupFails, Outcome
    <2> QED
        BY <2>1, <2>2, <2>3, <2>4 DEF Atomic!Next, Atomic!Abandon
<1>10. CASE up /\ Install /\ UNCHANGED up
    <2>1. i \in Files /\ tmp[i] \in Product
        BY <1>10 DEF Install, Cursors, Staged
    <2>2. Recoverable'[i] = tmp[i]
        BY <1>10, <1>u, <2>1, RecoverableAt DEF Install, Recoverable
    <2>3. Recoverable' = [Recoverable EXCEPT ![i] = tmp[i]]
        BY <1>10, <2>1, <2>2, RecoverableChanges DEF Install
    <2>4. Mine = 1 .. i - 1 /\ Mine' = Mine \cup {i} /\ i \notin Mine
        BY <1>10, <2>1 DEF Install, Mine
    <2>5. UNCHANGED BlamedFiles
        BY <1>10 DEF Install, BlamedFiles, Blamed
    <2>6. Outcome = "applying" /\ Outcome' = "applying"
        BY <1>10 DEF Install, Outcome
    <2> QED
        BY <2>1, <2>3, <2>4, <2>5, <2>6 DEF Atomic!Next, Atomic!Replace
<1>11. CASE up /\ InstallFails /\ UNCHANGED up
    <2>1. UNCHANGED Recoverable
        BY <1>11 DEF InstallFails, Recoverable
    <2>2. UNCHANGED Mine
        BY <1>11 DEF InstallFails, Mine
    <2>3. UNCHANGED BlamedFiles
        BY <1>11, OtherReports DEF InstallFails
    <2>4. Outcome = "applying" /\ Outcome' = "undoing"
        BY <1>11 DEF InstallFails, Outcome
    <2> QED
        BY <2>1, <2>2, <2>3, <2>4 DEF Atomic!Next, Atomic!Abandon
<1>12. CASE up /\ Restore /\ UNCHANGED up
    <2>1. i \in Files /\ bak[i] \in User
        BY <1>12 DEF Restore, Cursors, Committing
    <2>2. Recoverable'[i] = bak[i]
        BY <1>12, <1>u, <2>1 DEF Restore, Recoverable
    <2>3. Recoverable' = [Recoverable EXCEPT ![i] = bak[i]]
        BY <1>12, <2>1, <2>2, RecoverableChanges DEF Restore
    <2>4. UNCHANGED Mine
        BY <1>12 DEF Restore, Mine
    <2>5. UNCHANGED BlamedFiles
        BY <1>12 DEF Restore, BlamedFiles, Blamed
    <2>6. Outcome = "undoing" /\ Outcome' = "undoing"
        BY <1>12 DEF Restore, Outcome
    <2> QED
        BY <2>1, <2>3, <2>4, <2>5, <2>6 DEF Atomic!Next, Atomic!PutBack
<1>13. CASE up /\ RestoreFails /\ UNCHANGED up
    <2>1. UNCHANGED Recoverable
        BY <1>13 DEF RestoreFails, Recoverable
    <2>2. i \in Files /\ Mine' = Mine \ {i}
        BY <1>13 DEF RestoreFails, Cursors, Mine
    <2>3. BlamedFiles' = BlamedFiles \cup {i}
        BY <1>13, <2>2, BlamingReports DEF RestoreFails
    <2>4. Outcome = "undoing" /\ Outcome' = "undoing"
        BY <1>13 DEF RestoreFails, Outcome
    <2> QED
        BY <2>1, <2>2, <2>3, <2>4 DEF Atomic!Next, Atomic!Blame
\* undoing it
<1>14. CASE up /\ UndoRemove /\ UNCHANGED up
    <2>1. k \in Files /\ bak[k] \in User
        BY <1>14 DEF UndoRemove, Cursors, Undoing
    <2>2. UNCHANGED Mine
        BY <1>14 DEF UndoRemove, Mine
    <2>3. UNCHANGED BlamedFiles
        BY <1>14 DEF UndoRemove, BlamedFiles, Blamed
    <2>4. Outcome = "undoing" /\ Outcome' = "undoing"
        BY <1>14 DEF UndoRemove, Outcome
    <2>5. CASE orig' = [orig EXCEPT ![k] = None]
        <3>1. Recoverable'[k] = bak[k]
            BY <1>14, <1>u, <2>1, <2>5 DEF UndoRemove, Recoverable
        <3>2. Recoverable' = [Recoverable EXCEPT ![k] = bak[k]]
            BY <1>14, <2>1, <2>5, <3>1, RecoverableChanges DEF UndoRemove
        <3> QED
            BY <2>1, <2>2, <2>3, <2>4, <3>2 DEF Atomic!Next, Atomic!PutBack
    <2>6. CASE UNCHANGED orig
        <3>1. UNCHANGED Recoverable
            BY <1>14, <2>6 DEF UndoRemove, Recoverable
        <3> QED
            BY <2>2, <2>3, <2>4, <3>1, Stutters
    <2> QED
        BY <1>14, <2>5, <2>6 DEF UndoRemove
<1>15. CASE up /\ UndoRestore /\ UNCHANGED up
    <2>1. k \in Files /\ bak[k] \in User
        BY <1>15 DEF UndoRestore, Cursors, Undoing
    <2>2. Mine = 1 .. k /\ Mine' = Mine \ {k}
        BY <1>15, <2>1 DEF UndoRestore, Mine
    <2>3. Outcome = "undoing" /\ Outcome' = "undoing"
        BY <1>15 DEF UndoRestore, Outcome
    <2>4. CASE /\ orig' = [orig EXCEPT ![k] = bak[k]]
               /\ bak' = [bak EXCEPT ![k] = None]
               /\ UNCHANGED errs
        <3>1. Recoverable'[k] = bak[k]
            BY <1>u, <2>1, <2>4 DEF Recoverable
        <3>2. Recoverable' = [Recoverable EXCEPT ![k] = bak[k]]
            BY <2>1, <2>4, <3>1, RecoverableChanges
        <3>3. UNCHANGED BlamedFiles
            BY <2>4 DEF BlamedFiles, Blamed
        <3> QED
            BY <2>1, <2>2, <2>3, <3>2, <3>3 DEF Atomic!Next, Atomic!PutBack
    <2>5. CASE Report("rollback", k) /\ UNCHANGED <<orig, bak>>
        <3>1. UNCHANGED Recoverable
            BY <2>5 DEF Recoverable
        <3>2. BlamedFiles' = BlamedFiles \cup {k}
            BY <2>1, <2>5, BlamingReports
        <3> QED
            BY <2>1, <2>2, <2>3, <3>1, <3>2 DEF Atomic!Next, Atomic!Blame
    <2> QED
        BY <1>15, <2>4, <2>5 DEF UndoRestore
<1>16. CASE up /\ UndoDone /\ UNCHANGED up
    <2>1. UNCHANGED Recoverable
        BY <1>16 DEF UndoDone, Recoverable
    <2>2. UNCHANGED Mine
        BY <1>16 DEF UndoDone, Mine
    <2>3. UNCHANGED BlamedFiles
        BY <1>16, OtherReports DEF UndoDone, BlamedFiles, Blamed
    <2>4. UNCHANGED Outcome
        BY <1>16 DEF UndoDone, Outcome
    <2> QED
        BY <2>1, <2>2, <2>3, <2>4, Stutters
<1>17. CASE up /\ CleanTmp /\ UNCHANGED up
    <2>1. UNCHANGED Recoverable
        BY <1>17 DEF CleanTmp, Recoverable
    <2>2. UNCHANGED Mine
        BY <1>17 DEF CleanTmp, Mine
    <2>3. UNCHANGED BlamedFiles
        BY <1>17, OtherReports DEF CleanTmp, BlamedFiles, Blamed
    <2>4. UNCHANGED Outcome
        BY <1>17 DEF CleanTmp, Outcome
    <2> QED
        BY <2>1, <2>2, <2>3, <2>4, Stutters
<1>18. CASE up /\ CleanBak /\ UNCHANGED up
    <2>1. k \in Files
        BY <1>18 DEF CleanBak, Cursors
    <2>2. Mine = {} /\ Mine' = {}
        BY <1>18 DEF CleanBak, Mine
    <2>3. UNCHANGED BlamedFiles
        BY <1>18 DEF CleanBak, BlamedFiles, Blamed
    <2>4. Outcome = "undoing" /\ Outcome' = "undoing"
        BY <1>18 DEF CleanBak, Outcome
    <2>5. CASE orig[k] = None /\ bak' = [bak EXCEPT ![k] = None]
        <3>1. Blamed(k)
            BY <1>18, <1>u, <2>1, <2>5 DEF CleanBak, Undone, Named, Reported, Blamed
        <3>2. k \in BlamedFiles
            BY <2>1, <3>1 DEF BlamedFiles
        <3>3. Recoverable'[k] = None
            BY <1>18, <1>u, <2>1, <2>5 DEF CleanBak, Recoverable
        <3>4. Recoverable' = [Recoverable EXCEPT ![k] = None]
            BY <1>18, <2>1, <2>5, <3>3, RecoverableChanges DEF CleanBak
        <3> QED
            BY <2>1, <2>2, <2>3, <2>4, <3>2, <3>4 DEF Atomic!Next, Atomic!Lose
    <2>6. CASE orig[k] # None \/ UNCHANGED bak
        <3>1. UNCHANGED Recoverable
            BY <1>18, <2>1, <2>6 DEF CleanBak, Recoverable
        <3> QED
            BY <2>2, <2>3, <2>4, <3>1, Stutters
    <2> QED
        BY <1>18, <2>5, <2>6 DEF CleanBak
<1>19. CASE up /\ CleanDone /\ UNCHANGED up
    <2>1. UNCHANGED <<Recoverable, BlamedFiles>>
        BY <1>19 DEF CleanDone, Recoverable, BlamedFiles, Blamed
    <2>2. ~Kept /\ ~Kept'
        BY <1>19 DEF CleanDone, FailureIsReported, Kept
    <2>3. Mine = {} /\ Mine' = {}
        BY <1>19, <2>2 DEF CleanDone, Mine
    <2>4. Outcome = "undoing" /\ Outcome' = "failed"
        BY <1>19, <2>2 DEF CleanDone, Outcome
    <2> QED
        BY <2>1, <2>3, <2>4 DEF Atomic!Next, Atomic!Fail
\* keeping it
<1>20. CASE up /\ Discard /\ UNCHANGED up
    <2>1. UNCHANGED Recoverable
        <3>1. i \in Files /\ orig[i] # None
            BY <1>20 DEF Discard, CommittedIsThere
        <3> QED
            BY <1>20, <3>1 DEF Discard, Recoverable
    <2>2. UNCHANGED Mine
        BY <1>20 DEF Discard, Mine
    <2>3. UNCHANGED BlamedFiles
        BY <1>20, OtherReports DEF Discard, BlamedFiles, Blamed
    <2>4. UNCHANGED Outcome
        BY <1>20 DEF Discard, Outcome
    <2> QED
        BY <2>1, <2>2, <2>3, <2>4, Stutters
\* the environment
<1>21. ASSUME NEW f \in Files, Save(f) PROVE [Atomic!Next]_(Atomic!vars)
    <2>1. Recoverable'[f] = "saved"
        BY <1>21 DEF Save, Recoverable, None
    <2>2. Recoverable' = [Recoverable EXCEPT ![f] = "saved"]
        BY <1>21, <2>1, RecoverableChanges DEF Save
    <2>3. UNCHANGED <<Mine, BlamedFiles, Outcome>>
        BY <1>21 DEF Save, Mine, BlamedFiles, Blamed, Outcome, Kept
    <2>4. "saved" \in User
        BY DEF User
    <2> QED
        BY <2>2, <2>3, <2>4 DEF Atomic!Next, Atomic!Save
<1>22. CASE Crash
    <2>1. UNCHANGED <<Recoverable, Mine, BlamedFiles>>
        BY <1>22 DEF Crash, Recoverable, Mine, BlamedFiles, Blamed, Kept
    <2>2. Outcome \in {"applying", "undoing"} /\ Outcome' = "killed"
        BY <1>22 DEF Crash, Outcome
    <2> QED
        BY <2>1, <2>2 DEF Atomic!Next, Atomic!Kill
<1>23. CASE UNCHANGED vars
    <2>1. UNCHANGED <<orig, bak, pc, i, k, errs, up>>
        BY <1>23 DEF vars
    <2>2. UNCHANGED <<Recoverable, Mine, BlamedFiles, Outcome>>
        BY <2>1 DEF Recoverable, Mine, BlamedFiles, Blamed, Outcome, Kept
    <2> QED
        BY <2>2, Stutters
<1> QED
    BY <1>1, <1>2, <1>3, <1>4, <1>5, <1>6, <1>7, <1>8, <1>9, <1>10,
       <1>11, <1>12, <1>13, <1>14, <1>15, <1>16, <1>17, <1>18, <1>19, <1>20, <1>21, <1>22, <1>23
       DEF Next, Step, Call

\* The applier implements the all-or-nothing contract: with what a person can
\* recover from a named backup taken for the file, every execution, whatever
\* fails and whoever saves, is one of AtomicApply.
THEOREM ImplementsAtomicApply == Spec => AtomicSpec
BY InitImplements, LedgerHolds, StepImplements, PTL DEF Spec, AtomicSpec, Atomic!Spec

\* So a batch that has failed has left at every file that the error does not
\* name a version written by hand, and one that is applied names none.
THEOREM BatchIsAllOrNothing == Spec => []Atomic!AllOrNothing
<1>1. IndInv => Atomic!AllOrNothing
    <2> SUFFICES ASSUME IndInv PROVE Atomic!AllOrNothing
        OBVIOUS
    <2>1. ASSUME Outcome = "failed", NEW f \in Files \ BlamedFiles PROVE Recoverable[f] \in User
        <3>1. pc = "done" /\ ~Kept
            BY <2>1 DEF Outcome
        <3>2. orig[f] \in User
            BY <2>1, <3>1 DEF IndInv, Undone, Named, Reported, BlamedFiles, Blamed
        <3> QED
            BY <2>1, <3>2 DEF Recoverable, User, None
    <2>2. ASSUME Outcome = "applied" PROVE Mine = Files /\ BlamedFiles = {}
        <3>1. pc = "done" /\ Kept
            BY <2>2 DEF Outcome
        <3>2. Mine = Files
            BY <3>1 DEF Mine
        <3>3. \A f \in Files : ~Blamed(f)
            <4>1. <<"restore", 1>>[1] # "leftover" /\ <<"rollback", 1>>[1] # "leftover"
                OBVIOUS
            <4> QED
                BY <3>1, <4>1 DEF Kept, Blamed
        <3> QED
            BY <3>2, <3>3 DEF BlamedFiles
    <2> QED
        BY <2>1, <2>2 DEF Atomic!AllOrNothing
<1> QED
    BY Invariance, <1>1, PTL
=============================================================================
