------------------------------- MODULE FileOps -------------------------------
(* The journalled transaction of internal/edit/applier_fileops.go, used when  *)
(* a WorkspaceEdit creates, renames or deletes files beside its text edits.   *)
(* Operations run in the order creates, edits, renames, deletes.  Each is a   *)
(* short program of system calls that, once complete, journals how to undo    *)
(* and how to finalize it.  A call that fails runs its local repair, then the *)
(* whole journal is undone, last entry first.                                 *)
(*                                                                            *)
(* A path is the sequence of its components; the tree maps the paths that     *)
(* exist to their content.  Renaming a directory moves everything under it.   *)
EXTENDS Integers, Sequences, SequencesExt

CONSTANTS
    Names,      \* the names and contents of the workspace
    Batches,    \* the WorkspaceEdits considered, operations in applied order
    Start,      \* the workspace before the batch
    MaxFaults   \* bound: system calls that fail although they could succeed

(* A component of a path and the content of a file are pairs: the mark tells   *)
(* what the applier makes itself ("bak", "tmp") from what the workspace has.   *)
Pairs == (Names \cup {"dir", "empty", "partial", "bak", "tmp"}) \X Nat
Paths == Seq(Pairs) \ {<<>>}
Dir == <<"dir", 0>>
IsUserPath(p) == \A m \in DOMAIN p : p[m][1] \notin {"bak", "tmp"}
IsTree(t) ==
    /\ DOMAIN t \subseteq Paths /\ t \in [DOMAIN t -> Pairs]
    /\ \A p \in DOMAIN t : \A m \in 1 .. Len(p) - 1 :
           SubSeq(p, 1, m) \in DOMAIN t /\ t[SubSeq(p, 1, m)] = Dir

\* The order in which applyWithFileOps takes the operations.
Rank(op) == CASE op.kind = "create" -> 1 [] op.kind = "edit" -> 2
              [] op.kind = "rename" -> 3 [] op.kind = "delete" -> 4

ASSUME FileOpsAssumption ==
    /\ MaxFaults \in Nat
    /\ IsTree(Start) /\ \A p \in DOMAIN Start : IsUserPath(p)
    /\ \A ops \in Batches : ops \in Seq(Range(ops)) /\ \A op \in Range(ops) :
           /\ op.kind \in {"create", "edit", "rename", "delete"}
           /\ op.path \in Paths /\ IsUserPath(op.path)
           /\ op.kind = "rename" => op.newPath \in Paths /\ IsUserPath(op.newPath)
    /\ \A ops \in Batches : \A x, y \in DOMAIN ops : x <= y => Rank(ops[x]) <= Rank(ops[y])

VARIABLES
    batch,      \* the operations of the WorkspaceEdit
    tree,       \* the workspace
    phase,      \* op, call, repair, undo, finalize or done
    j,          \* the operation at hand
    plan,       \* its program, while phase is call
    n,          \* the next call of that program
    todo,       \* calls left of a repair, of the undo or of the finalization
    journal,    \* the committedOps, in the order they were applied
    errs,       \* the kinds of errors joined in the result
    up,         \* FALSE once the process has been killed
    faults

vars == <<batch, tree, phase, j, plan, n, todo, journal, errs, up, faults>>

(* ------------------------------ paths and trees ------------------------- *)

Empty == <<"empty", 0>>                 \* the content of a file just created
Partial == <<"partial", 0>>             \* a write that was cut short
Edited(c) == <<c[1], c[2] + 1>>         \* applyEdits

Exists(t, p) == p \in DOMAIN t
IsDir(t, p) == Exists(t, p) /\ t[p] = Dir
Under(t, p) == {q \in DOMAIN t : IsPrefix(p, q)}
ParentExists(t, p) == Len(p) = 1 \/ IsDir(t, Front(p))
Sibling(p, name) == Append(Front(p), name)
BackupOf(p, m) == Sibling(p, <<"bak", m>>)      \* reserveBackupPath
TempOf(p, m) == Sibling(p, <<"tmp", m>>)        \* os.CreateTemp

With(t, p, c) == [q \in DOMAIN t \cup {p} |-> IF q = p THEN c ELSE t[q]]
Without(t, gone) == [q \in DOMAIN t \ gone |-> t[q]]
Moved(t, from, to) ==
    LET rest == Without(t, Under(t, from) \cup Under(t, to))
        rebased(q) == to \o SubSeq(q, Len(from) + 1, Len(q))
        back(q) == from \o SubSeq(q, Len(to) + 1, Len(q))
    IN  [q \in DOMAIN rest \cup {rebased(r) : r \in Under(t, from)} |->
            IF q \in DOMAIN rest THEN rest[q] ELSE t[back(q)]]

(* ------------------------------ system calls ---------------------------- *)

Move(from, to) == [do |-> "rename", at |-> from, to |-> to]
Unlink(p) == [do |-> "remove", at |-> p]
UnlinkAll(p) == [do |-> "removeAll", at |-> p]
Write(p, c) == [do |-> "write", at |-> p, as |-> c]
Create(p) == [do |-> "create", at |-> p]        \* O_CREATE|O_EXCL
Close(p) == [do |-> "close", at |-> p]
Reserve(p) == [do |-> "reserve", at |-> p]      \* a free name, left free

\* The calls the kernel refuses whatever the fault budget.
Possible(t, c) ==
    CASE c.do = "rename" ->
            /\ Exists(t, c.at) /\ ParentExists(t, c.to)
            /\ IsPrefix(c.at, c.to) => c.at = c.to
            /\ Exists(t, c.to) =>
                   /\ IsDir(t, c.at) <=> IsDir(t, c.to)
                   /\ Under(t, c.to) = {c.to}
      [] c.do = "remove" -> Under(t, c.at) = {c.at}
      [] c.do \in {"write", "reserve"} -> ParentExists(t, c.at) /\ ~IsDir(t, c.at)
      [] c.do = "create" -> ParentExists(t, c.at) /\ ~Exists(t, c.at)
      [] c.do \in {"removeAll", "close"} -> TRUE

Effect(t, c) ==
    CASE c.do = "rename" -> IF c.at = c.to THEN t ELSE Moved(t, c.at, c.to)
      [] c.do \in {"remove", "removeAll"} -> Without(t, Under(t, c.at))
      [] c.do = "write" -> With(t, c.at, c.as)
      [] c.do = "create" -> With(t, c.at, Empty)
      [] c.do \in {"reserve", "close"} -> t

\* What a failed call may leave behind: an unfinished file, or the placeholder
\* that reserveBackupPath created and could not remove.
Residues(t, c) ==
    CASE c.do = "write" /\ ~IsDir(t, c.at) /\ ParentExists(t, c.at) ->
            {t, With(t, c.at, Partial)}
      [] c.do = "reserve" /\ ParentExists(t, c.at) -> {t, With(t, c.at, Empty)}
      [] OTHER -> {t}

(* --------------------- the program of each operation -------------------- *)

Refuse == [run |-> "refuse"]
Skip == [run |-> "skip"]
\* fix[m]: the repair after call m failed; its own failures are ignored.
Program(calls, fix, undo, finalize) ==
    [run |-> "calls", calls |-> calls, fix |-> fix, undo |-> undo,
     finalize |-> finalize]
Quiet(c) == [call |-> c, loud |-> FALSE]        \* _ = os.Remove(...)
Loud(c) == [call |-> c, loud |-> TRUE]

CommitCreate(t, op, m) ==
    LET b == BackupOf(op.path, m) IN
    IF ~ParentExists(t, op.path) THEN Refuse
    ELSE IF ~Exists(t, op.path)
    THEN Program(<<Create(op.path), Close(op.path)>>,
                 <<<<>>, <<Unlink(op.path)>>>>,
                 <<Loud(Unlink(op.path))>>, <<>>)
    ELSE IF op.overwrite
    THEN Program(<<Reserve(b), Move(op.path, b), Write(op.path, Empty)>>,
                 <<<<>>, <<>>, <<Move(b, op.path)>>>>,
                 <<Quiet(Unlink(op.path)), Loud(Move(b, op.path))>>,
                 <<Unlink(b)>>)
    ELSE IF op.ignore THEN Skip ELSE Refuse

\* resolveFileEdits needs every edited path to exist before the first edit is
\* applied; a path named twice is refused when its second edit is reached.
\* writeTempFile removes what it leaves, so only a second failure leaves it.
CommitTextEdit(t, op, m) ==
    LET b == BackupOf(op.path, m)
        x == TempOf(op.path, m)
    IN
    IF \/ \E h \in DOMAIN batch :
              batch[h].kind = "edit" /\ ~Exists(t, batch[h].path)
       \/ IsDir(t, op.path)
       \/ \E h \in 1 .. m - 1 : batch[h].kind = "edit" /\ batch[h].path = op.path
    THEN Refuse
    ELSE Program(<<Write(x, Edited(t[op.path])), Reserve(b),
                   Move(op.path, b), Move(x, op.path)>>,
                 <<<<UnlinkAll(x)>>, <<Unlink(x)>>, <<Unlink(x)>>,
                   <<Move(b, op.path), Unlink(x)>>>>,
                 <<Quiet(Unlink(op.path)), Loud(Move(b, op.path))>>,
                 <<Unlink(b)>>)

\* Faulty: the target that is overwritten is not backed up.
CommitRenameNoBackup(t, op, m) ==
    IF \/ ~Exists(t, op.path) \/ ~ParentExists(t, op.newPath)
       \/ Exists(t, op.newPath) /\ ~op.overwrite
    THEN Refuse
    ELSE Program(<<Move(op.path, op.newPath)>>, <<<<>>>>,
                 <<Loud(Move(op.newPath, op.path))>>, <<>>)

CommitRename(t, op, m) ==
    LET b == BackupOf(op.newPath, m)
        go == Move(op.path, op.newPath)
        return == Move(op.newPath, op.path)
    IN
    IF ~Exists(t, op.path) \/ ~ParentExists(t, op.newPath) THEN Refuse
    ELSE IF ~Exists(t, op.newPath)
    THEN Program(<<go>>, <<<<>>>>, <<Loud(return)>>, <<>>)
    ELSE IF op.overwrite
    THEN Program(<<Reserve(b), Move(op.newPath, b), go>>,
                 <<<<>>, <<>>, <<Move(b, op.newPath)>>>>,
                 <<Loud(return), Loud(Move(b, op.newPath))>>,
                 <<UnlinkAll(b)>>)
    ELSE IF op.ignore THEN Skip ELSE Refuse

CommitDelete(t, op, m) ==
    LET b == BackupOf(op.path, m) IN
    IF Exists(t, op.path)
    THEN Program(<<Reserve(b), Move(op.path, b)>>, <<<<>>, <<>>>>,
                 <<Quiet(UnlinkAll(op.path)), Loud(Move(b, op.path))>>,
                 <<UnlinkAll(b)>>)
    ELSE IF ParentExists(t, op.path) /\ op.ignore THEN Skip ELSE Refuse

ProgramOf(t, m) ==
    CASE batch[m].kind = "create" -> CommitCreate(t, batch[m], m)
      [] batch[m].kind = "edit" -> CommitTextEdit(t, batch[m], m)
      [] batch[m].kind = "rename" -> CommitRename(t, batch[m], m)
      [] batch[m].kind = "delete" -> CommitDelete(t, batch[m], m)

(* ------------------------------ the engine ------------------------------ *)

Init ==
    /\ batch \in Batches
    /\ tree = Start
    /\ phase = "op" /\ j = 1 /\ n = 1
    /\ plan = Skip
    /\ todo = <<>> /\ journal = <<>> /\ errs = {}
    /\ up = TRUE /\ faults = 0

Works(c) == Possible(tree, c) /\ tree' = Effect(tree, c) /\ UNCHANGED faults
Breaks(c) ==
    /\ tree' \in Residues(tree, c)
    /\ IF Possible(tree, c) THEN faults < MaxFaults /\ faults' = faults + 1
                            ELSE UNCHANGED faults

\* The next operation looks at the tree and is refused, skipped or started.
Begin ==
    /\ phase = "op" /\ j <= Len(batch)
    /\ LET p == ProgramOf(tree, j) IN
       \/ /\ p.run = "refuse"
          /\ errs' = errs \cup {"op"}
          /\ phase' = "undo"
          /\ UNCHANGED <<j, plan, todo>>
       \/ /\ p.run = "skip"
          /\ j' = j + 1
          /\ UNCHANGED <<errs, phase, todo, plan>>
       \/ /\ p.run = "calls"
          /\ plan' = p /\ phase' = "call"
          /\ UNCHANGED <<errs, todo, j>>
    /\ n' = 1
    /\ UNCHANGED <<batch, tree, journal, faults>>

Call ==
    /\ phase = "call" /\ n < Len(plan.calls)
    /\ Works(plan.calls[n])
    /\ n' = n + 1
    /\ UNCHANGED <<batch, phase, j, plan, todo, journal, errs>>

\* Faulty: the loop passes over the next operation.
LastCallSkips ==
    /\ phase = "call" /\ n = Len(plan.calls)
    /\ Works(plan.calls[n])
    /\ journal' = Append(journal, [undo |-> plan.undo, finalize |-> plan.finalize])
    /\ phase' = "op" /\ j' = j + 2
    /\ UNCHANGED <<batch, plan, n, todo, errs>>

\* The last call of the program: the operation is applied and journalled.
LastCall ==
    /\ phase = "call" /\ n = Len(plan.calls)
    /\ Works(plan.calls[n])
    /\ journal' = Append(journal, [undo |-> plan.undo, finalize |-> plan.finalize])
    /\ phase' = "op" /\ j' = j + 1
    /\ UNCHANGED <<batch, plan, n, todo, errs>>

CallFails ==
    /\ phase = "call"
    /\ Breaks(plan.calls[n])
    /\ errs' = errs \cup {"op"}
    /\ phase' = "repair" /\ todo' = plan.fix[n]
    /\ UNCHANGED <<batch, j, plan, n, journal>>

\* The repair of the failed call; its own failures are ignored.
Repair ==
    /\ phase = "repair" /\ todo # <<>>
    /\ Works(Head(todo)) \/ Breaks(Head(todo))
    /\ todo' = Tail(todo)
    /\ UNCHANGED <<batch, phase, j, plan, n, journal, errs>>

RepairDone ==
    /\ phase = "repair" /\ todo = <<>>
    /\ phase' = "undo"
    /\ UNCHANGED <<batch, tree, j, plan, n, todo, journal, errs, faults>>

\* Faulty: the oldest entry of the journal is undone first.
UndoOldest ==
    /\ phase = "undo" /\ todo = <<>> /\ journal # <<>>
    /\ todo' = Head(journal).undo /\ journal' = Tail(journal)
    /\ UNCHANGED <<batch, tree, phase, j, plan, n, errs, faults>>

\* rollback turns to the last operation that is not undone yet.
UndoNext ==
    /\ phase = "undo" /\ todo = <<>> /\ journal # <<>>
    /\ todo' = Last(journal).undo /\ journal' = Front(journal)
    /\ UNCHANGED <<batch, tree, phase, j, plan, n, errs, faults>>

\* rollback goes on after an undo that failed.
Undo ==
    /\ phase = "undo" /\ todo # <<>>
    /\ \/ Works(Head(todo).call) /\ UNCHANGED errs
       \/ /\ Breaks(Head(todo).call)
          /\ errs' = IF Head(todo).loud THEN errs \cup {"undo"} ELSE errs
    /\ todo' = Tail(todo)
    /\ UNCHANGED <<batch, phase, j, plan, n, journal>>

\* Every operation is applied: the backups are discarded.
Commit ==
    /\ phase = "op" /\ j > Len(batch)
    /\ phase' = "finalize"
    /\ UNCHANGED <<batch, tree, j, plan, n, todo, journal, errs, faults>>

\* Faulty: only the last operation's backup is discarded.
FinalizeLast ==
    /\ phase = "finalize" /\ todo = <<>> /\ journal # <<>>
    /\ todo' = Last(journal).finalize /\ journal' = <<>>
    /\ UNCHANGED <<batch, tree, phase, j, plan, n, errs, faults>>

\* The operations are finalized in the order they were applied.
FinalizeNext ==
    /\ phase = "finalize" /\ todo = <<>> /\ journal # <<>>
    /\ todo' = Head(journal).finalize /\ journal' = Tail(journal)
    /\ UNCHANGED <<batch, tree, phase, j, plan, n, errs, faults>>

\* Faulty: a backup that cannot be removed is tried again.
FinalizeRetries ==
    /\ phase = "finalize" /\ todo # <<>>
    /\ \/ Works(Head(todo)) /\ todo' = Tail(todo) /\ UNCHANGED errs
       \/ Breaks(Head(todo)) /\ errs' = errs \cup {"finalize"} /\ UNCHANGED todo
    /\ UNCHANGED <<batch, phase, j, plan, n, journal>>

Finalize ==
    /\ phase = "finalize" /\ todo # <<>>
    /\ \/ Works(Head(todo)) /\ UNCHANGED errs
       \/ Breaks(Head(todo)) /\ errs' = errs \cup {"finalize"}
    /\ todo' = Tail(todo)
    /\ UNCHANGED <<batch, phase, j, plan, n, journal>>

Return ==
    /\ phase \in {"undo", "finalize"} /\ todo = <<>> /\ journal = <<>>
    /\ phase' = "done"
    /\ UNCHANGED <<batch, tree, j, plan, n, todo, journal, errs, faults>>

\* The process is killed between two system calls.
Crash ==
    /\ up /\ phase # "done"
    /\ up' = FALSE
    /\ UNCHANGED <<batch, tree, phase, j, plan, n, todo, journal, errs, faults>>

Step ==
    /\ up /\ UNCHANGED up
    /\ \/ Begin \/ Call \/ LastCall \/ CallFails \/ Repair \/ RepairDone
       \/ UndoNext \/ Undo \/ Commit \/ FinalizeNext \/ Finalize \/ Return

Next == Step \/ Crash

Spec == Init /\ [][Next]_vars

FairSpec == Spec /\ WF_vars(Step)

(* ------------------------------ properties ------------------------------ *)

\* The files a person sees, without what the applier keeps beside them.
Visible(t) == Without(t, {p \in DOMAIN t : ~IsUserPath(p)})

\* What a batch means, operation by operation, with no backup and no failure.
Meaning(op, t) ==
    CASE op.kind = "create" ->
            IF Exists(t, op.path) /\ ~op.overwrite THEN t
            ELSE With(Without(t, Under(t, op.path)), op.path, Empty)
      [] op.kind = "edit" -> With(t, op.path, Edited(t[op.path]))
      [] op.kind = "rename" ->
            IF Exists(t, op.newPath) /\ ~op.overwrite THEN t
            ELSE Moved(t, op.path, op.newPath)
      [] op.kind = "delete" -> Without(t, Under(t, op.path))

After(ops) ==
    LET after[m \in 0 .. Len(ops)] == IF m = 0 THEN Start ELSE Meaning(ops[m], after[m - 1])
    IN  after
Meant(ops) == After(ops)[Len(ops)]

\* A batch applied without an error has done exactly what its operations mean.
SuccessMeansBatch ==
    phase = "done" /\ errs = {} => Visible(tree) = Meant(batch)

\* A batch that is refused at any point leaves the files as they were.  So does
\* one system call that fails of itself, in an operation or in a repair; when it
\* is a call of the undo, the error says so.
OneFaultRollsBack ==
    phase = "done" /\ "op" \in errs /\ faults <= 1 =>
        \/ Visible(tree) = Visible(Start)
        \/ faults = 1 /\ "undo" \in errs

\* The content of every file of the workspace is in some file, its own, a
\* renamed one or a backup, until the whole batch is applied or the result
\* reports that undoing failed: also after a kill and under any faults.
ContentKept ==
    \/ phase = "finalize" \/ (phase = "done" /\ "op" \notin errs)
    \/ "undo" \in errs
    \/ \A p \in DOMAIN Start : \E q \in DOMAIN tree : tree[q] = Start[p]

\* "On success, per-op backups are discarded": once every operation is applied,
\* a backup that remains is reported, and none remains (and no error is
\* returned) when no system call failed of itself.
BackupsDiscarded ==
    phase = "done" /\ "op" \notin errs =>
        LET leftover == \E p \in DOMAIN tree : ~IsUserPath(p) IN
        /\ leftover => "finalize" \in errs
        /\ faults = 0 => ~leftover /\ errs = {}

\* The same for the batches that name files only: a directory that is moved takes
\* the backups of earlier operations with it.
FileBackupsDiscarded ==
    (\A m \in DOMAIN batch : ~IsDir(Start, batch[m].path) /\ ~IsDir(Start, batch[m].newPath))
        => BackupsDiscarded

\* The transaction always returns, unless it is killed.
Returns == <>(phase = "done" \/ ~up)
=============================================================================
