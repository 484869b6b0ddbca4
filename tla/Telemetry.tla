------------------------------ MODULE Telemetry ------------------------------
(* The records that invocations of refute leave in one user's state directory *)
(* (internal/telemetry): the append-only log with its one older generation,   *)
(* and a snapshot directory for each edit.  Invocations run side by side      *)
(* without a lock and may be killed; the last thing each does is to enforce   *)
(* the retention bounds.                                                      *)
EXTENDS Integers, Sequences, FiniteSets, SequencesExt

CONSTANTS
    Recorders,  \* the invocations, each of which runs at most once
    Earlier,    \* invocations that left their records before
    MaxDirs,    \* MaxSnapshotInvocations
    MaxBytes,   \* MaxSnapshotBytes
    MaxLog,     \* MaxTelemetryLogBytes, counted in events
    Sizes,      \* the bytes of one file of a snapshot
    MaxKills    \* bound: how many invocations are killed

ASSUME BoundsAssumption ==
    /\ {MaxDirs, MaxBytes, MaxLog, MaxKills} \subseteq Nat
    /\ MaxDirs > 0 /\ MaxBytes > 0 /\ MaxLog > 0
    /\ Sizes \subseteq Nat /\ IsFiniteSet(Earlier)

VARIABLES
    pc,         \* where each recorder is
    plan,       \* what the command does: "info", "dry-run", "apply" or "fail"
    size,       \* the size of each snapshot file of the recorder
    status,     \* ctx.Status
    warned,     \* ctx.Warnings is not empty
    manifest,   \* r.snapshot is set
    handle,     \* the log file the recorder has open
    doomed,     \* the directories its sweep is going to remove
    full,       \* what its stat of the log said
    dirs,       \* the snapshot directories: [files, bytes, actual], actual for a final manifest
    recency,    \* the directories by their time of modification, the newest first
    logs,       \* the log files there ever were, as sets of events
    current,    \* which one is telemetry.jsonl, 0 for none
    previous,   \* which one is telemetry.jsonl.1, 0 for none
    calm        \* history: the last recorder to start, if it has been alone since
snapshot == <<dirs, recency>>
log == <<logs, current, previous>>
own == <<plan, size, status, warned, manifest, handle, doomed, full>>
vars == <<pc, own, snapshot, log, calm>>

Plans == {"info", "dry-run", "apply", "fail"}
Files == {"before", "after", "manifest"}
Event(r, kind) == [id |-> r, kind |-> kind, status |-> status[r], warned |-> warned[r], manifest |-> manifest[r]]

OldEvent(d) == [id |-> d, kind |-> "end", status |-> "applied", warned |-> FALSE, manifest |-> TRUE]
\* Earlier invocations, the last ones killed before their sweep perhaps, have
\* left snapshots of one size and a log.
Init ==
    /\ pc = [r \in Recorders |-> "idle"]
    /\ plan = [r \in Recorders |-> "info"]
    /\ size = [r \in Recorders |-> CHOOSE s \in Sizes : TRUE]
    /\ status = [r \in Recorders |-> ""]
    /\ warned = [r \in Recorders |-> FALSE] /\ manifest = [r \in Recorders |-> FALSE]
    /\ handle = [r \in Recorders |-> 0] /\ full = [r \in Recorders |-> FALSE]
    /\ doomed = [r \in Recorders |-> <<>>]
    /\ \E D \in SUBSET Earlier, s \in Sizes :
          /\ dirs = [d \in D |-> [files |-> Files, bytes |-> 2 * s, actual |-> TRUE]]
          /\ recency \in SetToSeqs(D)
          /\ logs = <<{OldEvent(d) : d \in D}>>
    /\ current = 1 /\ previous = 0
    /\ calm = {}

Running == {r \in Recorders : pc[r] \notin {"idle", "done", "killed"}}
At(r, from, to) == pc[r] = from /\ pc' = [pc EXCEPT ![r] = to]

(* --------------------------------- the log ------------------------------ *)

\* appendLine opens the log, creating it, and then writes to what it has open,
\* which may have been rotated away in between.
OpenLog(r) ==
    /\ IF current = 0
       THEN /\ logs' = Append(logs, {}) /\ current' = Len(logs) + 1
       ELSE UNCHANGED <<logs, current>>
    /\ handle' = [handle EXCEPT ![r] = current']
    /\ UNCHANGED <<plan, size, warned, manifest, doomed, full, previous, snapshot>>
WriteLog(r, event) ==
    /\ logs' = [logs EXCEPT ![handle[r]] = @ \cup {event}]
    /\ handle' = [handle EXCEPT ![r] = 0]
    /\ UNCHANGED <<plan, size, warned, manifest, doomed, full, current, previous, snapshot>>

\* Start
Start(r) ==
    /\ At(r, "idle", "opening")
    /\ calm' = IF Running = {} THEN {r} ELSE {}
    /\ UNCHANGED <<own, snapshot, log>>
StartEvent(r) ==
    /\ \/ At(r, "opening", "start") /\ OpenLog(r) /\ UNCHANGED status
       \/ At(r, "start", "run") /\ WriteLog(r, Event(r, "start")) /\ UNCHANGED status
    /\ UNCHANGED calm

(* ------------------------------- the snapshot --------------------------- *)

Warn(r) == warned' = [warned EXCEPT ![r] = TRUE]
SetStatus(r, s) == status' = [status EXCEPT ![r] = s]
SetDefaultStatus(r, s) == SetStatus(r, IF status[r] = "" THEN s ELSE status[r])

\* Faulty: the directory is made again for a file when it is missing.
PutMakingDir(r, file) ==
    dirs' = (r :> [actual |-> FALSE, bytes |-> size[r],
                   files |-> {file} \cup (IF r \in DOMAIN dirs THEN dirs[r].files ELSE {})]) @@ dirs
\* A new file below the directory of the snapshot.
Put(r, file) ==
    /\ r \in DOMAIN dirs
    /\ dirs' = [dirs EXCEPT ![r].files = @ \cup {file},
                            ![r].bytes = IF file = "manifest" THEN @ ELSE @ + size[r]]
\* The directory of r has just been modified.
Touch(r) == recency' = <<r>> \o RemoveFirst(recency, r)

\* The directories with one made for r, which has nothing in it yet.
Made(r) ==
    [d \in DOMAIN dirs \cup {r} |-> IF d = r THEN [files |-> {}, bytes |-> 0, actual |-> FALSE] ELSE dirs[d]]
\* What the command does at its edit: none for an informational command or one
\* that fails before; otherwise the directory of the snapshot is made first.
Begin(r) ==
    /\ \E p \in Plans : plan' = [plan EXCEPT ![r] = p]
    /\ \/ /\ plan'[r] = "info"
          /\ At(r, "run", "ending") /\ UNCHANGED <<size, status, snapshot>>
       \/ /\ plan'[r] # "info"
          /\ At(r, "run", "before")
          /\ \E s \in Sizes : size' = [size EXCEPT ![r] = s]
          /\ dirs' = Made(r) /\ Touch(r)
          /\ IF plan'[r] = "dry-run" THEN SetStatus(r, "dry-run") ELSE UNCHANGED status
    /\ UNCHANGED <<warned, manifest, handle, doomed, full, log, calm>>

\* writeSnapshot: the compressed files, in directories below, then the manifest
\* that names them.
WriteFile(r, file, next) ==
    /\ At(r, file, next) /\ Put(r, file)
    /\ IF file = "manifest" THEN Touch(r) ELSE UNCHANGED recency
    /\ manifest' = [manifest EXCEPT ![r] = file = "manifest"]
    /\ UNCHANGED <<plan, size, status, warned, handle, doomed, full, log, calm>>
\* A sweep has taken the directory away, or the disk is full.
CaptureFails(r, file) ==
    /\ At(r, file, "apply") /\ Warn(r)
    /\ UNCHANGED <<plan, size, status, manifest, handle, doomed, full, snapshot, log, calm>>
CaptureSnapshot(r) ==
    \/ WriteFile(r, "before", "after") \/ WriteFile(r, "after", "manifest")
    \/ WriteFile(r, "manifest", "apply")
    \/ \E file \in Files : CaptureFails(r, file)

\* applyOrPreview and emitJSON after the snapshot.
Apply(r) ==
    /\ \/ plan[r] = "dry-run" /\ At(r, "apply", "ending") /\ UNCHANGED status
       \/ plan[r] = "apply" /\ At(r, "apply", "mark") /\ SetStatus(r, "applied")
       \/ plan[r] = "fail" /\ At(r, "apply", "ending") /\ SetDefaultStatus(r, "failed")
    /\ UNCHANGED <<plan, size, warned, manifest, handle, doomed, full, snapshot, log, calm>>

\* MarkSnapshotApplied and finalizeSnapshotActual; rewriting the manifest does
\* not change the time of the directory.
MarkSnapshotApplied(r) ==
    /\ At(r, "mark", "ending")
    /\ \/ ~manifest[r] /\ UNCHANGED <<warned, dirs>>
       \/ /\ manifest[r] /\ r \in DOMAIN dirs
          /\ dirs' = [dirs EXCEPT ![r].actual = TRUE] /\ UNCHANGED warned
       \/ manifest[r] /\ Warn(r) /\ UNCHANGED dirs
    /\ UNCHANGED <<plan, size, status, manifest, handle, doomed, full, recency, log, calm>>

(* -------------------------------- Finish -------------------------------- *)

\* Finish writes the end event; a command without a status has succeeded.
EndEvent(r) ==
    /\ \/ At(r, "ending", "end") /\ OpenLog(r) /\ SetDefaultStatus(r, "succeeded")
       \/ At(r, "end", "list") /\ WriteLog(r, Event(r, "end")) /\ UNCHANGED status
    /\ UNCHANGED calm

SumSizes == FoldFunction(+, 0, [d \in DOMAIN dirs |-> dirs[d].bytes])
\* The bytes kept and the directories removed after the first i of them.
Sweep(sorted, KeepsFirst, Allowed) ==
    LET after[i \in 0 .. Len(sorted)] ==
            IF i = 0 THEN [kept |-> 0, removed |-> <<>>]
            ELSE LET acc == after[i - 1]
                     bytes == dirs[sorted[i]].bytes
                 IN  IF i > Allowed \/ ((i > 1 \/ ~KeepsFirst) /\ acc.kept + bytes > MaxBytes)
                     THEN [acc EXCEPT !.removed = Append(@, sorted[i])]
                     ELSE [acc EXCEPT !.kept = @ + bytes]
    IN  after[Len(sorted)].removed
\* Faulty: one directory too many is allowed.
DoomedOneMore == Sweep(recency, TRUE, MaxDirs + 1)
\* Faulty: the byte cap evicts the newest directory too.
DoomedNewestToo == Sweep(recency, FALSE, MaxDirs)
\* sweepSnapshots: newest first, until a bound would be exceeded.
Doomed == Sweep(recency, TRUE, MaxDirs)

\* The sweep lists and measures the directories, then removes some one by one.
ListDirs(r) ==
    /\ At(r, "list", "remove")
    /\ doomed' = [doomed EXCEPT ![r] = Doomed]
    /\ UNCHANGED <<plan, size, status, warned, manifest, handle, full, snapshot, log, calm>>
RemoveDir(r) ==
    /\ \/ /\ At(r, "remove", "stat") /\ doomed[r] = <<>>
          /\ UNCHANGED <<snapshot, doomed>>
       \/ /\ pc[r] = "remove" /\ doomed[r] # <<>> /\ UNCHANGED pc
          /\ dirs' = [d \in DOMAIN dirs \ {Head(doomed[r])} |-> dirs[d]]
          /\ recency' = RemoveFirst(recency, Head(doomed[r]))
          /\ doomed' = [doomed EXCEPT ![r] = Tail(@)]
    /\ UNCHANGED <<plan, size, status, warned, manifest, handle, full, log, calm>>

\* rotateTelemetryLog looks at the size, then renames what is at the path by then.
StatLog(r) ==
    /\ At(r, "stat", "rotate")
    /\ full' = [full EXCEPT ![r] = current # 0 /\ ~(Cardinality(logs[current]) <= MaxLog)]
    /\ UNCHANGED <<plan, size, status, warned, manifest, handle, doomed, snapshot, log, calm>>
RotateLog(r) ==
    /\ At(r, "rotate", "done")
    /\ IF full[r] /\ current # 0 THEN previous' = current /\ current' = 0
       ELSE UNCHANGED <<current, previous>>
    /\ UNCHANGED <<own, snapshot, logs, calm>>

Kill(r) ==
    /\ r \in Running
    /\ Cardinality({k \in Recorders : pc[k] = "killed"}) < MaxKills
    /\ pc' = [pc EXCEPT ![r] = "killed"]
    /\ UNCHANGED <<own, snapshot, log, calm>>

Step(r) ==
    Start(r) \/ StartEvent(r) \/ Begin(r) \/ CaptureSnapshot(r) \/ Apply(r) \/ MarkSnapshotApplied(r)
    \/ EndEvent(r) \/ ListDirs(r) \/ RemoveDir(r) \/ StatLog(r) \/ RotateLog(r) \/ Kill(r)
Finished == (\A r \in Recorders : pc[r] \in {"done", "killed"}) /\ UNCHANGED vars
Next == (\E r \in Recorders : Step(r)) \/ Finished
Spec == Init /\ [][Next]_vars

(* ------------------------------- properties ----------------------------- *)

\* Nobody runs and nobody was killed of those that ran, or the last invocation ran by itself,
\* whatever those before it left behind.
Settled ==
    \/ (\A r \in Recorders : pc[r] \in {"idle", "done"}) /\ \E r \in Recorders : pc[r] = "done"
    \/ \E r \in calm : pc[r] = "done"

LogBounded == current # 0 => Cardinality(logs[current]) <= MaxLog

\* The sweeps and rotations of Finish, though they interleave without a lock
\* and follow invocations that were killed, leave the directory within its
\* bounds: so many snapshots, so many bytes unless the only one has more, and
\* a log that the next invocation may append to.
RetentionHolds ==
    Settled =>
        /\ Cardinality(DOMAIN dirs) <= MaxDirs
        /\ SumSizes <= MaxBytes \/ Cardinality(DOMAIN dirs) = 1
        /\ LogBounded

\* A snapshot directory with a manifest has the files the manifest names, also
\* when a sweep of another invocation removes the directory between two writes:
\* what a reader of the manifests finds is never a torn snapshot.
ManifestIsComplete ==
    \A d \in DOMAIN dirs : "manifest" \in dirs[d].files => dirs[d].files = Files

\* An invocation that no other one overlaps leaves both its events in the two
\* generations of the log, the end event telling the outcome, and the manifest
\* the event names is there: neither sweep nor rotation takes what was just
\* written.
UndisturbedIsRecorded ==
    \A r \in calm : pc[r] = "done" =>
        LET kept == UNION {logs[g] : g \in {current, previous} \ {0}}
            mine(kind) == {e \in kept : e.id = r /\ e.kind = kind}
        IN /\ mine("start") # {}
           /\ \E e \in mine("end") :
                 /\ e.status = CASE plan[r] = "info" -> "succeeded" [] plan[r] = "apply" -> "applied"
                                 [] plan[r] = "fail" -> "failed" [] OTHER -> plan[r]
                 /\ e.manifest => r \in DOMAIN dirs /\ "manifest" \in dirs[r].files
                 /\ (~e.manifest /\ plan[r] # "info") => e.warned
                 /\ (e.manifest /\ plan[r] = "apply") => (dirs[r].actual \/ e.warned)
==============================================================================
