--------------------------- MODULE TelemetryProofs ---------------------------
(* Proofs about Telemetry, for any number of invocations side by side and any *)
(* number of them killed: a manifest never names a file that is not there,    *)
(* what is left is within the bounds of the retention, and an invocation that *)
(* was alone finds its record.  What the sweep keeps is a sum that the model  *)
(* computes by recursion: what holds of it is shown with a smallest           *)
(* counterexample, among numbers or among the subsets of a finite set.        *)
EXTENDS Telemetry, FiniteSetTheorems, SequenceTheorems, NaturalsInduction, TLAPS

Early == {"opening", "start", "run", "before", "after", "manifest", "apply", "mark",
          "ending", "end", "list", "remove", "stat"}

Places ==
    /\ pc \in [Recorders -> Early \cup {"idle", "rotate", "done", "killed"}]
    /\ DOMAIN full = Recorders /\ DOMAIN handle = Recorders

(* ------------------------------- snapshots ------------------------------- *)

\* The files below a snapshot directory came in order, and a recorder that still
\* writes has written the ones before.
FilesInOrder ==
    /\ \A d \in DOMAIN dirs :
           /\ "files" \in DOMAIN dirs[d]
           /\ dirs[d].files \in {{}, {"before"}, {"before", "after"}, Files}
    /\ \A r \in Recorders : r \in DOMAIN dirs =>
           /\ pc[r] = "before" => dirs[r].files = {}
           /\ pc[r] = "after" => dirs[r].files = {"before"}
           /\ pc[r] = "manifest" => dirs[r].files = {"before", "after"}

\* Every step keeps the place of each recorder.
LEMMA StepPlaces == Places /\ [Next]_vars => Places'
<1> SUFFICES ASSUME Places, [Next]_vars PROVE Places'
    OBVIOUS
<1> USE DEF Places, Early, At, own
<1>1. ASSUME NEW r \in Recorders, Start(r) PROVE Places'
    BY <1>1 DEF Start
<1>2. ASSUME NEW r \in Recorders, StartEvent(r) PROVE Places'
    BY <1>2 DEF StartEvent, OpenLog, WriteLog
<1>3. ASSUME NEW r \in Recorders, Begin(r) PROVE Places'
    BY <1>3 DEF Begin
<1>4. ASSUME NEW r \in Recorders, CaptureSnapshot(r) PROVE Places'
    BY <1>4 DEF CaptureSnapshot, WriteFile, CaptureFails, Files
<1>5. ASSUME NEW r \in Recorders, Apply(r) PROVE Places'
    BY <1>5 DEF Apply
<1>6. ASSUME NEW r \in Recorders, MarkSnapshotApplied(r) PROVE Places'
    BY <1>6 DEF MarkSnapshotApplied
<1>7. ASSUME NEW r \in Recorders, EndEvent(r) PROVE Places'
    BY <1>7 DEF EndEvent, OpenLog, WriteLog, SetStatus, SetDefaultStatus
<1>8. ASSUME NEW r \in Recorders, ListDirs(r) PROVE Places'
    BY <1>8 DEF ListDirs
<1>9. ASSUME NEW r \in Recorders, RemoveDir(r) PROVE Places'
    BY <1>9 DEF RemoveDir
<1>10. ASSUME NEW r \in Recorders, StatLog(r) PROVE Places'
    BY <1>10 DEF StatLog
<1>11. ASSUME NEW r \in Recorders, RotateLog(r) PROVE Places'
    BY <1>11 DEF RotateLog
<1>12. ASSUME NEW r \in Recorders, Kill(r) PROVE Places'
    BY <1>12 DEF Kill, Running
<1>13. CASE UNCHANGED vars
    BY <1>13 DEF vars
<1> QED
    BY <1>1, <1>2, <1>3, <1>4, <1>5, <1>6, <1>7, <1>8, <1>9, <1>10, <1>11, <1>12, <1>13
       DEF Next, Step, Finished

\* The snapshots of earlier invocations are complete, and nobody writes yet.
LEMMA InitFilesInOrder == Init => FilesInOrder
<1> SUFFICES ASSUME Init PROVE FilesInOrder
    OBVIOUS
<1>1. PICK D \in SUBSET Earlier, n \in Sizes :
          dirs = [d \in D |-> [files |-> Files, bytes |-> 2 * n, actual |-> TRUE]]
    BY DEF Init
<1>2. \A r \in Recorders : pc[r] = "idle"
    BY DEF Init
<1> QED
    BY <1>1, <1>2 DEF FilesInOrder

\* Every step keeps the files in order: a sweep removes a directory whole, and
\* nothing but Begin makes one.
LEMMA StepFilesInOrder == Places /\ FilesInOrder /\ [Next]_vars => FilesInOrder'
<1> SUFFICES ASSUME Places, FilesInOrder, [Next]_vars PROVE FilesInOrder'
    OBVIOUS
<1> USE DEF Places, FilesInOrder, At, own, snapshot
<1>1. ASSUME NEW r \in Recorders, Start(r) PROVE FilesInOrder'
    BY <1>1 DEF Start, log
<1>2. ASSUME NEW r \in Recorders, StartEvent(r) PROVE FilesInOrder'
    BY <1>2 DEF StartEvent, OpenLog, WriteLog, log
<1>3. ASSUME NEW r \in Recorders, Begin(r) PROVE FilesInOrder'
    <2>1. CASE dirs' = dirs /\ pc' = [pc EXCEPT ![r] = "ending"]
        BY <2>1
    <2>2. CASE dirs' = Made(r) /\ pc' = [pc EXCEPT ![r] = "before"]
        <3>1. /\ DOMAIN dirs' = {r} \cup DOMAIN dirs
              /\ dirs'[r] = [files |-> {}, bytes |-> 0, actual |-> FALSE]
              /\ \A d \in DOMAIN dirs : d # r => dirs'[d] = dirs[d]
            BY <2>2 DEF Made
        <3> QED
            BY <2>2, <3>1
    <2> QED
        BY <1>3, <2>1, <2>2 DEF Begin
<1>4. ASSUME NEW r \in Recorders, CaptureSnapshot(r) PROVE FilesInOrder'
    <2>1. CASE \E file \in Files : CaptureFails(r, file)
        BY <2>1 DEF CaptureFails, Files
    <2>2. ASSUME NEW file \in Files, NEW next, WriteFile(r, file, next),
                 <<file, next>> \in {<<"before", "after">>, <<"after", "manifest">>, <<"manifest", "apply">>}
          PROVE  FilesInOrder'
        <3>1. /\ r \in DOMAIN dirs /\ pc[r] = file /\ pc' = [pc EXCEPT ![r] = next]
              /\ DOMAIN dirs' = DOMAIN dirs /\ \A d \in DOMAIN dirs : d # r => dirs'[d] = dirs[d]
              /\ "files" \in DOMAIN dirs'[r] /\ dirs'[r].files = dirs[r].files \cup {file}
            BY <2>2 DEF WriteFile, Put
        <3>2. dirs[r].files \cup {file} = CASE file = "before" -> {"before"}
                                            [] file = "after" -> {"before", "after"}
                                            [] file = "manifest" -> Files
            BY <2>2, <3>1 DEF Files
        <3> QED
            BY <2>2, <3>1, <3>2 DEF Files
    <2> QED
        BY <1>4, <2>1, <2>2 DEF CaptureSnapshot, Files
<1>5. ASSUME NEW r \in Recorders, Apply(r) PROVE FilesInOrder'
    BY <1>5 DEF Apply, log
<1>6. ASSUME NEW r \in Recorders, MarkSnapshotApplied(r) PROVE FilesInOrder'
    <2>1. /\ pc' = [pc EXCEPT ![r] = "ending"]
          /\ DOMAIN dirs' = DOMAIN dirs
          /\ \A d \in DOMAIN dirs : "files" \in DOMAIN dirs'[d] /\ dirs'[d].files = dirs[d].files
        BY <1>6 DEF MarkSnapshotApplied
    <2> QED
        BY <2>1
<1>7. ASSUME NEW r \in Recorders, EndEvent(r) PROVE FilesInOrder'
    BY <1>7 DEF EndEvent, OpenLog, WriteLog, SetStatus, SetDefaultStatus, log
<1>8. ASSUME NEW r \in Recorders, ListDirs(r) PROVE FilesInOrder'
    BY <1>8 DEF ListDirs, log
<1>9. ASSUME NEW r \in Recorders, RemoveDir(r) PROVE FilesInOrder'
    BY <1>9 DEF RemoveDir, log
<1>10. ASSUME NEW r \in Recorders, StatLog(r) PROVE FilesInOrder'
    BY <1>10 DEF StatLog, log
<1>11. ASSUME NEW r \in Recorders, RotateLog(r) PROVE FilesInOrder'
    BY <1>11 DEF RotateLog, log
<1>12. ASSUME NEW r \in Recorders, Kill(r) PROVE FilesInOrder'
    BY <1>12 DEF Kill, Running, log
<1>13. CASE UNCHANGED vars
    BY <1>13 DEF vars, log
<1> QED
    BY <1>1, <1>2, <1>3, <1>4, <1>5, <1>6, <1>7, <1>8, <1>9, <1>10, <1>11, <1>12, <1>13
       DEF Next, Step, Finished

\* A snapshot directory with a manifest has the files the manifest names,
\* whatever sweeps of other invocations did between its writes.
THEOREM ManifestsAreComplete == Spec => []ManifestIsComplete
<1>1. Init => Places
    BY DEF Init, Places, Early
<1>2. FilesInOrder => ManifestIsComplete
    <2> SUFFICES ASSUME FilesInOrder, NEW d \in DOMAIN dirs, "manifest" \in dirs[d].files
                 PROVE  dirs[d].files = Files
        BY DEF ManifestIsComplete
    <2>1. "manifest" \notin {} /\ "manifest" \notin {"before"} /\ "manifest" \notin {"before", "after"}
        OBVIOUS
    <2> QED
        BY <2>1 DEF FilesInOrder
<1> QED
    BY <1>1, <1>2, InitFilesInOrder, StepFilesInOrder, StepPlaces, PTL DEF Spec

(* -------------------------------- the log -------------------------------- *)

\* r has not looked at the size of the log yet, or has seen that it is to be rotated.
WillRotate(r) == pc[r] \in Early \/ (pc[r] = "rotate" /\ full[r])

\* A log that has grown too long has somebody who will rotate it, unless nobody
\* ran yet or somebody was killed; the one that has been alone does so itself.
LogInHand ==
    /\ \/ LogBounded
       \/ \E r \in Recorders : WillRotate(r) \/ pc[r] = "killed"
       \/ \A r \in Recorders : pc[r] = "idle"
    /\ calm = {} \/ \E r \in Recorders : calm = {r}
    /\ \A r \in calm :
           /\ pc[r] # "idle" /\ (pc[r] = "killed" \/ LogBounded \/ WillRotate(r))
           /\ \A o \in Recorders : o # r => o \notin Running

\* An invocation that starts has the rotation of the log before it.
LEMMA StartsAreEarly ==
    ASSUME Places, LogInHand, NEW r \in Recorders, Start(r)
    PROVE  LogInHand'
<1>1. /\ pc[r] = "idle" /\ pc' = [pc EXCEPT ![r] = "opening"]
      /\ calm' = IF Running = {} THEN {r} ELSE {}
      /\ full' = full /\ logs' = logs /\ current' = current
    BY DEF Start, At, own, log
<1>2. pc'[r] = "opening" /\ \A o \in Recorders : o # r => pc'[o] = pc[o]
    BY <1>1 DEF Places
<1>3. WillRotate(r)'
    BY <1>2 DEF WillRotate, Early
<1>4. Running = {} => \A o \in Recorders : o # r => o \notin Running'
    BY <1>2 DEF Running
<1> QED
    BY <1>1, <1>2, <1>3, <1>4 DEF LogInHand

\* A step of r before and after which it has yet to look at the size of the log.
StaysEarly(r) ==
    \E place \in Early :
        pc[r] \in Early /\ pc' = [pc EXCEPT ![r] = place] /\ calm' = calm /\ full' = full

\* Such a step leaves the log in hand.
LEMMA EarlyStep ==
    ASSUME Places, LogInHand, NEW r \in Recorders, StaysEarly(r)
    PROVE  LogInHand'
<1>0. PICK place \in Early :
          pc[r] \in Early /\ pc' = [pc EXCEPT ![r] = place] /\ calm' = calm /\ full' = full
    BY DEF StaysEarly
<1>1. pc'[r] = place /\ \A o \in Recorders : o # r => pc'[o] = pc[o]
    BY <1>0 DEF Places
<1>2. WillRotate(r) /\ WillRotate(r)' /\ r \in Running /\ r \in Running'
    BY <1>0, <1>1 DEF WillRotate, Running, Early
<1>3. \A o \in calm : o = r
    BY <1>2 DEF LogInHand
<1>4. \A o \in Recorders : o # r => (o \in Running <=> o \in Running')
    BY <1>1 DEF Running
<1>5. place # "idle" /\ place # "killed"
    BY <1>0 DEF Early
<1> QED
    BY <1>0, <1>1, <1>2, <1>3, <1>4, <1>5 DEF LogInHand

\* Every step leaves the log in hand within its bounds.
LEMMA StepLogInHand == Places /\ LogInHand /\ [Next]_vars => LogInHand'
<1> SUFFICES ASSUME Places, LogInHand, [Next]_vars PROVE LogInHand'
    OBVIOUS
<1>1. ASSUME NEW r \in Recorders, Start(r) PROVE LogInHand'
    BY <1>1, StartsAreEarly
<1>2. ASSUME NEW r \in Recorders, StartEvent(r) PROVE LogInHand'
    <2>1. StaysEarly(r)
        BY <1>2 DEF StaysEarly, StartEvent, OpenLog, WriteLog, At, Early
    <2> QED
        BY <2>1, EarlyStep
<1>3. ASSUME NEW r \in Recorders, Begin(r) PROVE LogInHand'
    <2>1. StaysEarly(r)
        BY <1>3 DEF StaysEarly, Begin, At, Early
    <2> QED
        BY <2>1, EarlyStep
<1>4. ASSUME NEW r \in Recorders, CaptureSnapshot(r) PROVE LogInHand'
    <2>1. StaysEarly(r)
        BY <1>4 DEF StaysEarly, CaptureSnapshot, WriteFile, CaptureFails, At, Early, Files
    <2> QED
        BY <2>1, EarlyStep
<1>5. ASSUME NEW r \in Recorders, Apply(r) PROVE LogInHand'
    <2>1. StaysEarly(r)
        BY <1>5 DEF StaysEarly, Apply, At, Early
    <2> QED
        BY <2>1, EarlyStep
<1>6. ASSUME NEW r \in Recorders, MarkSnapshotApplied(r) PROVE LogInHand'
    <2>1. StaysEarly(r)
        BY <1>6 DEF StaysEarly, MarkSnapshotApplied, At, Early
    <2> QED
        BY <2>1, EarlyStep
<1>7. ASSUME NEW r \in Recorders, EndEvent(r) PROVE LogInHand'
    <2>1. StaysEarly(r)
        BY <1>7 DEF StaysEarly, EndEvent, OpenLog, WriteLog, At, Early
    <2> QED
        BY <2>1, EarlyStep
<1>8. ASSUME NEW r \in Recorders, ListDirs(r) PROVE LogInHand'
    <2>1. StaysEarly(r)
        BY <1>8 DEF StaysEarly, ListDirs, At, Early
    <2> QED
        BY <2>1, EarlyStep
<1>9. ASSUME NEW r \in Recorders, RemoveDir(r) PROVE LogInHand'
    <2>1. CASE At(r, "remove", "stat")
        <3>1. StaysEarly(r)
            BY <1>9, <2>1 DEF StaysEarly, RemoveDir, At, Early
        <3> QED
            BY <3>1, EarlyStep
    <2>2. CASE UNCHANGED pc
        BY <1>9, <2>2 DEF RemoveDir, LogInHand, LogBounded, WillRotate, Running, log
    <2> QED
        BY <1>9, <2>1, <2>2 DEF RemoveDir
<1>10. ASSUME NEW r \in Recorders, StatLog(r) PROVE LogInHand'
    <2>1. /\ pc[r] = "stat" /\ pc' = [pc EXCEPT ![r] = "rotate"] /\ calm' = calm
          /\ full' = [full EXCEPT ![r] = current # 0 /\ ~(Cardinality(logs[current]) <= MaxLog)]
          /\ logs' = logs /\ current' = current
        BY <1>10 DEF StatLog, At, log
    <2>2. pc'[r] = "rotate" /\ \A o \in Recorders : o # r => pc'[o] = pc[o] /\ full'[o] = full[o]
        BY <2>1 DEF Places
    <2>3. LogBounded' <=> LogBounded
        BY <2>1 DEF LogBounded
    <2>4. LogBounded \/ WillRotate(r)'
        <3>1. full'[r] <=> ~LogBounded
            BY <2>1 DEF LogBounded, Places
        <3> QED
            BY <3>1, <2>2 DEF WillRotate
    <2>5. r \in Running
        BY <2>1 DEF Running
    <2>6. \A o \in calm : o = r
        BY <2>5 DEF LogInHand
    <2>7. \A o \in Recorders : o # r => (o \in Running <=> o \in Running')
        BY <2>2 DEF Running
    <2> QED
        BY <2>1, <2>2, <2>3, <2>4, <2>6, <2>7 DEF LogInHand
<1>11. ASSUME NEW r \in Recorders, RotateLog(r) PROVE LogInHand'
    <2>1. /\ pc[r] = "rotate" /\ pc' = [pc EXCEPT ![r] = "done"] /\ calm' = calm /\ full' = full
          /\ logs' = logs
          /\ IF full[r] /\ current # 0 THEN current' = 0 ELSE current' = current
        BY <1>11 DEF RotateLog, At, own
    <2>2. pc'[r] = "done" /\ \A o \in Recorders : o # r => pc'[o] = pc[o]
        BY <2>1 DEF Places
    <2>3. r \in Running
        BY <2>1 DEF Running
    <2>4. \A o \in calm : o = r
        BY <2>3 DEF LogInHand
    <2>5. \A o \in Recorders : o # r => (o \in Running <=> o \in Running')
        BY <2>2 DEF Running
    <2>6. \A o \in Recorders : o # r => (WillRotate(o) <=> WillRotate(o)')
        BY <2>1, <2>2 DEF WillRotate
    <2>7. CASE full[r]
        <3>1. current' = 0
            BY <2>1, <2>7
        <3>2. LogBounded'
            BY <3>1 DEF LogBounded
        <3> QED
            BY <3>2, <2>1, <2>2, <2>4, <2>5 DEF LogInHand
    <2>8. CASE ~full[r]
        <3>1. LogBounded' <=> LogBounded
            BY <2>1, <2>8 DEF LogBounded
        <3>2. ~WillRotate(r) /\ pc[r] # "killed" /\ pc[r] # "idle"
            BY <2>1, <2>8 DEF WillRotate, Early
        <3> QED
            BY <3>1, <3>2, <2>1, <2>2, <2>4, <2>5, <2>6 DEF LogInHand
    <2> QED
        BY <2>7, <2>8
<1>12. ASSUME NEW r \in Recorders, Kill(r) PROVE LogInHand'
    <2>1. r \in Running /\ pc' = [pc EXCEPT ![r] = "killed"] /\ calm' = calm
        BY <1>12 DEF Kill
    <2>2. pc'[r] = "killed" /\ \A o \in Recorders : o # r => pc'[o] = pc[o]
        BY <2>1 DEF Places
    <2>3. \A o \in calm : o = r
        BY <2>1 DEF LogInHand
    <2>4. \A o \in Recorders : o # r => (o \in Running <=> o \in Running')
        BY <2>2 DEF Running
    <2> QED
        BY <2>1, <2>2, <2>3, <2>4 DEF LogInHand
<1>13. CASE UNCHANGED vars
    BY <1>13 DEF vars, own, log, LogInHand, LogBounded, WillRotate, Running
<1> QED
    BY <1>1, <1>2, <1>3, <1>4, <1>5, <1>6, <1>7, <1>8, <1>9, <1>10, <1>11, <1>12, <1>13
       DEF Next, Step, Finished

\* Once nobody runs and nobody was killed, or after an invocation that was
\* alone, the next one may append to the log, however the looks at its size and
\* the renames interleaved.
THEOREM LogIsRotated == Spec => [](Settled => LogBounded)
<1>1. Init => Places
    BY DEF Init, Places, Early
<1>2. Init => LogInHand
    BY DEF Init, LogInHand
<1>3. Places /\ LogInHand /\ Settled => LogBounded
    <2> SUFFICES ASSUME Places, LogInHand, Settled PROVE LogBounded
        OBVIOUS
    <2>1. \A r \in Recorders : pc[r] = "done" => ~WillRotate(r)
        BY DEF WillRotate, Early
    <2>2. \A r \in Recorders : pc[r] = "idle" => ~WillRotate(r)
        BY DEF WillRotate, Early
    <2>3. CASE (\A r \in Recorders : pc[r] \in {"idle", "done"}) /\ \E r \in Recorders : pc[r] = "done"
        BY <2>1, <2>2, <2>3 DEF LogInHand
    <2>4. CASE \E r \in calm : pc[r] = "done"
        BY <2>1, <2>4 DEF LogInHand
    <2> QED
        BY <2>3, <2>4 DEF Settled
<1> QED
    BY <1>1, <1>2, <1>3, StepPlaces, StepLogInHand, PTL DEF Spec

(* ------------------------------ sums over sets --------------------------- *)

\* A set of naturals that is not empty has a least element.
LEMMA LeastNat ==
    ASSUME NEW T \in SUBSET Nat, T # {}
    PROVE  \E x \in T : \A y \in T : x <= y
<1> DEFINE R == {ss \in Nat \X Nat : ss[1] < ss[2]}
<1>1. IsWellFoundedOn(R, Nat)
    BY NatLessThanWellFounded DEF OpToRel
<1> HIDE DEF R
<1>2. PICK x \in T : \A y \in T : ~(<<y, x>> \in R)
    BY <1>1, WFMin
<1>3. ASSUME NEW y \in T PROVE x <= y
    <2>1. ~(y < x)
        BY <1>2 DEF R
    <2> QED
        BY <2>1
<1> QED
    BY <1>3

\* Among the subsets of a finite set there is a smallest one with any property.
LEMMA SmallestSet ==
    ASSUME NEW S, IsFiniteSet(S), NEW X \in SUBSET (SUBSET S), X # {}
    PROVE  \E T \in X : \A U \in X : U \subseteq T => U = T
<1>1. X \subseteq FiniteSubsetsOf(S)
    BY FS_FiniteSubsetsOfFinite
<1>2. IsWellFoundedOn(StrictSubsetOrdering(S), FiniteSubsetsOf(S))
    BY FS_StrictSubsetOrderingWellFounded
<1>3. PICK T \in X : \A U \in X : ~(<<U, T>> \in StrictSubsetOrdering(S))
    BY <1>1, <1>2, WFMin
<1>4. ASSUME NEW U \in X, U \subseteq T PROVE U = T
    <2>1. <<U, T>> \in StrictSubsetOrdering(S) \/ U = T
        BY <1>4 DEF StrictSubsetOrdering
    <2> QED
        BY <2>1, <1>3
<1> QED
    BY <1>4

\* The element of T that is added last.
Chosen(T) == CHOOSE x \in T : TRUE
\* g adds up the values of f over the subsets of S, element by element.
Adds(g, S, f) == g = [T \in SUBSET S |-> IF T = {} THEN 0 ELSE f[Chosen(T)] + g[T \ {Chosen(T)}]]
Total(f, S) == FoldFunctionOnSet(+, 0, f, S)

\* Every element of a set may be taken for the last one.
AnyLast(g, S, f) ==
    \A T \in SUBSET S : g[T] \in Nat /\ \A x \in T : g[T] = f[x] + g[T \ {x}]

\* There is such a g: it can be had for the subsets of k elements, for every k.
LEMMA AddsExists ==
    ASSUME NEW S, IsFiniteSet(S), NEW f
    PROVE  \E g : Adds(g, S, f)
<1> DEFINE Eq(g, T) == g[T] = IF T = {} THEN 0 ELSE f[Chosen(T)] + g[T \ {Chosen(T)}]
           UpTo(g, k) == /\ g = [T \in SUBSET S |-> g[T]]
                         /\ \A T \in SUBSET S : Cardinality(T) <= k => Eq(g, T)
           Bad == {k \in Nat : ~\E g : UpTo(g, k)}
<1>1. \A T \in SUBSET S : /\ IsFiniteSet(T) /\ Cardinality(T) \in Nat
                          /\ Cardinality(T) <= Cardinality(S)
                          /\ Cardinality(T) = 0 <=> T = {}
    BY FS_Subset, FS_CardinalityType, FS_EmptySet
<1>2. \A T \in SUBSET S : T # {} => /\ Chosen(T) \in T /\ T \ {Chosen(T)} \in SUBSET S
                                    /\ Cardinality(T \ {Chosen(T)}) = Cardinality(T) - 1
    BY <1>1, FS_RemoveElement DEF Chosen
<1>3. Cardinality(S) \in Nat
    BY FS_CardinalityType
<1>4. UpTo([T \in SUBSET S |-> 0], 0)
    <2>1. ASSUME NEW T \in SUBSET S, Cardinality(T) <= 0 PROVE T = {}
        BY <1>1, <2>1
    <2> QED
        BY <2>1
<1>5. ASSUME NEW k \in Nat, k # 0, NEW g, UpTo(g, k - 1)
      PROVE  \E h : UpTo(h, k)
    <2> DEFINE h == [T \in SUBSET S |->
                        IF Cardinality(T) < k THEN g[T]
                        ELSE IF T = {} THEN 0 ELSE f[Chosen(T)] + g[T \ {Chosen(T)}]]
    <2>1. h = [T \in SUBSET S |-> h[T]]
        OBVIOUS
    <2>2. \A T \in SUBSET S : h[T] = IF Cardinality(T) < k THEN g[T]
                                     ELSE IF T = {} THEN 0 ELSE f[Chosen(T)] + g[T \ {Chosen(T)}]
        OBVIOUS
    <2> HIDE DEF h
    <2>3. ASSUME NEW T \in SUBSET S, Cardinality(T) <= k
          PROVE  Eq(h, T)
        <3>1. h[T] = IF T = {} THEN 0 ELSE f[Chosen(T)] + g[T \ {Chosen(T)}]
            <4>1. CASE Cardinality(T) < k
                <5>1. Cardinality(T) <= k - 1
                    BY <4>1, <1>1
                <5> QED
                    BY <5>1, <4>1, <2>2, <1>5
            <4>2. CASE ~(Cardinality(T) < k)
                BY <4>2, <2>2
            <4> QED
                BY <4>1, <4>2
        <3>2. T # {} => h[T \ {Chosen(T)}] = g[T \ {Chosen(T)}]
            <4> SUFFICES ASSUME T # {} PROVE h[T \ {Chosen(T)}] = g[T \ {Chosen(T)}]
                OBVIOUS
            <4>1. T \ {Chosen(T)} \in SUBSET S /\ Cardinality(T \ {Chosen(T)}) = Cardinality(T) - 1
                BY <1>2
            <4>2. Cardinality(T \ {Chosen(T)}) < k
                BY <4>1, <2>3, <1>1
            <4> QED
                BY <4>1, <4>2, <2>2
        <3> QED
            BY <3>1, <3>2
    <2>4. UpTo(h, k)
        BY <2>1, <2>3
    <2> QED
        BY <2>4
<1> HIDE DEF UpTo
<1>6. Bad = {}
    <2> SUFFICES ASSUME Bad # {} PROVE FALSE
        OBVIOUS
    <2>1. PICK k \in Bad : \A y \in Bad : k <= y
        BY LeastNat
    <2>2. k \in Nat /\ k # 0 /\ k - 1 \in Nat /\ ~(k <= k - 1)
        BY <2>1, <1>4
    <2>3. \E g : UpTo(g, k - 1)
        BY <2>1, <2>2
    <2> QED
        BY <2>1, <2>2, <2>3, <1>5
<1>7. PICK g : UpTo(g, Cardinality(S))
    BY <1>6, <1>3
<1>8. \A T \in SUBSET S : Eq(g, T)
    BY <1>7, <1>1 DEF UpTo
<1>9. g = [T \in SUBSET S |-> g[T]]
    BY <1>7 DEF UpTo
<1> QED
    BY <1>8, <1>9 DEF Adds

\* The total of f over S is what such a function says of S.
LEMMA TotalIsAdded ==
    ASSUME NEW S, IsFiniteSet(S), NEW f
    PROVE  \E g : Adds(g, S, f) /\ Total(f, S) = g[S]
<1> DEFINE g == CHOOSE g : Adds(g, S, f)
<1>1. Total(f, S) = g[S]
    BY DEF Total, FoldFunctionOnSet, MapThenFoldSet, Adds, Chosen
<1>2. Adds(g, S, f)
    BY AddsExists
<1> QED
    BY <1>1, <1>2

\* Every element may be taken for the last one.
LEMMA AddsAnyLast ==
    ASSUME NEW S, IsFiniteSet(S), NEW f, \A x \in S : f[x] \in Nat, NEW g, Adds(g, S, f)
    PROVE  AnyLast(g, S, f)
<1> DEFINE Good(T) == g[T] \in Nat /\ \A x \in T : g[T] = f[x] + g[T \ {x}]
           Bad == {T \in SUBSET S : ~Good(T)}
<1> SUFFICES ASSUME Bad # {} PROVE FALSE
    BY DEF AnyLast
<1> HIDE DEF Good
<1>0. Bad \in SUBSET (SUBSET S)
    OBVIOUS
<1> HIDE DEF Bad
<1>1. PICK T \in Bad : \A U \in Bad : U \subseteq T => U = T
    BY <1>0, SmallestSet
<1> USE DEF Bad
<1>2. T \in SUBSET S /\ ~Good(T)
    BY <1>1
<1>3. \A x \in T : T \ {x} \in SUBSET S /\ T \ {x} \subseteq T /\ T \ {x} # T
    BY <1>2
<1>4. \A x \in T : Good(T \ {x})
    BY <1>1, <1>3
<1>5. T # {}
    <2>1. g[{}] = 0
        BY DEF Adds
    <2> QED
        BY <2>1, <1>2 DEF Good
<1> DEFINE c == Chosen(T)
<1>6. c \in T /\ c \in S
    BY <1>5, <1>2 DEF Chosen
<1>7. g[T] = f[c] + g[T \ {c}]
    BY <1>2, <1>5 DEF Adds
<1> HIDE DEF c
<1>8. g[T] \in Nat
    <2>1. f[c] \in Nat /\ g[T \ {c}] \in Nat
        BY <1>4, <1>6 DEF Good
    <2> QED
        BY <2>1, <1>7
<1>9. ASSUME NEW x \in T PROVE g[T] = f[x] + g[T \ {x}]
    <2>1. CASE x = c
        BY <2>1, <1>7
    <2>2. CASE x # c
        <3>1. g[T \ {c}] = f[x] + g[(T \ {c}) \ {x}]
            BY <2>2, <1>4, <1>6 DEF Good
        <3>2. g[T \ {x}] = f[c] + g[(T \ {x}) \ {c}]
            BY <2>2, <1>4, <1>6 DEF Good
        <3>3. (T \ {c}) \ {x} = (T \ {x}) \ {c}
            OBVIOUS
        <3>4. f[x] \in Nat /\ f[c] \in Nat /\ g[T \ {c}] \in Nat /\ g[T \ {x}] \in Nat
            BY <1>2, <1>4, <1>6 DEF Good
        <3>5. (T \ {c}) \ {x} \in SUBSET S /\ (T \ {c}) \ {x} \subseteq T /\ (T \ {c}) \ {x} # T
            BY <1>2, <1>6
        <3>6. Good((T \ {c}) \ {x})
            BY <3>5, <1>1
        <3>7. g[(T \ {c}) \ {x}] \in Nat
            BY <3>6 DEF Good
        <3>8. g[(T \ {c}) \ {x}] = g[(T \ {x}) \ {c}]
            BY <3>3
        <3> DEFINE r == g[(T \ {c}) \ {x}]
        <3>9. r \in Nat /\ g[T \ {c}] = f[x] + r /\ g[T \ {x}] = f[c] + r
            BY <3>1, <3>2, <3>7, <3>8
        <3> HIDE DEF r
        <3> QED
            BY <3>4, <3>9, <1>7
    <2> QED
        BY <2>1, <2>2
<1> QED
    BY <1>2, <1>8, <1>9 DEF Good, AnyLast

\* Two sums over a set that both range over agree when the values do.
LEMMA AddsAgree ==
    ASSUME NEW S, IsFiniteSet(S), NEW f, NEW g, Adds(g, S, f),
           NEW U, NEW e, NEW h, Adds(h, U, e),
           NEW T, T \subseteq S, T \subseteq U, \A x \in T : f[x] = e[x]
    PROVE  g[T] = h[T]
<1> DEFINE Bad == {V \in SUBSET T : g[V] # h[V]}
<1> SUFFICES ASSUME Bad # {} PROVE FALSE
    OBVIOUS
<1>1. IsFiniteSet(T) /\ Bad \in SUBSET (SUBSET T)
    BY FS_Subset
<1> HIDE DEF Bad
<1>2. PICK V \in Bad : \A W \in Bad : W \subseteq V => W = V
    BY <1>1, SmallestSet
<1> USE DEF Bad
<1>3. V \in SUBSET S /\ V \in SUBSET U /\ V \subseteq T /\ g[V] # h[V]
    BY <1>2
<1>4. CASE V = {}
    BY <1>3, <1>4 DEF Adds
<1>5. CASE V # {}
    <2>1. Chosen(V) \in V
        BY <1>5 DEF Chosen
    <2>2. V \ {Chosen(V)} \subseteq V /\ V \ {Chosen(V)} # V /\ V \ {Chosen(V)} \in SUBSET T
        BY <2>1, <1>3
    <2>3. g[V \ {Chosen(V)}] = h[V \ {Chosen(V)}]
        BY <2>2, <1>2
    <2>4. /\ g[V] = f[Chosen(V)] + g[V \ {Chosen(V)}]
          /\ h[V] = e[Chosen(V)] + h[V \ {Chosen(V)}]
        BY <1>3, <1>5 DEF Adds
    <2> QED
        BY <2>1, <2>3, <2>4, <1>3
<1> QED
    BY <1>4, <1>5

\* The total of nothing is 0, and any element may be taken out of a total.
LEMMA TotalMeans ==
    ASSUME NEW S, IsFiniteSet(S), NEW f, \A x \in S : f[x] \in Nat
    PROVE  /\ Total(f, {}) = 0
           /\ Total(f, S) \in Nat
           /\ \A x \in S : Total(f, S) = f[x] + Total(f, S \ {x})
<1>1. PICK g : Adds(g, S, f) /\ Total(f, S) = g[S]
    BY TotalIsAdded
<1>2. ASSUME NEW T \in SUBSET S PROVE Total(f, T) = g[T]
    <2>1. IsFiniteSet(T)
        BY FS_Subset
    <2>2. PICK h : Adds(h, T, f) /\ Total(f, T) = h[T]
        BY <2>1, TotalIsAdded
    <2>3. h[T] = g[T]
        BY <1>1, <2>1, <2>2, AddsAgree
    <2> QED
        BY <2>2, <2>3
<1>3. g[{}] = 0
    BY <1>1 DEF Adds
<1>4. g[S] \in Nat /\ \A x \in S : g[S] = f[x] + g[S \ {x}]
    <2>1. AnyLast(g, S, f)
        BY <1>1, AddsAnyLast
    <2> QED
        BY <2>1 DEF AnyLast
<1>5. Total(f, {}) = g[{}] /\ \A x \in S : Total(f, S \ {x}) = g[S \ {x}]
    BY <1>2
<1> QED
    BY <1>1, <1>3, <1>4, <1>5

\* The total depends on the values of the elements only.
LEMMA TotalAgrees ==
    ASSUME NEW S, IsFiniteSet(S), NEW f, NEW e, \A x \in S : f[x] = e[x]
    PROVE  Total(f, S) = Total(e, S)
<1>1. PICK g : Adds(g, S, f) /\ Total(f, S) = g[S]
    BY TotalIsAdded
<1>2. PICK h : Adds(h, S, e) /\ Total(e, S) = h[S]
    BY TotalIsAdded
<1> QED
    BY <1>1, <1>2, AddsAgree

\* A part of a set has no greater total.
LEMMA TotalGrows ==
    ASSUME NEW S, IsFiniteSet(S), NEW f, \A x \in S : f[x] \in Nat, NEW T \in SUBSET S
    PROVE  Total(f, T) <= Total(f, S)
<1> DEFINE Bad == {U \in SUBSET S : T \subseteq U /\ ~(Total(f, T) <= Total(f, U))}
<1> SUFFICES ASSUME Bad # {} PROVE FALSE
    BY DEF Bad
<1>1. Bad \in SUBSET (SUBSET S)
    OBVIOUS
<1> HIDE DEF Bad
<1>2. PICK U \in Bad : \A W \in Bad : W \subseteq U => W = U
    BY <1>1, SmallestSet
<1> USE DEF Bad
<1>3. U \in SUBSET S /\ T \subseteq U /\ ~(Total(f, T) <= Total(f, U))
    BY <1>2
<1>4. IsFiniteSet(T) /\ IsFiniteSet(U)
    BY <1>3, FS_Subset
<1>5. Total(f, T) \in Nat /\ Total(f, U) \in Nat
    BY <1>3, <1>4, TotalMeans
<1>6. CASE U = T
    BY <1>3, <1>5, <1>6
<1>7. CASE U # T
    <2>1. PICK x \in U : x \notin T
        BY <1>3, <1>7
    <2>2. U \ {x} \in SUBSET S /\ T \subseteq U \ {x} /\ U \ {x} \subseteq U /\ U \ {x} # U
        BY <1>3, <2>1
    <2>3. Total(f, T) <= Total(f, U \ {x})
        BY <1>2, <2>2
    <2>4. Total(f, U) = f[x] + Total(f, U \ {x}) /\ f[x] \in Nat
        BY <1>3, <1>4, <2>1, TotalMeans
    <2>5. Total(f, U \ {x}) \in Nat
        BY <2>2, FS_Subset, TotalMeans
    <2> QED
        BY <2>3, <2>4, <2>5, <1>3, <1>5
<1> QED
    BY <1>6, <1>7

(* ------------------------- the directories in order ---------------------- *)

\* s lists the elements of D, each of them once.
Ordered(s, D) ==
    /\ s \in Seq(D)
    /\ \A d \in D : \E m \in 1 .. Len(s) : s[m] = d
    /\ \A m, n \in 1 .. Len(s) : s[m] = s[n] => m = n

\* Taking one out leaves the order of the others.
LEMMA RemoveFirstMeans ==
    ASSUME NEW D, NEW s, Ordered(s, D), NEW e
    PROVE  Ordered(RemoveFirst(s, e), D \ {e})
<1>1. s \in Seq(D) /\ Len(s) \in Nat
    BY DEF Ordered
<1>2. CASE ~\E i \in 1 .. Len(s) : s[i] = e
    <2>1. RemoveFirst(s, e) = s
        BY <1>2 DEF RemoveFirst
    <2>2. D \ {e} = D
        BY <1>2 DEF Ordered
    <2> QED
        BY <2>1, <2>2
<1>3. ASSUME NEW k \in 1 .. Len(s), s[k] = e
      PROVE  Ordered(RemoveFirst(s, e), D \ {e})
    <2>1. {i \in 1 .. Len(s) : s[i] = e} = {k}
        BY <1>3 DEF Ordered
    <2>2. Min({k}) = k
        BY DEF Min
    <2> DEFINE p == SubSeq(s, 1, k - 1)
               q == SubSeq(s, k + 1, Len(s))
               t == p \o q
    <2>3. RemoveFirst(s, e) = t
        BY <1>3, <2>1, <2>2 DEF RemoveFirst, SelectInSeq, RemoveAt
    <2>4. /\ p \in Seq(D) /\ Len(p) = k - 1 /\ \A i \in 1 .. k - 1 : p[i] = s[i]
          /\ q \in Seq(D) /\ Len(q) = Len(s) - k /\ \A i \in 1 .. Len(s) - k : q[i] = s[k + i]
        BY <1>1, <1>3
    <2> HIDE DEF p, q
    <2>5. /\ t \in Seq(D) /\ Len(t) = Len(p) + Len(q)
          /\ \A i \in 1 .. Len(p) + Len(q) : t[i] = IF i <= Len(p) THEN p[i] ELSE q[i - Len(p)]
        BY <2>4, ConcatProperties
    <2> HIDE DEF t
    <2>5a. Len(t) = Len(s) - 1
        BY <2>4, <2>5, <1>1, <1>3
    <2>6. ASSUME NEW i \in 1 .. Len(s) - 1 PROVE t[i] = IF i < k THEN s[i] ELSE s[i + 1]
        <3>1. i \in 1 .. Len(p) + Len(q)
            BY <2>4, <1>1, <1>3
        <3>2. CASE i < k
            <4>1. i <= Len(p) /\ i \in 1 .. k - 1
                BY <3>2, <2>4, <1>3
            <4> QED
                BY <4>1, <3>1, <3>2, <2>4, <2>5
        <3>3. CASE ~(i < k)
            <4>1. ~(i <= Len(p)) /\ i - Len(p) \in 1 .. Len(s) - k /\ k + (i - Len(p)) = i + 1
                BY <3>3, <2>4, <1>1, <1>3
            <4> QED
                BY <4>1, <3>1, <3>3, <2>4, <2>5
        <3> QED
            BY <3>2, <3>3
    <2>7. \A i \in 1 .. Len(t) : t[i] \in D \ {e}
        <3> SUFFICES ASSUME NEW i \in 1 .. Len(t) PROVE t[i] \in D \ {e}
            OBVIOUS
        <3>1. i \in 1 .. Len(s) /\ i + 1 \in 1 .. Len(s) /\ (i < k => i # k) /\ (~(i < k) => i + 1 # k)
            BY <1>1, <1>3, <2>5a
        <3>2. s[i] \in D /\ s[i + 1] \in D
            BY <1>1, <3>1
        <3>3. (i < k => s[i] # e) /\ (~(i < k) => s[i + 1] # e)
            BY <3>1, <1>3 DEF Ordered
        <3> QED
            BY <2>5a, <2>6, <3>2, <3>3
    <2>8. t \in Seq(D \ {e})
        <3>1. t \in [1 .. Len(t) -> D] /\ Len(t) \in Nat
            BY <2>5, LenProperties
        <3>2. t \in [1 .. Len(t) -> D \ {e}]
            BY <3>1, <2>7
        <3> QED
            BY <3>1, <3>2, SeqDef
    <2>9. ASSUME NEW d \in D \ {e} PROVE \E i \in 1 .. Len(t) : t[i] = d
        <3>1. PICK m \in 1 .. Len(s) : s[m] = d
            BY <2>9 DEF Ordered
        <3>2. m # k
            BY <3>1, <2>9, <1>3
        <3>3. CASE m < k
            <4>1. m \in 1 .. Len(t)
                BY <3>3, <1>1, <1>3, <2>5a
            <4> QED
                BY <4>1, <3>1, <3>3, <2>5a, <2>6
        <3>4. CASE k < m
            <4>1. m - 1 \in 1 .. Len(t) /\ ~(m - 1 < k) /\ (m - 1) + 1 = m
                BY <3>4, <1>1, <1>3, <2>5a
            <4> QED
                BY <4>1, <3>1, <2>5a, <2>6
        <3> QED
            BY <3>2, <3>3, <3>4, <1>1, <1>3
    <2>10. ASSUME NEW m \in 1 .. Len(t), NEW n \in 1 .. Len(t), t[m] = t[n] PROVE m = n
        <3>1. /\ m \in 1 .. Len(s) /\ m + 1 \in 1 .. Len(s)
              /\ n \in 1 .. Len(s) /\ n + 1 \in 1 .. Len(s)
            BY <1>1, <2>5a
        <3>2. /\ t[m] = IF m < k THEN s[m] ELSE s[m + 1]
              /\ t[n] = IF n < k THEN s[n] ELSE s[n + 1]
            BY <2>5a, <2>6
        <3>3. \A i, h \in 1 .. Len(s) : s[i] = s[h] => i = h
            BY DEF Ordered
        <3>4. CASE m < k /\ n < k
            BY <3>1, <3>2, <3>3, <3>4, <2>10
        <3>5. CASE m < k /\ ~(n < k)
            <4>1. m = n + 1
                BY <3>1, <3>2, <3>3, <3>5, <2>10
            <4> QED
                BY <4>1, <3>5, <1>3
        <3>6. CASE ~(m < k) /\ n < k
            <4>1. m + 1 = n
                BY <3>1, <3>2, <3>3, <3>6, <2>10
            <4> QED
                BY <4>1, <3>6, <1>3
        <3>7. CASE ~(m < k) /\ ~(n < k)
            <4>1. m + 1 = n + 1
                BY <3>1, <3>2, <3>3, <3>7, <2>10
            <4> QED
                BY <4>1
        <3> QED
            BY <3>4, <3>5, <3>6, <3>7
    <2> QED
        BY <2>3, <2>8, <2>9, <2>10 DEF Ordered
<1> QED
    BY <1>2, <1>3

\* What has just been modified comes first.
LEMMA FrontOrdered ==
    ASSUME NEW D, NEW s, NEW r, Ordered(s, D \ {r})
    PROVE  Ordered(<<r>> \o s, D \cup {r}) /\ (<<r>> \o s)[1] = r /\ Len(<<r>> \o s) \in Nat \ {0}
<1> DEFINE t == <<r>> \o s
<1>1. s \in Seq(D \ {r}) /\ Len(s) \in Nat
    BY DEF Ordered
<1>2. s \in Seq(D \cup {r}) /\ <<r>> \in Seq(D \cup {r}) /\ Len(<<r>>) = 1 /\ <<r>>[1] = r
    BY <1>1
<1>3. t \in Seq(D \cup {r}) /\ Len(t) = Len(s) + 1 /\ t[1] = r
    BY <1>1, <1>2
<1>4. \A i \in 1 .. Len(s) : t[i + 1] = s[i]
    BY <1>1, <1>2
<1> HIDE DEF t
<1>5. \A i \in 2 .. Len(t) : i - 1 \in 1 .. Len(s) /\ t[i] = s[i - 1] /\ t[i] # r
    <2> SUFFICES ASSUME NEW i \in 2 .. Len(t)
                 PROVE  i - 1 \in 1 .. Len(s) /\ t[i] = s[i - 1] /\ t[i] # r
        OBVIOUS
    <2>1. i - 1 \in 1 .. Len(s) /\ (i - 1) + 1 = i
        BY <1>1, <1>3
    <2>2. t[i] = s[i - 1]
        BY <1>4, <2>1
    <2>3. s[i - 1] \in D \ {r}
        BY <1>1, <2>1
    <2> QED
        BY <2>1, <2>2, <2>3
<1>6. ASSUME NEW d \in D \cup {r} PROVE \E m \in 1 .. Len(t) : t[m] = d
    <2>1. CASE d = r
        BY <2>1, <1>1, <1>3
    <2>2. CASE d # r
        <3>1. PICK m \in 1 .. Len(s) : s[m] = d
            BY <1>6, <2>2 DEF Ordered
        <3>2. m + 1 \in 1 .. Len(t)
            BY <1>1, <1>3
        <3> QED
            BY <3>1, <3>2, <1>4
    <2> QED
        BY <2>1, <2>2
<1>7. ASSUME NEW m \in 1 .. Len(t), NEW n \in 1 .. Len(t), t[m] = t[n] PROVE m = n
    <2>1. (m = 1 \/ m \in 2 .. Len(t)) /\ (n = 1 \/ n \in 2 .. Len(t))
        BY <1>1, <1>3
    <2>2. CASE m \in 2 .. Len(t) /\ n \in 2 .. Len(t)
        <3>1. m - 1 = n - 1
            BY <1>5, <1>7, <2>2 DEF Ordered
        <3> QED
            BY <3>1
    <2>3. CASE m = 1 \/ n = 1
        BY <2>1, <2>3, <1>3, <1>5, <1>7
    <2> QED
        BY <2>1, <2>2, <2>3
<1>8. Ordered(t, D \cup {r})
    BY <1>3, <1>6, <1>7 DEF Ordered
<1>9. t[1] = r /\ Len(t) \in Nat \ {0}
    BY <1>1, <1>3
<1> QED
    BY <1>8, <1>9 DEF t

\* Every listing of a finite set is an order of it.
LEMMA ListingOrdered ==
    ASSUME NEW D, IsFiniteSet(D), NEW s \in SetToSeqs(D)
    PROVE  Ordered(s, D)
<1>1. Cardinality(D) \in Nat
    BY FS_CardinalityType
<1>2. s \in [1 .. Cardinality(D) -> D] /\ \A i, h \in 1 .. Cardinality(D) : i # h => s[i] # s[h]
    BY DEF SetToSeqs
<1>3. s \in Seq(D) /\ Len(s) = Cardinality(D)
    BY <1>1, <1>2
<1>4. s \in Injection(1 .. Cardinality(D), D)
    BY <1>2 DEF Injection, IsInjective
<1>5. Cardinality(1 .. Cardinality(D)) = Cardinality(D)
    BY <1>1, FS_Interval
<1>6. s \in Surjection(1 .. Cardinality(D), D)
    BY <1>4, <1>5, FS_Injection
<1>7. \A d \in D : \E m \in 1 .. Len(s) : s[m] = d
    BY <1>3, <1>6 DEF Surjection
<1>8. \A m, n \in 1 .. Len(s) : s[m] = s[n] => m = n
    BY <1>2, <1>3
<1> QED
    BY <1>3, <1>7, <1>8 DEF Ordered

(* ------------------------------- the sweep ------------------------------- *)

Bytes == [d \in DOMAIN dirs |-> dirs[d].bytes]
\* What the sweep wants of the directories that are left.
Bounded(D) == Cardinality(D) <= MaxDirs /\ (Total(Bytes, D) <= MaxBytes \/ Cardinality(D) <= 1)

\* One turn of the loop of sweepSnapshots, for the m-th directory.
Turn(s, m, acc) ==
    IF m > MaxDirs \/ ((m > 1 \/ ~TRUE) /\ acc.kept + dirs[s[m]].bytes > MaxBytes)
    THEN [acc EXCEPT !.removed = Append(@, s[m])]
    ELSE [acc EXCEPT !.kept = @ + dirs[s[m]].bytes]
\* a is the accumulator of the loop after each turn.
Loop(a, s, k) == a = [m \in 0 .. k |-> IF m = 0 THEN [kept |-> 0, removed |-> <<>>]
                                       ELSE Turn(s, m, a[m - 1])]

\* The recursive function of Sweep is the loop.
LEMMA SweepIsLoop ==
    ASSUME NEW s, Len(s) \in Nat
    PROVE  \E a : Loop(a, s, Len(s)) /\ Sweep(s, TRUE, MaxDirs) = a[Len(s)].removed
<1> DEFINE Start0 == [kept |-> 0, removed |-> <<>>]
           T == {k \in Nat : ~\E f : Loop(f, s, k)}
<1> HIDE DEF Start0
<1>1. Loop([m \in 0 .. 0 |-> Start0], s, 0)
    BY DEF Loop, Start0
<1>2. ASSUME NEW k \in Nat, k # 0, NEW f, Loop(f, s, k - 1)
      PROVE  \E g : Loop(g, s, k)
    <2> DEFINE g == [m \in 0 .. k |-> IF m = k THEN Turn(s, k, f[k - 1]) ELSE f[m]]
    <2>1. DOMAIN g = 0 .. k /\ \A m \in 0 .. k : g[m] = IF m = k THEN Turn(s, k, f[k - 1]) ELSE f[m]
        OBVIOUS
    <2>2. \A m \in 0 .. k : m # k => m \in 0 .. k - 1
        OBVIOUS
    <2>3. \A m \in 0 .. k : m # 0 => m - 1 \in 0 .. k /\ m - 1 # k
        OBVIOUS
    <2>4. \A m \in 0 .. k - 1 : f[m] = IF m = 0 THEN Start0 ELSE Turn(s, m, f[m - 1])
        BY <1>2 DEF Loop, Start0
    <2>5. \A m \in 0 .. k : g[m] = IF m = 0 THEN Start0 ELSE Turn(s, m, g[m - 1])
        <3>1. ASSUME NEW m \in 0 .. k, m = 0
              PROVE  g[m] = Start0
            BY <1>2, <2>1, <2>2, <2>4, <3>1
        <3>2. ASSUME NEW m \in 0 .. k, m # 0
              PROVE  g[m] = Turn(s, m, f[m - 1]) /\ g[m - 1] = f[m - 1]
            BY <2>1, <2>2, <2>3, <2>4, <3>2
        <3> QED
            BY <3>1, <3>2
    <2>6. g = [m \in 0 .. k |-> g[m]]
        OBVIOUS
    <2> HIDE DEF g
    <2>7. Loop(g, s, k)
        BY <2>5, <2>6 DEF Loop, Start0
    <2> QED
        BY <2>7
<1>3. T = {}
    <2> SUFFICES ASSUME T # {} PROVE FALSE
        OBVIOUS
    <2>1. PICK k \in T : \A y \in T : k <= y
        BY LeastNat
    <2>2. k \in Nat /\ k # 0
        BY <2>1, <1>1
    <2>3. k - 1 \in Nat /\ ~(k <= k - 1)
        BY <2>2
    <2>4. PICK f : Loop(f, s, k - 1)
        BY <2>1, <2>3
    <2> QED
        BY <2>1, <2>2, <2>4, <1>2
<1>4. \E f : Loop(f, s, Len(s))
    BY <1>3
<1> DEFINE a == CHOOSE f : Loop(f, s, Len(s))
<1>5. Loop(a, s, Len(s))
    BY <1>4
<1>6. Sweep(s, TRUE, MaxDirs) = a[Len(s)].removed
    BY DEF Sweep, Loop, Turn
<1> QED
    BY <1>5, <1>6

\* After m turns: what is kept of the first m directories, and how much it is.
Swept(a, s, S, m) ==
    LET K == {s[h] : h \in 1 .. m} \ Range(a[m].removed) IN
    /\ a[m] = [kept |-> a[m].kept, removed |-> a[m].removed]
    /\ a[m].removed \in Seq(S) /\ a[m].kept \in Nat
    /\ Range(a[m].removed) \subseteq {s[h] : h \in 1 .. m}
    /\ a[m].kept = Total(Bytes, K)
    /\ a[m].kept <= MaxBytes \/ K \subseteq {s[1]}
    /\ \A h \in 1 .. m : s[h] \in K => h <= MaxDirs
    /\ m >= 1 => s[1] \in K

\* A turn keeps the account: what it removes is no longer kept, what it keeps
\* is counted, and the first directory is always kept.
LEMMA SweptNext ==
    ASSUME NEW S, IsFiniteSet(S), S \subseteq DOMAIN dirs, \A d \in S : dirs[d].bytes \in Nat,
           NEW s, Ordered(s, S), NEW a, Loop(a, s, Len(s)), NEW m \in 1 .. Len(s), Swept(a, s, S, m - 1)
    PROVE  Swept(a, s, S, m)
<1> DEFINE P == {s[h] : h \in 1 .. m - 1}
           Q == {s[h] : h \in 1 .. m}
           acc == a[m - 1]
           K == P \ Range(acc.removed)
<1>1. s \in Seq(S) /\ Len(s) \in Nat /\ m \in Nat /\ m - 1 \in Nat /\ s[m] \in S
    BY DEF Ordered
<1>2. Q = P \cup {s[m]} /\ s[m] \notin P
    <2>1. ASSUME NEW h \in 1 .. m PROVE h = m \/ h \in 1 .. m - 1
        OBVIOUS
    <2>2. \A h \in 1 .. m - 1 : h \in 1 .. m /\ h \in 1 .. Len(s) /\ h # m
        BY <1>1
    <2>3. m \in 1 .. m
        BY <1>1
    <2>4. Q \subseteq P \cup {s[m]}
        BY <2>1
    <2>5. P \subseteq Q
        BY <2>2
    <2>6. s[m] \in Q
        BY <2>3
    <2>7. ASSUME NEW h \in 1 .. m - 1 PROVE s[h] # s[m]
        BY <2>2 DEF Ordered
    <2> QED
        BY <2>4, <2>5, <2>6, <2>7
<1>3. a[m] = Turn(s, m, acc)
    <2>1. m \in 0 .. Len(s) /\ m # 0
        BY <1>1
    <2> QED
        BY <2>1 DEF Loop
<1>4. /\ acc = [kept |-> acc.kept, removed |-> acc.removed]
      /\ acc.removed \in Seq(S) /\ acc.kept \in Nat /\ Range(acc.removed) \subseteq P
      /\ acc.kept = Total(Bytes, K)
      /\ acc.kept <= MaxBytes \/ K \subseteq {s[1]}
      /\ \A h \in 1 .. m - 1 : s[h] \in K => h <= MaxDirs
      /\ m - 1 >= 1 => s[1] \in K
    BY DEF Swept
<1> DEFINE x == s[m]
           b == dirs[x].bytes
<1>5. b \in Nat /\ Bytes[x] = b
    BY <1>1 DEF Bytes
<1>6. MaxBytes \in Nat /\ MaxDirs \in Nat /\ MaxDirs >= 1
    BY BoundsAssumption
<1>7. CASE m > MaxDirs \/ ((m > 1 \/ ~TRUE) /\ acc.kept + b > MaxBytes)
    <2>1. a[m] = [acc EXCEPT !.removed = Append(@, x)]
        BY <1>3, <1>7 DEF Turn
    <2>2. a[m] = [kept |-> acc.kept, removed |-> Append(acc.removed, x)]
        BY <2>1, <1>4
    <2>3. a[m].kept = acc.kept /\ a[m].removed = Append(acc.removed, x)
        BY <2>2
    <2>4. Append(acc.removed, x) \in Seq(S) /\ Range(Append(acc.removed, x)) = Range(acc.removed) \cup {x}
        <3>1. acc.removed \in Seq(S) /\ x \in S
            BY <1>1, <1>4
        <3> HIDE DEF acc, x
        <3>2. /\ Append(acc.removed, x) \in Seq(S)
              /\ Len(Append(acc.removed, x)) = Len(acc.removed) + 1 /\ Len(acc.removed) \in Nat
              /\ \A i \in 1 .. Len(acc.removed) : Append(acc.removed, x)[i] = acc.removed[i]
              /\ Append(acc.removed, x)[Len(acc.removed) + 1] = x
            BY <3>1, AppendProperties
        <3> DEFINE r == acc.removed
                   t == Append(r, x)
        <3> HIDE DEF r, t
        <3>3. t \in Seq(S) /\ r \in Seq(S) /\ Len(t) = Len(r) + 1 /\ Len(r) \in Nat
              /\ (\A i \in 1 .. Len(r) : t[i] = r[i]) /\ t[Len(r) + 1] = x
            BY <3>1, <3>2 DEF r, t
        <3>4. Range(t) = {t[i] : i \in 1 .. Len(t)} /\ Range(r) = {r[i] : i \in 1 .. Len(r)}
            BY <3>3, RangeEquality
        <3>5. ASSUME NEW i \in 1 .. Len(t) PROVE (i \in 1 .. Len(r) /\ t[i] = r[i]) \/ t[i] = x
            BY <3>3
        <3>6. \A i \in 1 .. Len(r) : i \in 1 .. Len(t)
            BY <3>3
        <3>7. Len(r) + 1 \in 1 .. Len(t)
            BY <3>3
        <3>8. Range(t) = Range(r) \cup {x}
            BY <3>3, <3>4, <3>5, <3>6, <3>7
        <3> QED
            BY <3>2, <3>8 DEF r, t
    <2>5. Q \ Range(a[m].removed) = K
        BY <1>2, <2>3, <2>4
    <2>6. m # 1
        BY <1>6, <1>7
    <2>7. m - 1 >= 1
        BY <1>1, <2>6
    <2>8. \A h \in 1 .. m : s[h] \in K => h <= MaxDirs
        <3> SUFFICES ASSUME NEW h \in 1 .. m, s[h] \in K PROVE h <= MaxDirs
            OBVIOUS
        <3>1. h # m
            BY <1>2
        <3>2. h \in 1 .. m - 1
            BY <1>1, <3>1
        <3> QED
            BY <3>2, <1>4
    <2>9. Range(a[m].removed) \subseteq Q
        BY <1>2, <1>4, <2>3, <2>4
    <2>10. s[1] \in K /\ acc.kept \in Nat /\ acc.kept = Total(Bytes, K)
           /\ (acc.kept <= MaxBytes \/ K \subseteq {s[1]})
        BY <1>4, <2>7
    <2> DEFINE L == Q \ Range(a[m].removed)
    <2>11. L = K
        BY <2>5
    <2>12. a[m] = [kept |-> a[m].kept, removed |-> a[m].removed]
        BY <2>2, <2>3
    <2> HIDE DEF L, K, acc, x
    <2>13. /\ a[m] = [kept |-> a[m].kept, removed |-> a[m].removed]
           /\ a[m].removed \in Seq(S) /\ a[m].kept \in Nat
           /\ Range(a[m].removed) \subseteq Q
           /\ a[m].kept = Total(Bytes, L)
           /\ a[m].kept <= MaxBytes \/ L \subseteq {s[1]}
           /\ \A h \in 1 .. m : s[h] \in L => h <= MaxDirs
           /\ m >= 1 => s[1] \in L
        BY <2>3, <2>4, <2>8, <2>9, <2>10, <2>11, <2>12
    <2> QED
        BY <2>13 DEF Swept, L
<1>8. CASE ~(m > MaxDirs \/ ((m > 1 \/ ~TRUE) /\ acc.kept + b > MaxBytes))
    <2>1. a[m] = [acc EXCEPT !.kept = @ + b]
        BY <1>3, <1>8 DEF Turn
    <2>2. a[m] = [kept |-> acc.kept + b, removed |-> acc.removed]
        BY <2>1, <1>4
    <2>3. a[m].kept = acc.kept + b /\ a[m].removed = acc.removed
        BY <2>2
    <2> DEFINE L == Q \ Range(a[m].removed)
    <2>4. L = K \cup {x} /\ x \notin K
        BY <1>2, <1>4, <2>3
    <2>5. L \subseteq S
        BY <1>1 DEF Ordered
    <2>6. IsFiniteSet(L) /\ \A d \in L : Bytes[d] \in Nat
        BY <2>5, FS_Subset DEF Bytes
    <2>8. L \ {x} = K
        BY <2>4
    <2> HIDE DEF L, K, acc, x
    <2>7. x \in L /\ Total(Bytes, L) = Bytes[x] + Total(Bytes, L \ {x})
        BY <2>4, <2>6, TotalMeans
    <2>9. a[m].kept = Total(Bytes, L) /\ a[m].kept \in Nat
        <3>1. /\ a[m].kept = acc.kept + b /\ Total(Bytes, L) = Bytes[x] + Total(Bytes, K)
              /\ acc.kept = Total(Bytes, K) /\ acc.kept \in Nat /\ Bytes[x] = b /\ b \in Nat
            BY <2>3, <2>7, <2>8, <1>4, <1>5
        <3> HIDE DEF b
        <3> QED
            BY <3>1
    <2> USE DEF L, K, acc, x
    <2>10. a[m].kept <= MaxBytes \/ L \subseteq {s[1]}
        <3>1. CASE m > 1
            BY <3>1, <1>4, <1>5, <1>6, <1>8, <2>3
        <3>2. CASE ~(m > 1)
            <4>1. m = 1 /\ Q = {s[1]}
                BY <3>2, <1>1
            <4> QED
                BY <4>1
        <3> QED
            BY <3>1, <3>2
    <2>11. \A h \in 1 .. m : s[h] \in L => h <= MaxDirs
        <3> SUFFICES ASSUME NEW h \in 1 .. m PROVE h <= MaxDirs
            OBVIOUS
        <3> QED
            BY <1>1, <1>6, <1>8
    <2>12. s[1] \in L
        <3>1. CASE m = 1
            BY <3>1, <2>4
        <3>2. CASE m # 1
            <4>1. m - 1 >= 1
                BY <1>1, <3>2
            <4> QED
                BY <4>1, <1>4, <2>4
        <3> QED
            BY <3>1, <3>2
    <2>13. Range(a[m].removed) \subseteq Q /\ a[m].removed \in Seq(S)
        BY <1>2, <1>4, <2>3
    <2>14. a[m] = [kept |-> a[m].kept, removed |-> a[m].removed]
        BY <2>2, <2>3
    <2> HIDE DEF L
    <2>15. /\ a[m] = [kept |-> a[m].kept, removed |-> a[m].removed]
           /\ a[m].removed \in Seq(S) /\ a[m].kept \in Nat
           /\ Range(a[m].removed) \subseteq Q
           /\ a[m].kept = Total(Bytes, L)
           /\ a[m].kept <= MaxBytes \/ L \subseteq {s[1]}
           /\ \A h \in 1 .. m : s[h] \in L => h <= MaxDirs
           /\ m >= 1 => s[1] \in L
        BY <2>9, <2>10, <2>11, <2>12, <2>13, <2>14
    <2> QED
        BY <2>15 DEF Swept, L
<1> QED
    BY <1>7, <1>8

\* What the sweep leaves is within the bounds, the newest directory included.
LEMMA SweepMeans ==
    ASSUME NEW S, IsFiniteSet(S), S \subseteq DOMAIN dirs, \A d \in S : dirs[d].bytes \in Nat,
           NEW s, Ordered(s, S)
    PROVE  LET R == Sweep(s, TRUE, MaxDirs) IN
           /\ R \in Seq(S) /\ Bounded(S \ Range(R)) /\ (Len(s) >= 1 => s[1] \notin Range(R))
<1>1. s \in Seq(S) /\ Len(s) \in Nat /\ S = {s[h] : h \in 1 .. Len(s)}
    BY DEF Ordered
<1>2. PICK a : Loop(a, s, Len(s)) /\ Sweep(s, TRUE, MaxDirs) = a[Len(s)].removed
    BY <1>1, SweepIsLoop
<1>3. Swept(a, s, S, 0)
    <2>1. a[0] = [kept |-> 0, removed |-> <<>>]
        BY <1>1, <1>2 DEF Loop
    <2>2. a[0].kept = 0 /\ a[0].removed = <<>> /\ <<>> \in Seq(S)
        BY <2>1
    <2>3. Range(<<>>) = {} /\ {s[h] : h \in 1 .. 0} = {}
        BY DEF Range
    <2>4. Total(Bytes, {}) = 0
        BY FS_EmptySet, TotalMeans
    <2>5. MaxBytes \in Nat
        BY BoundsAssumption
    <2> DEFINE P == {s[h] : h \in 1 .. 0}
               K == P \ Range(a[0].removed)
    <2>6. P = {} /\ K = {} /\ Range(a[0].removed) = {}
        BY <2>2, <2>3
    <2>7. 1 .. 0 = {} /\ ~(0 >= 1)
        OBVIOUS
    <2> HIDE DEF P, K
    <2>8. /\ a[0] = [kept |-> a[0].kept, removed |-> a[0].removed]
          /\ a[0].removed \in Seq(S) /\ a[0].kept \in Nat
          /\ Range(a[0].removed) \subseteq P
          /\ a[0].kept = Total(Bytes, K)
          /\ a[0].kept <= MaxBytes \/ K \subseteq {s[1]}
          /\ \A h \in 1 .. 0 : s[h] \in K => h <= MaxDirs
          /\ 0 >= 1 => s[1] \in K
        BY <2>1, <2>2, <2>4, <2>5, <2>6, <2>7
    <2> QED
        BY <2>8 DEF Swept, P, K
<1> DEFINE T == {m \in 0 .. Len(s) : ~Swept(a, s, S, m)}
<1>4. T = {}
    <2> SUFFICES ASSUME T # {} PROVE FALSE
        OBVIOUS
    <2>1. T \in SUBSET Nat
        BY <1>1
    <2>2. PICK m \in T : \A y \in T : m <= y
        BY <2>1, LeastNat
    <2>3. m \in 1 .. Len(s) /\ m - 1 \in 0 .. Len(s) /\ ~(m <= m - 1)
        BY <2>2, <1>1, <1>3
    <2>4. Swept(a, s, S, m - 1) /\ ~Swept(a, s, S, m)
        BY <2>2, <2>3
    <2> HIDE DEF T
    <2>5. Swept(a, s, S, m)
        BY <2>3, <2>4, <1>2, SweptNext
    <2> QED
        BY <2>4, <2>5
<1>5. Swept(a, s, S, Len(s))
    BY <1>1, <1>4
<1> DEFINE R == a[Len(s)].removed
           K == S \ Range(R)
<1>6. /\ R \in Seq(S) /\ a[Len(s)].kept = Total(Bytes, K) /\ a[Len(s)].kept \in Nat
      /\ a[Len(s)].kept <= MaxBytes \/ K \subseteq {s[1]}
      /\ \A h \in 1 .. Len(s) : s[h] \in K => h <= MaxDirs
      /\ Len(s) >= 1 => s[1] \in K
    BY <1>1, <1>5 DEF Swept
<1> HIDE DEF R
<1>7. MaxDirs \in Nat /\ IsFiniteSet(K)
    BY BoundsAssumption, FS_Subset
<1>8. Cardinality(K) <= MaxDirs
    <2> DEFINE H == {h \in 1 .. Len(s) : s[h] \in K}
               F == [h \in H |-> s[h]]
    <2>1. F \in Surjection(H, K)
        BY <1>1 DEF Surjection
    <2>2. IsFiniteSet(1 .. MaxDirs) /\ Cardinality(1 .. MaxDirs) = MaxDirs
        BY <1>7, FS_Interval
    <2>3. H \in SUBSET (1 .. MaxDirs)
        <3> SUFFICES ASSUME NEW h \in H PROVE h \in 1 .. MaxDirs
            OBVIOUS
        <3>1. h \in 1 .. Len(s) /\ h <= MaxDirs
            BY <1>6
        <3> QED
            BY <3>1, <1>1, <1>7
    <2>4. IsFiniteSet(H) /\ Cardinality(H) <= Cardinality(1 .. MaxDirs)
        BY <2>2, <2>3, FS_Subset
    <2>5. Cardinality(K) <= Cardinality(H)
        BY <2>1, <2>4, FS_Surjection
    <2>6. Cardinality(K) \in Nat /\ Cardinality(H) \in Nat
        BY <1>7, <2>4, FS_CardinalityType
    <2> QED
        BY <2>2, <2>4, <2>5, <2>6, <1>7
<1>9. Total(Bytes, K) <= MaxBytes \/ Cardinality(K) <= 1
    <2>1. CASE K \subseteq {s[1]}
        <3>1. IsFiniteSet({s[1]}) /\ Cardinality({s[1]}) = 1
            BY FS_Singleton
        <3> QED
            BY <2>1, <3>1, FS_Subset
    <2> QED
        BY <2>1, <1>6
<1> QED
    BY <1>2, <1>6, <1>8, <1>9 DEF Bounded, R

(* --------------------------- what the sweeps leave ----------------------- *)

\* The snapshot directories are listed, and their files have been counted.
Stock ==
    /\ IsFiniteSet(DOMAIN dirs) /\ Ordered(recency, DOMAIN dirs)
    /\ dirs \in [DOMAIN dirs -> [files : SUBSET Files, bytes : Nat, actual : BOOLEAN]]
    /\ size \in [Recorders -> Nat]
    /\ \E X : doomed \in [Recorders -> Seq(X)]
    /\ \A r \in Recorders : pc[r] \notin {"remove", "killed"} => doomed[r] = <<>>

\* The earlier invocations have left their snapshots.
LEMMA InitStock == Init => Stock
<1> SUFFICES ASSUME Init PROVE Stock
    OBVIOUS
<1>1. PICK D \in SUBSET Earlier, n \in Sizes :
          /\ dirs = [d \in D |-> [files |-> Files, bytes |-> 2 * n, actual |-> TRUE]]
          /\ recency \in SetToSeqs(D)
    BY DEF Init
<1>2. IsFiniteSet(D) /\ DOMAIN dirs = D
    BY <1>1, BoundsAssumption, FS_Subset
<1>3. Ordered(recency, D)
    BY <1>1, <1>2, ListingOrdered
<1>4. n \in Nat /\ 2 * n \in Nat
    BY BoundsAssumption
<1>5. dirs \in [D -> [files : SUBSET Files, bytes : Nat, actual : BOOLEAN]]
    BY <1>1, <1>4
<1>6. size \in [Recorders -> Nat]
    BY <1>4, BoundsAssumption DEF Init
<1>7. doomed = [r \in Recorders |-> <<>>]
    BY DEF Init
<1>9. <<>> \in Seq({})
    BY EmptySeq
<1>8. doomed \in [Recorders -> Seq({})]
    BY <1>7, <1>9
<1> QED
    BY <1>2, <1>3, <1>5, <1>6, <1>7, <1>8 DEF Stock

\* A step that changes neither the directories nor a sweep's list, of a recorder
\* that is not sweeping.
LEMMA StockKept ==
    ASSUME Places, Stock, UNCHANGED <<dirs, recency, size, doomed>>,
           \A o \in Recorders : pc'[o] \in {"remove", "killed"} \/ pc'[o] = pc[o]
                                \/ doomed[o] = <<>>
    PROVE  Stock'
<1>1. \A o \in Recorders : pc'[o] \notin {"remove", "killed"} => doomed'[o] = <<>>
    BY DEF Stock
<1> QED
    BY <1>1 DEF Stock

\* A directory made or written to is the newest one.
LEMMA StockTouched ==
    ASSUME Places, Stock, NEW r \in Recorders, Touch(r), NEW place, pc' = [pc EXCEPT ![r] = place],
           pc[r] \notin {"remove", "killed"}, doomed' = doomed, size' \in [Recorders -> Nat],
           DOMAIN dirs' = DOMAIN dirs \cup {r},
           dirs' \in [DOMAIN dirs' -> [files : SUBSET Files, bytes : Nat, actual : BOOLEAN]]
    PROVE  Stock' /\ recency'[1] = r /\ Len(recency') >= 1
<1>1. Ordered(RemoveFirst(recency, r), DOMAIN dirs \ {r})
    BY RemoveFirstMeans DEF Stock
<1>2. recency' = <<r>> \o RemoveFirst(recency, r)
    BY DEF Touch
<1> DEFINE t == RemoveFirst(recency, r)
<1> HIDE DEF t
<1>3. Ordered(<<r>> \o t, DOMAIN dirs \cup {r}) /\ (<<r>> \o t)[1] = r /\ Len(<<r>> \o t) \in Nat \ {0}
    BY <1>1, FrontOrdered DEF t
<1>4. Ordered(recency', DOMAIN dirs') /\ recency'[1] = r /\ Len(recency') \in Nat \ {0}
    BY <1>2, <1>3 DEF t
<1>5. IsFiniteSet(DOMAIN dirs')
    <2>1. IsFiniteSet(DOMAIN dirs)
        BY DEF Stock
    <2>2. IsFiniteSet(DOMAIN dirs \cup {r})
        BY <2>1, FS_AddElement
    <2> QED
        BY <2>2
<1>6. \A o \in Recorders : pc'[o] \notin {"remove", "killed"} => doomed'[o] = <<>>
    BY DEF Stock, Places
<1>7. Len(recency') >= 1
    BY <1>4
<1> QED
    BY <1>4, <1>5, <1>6, <1>7 DEF Stock

\* Every step keeps the account of the directories.
LEMMA StepStock == Places /\ Stock /\ [Next]_vars => Stock'
<1> SUFFICES ASSUME Places, Stock, [Next]_vars PROVE Stock'
    OBVIOUS
<1> USE DEF At, own, snapshot
<1>0. ASSUME NEW r \in Recorders, NEW place, pc' = [pc EXCEPT ![r] = place],
             UNCHANGED <<dirs, recency, size, doomed>>,
             place = "killed" \/ pc[r] \notin {"remove", "killed"} \/ doomed[r] = <<>>
      PROVE  Stock'
    <2>1. \A o \in Recorders : pc'[o] \in {"remove", "killed"} \/ pc'[o] = pc[o] \/ doomed[o] = <<>>
        BY <1>0 DEF Places, Stock
    <2> QED
        BY <2>1, <1>0, StockKept
<1>1. ASSUME NEW r \in Recorders, Start(r) PROVE Stock'
    BY <1>0, <1>1 DEF Start
<1>2. ASSUME NEW r \in Recorders, StartEvent(r) PROVE Stock'
    BY <1>0, <1>2 DEF StartEvent, OpenLog, WriteLog
<1>3. ASSUME NEW r \in Recorders, Begin(r) PROVE Stock'
    <2>1. CASE pc' = [pc EXCEPT ![r] = "ending"] /\ pc[r] = "run" /\ UNCHANGED <<size, status, snapshot>>
        BY <2>1, <1>0, <1>3 DEF Begin
    <2>2. CASE /\ pc[r] = "run" /\ pc' = [pc EXCEPT ![r] = "before"]
               /\ \E n \in Sizes : size' = [size EXCEPT ![r] = n]
               /\ dirs' = Made(r) /\ Touch(r)
        <3>1. doomed' = doomed
            BY <1>3 DEF Begin
        <3>2. size' \in [Recorders -> Nat]
            BY <2>2, BoundsAssumption DEF Stock
        <3>3. /\ DOMAIN dirs' = DOMAIN dirs \cup {r}
              /\ dirs' \in [DOMAIN dirs' -> [files : SUBSET Files, bytes : Nat, actual : BOOLEAN]]
            BY <2>2 DEF Made, Stock
        <3> QED
            BY <2>2, <3>1, <3>2, <3>3, StockTouched
    <2> QED
        BY <1>3, <2>1, <2>2 DEF Begin
<1>4. ASSUME NEW r \in Recorders, CaptureSnapshot(r) PROVE Stock'
    <2>1. ASSUME NEW file \in Files, CaptureFails(r, file) PROVE Stock'
        BY <2>1, <1>0 DEF CaptureFails, Files
    <2>2. ASSUME NEW file \in Files, NEW next \in {"after", "manifest", "apply"}, WriteFile(r, file, next)
          PROVE  Stock'
        <3>1. /\ r \in DOMAIN dirs /\ pc[r] = file /\ pc' = [pc EXCEPT ![r] = next]
              /\ size' = size /\ doomed' = doomed
              /\ IF file = "manifest" THEN Touch(r) ELSE UNCHANGED recency
            BY <2>2 DEF WriteFile, Put
        <3>2. DOMAIN dirs' = DOMAIN dirs /\ DOMAIN dirs \cup {r} = DOMAIN dirs
            BY <2>2, <3>1 DEF WriteFile, Put
        <3>3. dirs' \in [DOMAIN dirs' -> [files : SUBSET Files, bytes : Nat, actual : BOOLEAN]]
            <4>1. /\ dirs \in [DOMAIN dirs -> [files : SUBSET Files, bytes : Nat, actual : BOOLEAN]]
                  /\ size[r] \in Nat
                BY DEF Stock
            <4>2. dirs[r] \in [files : SUBSET Files, bytes : Nat, actual : BOOLEAN]
                BY <3>1, <4>1
            <4>3. dirs'[r] = [dirs[r] EXCEPT !.files = @ \cup {file},
                                             !.bytes = IF file = "manifest" THEN @ ELSE @ + size[r]]
                BY <2>2, <3>1, <4>1 DEF WriteFile, Put
            <4> DEFINE v == dirs[r]
                       b == IF file = "manifest" THEN v.bytes ELSE v.bytes + size[r]
            <4>4. b \in Nat /\ v.files \cup {file} \in SUBSET Files
                BY <4>1, <4>2, <2>2
            <4>5. dirs'[r] = [v EXCEPT !.files = @ \cup {file}, !.bytes = b]
                BY <4>3
            <4> HIDE DEF v, b
            <4>6. v \in [files : SUBSET Files, bytes : Nat, actual : BOOLEAN]
                BY <4>2 DEF v
            <4>7. dirs'[r] \in [files : SUBSET Files, bytes : Nat, actual : BOOLEAN]
                BY <4>4, <4>5, <4>6
            <4>8. \A d \in DOMAIN dirs : d # r => dirs'[d] = dirs[d]
                BY <2>2, <3>1 DEF WriteFile, Put
            <4>9. dirs' = [d \in DOMAIN dirs |-> dirs'[d]]
                BY <2>2, <3>1 DEF WriteFile, Put
            <4> QED
                BY <3>2, <4>1, <4>7, <4>8, <4>9
        <3>4. pc[r] \notin {"remove", "killed"}
            BY <3>1 DEF Files
        <3>5. CASE file = "manifest"
            BY <3>1, <3>2, <3>3, <3>4, <3>5, StockTouched DEF Stock
        <3>6. CASE file # "manifest"
            <4>1. \A o \in Recorders : pc'[o] \notin {"remove", "killed"} => doomed'[o] = <<>>
                BY <3>1, <3>4 DEF Stock, Places
            <4> QED
                BY <4>1, <3>1, <3>2, <3>3, <3>6 DEF Stock
        <3> QED
            BY <3>5, <3>6
    <2> QED
        BY <1>4, <2>1, <2>2 DEF CaptureSnapshot, Files
<1>5. ASSUME NEW r \in Recorders, Apply(r) PROVE Stock'
    BY <1>0, <1>5 DEF Apply
<1>6. ASSUME NEW r \in Recorders, MarkSnapshotApplied(r) PROVE Stock'
    <2>1. CASE dirs' = dirs
        BY <2>1, <1>0, <1>6 DEF MarkSnapshotApplied
    <2>2. CASE r \in DOMAIN dirs /\ dirs' = [dirs EXCEPT ![r].actual = TRUE]
        <3>1. /\ DOMAIN dirs' = DOMAIN dirs
              /\ dirs' \in [DOMAIN dirs' -> [files : SUBSET Files, bytes : Nat, actual : BOOLEAN]]
            BY <2>2 DEF Stock
        <3>2. /\ UNCHANGED <<recency, size, doomed>> /\ pc[r] = "mark"
              /\ pc' = [pc EXCEPT ![r] = "ending"]
            BY <1>6 DEF MarkSnapshotApplied
        <3>3. \A o \in Recorders : pc'[o] \notin {"remove", "killed"} => doomed'[o] = <<>>
            BY <3>2 DEF Stock, Places
        <3> QED
            BY <3>1, <3>2, <3>3 DEF Stock
    <2> QED
        BY <1>6, <2>1, <2>2 DEF MarkSnapshotApplied
<1>7. ASSUME NEW r \in Recorders, EndEvent(r) PROVE Stock'
    BY <1>0, <1>7 DEF EndEvent, OpenLog, WriteLog
<1>8. ASSUME NEW r \in Recorders, ListDirs(r) PROVE Stock'
    <2>1. /\ pc[r] = "list" /\ pc' = [pc EXCEPT ![r] = "remove"]
          /\ doomed' = [doomed EXCEPT ![r] = Doomed] /\ UNCHANGED <<dirs, recency, size>>
        BY <1>8 DEF ListDirs
    <2>2. /\ IsFiniteSet(DOMAIN dirs) /\ (\A d \in DOMAIN dirs : dirs[d].bytes \in Nat)
          /\ Ordered(recency, DOMAIN dirs)
        BY DEF Stock
    <2>3. Doomed \in Seq(DOMAIN dirs)
        BY <2>2, SweepMeans DEF Doomed
    <2>4. PICK X : doomed \in [Recorders -> Seq(X)]
        BY DEF Stock
    <2>5. doomed' \in [Recorders -> Seq(X \cup DOMAIN dirs)]
        <3>1. Doomed \in Seq(X \cup DOMAIN dirs)
            BY <2>3, SeqMonotonic
        <3>2. \A o \in Recorders : doomed[o] \in Seq(X \cup DOMAIN dirs)
            BY <2>4, SeqMonotonic
        <3> QED
            BY <2>1, <2>4, <3>1, <3>2
    <2>6. \A o \in Recorders : pc'[o] \notin {"remove", "killed"} => doomed'[o] = <<>>
        BY <2>1, <2>4 DEF Stock, Places
    <2> QED
        BY <2>1, <2>5, <2>6 DEF Stock
<1>9. ASSUME NEW r \in Recorders, RemoveDir(r) PROVE Stock'
    <2>1. CASE At(r, "remove", "stat") /\ doomed[r] = <<>> /\ UNCHANGED <<snapshot, doomed>>
        BY <2>1, <1>0, <1>9 DEF RemoveDir
    <2>2. CASE /\ pc[r] = "remove" /\ doomed[r] # <<>> /\ UNCHANGED pc
               /\ dirs' = [d \in DOMAIN dirs \ {Head(doomed[r])} |-> dirs[d]]
               /\ recency' = RemoveFirst(recency, Head(doomed[r]))
               /\ doomed' = [doomed EXCEPT ![r] = Tail(@)]
        <3>1. size' = size
            BY <1>9 DEF RemoveDir
        <3> DEFINE e == Head(doomed[r])
        <3> HIDE DEF e
        <3>2. DOMAIN dirs' = DOMAIN dirs \ {e} /\ \A d \in DOMAIN dirs' : dirs'[d] = dirs[d]
            BY <2>2 DEF e
        <3>3. IsFiniteSet(DOMAIN dirs') /\ Ordered(recency', DOMAIN dirs')
            BY <2>2, <3>2, FS_RemoveElement, RemoveFirstMeans DEF Stock, e
        <3>4. dirs' \in [DOMAIN dirs' -> [files : SUBSET Files, bytes : Nat, actual : BOOLEAN]]
            BY <2>2, <3>2 DEF Stock
        <3>5. PICK X : doomed \in [Recorders -> Seq(X)]
            BY DEF Stock
        <3>6. doomed' \in [Recorders -> Seq(X)]
            BY <2>2, <3>5, HeadTailProperties
        <3>7. \A o \in Recorders : pc'[o] \notin {"remove", "killed"} => doomed'[o] = <<>>
            BY <2>2, <3>5 DEF Stock
        <3> QED
            BY <3>1, <3>3, <3>4, <3>6, <3>7 DEF Stock
    <2> QED
        BY <1>9, <2>1, <2>2 DEF RemoveDir
<1>10. ASSUME NEW r \in Recorders, StatLog(r) PROVE Stock'
    BY <1>0, <1>10 DEF StatLog
<1>11. ASSUME NEW r \in Recorders, RotateLog(r) PROVE Stock'
    BY <1>0, <1>11 DEF RotateLog
<1>12. ASSUME NEW r \in Recorders, Kill(r) PROVE Stock'
    BY <1>0, <1>12 DEF Kill
<1>13. CASE UNCHANGED vars
    BY <1>13, StockKept DEF vars
<1> QED
    BY <1>1, <1>2, <1>3, <1>4, <1>5, <1>6, <1>7, <1>8, <1>9, <1>10, <1>11, <1>12, <1>13
       DEF Next, Step, Finished

(* ----------------------------- the retention ----------------------------- *)

\* The sweep of r is still to come.
ToSweep == Early \ {"remove", "stat"}
\* What the sweep of r has decided to leave is within the bounds.
SweepFits(r) ==
    /\ pc[r] \in {"remove", "stat", "rotate", "done"}
    /\ Bounded(DOMAIN dirs \ Range(doomed[r]))

\* Somebody will see to the bounds, or has: a directory too many comes of an
\* invocation that has its own sweep to do, and what a sweep decided fits stays so
\* as long as directories only go.
InBounds ==
    /\ \/ \E r \in Recorders : pc[r] \in ToSweep \cup {"killed"} \/ SweepFits(r)
       \/ \A r \in Recorders : pc[r] = "idle"
    /\ \A r \in calm : pc[r] \in ToSweep \cup {"killed"} \/ SweepFits(r)

\* Fewer directories are within the bounds too.
LEMMA BoundedShrinks ==
    ASSUME Stock, Stock', NEW D \in SUBSET (DOMAIN dirs), NEW E \in SUBSET D, E \subseteq DOMAIN dirs',
           \A d \in E : dirs'[d].bytes = dirs[d].bytes, Bounded(D)
    PROVE  Cardinality(E) <= MaxDirs /\ (Total(Bytes', E) <= MaxBytes \/ Cardinality(E) <= 1)
<1>1. IsFiniteSet(D) /\ IsFiniteSet(E) /\ Cardinality(E) <= Cardinality(D)
    <2>1. IsFiniteSet(DOMAIN dirs)
        BY DEF Stock
    <2>2. IsFiniteSet(D)
        BY <2>1, FS_Subset
    <2> QED
        BY <2>2, FS_Subset
<1>2. Cardinality(D) \in Nat /\ Cardinality(E) \in Nat
    BY <1>1, FS_CardinalityType
<1>3. \A d \in D : Bytes[d] \in Nat
    BY DEF Stock, Bytes
<1>4. \A d \in E : Bytes[d] = Bytes'[d]
    BY DEF Bytes
<1>5. Total(Bytes, E) <= Total(Bytes, D) /\ Total(Bytes, E) \in Nat /\ Total(Bytes, D) \in Nat
    <2> DEFINE f == Bytes
    <2> HIDE DEF f
    <2>1. (\A d \in D : f[d] \in Nat) /\ (\A d \in E : f[d] \in Nat)
        BY <1>3 DEF f
    <2>2. Total(f, E) <= Total(f, D)
        BY <1>1, <2>1, TotalGrows
    <2>3. Total(f, E) \in Nat
        BY <1>1, <2>1, TotalMeans
    <2>4. Total(f, D) \in Nat
        BY <1>1, <2>1, TotalMeans
    <2> QED
        BY <2>2, <2>3, <2>4 DEF f
<1>6. Total(Bytes, E) = Total(Bytes', E)
    <2> DEFINE f == Bytes
               e == Bytes'
    <2> HIDE DEF f, e
    <2>1. \A d \in E : f[d] = e[d]
        BY <1>4 DEF f, e
    <2>2. Total(f, E) = Total(e, E)
        BY <1>1, <2>1, TotalAgrees
    <2> QED
        BY <2>2 DEF f, e
<1>7. MaxDirs \in Nat /\ MaxBytes \in Nat
    BY BoundsAssumption
<1>8. Cardinality(D) <= MaxDirs /\ (Total(Bytes, D) <= MaxBytes \/ Cardinality(D) <= 1)
    BY DEF Bounded
<1>9. Cardinality(E) <= MaxDirs /\ (Total(Bytes, E) <= MaxBytes \/ Cardinality(E) <= 1)
    BY <1>1, <1>2, <1>5, <1>7, <1>8
<1> QED
    BY <1>6, <1>9

\* A step of a recorder that has its own sweep still to do, or is killed.
LEMMA SweepToCome ==
    ASSUME Places, LogInHand, InBounds, NEW r \in Recorders, NEW place \in ToSweep \cup {"killed"},
           pc' = [pc EXCEPT ![r] = place], \A o \in calm' : o = r
    PROVE  InBounds'
<1>1. pc'[r] = place
    BY DEF Places
<1> QED
    BY <1>1 DEF InBounds

\* A step of a recorder past its listing, or of nobody, that takes no directory
\* but those its sweep doomed.
LEMMA SweepsStayFit ==
    ASSUME Places, Stock, Stock', LogInHand, InBounds, NEW r \in Recorders,
           pc' = pc \/ \E place \in {"stat", "rotate", "done"} :
                            pc[r] \in {"remove", "stat", "rotate"} /\ pc' = [pc EXCEPT ![r] = place],
           \A o \in Recorders : o # r => doomed'[o] = doomed[o],
           DOMAIN dirs' \subseteq DOMAIN dirs, \A d \in DOMAIN dirs' : dirs'[d].bytes = dirs[d].bytes,
           DOMAIN dirs' \ Range(doomed'[r]) \subseteq DOMAIN dirs \ Range(doomed[r]),
           calm' = calm
    PROVE  InBounds'
<1>1. ASSUME NEW o \in Recorders, SweepFits(o) PROVE SweepFits(o)'
    <2> DEFINE D == DOMAIN dirs \ Range(doomed[o])
               E == DOMAIN dirs' \ Range(doomed'[o])
    <2>1. D \in SUBSET DOMAIN dirs /\ E \in SUBSET D /\ E \subseteq DOMAIN dirs'
        OBVIOUS
    <2>2. \A d \in E : dirs'[d].bytes = dirs[d].bytes
        OBVIOUS
    <2>3. Bounded(D)
        BY <1>1 DEF SweepFits
    <2>4. pc'[o] \in {"remove", "stat", "rotate", "done"}
        BY <1>1 DEF SweepFits, Places
    <2> HIDE DEF D, E
    <2>5. Cardinality(E) <= MaxDirs /\ (Total(Bytes', E) <= MaxBytes \/ Cardinality(E) <= 1)
        BY <2>1, <2>2, <2>3, BoundedShrinks
    <2> QED
        BY <2>4, <2>5 DEF SweepFits, Bounded, D, E
<1>2. \A o \in Recorders : pc[o] \in ToSweep \cup {"killed"} => pc'[o] = pc[o]
    BY DEF Places, ToSweep, Early
<1>3. (\A o \in Recorders : pc[o] = "idle") => \A o \in Recorders : pc'[o] = "idle"
    BY DEF Places
<1>4. \A o \in calm : o \in Recorders
    BY DEF LogInHand
<1>5. \A o \in calm' : o \in calm
    OBVIOUS
<1> QED
    BY <1>1, <1>2, <1>3, <1>4, <1>5 DEF InBounds

\* Every step leaves the directories in somebody's hand.
LEMMA StepInBounds ==
    ASSUME Places, Stock, Stock', LogInHand, InBounds, [Next]_vars
    PROVE  InBounds'
<1> USE DEF At, own, snapshot
<1>0. ASSUME NEW r \in Recorders, NEW place \in ToSweep \cup {"killed"}, r \in Running,
             pc' = [pc EXCEPT ![r] = place], calm' = calm
      PROVE  InBounds'
    <2>1. \A o \in calm' : o = r
        BY <1>0 DEF LogInHand
    <2> QED
        BY <1>0, <2>1, SweepToCome
<1>1. ASSUME NEW r \in Recorders, Start(r) PROVE InBounds'
    <2>1. \A o \in calm' : o = r
        BY <1>1 DEF Start
    <2> QED
        BY <1>1, <2>1, SweepToCome DEF Start, ToSweep, Early
<1>2. ASSUME NEW r \in Recorders, StartEvent(r) PROVE InBounds'
    BY <1>0, <1>2 DEF StartEvent, OpenLog, WriteLog, ToSweep, Early, Running
<1>3. ASSUME NEW r \in Recorders, Begin(r) PROVE InBounds'
    BY <1>0, <1>3 DEF Begin, ToSweep, Early, Running
<1>4. ASSUME NEW r \in Recorders, CaptureSnapshot(r) PROVE InBounds'
    BY <1>0, <1>4 DEF CaptureSnapshot, WriteFile, CaptureFails, Files, ToSweep, Early, Running
<1>5. ASSUME NEW r \in Recorders, Apply(r) PROVE InBounds'
    BY <1>0, <1>5 DEF Apply, ToSweep, Early, Running
<1>6. ASSUME NEW r \in Recorders, MarkSnapshotApplied(r) PROVE InBounds'
    BY <1>0, <1>6 DEF MarkSnapshotApplied, ToSweep, Early, Running
<1>7. ASSUME NEW r \in Recorders, EndEvent(r) PROVE InBounds'
    BY <1>0, <1>7 DEF EndEvent, OpenLog, WriteLog, ToSweep, Early, Running
<1>8. ASSUME NEW r \in Recorders, ListDirs(r) PROVE InBounds'
    <2>1. /\ pc[r] = "list" /\ pc' = [pc EXCEPT ![r] = "remove"]
          /\ doomed' = [doomed EXCEPT ![r] = Doomed] /\ dirs' = dirs /\ calm' = calm
        BY <1>8 DEF ListDirs
    <2>2. /\ IsFiniteSet(DOMAIN dirs) /\ (\A d \in DOMAIN dirs : dirs[d].bytes \in Nat)
          /\ Ordered(recency, DOMAIN dirs) /\ DOMAIN doomed = Recorders
        BY DEF Stock
    <2>3. Bounded(DOMAIN dirs \ Range(Doomed))
        BY <2>2, SweepMeans DEF Doomed
    <2>4. doomed'[r] = Doomed /\ pc'[r] = "remove"
        BY <2>1, <2>2 DEF Places
    <2>5. DOMAIN dirs' \ Range(doomed'[r]) = DOMAIN dirs \ Range(Doomed) /\ Bytes' = Bytes
        BY <2>1, <2>4 DEF Bytes
    <2>6. SweepFits(r)'
        BY <2>3, <2>4, <2>5 DEF SweepFits, Bounded
    <2>7. r \in Running
        BY <2>1 DEF Running
    <2>8. \A o \in calm' : o = r
        BY <2>1, <2>7 DEF LogInHand
    <2> QED
        BY <2>6, <2>8 DEF InBounds
<1>9. ASSUME NEW r \in Recorders, RemoveDir(r) PROVE InBounds'
    <2>1. CASE At(r, "remove", "stat") /\ doomed[r] = <<>> /\ UNCHANGED <<snapshot, doomed>>
        BY <2>1, <1>9, SweepsStayFit DEF RemoveDir
    <2>2. CASE /\ pc[r] = "remove" /\ doomed[r] # <<>> /\ UNCHANGED pc
               /\ dirs' = [d \in DOMAIN dirs \ {Head(doomed[r])} |-> dirs[d]]
               /\ doomed' = [doomed EXCEPT ![r] = Tail(@)]
        <3>1. PICK X : doomed \in [Recorders -> Seq(X)]
            BY DEF Stock
        <3> DEFINE s == doomed[r]
        <3>2. s \in Seq(X) /\ s # <<>>
            BY <2>2, <3>1
        <3> HIDE DEF s
        <3>3. Range(s) \subseteq {Head(s)} \cup Range(Tail(s))
            <4>1. /\ Tail(s) \in Seq(X) /\ Len(Tail(s)) = Len(s) - 1 /\ Head(s) = s[1]
                  /\ \A i \in 1 .. Len(Tail(s)) : Tail(s)[i] = s[i + 1]
                  /\ Len(s) \in Nat
                BY <3>2, HeadTailProperties
            <4>2. Range(s) = {s[i] : i \in 1 .. Len(s)}
                  /\ Range(Tail(s)) = {Tail(s)[i] : i \in 1 .. Len(Tail(s))}
                BY <3>2, <4>1, RangeEquality
            <4>3. ASSUME NEW i \in 1 .. Len(s), i # 1
                  PROVE  s[i] \in Range(Tail(s))
                <5>1. i - 1 \in 1 .. Len(Tail(s)) /\ (i - 1) + 1 = i
                    BY <4>1, <4>3
                <5>2. Tail(s)[i - 1] = s[i]
                    BY <4>1, <5>1
                <5> QED
                    BY <4>2, <5>1, <5>2
            <4> QED
                BY <4>1, <4>2, <4>3
        <3>4. DOMAIN dirs' = DOMAIN dirs \ {Head(s)} /\ \A d \in DOMAIN dirs' : dirs'[d] = dirs[d]
            BY <2>2 DEF s
        <3>5. doomed'[r] = Tail(s) /\ \A o \in Recorders : o # r => doomed'[o] = doomed[o]
            BY <2>2, <3>1 DEF s
        <3>6. DOMAIN dirs' \ Range(doomed'[r]) \subseteq DOMAIN dirs \ Range(doomed[r])
            BY <3>3, <3>4, <3>5 DEF s
        <3>7. calm' = calm
            BY <1>9 DEF RemoveDir
        <3> QED
            BY <2>2, <3>4, <3>5, <3>6, <3>7, SweepsStayFit
    <2> QED
        BY <1>9, <2>1, <2>2 DEF RemoveDir
<1>10. ASSUME NEW r \in Recorders, StatLog(r) PROVE InBounds'
    BY <1>10, SweepsStayFit DEF StatLog
<1>11. ASSUME NEW r \in Recorders, RotateLog(r) PROVE InBounds'
    BY <1>11, SweepsStayFit DEF RotateLog
<1>12. ASSUME NEW r \in Recorders, Kill(r) PROVE InBounds'
    BY <1>0, <1>12 DEF Kill
<1>13. CASE UNCHANGED vars
    <2>1. pc' = pc /\ dirs' = dirs /\ doomed' = doomed /\ calm' = calm
        BY <1>13 DEF vars
    <2> QED
        BY <2>1 DEF InBounds, SweepFits, Bounded, Bytes
<1> QED
    BY <1>1, <1>2, <1>3, <1>4, <1>5, <1>6, <1>7, <1>8, <1>9, <1>10, <1>11, <1>12, <1>13
       DEF Next, Step, Finished

\* Once nobody runs and nobody was killed, or after an invocation that was
\* alone, the snapshots and the log are within their bounds: however the sweeps
\* interleaved with each other, with the writes of other invocations and with
\* the renames of the log.
THEOREM RetentionIsKept == Spec => []RetentionHolds
<1>1. Init => InBounds
    BY DEF Init, InBounds
<1>2. Places /\ Stock /\ LogInHand /\ InBounds /\ (Settled => LogBounded) => RetentionHolds
    <2> SUFFICES ASSUME Places, Stock, LogInHand, InBounds, Settled, LogBounded
                 PROVE  Cardinality(DOMAIN dirs) <= MaxDirs
                        /\ (SumSizes <= MaxBytes \/ Cardinality(DOMAIN dirs) = 1)
        BY DEF RetentionHolds
    <2>1. \A r \in Recorders : pc[r] = "done" => pc[r] \notin ToSweep \cup {"killed"}
        BY DEF ToSweep, Early
    <2>2. \A r \in Recorders : pc[r] = "idle" => pc[r] \notin ToSweep \cup {"killed"} /\ ~SweepFits(r)
        BY DEF ToSweep, Early, SweepFits
    <2>3. \E r \in Recorders : pc[r] = "done" /\ SweepFits(r)
        <3>1. CASE (\A r \in Recorders : pc[r] \in {"idle", "done"}) /\ \E r \in Recorders : pc[r] = "done"
            BY <2>1, <2>2, <3>1 DEF InBounds
        <3>2. CASE \E r \in calm : pc[r] = "done"
            BY <3>2 DEF InBounds, LogInHand, ToSweep, Early
        <3> QED
            BY <3>1, <3>2 DEF Settled
    <2>4. Bounded(DOMAIN dirs)
        <3>1. PICK r \in Recorders : pc[r] = "done" /\ SweepFits(r)
            BY <2>3
        <3>2. doomed[r] = <<>>
            BY <3>1 DEF Stock
        <3>3. Range(<<>>) = {}
            BY DEF Range
        <3> QED
            BY <3>1, <3>2, <3>3 DEF SweepFits
    <2>5. SumSizes = Total(Bytes, DOMAIN dirs)
        BY DEF SumSizes, FoldFunction, Total, Bytes
    <2>6. IsFiniteSet(DOMAIN dirs) /\ \A d \in DOMAIN dirs : Bytes[d] \in Nat
        BY DEF Stock, Bytes
    <2>7. Cardinality(DOMAIN dirs) \in Nat /\ (Cardinality(DOMAIN dirs) = 0 => DOMAIN dirs = {})
        BY <2>6, FS_CardinalityType, FS_EmptySet
    <2>8. Total(Bytes, {}) = 0
        BY FS_EmptySet, TotalMeans
    <2>9. MaxBytes \in Nat /\ MaxDirs \in Nat
        BY BoundsAssumption
    <2> QED
        BY <2>4, <2>5, <2>7, <2>8, <2>9 DEF Bounded
<1>3. Init => Places
    BY DEF Init, Places, Early
<1>4. Init => LogInHand
    BY DEF Init, LogInHand
<1>5. Places /\ Stock /\ LogInHand /\ InBounds /\ [Next]_vars => InBounds'
    BY StepStock, StepInBounds
<1> QED
    BY <1>1, <1>2, <1>3, <1>4, <1>5, InitStock, StepStock, StepPlaces, StepLogInHand, LogIsRotated,
       PTL DEF Spec

(* ------------------------- what an invocation tells ---------------------- *)

Capturing == {"before", "after", "manifest"}
Late == {"end", "list", "remove", "stat", "rotate", "done"}
Statuses == {"", "dry-run", "applied", "failed", "succeeded"}
Outcome(p) ==
    CASE p = "info" -> "succeeded" [] p = "apply" -> "applied" [] p = "fail" -> "failed" [] OTHER -> p

\* The status goes with the plan, and an edit has its manifest or a warning once
\* the capture is over.
TellsWell(r) ==
    /\ pc[r] \in {"idle", "opening", "start", "run"} => status[r] = "" /\ ~manifest[r]
    /\ pc[r] \in Capturing \cup {"apply"} =>
           plan[r] # "info" /\ status[r] = IF plan[r] = "dry-run" THEN "dry-run" ELSE ""
    /\ pc[r] \in Capturing => ~manifest[r]
    /\ pc[r] = "mark" => plan[r] = "apply" /\ status[r] = "applied"
    /\ pc[r] = "ending" => status[r] = IF plan[r] = "info" THEN "" ELSE Outcome(plan[r])
    /\ pc[r] \in Late => status[r] = Outcome(plan[r])
    /\ pc[r] \in {"apply", "mark", "ending"} \cup Late =>
           IF plan[r] = "info" THEN ~manifest[r] ELSE manifest[r] \/ warned[r]
Told ==
    /\ plan \in [Recorders -> Plans] /\ status \in [Recorders -> Statuses]
    /\ warned \in [Recorders -> BOOLEAN] /\ manifest \in [Recorders -> BOOLEAN]
    /\ \A r \in Recorders : TellsWell(r)

\* A recorder that does not move tells the same.
LEMMA OthersTell ==
    ASSUME Places, Told, NEW r \in Recorders, NEW place, pc' = [pc EXCEPT ![r] = place],
           plan' \in [Recorders -> Plans], status' \in [Recorders -> Statuses],
           warned' \in [Recorders -> BOOLEAN], manifest' \in [Recorders -> BOOLEAN],
           \A o \in Recorders : o # r => /\ plan'[o] = plan[o] /\ status'[o] = status[o]
                                         /\ warned'[o] = warned[o] /\ manifest'[o] = manifest[o],
           TellsWell(r)'
    PROVE  Told'
<1>1. ASSUME NEW o \in Recorders, o # r PROVE TellsWell(o)'
    <2>1. /\ pc'[o] = pc[o] /\ plan'[o] = plan[o] /\ status'[o] = status[o]
          /\ warned'[o] = warned[o] /\ manifest'[o] = manifest[o] /\ TellsWell(o)
        BY <1>1 DEF Places, Told
    <2> QED
        BY <2>1 DEF TellsWell
<1> QED
    BY <1>1 DEF Told

\* A step within the places that say nothing new.
LEMMA TellsOn ==
    ASSUME Places, Told, NEW r \in Recorders, NEW place, pc' = [pc EXCEPT ![r] = place],
           UNCHANGED <<plan, status, warned, manifest>>,
           \/ pc[r] \in {"idle", "opening", "start"} /\ place \in {"opening", "start", "run"}
           \/ pc[r] \in Late /\ place \in Late
           \/ place = "killed"
    PROVE  Told'
<1>1. pc'[r] = place /\ TellsWell(r)
    BY DEF Places, Told
<1>2. TellsWell(r)'
    BY <1>1 DEF TellsWell, Late, Capturing
<1> QED
    BY <1>2, OthersTell DEF Told

\* Every step of an invocation tells well.
LEMMA StepTold == Places /\ Told /\ [Next]_vars => Told'
<1> SUFFICES ASSUME Places, Told, [Next]_vars PROVE Told'
    OBVIOUS
<1> USE DEF At, own
<1>1. ASSUME NEW r \in Recorders, Start(r) PROVE Told'
    BY <1>1, TellsOn DEF Start
<1>2. ASSUME NEW r \in Recorders, StartEvent(r) PROVE Told'
    BY <1>2, TellsOn DEF StartEvent, OpenLog, WriteLog
<1>3. ASSUME NEW r \in Recorders, Begin(r) PROVE Told'
    <2>1. /\ pc[r] = "run" /\ warned' = warned /\ manifest' = manifest /\ TellsWell(r)
          /\ \E p \in Plans : plan' = [plan EXCEPT ![r] = p]
        BY <1>3 DEF Begin, Told
    <2>2. plan' \in [Recorders -> Plans] /\ \A o \in Recorders : o # r => plan'[o] = plan[o]
        BY <2>1 DEF Told
    <2>3. CASE plan'[r] = "info" /\ pc' = [pc EXCEPT ![r] = "ending"] /\ status' = status
        <3>1. pc'[r] = "ending"
            BY <2>3 DEF Places
        <3>2. TellsWell(r)'
            BY <2>1, <2>3, <3>1 DEF TellsWell, Late, Capturing
        <3> QED
            BY <2>1, <2>2, <2>3, <3>2, OthersTell DEF Told
    <2>4. CASE /\ plan'[r] # "info" /\ pc' = [pc EXCEPT ![r] = "before"]
               /\ IF plan'[r] = "dry-run" THEN SetStatus(r, "dry-run") ELSE UNCHANGED status
        <3>1. pc'[r] = "before"
            BY <2>4 DEF Places
        <3>2. /\ status' \in [Recorders -> Statuses] /\ \A o \in Recorders : o # r => status'[o] = status[o]
              /\ status'[r] = IF plan'[r] = "dry-run" THEN "dry-run" ELSE ""
            BY <2>1, <2>4 DEF SetStatus, Told, TellsWell, Statuses
        <3>3. TellsWell(r)'
            BY <2>1, <2>4, <3>1, <3>2 DEF TellsWell, Late, Capturing
        <3> QED
            BY <2>1, <2>2, <2>4, <3>2, <3>3, OthersTell DEF Told
    <2> QED
        BY <1>3, <2>3, <2>4 DEF Begin
<1>4. ASSUME NEW r \in Recorders, CaptureSnapshot(r) PROVE Told'
    <2>1. ASSUME NEW file \in Files, CaptureFails(r, file) PROVE Told'
        <3>1. /\ pc[r] \in Capturing /\ pc' = [pc EXCEPT ![r] = "apply"] /\ TellsWell(r)
              /\ plan' = plan /\ status' = status /\ manifest' = manifest
              /\ warned' = [warned EXCEPT ![r] = TRUE]
            BY <2>1 DEF CaptureFails, Warn, Files, Capturing, Told
        <3>2. pc'[r] = "apply" /\ warned'[r] /\ warned' \in [Recorders -> BOOLEAN]
              /\ \A o \in Recorders : o # r => warned'[o] = warned[o]
            BY <3>1 DEF Places, Told
        <3>3. TellsWell(r)'
            BY <3>1, <3>2 DEF TellsWell, Late, Capturing
        <3> QED
            BY <3>1, <3>2, <3>3, OthersTell DEF Told
    <2>2. ASSUME NEW file \in Files, NEW next, WriteFile(r, file, next),
                 <<file, next>> \in {<<"before", "after">>, <<"after", "manifest">>, <<"manifest", "apply">>}
          PROVE  Told'
        <3>1. /\ pc[r] = file /\ pc' = [pc EXCEPT ![r] = next] /\ TellsWell(r)
              /\ plan' = plan /\ status' = status /\ warned' = warned
              /\ manifest' = [manifest EXCEPT ![r] = file = "manifest"]
            BY <2>2 DEF WriteFile, Told
        <3>2. pc'[r] = next /\ (manifest'[r] <=> file = "manifest") /\ manifest' \in [Recorders -> BOOLEAN]
              /\ \A o \in Recorders : o # r => manifest'[o] = manifest[o]
            BY <3>1 DEF Places, Told
        <3>3. TellsWell(r)'
            BY <2>2, <3>1, <3>2 DEF TellsWell, Late, Capturing
        <3> QED
            BY <3>1, <3>2, <3>3, OthersTell DEF Told
    <2> QED
        BY <1>4, <2>1, <2>2 DEF CaptureSnapshot, Files
<1>5. ASSUME NEW r \in Recorders, Apply(r) PROVE Told'
    <2>1. /\ pc[r] = "apply" /\ plan' = plan /\ warned' = warned /\ manifest' = manifest /\ TellsWell(r)
          /\ plan[r] \in Plans /\ status[r] = IF plan[r] = "dry-run" THEN "dry-run" ELSE ""
        BY <1>5 DEF Apply, Told, TellsWell
    <2>2. \E place \in {"mark", "ending"} :
              /\ pc' = [pc EXCEPT ![r] = place] /\ (place = "mark" <=> plan[r] = "apply")
              /\ status' \in [Recorders -> Statuses] /\ \A o \in Recorders : o # r => status'[o] = status[o]
              /\ plan[r] # "info" /\ status'[r] = Outcome(plan[r])
        BY <1>5, <2>1 DEF Apply, SetStatus, SetDefaultStatus, Told, TellsWell, Statuses, Outcome, Plans
    <2>3. PICK place \in {"mark", "ending"} :
              /\ pc' = [pc EXCEPT ![r] = place] /\ (place = "mark" <=> plan[r] = "apply")
              /\ status' \in [Recorders -> Statuses] /\ \A o \in Recorders : o # r => status'[o] = status[o]
              /\ plan[r] # "info" /\ status'[r] = Outcome(plan[r])
        BY <2>2
    <2>4. pc'[r] = place
        BY <2>3 DEF Places
    <2>5. TellsWell(r)'
        BY <2>1, <2>3, <2>4 DEF TellsWell, Late, Capturing, Outcome
    <2> QED
        BY <2>1, <2>3, <2>5, OthersTell DEF Told
<1>6. ASSUME NEW r \in Recorders, MarkSnapshotApplied(r) PROVE Told'
    <2>1. /\ pc[r] = "mark" /\ pc' = [pc EXCEPT ![r] = "ending"] /\ TellsWell(r)
          /\ plan' = plan /\ status' = status /\ manifest' = manifest
          /\ warned' = warned \/ warned' = [warned EXCEPT ![r] = TRUE]
        BY <1>6 DEF MarkSnapshotApplied, Warn, Told
    <2>2. pc'[r] = "ending" /\ (warned[r] => warned'[r]) /\ warned' \in [Recorders -> BOOLEAN]
          /\ \A o \in Recorders : o # r => warned'[o] = warned[o]
        BY <2>1 DEF Places, Told
    <2>3. TellsWell(r)'
        BY <2>1, <2>2 DEF TellsWell, Late, Capturing, Outcome
    <2> QED
        BY <2>1, <2>2, <2>3, OthersTell DEF Told
<1>7. ASSUME NEW r \in Recorders, EndEvent(r) PROVE Told'
    <2>1. CASE At(r, "ending", "end") /\ OpenLog(r) /\ SetDefaultStatus(r, "succeeded")
        <3>1. /\ pc[r] = "ending" /\ pc' = [pc EXCEPT ![r] = "end"] /\ TellsWell(r)
              /\ plan' = plan /\ warned' = warned /\ manifest' = manifest
            BY <2>1 DEF OpenLog, Told
        <3>2. plan[r] \in Plans /\ status[r] = IF plan[r] = "info" THEN "" ELSE Outcome(plan[r])
            BY <3>1 DEF Told, TellsWell
        <3>3. /\ status' \in [Recorders -> Statuses] /\ \A o \in Recorders : o # r => status'[o] = status[o]
              /\ status'[r] = Outcome(plan[r])
            BY <2>1, <3>2 DEF SetDefaultStatus, SetStatus, Told, Statuses, Outcome, Plans
        <3>4. pc'[r] = "end"
            BY <3>1 DEF Places
        <3>5. TellsWell(r)'
            BY <3>1, <3>3, <3>4 DEF TellsWell, Late, Capturing
        <3> QED
            BY <3>1, <3>3, <3>5, OthersTell DEF Told
    <2>2. CASE At(r, "end", "list") /\ WriteLog(r, Event(r, "end")) /\ UNCHANGED status
        BY <2>2, TellsOn DEF WriteLog, Late
    <2> QED
        BY <1>7, <2>1, <2>2 DEF EndEvent
<1>8. ASSUME NEW r \in Recorders, ListDirs(r) PROVE Told'
    BY <1>8, TellsOn DEF ListDirs, Late
<1>9. ASSUME NEW r \in Recorders, RemoveDir(r) PROVE Told'
    <2>1. CASE At(r, "remove", "stat")
        BY <1>9, <2>1, TellsOn DEF RemoveDir, Late
    <2>2. CASE pc[r] = "remove" /\ UNCHANGED pc
        BY <1>9, <2>2 DEF RemoveDir, Told, TellsWell
    <2> QED
        BY <1>9, <2>1, <2>2 DEF RemoveDir
<1>10. ASSUME NEW r \in Recorders, StatLog(r) PROVE Told'
    BY <1>10, TellsOn DEF StatLog, Late
<1>11. ASSUME NEW r \in Recorders, RotateLog(r) PROVE Told'
    BY <1>11, TellsOn DEF RotateLog, Late
<1>12. ASSUME NEW r \in Recorders, Kill(r) PROVE Told'
    BY <1>12, TellsOn DEF Kill
<1>13. CASE UNCHANGED vars
    BY <1>13 DEF vars, Told, TellsWell
<1> QED
    BY <1>1, <1>2, <1>3, <1>4, <1>5, <1>6, <1>7, <1>8, <1>9, <1>10, <1>11, <1>12, <1>13
       DEF Next, Step, Finished

(* -------------------------- what the log has of it ----------------------- *)

\* The files of the log are numbered as they were begun.
Numbered ==
    /\ \E X : logs \in Seq(X)
    /\ current \in 0 .. Len(logs)

\* The start event of r is in the log file g.
Started(r, g) == \E e \in logs[g] : e.id = r /\ e.kind = "start"
\* An invocation that is alone writes to the file at the path, and what it wrote
\* stays in the two generations.
InLog(r) ==
    /\ pc[r] \in {"start", "end"} => handle[r] = current /\ current # 0
    /\ pc[r] \in {"run", "before", "after", "manifest", "apply", "mark", "ending", "end",
                  "list", "remove", "stat", "rotate"} => current # 0 /\ Started(r, current)
    /\ pc[r] \in {"list", "remove", "stat", "rotate"} => Event(r, "end") \in logs[current]
    /\ pc[r] = "done" => \E g \in {current, previous} \ {0} : Started(r, g) /\ Event(r, "end") \in logs[g]

\* Every step of an invocation that is alone, but its first.
LEMMA StepInLog ==
    ASSUME Places, Numbered, Told, NEW r \in Recorders, InLog(r), Step(r), ~Start(r)
    PROVE  InLog(r)'
<1> USE DEF At, own, log
<1>0. ASSUME NEW place, pc' = [pc EXCEPT ![r] = place], UNCHANGED <<logs, current, previous>>,
             \/ /\ pc[r] \in {"run", "before", "after", "manifest", "apply", "mark"}
                /\ place \in {"before", "after", "manifest", "apply", "mark", "ending"}
             \/ /\ pc[r] \in {"list", "remove", "stat"} /\ place \in {"remove", "stat", "rotate"}
                /\ UNCHANGED <<status, warned, manifest>>
             \/ place = "killed"
      PROVE  InLog(r)'
    <2>1. pc'[r] = place
        BY <1>0 DEF Places
    <2> QED
        BY <1>0, <2>1 DEF InLog, Started, Event
<1>1. ASSUME OpenLog(r)
      PROVE  current' # 0 /\ handle'[r] = current' /\ (current # 0 => logs' = logs /\ current' = current)
    BY <1>1 DEF OpenLog, Numbered, Places
<1>2. ASSUME NEW e, WriteLog(r, e), handle[r] = current, current # 0
      PROVE  current' = current /\ logs'[current] = logs[current] \cup {e}
    <2>1. PICK X : logs \in Seq(X)
        BY DEF Numbered
    <2>2. current \in DOMAIN logs
        BY <1>2, <2>1 DEF Numbered
    <2> QED
        BY <1>2, <2>1, <2>2 DEF WriteLog
<1>3. CASE StartEvent(r)
    <2>1. CASE At(r, "opening", "start") /\ OpenLog(r)
        <3>1. pc'[r] = "start"
            BY <2>1 DEF Places
        <3> QED
            BY <1>1, <2>1, <3>1 DEF InLog
    <2>2. CASE At(r, "start", "run") /\ WriteLog(r, Event(r, "start"))
        <3>1. pc'[r] = "run"
            BY <2>2 DEF Places
        <3>2. handle[r] = current /\ current # 0
            BY <2>2 DEF InLog
        <3>3. current' = current /\ Event(r, "start") \in logs'[current]
            BY <1>2, <2>2, <3>2
        <3>4. Event(r, "start").id = r /\ Event(r, "start").kind = "start"
            BY DEF Event
        <3> QED
            BY <3>1, <3>2, <3>3, <3>4 DEF InLog, Started
    <2> QED
        BY <1>3, <2>1, <2>2 DEF StartEvent
<1>4. CASE Begin(r)
    BY <1>0, <1>4 DEF Begin
<1>5. CASE CaptureSnapshot(r)
    BY <1>0, <1>5 DEF CaptureSnapshot, WriteFile, CaptureFails, Files
<1>6. CASE Apply(r)
    BY <1>0, <1>6 DEF Apply
<1>7. CASE MarkSnapshotApplied(r)
    BY <1>0, <1>7 DEF MarkSnapshotApplied
<1>8. CASE EndEvent(r)
    <2>1. CASE At(r, "ending", "end") /\ OpenLog(r)
        <3>1. pc'[r] = "end"
            BY <2>1 DEF Places
        <3> QED
            BY <1>1, <2>1, <3>1 DEF InLog, Started
    <2>2. CASE At(r, "end", "list") /\ WriteLog(r, Event(r, "end")) /\ UNCHANGED status
        <3>1. pc'[r] = "list"
            BY <2>2 DEF Places
        <3>2. handle[r] = current /\ current # 0 /\ Started(r, current)
            BY <2>2 DEF InLog
        <3>3. current' = current /\ logs'[current] = logs[current] \cup {Event(r, "end")}
            BY <1>2, <2>2, <3>2
        <3>4. Event(r, "end")' = Event(r, "end")
            BY <2>2 DEF Event, WriteLog
        <3> QED
            BY <3>1, <3>2, <3>3, <3>4 DEF InLog, Started
    <2> QED
        BY <1>8, <2>1, <2>2 DEF EndEvent
<1>9. CASE ListDirs(r)
    BY <1>0, <1>9 DEF ListDirs
<1>10. CASE RemoveDir(r)
    <2>1. CASE At(r, "remove", "stat")
        BY <1>0, <1>10, <2>1 DEF RemoveDir
    <2>2. CASE UNCHANGED pc
        BY <1>10, <2>2 DEF RemoveDir, InLog, Started, Event
    <2> QED
        BY <1>10, <2>1, <2>2 DEF RemoveDir
<1>11. CASE StatLog(r)
    BY <1>0, <1>11 DEF StatLog
<1>12. CASE RotateLog(r)
    <2>1. /\ pc[r] = "rotate" /\ pc'[r] = "done" /\ UNCHANGED <<logs, status, warned, manifest>>
          /\ (previous' = current \/ current' = current)
        BY <1>12 DEF RotateLog, Places
    <2>2. current # 0 /\ Started(r, current) /\ Event(r, "end") \in logs[current]
        BY <2>1 DEF InLog
    <2>3. current \in {current', previous'} \ {0} /\ Event(r, "end")' = Event(r, "end")
        BY <2>1, <2>2 DEF Event
    <2> QED
        BY <2>1, <2>2, <2>3 DEF InLog, Started
<1>13. CASE Kill(r)
    BY <1>0, <1>13 DEF Kill
<1> QED
    BY <1>3, <1>4, <1>5, <1>6, <1>7, <1>8, <1>9, <1>10, <1>11, <1>12, <1>13 DEF Step

\* Every step keeps the files of the log numbered.
LEMMA StepNumbered == Numbered /\ [Next]_vars => Numbered'
<1> SUFFICES ASSUME Numbered, [Next]_vars PROVE Numbered'
    OBVIOUS
<1> USE DEF own, log
<1>1. PICK X : logs \in Seq(X)
    BY DEF Numbered
<1>2. ASSUME NEW r \in Recorders, OpenLog(r) PROVE Numbered'
    <2>1. CASE current = 0
        <3>1. logs \in Seq(X \cup {{}}) /\ {} \in X \cup {{}}
            BY <1>1, SeqMonotonic
        <3> DEFINE Y == X \cup {{}}
        <3> HIDE DEF Y
        <3>2. logs \in Seq(Y) /\ {} \in Y
            BY <3>1 DEF Y
        <3>3. Append(logs, {}) \in Seq(Y) /\ Len(Append(logs, {})) = Len(logs) + 1 /\ Len(logs) \in Nat
            BY <3>2, AppendProperties
        <3>4. logs' = Append(logs, {}) /\ current' = Len(logs) + 1
            BY <1>2, <2>1 DEF OpenLog
        <3>5. current' \in 0 .. Len(logs')
            BY <3>3, <3>4
        <3> QED
            BY <3>3, <3>4, <3>5 DEF Numbered
    <2>2. CASE current # 0
        BY <1>2, <2>2 DEF OpenLog, Numbered
    <2> QED
        BY <2>1, <2>2
<1>3. ASSUME NEW r \in Recorders, NEW e, WriteLog(r, e) PROVE Numbered'
    <2> DEFINE h == handle[r]
               Y == X \cup {logs[h] \cup {e}}
    <2>1. logs \in Seq(Y)
        BY <1>1, SeqMonotonic
    <2>2. logs' = [logs EXCEPT ![h] = @ \cup {e}] /\ current' = current
        BY <1>3 DEF WriteLog
    <2>3. logs[h] \cup {e} \in Y
        OBVIOUS
    <2>4. logs' = [logs EXCEPT ![h] = logs[h] \cup {e}]
        BY <2>2
    <2> HIDE DEF Y, h
    <2>5. Len(logs) \in Nat /\ DOMAIN logs = 1 .. Len(logs) /\ logs \in [1 .. Len(logs) -> Y]
        BY <2>1
    <2>6. logs' \in [1 .. Len(logs) -> Y]
        BY <2>3, <2>4, <2>5
    <2>7. logs' \in Seq(Y) /\ Len(logs') = Len(logs)
        BY <2>5, <2>6
    <2> QED
        BY <2>2, <2>7 DEF Numbered
<1>4. ASSUME UNCHANGED logs, current' = current \/ current' = 0 PROVE Numbered'
    BY <1>1, <1>4 DEF Numbered
<1>5. ASSUME NEW r \in Recorders, Step(r) PROVE Numbered'
    BY <1>2, <1>3, <1>4, <1>5
       DEF Step, Start, StartEvent, Begin, CaptureSnapshot, WriteFile, CaptureFails, Apply,
           MarkSnapshotApplied, EndEvent, ListDirs, RemoveDir, StatLog, RotateLog, Kill
<1>6. CASE UNCHANGED vars
    BY <1>4, <1>6 DEF vars
<1> QED
    BY <1>5, <1>6 DEF Next, Finished

(* ------------------------ what the directory has of it ------------------- *)

\* The directory of an invocation that is alone is the newest until it sweeps,
\* so its sweep leaves it; what it wrote there stays.
InDirs(r) ==
    /\ pc[r] \in Capturing \cup {"apply", "mark", "ending"} \cup Late /\ plan[r] # "info" => r \in DOMAIN dirs
    /\ pc[r] \in Capturing \cup {"apply", "mark", "ending", "end", "list"} /\ plan[r] # "info" =>
           Len(recency) >= 1 /\ recency[1] = r
    /\ pc[r] = "remove" /\ plan[r] # "info" => r \notin Range(doomed[r])
    /\ pc[r] \in {"apply", "mark", "ending"} \cup Late /\ manifest[r] => "manifest" \in dirs[r].files
    /\ pc[r] \in {"ending"} \cup Late /\ manifest[r] /\ plan[r] = "apply" => dirs[r].actual \/ warned[r]

\* A step of an invocation that is alone and leaves the directories alone.
LEMMA InDirsOn ==
    ASSUME Places, Told, NEW r \in Recorders, InDirs(r), NEW place, pc' = [pc EXCEPT ![r] = place],
           plan' = plan, dirs' = dirs, recency' = recency,
           manifest'[r] = manifest[r], warned[r] => warned'[r],
           \/ place \in {"opening", "start", "run", "killed"}
           \/ pc[r] \in Capturing /\ place = "apply"
           \/ pc[r] = "apply" /\ place \in {"mark", "ending"} /\ (plan[r] = "apply" => place = "mark")
           \/ pc[r] = "mark" /\ place = "ending" /\ ~manifest[r]
           \/ pc[r] \in {"ending", "end"} /\ place \in {"end", "list"}
           \/ pc[r] \in Late /\ place \in {"stat", "rotate", "done"}
    PROVE  InDirs(r)'
<1>1. pc'[r] = place /\ TellsWell(r)
    BY DEF Places, Told
<1> QED
    BY <1>1 DEF InDirs, TellsWell, Late, Capturing

\* Every step of an invocation that is alone, but its first.
LEMMA StepInDirs ==
    ASSUME Places, Stock, Stock', FilesInOrder', Told, NEW r \in Recorders, InDirs(r), Step(r), ~Start(r)
    PROVE  InDirs(r)'
<1> USE DEF At, own, snapshot
<1>1. CASE StartEvent(r)
    BY <1>1, InDirsOn DEF StartEvent, OpenLog, WriteLog
<1>2. CASE Begin(r)
    <2>0. pc[r] = "run" /\ ~manifest[r] /\ manifest' = manifest
        BY <1>2 DEF Begin, Told, TellsWell
    <2>1. CASE plan'[r] = "info" /\ pc' = [pc EXCEPT ![r] = "ending"]
        <3>1. pc'[r] = "ending"
            BY <2>1 DEF Places
        <3> QED
            BY <2>0, <2>1, <3>1 DEF InDirs, Capturing, Late
    <2>2. CASE /\ pc' = [pc EXCEPT ![r] = "before"] /\ dirs' = Made(r) /\ Touch(r)
               /\ \E n \in Sizes : size' = [size EXCEPT ![r] = n]
        <3>1. pc'[r] = "before" /\ DOMAIN dirs' = DOMAIN dirs \cup {r}
            BY <2>2 DEF Places, Made
        <3>2. size' \in [Recorders -> Nat] /\ doomed' = doomed
            BY <1>2, <2>2, BoundsAssumption DEF Stock, Begin
        <3>3. dirs' \in [DOMAIN dirs' -> [files : SUBSET Files, bytes : Nat, actual : BOOLEAN]]
            BY DEF Stock
        <3>4. recency'[1] = r /\ Len(recency') >= 1
            BY <2>0, <2>2, <3>1, <3>2, <3>3, StockTouched
        <3> QED
            BY <2>0, <3>1, <3>4 DEF InDirs, Capturing, Late
    <2> QED
        BY <1>2, <2>1, <2>2 DEF Begin
<1>3. CASE CaptureSnapshot(r)
    <2>1. ASSUME NEW file \in Files, CaptureFails(r, file) PROVE InDirs(r)'
        BY <2>1, InDirsOn DEF CaptureFails, Warn, Files, Capturing, Told
    <2>2. ASSUME NEW file \in Files, NEW next, WriteFile(r, file, next),
                 <<file, next>> \in {<<"before", "after">>, <<"after", "manifest">>, <<"manifest", "apply">>}
          PROVE  InDirs(r)'
        <3>1. /\ pc[r] = file /\ pc' = [pc EXCEPT ![r] = next] /\ plan' = plan /\ r \in DOMAIN dirs
              /\ DOMAIN dirs' = DOMAIN dirs
              /\ manifest' = [manifest EXCEPT ![r] = file = "manifest"]
              /\ IF file = "manifest" THEN Touch(r) ELSE UNCHANGED recency
              /\ size' = size /\ doomed' = doomed
            BY <2>2 DEF WriteFile, Put
        <3>2. pc'[r] = next /\ (manifest'[r] <=> file = "manifest") /\ plan[r] # "info"
            BY <2>2, <3>1 DEF Places, Told, TellsWell, Capturing
        <3>3. file = "manifest" => "manifest" \in dirs'[r].files
            <4>1. dirs[r] \in [files : SUBSET Files, bytes : Nat, actual : BOOLEAN]
                BY <3>1 DEF Stock
            <4>2. dirs'[r] = [dirs[r] EXCEPT !.files = @ \cup {file},
                                             !.bytes = IF file = "manifest" THEN @ ELSE @ + size[r]]
                BY <2>2, <3>1 DEF WriteFile, Put
            <4> QED
                BY <4>1, <4>2
        <3>4. Len(recency') >= 1 /\ recency'[1] = r
            <4>1. CASE file = "manifest"
                <5>1. size' \in [Recorders -> Nat] /\ DOMAIN dirs' = DOMAIN dirs \cup {r}
                    BY <3>1 DEF Stock
                <5>2. dirs' \in [DOMAIN dirs' -> [files : SUBSET Files, bytes : Nat, actual : BOOLEAN]]
                    BY DEF Stock
                <5> QED
                    BY <4>1, <3>1, <5>1, <5>2, StockTouched
            <4>2. CASE file # "manifest"
                <5>1. pc[r] \in Capturing
                    BY <2>2, <3>1 DEF Capturing
                <5> QED
                    BY <4>2, <5>1, <3>1, <3>2 DEF InDirs
            <4> QED
                BY <4>1, <4>2
        <3> QED
            BY <2>2, <3>1, <3>2, <3>3, <3>4 DEF InDirs, Capturing, Late
    <2> QED
        BY <1>3, <2>1, <2>2 DEF CaptureSnapshot, Files
<1>4. CASE Apply(r)
    BY <1>4, InDirsOn DEF Apply
<1>5. CASE MarkSnapshotApplied(r)
    <2>1. CASE ~manifest[r] /\ UNCHANGED <<warned, dirs>>
        BY <1>5, <2>1, InDirsOn DEF MarkSnapshotApplied
    <2>2. CASE manifest[r] /\ r \in DOMAIN dirs /\ dirs' = [dirs EXCEPT ![r].actual = TRUE]
        <3>1. /\ pc[r] = "mark" /\ pc'[r] = "ending" /\ plan' = plan /\ manifest' = manifest
              /\ recency' = recency
            BY <1>5 DEF MarkSnapshotApplied, Places
        <3>2. dirs[r] \in [files : SUBSET Files, bytes : Nat, actual : BOOLEAN]
            BY <2>2 DEF Stock
        <3>3. dirs'[r].files = dirs[r].files /\ dirs'[r].actual = TRUE /\ DOMAIN dirs' = DOMAIN dirs
            BY <2>2, <3>2
        <3> QED
            BY <3>1, <3>3 DEF InDirs, Capturing, Late
    <2>3. CASE manifest[r] /\ Warn(r) /\ UNCHANGED dirs
        <3>1. /\ pc[r] = "mark" /\ pc'[r] = "ending" /\ plan' = plan /\ manifest' = manifest
              /\ recency' = recency
            BY <1>5 DEF MarkSnapshotApplied, Places
        <3>2. warned'[r]
            BY <2>3 DEF Warn, Told
        <3> QED
            BY <2>3, <3>1, <3>2 DEF InDirs, Capturing, Late
    <2> QED
        BY <1>5, <2>1, <2>2, <2>3 DEF MarkSnapshotApplied
<1>6. CASE EndEvent(r)
    BY <1>6, InDirsOn DEF EndEvent, OpenLog, WriteLog
<1>7. CASE ListDirs(r)
    <2>1. /\ pc[r] = "list" /\ pc'[r] = "remove" /\ doomed'[r] = Doomed /\ Len(recency) \in Nat
          /\ UNCHANGED <<plan, manifest, warned, dirs, recency>>
        BY <1>7 DEF ListDirs, Places, Stock, Ordered
    <2>2. /\ IsFiniteSet(DOMAIN dirs) /\ (\A d \in DOMAIN dirs : dirs[d].bytes \in Nat)
          /\ Ordered(recency, DOMAIN dirs)
        BY DEF Stock
    <2>3. Len(recency) >= 1 => recency[1] \notin Range(Doomed)
        BY <2>2, SweepMeans DEF Doomed
    <2> QED
        BY <2>1, <2>3 DEF InDirs, Capturing, Late
<1>8. CASE RemoveDir(r)
    <2>1. CASE At(r, "remove", "stat") /\ UNCHANGED snapshot
        <3>1. UNCHANGED <<plan, dirs, recency, manifest, warned>>
            BY <1>8, <2>1 DEF RemoveDir
        <3> QED
            BY <2>1, <3>1, InDirsOn DEF Late
    <2>2. CASE /\ pc[r] = "remove" /\ doomed[r] # <<>> /\ UNCHANGED pc
               /\ dirs' = [d \in DOMAIN dirs \ {Head(doomed[r])} |-> dirs[d]]
               /\ doomed' = [doomed EXCEPT ![r] = Tail(@)]
        <3>1. PICK X : doomed \in [Recorders -> Seq(X)]
            BY DEF Stock
        <3> DEFINE s == doomed[r]
        <3>2. s \in Seq(X) /\ s # <<>>
            BY <2>2, <3>1
        <3> HIDE DEF s
        <3>3. Head(s) \in Range(s) /\ Range(Tail(s)) \subseteq Range(s)
            <4>1. /\ Tail(s) \in Seq(X) /\ Len(Tail(s)) = Len(s) - 1 /\ Head(s) = s[1]
                  /\ \A i \in 1 .. Len(Tail(s)) : Tail(s)[i] = s[i + 1]
                  /\ Len(s) \in Nat /\ Len(s) >= 1
                BY <3>2, HeadTailProperties
            <4>2. Range(s) = {s[i] : i \in 1 .. Len(s)}
                  /\ Range(Tail(s)) = {Tail(s)[i] : i \in 1 .. Len(Tail(s))}
                BY <3>2, <4>1, RangeEquality
            <4>3. ASSUME NEW i \in 1 .. Len(Tail(s)) PROVE Tail(s)[i] \in Range(s)
                <5>1. i + 1 \in 1 .. Len(s) /\ Tail(s)[i] = s[i + 1]
                    BY <4>1
                <5> QED
                    BY <4>2, <5>1
            <4>4. 1 \in 1 .. Len(s)
                BY <4>1
            <4> QED
                BY <4>1, <4>2, <4>3, <4>4
        <3>4. doomed'[r] = Tail(s) /\ UNCHANGED <<pc, plan, manifest, warned>>
            BY <1>8, <2>2, <3>1 DEF RemoveDir, s
        <3>5. DOMAIN dirs' = DOMAIN dirs \ {Head(s)} /\ \A d \in DOMAIN dirs' : dirs'[d] = dirs[d]
            BY <2>2 DEF s
        <3>6. CASE plan[r] = "info"
            <4>1. ~manifest[r]
                BY <2>2, <3>6 DEF Told, TellsWell, Late
            <4> QED
                BY <4>1, <2>2, <3>4, <3>6 DEF InDirs, Capturing, Late
        <3>7. CASE plan[r] # "info"
            <4>1. r \in DOMAIN dirs /\ r \notin Range(s)
                BY <2>2, <3>7 DEF InDirs, Late, s
            <4>2. r \in DOMAIN dirs' /\ dirs'[r] = dirs[r] /\ r \notin Range(doomed'[r])
                BY <4>1, <3>3, <3>4, <3>5
            <4> QED
                BY <4>2, <2>2, <3>4 DEF InDirs, Capturing, Late
        <3> QED
            BY <3>6, <3>7
    <2> QED
        BY <1>8, <2>1, <2>2 DEF RemoveDir
<1>9. CASE StatLog(r)
    BY <1>9, InDirsOn DEF StatLog, Late
<1>10. CASE RotateLog(r)
    BY <1>10, InDirsOn DEF RotateLog, Late
<1>11. CASE Kill(r)
    BY <1>11, InDirsOn DEF Kill
<1> QED
    BY <1>1, <1>2, <1>3, <1>4, <1>5, <1>6, <1>7, <1>8, <1>9, <1>10, <1>11 DEF Step

(* ------------------------------- the record ------------------------------ *)

\* The invocation that has been alone since it started has its record in order.
Undisturbed == \A r \in calm : InLog(r) /\ InDirs(r)

\* Every step keeps the record of the invocation that is alone: another one that
\* starts ends its being alone.
LEMMA StepUndisturbed ==
    ASSUME Places, Stock, Stock', FilesInOrder', LogInHand, Numbered, Told, Undisturbed, [Next]_vars
    PROVE  Undisturbed'
<1>1. ASSUME NEW r \in Recorders, Start(r) PROVE Undisturbed'
    <2>1. pc'[r] = "opening" /\ \A o \in calm' : o = r
        BY <1>1 DEF Start, At, Places
    <2>2. InLog(r)' /\ InDirs(r)'
        BY <2>1 DEF InLog, InDirs, Capturing, Late
    <2> QED
        BY <2>1, <2>2 DEF Undisturbed
<1>2. ASSUME NEW r \in Recorders, Step(r), ~Start(r) PROVE Undisturbed'
    <2>1. calm' = calm
        BY <1>2 DEF Step, StartEvent, Begin, CaptureSnapshot, WriteFile, CaptureFails, Apply,
                    MarkSnapshotApplied, EndEvent, ListDirs, RemoveDir, StatLog, RotateLog, Kill
    <2>2. r \in Running
        BY <1>2 DEF Running, At, Files, Step, StartEvent, Begin, CaptureSnapshot, WriteFile, CaptureFails,
                    Apply, MarkSnapshotApplied, EndEvent, ListDirs, RemoveDir, StatLog, RotateLog, Kill
    <2>3. \A o \in calm : o = r
        BY <2>2 DEF LogInHand
    <2>4. CASE r \in calm
        <3>1. InLog(r)' /\ InDirs(r)'
            BY <1>2, <2>4, StepInLog, StepInDirs DEF Undisturbed
        <3> QED
            BY <2>1, <2>3, <3>1 DEF Undisturbed
    <2> QED
        BY <2>1, <2>3, <2>4 DEF Undisturbed
<1>3. CASE UNCHANGED vars
    BY <1>3 DEF vars, own, snapshot, log, Undisturbed, InLog, InDirs, Started, Event
<1> QED
    BY <1>1, <1>2, <1>3 DEF Next, Finished

\* An invocation that no other one overlaps has its record when it is done: both
\* events, with the status of its plan, in the log that is kept, and the manifest
\* the end event names.
THEOREM RecordsAreKept == Spec => []UndisturbedIsRecorded
<1>1. Init => Undisturbed /\ Told /\ Numbered
    <2> SUFFICES ASSUME Init PROVE Undisturbed /\ Told /\ Numbered
        OBVIOUS
    <2>1. Undisturbed
        BY DEF Init, Undisturbed
    <2>2. Told
        BY DEF Init, Told, TellsWell, Plans, Statuses, Capturing, Late
    <2>3. Numbered
        <3>1. PICK D \in SUBSET Earlier : logs = <<{OldEvent(d) : d \in D}>> /\ current = 1
            BY DEF Init
        <3> DEFINE E == {OldEvent(d) : d \in D}
        <3> HIDE DEF E
        <3>2. <<E>> \in Seq({E}) /\ Len(<<E>>) = 1
            OBVIOUS
        <3>3. logs = <<E>>
            BY <3>1 DEF E
        <3>4. current \in 0 .. Len(logs)
            BY <3>1, <3>2, <3>3
        <3>5. \E X : logs \in Seq(X)
            BY <3>2, <3>3
        <3> QED
            BY <3>4, <3>5 DEF Numbered
    <2> QED
        BY <2>1, <2>2, <2>3
<1>2. Places /\ LogInHand /\ Told /\ Undisturbed => UndisturbedIsRecorded
    <2> SUFFICES ASSUME Places, LogInHand, Told, Undisturbed, NEW r \in calm, pc[r] = "done"
                 PROVE  LET kept == UNION {logs[g] : g \in {current, previous} \ {0}}
                            mine(kind) == {e \in kept : e.id = r /\ e.kind = kind}
                        IN /\ mine("start") # {}
                           /\ \E e \in mine("end") :
                                 /\ e.status = CASE plan[r] = "info" -> "succeeded"
                                                 [] plan[r] = "apply" -> "applied"
                                                 [] plan[r] = "fail" -> "failed" [] OTHER -> plan[r]
                                 /\ e.manifest => r \in DOMAIN dirs /\ "manifest" \in dirs[r].files
                                 /\ (~e.manifest /\ plan[r] # "info") => e.warned
                                 /\ (e.manifest /\ plan[r] = "apply") => (dirs[r].actual \/ e.warned)
        BY DEF UndisturbedIsRecorded
    <2> DEFINE kept == UNION {logs[g] : g \in {current, previous} \ {0}}
               ended == Event(r, "end")
    <2>1. r \in Recorders /\ InLog(r) /\ InDirs(r) /\ TellsWell(r)
        BY DEF LogInHand, Undisturbed, Told
    <2>2. PICK g \in {current, previous} \ {0} : Started(r, g) /\ ended \in logs[g]
        BY <2>1 DEF InLog
    <2>3. \E e \in kept : e.id = r /\ e.kind = "start"
        BY <2>2 DEF Started
    <2>4. /\ ended \in kept /\ ended.id = r /\ ended.kind = "end" /\ ended.status = status[r]
          /\ ended.warned = warned[r] /\ ended.manifest = manifest[r]
        BY <2>2 DEF Event
    <2>5. /\ status[r] = Outcome(plan[r])
          /\ IF plan[r] = "info" THEN ~manifest[r] ELSE manifest[r] \/ warned[r]
        BY <2>1 DEF TellsWell, Late
    <2>6. /\ plan[r] # "info" => r \in DOMAIN dirs
          /\ manifest[r] => "manifest" \in dirs[r].files
          /\ manifest[r] /\ plan[r] = "apply" => dirs[r].actual \/ warned[r]
        BY <2>1 DEF InDirs, Late
    <2> HIDE DEF kept, ended
    <2>7. /\ ended.status = CASE plan[r] = "info" -> "succeeded" [] plan[r] = "apply" -> "applied"
                              [] plan[r] = "fail" -> "failed" [] OTHER -> plan[r]
          /\ ended.manifest => r \in DOMAIN dirs /\ "manifest" \in dirs[r].files
          /\ (~ended.manifest /\ plan[r] # "info") => ended.warned
          /\ (ended.manifest /\ plan[r] = "apply") => (dirs[r].actual \/ ended.warned)
        BY <2>4, <2>5, <2>6 DEF Outcome
    <2> DEFINE mine(kind) == {e \in kept : e.id = r /\ e.kind = kind}
    <2>8. mine("start") # {} /\ ended \in mine("end")
        BY <2>3, <2>4
    <2> HIDE DEF mine
    <2> QED
        BY <2>7, <2>8 DEF kept, mine
<1>3. Init => Places /\ LogInHand
    BY DEF Init, Places, Early, LogInHand
<1>4. Places /\ Stock /\ FilesInOrder /\ LogInHand /\ Numbered /\ Told /\ Undisturbed /\ [Next]_vars
      => Undisturbed'
    BY StepStock, StepFilesInOrder, StepUndisturbed
<1> QED
    BY <1>1, <1>2, <1>3, <1>4, InitStock, StepStock, InitFilesInOrder, StepFilesInOrder, StepPlaces,
       StepLogInHand, StepNumbered, StepTold, PTL DEF Spec
=============================================================================
