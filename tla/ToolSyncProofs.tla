---------------------------- MODULE ToolSyncProofs ---------------------------
(* Proofs about ToolSync for one process: any set of versions, any number of  *)
(* syncs.  Two processes break what is proved here, as the run about a race   *)
(* shows, so that the process is named: Procs = {q}.                          *)
(*                                                                            *)
(* Stage says what a sync has made sure of at each of its steps.  A cached    *)
(* binary gets its first marker only when it is complete, and loses both      *)
(* before it is written again: CacheIsGenuine, however many calls fail.  The  *)
(* active binary is replaced before its markers, so that a second fault can   *)
(* leave markers that agree with a binary they were not written for; what is  *)
(* proved about them takes MaxFaults <= 1.                                    *)
EXTENDS ToolSync, TLAPS

Filling == {"mkdir", "download", "downloading", "verify", "extract", "extracting"}
Marking == {"writeArtifact", "readBack", "writeDigest"}

TypeOK(q) ==
    /\ lock \in Versions /\ dir \subseteq Versions
    /\ want \in [Procs -> Versions] /\ at \in [Procs -> Places]
    /\ DOMAIN archive = Versions
    /\ DOMAIN bin = Places /\ DOMAIN art = Places /\ DOMAIN digest = Places
    /\ DOMAIN seen = Procs /\ DOMAIN result = Procs
    /\ pc \in [Procs -> {"idle", "artifact", "digest", "marker", "clear", "copy", "install"}
                        \cup Filling \cup Marking]

\* What the sync of q has made sure of at each step.
Stage(q) ==
    LET w == want[q] IN
    /\ at[q] \in {"active", w}
    /\ pc[q] \in Filling \cup {"clear"} => at[q] = w
    /\ pc[q] \in Filling => art[w] = None
    /\ pc[q] \in Filling \ {"mkdir"} => w \in dir
    /\ pc[q] = "downloading" => archive[w] = Cut(w, q)
    /\ pc[q] \in {"extract", "extracting"} => archive[w] = Whole(w)
    /\ pc[q] = "extracting" => bin[w] = Cut(w, q) /\ seen[q] = Whole(w)
    /\ pc[q] \in Marking => bin[at[q]] = Whole(w) /\ (at[q] = w => w \in dir)
    /\ pc[q] \in {"readBack", "writeDigest", "digest", "marker"} => art[at[q]] = w
    /\ pc[q] = "writeDigest" => seen[q] = DigestOf(Whole(w))
    /\ pc[q] \in {"digest", "marker"} => bin[at[q]] # None
    /\ pc[q] = "marker" => seen[q] = DigestOf(bin[at[q]])
    /\ pc[q] = "copy" => bin[w] = Whole(w)
    /\ pc[q] = "install" => seen[q] = Whole(w)

\* A cached binary that has its artifact marker is complete.
CacheIsGenuine == \A v \in Versions : art[v] # None => bin[v] = Whole(v)

\* The active binary is a complete one.
ActiveRuns == bin["active"] = None \/ \E v \in Versions : bin["active"] = Whole(v)

Inv(q) == TypeOK(q) /\ Stage(q) /\ CacheIsGenuine /\ ActiveRuns /\ result[q] # "error"

\* The contents are told apart.
LEMMA Contents ==
    \A v, x, p : /\ Whole(v) # None /\ Cut(v, p) # None /\ Whole(v) # Cut(x, p)
                 /\ IsWhole(Whole(v)) /\ ~IsWhole(None) /\ ~IsWhole(Cut(v, p))
                 /\ (Whole(v) = Whole(x) => v = x)
                 /\ DigestOf(Whole(v)) = Whole(v) /\ DigestOf(None) = None
BY DEF Whole, Cut, None, IsWhole, DigestOf

\* Nothing is cached or installed, and the process is idle.
LEMMA InitInv == ASSUME NEW q, Procs = {q} PROVE Init => Inv(q)
BY DEF Init, Inv, TypeOK, Stage, CacheIsGenuine, ActiveRuns, Places, Filling, Marking

\* Every step keeps the invariant.
LEMMA StepInv == ASSUME NEW q, Procs = {q} PROVE Inv(q) /\ [Next]_vars => Inv(q)'
<1> SUFFICES ASSUME Inv(q), [Next]_vars PROVE Inv(q)'
    OBVIOUS
<1> USE Contents, SyncAssumption DEF Inv, TypeOK, Stage, CacheIsGenuine, ActiveRuns, Places, Filling, Marking
<1>1. CASE Start(q)
    BY <1>1 DEF Start, Goto, End, AtActive, Reachable, Mismatch, files
<1>2. CASE ReadArtifactMarker(q)
    BY <1>2 DEF ReadArtifactMarker, Goto, End, AtActive, Reachable, Mismatch, files
<1>3. CASE ReadBinary(q)
    BY <1>3 DEF ReadBinary, Goto, End, AtActive, Reachable, Mismatch, files
<1>4. CASE ReadDigestMarker(q)
    BY <1>4 DEF ReadDigestMarker, Goto, End, AtActive, Reachable, Mismatch, files
<1>5. CASE Clear(q)
    BY <1>5 DEF Clear, Goto, End, AtActive, Reachable, Mismatch, files
<1>6. CASE MakeDir(q)
    BY <1>6 DEF MakeDir, Goto, End, AtActive, Reachable, Mismatch, files
<1>7. CASE Download(q)
    BY <1>7 DEF Download, Goto, End, AtActive, Reachable, Mismatch, files
<1>8. CASE Downloaded(q)
    BY <1>8 DEF Downloaded, Goto, End, AtActive, Reachable, Mismatch, files
<1>9. CASE Verify(q)
    BY <1>9 DEF Verify, Goto, End, AtActive, Reachable, Mismatch, files
<1>10. CASE Extract(q)
    BY <1>10 DEF Extract, Goto, End, AtActive, Reachable, Mismatch, files
<1>11. CASE Extracted(q)
    BY <1>11 DEF Extracted, Goto, End, AtActive, Reachable, Mismatch, files
<1>12. CASE WriteArtifactMarker(q)
    BY <1>12 DEF WriteArtifactMarker, Goto, End, AtActive, Reachable, Mismatch, files
<1>13. CASE ReadBack(q)
    BY <1>13 DEF ReadBack, Goto, End, AtActive, Reachable, Mismatch, files
<1>14. CASE WriteDigestMarker(q)
    BY <1>14 DEF WriteDigestMarker, Goto, End, AtActive, Reachable, Mismatch, files
<1>15. CASE Copy(q)
    BY <1>15 DEF Copy, Goto, End, AtActive, Reachable, Mismatch, files
<1>16. CASE Install(q)
    BY <1>16 DEF Install, Goto, End, AtActive, Reachable, Mismatch, files
<1>17. CASE Fault(q)
    BY <1>17 DEF Fault, Goto, End, AtActive, Reachable, Mismatch, files
<1>18. CASE Update
    BY <1>18 DEF Update, files
<1>19. CASE UNCHANGED vars
    BY <1>19 DEF vars
<1> QED
    BY <1>1, <1>2, <1>3, <1>4, <1>5, <1>6, <1>7, <1>8, <1>9, <1>10, <1>11, <1>12, <1>13,
       <1>14, <1>15, <1>16, <1>17, <1>18, <1>19 DEF Next, SyncStep

\* Whatever a sync that was cut off left behind, however often that happened, no
\* later sync fails of it.
THEOREM NoLeftoverFails ==
    ASSUME NEW q, Procs = {q}
    PROVE  Spec => []LeftoversDoNotFail
<1>1. Init => Inv(q)
    BY InitInv
<1>2. Inv(q) /\ [Next]_vars => Inv(q)'
    BY StepInv
<1>3. Inv(q) => LeftoversDoNotFail
    BY DEF Inv, LeftoversDoNotFail
<1> QED
    BY <1>1, <1>2, <1>3, PTL DEF Spec

\* Once there is an active binary there always is a complete one, in every step:
\* nothing but the rename of copyFileAtomic touches it, and what that installs is
\* the complete cached binary.
THEOREM AlwaysRunnable ==
    ASSUME NEW q, Procs = {q}
    PROVE  Spec => StaysRunnable
<1> DEFINE Runs == IsWhole(bin["active"]) => IsWhole(bin'["active"])
<1>1. Init => Inv(q)
    BY InitInv
<1>2. Inv(q) /\ [Next]_vars => Inv(q)'
    BY StepInv
<1>3. Inv(q) /\ [Next]_vars => [Runs]_vars
    <2> SUFFICES ASSUME Inv(q), [Next]_vars PROVE Runs
        OBVIOUS
    <2> USE Contents, SyncAssumption DEF Inv, TypeOK, Stage, Places, Filling, Marking
    <2>1. CASE Start(q)
        BY <2>1 DEF Start, Goto, End, AtActive, Reachable, Mismatch, files
    <2>2. CASE ReadArtifactMarker(q)
        BY <2>2 DEF ReadArtifactMarker, Goto, End, AtActive, Reachable, Mismatch, files
    <2>3. CASE ReadBinary(q)
        BY <2>3 DEF ReadBinary, Goto, End, AtActive, Reachable, Mismatch, files
    <2>4. CASE ReadDigestMarker(q)
        BY <2>4 DEF ReadDigestMarker, Goto, End, AtActive, Reachable, Mismatch, files
    <2>5. CASE Clear(q)
        BY <2>5 DEF Clear, Goto, End, AtActive, Reachable, Mismatch, files
    <2>6. CASE MakeDir(q)
        BY <2>6 DEF MakeDir, Goto, End, AtActive, Reachable, Mismatch, files
    <2>7. CASE Download(q)
        BY <2>7 DEF Download, Goto, End, AtActive, Reachable, Mismatch, files
    <2>8. CASE Downloaded(q)
        BY <2>8 DEF Downloaded, Goto, End, AtActive, Reachable, Mismatch, files
    <2>9. CASE Verify(q)
        BY <2>9 DEF Verify, Goto, End, AtActive, Reachable, Mismatch, files
    <2>10. CASE Extract(q)
        BY <2>10 DEF Extract, Goto, End, AtActive, Reachable, Mismatch, files
    <2>11. CASE Extracted(q)
        BY <2>11 DEF Extracted, Goto, End, AtActive, Reachable, Mismatch, files
    <2>12. CASE WriteArtifactMarker(q)
        BY <2>12 DEF WriteArtifactMarker, Goto, End, AtActive, Reachable, Mismatch, files
    <2>13. CASE ReadBack(q)
        BY <2>13 DEF ReadBack, Goto, End, AtActive, Reachable, Mismatch, files
    <2>14. CASE WriteDigestMarker(q)
        BY <2>14 DEF WriteDigestMarker, Goto, End, AtActive, Reachable, Mismatch, files
    <2>15. CASE Copy(q)
        BY <2>15 DEF Copy, Goto, End, AtActive, Reachable, Mismatch, files
    <2>16. CASE Install(q)
        BY <2>16 DEF Install, Goto, End, AtActive, Reachable, Mismatch, files
    <2>17. CASE Fault(q)
        BY <2>17 DEF Fault, Goto, End, AtActive, Reachable, Mismatch, files
    <2>18. CASE Update
        BY <2>18 DEF Update, files
    <2>19. CASE UNCHANGED vars
        BY <2>19 DEF vars
    <2> QED
        BY <2>1, <2>2, <2>3, <2>4, <2>5, <2>6, <2>7, <2>8, <2>9, <2>10, <2>11, <2>12,
           <2>13, <2>14, <2>15, <2>16, <2>17, <2>18, <2>19 DEF Next, SyncStep
<1> QED
    BY <1>1, <1>2, <1>3, PTL DEF Spec, StaysRunnable

(* ----------------------- one fault: the two markers ---------------------- *)

MarkersAgree ==
    \/ art["active"] = None /\ digest["active"] = None
    \/ \E v \in Versions : art["active"] = v /\ digest["active"] = Whole(v)

MarkedRightly == \E v \in Versions : art["active"] = v /\ bin["active"] = Whole(v)

\* The active binary is replaced, then its artifact marker, then its digest.  The
\* sync that follows a fault in between starts from markers that disagree, and
\* there is no other fault.
Markers(q) ==
    /\ faults \in Nat /\ faults <= MaxFaults
    /\ \/ pc[q] \in Marking /\ at[q] = "active"
       \/ MarkersAgree \/ MarkedRightly
    /\ faults = 0 /\ ~(pc[q] \in {"readBack", "writeDigest"} /\ at[q] = "active") => MarkersAgree

\* With one fault at most, every step keeps the markers in order.
LEMMA StepMarkers ==
    ASSUME NEW q, Procs = {q}, MaxFaults <= 1
    PROVE  Inv(q) /\ Markers(q) /\ [Next]_vars => Markers(q)'
<1> SUFFICES ASSUME Inv(q), Markers(q), [Next]_vars PROVE Markers(q)'
    OBVIOUS
<1> USE Contents, SyncAssumption DEF Inv, TypeOK, Stage, Markers, MarkersAgree, MarkedRightly, Places, Filling, Marking
<1>1. CASE Start(q)
    BY <1>1 DEF Start, Goto, End, AtActive, Reachable, Mismatch, files
<1>2. CASE ReadArtifactMarker(q)
    BY <1>2 DEF ReadArtifactMarker, Goto, End, AtActive, Reachable, Mismatch, files
<1>3. CASE ReadBinary(q)
    BY <1>3 DEF ReadBinary, Goto, End, AtActive, Reachable, Mismatch, files
<1>4. CASE ReadDigestMarker(q)
    BY <1>4 DEF ReadDigestMarker, Goto, End, AtActive, Reachable, Mismatch, files
<1>5. CASE Clear(q)
    BY <1>5 DEF Clear, Goto, End, AtActive, Reachable, Mismatch, files
<1>6. CASE MakeDir(q)
    BY <1>6 DEF MakeDir, Goto, End, AtActive, Reachable, Mismatch, files
<1>7. CASE Download(q)
    BY <1>7 DEF Download, Goto, End, AtActive, Reachable, Mismatch, files
<1>8. CASE Downloaded(q)
    BY <1>8 DEF Downloaded, Goto, End, AtActive, Reachable, Mismatch, files
<1>9. CASE Verify(q)
    BY <1>9 DEF Verify, Goto, End, AtActive, Reachable, Mismatch, files
<1>10. CASE Extract(q)
    BY <1>10 DEF Extract, Goto, End, AtActive, Reachable, Mismatch, files
<1>11. CASE Extracted(q)
    BY <1>11 DEF Extracted, Goto, End, AtActive, Reachable, Mismatch, files
<1>12. CASE WriteArtifactMarker(q)
    BY <1>12 DEF WriteArtifactMarker, Goto, End, AtActive, Reachable, Mismatch, files
<1>13. CASE ReadBack(q)
    BY <1>13 DEF ReadBack, Goto, End, AtActive, Reachable, Mismatch, files
<1>14. CASE WriteDigestMarker(q)
    BY <1>14 DEF WriteDigestMarker, Goto, End, AtActive, Reachable, Mismatch, files
<1>15. CASE Copy(q)
    BY <1>15 DEF Copy, Goto, End, AtActive, Reachable, Mismatch, files
<1>16. CASE Install(q)
    BY <1>16 DEF Install, Goto, End, AtActive, Reachable, Mismatch, files
<1>17. CASE Fault(q)
    BY <1>17 DEF Fault, Goto, End, AtActive, Reachable, Mismatch, files
<1>18. CASE Update
    BY <1>18 DEF Update, files
<1>19. CASE UNCHANGED vars
    BY <1>19 DEF vars
<1> QED
    BY <1>1, <1>2, <1>3, <1>4, <1>5, <1>6, <1>7, <1>8, <1>9, <1>10, <1>11, <1>12, <1>13,
       <1>14, <1>15, <1>16, <1>17, <1>18, <1>19 DEF Next, SyncStep

\* Both hold in every execution.
LEMMA MarkersHold ==
    ASSUME NEW q, Procs = {q}, MaxFaults <= 1
    PROVE  Spec => [](Inv(q) /\ Markers(q))
<1>1. Init => Inv(q)
    BY InitInv
<1>2. Init => Markers(q)
    BY SyncAssumption DEF Init, Markers, MarkersAgree, Places
<1>3. Inv(q) /\ [Next]_vars => Inv(q)'
    BY StepInv
<1>4. Inv(q) /\ Markers(q) /\ [Next]_vars => Markers(q)'
    BY StepMarkers
<1> QED
    BY <1>1, <1>2, <1>3, <1>4, PTL DEF Spec

\* What the markers of the active binary attest, between the renames, is so.
LEMMA AttestedIsGenuine ==
    ASSUME NEW q, Procs = {q}, Inv(q), Markers(q), ~(pc[q] \in Marking /\ at[q] = "active"),
           NEW v \in Versions, Attested("active", v)
    PROVE  bin["active"] = Whole(v)
BY Contents, SyncAssumption DEF Inv, ActiveRuns, Markers, MarkersAgree, MarkedRightly,
   Attested

\* After at most one failing call, a kill at any step or a wrong download, what the
\* next sync would call current, and what it would install without a download, is
\* the complete binary of the artifact the lockfile names.
THEOREM OneFaultLeavesGenuine ==
    ASSUME NEW q, Procs = {q}, MaxFaults <= 1
    PROVE  Spec => []CurrentIsGenuine
<1>1. Inv(q) /\ Markers(q) => CurrentIsGenuine
    <2> SUFFICES ASSUME Inv(q), Markers(q), pc[q] = "idle", NEW v \in Versions, NEW place \in {"active", v},
                        Attested(place, v)
                 PROVE  bin[place] = Whole(v)
        BY DEF CurrentIsGenuine
    <2>1. CASE place = "active"
        BY <2>1, AttestedIsGenuine DEF Marking
    <2>2. CASE place = v
        BY <2>2, SyncAssumption DEF Attested, Inv, CacheIsGenuine
    <2> QED
        BY <2>1, <2>2
<1> QED
    BY MarkersHold, <1>1, PTL

\* A sync that reports success, by installing or by finding the binary current,
\* leaves the binary it was asked for.
THEOREM SyncsInstall ==
    ASSUME NEW q, Procs = {q}, MaxFaults <= 1
    PROVE  Spec => SuccessInstalls
<1> DEFINE Installs == \A p \in Procs :
               result'[p] \in {"installed", "current"} /\ result[p] = "none" =>
                   bin'["active"] = Whole(want[p])
<1>1. Inv(q) /\ Markers(q) /\ [Next]_vars => [Installs]_vars
    <2> SUFFICES ASSUME Inv(q), Markers(q), [Next]_vars PROVE Installs
        OBVIOUS
    <2>a. ASSUME pc[q] = "marker", at[q] = "active", digest["active"] = seen[q]
          PROVE  bin["active"] = Whole(want[q])
        <3>1. Attested("active", want[q]) /\ want[q] \in Versions
            BY <2>a DEF Attested, Inv, TypeOK, Stage
        <3> QED
            BY <2>a, <3>1, AttestedIsGenuine DEF Marking
    <2> USE DEF Inv, TypeOK, Stage, Places, Filling, Marking
    <2>1. CASE Start(q)
        BY <2>1 DEF Start, Goto, End, AtActive, Reachable, Mismatch, files
    <2>2. CASE ReadArtifactMarker(q)
        BY <2>2 DEF ReadArtifactMarker, Goto, End, AtActive, Reachable, Mismatch, files
    <2>3. CASE ReadBinary(q)
        BY <2>3 DEF ReadBinary, Goto, End, AtActive, Reachable, Mismatch, files
    <2>4. CASE ReadDigestMarker(q)
        BY <2>4, <2>a DEF ReadDigestMarker, Goto, End, AtActive, Reachable, Mismatch, files
    <2>5. CASE Clear(q)
        BY <2>5 DEF Clear, Goto, End, AtActive, Reachable, Mismatch, files
    <2>6. CASE MakeDir(q)
        BY <2>6 DEF MakeDir, Goto, End, AtActive, Reachable, Mismatch, files
    <2>7. CASE Download(q)
        BY <2>7 DEF Download, Goto, End, AtActive, Reachable, Mismatch, files
    <2>8. CASE Downloaded(q)
        BY <2>8 DEF Downloaded, Goto, End, AtActive, Reachable, Mismatch, files
    <2>9. CASE Verify(q)
        BY <2>9 DEF Verify, Goto, End, AtActive, Reachable, Mismatch, files
    <2>10. CASE Extract(q)
        BY <2>10 DEF Extract, Goto, End, AtActive, Reachable, Mismatch, files
    <2>11. CASE Extracted(q)
        BY <2>11 DEF Extracted, Goto, End, AtActive, Reachable, Mismatch, files
    <2>12. CASE WriteArtifactMarker(q)
        BY <2>12 DEF WriteArtifactMarker, Goto, End, AtActive, Reachable, Mismatch, files
    <2>13. CASE ReadBack(q)
        BY <2>13 DEF ReadBack, Goto, End, AtActive, Reachable, Mismatch, files
    <2>14. CASE WriteDigestMarker(q)
        BY <2>14 DEF WriteDigestMarker, Goto, End, AtActive, Reachable, Mismatch, files
    <2>15. CASE Copy(q)
        BY <2>15 DEF Copy, Goto, End, AtActive, Reachable, Mismatch, files
    <2>16. CASE Install(q)
        BY <2>16 DEF Install, Goto, End, AtActive, Reachable, Mismatch, files
    <2>17. CASE Fault(q)
        BY <2>17 DEF Fault, Goto, End, AtActive, Reachable, Mismatch, files
    <2>18. CASE Update
        BY <2>18 DEF Update, files
    <2>19. CASE UNCHANGED vars
        BY <2>19 DEF vars
    <2> QED
        BY <2>1, <2>2, <2>3, <2>4, <2>5, <2>6, <2>7, <2>8, <2>9, <2>10, <2>11, <2>12,
           <2>13, <2>14, <2>15, <2>16, <2>17, <2>18, <2>19 DEF Next, SyncStep
<1> QED
    BY MarkersHold, <1>1, PTL DEF Spec, SuccessInstalls
=============================================================================
