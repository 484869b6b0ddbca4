------------------------------- MODULE ToolSync ------------------------------
(* refute-tool sync (internal/toolchain/sync.go): the binary that the lockfile *)
(* names is downloaded, verified and extracted into a cache directory of its   *)
(* own, then copied over .refute/bin/refute.  Beside each of the two binaries  *)
(* lie two markers: which artifact it comes from, and its own digest, taken    *)
(* after it was put there.  A sync whose markers match does nothing.           *)
(*                                                                             *)
(* Nothing locks .refute: syncs may overlap, each may fail or be killed at any *)
(* step, and the lockfile may change between two of them.                      *)
EXTENDS Integers

CONSTANTS
    Procs,      \* the processes that run syncs
    Versions,   \* the artifacts the lockfile may name, by their SHA-256
    MaxSyncs,   \* bound: syncs started
    MaxFaults   \* bound: failing calls, kills and wrong downloads

None == [of |-> "none"]

\* A version is a digest in hexadecimal: none of the other names is one.
ASSUME SyncAssumption ==
    /\ "active" \notin Versions /\ "wrong" \notin Versions /\ None \notin Versions
    /\ MaxSyncs \in Nat /\ MaxFaults \in Nat

VARIABLES
    lock,           \* the artifact refute.lock.json names
    dir,            \* the cache directories that exist
    archive,        \* version -> its downloaded archive
    bin,            \* place -> the binary there
    art, digest,    \* place -> what its two markers hold
    pc,             \* process -> its next step
    want,           \* process -> the artifact it read from the lockfile
    at,             \* process -> the place it checks or marks
    seen,           \* process -> the digest, or the binary, it has just read
    result,         \* process -> how its last sync ended
    syncs, faults

files == <<dir, archive, bin, art, digest>>
vars == <<lock, dir, archive, bin, art, digest, pc, want, at, seen, result,
          syncs, faults>>

Places == {"active"} \cup Versions
\* A file an O_TRUNC open has emptied and its owner has not yet filled, and a
\* complete one.  A digest tells the versions and the whole from the cut.
Cut(v, p) == [of |-> v, whole |-> FALSE, owner |-> p]
Whole(v) == [of |-> v, whole |-> TRUE]
Wrong == Whole("wrong")         \* an archive other than the lockfile's
IsWhole(c) == c # None /\ c.whole
DigestOf(c) == IF c = None THEN None ELSE [of |-> c.of, whole |-> c.whole]

Init ==
    /\ lock \in Versions
    /\ dir = {} /\ archive = [v \in Versions |-> None]
    /\ bin = [l \in Places |-> None]
    /\ art = [l \in Places |-> None] /\ digest = [l \in Places |-> None]
    /\ pc = [p \in Procs |-> "idle"]
    /\ want = [p \in Procs |-> lock]
    /\ at = [p \in Procs |-> "active"]
    /\ seen = [p \in Procs |-> None]
    /\ result = [p \in Procs |-> "none"]
    /\ syncs = 0 /\ faults = 0

Goto(p, step) == pc' = [pc EXCEPT ![p] = step]
End(p, how) == Goto(p, "idle") /\ result' = [result EXCEPT ![p] = how]
AtActive(p) == at[p] = "active"

(* ---------------------- is what is installed current? ------------------- *)

\* LoadLock, SelectArtifact and the directories; activeMatches comes first.
Start(p) ==
    /\ pc[p] = "idle" /\ syncs < MaxSyncs
    /\ syncs' = syncs + 1
    /\ want' = [want EXCEPT ![p] = lock]
    /\ at' = [at EXCEPT ![p] = "active"]
    /\ result' = [result EXCEPT ![p] = "none"]
    /\ Goto(p, "artifact")
    /\ UNCHANGED <<lock, files, seen, faults>>

\* Faulty variants, here and below: mistakes TLC must notice when they take the
\* place of the definition that follows.  The same place is looked at again.
MismatchStays(p) == UNCHANGED at /\ Goto(p, "artifact")

\* No match at the active binary: the cache is looked at; no match there either:
\* the cache is filled anew.
Mismatch(p) ==
    IF AtActive(p)
    THEN at' = [at EXCEPT ![p] = want[p]] /\ Goto(p, "artifact")
    ELSE UNCHANGED at /\ Goto(p, "clear")

\* Faulty: a cache directory that exists is taken for a cached binary.
CacheByDirectory(p) ==
    /\ pc[p] = "artifact"
    /\ IF AtActive(p)
       THEN IF art["active"] = want[p] THEN Goto(p, "digest") /\ UNCHANGED at ELSE Mismatch(p)
       ELSE UNCHANGED at /\ Goto(p, IF want[p] \in dir THEN "copy" ELSE "clear")
    /\ UNCHANGED <<lock, files, want, seen, result, syncs, faults>>

\* markerMatches
ReadArtifactMarker(p) ==
    /\ pc[p] = "artifact"
    /\ IF bin[at[p]] # None /\ art[at[p]] = want[p]
       THEN Goto(p, "digest") /\ UNCHANGED at
       ELSE Mismatch(p)
    /\ UNCHANGED <<lock, files, want, seen, result, syncs, faults>>

\* digestMarkerMatches reads the binary, then the marker.
ReadBinary(p) ==
    /\ pc[p] = "digest"
    /\ seen' = [seen EXCEPT ![p] = DigestOf(bin[at[p]])]
    /\ IF digest[at[p]] # None /\ bin[at[p]] # None
       THEN Goto(p, "marker") /\ UNCHANGED at
       ELSE Mismatch(p)
    /\ UNCHANGED <<lock, files, want, result, syncs, faults>>

\* Faulty: that the marker is there is enough.
ReadDigestMarkerUnread(p) ==
    /\ pc[p] = "marker"
    /\ IF AtActive(p) THEN End(p, "current") ELSE Goto(p, "copy") /\ UNCHANGED result
    /\ UNCHANGED <<lock, files, want, at, seen, syncs, faults>>

ReadDigestMarker(p) ==
    /\ pc[p] = "marker"
    /\ IF digest[at[p]] # seen[p] THEN Mismatch(p) /\ UNCHANGED result
       ELSE /\ UNCHANGED at
            /\ IF AtActive(p) THEN End(p, "current")
               ELSE Goto(p, "copy") /\ UNCHANGED result
    /\ UNCHANGED <<lock, files, want, seen, syncs, faults>>

(* ------------------------------ fill the cache -------------------------- *)

\* os.RemoveAll(cacheDir)
Clear(p) ==
    LET v == want[p] IN
    /\ pc[p] = "clear"
    /\ dir' = dir \ {v}
    /\ archive' = [archive EXCEPT ![v] = None]
    /\ bin' = [bin EXCEPT ![v] = None]
    /\ art' = [art EXCEPT ![v] = None] /\ digest' = [digest EXCEPT ![v] = None]
    /\ Goto(p, "mkdir")
    /\ UNCHANGED <<lock, want, at, seen, result, syncs, faults>>

MakeDir(p) ==
    /\ pc[p] = "mkdir"
    /\ dir' = dir \cup {want[p]}
    /\ Goto(p, "download")
    /\ UNCHANGED <<lock, archive, bin, art, digest, want, at, seen, result, syncs, faults>>

\* download opens the archive with O_TRUNC; there may be no directory by now.
Download(p) ==
    /\ pc[p] = "download"
    /\ IF want[p] \in dir
       THEN /\ archive' = [archive EXCEPT ![want[p]] = Cut(want[p], p)]
            /\ Goto(p, "downloading") /\ UNCHANGED result
       ELSE End(p, "error") /\ UNCHANGED archive
    /\ UNCHANGED <<lock, dir, bin, art, digest, want, at, seen, syncs, faults>>

\* What it writes reaches the path only while the file there is its own.  The
\* server may send something else than the lockfile names.
Downloaded(p) ==
    /\ pc[p] = "downloading"
    /\ \E served \in {Whole(want[p]), Wrong} :
           /\ archive' = IF archive[want[p]] = Cut(want[p], p)
                         THEN [archive EXCEPT ![want[p]] = served] ELSE archive
           /\ faults' = IF served = Wrong THEN faults + 1 ELSE faults
           /\ faults' <= MaxFaults
    /\ Goto(p, "verify")
    /\ UNCHANGED <<lock, dir, bin, art, digest, want, at, seen, result, syncs>>

Verify(p) ==
    /\ pc[p] = "verify"
    /\ IF archive[want[p]] = Whole(want[p]) THEN Goto(p, "extract") /\ UNCHANGED result
                                            ELSE End(p, "refused")
    /\ UNCHANGED <<lock, files, want, at, seen, syncs, faults>>

\* extractRefuteBinary opens the archive again, then the binary with O_TRUNC; an
\* archive that was cut meanwhile is an error that may leave the binary cut.
Extract(p) ==
    LET v == want[p] IN
    /\ pc[p] = "extract"
    /\ seen' = [seen EXCEPT ![p] = archive[v]]
    /\ IF IsWhole(archive[v]) THEN Goto(p, "extracting") /\ UNCHANGED result
                              ELSE End(p, "error")
    /\ \E opens \in BOOLEAN :
           /\ IsWhole(archive[v]) => opens
           /\ archive[v] = None => ~opens
           /\ bin' = IF opens THEN [bin EXCEPT ![v] = Cut(v, p)] ELSE bin
    /\ UNCHANGED <<lock, dir, archive, art, digest, want, at, syncs, faults>>

\* The archive may be cut, or its name removed, while it is read.
Extracted(p) ==
    LET v == want[p]
        disturbed == archive[v] # None /\ ~IsWhole(archive[v])
    IN
    /\ pc[p] = "extracting"
    /\ \E complete \in BOOLEAN :
           /\ complete \/ disturbed
           /\ bin' = IF complete /\ bin[v] = Cut(v, p)
                     THEN [bin EXCEPT ![v] = seen[p]] ELSE bin
           /\ IF complete THEN Goto(p, "writeArtifact") /\ UNCHANGED result
                          ELSE End(p, "error")
    /\ UNCHANGED <<lock, dir, archive, art, digest, want, at, seen, syncs, faults>>

(* ------------------------- mark a binary, install it -------------------- *)

Reachable(p) == AtActive(p) \/ at[p] \in dir

\* writeFileAtomic(... + ".artifact-sha256")
WriteArtifactMarker(p) ==
    /\ pc[p] = "writeArtifact"
    /\ IF Reachable(p)
       THEN /\ art' = [art EXCEPT ![at[p]] = want[p]]
            /\ Goto(p, "readBack") /\ UNCHANGED result
       ELSE End(p, "error") /\ UNCHANGED art
    /\ UNCHANGED <<lock, dir, archive, bin, digest, want, at, seen, syncs, faults>>

\* fileDigest of the binary just put there
ReadBack(p) ==
    /\ pc[p] = "readBack"
    /\ seen' = [seen EXCEPT ![p] = DigestOf(bin[at[p]])]
    /\ IF bin[at[p]] # None THEN Goto(p, "writeDigest") /\ UNCHANGED result
                            ELSE End(p, "error")
    /\ UNCHANGED <<lock, files, want, at, syncs, faults>>

\* writeFileAtomic(... + ".binary-sha256"); after the cache the active binary.
WriteDigestMarker(p) ==
    /\ pc[p] = "writeDigest"
    /\ IF Reachable(p)
       THEN /\ digest' = [digest EXCEPT ![at[p]] = seen[p]]
            /\ IF AtActive(p) THEN End(p, "installed")
                              ELSE Goto(p, "copy") /\ UNCHANGED result
       ELSE End(p, "error") /\ UNCHANGED digest
    /\ UNCHANGED <<lock, dir, archive, bin, art, want, at, seen, syncs, faults>>

\* Faulty: the artifact marker is written first.
CopyMarksFirst(p) ==
    /\ pc[p] = "copy"
    /\ seen' = [seen EXCEPT ![p] = bin[want[p]]]
    /\ art' = [art EXCEPT !["active"] = want[p]]
    /\ Goto(p, "install")
    /\ UNCHANGED <<lock, dir, archive, bin, digest, want, at, result, syncs, faults>>

\* copyFileAtomic reads the cached binary into a temporary file ...
Copy(p) ==
    /\ pc[p] = "copy"
    /\ seen' = [seen EXCEPT ![p] = bin[want[p]]]
    /\ IF bin[want[p]] # None THEN Goto(p, "install") /\ UNCHANGED result
                              ELSE End(p, "error")
    /\ UNCHANGED <<lock, files, want, at, syncs, faults>>

\* Faulty: the active binary is written in place.
InstallInPlace(p) ==
    /\ pc[p] = "install"
    /\ at' = [at EXCEPT ![p] = "active"]
    /\ IF AtActive(p) THEN bin' = [bin EXCEPT !["active"] = seen[p]] /\ Goto(p, "writeArtifact")
       ELSE bin' = [bin EXCEPT !["active"] = Cut(want[p], p)] /\ UNCHANGED pc
    /\ UNCHANGED <<lock, dir, archive, art, digest, want, seen, result, syncs, faults>>

\* ... and renames it over the active one.
Install(p) ==
    /\ pc[p] = "install"
    /\ bin' = [bin EXCEPT !["active"] = seen[p]]
    /\ at' = [at EXCEPT ![p] = "active"]
    /\ Goto(p, "writeArtifact")
    /\ UNCHANGED <<lock, dir, archive, art, digest, want, seen, result, syncs, faults>>

(* ------------------------------ environment ----------------------------- *)

\* A system call fails or the process is killed: the sync ends where it is.
Fault(p) ==
    /\ pc[p] # "idle" /\ faults < MaxFaults
    /\ faults' = faults + 1
    /\ End(p, "fault")
    /\ UNCHANGED <<lock, files, want, at, seen, syncs>>

\* The lockfile is updated.
Update ==
    /\ lock' \in Versions \ {lock}
    /\ \E p \in Procs : pc[p] = "idle" /\ syncs < MaxSyncs
    /\ UNCHANGED <<files, pc, want, at, seen, result, syncs, faults>>

SyncStep(p) ==
    \/ ReadArtifactMarker(p) \/ ReadBinary(p) \/ ReadDigestMarker(p)
    \/ Clear(p) \/ MakeDir(p) \/ Download(p) \/ Downloaded(p) \/ Verify(p)
    \/ Extract(p) \/ Extracted(p) \/ WriteArtifactMarker(p) \/ ReadBack(p)
    \/ WriteDigestMarker(p) \/ Copy(p) \/ Install(p)

Next == Update \/ \E p \in Procs : Start(p) \/ SyncStep(p) \/ Fault(p)

Spec == Init /\ [][Next]_vars

\* A process that has started its sync is scheduled.
FairSpec == Spec /\ \A p \in Procs : WF_vars(SyncStep(p))

(* ------------------------------ properties ------------------------------ *)

Attested(place, v) ==
    /\ bin[place] # None
    /\ art[place] = v
    /\ digest[place] = DigestOf(bin[place])

\* Between syncs, a binary that the next sync would call current is the complete
\* binary of the artifact the lockfile names, wherever earlier syncs were cut
\* off, and so is a cached binary that it would install without a download:
\* "verifies SHA-256 ... and atomically updates .refute/bin/refute".
CurrentIsGenuine ==
    (\A p \in Procs : pc[p] = "idle") =>
        \A v \in Versions : \A place \in {"active", v} :
            Attested(place, v) => bin[place] = Whole(v)

\* A sync that reports success leaves the binary it was asked for.
SuccessInstalls ==
    [][\A p \in Procs :
          result'[p] \in {"installed", "current"} /\ result[p] = "none" =>
              bin'["active"] = Whole(want[p])]_vars

\* Once there is an active binary that runs there always is one: a sync that
\* fails on the way leaves the old one.
StaysRunnable == [][IsWhole(bin["active"]) => IsWhole(bin'["active"])]_vars

\* Whatever a sync that was cut off left behind, no later one fails of it.
LeftoversDoNotFail == \A p \in Procs : result[p] # "error"

\* Every sync ends.
Ends == \A p \in Procs : pc[p] # "idle" ~> pc[p] = "idle"
=============================================================================
