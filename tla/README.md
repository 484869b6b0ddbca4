# A formal model of refute

refute is a command-line refactoring tool. A command finds a backend for the
language at hand (a language server, an OpenRewrite JVM or a ts-morph script),
asks it for a `WorkspaceEdit`, and previews that edit or applies it to the
workspace. A companion, `refute-tool`, keeps a pinned refute binary in
`.refute/` of a project.

These modules model the parts where a mistake costs the user source text, edits the
wrong place, hangs the command, misreports what was done or installs a wrong binary.
TLC checks them on small instances and TLAPS proves some of the results for every
instance.

## 1. Inventory

| component | state | operations | what is hard | what makes it correct |
| --- | --- | --- | --- | --- |
| **Text-edit applier** `internal/edit/applier.go` | the files, their `.refute.tmp` and `.refute.bak` siblings, the list of pending files | compute, stage, reserve, back up, install, restore, roll back, clean up, discard | any call fails, also those of the rollback; a kill; an editor that saves meanwhile | all or nothing; nobody's text is lost; the error tells what is on disk |
| **Text edits** `applier.go`, `order.go`, `diff.go` | one text | sort, check overlaps, resolve positions, splice; preview | ties, end of line and of file, positions resolved in a text that has changed | one by one means the same as at once; the preview is what is applied |
| **File operations** `applier_fileops.go` | the tree, a journal of undo and finalize closures | create, edit, rename, delete; undo; finalize | failures in the repair and in the undo; paths that a later operation makes stale | success is what the operations mean; failure restores the tree |
| **LSP client** `client_rpc.go`, `client_lifecycle.go`, `transport.go` | pending requests and their channels, the applyEdit sink, the mutex, the process | request, notify, ExecuteCommand, Shutdown; readLoop | two goroutines, a server that is free to do anything, timeouts, cancellation | every request gets its own answer; edits are complete; the command ends and leaves no process |
| **Progress tracker** `client_progress.go` | active tokens, the idle channel | begin, end, waitIdle | channel replaced while it is waited on; two timers | no lost wake-up |
| **refute-tool sync** `internal/toolchain/sync.go`, `lock.go` | cache directory, active binary, two markers beside each | look, clear, download, verify, extract, mark, install | kills, no lock between processes, the lockfile changes | what is called current is the verified binary |
| **LSP adapter** `internal/backend/lsp/adapter.go`, `workspace_edit.go`, `profile.go` | opened documents, the client, the process behind it | Initialize, prime, FindSymbol, Rename, code actions, MoveToFile, Shutdown; conversion of answers and columns | error paths past the shutdown, retries, an answer's order of changes, UTF-16 | the server is stopped; asked only about opened files; an unsettled server is not believed; the edit is what the server meant |
| **Command flow, output** `internal/cli` | the error on its way, what has been printed, the exit code, the files | validate, resolve, build, check kind, ask, capture, show or apply, route, exit | the same error passes up to three places that may print it | one envelope, one exit code; files change only if asked; the record says so |
| **Telemetry** `internal/telemetry` | an event log of two generations, snapshot directories | start, snapshot, finish, sweep, rotate | invocations overlap without a lock and are killed | bounds hold; no torn snapshot; what was just written stays |
| **Backend selection, configuration** `internal/config`, `internal/backend/selector`, `doctor.go` | none | load layers, climb the ladder, probe | four places that decide the same | doctor reports what a command will find |
| **Symbol resolution** `internal/symbol`, `rust_container.go`, `rust_resolve.go` | none | scan a line, parse a name, match containers | comments and literals, several spellings of one symbol | a name is found where it is code, and is the symbol meant |
| ts-morph and OpenRewrite backends | a subprocess | one request | | (ts-morph's outcomes and OpenRewrite's Java scanner are modelled, their processes not) |
| refute-tool run, launchers | none | select, exec | | (not modelled) |

How they interact: the command owns one adapter; the adapter owns one
LSP client; the client's `readLoop` goroutine shares `pending`, the sink and the
progress tracker with the calling goroutine; the edit the adapter returns goes
through the pipeline (`internal/cli/pipeline.go`) to the telemetry snapshot and then to
`RenderDiff`, `RenderJSON` or `ApplyWithin`; the last
chooses the text-edit path when the edit has no file operations and the journalled path
otherwise. Applier and file
operations meet other programs on the disk. `refute-tool` shares nothing with
refute but the binary it installs. Invocations share the telemetry directory, and
nothing else. A command learns of a failure of its server only as an error of a
call, so `Command` stands on what `LspClient` shows (a call ends but for the two ways to hang
that `Terminates` names, `Shutdown` leaves no process) and on what `Applier` and
`FileOps` show (an apply that succeeds is complete).

The hazards of the code, each at its line and with the properties that cover it,
are listed in `PROJECT.json`.

## 2. Modules

| module | models | proofs |
| --- | --- | --- |
| `Applier` | `ApplyWithin` without file operations, one action per system call | `ApplierProofs` |
| `AtomicApply` | the abstract contract "the whole batch is applied atomically" that `Applier` implements | |
| `FileOps`, `MCFileOps` | `applyWithFileOps` and its four operations | `FileOpsProofs` |
| `LspClient`, `MCLspClient` | the JSON-RPC client and its environment, the server | `LspClientProofs` |
| `Progress` | `progressTracker` and `waitIdle` | `ProgressProofs` |
| `ToolSync` | `Sync` of refute-tool by several processes | `ToolSyncProofs` |
| `Command`, `MCCommand` | one invocation of refute, with the adapter it drives | `CommandProofs` |
| `Telemetry`, `MCTelemetry` | the recorders of several invocations on one directory | `TelemetryProofs` |
| `Scanning` | the two scanners of source text, the column conversions | |
| `RustNames` (extends `Scanning`) | names, containers and the choice among candidates | |
| `Selection` | configuration, support matrix, ladder, doctor's probes, flag checks | |
| `ServerEdits` | a server's answer until it is written; snippets | |
| `TextEdits` | `applyEdits`, `orderedFileEdits`, the text `RenderDiff` shows | |
| `Lookup`, `MCLookup` | the five modules of functions above, put beside their references | `LookupProofs` |

`MCCommand` extends `Command` and `Selection`: the requests it tries are those of
`Selection`'s flag checks, and the backends it may get those of `BuildBackend` and
`BuildTier1`, so the composition of the two is what is checked.

Each module also holds *faulty variants* of its definitions (their comments start
with "Faulty"). No specification uses them; each is a plausible slip, listed
under "mutants" with the property that notices it.

### Applier

For every file `orig`, `tmp` and `bak` are what lies at its own path and at the two
siblings; a content is a version somebody wrote (`User`), the version the batch
computes from it (`Product`) or scrap. `pc` names the next system call, `i` is the
index of the loops of `computePendingFiles`, `writePendingTempFiles` and
`commitPendingFiles`, `k` that of `rollback` and `cleanupPending`. `GiveUp` is the
`rollback(committed); cleanupPending(pendingFiles[i:])` that ends every error path
of the commit loop. `Save` and `Crash` are the environment. The file modes and the
random suffixes of the names are left out; a reserved name is free because
`os.CreateTemp` has just made it.

### FileOps

The tree maps paths (sequences of components) to contents, so a renamed directory takes
along what is below it, backups included. A component is a pair of a name and a mark:
the mark tells the names that the applier makes for its own files (`.refute.bak`,
`.refute.partial`), by the operation that made them, from those of the user. Contents
are pairs as well, the text and how often it was edited. Each operation looks at the tree and
becomes a program of system calls with a repair for every call, an undo and a
finalization, as the four `commit` functions do it; `Call`, `CallFails`, `Repair`,
`UndoNext`, `UndoCall` and `Finalize` interpret the programs one call at a time, and the
journal entry by entry, the undo from its end and the finalization from its start.
`Quiet` marks the undo calls whose error the code drops (`_ = os.Remove(...)`), `Loud`
the ones it joins to the result. A call that the kernel would refuse in this tree
(`Possible`) fails without counting as a fault. `Meaning` is the reference: what one operation
asks for, without backups or an order of calls; `Rank` is the order of kinds in which the
code applies a batch.

### LspClient

`main` is the calling goroutine, which works through `Script` and shuts the server
down at the end or after an error; `loop` is `readLoop`. A request waits in a Go
`select` on a channel of capacity one: `TakeBuffered`, `TakeDone` and `Park` are
the entry of the select, and a send, a cancellation, the end of readLoop or
the timer resolves a parked one. Since the choice among several ready cases is
random in Go, `TakeBuffered` and `TakeDone` are both possible. The mutex
is held across a blocking operation in one place only, the drain after a read
error; the other critical sections are single steps that require `MuFree`.
`request` leaves an answered id in `pending`, and so does the model. The server
answers requests in any order or not at all, pushes edits while a command
runs or after it, writes a malformed frame or exits; the pipe to it holds
`PipeCap` messages and a write to a full pipe waits. Other server requests and
notifications are read and dropped.

### Progress

Idle channels are numbered; `closed` is the set of closed ones. Time is counted in
ticks; each timer takes more than one, so that events fall inside its interval.

### ToolSync

A place is the active binary or the cache of one version, each with its two
markers. A file opened with `O_TRUNC` is `Cut` by its owner until the owner has
filled it; a file that another process has truncated meanwhile is no longer the
owner's, and one whose directory was removed is no longer reached. A digest tells
the versions and the whole from the cut.

### Command

`pc` is the place in the program, `error` the class of the error on its way up, kept
as fine as any `errors.Is` or `errors.As` along the way tells errors apart (which
includes that `translateRenameError` forgets the class and keeps the text).
`envelopes` is what has been printed, `emitted` the exit code inside a `jsonEmitted`
wrapper, `status` and `snapshot` what the telemetry record will say. One action
stands for one step that may end the command: `Build` is `buildBackend` or tier 1's
own set-up, `InitializeServer` and `Settle` the two halves of the adapter's
`Initialize`, `Find` the tier 1 lookup with its choice by kind, `Open` is
`openAndAwaitIdle`, `AskUnsettled`, `AskEmpty`, `AskRejected` and `AskAnswered` the
answers to a request inside the retry loop, `Capture`, `Show` and `Apply` the
pipeline. The way back is kept apart from the way down: `ReturnTier1`, `Shutdown`
(the deferred call), `Route` and `Execute` each may print, in this order. The
environment may fail at every step; an `Apply` that fails may leave the files either
way, which is what the applier's own modules refine.

### Telemetry

A directory has the set of its files, its bytes and whether its manifest is final;
`recency` orders directories by modification time. The logs are numbered so that a
recorder that has opened one still writes to it after another has renamed it. The
sweep's list is computed in one step (`Sweep`, the loop of the code as a recursive
function over the sorted directories) and worked off one directory at a time; the
stat and the rename of the rotation are two steps. `calm` is a history variable: the
last invocation to start, if nobody ran beside it. Removing a directory and
writing one file are single steps, modification times are distinct, and writes to
the log do not fail.

### The functions

`Scanning` has a text of one-letter tokens (quotes, escape, newline, the
comment marks, keywords) and follows the scanners state by state; a line for the
columns is a sequence of byte widths. `RustNames` has names as sequences of tokens.
`Selection` has a machine as the commands on its path and the places where a script
lies. `ServerEdits` keeps of a change its kind, its paths and flags, and whether an edit
is at the start of its file or further down, since that is what decides whether it fits. In
`TextEdits` characters are one-letter strings and `"n"` the newline.

`Lookup` puts a query (its state), answers it with these functions (one action for each)
and holds the answer against a reference that is written without an order of
execution: what is code is what no comment or literal covers; a batch of edits
means what the positions say in the original text; a server's changes mean what they do one
after the other.

## 3. Runs

Passing runs:

| run | bounds | why they are enough | properties |
| --- | --- | --- | --- |
| `Applier` | 3 files, 3 failing calls, 1 save, a kill anywhere | a file before, at and after the one that fails; failures of the install, of its restore and of one rollback | no text lost (`OriginalKept`), named backups exist, no silent litter, what was moved aside returns only to its path, refinement of `AtomicApply` (`AtomicSpec`: the result tells the state) |
| `FileOps` | batches of 1 to 3 of 16 operations, 2 failing calls | every pair and triple of operations on the same paths, the second fault in the repair or the undo of the first | success is the meaning of the batch, one fault rolls back, contents survive, file backups are discarded, termination |
| `LspClient` | notify, request, command, shutdown; pipe of 2; 2 edits | a late answer needs a later request; a full pipe needs unread messages; an early and a late edit | own answers only, complete edits, no process left, the two ways to hang |
| `Progress` | 2 tokens, 5 begins, timers of 2 ticks | overlapping tokens and three busy periods around one wait | no lost wake-up, termination; deadlock is checked |
| `ToolSync` | 2 versions, 4 syncs, 1 fault, one process | a cut-off sync, a changed lockfile and the two syncs after it | genuine active binary, recovery, success installs, always runnable, termination |
| `Command` | every operation; go, rust, typescript and java; 13 flag sets; 3 configurations by 3 machines; budgets of 3, 2 and 2 tries | every branch on language, kind, flag and backend has a request on each side; a budget needs a first, a middle and a last try | see below |
| `Telemetry` | 2 invocations, 1 kill, 2 earlier directories, bounds of 2 directories, 4 bytes and 2 events, files of 1 or 3 bytes | with two old and two new directories both caps are passed; one snapshot alone may pass the byte cap; the log is full after one invocation | bounds kept, no torn snapshot, an undisturbed invocation is recorded |
| `Lookup` | texts of 4 lexemes and 6 longer ones, lines of 3 characters, 6 Rust and 12 Go symbols in all spellings and containers, 2 configuration layers by 96 machines, 3 changes in a batch, snippets of 5 lexemes, 7 texts with lists of 2 edits, of 3 when two insert | a literal needs an opening, an escape and two quotes; a path needs two segments; ties need three edits; precedence shows between two layers | the ten below |

`Command` checks: one envelope with the exit code of the process (`OneEnvelope`);
files change only when asked, for a symbol of the kind named, and the exit code,
the status and the snapshot tell it (`WritesAreMeantAndTold`); the same exit code with
and without `--json` (`SameExitInBothModes`); no server left behind
(`ServerIsStopped`); a server that has not settled is never taken for one with nothing
to do (`UnsettledIsNoAnswer`); a file is opened before it is asked about
(`OpenedBeforeAsked`). The properties name the exceptions that the code makes:

- `handleTier1RenameError` (rename.go:588) does not look for `jsonEmitted`, so a rename by
  `--symbol` whose edit cannot be applied prints two envelopes with `--json`, although
  jsoncontext.go:55-66 sees to exactly one;
- a Go symbol that is not found exits with 2 with `--json` and with 1 without, a
  language without a configured server with 3 and with 1;
- a server that never becomes idle while it is initialized stays behind
  (adapter.go:106);
- a rename tells the server twice that its file is open (adapter.go:1056, and the
  priming for Go).

`Lookup` checks:

- `NamesAreCode`, `JavaNameIsDeclared`: a scanner points only at code. The Java scanner
  loses an escaped newline, so it is asked of legal Java only.
- `ColumnsRoundTrip`: bytes and UTF-16 units convert back and forth, or are an error.
- `NamesResolve`: every spelling finds its symbol and no other one. Not found
  are: `Type.Method` in Go under a container with the package's path, `crate::<T as U>::f`
  (the parser keeps `crate`), and in Rust a container whose trait has a path.
- `DoctorAgrees`: `refute doctor` says what a rename finds, except for an entry without
  a command (doctor.go:156-161 falls back to the built-in server, a rename does not).
- `ServerEditsKept`: the fixed order of phases means what the server meant,
  when changes that share a path come in the order of the phases; otherwise the order of
  the answer is lost (a delete before a create of the same path, say).
- `ExtractionIsNamed`: the user's name goes to what gopls extracted.
- `SnapshotIsNeutral`: a telemetry snapshot does not change what is written, in
  texts without an escaped dollar. With one it does: `$$1` is normalized to `$1` by the
  snapshot and to nothing by the apply (preview.go:23, applier.go:57).
- `AppliesSimultaneously`, `PreviewIsApplied`: edits applied from the end mean what they
  mean at once, exactly the meaningless lists are refused, and the preview shows the result.

Runs that TLC refutes, each a disagreement of code and documentation listed under
"findings":

- `Applier_restore`: installing a file fails, putting it back fails too, and the
  cleanup deletes the backup that the error has just named. It held the only copy.
- `FileOps_dirs`: with no failure at all, a batch that edits or overwrites a file and renames
  or deletes its directory later looks for the backup at the old path: it reports an error
  though everything was applied, or (`RemoveAll`) leaves the backup without a word.
- `LspClient_drain`: readLoop blocks on a full channel while it holds the mutex. Neither a
  timeout nor Ctrl-C ends the command.
- `ToolSync_race`: two overlapping syncs install a truncated binary, which then
  counts as current.

Limits of the passing runs that a reader should know. `OneFaultRollsBack` is about
a batch that is refused or meets one failing call: the local repairs ignore their own
failure, so that a second fault leaves a file in a backup nobody names.
`FileBackupsDiscarded` is about batches that name no directory, neither as a path nor as
the new path of a rename. `CurrentIsGenuine` holds for one fault in a
sequential history; with two cut-off syncs and two changes of the lockfile (one sync
cut after the artifact marker, the next right after the rename) an old digest
matches a binary of the other version. `OriginalKept` makes an exception for the file
whose restore is reported, which is the finding `Applier_restore`.

`ContentKept` excuses a batch whose rollback reports a failure: the undo of an overwriting
rename goes on after its first half failed, renames the backup over the target and
destroys the renamed file there (applier_fileops.go:270). A busy period of the
server that fits in the settle interval goes unnoticed by `waitIdle`
(client_progress.go:112-117, against the comment in lines 81-82); no property asks for it.
`ServerReaped` takes for granted that a kill succeeds and that the command reaches
`Shutdown`; `ServerIsStopped` says when it does. With invocations that overlap, a sweep may
remove the directory that another's end event names, and a second rotation may put
a short log over the generation just saved: `UndisturbedIsRecorded` is about
invocations that nobody overlaps, and `RetentionHolds` about the time when nobody runs.

Deadlock is not checked where the system stops: the applier and the file operations
return, the LSP command ends, the syncs are bounded. `Command`, `Telemetry`, `Lookup` and
`Progress` stutter at their end and are checked for it.

### Fairness

`FileOps`: the code is one goroutine that waits for nothing but the kernel, so its steps
are weakly fair; faults are not. `Applier`, `Command`, `Telemetry` and `Lookup` have
safety properties only and assume no fairness.
`LspClient`: both goroutines are scheduled and timers expire (`Timeout` is a step of
the calling goroutine); nothing is assumed of the server or of a
cancellation. `Progress`: waitIdle is scheduled, time passes, and the server ends a
token it began; waitIdle would also return when its context expires, which is not
assumed. `ToolSync`: a sync that has started is scheduled; starting one is not fair.

## 4. Proofs

All proofs hold for every value of the constants under the assumptions the
modules name, which TLC evaluates in the runs:

| assumption | what it says | why |
| --- | --- | --- |
| `ApplierAssumption` | the bounds are natural numbers | |
| `FileOpsAssumption` | `Start` is a tree of user paths; a batch is a sequence of well-formed operations in the order of kinds | the applier reserves its own names, and sorts the operations before it applies them |
| `ProgressAssumption` | both timers are positive | they are constants of the code |
| `ClientAssumption` | a script ends with `shutdown`; the pipe holds a message | every command defers `Shutdown` |
| `SyncAssumption` | the versions are neither the place `active` nor the marks of a wrong or missing download | they are names in the model |
| `TriesAssumption` | every budget allows a try | constants of the code |
| `RequestsAssumption` | only a rename has a kind, a listing is of a file's symbols, only these two take `--symbol` | the flags of the commands |
| `SelectionsAssumption` | choosing a backend fails with one of six errors | `buildBackend` returns no other |
| `QueriesAssumption` | texts, contents and the texts of an extraction are sequences, names are identifiers, the lines of the columns are sequences of widths of 1 to 4, edits have integer positions and texts, a server's changes are of one of four kinds; gopls answers a move with edits and with the creation of a file that is not there | what UTF-8 and decoded JSON give; positions may be negative or anywhere; gopls takes no other names, and `MoveToFile` runs only the action "extract declarations to new file" (adapter.go:815) |
| `PathRankAssumption` | every path has a rank | strings are ordered |
| `BoundsAssumption` | the caps are positive, sizes are natural numbers, the directories of earlier invocations are finitely many | constants and a listing of the code |

Every invariant was first checked with TLC. None of the properties below is inductive
by itself; what had to be added is said with each, and each lemma that a step keeps an
invariant has one step per action. Three hypotheses are added to a theorem where
TLC refutes the property without them; they are named below.

**ApplierProofs** (8 theorems). `TypeCorrect`, `KeepsOriginals` (`OriginalKept`) and
`KeepsNamedBackups` (`NamedBackupRemains`) follow from `Invariance`. That a backup holds
somebody's text when rollback renames it over the file depends on how far the commit loop
came; `IndInv` says so phase by phase: before the commit nothing is touched
(`Untouched`); a file before `i` has a backup, a later one is at its path (`Committing`); in
rollback the files up to `k` have their backup, the later ones are back or reported
(`Undoing`, `Undone`); what is staged is complete (`Staged`). `OutOfReach` says why the
cleanup cannot delete a backup that rollback has named: rollback treats files before `i`,
the cleanup starts at `i`. There is no such argument for the file `i` itself, and that is
the finding `Applier_restore`.
A second invariant, `Ledger`, says who is responsible for each temporary file and each
backup behind and before the cursors. From it follow `LeavesNoSilentLitter`
(`NoSilentLitter`) and, with the action property `ReturnsMovedVersions`
(`MovedVersionReturns`), that the version moved aside comes back only to its own path.
`ImplementsAtomicApply` (`AtomicSpec`) is the refinement: with what a person can recover
from a named backup taken for the file, every action of the applier is shown to be a
step of `AtomicApply` or a stutter; `BatchIsAllOrNothing` carries the contract's own
invariant over.

**FileOpsProofs** (4 theorems; the longest). Sections go from paths to trees, to what a call
does, to the program of each operation, to the journal. `Reached(s, k, ...)` says that the
operations before the `k`-th lead from `Start` to `s` and that the journal has a chain of trees
`H` such that the undo of its entry `e` leads from `H[e + 1]` to `H[e]`. `Running` says of a
program what `EachRuns` shows for all four operations: run to its end it does what the operation
means and its undo leads back; interrupted at any call its repair leads back. Trees are
compared without the names that the operations from `k` on make up (`Strip`, `Own`),
because an operation that failed may leave such a name behind, and every call of the journal
stays away from them (`Harmless`).

- `AppliesWhatIsMeant` (`SuccessMeansBatch`) has no further hypothesis: any batch, any
  faults.
- `RollsBack` (`OneFaultRollsBack`) is for batches whose overwriting operations are
  apart (`OverwritesApart`): a create does not overwrite a directory, and of the two paths of an
  overwriting rename neither is the other or lies in it. Outside of this the property is
  false: the repair of such an operation is itself refused. The runs include no such batch.
- `DiscardsBackups` (`FileBackupsDiscarded`) needs `Kept`: until the commit every hidden
  name in the tree is the target of exactly one entry of the journal, from then on of one that
  is still to be finalized, or its removal has been reported.
- `KeepsContents` (`ContentKept`) has no further hypothesis either: any batch, any faults, and a
  kill after any call. It needs `Saved`. The operations before the `j`-th went through trees that
  have every content, the ones in the middle of an undo included (`Traced`, `Retained`). A call that
  fails leaves the tree before the operation with something added, or that tree with one path
  moved aside (`Mends`), and so does every call of its repair, whether it works or not.
  From then on the tree need not be one that an undo restores, but all of such a tree is in it:
  `Carried(f, t, e, ...)` says that each file of `e` is in `t` at the path `f` gives,
  and how paths may have come apart; `Retracing` keeps such an `f` through the undo of every
  entry of the journal. A call of the undo that fails is reported, which the property allows.

**ProgressProofs** (3). `WakesUp` (`NoLostWakeup`): that the channel the waiter has read will be
closed needs `ChannelTellsIdle`, that the current channel is closed exactly while no
token is active and that all earlier ones are closed.

**LspClientProofs** (3), for any script, any size of the pipe and any number of edits.

- `ReapsServer` (`ServerReaped`) from `Control`, which relates the two goroutines' places
  to the process.
- `AnswersAreOwn` (`OwnAnswer`) from `Numbering` (an id is given out once, and only the
  call that waits bears the current one) and `Traffic` (whatever is in a pipe, in the server,
  in `readLoop`'s hands or in a channel bears an id that was given out, and with the
  current id belongs to the call that waits).
- `CommandsReturnTheirEdits` (`EditsComplete`) from `ClientInv`: a request and an edit are each
  in one place at a time, an edit requested before the answer stays before it in the
  pipe (`InOrder`), and an edit requested early is on its way, in the sink or its command has failed
  (`NoneLost`). It assumes `OneCommand`, that the script has one `command`: `MoveToFile`
  is the one caller of `ExecuteCommand` (adapter.go:837). With two, a late edit of the first would
  be found in the sink of the second, and `EditsComplete` is false.

**ToolSyncProofs** (4), for one process (`Procs = {q}`; the code takes no lock, and
`ToolSync_race` refutes the properties for two).

- `NoLeftoverFails` (`LeftoversDoNotFail`) and `AlwaysRunnable` (`StaysRunnable`) for any number
  of cuts, from `Inv`: a cached binary with an artifact marker is whole and genuine, and the
  active one is whole as soon as there is one.
- `OneFaultLeavesGenuine` (`CurrentIsGenuine`) and `SyncsInstall` (`SuccessInstalls`) need
  `MaxFaults <= 1` and `Markers`: the active binary is replaced, then its artifact marker, then
  its digest, and the sync that follows the one cut starts from markers that disagree. Two
  cuts and two changes of the lockfile make the markers agree on the wrong binary.

**CommandProofs** (6), about one invocation, for any requests, any way of choosing a backend
and any budgets.

- `StopsTheServer` (`ServerIsStopped`) follows from `Life`: a running server has an adapter
  whose `Shutdown` is still ahead, or its initialization has failed.
- `WritesAreTold` (`WritesAreMeantAndTold`) needs `Meant`, that from the kind check on
  the kind fits and that no listing comes near an edit, and `Told`, that before the way
  back nothing is written, printed or recorded, and on it error, status, files and
  snapshot belong together.
- `PrintsOneEnvelope` (`OneEnvelope`) needs `Printed`: at every place on the way back, how
  many envelopes there are, given the error and whether it is wrapped, and that their
  exit code is the one `Finish` will find.
- `ModesExitAlike` (`SameExitInBothModes`) needs `Agreed`: what has been printed for an
  error has the exit code that error has without `--json`, also after the error has
  been wrapped or translated.
- `AsksAboutOpenFiles` (`OpenedBeforeAsked`) needs `Counted`: how often the server has been
  told of the file, at each place, and for which requests the adapter's record is right.
- `UnsettledIsAFailure` (`UnsettledIsNoAnswer`) needs `Budgeted` (how many tries a loop has
  spent) and `NoServerHadNoEdits` (a rename without edits has not come from a server).

**TelemetryProofs** (4), for any number of overlapping and killed invocations.

- `ManifestsAreComplete` (`ManifestIsComplete`) from `FilesInOrder`: the files of a
  directory came in the order of the code, and who still writes has written those before.
- `RetentionIsKept` (`RetentionHolds`) needs `InBounds`: whenever there is a directory too many,
  some invocation has its own sweep to come, and what a sweep has decided to leave fits and
  goes on fitting, because directories of others only go. That the list the sweep computes fits
  (`SweepMeans`) is an induction over the sorted directories (see below). `LogIsRotated` is its part
  on the log, from `LogInHand`: a log over its bound has a recorder that will look at it.
- `RecordsAreKept` (`UndisturbedIsRecorded`) needs `Told` (status, manifest and warning
  of each invocation go with its plan and its place), `Numbered` (the log files are numbered as they were
  begun) and `Undisturbed`: an invocation that is alone writes to the log file at the path,
  both generations keep what it wrote, its directory is the newest until it sweeps, and so its
  own sweep does not list it.

**LookupProofs** (8). An answer is a function of its query, so the invariant (`Answers`) only says of
what query an answer is the value; the work is in the functions.

- `NamesAreFoundInCode` (`NamesAreCode`), for every text and identifier, against a reference that
  has no scanner: a comment or literal counts when no earlier one holds its opener, and what none
  holds is code. That there is such a set of regions is a recursion over the openers
  (`RegionsExist`). The invariant of the scanner is `Knows`: at a place read as code every region
  that begins before it has ended before it, in any other state the place is inside of one region of that
  kind, with the quote's backslashes counted so far (`Inside`). `StepsTo` is one step of the scanner;
  `StaysOpen`, `Closes` and `Opens` are what it does to a region, `WalkCovers` that no character
  is jumped over. A search that goes on behind each occurrence comes to every place where the name is
  a whole word (`NameSearch`), because an occurrence that overlapped it would put a letter before it.
- `JavaNamesAreDeclared` (`JavaNameIsDeclared`), for every text that is legal Java in the sense of
  `JavaLike`: there both scanners take the same steps (`JavaVisitsAlike`), so the same invariant
  holds, the parts they cross are put together without a gap (`StripMeans`), and the class is named by
  letters that are not blanked (`JavaClassMeans`).
- `ExtractionsAreNamed` (`ExtractionIsNamed`), for every list of texts of the shape gopls gives: the last
  text with a name is the helper gopls added (`PlaceholderMeans`).
- `ColumnsAreInverse` (`ColumnsRoundTrip`), for every line: both columns grow with every character
  (`EndsGrow`), so a place has one character that ends there.
- `DoctorTellsTheTruth` (`DoctorAgrees`), for every stack of layers, machine and language: what the
  ladder answers is told by the support matrix, the merged configuration and what is installed.
- `EditsApplySimultaneously` (`AppliesSimultaneously`), for every file and every list of edits: the
  sorted list is a permutation in which no later edit comes before an earlier one; neighbours that do
  not overlap mean that no two edits do; what has been replaced so far lies behind the edits that are to
  come, so their positions resolve as in the original text; and what the first edits have made of the text is what these
  edits mean at once (`Loop`, `Merged`). That a list is refused only when it has no meaning, the
  inserts at one place included, is the other half (`ChainsMeaningful`).
- `PreviewShowsTheResult` (`PreviewIsApplied`): a list that is applied has at one start only inserts
  and at most one longer edit after them, so that sorting by `textEditLess` first leaves `applyEdits`
  the same order (`SameSorted`).
- `ServerEditsAreKept` (`ServerEditsKept`), for every disk and every list of changes. Two changes
  that share no path can be made in either order (`Commute`, `Postpone`), and a change shares none with
  an earlier one of a later phase: that is what the property asks of the list. So each
  further change of the list can be moved forward to the end of its phase (`ByPhaseStep`), and by induction over the
  length the fixed order does what the server's does (`Reordered`). A batch that is applied edits each file once
  (`PathsCount`: there are as many paths as edits), and then sorting the edits by path makes no difference either
  (`EditsMake`, `EditsAnyOrder`, `SortKeeps`). The converter looks at the files as they were before the
  first change: an edit of a file that no change has touched before meets that text
  (`MeetsTheDisk`). For a move, what gopls's changes make of the files is told path by path
  (`SentMakes`), and giving the created file another name in all of them gives it that name in the result
  (`RedirectedIsRight`).

Some of these proofs need induction over data, for which the library's theorems cannot be
instantiated. Where it was worth it, the induction is done by hand, from a least element of a set of
natural numbers or a smallest counterexample: that `After` satisfies its recursion
(`AfterMeans`), that sums over sets are what they should be (`Adds`, `Total`), and that the
sweep's recursive function is its loop (`SweepIsLoop`). In `LookupProofs` the same is done once for
all, in `UpTo` (induction up to a bound, over a set) and `Recursion` (a recursive function over an
interval satisfies its equation).

Only model-checked:

- everything temporal under fairness, because the prover has no rule for `ENABLED`: `Returns`
  of `FileOps` and of `Progress`, `Terminates` of `LspClient`, `Ends` of `ToolSync`;
- two properties of `Lookup`. For `NamesResolve` the grammar of names would have to be treated by
  induction. `SnapshotIsNeutral` is about snippets as the instance has them: three passes of stripping are
  enough for these, deeper ones need more.

While these proofs were made the model was corrected in a few places: `Meaning` says
what a create means that replaces a directory; an outline in `RustNames` is a flat list whose nodes name
their parent, sorting is stated by rank and columns by where characters end, which can be reasoned
about and says the same; the scanners are a walk from place to place instead of a fold; for
a quote before a star two cases of the reference (`Closers`) held at once, and TLA+ leaves open
which is taken; the names that are looked for are a constant, and so is the order of paths; changes are made, and chosen by their kind, by recursive
functions instead of folds; `Possible` refuses to rename a directory
into itself; `Return` waits for the journal to be used up; `StatLog` looks at whether the log exists and at its
size in one step, as one `os.Stat` does; the order of `Rank` and the shape of requests became
assumptions instead of being left to the instances.

## 5. Not modelled

Symbolic links and the workspace boundary (a path is accepted or refused); file
modes; the JSON of LSP messages; which of the offered code actions is taken; stderr capture;
wording of messages; the unified-diff format; the layout of the envelope; the name and
path validation of sync. Of telemetry, the session transcripts, the detection of the project
and the fields of events. `refute-tool run` and the launchers hold no state. The line
protocol of the OpenRewrite JVM (which waits for an answer without a timeout and does not
compare its id) cannot be reached: the support matrix refuses Java and Kotlin before a
backend is chosen. The components without a module are listed in `PROJECT.json` with
the reason.

## 6. What could come next

- `AtomicApply` as the abstract specification of `FileOps` as well, and an atomic
  installation as that of `ToolSync`.
- A server that answers an id twice, for which `readLoop` blocks on a full channel.
