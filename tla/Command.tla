------------------------------- MODULE Command -------------------------------
(* One invocation of refute: the flags are checked, the symbol is resolved, a *)
(* backend is chosen, started and asked, the edit is written or shown, and    *)
(* the outcome is told in one JSON envelope or on stderr, with an exit code   *)
(* (internal/cli) and in the telemetry record.  The language server, ts-morph *)
(* and the file system are the environment: every step that waits for one of  *)
(* them takes any of its answers.  The adapter of the language server         *)
(* (internal/backend/lsp/adapter.go) opens documents and repeats requests.    *)
EXTENDS Integers, Sequences

CONSTANTS
    Requests,      \* [op, kind, language, address, json, dryRun, valid]
    Selections(_), \* what may come of choosing a backend for a request: [error, backend]
    RenameTries,   \* defaultRenameMaxRetries
    FindTries,     \* defaultSymbolMaxRetries
    ActionTries    \* codeActionMaxRetries

ASSUME TriesAssumption == {RenameTries, FindTries, ActionTries} \subseteq Nat \ {0}

\* Only rename has kinds, a listing is of a file's symbols, and only rename has
\* --symbol otherwise: inline takes it with --call-site alone.
ASSUME RequestsAssumption ==
    \A r \in Requests :
        /\ r.json \in BOOLEAN /\ r.dryRun \in BOOLEAN
        /\ r.op # "rename" => r.kind = "unknown"
        /\ r.op = "list-symbols" => r.address = "symbol"
        /\ r.valid /\ r.address = "symbol" => r.op \in {"rename", "list-symbols"}

\* The errors of choosing a backend.
SelectionErrors ==
    {"unsupported language", "unsupported operation", "no server configured", "server missing",
     "runtime missing", "config error"}
ASSUME SelectionsAssumption ==
    \A r \in Requests : \A s \in Selections(r) : s.error \in {"none"} \cup SelectionErrors

VARIABLES
    request,     \* what the command line says
    pc,
    error,       \* the error on its way to the user, by class
    kind,        \* what the backend says the symbol is
    backend,     \* "none", "lsp" or "tsmorph": what a deferred Shutdown stops
    server,      \* the process of the language server
    opened,      \* the adapter has the file among its open documents
    didOpens,    \* how often the server was told that the file is open
    tries,       \* requests sent in the retry loop of the moment
    files,       \* the user's files
    envelopes,   \* the envelopes printed, their status and exit code
    emitted,     \* the exit code of a jsonEmitted error, 0 without one
    exit,        \* the exit code, -1 while running
    status,      \* the status in the telemetry record
    snapshot     \* the telemetry snapshot: "none", "planned" or "applied"
vars == <<request, pc, error, kind, backend, server, opened, didOpens, tries,
          files, envelopes, emitted, exit, status, snapshot>>
lspVars == <<backend, server, opened, didOpens>>
outVars == <<files, envelopes, emitted, exit, status, snapshot>>

(* -------------------------------- errors -------------------------------- *)

\* The exit code that exitDetails finds for an error that has printed nothing.
ExitCode(class) ==
    CASE class = "none" -> 0
      [] class \in {"rust symbol not found", "same name", "no edits"} -> 2
      [] class \in {"server missing", "runtime missing"} -> 3
      [] OTHER -> 1
\* The errors with an ExitCode method of their own.
HasExitCode(class) ==
    class \in {"rust symbol not found", "same name", "no edits", "server missing",
               "kind mismatch", "ambiguous"}

Envelope(s, code) == [status |-> s, exit |-> code]
\* emitJSONBackendSetupError
SetupEnvelope(class) ==
    IF class \in {"runtime missing", "server missing", "no server configured"}
    THEN Envelope("backend-missing", 3) ELSE Envelope("backend-failed", 1)
\* Faulty: every error is one of a backend.
OperationEnvelopeOfBackend(class) == SetupEnvelope(class)
\* emitJSONOperationError
OperationEnvelope(class) ==
    CASE class \in {"unsupported language", "unsupported operation", "unsafe"} -> Envelope("unsupported", 1)
      [] class = "kind mismatch" -> Envelope("kind-mismatch", 1)
      [] class \in {"runtime missing", "server missing", "init failed"} -> SetupEnvelope(class)
      [] class \in {"symbol not found", "rust symbol not found"} -> Envelope("invalid-position", 2)
      [] class \in {"no edits", "same name"} -> Envelope("no-op", 2)
      [] class = "no server configured" -> Envelope("backend-missing", 1)
      [] OTHER -> Envelope("backend-failed", 1)
\* defaultStatusForError
DefaultStatus(class) ==
    CASE class = "none" -> "succeeded"
      [] class \in {"server missing", "runtime missing"} -> "backend-missing"
      [] class = "init failed" -> "backend-failed"
      [] ExitCode(class) = 2 -> "no-op"
      [] OTHER -> "failed"

\* emitJSONError: print an envelope and remember that it is printed.
Emit(envelope) ==
    /\ envelopes' = Append(envelopes, envelope)
    /\ emitted' = envelope.exit
    /\ status' = envelope.status
EmitNothing == UNCHANGED <<envelopes, emitted, status>>
EmitIf(wanted, envelope) == IF wanted THEN Emit(envelope) ELSE EmitNothing

\* ambiguousError: the status is set with and without --json.
ReportAmbiguous ==
    IF request.json THEN Emit(Envelope("ambiguous", 1))
    ELSE status' = "ambiguous" /\ UNCHANGED <<envelopes, emitted>>

(* --------------------------------- kinds -------------------------------- *)

NoKind == "unknown"
Kinds == {"function", "class", "method", "type"}
\* languageKinds
KindValid(language, k) == language \in {"go", "rust"} => k # "class"
\* validateResolvedKind
KindFits(language, wanted, actual) ==
    \/ wanted = NoKind
    \/ actual = wanted
    \/ actual = NoKind /\ KindValid(language, wanted)

\* selectTier1Candidate over the kinds of the symbols found: the kind helps to
\* choose, a lone symbol of another kind is left for the validation to name.
SelectCandidate(found, wanted) ==
    LET IsWanted(k) == k = wanted
        matching == SelectSeq(found, IsWanted)
        fits == IF wanted = NoKind \/ (matching = <<>> /\ Len(found) = 1) THEN found ELSE matching
    IN IF Len(fits) = 1 THEN fits[1] ELSE "ambiguous"

(* --------------------------- validate and resolve ----------------------- *)

Init ==
    /\ request \in Requests
    /\ pc = "validate" /\ error = "none" /\ kind = NoKind
    /\ backend = "none" /\ server = "none" /\ opened = FALSE /\ didOpens = 0 /\ tries = 0
    /\ files = "original" /\ envelopes = <<>> /\ emitted = 0 /\ exit = -1
    /\ status = "" /\ snapshot = "none"

\* --symbol and list-symbols ask the language server where symbols are.
Tier1 == request.address = "symbol"
Fail(class, next) == error' = class /\ pc' = next

\* validateLocationFlags, before the command runs.
Validate ==
    /\ pc = "validate"
    /\ IF request.valid
       THEN /\ pc' = IF request.address \in {"name", "column", "neither"} THEN "resolve" ELSE "build"
            /\ UNCHANGED error
       ELSE Fail("invalid request", "execute")
    /\ UNCHANGED <<request, kind, lspVars, tries, outVars>>

\* symbol.Resolve: a column needs no look at the file.
Resolve ==
    /\ pc = "resolve"
    /\ \E found \in BOOLEAN :
          /\ found => request.address # "neither"
          /\ ~found => request.address # "column"
          /\ IF found THEN pc' = "build" /\ EmitNothing /\ UNCHANGED error
             ELSE /\ Fail("invalid position", "route")
                  /\ EmitIf(request.json, Envelope("invalid-position", 1))
    /\ UNCHANGED <<request, kind, lspVars, tries, files, exit, snapshot>>

(* ----------------------------- select and start ------------------------- *)

\* Rename and list-symbols report a backend that cannot be had at once.
SetupFails(class) ==
    /\ Fail(class, "route")
    /\ EmitIf(request.json /\ request.op \in {"rename", "list-symbols"},
              IF class \in {"unsupported language", "unsupported operation"}
              THEN OperationEnvelope(class) ELSE SetupEnvelope(class))

\* buildBackend up to Initialize; for tier 1 setupTier1RenameBackend and
\* setupLSPBackend, for list-symbols runListSymbols.
Build ==
    /\ pc = "build"
    /\ \E selection \in Selections(request) :
          IF selection.error # "none" THEN SetupFails(selection.error) /\ UNCHANGED backend
          ELSE /\ backend' = selection.backend /\ pc' = "initialize"
               /\ EmitNothing /\ UNCHANGED error
    /\ UNCHANGED <<request, kind, server, opened, didOpens, tries, files, exit, snapshot>>

\* What comes after a backend has been initialized.
AfterStart == IF Tier1 THEN "prime" ELSE IF request.op = "rename" THEN "probe" ELSE "check input"

\* Initialize of ts-morph: nothing is started, the script is looked up again.
InitializeScript ==
    /\ pc = "initialize" /\ backend = "tsmorph"
    /\ \/ pc' = AfterStart /\ EmitNothing /\ UNCHANGED <<error, backend>>
       \/ SetupFails("runtime missing") /\ backend' = "none"
    /\ UNCHANGED <<request, kind, server, opened, didOpens, tries, files, exit, snapshot>>

\* Initialize of the LSP adapter: a start that fails is cleaned up by the
\* client; some languages open a few files to prime the server.
InitializeServer ==
    /\ pc = "initialize" /\ backend = "lsp"
    /\ \/ /\ server' = "running" /\ pc' = "settle"
          /\ \E reached \in BOOLEAN :
                /\ reached => request.language \in {"rust", "typescript"}
                /\ opened' = reached
                /\ didOpens' = IF reached THEN 1 ELSE 0
          /\ EmitNothing /\ UNCHANGED <<error, backend>>
       \/ SetupFails("init failed") /\ backend' = "none" /\ UNCHANGED <<server, opened, didOpens>>
    /\ UNCHANGED <<request, kind, tries, files, exit, snapshot>>

\* The wait for the server to be idle.  When it fails the callers have no
\* adapter to shut down.
Settle ==
    /\ pc = "settle"
    /\ \/ pc' = AfterStart /\ EmitNothing /\ UNCHANGED <<error, backend>>
       \/ SetupFails("init failed") /\ backend' = "none"
    /\ UNCHANGED <<request, kind, server, opened, didOpens, tries, files, exit, snapshot>>

\* PrimeWorkspace: for Go the client opens the module's files, which the
\* adapter does not note.
Prime ==
    /\ pc = "prime"
    /\ \E reached \in BOOLEAN :
          /\ reached => request.language = "go"
          /\ didOpens' = didOpens + IF reached THEN 1 ELSE 0
    /\ pc' = IF request.op = "list-symbols" THEN "list" ELSE "find"
    /\ UNCHANGED <<request, error, kind, backend, server, opened, tries, outVars>>

(* -------------------------------- the symbol ---------------------------- *)

\* FindSymbol: an empty answer is repeated, since an index may not be warm.
FindNothing ==
    /\ pc = "find"
    /\ tries' = tries + 1
    /\ IF tries' < FindTries THEN UNCHANGED <<pc, error>> ELSE Fail("symbol not found", "tier 1")
    /\ UNCHANGED <<request, kind, lspVars, outVars>>
FindFails ==
    /\ pc = "find"
    /\ \/ Fail("rejected", "tier 1")
       \* Rust: the name does not parse, or no candidate has its path.
       \/ request.language = "rust" /\ Fail("parse error", "tier 1")
       \/ request.language = "rust" /\ Fail("rust symbol not found", "tier 1")
    /\ UNCHANGED <<request, kind, lspVars, tries, outVars>>
\* resolveGenericTier1Symbol and resolveRustTier1Symbol; Rust asks for no kind.
Find ==
    /\ pc = "find"
    /\ \E a, b \in Kinds \cup {NoKind} : \E found \in {<<a>>, <<a, b>>} :
          LET wanted == IF request.language = "rust" THEN NoKind ELSE request.kind
              chosen == SelectCandidate(found, wanted)
          IN IF chosen = "ambiguous" THEN Fail("ambiguous", "tier 1") /\ UNCHANGED <<kind, tries>>
             ELSE kind' = chosen /\ pc' = "check kind" /\ tries' = 0 /\ UNCHANGED error
    /\ UNCHANGED <<request, lspVars, outVars>>

\* ResolveKind: tells the server the file is open, whether it is or not; any
\* failure leaves the kind unknown.  ts-morph does not tell kinds.
Probe ==
    /\ pc = "probe"
    /\ pc' = "check kind"
    /\ \/ backend = "lsp" /\ kind' \in Kinds \cup {NoKind} /\ didOpens' = didOpens + 1
       \/ UNCHANGED <<kind, didOpens>>
    /\ UNCHANGED <<request, error, backend, server, opened, tries, outVars>>

\* Faulty: returns past the deferred Shutdown.
GiveUpAtOnce == IF Tier1 THEN "tier 1" ELSE "route"
\* Where a command goes that ends after its backend was started.
GiveUp == IF Tier1 THEN "tier 1" ELSE "shutdown"
AskNext == IF backend = "lsp" THEN "open" ELSE "ask"

\* validateResolvedKind
CheckKind ==
    /\ pc = "check kind"
    /\ IF KindFits(request.language, request.kind, kind) THEN pc' = AskNext /\ UNCHANGED error
       ELSE Fail("kind mismatch", GiveUp)
    /\ UNCHANGED <<request, kind, lspVars, tries, outVars>>

\* MoveToFile refuses another directory and a destination that is there;
\* resolveGoParamIndex finds no parameter at the position.
CheckInput ==
    /\ pc = "check input"
    /\ \/ pc' = AskNext /\ UNCHANGED error
       \/ request.op = "move" /\ Fail("unsafe", GiveUp)
       \/ request.op = "change-signature" /\ Fail("rejected", GiveUp)
    /\ UNCHANGED <<request, kind, lspVars, tries, outVars>>

(* ------------------------------- the request ---------------------------- *)

\* Faulty: opens without a look at the record.
OpenAgain ==
    /\ pc = "open" /\ pc' = "ask"
    /\ opened' = TRUE /\ didOpens' = didOpens + 1
    /\ UNCHANGED <<request, error, kind, backend, server, tries, outVars>>
\* openAndAwaitIdle: the file is opened unless the adapter has opened it, then
\* the server must come to rest; both may fail.
Open ==
    /\ pc = "open"
    /\ \/ /\ opened' = TRUE
          /\ didOpens' = didOpens + IF opened THEN 0 ELSE 1
          /\ \/ pc' = "ask" /\ UNCHANGED error
             \/ Fail("rejected", GiveUp)
       \/ ~opened /\ Fail("rejected", GiveUp) /\ UNCHANGED <<opened, didOpens>>
    /\ UNCHANGED <<request, kind, backend, server, tries, outVars>>

\* How often a request is sent, and which answers are taken for those of a
\* server that has not settled: ContentModified and, for a rename, no edits.
Assists == request.language = "rust"
Attempts ==
    IF request.op = "rename" THEN RenameTries ELSE IF Assists THEN ActionTries ELSE 1
\* Faulty: no edits are an answer.
TransientErrors == IF request.op = "rename" \/ Assists THEN {"unsettled"} ELSE {}
Transient ==
    IF request.op = "rename" THEN {"unsettled", "empty"} ELSE IF Assists THEN {"unsettled"} ELSE {}
\* retryWithConfig: the budget ends in an error, never in a no-op.
AskUnsettled ==
    /\ pc = "ask" /\ backend = "lsp" /\ Transient # {}
    /\ tries' = tries + 1
    /\ IF tries' < Attempts THEN UNCHANGED <<pc, error>> ELSE Fail("unsettled", GiveUp)
    /\ UNCHANGED <<request, kind, lspVars, outVars>>

\* Every other failure of a request, as the command reports it:
\* translateRenameError keeps of a rename's error only the text.
Rejections ==
    CASE request.op = "rename" -> {"rejected", "same name"}
      [] request.op \in {"extract-function", "inline"} /\ ~Assists -> {"rejected", "unsupported operation"}
      [] request.op \in {"move", "change-signature"} -> {"rejected", "unsafe"}
      [] OTHER -> {"rejected"}
AskRejected ==
    /\ pc = "ask" /\ backend = "lsp"
    /\ \E class \in Rejections : Fail(class, GiveUp)
    /\ UNCHANGED <<request, kind, lspVars, tries, outVars>>

\* An edit without text edits is a no-op where the adapter has not refused it.
AskEmpty ==
    /\ pc = "ask" /\ backend = "lsp"
    /\ "empty" \notin Transient /\ request.op \notin {"move", "change-signature"}
    /\ Fail("no edits", GiveUp)
    /\ UNCHANGED <<request, kind, lspVars, tries, outVars>>

AskAnswered ==
    /\ pc = "ask" /\ backend = "lsp"
    /\ pc' = "capture"
    /\ UNCHANGED <<request, error, kind, lspVars, tries, outVars>>

\* What a run of the ts-morph script may come to: an answer, or a script that is
\* gone, times out, fails or speaks another version.
ScriptAnswers == {"edits", "no edits", "rejected"}
\* Rename of ts-morph: one run of the script, not repeated.
RunScript ==
    /\ pc = "ask" /\ backend = "tsmorph"
    /\ \E answer \in ScriptAnswers :
          IF answer = "edits" THEN pc' = "capture" /\ UNCHANGED error ELSE Fail(answer, GiveUp)
    /\ UNCHANGED <<request, kind, lspVars, tries, outVars>>

\* ListSymbols; the listing does not fail.
List ==
    /\ pc = "list"
    /\ \/ /\ pc' = "shutdown"
          /\ status' = "ok"
          /\ envelopes' = IF request.json THEN Append(envelopes, Envelope("ok", 0)) ELSE envelopes
          /\ UNCHANGED <<error, emitted>>
       \/ Fail("list failed", "shutdown") /\ EmitIf(request.json, Envelope("backend-failed", 1))
    /\ UNCHANGED <<request, kind, lspVars, tries, files, exit, snapshot>>

(* -------------------------------- the output ---------------------------- *)

\* Faulty: as if there were no --dry-run.
CaptureThenApply ==
    /\ pc = "capture"
    /\ snapshot' \in {"none", "planned"}
    /\ pc' = "apply"
    /\ UNCHANGED <<request, error, kind, lspVars, tries, files, envelopes, emitted, exit, status>>

\* CaptureSnapshot, best effort, before anything is written.
Capture ==
    /\ pc = "capture"
    /\ snapshot' \in {"none", "planned"}
    /\ status' = IF request.dryRun THEN "dry-run" ELSE status
    /\ pc' = IF request.dryRun THEN "show" ELSE "apply"
    /\ UNCHANGED <<request, error, kind, lspVars, tries, files, envelopes, emitted, exit>>

\* The dry run of applyOrPreview and of emitJSON; a diff may not render.
Show ==
    /\ pc = "show"
    /\ \/ /\ pc' = GiveUp
          /\ envelopes' = IF request.json THEN Append(envelopes, Envelope("dry-run", 0)) ELSE envelopes
          /\ UNCHANGED <<error, status>>
       \/ ~request.json /\ Fail("preview failed", GiveUp) /\ status' = "failed" /\ UNCHANGED envelopes
    /\ UNCHANGED <<request, kind, lspVars, tries, files, emitted, exit, snapshot>>

\* ApplyWithin, the whole batch; one that fails may leave it written.
Apply ==
    /\ pc = "apply" /\ pc' = GiveUp
    /\ \/ /\ files' = "changed"
          /\ status' = "applied"
          /\ snapshot' = IF snapshot = "planned" THEN "applied" ELSE snapshot
          /\ envelopes' = IF request.json THEN Append(envelopes, Envelope("applied", 0)) ELSE envelopes
          /\ UNCHANGED <<error, emitted>>
       \/ /\ files' \in {"original", "changed"}
          /\ error' = "apply failed"
          /\ EmitIf(request.json, Envelope("backend-failed", 1))
          /\ UNCHANGED snapshot
    /\ UNCHANGED <<request, kind, lspVars, tries, exit>>

(* ------------------------------- the way back --------------------------- *)

\* handleTier1RenameError: prints every error but one that did not parse,
\* one that is already printed too.
ReturnTier1 ==
    /\ pc = "tier 1" /\ pc' = "shutdown"
    /\ \/ error = "ambiguous" /\ ReportAmbiguous
       \/ error # "ambiguous" /\ EmitIf(request.json /\ error \notin {"none", "parse error"},
                                       OperationEnvelope(error))
    /\ UNCHANGED <<request, error, kind, lspVars, tries, files, exit, snapshot>>

\* The deferred Shutdown, which leaves no process behind (module LspClient).
Shutdown ==
    /\ pc = "shutdown" /\ pc' = "route"
    /\ server' = IF backend = "lsp" THEN "stopped" ELSE server
    /\ backend' = "none"
    /\ UNCHANGED <<request, error, kind, opened, didOpens, tries, outVars>>

\* Faulty: does not look whether the error is printed.
RouteAgain ==
    /\ pc = "route" /\ pc' = "execute"
    /\ EmitIf(request.json /\ request.op # "list-symbols" /\ error # "none", OperationEnvelope(error))
    /\ UNCHANGED <<request, error, kind, lspVars, tries, files, exit, snapshot>>
\* routeOperationError
Route ==
    /\ pc = "route" /\ pc' = "execute"
    /\ EmitIf(request.json /\ request.op # "list-symbols" /\ error # "none" /\ emitted = 0,
              OperationEnvelope(error))
    /\ UNCHANGED <<request, error, kind, lspVars, tries, files, exit, snapshot>>

\* Execute: what nobody has printed and has no exit code is an invalid request.
Execute ==
    /\ pc = "execute" /\ pc' = "finish"
    /\ EmitIf(request.json /\ error # "none" /\ emitted = 0 /\ ~HasExitCode(error),
              Envelope("backend-failed", 1))
    /\ UNCHANGED <<request, error, kind, lspVars, tries, files, exit, snapshot>>

\* Run and exitDetails
Finish ==
    /\ pc = "finish" /\ pc' = "done"
    /\ exit' = IF emitted # 0 THEN emitted ELSE ExitCode(error)
    /\ status' = IF status = "" THEN DefaultStatus(error) ELSE status
    /\ UNCHANGED <<request, error, kind, lspVars, tries, files, envelopes, emitted, snapshot>>

Finished == pc = "done" /\ UNCHANGED vars

Next ==
    \/ Validate \/ Resolve \/ Build \/ InitializeScript \/ InitializeServer \/ Settle
    \/ Prime \/ FindNothing \/ FindFails \/ Find \/ Probe \/ CheckKind \/ CheckInput
    \/ Open \/ AskUnsettled \/ AskRejected \/ AskEmpty \/ AskAnswered \/ RunScript \/ List
    \/ Capture \/ Show \/ Apply \/ ReturnTier1 \/ Shutdown \/ Route \/ Execute \/ Finish
    \/ Finished
Spec == Init /\ [][Next]_vars

(* ------------------------------- properties ----------------------------- *)

Done == pc = "done"

\* With --json a command prints one envelope whose exit code is the process's,
\* without it none, however the error got out: emitted inline, by the routing
\* of the operation or by Execute.  The one exception is a rename by --symbol
\* whose edit cannot be applied, which prints two.
OneEnvelope ==
    Done =>
        IF ~request.json THEN envelopes = <<>>
        ELSE /\ Len(envelopes) = IF Tier1 /\ error = "apply failed" THEN 2 ELSE 1
             /\ \A i \in DOMAIN envelopes : envelopes[i].exit = exit

\* Files change only when the user asked for it, for a symbol that is of the
\* kind the command names as far as the server could say; and whenever they
\* have changed, or have not, the exit code, the telemetry status and the
\* snapshot say so: only a failed apply leaves a doubt.
WritesAreMeantAndTold ==
    /\ files = "changed" =>
          ~request.dryRun /\ request.op # "list-symbols" /\ KindFits(request.language, request.kind, kind)
    /\ (Done /\ error # "apply failed") =>
          /\ files = "changed" <=> status = "applied"
          /\ snapshot = "applied" => files = "changed"
          /\ exit = 0 <=> status \in {"applied", "dry-run", "ok"}

\* The exit code does not depend on --json, with two exceptions: a symbol that
\* is not found in Go (2 with it, 1 without) and a language without a server
\* configured where the backend's setup reports it (3 with it, 1 without).
SameExitInBothModes ==
    (Done /\ request.json /\ exit # ExitCode(error)) =>
        \/ error = "symbol not found"
        \/ error = "no server configured" /\ request.op \in {"rename", "list-symbols"}

\* Deferred cleanup: a command leaves no language server behind, except when
\* the server never becomes idle while it is initialized.
ServerIsStopped == (Done /\ server = "running") => error = "init failed"

\* A request that repeats ends after its budget in a failure: a server that has
\* not settled, or has only ever sent empty answers, is never taken to have
\* said that there is nothing to do.
UnsettledIsNoAnswer ==
    /\ pc = "ask" => tries < Attempts
    /\ (Done /\ request.op = "rename" /\ server # "none") => error # "no edits"

\* The server is asked only about a file it was told of; it is told twice only
\* by a rename, whose probe and priming pass the adapter's record by.
OpenedBeforeAsked ==
    /\ (pc = "ask" /\ backend = "lsp") => didOpens >= 1
    /\ didOpens > 1 => request.op = "rename"
    /\ didOpens <= 2
==============================================================================
