------------------------------ MODULE Selection ------------------------------
(* Which backend a command gets: the layers of the configuration              *)
(* (internal/config), the support matrix, the backend ladder                  *)
(* (internal/backend/selector), the routing of --symbol, what `refute doctor` *)
(* says about all this, and the input checks that come before it              *)
(* (internal/cli/validate.go).                                                *)
EXTENDS Integers, Sequences, FiniteSets, SequencesExt

(* ------------------------------ configuration --------------------------- *)

\* A layer is a file of settings; its servers map some languages to a command,
\* "" when the entry names none.  A missing file is a layer without settings.
Layer(servers, adapter) == [broken |-> FALSE, servers |-> servers, adapter |-> adapter]
NoLayer == Layer([l \in {} |-> ""], "unset")
BrokenLayer == [NoLayer EXCEPT !.broken = TRUE]

\* mergeLayer: an entry replaces the whole entry of the layers below.
MergeLayer(cfg, layer) ==
    [broken |-> cfg.broken \/ layer.broken,
     servers |-> layer.servers @@ cfg.servers,
     adapter |-> IF layer.adapter = "unset" THEN cfg.adapter ELSE layer.adapter]

\* Load: the user's, the project's and the explicit file, in this order; one
\* that cannot be read fails the whole.
Load(layers) == FoldLeft(MergeLayer, NoLayer, layers)

(* ------------------------------ support matrix -------------------------- *)

GoOperations == {"rename", "extract-function", "extract-variable", "inline", "move", "change-signature"}
FullOperations == {"rename", "extract-function", "extract-variable", "inline"}

\* SupportMatrix: rows with their level and the server doctor looks for.
Row(level, server) == [level |-> level, server |-> server]
SupportMatrix ==
    [go |-> Row("supported", "gopls"), rust |-> Row("experimental", "rust-analyzer"),
     typescript |-> Row("experimental", "tsserver"), javascript |-> Row("experimental", "tsserver"),
     python |-> Row("planned", "pyright"),
     java |-> Row("unsupported", ""), kotlin |-> Row("unsupported", "")]

\* builtinServers
Builtin == [go |-> "gopls", rust |-> "rust-analyzer", typescript |-> "tsserver",
            javascript |-> "tsserver", python |-> "pyright", java |-> "jdtls",
            kotlin |-> "kotlin-ls"]

\* languageProfiles and Capabilities: a language without a profile renames only.
Operations(language) ==
    CASE language = "go" -> GoOperations
      [] language = "rust" -> FullOperations
      [] OTHER -> {"rename"}

Web == {"typescript", "javascript"}

(* -------------------------------- the ladder ---------------------------- *)

\* Config.Server
Server(cfg, language) ==
    IF language \in DOMAIN cfg.servers THEN cfg.servers[language]
    ELSE IF language \in DOMAIN Builtin THEN Builtin[language] ELSE ""

\* ResolvedServer and localTypeScriptServer: a server installed in the
\* workspace comes after an explicit entry and before the built-in one.
ResolvedServer(cfg, language, ws) ==
    IF language \notin DOMAIN cfg.servers /\ language \in Web /\ ws.localServer
    THEN "local" ELSE Server(cfg, language)

\* resolveAdapterPaths: the first place of the chain that holds the script and
\* its modules, the modules of the workspace (hoisted) standing in for the
\* script's own in the first two places.
Places == <<"explicit", "workspace", "global", "repository">>
Usable(ws, place) ==
    /\ place \in ws.scripts
    /\ \/ place \in ws.modules
       \/ place \in {"explicit", "workspace"} /\ "hoisted" \in ws.modules
ResolveAdapter(explicit, ws) ==
    LET open == {k \in DOMAIN Places : Usable(ws, Places[k]) /\ (Places[k] = "explicit" => explicit)}
    IN IF open = {} THEN "none" ELSE Places[Min(open)]
AvailableAt(explicit, ws) == "node" \in ws.path /\ ResolveAdapter(explicit, ws) # "none"

\* The outcome of a selection: a backend, or why there is none.
Refused(why) == [error |-> why, backend |-> "none", server |-> ""]
Rung(backend, server) == [error |-> "none", backend |-> backend, server |-> server]

\* backendLadder
Ladder(cfg, language, ws) ==
    LET server == ResolvedServer(cfg, language, ws) IN
    (IF language \in Web /\ AvailableAt(cfg.adapter = "set", ws)
     THEN <<Rung("tsmorph", "")>> ELSE <<>>)
    \o (IF server # "" THEN <<Rung("lsp", server)>> ELSE <<>>)

Unsupported(language) ==
    language \in DOMAIN SupportMatrix /\ SupportMatrix[language].level = "unsupported"
Supports(rung, language, op) ==
    op \in (IF rung.backend = "tsmorph" THEN {"rename"} ELSE Operations(language))

\* SelectForOperation: the first rung that supports the operation, or a refusal.
SelectForOperation(cfg, language, ws, op) ==
    LET ladder == Ladder(cfg, language, ws)
        able == {k \in DOMAIN ladder : Supports(ladder[k], language, op)}
    IN IF Unsupported(language) THEN Refused("unsupported language")
       ELSE IF ladder = <<>> THEN Refused("no server configured")
       ELSE IF able = {} THEN Refused("unsupported operation")
       ELSE ladder[Min(able)]

\* buildBackend (tiers 2 and 3): load, select, find the server's command; the
\* command of a rung without a server is looked up by its Initialize.
BuildBackend(layers, language, ws, op) ==
    LET cfg == Load(layers)
        choice == SelectForOperation(cfg, language, ws, op)
    IN IF cfg.broken THEN Refused("config error")
       ELSE IF choice.backend = "lsp" /\ choice.server \notin ws.path \cup {"local"}
       THEN Refused("server missing")
       ELSE choice

\* setupTier1RenameBackend and setupLSPBackend: only a language server, chosen
\* without a look at the workspace's own.
BuildTier1(layers, language, ws) ==
    LET cfg == Load(layers)
        server == Server(cfg, language)
    IN IF Unsupported(language) THEN Refused("unsupported language")
       ELSE IF cfg.broken THEN Refused("config error")
       ELSE IF server = "" THEN Refused("no server configured")
       ELSE IF server \notin ws.path THEN Refused("server missing")
       ELSE Rung("lsp", server)

(* --------------------------------- routing ------------------------------ *)

\* DetectLanguageFromDir: directories from the inside out, each a set of
\* marker languages; the first with a marker decides, two markers do not.
DetectFromDirs(dirs) ==
    LET marked == SelectSeq(dirs, LAMBDA d : d # {})
    IN IF marked = <<>> \/ Cardinality(Head(marked)) > 1 THEN "" ELSE CHOOSE l \in Head(marked) : TRUE

\* inferTier1Language for a --symbol without a file.
InferTier1(hasColons, dirs) ==
    IF hasColons THEN "rust" ELSE DetectFromDirs(dirs)

(* --------------------------------- doctor ------------------------------- *)

\* presentStatus
PresentStatus(level) == IF level = "supported" THEN "ok" ELSE level

\* Faulty: looks for the server of the matrix whatever is configured.
ProbeMatrixServer(layers, language, ws) ==
    IF language \notin DOMAIN SupportMatrix THEN "no row"
    ELSE IF Unsupported(language) THEN "not-claimed"
    ELSE IF SupportMatrix[language].server \notin ws.path THEN "missing"
    ELSE PresentStatus(SupportMatrix[language].level)

\* loadDoctorConfig and probeSupportEntry: a configuration that does not load
\* counts as none, an entry without a command as no entry.
ProbeServer(layers, language, ws) ==
    LET cfg == Load(layers)
        claimed == language \in DOMAIN SupportMatrix
        own == IF cfg.broken \/ language \notin DOMAIN cfg.servers THEN "" ELSE cfg.servers[language]
        binary == IF own # "" THEN own ELSE SupportMatrix[language].server
    IN IF ~claimed THEN "no row"
       ELSE IF Unsupported(language) THEN "not-claimed"
       ELSE IF binary \notin ws.path THEN "missing"
       ELSE PresentStatus(SupportMatrix[language].level)

\* probeTSMorphAdapter: looks at no workspace and at no configuration.
ProbeAdapter(ws) ==
    IF "node" \in ws.path /\ \E p \in {"global", "repository"} : Usable(ws, p)
    THEN "ok" ELSE "missing"

(* ------------------------------- input checks --------------------------- *)

\* The flags of a command: a text is "unset" or what it holds, a number is -1
\* when it is not given.
Set(text) == text # "unset"
Given(number) == number # -1
Positive(number) == Given(number) => number >= 1
AnyPosition(f) == Set(f.file) \/ Set(f.name) \/ Given(f.line) \/ Given(f.col)

\* The position part of validateRenameFlags, validateMoveFlags and
\* validateInlineFlags.
ValidPosition(f) ==
    /\ f.file = "regular" /\ Given(f.line)
    /\ Positive(f.line) /\ Positive(f.col)
\* validateRenameFlags
ValidRename(f) ==
    /\ Set(f.symbol) # AnyPosition(f)
    /\ IF Set(f.symbol) THEN f.symbol \in {"plain", "rust"} /\ InferTier1(f.symbol = "rust", f.dirs) # ""
       ELSE ValidPosition(f)
\* validateInlineFlags
ValidInline(f) ==
    /\ Set(f.symbol) => Set(f.callSite)
    /\ IF Set(f.callSite)
       THEN ~AnyPosition(f) /\ f.callSite = "parsed" /\ f.symbol # "malformed"
       ELSE ValidPosition(f)
\* validateMoveFlags
ValidMove(f) == ValidPosition(f) /\ Set(f.destination)
\* validateExtractFlags
ValidExtract(f) ==
    /\ f.file = "regular"
    /\ \A x \in {f.line, f.col, f.endLine, f.endCol} : Positive(x)
    /\ \/ f.line < f.endLine
       \/ f.line = f.endLine /\ f.col <= f.endCol

\* Query.Tier
Tier(f) ==
    IF Set(f.symbol) THEN 1
    ELSE IF f.col > 0 THEN 3 ELSE IF Set(f.name) THEN 2 ELSE 0
==============================================================================
