------------------------------ MODULE MCCommand ------------------------------
(* The requests: every operation in the languages that differ, with flags that *)
(* are checked as internal/cli/validate.go does and backends that are chosen   *)
(* as module Selection says, on a few machines.                                *)
EXTENDS Command, Selection

NoFlags == [symbol |-> "unset", file |-> "unset", line |-> -1, col |-> -1, name |-> "unset",
            callSite |-> "unset", destination |-> "unset", dirs |-> <<{"go"}>>]
OnFile == [NoFlags EXCEPT !.file = "regular", !.line = 2]
Flags == {NoFlags, OnFile, [OnFile EXCEPT !.col = 3], [OnFile EXCEPT !.col = 0], [OnFile EXCEPT !.name = "n"],
          [OnFile EXCEPT !.file = "missing"], [OnFile EXCEPT !.name = "n", !.destination = "other"],
          [NoFlags EXCEPT !.symbol = "plain"], [NoFlags EXCEPT !.symbol = "rust"],
          [NoFlags EXCEPT !.symbol = "plain", !.dirs = <<{"go", "rust"}, {"go"}>>],
          [OnFile EXCEPT !.symbol = "plain"], [NoFlags EXCEPT !.callSite = "parsed"],
          [NoFlags EXCEPT !.callSite = "parsed", !.symbol = "malformed"]}
Ranges == {[file |-> "regular", line |-> 2, col |-> 1, endLine |-> l, endCol |-> c] : l \in 1 .. 2, c \in {1, 3}}

Valid(op, f) ==
    CASE op = "rename" -> ValidRename(f)
      [] op = "inline" -> ValidInline(f)
      [] op = "move" -> ValidMove(f)
      [] OTHER -> ValidExtract(f)
Address(op, f) ==
    IF op \in {"extract-function", "change-signature"} \/ Set(f.callSite) THEN "exact"
    ELSE CASE Tier(f) = 1 -> "symbol" [] Tier(f) = 3 -> "column" [] Tier(f) = 2 -> "name" [] OTHER -> "neither"

\* Machines with everything, with a server but no adapter, with nothing.
Machine(path, places) == [path |-> path, localServer |-> FALSE, scripts |-> places, modules |-> places]
Machines == {Machine({"node", "gopls", "rust-analyzer", "tsserver"}, {"global"}), Machine({"tsserver"}, {}), Machine({}, {})}
Configurations(language) == {<<NoLayer>>, <<BrokenLayer>>, <<Layer([l \in {language} |-> ""], "unset")>>}
\* What buildBackend, or setupLSPBackend for a symbol or a listing, may find.
MCSelections(r) ==
    {LET s == IF r.address = "symbol" THEN BuildTier1(layers, r.language, ws)
              ELSE BuildBackend(layers, r.language, ws, r.op)
     IN [error |-> s.error, backend |-> s.backend] :
        layers \in Configurations(r.language), ws \in Machines}

Request(op, language, k, address, valid, json, dryRun) ==
    [op |-> op, language |-> language, kind |-> k, address |-> address, valid |-> valid, json |-> json,
     dryRun |-> dryRun]
Renames ==
    UNION {{Request("rename", language, k, Address("rename", f), ValidRename(f), json, dryRun) : f \in Flags} :
        language \in {"go", "rust", "typescript", "java"}, k \in {NoKind, "class", "method"},
        json \in BOOLEAN, dryRun \in BOOLEAN}
Others ==
    UNION {{Request(op, language, NoKind, Address(op, f), Valid(op, f), json, dryRun) :
            f \in IF op \in {"extract-function", "change-signature"} THEN Ranges ELSE Flags} :
        op \in {"extract-function", "inline", "move", "change-signature"}, language \in {"go", "rust", "typescript"},
        json \in BOOLEAN, dryRun \in BOOLEAN}
Listings ==
    {Request("list-symbols", language, NoKind, "symbol", valid, json, FALSE) :
        language \in {"go", "rust", "java"}, valid \in BOOLEAN, json \in BOOLEAN}
MCRequests == Renames \cup Others \cup Listings
==============================================================================
