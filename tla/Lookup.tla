------------------------------- MODULE Lookup --------------------------------
(* The functions that tell refute where a symbol is, who is asked and what the *)
(* answer means, compared with reference definitions that say the same without *)
(* an order of execution.  A query is put, then answered; the properties       *)
(* relate the answer to the query.                                             *)
EXTENDS RustNames, Selection, ServerEdits

CONSTANTS
    Texts,      \* source texts
    Names,      \* the names that are looked for in a text
    CodeLines,  \* lines of characters of 1 to 4 bytes
    Symbols,    \* the Rust symbols of a workspace
    GoSymbols,  \* the Go symbols of a workspace: [package, type, name], "" for no type
    Hosts,      \* configurations and machines
    Batches,    \* [disk, changes]: files and the changes a server answers
    Moves,      \* [disk, answers]: the same for the answers to a move
    Extractions,\* [texts, kind]: texts of words
    Snippets,   \* texts of characters
    Contents,   \* file contents, sequences of characters
    EditLists   \* lists of text edits

\* A position in a text, as a server may give it.
Place == [line : Int, char : Int]
\* f maps some of the paths to texts.
Disk(f) == DOMAIN f \subseteq Paths /\ f \in [DOMAIN f -> Seq(STRING)]
\* Only a rename has another path.
Changes ==
    {c \in [kind : Kinds, path : Paths, to : Paths, overwrite : BOOLEAN, ignore : BOOLEAN, start : BOOLEAN] :
        c.kind # "rename" => c.to = c.path}
\* What gopls answers to a move: edits, and the creation of a file that is not
\* there, which is called "n" here.  The user wants it to be "d".
MoveChanges == {c \in Changes : c.kind \in {"create", "edit"} /\ (c.kind = "create" => c.path = "n")}
ASSUME QueriesAssumption ==
    /\ Texts \subseteq Seq(STRING)
    /\ Names \subseteq Seq({"a", "b"}) \ {<<>>}
    /\ CodeLines \subseteq Seq(1 .. 4)
    /\ Contents \subseteq Seq(STRING)
    /\ \A b \in Batches : Disk(b.disk) /\ b.changes \in Seq(Changes)
    /\ {"n", "d"} \subseteq Paths
    /\ \A m \in Moves : Disk(m.disk) /\ "n" \notin DOMAIN m.disk /\ m.answers \in Seq(Seq(MoveChanges))
    /\ \A e \in Extractions : e.texts \in Seq(Seq(STRING))
    /\ EditLists \subseteq Seq([start : Place, end : Place, newText : Seq(STRING)])

VARIABLES query, answer
vars == <<query, answer>>

(* --------------------------- reference: scanning ------------------------ *)

Openers(t) == {i \in 1 .. Len(t) : t[i] \in {"q", "s", "r"}
                                   \/ Has(t, i, <<"/", "/">>) \/ Has(t, i, <<"/", "*">>)}
LineEndAt(t, i) == Least({j \in i .. Len(t) : j = Len(t) \/ t[j + 1] = "n"})
\* A quote is escaped when an odd number of backslashes of its string precedes it.
Escaped(t, i, j) ==
    LET run == {k \in i .. j - 1 : \A m \in k + 1 .. j - 1 : t[m] = "e"}
    IN Cardinality(run) % 2 = 0
Closers(t, i) ==
    CASE t[i] \in {"q", "s"} -> {j \in i + 1 .. LineEndAt(t, i) : t[j] = t[i] /\ ~Escaped(t, i, j)}
      [] t[i] = "r" -> {j \in i + 1 .. Len(t) : t[j] = "r"}
      [] Has(t, i, <<"/", "*">>) -> {j \in i + 3 .. Len(t) : t[j - 1] = "*" /\ t[j] = "/"}
      [] OTHER -> {LineEndAt(t, i)}
\* Where the comment or literal that opens at i ends, closed or not.
EndOf(t, i) ==
    IF Closers(t, i) # {} THEN Least(Closers(t, i))
    ELSE IF t[i] \in {"q", "s"} THEN LineEndAt(t, i) ELSE Len(t)
\* The openers that count: those no other one's region holds.
Regions(t) ==
    CHOOSE R \in SUBSET Openers(t) :
        \A i \in Openers(t) : i \in R <=> \A r \in R : r < i => EndOf(t, r) < i
InCode(t) == {i \in 1 .. Len(t) : t[i] # "n" /\ \A r \in Regions(t) : i \notin r .. EndOf(t, r)}
Words(t, name) ==
    {i \in InCode(t) : /\ Has(t, i, name) /\ i .. i + Len(name) - 1 \subseteq InCode(t)
                       /\ i = 1 \/ ~IsIdentifier(t[i - 1])
                       /\ i + Len(name) > Len(t) \/ ~IsIdentifier(t[i + Len(name)])}
\* Every literal is closed on its line and there is no backquote: legal Java.
JavaLike(t) ==
    /\ "r" \notin ToSet(t)
    /\ \A i \in Regions(t) : t[i] \in {"q", "s"} => Closers(t, i) # {}

(* -------------------------- reference: Rust names ----------------------- *)

\* A symbol lives in a module, in a type or not, in a trait's impl or not.
Path(sym) == IF sym.type = <<>> THEN sym.module ELSE Append(sym.module, sym.type)
Joined(segments) ==
    FlattenSeq([k \in DOMAIN segments |-> IF k = 1 THEN segments[k] ELSE <<"::">> \o segments[k]])
Qualify(segments, rest) == IF segments = <<>> THEN rest ELSE Joined(segments) \o <<"::">> \o rest

\* The forms a user may write: any end of the path, or all of it after crate::,
\* with <Type as Trait> for the type when there is a trait.
Spellings(sym) ==
    {Qualify(p, sym.name) : p \in Suffixes(Path(sym))}
    \cup {<<"crate", "::">> \o Qualify(Path(sym), sym.name)}
    \cup (IF sym.trait = <<>> THEN {}
          ELSE {Qualify(m, <<"<">> \o sym.type \o <<" as ">> \o sym.trait \o <<">", "::">> \o sym.name)
                : m \in Suffixes(sym.module)})
NamesTrait(s) == "<" \in ToSet(s)

\* The containers rust-analyzer may report, the abbreviated ones included.
Containers(sym) ==
    {<<>>, Joined(Path(sym))}
    \cup (IF sym.type = <<>> THEN {} ELSE {sym.type})
    \cup (IF sym.trait = <<>> THEN {}
          ELSE LET impl == <<"impl ">> \o sym.trait \o <<" for ">> \o sym.type
               IN {impl, Qualify(sym.module, impl), <<"impl ", "fmt", "::">> \o SubSeq(impl, 2, Len(impl)),
                   sym.type \o <<"(">> \o sym.trait \o <<")">>})

\* The outline of a file: a module whose impl blocks have one symbol each, two lines apart.
Outline ==
    LET ImplNode(sym) ==
            [first |-> sym.line - 1, last |-> sym.line, parent |-> 1,
             name |-> <<"impl ">> \o sym.trait \o <<" for ">> \o sym.type]
        inTraits == SetToSeq({s \in Symbols : s.trait # <<>>})
    IN <<[first |-> 0, last |-> 100, parent |-> 0, name |-> <<"mod">>]>>
       \o [k \in DOMAIN inTraits |-> ImplNode(inTraits[k])]
Info(sym, container) == [name |-> sym.name, container |-> container, line |-> sym.line, outline |-> Outline]

(* ------------------------- reference: dotted names ---------------------- *)

Owner(sym) == IF sym.type = "" THEN sym.package ELSE sym.type
Dotted(sym) ==
    {<<sym.name>>, <<Owner(sym), sym.name>>}
    \cup (IF sym.type = "" THEN {} ELSE {<<sym.package, sym.type, sym.name>>})
\* The containers gopls may report: the owner alone or with the package's path.
GoContainers(sym) ==
    [last : {Owner(sym)}, sep : {"", IF sym.type = "" THEN "/" ELSE "."}]

(* ------------------------- reference: server edits ---------------------- *)

\* What the server means: its changes in their order.
InOrder(disk, changes) == Outcome(Files(disk), changes)
Rank == [create |-> 1, edit |-> 2, rename |-> 3, delete |-> 4]
\* No change looks back at a path that a later phase works on.
InPhase(changes) ==
    \A i, j \in DOMAIN changes :
        (i < j /\ {changes[i].path, changes[i].to} \cap {changes[j].path, changes[j].to} # {}) =>
            Rank[changes[i].kind] <= Rank[changes[j].kind]
\* gopls's shape of an extraction: the helper comes last, after the function it
\* was taken from; the variable is assigned at the start of its text, and no
\* later text assigns another.
Shaped(texts, kind) ==
    LET Introduces(t) ==
            IF kind = "function"
            THEN \E i \in 1 .. Len(t) - 1 : Has(t, i, <<"func", "p">>) /\ \A j \in i + 1 .. Len(t) : t[j] # "func"
            ELSE Has(t, 1, <<"p", ":=">>)
        mark == IF kind = "function" THEN "func" ELSE ":="
    IN \E i \in DOMAIN texts :
          Introduces(texts[i]) /\ \A j \in i + 1 .. Len(texts) : mark \notin ToSet(texts[j])

(* -------------------------- reference: text edits ----------------------- *)

\* The line and column of an offset, and the offset of a position; -1 when it is
\* that of none.
PositionOf(t, o) ==
    LET before == {x \in 1 .. o : t[x] = Newline}
    IN [line |-> Cardinality(before), char |-> o - Max(before \cup {0})]
PlaceOf(t, pos) == Max({-1} \cup {o \in 0 .. Len(t) : PositionOf(t, o) = pos})

\* Exactly the lists that have a meaning: every range lies within the lines of
\* the original file, and of two edits one ends before the other starts (at the
\* same place an insertion has to be listed first).
Meaningful(t, list) ==
    LET from == [m \in DOMAIN list |-> PlaceOf(t, list[m].start)]
        to == [m \in DOMAIN list |-> PlaceOf(t, list[m].end)]
    IN /\ \A m \in DOMAIN list : 0 <= from[m] /\ from[m] <= to[m]
       /\ \A m, h \in DOMAIN list :
             m < h => \/ to[h] <= from[m] /\ from[h] < from[m]
                      \/ to[m] <= from[h]

\* What the edits mean, all at once: the characters no edit covers stay, and at
\* every offset the new texts of the edits that start there come in array order.
Simultaneous(t, list) ==
    LET from == [m \in DOMAIN list |-> PlaceOf(t, list[m].start)]
        to == [m \in DOMAIN list |-> PlaceOf(t, list[m].end)]
        inserted(o) == FlattenSeq([m \in DOMAIN list |-> IF from[m] = o THEN list[m].newText ELSE <<>>])
        kept(o) == o < Len(t) /\ \A m \in DOMAIN list : ~(from[m] <= o /\ o < to[m])
    IN FlattenSeq([x \in 1 .. Len(t) + 1 |->
           inserted(x - 1) \o (IF kept(x - 1) THEN <<t[x]>> ELSE <<>>)])

(* ------------------------------- the queries ---------------------------- *)

NoAnswer == [op |-> "none"]
Init ==
    /\ answer = NoAnswer
    /\ \/ \E t \in Texts : query = [op |-> "text", text |-> t]
       \/ \E l \in CodeLines : query = [op |-> "columns", line |-> l]
       \/ \E asked, other \in Symbols : \E s \in Spellings(asked) :
          \E c \in Containers(other) :
             query = [op |-> "rust", asked |-> asked, spelling |-> s, other |-> other, container |-> c]
       \/ \E asked, other \in GoSymbols : \E s \in Dotted(asked) : \E c \in GoContainers(other) :
             query = [op |-> "go", asked |-> asked, spelling |-> s, other |-> other, container |-> c]
       \/ \E h \in Hosts : query = [op |-> "host", host |-> h]
       \/ \E b \in Batches : query = [op |-> "batch", batch |-> b]
       \/ \E m \in Moves : query = [op |-> "move", move |-> m]
       \/ \E e \in Extractions : query = [op |-> "extract", extraction |-> e]
       \/ \E t \in Snippets : query = [op |-> "snippet", snippet |-> t]
       \/ \E t \in Contents, l \in EditLists : query = [op |-> "edits", content |-> t, edits |-> l]

\* A name is looked up on every line, the Java scanner runs over the same text.
AskText ==
    /\ query.op = "text" /\ answer = NoAnswer
    /\ answer' = [op |-> "text",
                  found |-> [name \in Names |-> [k \in 0 .. LineOf(query.text, Len(query.text) + 1) |->
                                ResolveTier2(query.text, k, name)]],
                  stripped |-> StripJava(query.text), type |-> JavaType(query.text)]
    /\ UNCHANGED query

AskColumns ==
    /\ query.op = "columns" /\ answer = NoAnswer
    /\ answer' = [op |-> "columns",
                  character |-> [b \in -1 .. Bytes(query.line) + 2 |-> ToCharacter(query.line, b)],
                  column |-> [c \in -1 .. Bytes(query.line) + 2 |-> ToByteColumn(query.line, c)]]
    /\ UNCHANGED query

AskRust ==
    /\ query.op = "rust" /\ answer = NoAnswer
    /\ answer' = [op |-> "rust",
                  result |-> ResolveRust(query.spelling, <<Info(query.other, query.container)>>)]
    /\ UNCHANGED query

AskGo ==
    /\ query.op = "go" /\ answer = NoAnswer
    /\ answer' = [op |-> "go",
                  found |-> MatchSymbols(query.spelling, query.spelling[1] = query.asked.type,
                                         <<[name |-> query.other.name, container |-> query.container]>>)]
    /\ UNCHANGED query

AskHost ==
    /\ query.op = "host" /\ answer = NoAnswer
    /\ LET h == query.host IN
       answer' = [op |-> "host",
                  doctor |-> ProbeServer(h.layers, h.language, h.ws),
                  adapter |-> ProbeAdapter(h.ws),
                  tier1 |-> BuildTier1(h.layers, h.language, h.ws),
                  tier2 |-> BuildBackend(h.layers, h.language, h.ws, h.op)]
    /\ UNCHANGED query

AskBatch ==
    /\ query.op = "batch" /\ answer = NoAnswer
    /\ answer' = [op |-> "batch",
                  result |-> ApplyBatch(query.batch.disk, ParseChanges(query.batch.disk, query.batch.changes))]
    /\ UNCHANGED query

\* The answers of gopls call the new file "n", the user wants "d".
AskMove ==
    /\ query.op = "move" /\ answer = NoAnswer
    /\ answer' = [op |-> "move",
                  result |-> ApplyBatch(query.move.disk, MoveToFile(query.move.disk, query.move.answers, "d"))]
    /\ UNCHANGED query

AskExtract ==
    /\ query.op = "extract" /\ answer = NoAnswer
    /\ answer' = [op |-> "extract", texts |-> Extract(query.extraction.texts, query.extraction.kind, "new")]
    /\ UNCHANGED query

\* An edit is normalized when it is applied, and before that if a telemetry
\* snapshot is taken (PreviewWithin).
AskSnippet ==
    /\ query.op = "snippet" /\ answer = NoAnswer
    /\ answer' = [op |-> "snippet", applied |-> Normalize(query.snippet),
                  afterSnapshot |-> Normalize(Normalize(query.snippet)),
                  named |-> Normalize(NameSnippet(query.snippet, "new"))]
    /\ UNCHANGED query

\* The edits are applied, or shown by a dry run.
AskEdits ==
    /\ query.op = "edits" /\ answer = NoAnswer
    /\ answer' = [op |-> "edits", applied |-> ApplyEdits(query.content, query.edits),
                  shown |-> Preview(query.content, query.edits)]
    /\ UNCHANGED query

Answered == answer # NoAnswer /\ UNCHANGED vars
Next == AskText \/ AskColumns \/ AskRust \/ AskGo \/ AskHost \/ AskBatch \/ AskMove
        \/ AskExtract \/ AskSnippet \/ AskEdits \/ Answered
Spec == Init /\ [][Next]_vars

(* ------------------------------- properties ----------------------------- *)

\* A name is found on a line exactly where it stands there once as a whole word
\* outside comments and literals, wherever those began: resolveTier2 and
\* codeMaskForLine never point a rename at text that is not code.
NamesAreCode ==
    answer.op = "text" =>
        \A name \in Names, k \in 1 .. LineOf(query.text, Len(query.text) + 1) :
            LET there == {i \in Words(query.text, name) : LineOf(query.text, i) = k} IN
            answer.found[name][k] =
                IF there = {} THEN NotFound
                ELSE IF Cardinality(there) > 1 THEN Ambiguous ELSE CHOOSE i \in there : TRUE

\* The second scanner of the program, that of openrewrite, keeps of legal Java
\* exactly the same characters at the same places, and the class it names is
\* declared in code: a keyword in a comment or a literal declares nothing.
JavaNameIsDeclared ==
    (answer.op = "text" /\ JavaLike(query.text)) =>
        LET t == query.text IN
        /\ Len(answer.stripped) = Len(t)
        /\ \A i \in 1 .. Len(t) :
              answer.stripped[i] = IF i \in InCode(t) \/ t[i] = "n" THEN t[i] ELSE "w"
        /\ answer.type.class # <<>> =>
              \E i \in InCode(t) : /\ t[i] \in {"C", "I"}
                                   /\ Has(t, i + 1, answer.type.class)
                                   /\ i .. i + Len(answer.type.class) \subseteq InCode(t)

\* The conversions between byte columns and UTF-16 characters that every
\* position passes through are inverse to each other, and fail exactly inside a
\* character and outside the line: no position silently moves to another one.
ColumnsRoundTrip ==
    answer.op = "columns" =>
        LET valid == {ByteEnds(query.line)[k] + 1 : k \in 0 .. Len(query.line)}
            units == {UnitEnds(query.line)[k] : k \in 0 .. Len(query.line)}
        IN /\ \A b \in DOMAIN answer.character :
                 IF b \in valid THEN answer.column[answer.character[b]] = b
                 ELSE answer.character[b] = -1
           /\ \A c \in DOMAIN answer.column :
                 IF c \in units THEN answer.character[answer.column[c]] = c
                 ELSE answer.column[c] = -1

\* Every spelling of a Rust symbol finds it, whichever form of container the
\* server reports, and never a symbol of another name, another trait (when the
\* spelling names one) or another type (when both sides name one):
\* ParseRustQualifiedName, parseRustContainer and FilterRustCandidates agree.
RustNameResolves ==
    LET asked == query.asked
        other == query.other
        path == ParseRust(query.spelling).path
    IN /\ other = asked => answer.result = Found(Info(other, query.container))
       /\ answer.result.outcome = "found" =>
             /\ other.name = asked.name
             /\ NamesTrait(query.spelling) => other.trait = asked.trait
             /\ (path # <<>> /\ query.container # <<>>) => Last(path) = Last(Path(other))
\* A dotted name finds its Go symbol, except Type.Method under a container that
\* has the package's path, and finds no symbol of another name, or another
\* owner than the last one it names; of three parts the package is not looked at.
DottedNameResolves ==
    LET s == query.spelling IN
    /\ (query.other = query.asked /\ (Len(s) = 2 => query.container.sep # ".")) => answer.found # <<>>
    /\ answer.found # <<>> =>
          /\ query.other.name = query.asked.name
          /\ Len(s) > 1 => Owner(query.other) = Owner(query.asked)
\* A --symbol rename finds the symbol that is meant, and no other.
NamesResolve ==
    /\ answer.op = "rust" => RustNameResolves
    /\ answer.op = "go" => DottedNameResolves

\* What `refute doctor` reports is what a rename then finds: a server it calls
\* present is the one a --symbol rename starts and enough for a rename by
\* position; one it calls missing is missing for --symbol too; a language it does not claim
\* is refused.  The configuration must load and name no server without a command.
DoctorAgrees ==
    (answer.op = "host" /\ answer.doctor # "no row" /\ ~Load(query.host.layers).broken) =>
        LET h == query.host
            servers == Load(h.layers).servers
        IN (\A l \in DOMAIN servers : servers[l] # "") =>
            /\ answer.doctor = "not-claimed" <=> answer.tier2.error = "unsupported language"
            /\ answer.doctor = "not-claimed" <=> answer.tier1.error = "unsupported language"
            /\ answer.doctor = "missing" <=> answer.tier1.error = "server missing"
            /\ (answer.doctor \notin {"missing", "not-claimed"} /\ h.op = "rename") =>
                  answer.tier2.error = "none"
            /\ (answer.adapter = "ok" /\ h.language \in Web /\ h.op = "rename") =>
                  answer.tier2 = Rung("tsmorph", "")

\* The fixed order of creates, edits, renames and deletes gives what the server
\* meant by its own order, or the batch is refused; it is refused only when a
\* file is edited twice, a file of the same answer is edited anywhere but at its
\* start, or the server's own order does not work.  Asked only when changes
\* that share a path come in the order of the phases.  A move leaves the
\* server's own file out and puts its text where the user asked for it.
ServerEditsKept ==
    /\ (answer.op = "batch" /\ InPhase(query.batch.changes)) =>
          LET b == query.batch
              meant == InOrder(b.disk, b.changes)
              edits == OfKind(b.changes, "edit")
          IN /\ answer.result.ok => answer.result = meant
             /\ (~answer.result.ok /\ meant.ok) =>
                   \/ Cardinality(PathsOf(edits)) < Len(edits)
                   \/ \E i \in DOMAIN edits : ~edits[i].start /\ edits[i].path \in CreateTargets(b.changes)
    /\ (answer.op = "move" /\ answer.result.ok /\ InPhase(FlattenSeq(query.move.answers))) =>
          LET meant == InOrder(query.move.disk, FlattenSeq(query.move.answers))
          IN /\ meant.ok
             /\ answer.result.files = Put(Without(meant.files, "n"), "d", meant.files["n"])

\* The user's name replaces the name that gopls has given to what it extracted,
\* everywhere and nothing else, also when the region holds other functions.
ExtractionIsNamed ==
    answer.op = "extract" =>
        LET e == query.extraction IN
        Shaped(e.texts, e.kind) =>
            \A i \in DOMAIN e.texts : \A k \in DOMAIN e.texts[i] :
                answer.texts[i][k] = IF e.texts[i][k] = "p" THEN "new" ELSE e.texts[i][k]

HasEscape(s) == \E i \in 1 .. Len(s) - 1 : s[i] = "$" /\ s[i + 1] = "$"
\* A telemetry snapshot, which normalizes the edit in place, leaves the text that
\* is applied as it is, and a name put into a snippet is there once, in a text
\* without an escaped dollar.
SnapshotIsNeutral ==
    (answer.op = "snippet" /\ ~HasEscape(query.snippet)) =>
        /\ answer.afterSnapshot = answer.applied
        /\ (HasSnippet(query.snippet) /\ "|" \notin ToSet(query.snippet)) =>
              Len(SelectSeq(answer.named, LAMBDA c : c = "new")) = 1

\* Applying the edits one by one from the end of the file, each resolved against
\* a text that has changed, gives what they mean all at once; a list is refused
\* exactly when it has no meaning.
AppliesSimultaneously ==
    answer.op = "edits" =>
        /\ answer.applied.ok <=> Meaningful(query.content, query.edits)
        /\ answer.applied.ok => answer.applied.text = Simultaneous(query.content, query.edits)

\* What a dry run shows is what applying then writes.
PreviewIsApplied == (answer.op = "edits" /\ answer.applied.ok) => answer.shown = answer.applied
==============================================================================
