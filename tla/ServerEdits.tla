----------------------------- MODULE ServerEdits -----------------------------
(* What becomes of the edit that a language server answers with, before it is *)
(* written: its changes are sorted into text edits and file operations        *)
(* (internal/backend/lsp/workspace_edit.go) that are applied in a fixed order *)
(* (internal/edit/applier_fileops.go), a move is redirected to the file the   *)
(* user asked for, an extraction gets the user's name (adapter.go), and the   *)
(* placeholders of a snippet are stripped (internal/edit/snippet.go).         *)
EXTENDS TextEdits

CONSTANT PathRank  \* the place of each path in the order of strings
ASSUME PathRankAssumption == PathRank \in [DOMAIN PathRank -> Nat]

(* ------------------------------ the changes ----------------------------- *)

Paths == DOMAIN PathRank
Kinds == {"create", "edit", "rename", "delete"}
\* A change of the answer.  An edit inserts a text at the start of a file or
\* further down; files map the paths that exist to their texts.
Change(kind, path) ==
    [kind |-> kind, path |-> path, to |-> path, overwrite |-> FALSE, ignore |-> FALSE, start |-> TRUE]
Failed == [ok |-> FALSE]
Files(f) == [ok |-> TRUE, files |-> f]
Without(f, path) == [p \in DOMAIN f \ {path} |-> f[p]]
Put(f, path, text) == [p \in DOMAIN f \cup {path} |-> IF p = path THEN text ELSE f[p]]

\* The document has the position of an edit.
Fits(text, edit) == edit.start \/ text # <<>>
Inserted(text, edit) == IF edit.start THEN <<"t">> \o text ELSE Append(text, "t")

\* commitCreate, applyEdits, commitRename and commitDelete without faults.
Create(f, c) ==
    IF c.path \notin DOMAIN f \/ c.overwrite THEN Files(Put(f, c.path, <<>>))
    ELSE IF c.ignore THEN Files(f) ELSE Failed
EditText(f, c) ==
    IF c.path \in DOMAIN f /\ Fits(f[c.path], c)
    THEN Files(Put(f, c.path, Inserted(f[c.path], c))) ELSE Failed
Rename(f, c) ==
    IF c.to \in DOMAIN f /\ ~c.overwrite /\ c.ignore THEN Files(f)
    ELSE IF c.path \notin DOMAIN f \/ (c.to \in DOMAIN f /\ ~c.overwrite) THEN Failed
    ELSE Files(Put(Without(f, c.path), c.to, f[c.path]))
Delete(f, c) ==
    IF c.path \in DOMAIN f THEN Files(Without(f, c.path))
    ELSE IF c.ignore THEN Files(f) ELSE Failed
Perform(result, c) ==
    IF ~result.ok THEN result
    ELSE CASE c.kind = "create" -> Create(result.files, c)
           [] c.kind = "edit" -> EditText(result.files, c)
           [] c.kind = "rename" -> Rename(result.files, c)
           [] OTHER -> Delete(result.files, c)
\* What changes make of the files, one after the other.
Outcome(result, changes) ==
    LET after[k \in 0 .. Len(changes)] ==
            IF k = 0 THEN result ELSE Perform(after[k - 1], changes[k])
    IN after[Len(changes)]

(* --------------------------- parseWorkspaceEdit ------------------------- *)

\* The changes of some kinds, in their order.
OfKinds(changes, kinds) ==
    LET kept[k \in 0 .. Len(changes)] ==
            IF k = 0 THEN <<>>
            ELSE IF changes[k].kind \in kinds THEN Append(kept[k - 1], changes[k]) ELSE kept[k - 1]
    IN kept[Len(changes)]
OfKind(changes, kind) == OfKinds(changes, {kind})
PathsOf(changes) == {changes[i].path : i \in DOMAIN changes}
CreateTargets(changes) == PathsOf(OfKind(changes, "create"))

\* convertEdits reads the file for its columns; convertEditsForNewFile takes a
\* file that the same answer creates for empty.
Converts(disk, edit) == edit.path \in DOMAIN disk /\ Fits(disk[edit.path], edit)
ConvertsForNewFile(edit) == Fits(<<>>, edit)

\* sortFileEditsByPath, stable
PathLess(a, b) ==
    \/ PathRank[a.edit.path] < PathRank[b.edit.path]
    \/ PathRank[a.edit.path] = PathRank[b.edit.path] /\ a.orig < b.orig
SortByPath(edits) ==
    LET sorted == SortedBy(Indexed(edits), PathLess) IN [m \in DOMAIN sorted |-> sorted[m].edit]

NoEdit == [error |-> TRUE]
WorkspaceEdit(edits, ops) == [error |-> FALSE, edits |-> edits, ops |-> ops]
\* The documentChanges of parseWorkspaceEdit.
ParseChanges(disk, changes) ==
    LET edits == OfKind(changes, "edit")
        Converted(e) == IF e.path \in CreateTargets(changes) THEN ConvertsForNewFile(e) ELSE Converts(disk, e)
    IN IF \E i \in DOMAIN edits : ~Converted(edits[i]) THEN NoEdit
       ELSE WorkspaceEdit(SortByPath(edits), OfKinds(changes, Kinds \ {"edit"}))

\* Faulty: edits come last, so that they may follow a renamed file.
PhasesEditsLast(we) ==
    OfKind(we.ops, "create") \o OfKind(we.ops, "rename") \o we.edits \o OfKind(we.ops, "delete")
\* applyWithFileOps: creates, text edits, renames, deletes; a file may be edited once.
Phases(we) ==
    OfKind(we.ops, "create") \o we.edits \o OfKind(we.ops, "rename") \o OfKind(we.ops, "delete")
ApplyBatch(disk, we) ==
    IF we.error \/ Cardinality(PathsOf(we.edits)) # Len(we.edits) THEN Failed
    ELSE Outcome(Files(disk), Phases(we))

(* ------------------------------- MoveToFile ----------------------------- *)

\* mergeWorkspaceEdits
MergeEdits(parsed) ==
    WorkspaceEdit(FlattenSeq([i \in DOMAIN parsed |-> parsed[i].edits]),
                  FlattenSeq([i \in DOMAIN parsed |-> parsed[i].ops]))
\* retargetCreatedFile
Retarget(we, destination) ==
    LET created == CreateTargets(we.ops)
        Moved(c) == IF c.path \in created THEN [c EXCEPT !.path = destination] ELSE c
        Redirected(c) == IF c.kind \in {"create", "edit"} THEN Moved(c) ELSE c
    IN IF Len(OfKind(we.ops, "create")) # 1 THEN NoEdit
       ELSE WorkspaceEdit([i \in DOMAIN we.edits |-> Redirected(we.edits[i])],
                          [i \in DOMAIN we.ops |-> Redirected(we.ops[i])])
\* MoveToFile once gopls has answered: the answers it pushed, redirected.
MoveToFile(disk, answers, destination) ==
    LET parsed == [i \in DOMAIN answers |-> ParseChanges(disk, answers[i])]
    IN IF destination \in DOMAIN disk \/ \E i \in DOMAIN parsed : parsed[i].error THEN NoEdit
       ELSE Retarget(MergeEdits(parsed), destination)

(* ------------------------------- extraction ----------------------------- *)

\* The texts of an extraction are words: "func", ":=", "." and identifiers.
IsName(word) == word \notin {"func", ":=", "."}

\* Faulty: the first function there is.
NameAfterFuncFirst(words) ==
    LET at == {i \in 1 .. Len(words) - 1 : words[i] = "func" /\ IsName(words[i + 1])}
    IN IF at = {} THEN "" ELSE words[(CHOOSE i \in at : \A j \in at : i <= j) + 1]
\* matchLastIdentAfter
NameAfterFunc(words) ==
    LET at == {i \in 1 .. Len(words) - 1 : words[i] = "func" /\ IsName(words[i + 1])}
    IN IF at = {} THEN "" ELSE words[(CHOOSE i \in at : \A j \in at : j <= i) + 1]
\* matchIdentBefore: only the first ":=" is looked at.
NameBeforeAssign(words) ==
    LET at == {i \in 1 .. Len(words) : words[i] = ":="}
        first == CHOOSE i \in at : \A j \in at : i <= j
    IN IF at = {} \/ first = 1 \/ ~IsName(words[first - 1]) THEN "" ELSE words[first - 1]
\* findExtractPlaceholder: the last text that has a name decides.
Placeholder(texts, kind) ==
    LET names == [i \in DOMAIN texts |->
                    IF kind = "function" THEN NameAfterFunc(texts[i]) ELSE NameBeforeAssign(texts[i])]
        named == {i \in DOMAIN texts : names[i] # ""}
    IN IF named = {} THEN "" ELSE names[Max(named)]
\* rewritePlaceholder and replaceWholeIdent
RewritePlaceholder(texts, old, new) ==
    [i \in DOMAIN texts |-> [k \in DOMAIN texts[i] |-> IF texts[i][k] = old THEN new ELSE texts[i][k]]]
\* extract for gopls
Extract(texts, kind, name) ==
    LET old == Placeholder(texts, kind)
    IN IF name = "" \/ old = "" THEN texts ELSE RewritePlaceholder(texts, old, name)

(* -------------------------------- snippets ------------------------------ *)

\* A snippet is a sequence of characters: "$", the digit "1", "{", "}", ":",
\* "|", ",", "E" for the sentinel of an escaped dollar, others.
CharAt(s, i) == IF i \in 1 .. Len(s) THEN s[i] ELSE "end"
FirstOf(S) == CHOOSE i \in S : \A j \in S : i <= j
NextIn(s, i, chars) ==
    LET at == {j \in i .. Len(s) : s[j] \in chars} IN IF at = {} THEN Len(s) + 1 ELSE FirstOf(at)
Digits(s, i) == NextIn([k \in 1 .. Len(s) |-> IF s[k] = "1" THEN "1" ELSE "other"], i, {"other"})

\* A match is where it ends and the part of it that stays.
NoMatch == [end |-> 0, keep |-> <<>>]
Match(end, keep) == [end |-> end, keep |-> keep]
EscapeAt(s, i) == IF s[i] = "$" /\ CharAt(s, i + 1) = "$" THEN Match(i + 1, <<"E">>) ELSE NoMatch
\* tabstopRe
TabstopAt(s, i) ==
    IF s[i] = "$" /\ CharAt(s, i + 1) = "1" THEN Match(Digits(s, i + 1) - 1, <<>>) ELSE NoMatch
\* The place after "${" and its number, 0 if there is none.
Opened(s, i) ==
    IF s[i] = "$" /\ CharAt(s, i + 1) = "{" /\ CharAt(s, i + 2) = "1" THEN Digits(s, i + 2) ELSE 0
\* placeholderRe: the default may hold one pair of braces.
PlaceholderAt(s, i) ==
    LET body == Opened(s, i)
        b == NextIn(s, body + 1, {"{", "}"})
        c == NextIn(s, b + 1, {"{", "}"})
        d == NextIn(s, c + 1, {"{", "}"})
    IN IF body = 0 \/ CharAt(s, body) # ":" THEN NoMatch
       ELSE IF CharAt(s, b) = "}" THEN Match(b, SubSeq(s, body + 1, b - 1))
       ELSE IF CharAt(s, b) = "{" /\ CharAt(s, c) = "}" /\ CharAt(s, d) = "}"
       THEN Match(d, SubSeq(s, body + 1, d - 1)) ELSE NoMatch
\* choiceRe
ChoiceAt(s, i) ==
    LET body == Opened(s, i)
        comma == NextIn(s, body + 1, {",", "|"})
        bar == NextIn(s, comma, {"|"})
    IN IF body = 0 \/ CharAt(s, body) # "|" \/ comma = body + 1 \/ CharAt(s, bar + 1) # "}" THEN NoMatch
       ELSE Match(bar + 1, SubSeq(s, body + 1, comma - 1))

\* ReplaceMatches: every match from the left is replaced by the part that stays.
ReplaceMatches(s, At(_, _)) ==
    FoldLeft(LAMBDA done, i :
                IF i < done.next THEN done
                ELSE IF At(s, i).end = 0 THEN [out |-> Append(done.out, s[i]), next |-> i + 1]
                ELSE [out |-> done.out \o At(s, i).keep, next |-> At(s, i).end + 1],
             [out |-> <<>>, next |-> 1], [i \in 1 .. Len(s) |-> i]).out
Pass(s) == ReplaceMatches(ReplaceMatches(ReplaceMatches(s, ChoiceAt), PlaceholderAt), TabstopAt)
Unescape(s) == [i \in DOMAIN s |-> IF s[i] = "E" THEN "$" ELSE s[i]]

\* Faulty: one pass is enough.
StripOnePass(s) == Unescape(Pass(ReplaceMatches(s, EscapeAt)))
\* StripSnippetPlaceholders; the texts here are stable after three passes, well
\* before the sixteen of the code.
Strip(s) == Unescape(Pass(Pass(Pass(ReplaceMatches(s, EscapeAt)))))
\* HasSnippetPlaceholders
HasSnippet(s) ==
    \E i \in 1 .. Len(s) : \E m \in {TabstopAt(s, i), PlaceholderAt(s, i), ChoiceAt(s, i)} : m.end # 0
\* normalizeCodeActionPlaceholders, which changes the edit in place.
Normalize(s) == IF HasSnippet(s) THEN Strip(s) ELSE s
\* ReplaceFirstPlaceholder
NameSnippet(s, name) ==
    LET First(At(_, _)) == {i \in 1 .. Len(s) : At(s, i).end # 0}
        With(At(_, _)) == LET i == FirstOf(First(At))
                          IN SubSeq(s, 1, i - 1) \o <<name>> \o SubSeq(s, At(s, i).end + 1, Len(s))
    IN IF First(PlaceholderAt) # {} THEN With(PlaceholderAt)
       ELSE IF First(TabstopAt) # {} THEN With(TabstopAt) ELSE s
==============================================================================
