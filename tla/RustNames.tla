------------------------------ MODULE RustNames ------------------------------
(* How --symbol names one declaration: the grammar of Rust names              *)
(* (internal/symbol/rust.go), the containers that rust-analyzer reports       *)
(* (internal/backend/lsp/rust_container.go, rust_resolve.go), Go's dotted     *)
(* names and the choice among the candidates (internal/cli/rename.go).        *)
(*                                                                            *)
(* A name or container is a sequence of tokens: identifiers, "::", "<", ">",  *)
(* " as ", "impl ", " for ", "(", ")" and " " for another blank.              *)
EXTENDS Scanning

Found(info) == [outcome |-> "found", at |-> info]
NotFoundBecause(why) == [outcome |-> why]

Unparsed == [error |-> TRUE]
Parsed(path, trait, name) == [error |-> FALSE, path |-> path, trait |-> trait, name |-> name]

(* ----------------------------- qualified names -------------------------- *)

Depth(s, i) == Cardinality({j \in 1 .. i : s[j] = "<"}) - Cardinality({j \in 1 .. i : s[j] = ">"})

\* validateRustSymbolChars
ValidTokens(s) ==
    /\ Depth(s, Len(s)) = 0
    /\ \A i \in 1 .. Len(s) : /\ s[i] \notin {"(", ")"}
                              /\ s[i] \in {" ", " as "} => Depth(s, i) # 0

DropCrate(s) == IF Has(s, 1, <<"crate", "::">>) THEN SubSeq(s, 3, Len(s)) ELSE s
TrimBlanks(s) == SelectSeq(s, LAMBDA c : c # " ")
Angles(s) == {i \in 1 .. Len(s) : s[i] = "<"}

\* splitTraitQualified and parseTypeAsTrait: "<Type as Trait>::tail".
TraitQualified(s, prefix) ==
    LET closes == {i \in 1 .. Len(s) : s[i] = ">" /\ Depth(s, i) = 0}
        close == Least(closes)
        inner == SubSeq(s, 2, close - 1)
        as == {i \in 1 .. Len(inner) : inner[i] = " as " /\ Depth(inner, i) = 0}
        type == TrimBlanks(SubSeq(inner, 1, Least(as) - 1))
        trait == TrimBlanks(SubSeq(inner, Least(as) + 1, Len(inner)))
        name == SubSeq(s, close + 2, Len(s))
    IN IF \/ closes = {} \/ ~Has(s, close + 1, <<"::">>)
          \/ as = {} \/ type = <<>> \/ trait = <<>>
          \/ name = <<>> \/ "::" \in ToSet(name)
       THEN Unparsed
       ELSE Parsed(Append(prefix, type), trait, name)

\* ParseRustQualifiedName.  "crate" is dropped from the text before the angle
\* bracket once its last "::" is gone, so that "crate::<T as U>::f" keeps it.
ParseRust(s) ==
    LET first == Least(Angles(s))
        head == DropCrate(SubSeq(s, 1, first - 2))
        segments == Split(DropCrate(s), "::")
    IN IF s = <<>> \/ ~ValidTokens(s) THEN Unparsed
       ELSE IF Angles(s) # {} /\ (first = 1 \/ s[first - 1] = "::")
       THEN TraitQualified(SubSeq(s, first, Len(s)),
                           IF head = <<>> THEN <<>> ELSE Split(head, "::"))
       ELSE IF \E k \in DOMAIN segments : TrimBlanks(segments[k]) = <<>> THEN Unparsed
       ELSE Parsed(Front(segments), <<>>, Last(segments))

(* ------------------------------- containers ----------------------------- *)

Blanks == {"impl ", " for ", " ", "("}
IsWord(s) == s # <<>> /\ ToSet(s) \cap Blanks = {}
\* implForRe: the one split of "impl Trait for Type" there is, or none.
ImplFor(s) == {i \in 3 .. Len(s) - 1 : /\ s[1] = "impl " /\ s[i] = " for "
                                       /\ IsWord(SubSeq(s, 2, i - 1))
                                       /\ IsWord(SubSeq(s, i + 1, Len(s)))}
ImplTrait(s) == SubSeq(s, 2, Least(ImplFor(s)) - 1)
ImplType(s) == SubSeq(s, Least(ImplFor(s)) + 1, Len(s))
\* trimTraitPath
LastSegment(s) == Last(Split(s, "::"))

Container(module, type, trait) == [module |-> module, type |-> type, trait |-> trait]

\* parseRustContainer: "m::impl U for T", "impl U for T", "T (U)", "m::T", "T".
ParseContainer(s) ==
    LET seps == {i \in 1 .. Len(s) : s[i] = "::"}
        sep == CHOOSE i \in seps : \A j \in seps : j <= i
        tail == SubSeq(s, sep + 1, Len(s))
        opens == {i \in 2 .. Len(s) : s[i] = "("}
        open == Least(opens)
        segments == Split(s, "::")
    IN IF s = <<>> THEN Container(<<>>, <<>>, <<>>)
       ELSE IF seps # {} /\ ImplFor(tail) # {}
       THEN Container(Split(SubSeq(s, 1, sep - 1), "::"), ImplType(tail), LastSegment(ImplTrait(tail)))
       ELSE IF ImplFor(s) # {}
       THEN Container(<<>>, ImplType(s), LastSegment(ImplTrait(s)))
       ELSE IF opens # {} /\ IsWord(SubSeq(s, 1, open - 1)) /\ Last(s) = ")" /\ Len(s) > open + 1
       THEN Container(<<>>, SubSeq(s, 1, open - 1), LastSegment(SubSeq(s, open + 1, Len(s) - 1)))
       ELSE Container(Front(segments), Last(segments), <<>>)

\* FindEnclosingImplTrait: an outline lists its nodes in the order of the walk,
\* each with its lines, the name it shows and the place of the node it is a child
\* of, 0 for none.  Only the children of a node that spans the line and is no
\* impl block are walked.
EnclosingTrait(nodes, line) ==
    LET IsImpl(k) == ImplFor(nodes[k].name) # {}
        walked[k \in DOMAIN nodes] ==
            /\ line \in nodes[k].first .. nodes[k].last
            /\ nodes[k].parent = 0 \/ (walked[nodes[k].parent] /\ ~IsImpl(nodes[k].parent))
    IN FirstNonEmpty([k \in DOMAIN nodes |->
           IF walked[k] /\ IsImpl(k) THEN LastSegment(ImplTrait(nodes[k].name)) ELSE <<>>])

\* Faulty: an abbreviated container does not match a longer path.
ModuleMatchesWhole(expected, actual) ==
    /\ Len(actual) >= Len(expected) \/ actual = <<>>
    /\ \A i \in 0 .. Len(expected) - 1 :
          i < Len(actual) => expected[Len(expected) - i] = actual[Len(actual) - i]

\* rustModuleMatches: the ends of the two paths agree as far as both reach.
ModuleMatches(expected, actual) ==
    \A i \in 0 .. Len(expected) - 1 :
        i < Len(actual) => expected[Len(expected) - i] = actual[Len(actual) - i]

\* FilterRustCandidates and resolveTraitByDocumentSymbol.  The outline is empty
\* when the server does not give one.
TraitOf(info, container) ==
    IF container.trait # <<>> THEN container.trait
    ELSE EnclosingTrait(info.outline, info.line)
FilterRust(infos, query) ==
    SelectSeq(infos, LAMBDA info :
        LET c == ParseContainer(info.container)
            full == IF c.type = <<>> THEN c.module ELSE Append(c.module, c.type)
        IN /\ info.name = query.name
           /\ ModuleMatches(query.path, full)
           /\ query.trait # <<>> => TraitOf(info, c) = query.trait)

\* resolveRustTier1Symbol
ResolveRust(s, infos) ==
    LET query == ParseRust(s)
        found == FilterRust(SelectSeq(infos, LAMBDA info : info.name = query.name), query)
    IN IF query.error THEN NotFoundBecause("parse error")
       ELSE CASE Len(found) = 0 -> NotFoundBecause("not found")
              [] Len(found) = 1 -> Found(found[1])
              [] OTHER -> NotFoundBecause("ambiguous")

(* ------------------------------- dotted names --------------------------- *)

\* A container is its last separator ("/", "." or none) and its last component.
EndsIn(container, part, seps) == container.last = part /\ container.sep \in seps
\* parseQualifiedName and qualifiedNameMatches: a name of at most three parts.
QualifiedMatches(parts, isType, container) ==
    CASE Len(parts) = 1 -> TRUE
      [] Len(parts) = 2 -> EndsIn(container, parts[1], IF isType THEN {""} ELSE {"", "/"})
      [] Len(parts) = 3 -> EndsIn(container, parts[2], {"", ".", "/"})
      [] OTHER -> FALSE

\* matchWorkspaceSymbols: isType says that the first part begins in upper case.
MatchSymbols(parts, isType, symbols) ==
    SelectSeq(symbols, LAMBDA s : s.name = Last(parts) /\ QualifiedMatches(parts, isType, s.container))
==============================================================================
