------------------------------ MODULE MCLookup -------------------------------
(* Texts made of up to four lexemes and six fixed longer ones, lines of up to *)
(* three characters, six Rust symbols, and every combination of a few          *)
(* configuration layers and machines.                                          *)
EXTENDS Lookup

Lexemes == {<<"a">>, <<"b">>, <<"q">>, <<"s">>, <<"r">>, <<"e">>, <<"n">>, <<"C">>,
            <<"/", "/">>, <<"/", "*">>, <<"*", "/">>}
Extras == {<<"q", "a", "e", "q", "a", "q", "a">>, <<"C", "a", "I", "b", "n", "C", "b">>,
           <<"P", "a", ";", "n", "I", "b">>, <<"/", "*", "q", "*", "/", "a", "w", "a", "b">>,
           <<"w", "P", "a", ";", "w", "n", "C", ";", "n", "C", "b">>,
           <<"a", "b", "a", "b", "a", "w", "a", "b", "a">>}
MCTexts == {FlattenSeq(s) : s \in UNION {[1 .. k -> Lexemes] : k \in 0 .. 4}} \cup Extras
MCNames == {<<"a">>, <<"a", "b", "a">>}

MCCodeLines == UNION {[1 .. k -> {1, 3, 4}] : k \in 0 .. 3}

Sym(module, type, trait, name, line) ==
    [module |-> module, type |-> type, trait |-> trait, name |-> name, line |-> line]
M == <<"m">>
T == <<"T">>
MCSymbols ==
    {Sym(<<>>, <<>>, <<>>, <<"f">>, 2), Sym(<<M>>, <<>>, <<>>, <<"f">>, 4),
     Sym(<<M>>, T, <<>>, <<"f">>, 6), Sym(<<M>>, T, <<"U">>, <<"f">>, 8),
     Sym(<<M, <<"k">>>>, T, <<"V">>, <<"f">>, 10), Sym(<<>>, <<"S">>, <<"U">>, <<"g">>, 12)}

MCGoSymbols == [package : {"p", "q"}, type : {"", "T", "U"}, name : {"F", "G"}]

Layers(language) ==
    {NoLayer, BrokenLayer, Layer(language :> "mine", "unset"), Layer(language :> "", "unset"),
     Layer([l \in {} |-> ""], "set")}
Machines ==
    [path : {{}, {"node"}, {"gopls", "rust-analyzer", "tsserver", "node"}, {"mine"}},
     localServer : BOOLEAN,
     scripts : {{}, {"explicit"}, {"workspace"}, {"global"}},
     modules : {{}, {"hoisted"}, {"global"}}]
MCHosts ==
    UNION {[language : {language}, op : {"rename", "extract-function", "move"}, ws : Machines,
            layers : {<<a, b>> : a \in Layers(language), b \in Layers(language)}] :
           language \in {"go", "rust", "typescript", "java", "csharp"}}

MCPathRank == "a" :> 1 @@ "b" :> 2 @@ "d" :> 3 @@ "n" :> 4
Modes == {<<FALSE, FALSE>>, <<TRUE, FALSE>>, <<FALSE, TRUE>>}
Edit(path, start) == [Change("edit", path) EXCEPT !.start = start]
Op(kind, path, to, mode) ==
    [Change(kind, path) EXCEPT !.to = to, !.overwrite = mode[1], !.ignore = mode[2]]
MCChanges ==
    {Edit(p, start) : p \in {"a", "b"}, start \in BOOLEAN}
    \cup {Op("create", p, p, m) : p \in {"a", "b"}, m \in Modes}
    \cup {Op("rename", "a", "b", m) : m \in Modes} \cup {Op("rename", "b", "a", m) : m \in Modes}
    \cup {Op("delete", p, p, m) : p \in {"a", "b"}, m \in {<<FALSE, FALSE>>, <<FALSE, TRUE>>}}
MCDisks == {"a" :> <<"A">>, "a" :> <<"A">> @@ "b" :> <<"B">>}
MCBatches == [disk : MCDisks, changes : UNION {[1 .. k -> MCChanges] : k \in 1 .. 3}]
Pushed == {Op("create", "n", "n", <<FALSE, FALSE>>), Edit("n", TRUE), Edit("n", FALSE), Edit("a", FALSE)}
MCMoves == [disk : MCDisks \cup {"a" :> <<"A">> @@ "d" :> <<"D">>},
            answers : {<<c>> : c \in UNION {[1 .. k -> Pushed] : k \in 1 .. 3}}
                      \cup {<<c, <<e>>>> : c \in [1 .. 2 -> Pushed], e \in Pushed}]

ExtractWords == UNION {[1 .. k -> {"func", "p", "m", ":=", "."}] : k \in 1 .. 3}
MCExtractions ==
    [texts : {<<t>> : t \in ExtractWords}, kind : {"variable"}]
    \cup [texts : UNION {{<<t, <<"func", "p">> \o u>>, <<t \o <<"func", "p">> \o u>>} :
                         t \in ExtractWords, u \in {<<>>, <<".">>, <<"p">>, <<".", "m">>}},
         kind : {"function"}]

SnippetLexemes == {<<"$">>, <<"1">>, <<"$", "{", "1", ":">>, <<"{">>, <<"}">>, <<"x">>}
MCSnippets ==
    {FlattenSeq(s) : s \in UNION {[1 .. k -> SnippetLexemes] : k \in 1 .. 5}}
    \cup {<<"$", "{", "1", "|", "x", ",", "y", "|", "}", "$", "1">>, <<"$", "{", "1", "|", ",", "|", "}">>}

\* Files of at most two lines and three characters, every list of at most two
\* edits whose positions lie in them or just outside, and every list of three
\* of which the first two insert.
MCContents ==
    {<<>>, <<"a">>, <<"n">>, <<"a", "b">>, <<"a", "n">>, <<"n", "b">>, <<"a", "n", "b">>}

Positions == [line : 0 .. 1, char : 0 .. 2]
TextEdit == [start : Positions, end : Positions, newText : {<<>>, <<"x">>, <<"n", "y">>}]

Inserts == {e \in TextEdit : e.start = e.end /\ e.newText # <<>>}

MCEditLists ==
    {<<e>> : e \in TextEdit} \cup (TextEdit \X TextEdit) \cup (Inserts \X Inserts \X TextEdit)
==============================================================================
