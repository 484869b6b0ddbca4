------------------------------ MODULE Scanning -------------------------------
(* How a name on a line becomes a position: the scanner that tells code from  *)
(* comments and literals (internal/symbol/resolver.go), the Java scanner of   *)
(* internal/backend/openrewrite, and the conversion between byte columns and  *)
(* UTF-16 columns that every answer of a server passes through.               *)
(*                                                                            *)
(* A text is a sequence of one-letter strings: "q", "s" and "r" are the double *)
(* quote, the single quote and the backquote, "e" is the backslash, "n" ends a *)
(* line, "w" is a blank, "C", "I" and "P" stand for the keywords "class ",     *)
(* "interface " and "package ".                                                *)
EXTENDS Integers, Sequences, FiniteSets, SequencesExt

Has(t, i, lexeme) ==
    i + Len(lexeme) - 1 <= Len(t) /\ SubSeq(t, i, i + Len(lexeme) - 1) = lexeme
Least(S) == CHOOSE i \in S : \A j \in S : i <= j
IsIdentifier(c) == c \in {"a", "b"}

(* --------------------------- Go, Rust, TypeScript ------------------------ *)

\* The state after the character at i and the position the scanner goes to.
Goto(i, s) == [pos |-> i, state |-> s]
ScanCode(t, i) ==
    IF Has(t, i, <<"/", "/">>) THEN Goto(i + 2, "line")
    ELSE IF Has(t, i, <<"/", "*">>) THEN Goto(i + 2, "block")
    ELSE Goto(i + 1, IF t[i] \in {"q", "s", "r"} THEN t[i] ELSE "code")
\* Faulty: an unclosed string goes on in the next line.
ScanQuotedAcross(t, i, s) ==
    IF t[i] = "e" /\ i < Len(t) THEN Goto(i + 2, s)
    ELSE Goto(i + 1, IF t[i] = s THEN "code" ELSE s)

\* A quoted string ends at its line, whether it is closed or not.
ScanQuoted(t, i, s) ==
    IF t[i] = "e" /\ i < Len(t) /\ t[i + 1] # "n" THEN Goto(i + 2, s)
    ELSE Goto(i + 1, IF t[i] \in {s, "n"} THEN "code" ELSE s)
Scan(t, i, s) ==
    CASE s = "code" -> ScanCode(t, i)
      [] s = "line" -> Goto(i + 1, IF t[i] = "n" THEN "code" ELSE s)
      [] s = "block" -> IF Has(t, i, <<"*", "/">>) THEN Goto(i + 2, "code")
                        ELSE Goto(i + 1, s)
      [] s = "r" -> Goto(i + 1, IF t[i] = "r" THEN "code" ELSE s)
      [] OTHER -> ScanQuoted(t, i, s)

ScanStates == {"code", "line", "block", "q", "s", "r"}

\* The places a scanner comes through, one after the other.
Walk(t, Step(_, _, _)) ==
    LET at[k \in 0 .. Len(t)] ==
            IF k = 0 THEN Goto(1, "code")
            ELSE IF at[k - 1].pos > Len(t) THEN at[k - 1]
            ELSE Step(t, at[k - 1].pos, at[k - 1].state)
    IN at
Visits(t) == Walk(t, Scan)

\* codeMaskForLine, for all lines at once: the positions that are code.
CodeMask(t) ==
    LET visits == Visits(t)
    IN {i \in 1 .. Len(t) : /\ t[i] # "n" /\ Scan(t, i, "code") = Goto(i + 1, "code")
                            /\ \E k \in 0 .. Len(t) : visits[k] = Goto(i, "code")}

\* hasIdentifierBoundaries
WholeWord(t, i, end) ==
    /\ i = 1 \/ ~IsIdentifier(t[i - 1])
    /\ end = Len(t) \/ ~IsIdentifier(t[end + 1])

\* findNameMatches: each search starts after the last occurrence.
NameMatches(t, name) ==
    LET occurs == {i \in 1 .. Len(t) : Has(t, i, name)}
        next(i) == Least({j \in occurs : j >= i} \cup {Len(t) + 1})
        search[k \in 0 .. Len(t)] ==
            IF k = 0 THEN next(1)
            ELSE IF search[k - 1] > Len(t) THEN search[k - 1] ELSE next(search[k - 1] + Len(name))
        mask == CodeMask(t)
    IN {i \in occurs : /\ \E k \in 0 .. Len(t) : search[k] = i
                       /\ i .. i + Len(name) - 1 \subseteq mask
                       /\ WholeWord(t, i, i + Len(name) - 1)}

LineOf(t, i) == Cardinality({j \in 1 .. i - 1 : t[j] = "n"}) + 1

NotFound == 0
Ambiguous == -1
OutOfRange == -2

\* resolveTier2: the one match on the line, or an error.
ResolveTier2(t, line, name) ==
    LET found == {i \in NameMatches(t, name) : LineOf(t, i) = line} IN
    IF line \notin 1 .. LineOf(t, Len(t) + 1) THEN OutOfRange
    ELSE IF found = {} THEN NotFound
    ELSE IF Cardinality(found) > 1 THEN Ambiguous
    ELSE CHOOSE i \in found : TRUE

(* ---------------------------------- Java --------------------------------- *)

\* Faulty: a backslash does not escape the quote after it.
ScanJavaUnescaped(t, i, s) ==
    CASE s = "code" -> IF t[i] = "r" THEN Goto(i + 1, s) ELSE ScanCode(t, i)
      [] s \in {"line", "block"} -> Scan(t, i, s)
      [] OTHER -> Goto(i + 1, IF t[i] = s THEN "code" ELSE s)

\* stripCommentsAndStrings: the same states, but a literal goes on after the
\* end of its line and an escape takes any character, a newline too.
ScanJava(t, i, s) ==
    CASE s = "code" -> IF t[i] = "r" THEN Goto(i + 1, s) ELSE ScanCode(t, i)
      [] s \in {"line", "block"} -> Scan(t, i, s)
      [] OTHER -> IF t[i] = "e" /\ i < Len(t) THEN Goto(i + 2, s)
                  ELSE Goto(i + 1, IF t[i] = s THEN "code" ELSE s)

\* Blanked text of the same length; an escaped newline is lost.
JavaVisits(t) == Walk(t, ScanJava)
StripJava(t) ==
    LET visits == JavaVisits(t)
        Part(from, to) ==
            IF t[from.pos] = "n" \/ (from.state = "code" /\ to = Goto(from.pos + 1, "code"))
            THEN <<t[from.pos]>> ELSE [j \in 1 .. to.pos - from.pos |-> "w"]
        out[k \in 0 .. Len(t)] ==
            IF k = 0 THEN <<>>
            ELSE out[k - 1] \o (IF visits[k - 1].pos > Len(t) THEN <<>> ELSE Part(visits[k - 1], visits[k]))
    IN out[Len(t)]

\* strings.Split: the pieces of a sequence between the occurrences of sep.
Split(t, sep) ==
    LET cuts == {i \in 1 .. Len(t) : t[i] = sep}
        bound == [k \in 0 .. Cardinality(cuts) + 1 |->
                    IF k = 0 THEN 0 ELSE IF k > Cardinality(cuts) THEN Len(t) + 1
                    ELSE CHOOSE i \in cuts : Cardinality({j \in cuts : j <= i}) = k]
    IN [k \in 1 .. Cardinality(cuts) + 1 |-> SubSeq(t, bound[k - 1] + 1, bound[k] - 1)]
Lines(t) == Split(t, "n")

\* The name that follows the first occurrence of the keyword in the line, or
\* <<>>.  A keyword is a word and a blank: the word still belongs to a name.
NameAfter(line, keyword) ==
    IF keyword \notin ToSet(line) THEN <<>>
    ELSE LET rest == SubSeq(line, Least({i \in 1 .. Len(line) : line[i] = keyword}) + 1, Len(line))
             ends == {i \in 0 .. Len(rest) : \/ i = Len(rest) \/ rest[i + 1] = "w"
                                             \/ i > 0 /\ rest[i] \in {"C", "I", "P"}}
             name == SubSeq(rest, 1, Least(ends))
         IN IF ";" \in ToSet(name) THEN <<>> ELSE name

FirstNonEmpty(names) ==
    LET found == {k \in DOMAIN names : names[k] # <<>>}
    IN IF found = {} THEN <<>> ELSE names[Least(found)]

\* parseJavaClass: the first line with a name after one of the keywords, "class "
\* before "interface " wherever they stand in the line.
JavaClass(t) ==
    LET lines == Lines(StripJava(t))
    IN FirstNonEmpty([k \in 1 .. 2 * Len(lines) |->
                         NameAfter(lines[(k + 1) \div 2], IF k % 2 = 1 THEN "C" ELSE "I")])

\* strings.TrimSpace of a line without its end.
Trim(line) ==
    LET ink == {i \in 1 .. Len(line) : line[i] # "w"}
    IN IF ink = {} THEN <<>>
       ELSE SubSeq(line, Least(ink), CHOOSE i \in ink : \A j \in ink : j <= i)

\* parseJavaPackage: the first line that starts with the keyword and ends with
\* a semicolon.
JavaPackage(t) ==
    LET lines == [k \in DOMAIN Lines(StripJava(t)) |-> Trim(Lines(StripJava(t))[k])]
        names == [k \in DOMAIN lines |->
                    IF Len(lines[k]) > 1 /\ Head(lines[k]) = "P" /\ Last(lines[k]) = ";"
                    THEN Front(Tail(lines[k])) ELSE <<>>]
    IN FirstNonEmpty(names)

\* javaTypeFQN: no class is an error.
JavaType(t) == [package |-> JavaPackage(t), class |-> JavaClass(t)]

(* --------------------------------- columns ------------------------------- *)

\* A line is a sequence of characters given by their width in UTF-8 bytes; one
\* of four bytes takes two UTF-16 units (utf16.RuneLen), a shorter one one.
Units(width) == IF width = 4 THEN 2 ELSE 1
\* Where the first k characters of a line end.
ByteEnds(line) ==
    LET end[k \in 0 .. Len(line)] == IF k = 0 THEN 0 ELSE end[k - 1] + line[k] IN end
UnitEnds(line) ==
    LET end[k \in 0 .. Len(line)] == IF k = 0 THEN 0 ELSE end[k - 1] + Units(line[k]) IN end
Bytes(line) == ByteEnds(line)[Len(line)]

\* Faulty: counts characters instead of UTF-16 units.
ToCharacterRunes(line, byteColumn) ==
    LET ends == {k \in 0 .. Len(line) : ByteEnds(line)[k] = byteColumn - 1} IN
    IF ends = {} THEN -1 ELSE Least(ends)

\* byteColumnToUTF16Character: one-based byte column to zero-based character,
\* -1 for an error (out of range, or inside a character).
ToCharacter(line, byteColumn) ==
    LET ends == {k \in 0 .. Len(line) : ByteEnds(line)[k] = byteColumn - 1} IN
    IF byteColumn \notin 1 .. Bytes(line) + 1 \/ ends = {} THEN -1
    ELSE UnitEnds(line)[Least(ends)]

\* utf16CharacterToByteCharacter plus one: walks over the characters until it is
\* at the place or past it.
ToByteColumn(line, character) ==
    LET reached == {k \in 0 .. Len(line) : UnitEnds(line)[k] >= character} IN
    IF character < 0 \/ reached = {} THEN -1
    ELSE IF UnitEnds(line)[Least(reached)] > character THEN -1
    ELSE ByteEnds(line)[Least(reached)] + 1
==============================================================================
