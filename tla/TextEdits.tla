------------------------------ MODULE TextEdits ------------------------------
(* applyEdits of internal/edit/applier.go: the text edits of one file are      *)
(* sorted by start, last first, checked for overlaps and applied one after the *)
(* other, each position being resolved against the text as changed so far.     *)
(* RenderDiff shows the same edits after orderedFileEdits has sorted them      *)
(* first.                                                                      *)
EXTENDS Integers, Sequences, FiniteSets, SequencesExt

Newline == "n"

(* ------------------------------- positions ------------------------------ *)

PositionLess(a, b) == a.line < b.line \/ (a.line = b.line /\ a.char < b.char)

LineStarts(t) == {0} \cup {o \in 1 .. Len(t) : t[o] = Newline}
LineStart(t, line) ==
    CHOOSE o \in LineStarts(t) : Cardinality({s \in LineStarts(t) : s < o}) = line
LineEnd(t, o) ==
    CHOOSE e \in o .. Len(t) :
        /\ e = Len(t) \/ t[e + 1] = Newline
        /\ \A m \in o + 1 .. e : t[m] # Newline

\* positionToOffset; -1 when there is no such position.
Offset(t, pos) ==
    IF pos.line < 0 \/ pos.char < 0 \/ pos.line >= Cardinality(LineStarts(t)) THEN -1
    ELSE LET s == LineStart(t, pos.line) IN
         IF s + pos.char > LineEnd(t, s) THEN -1 ELSE s + pos.char

(* ------------------------------- applyEdits ----------------------------- *)

Indexed(list) == [m \in DOMAIN list |-> [edit |-> list[m], orig |-> m]]

\* Faulty: edits at one position are applied in array order.
LaterFirstUntied(a, b) ==
    \/ PositionLess(b.edit.start, a.edit.start)
    \/ a.edit.start = b.edit.start /\ a.orig < b.orig

LaterFirst(a, b) ==
    \/ PositionLess(b.edit.start, a.edit.start)
    \/ a.edit.start = b.edit.start /\ a.orig > b.orig

\* sort.SliceStable, for an order in which no two are equal: the m-th has m - 1
\* before it.
SortedBy(x, Before(_, _)) ==
    [m \in DOMAIN x |->
        x[CHOOSE i \in DOMAIN x : Cardinality({h \in DOMAIN x : Before(x[h], x[i])}) = m - 1]]
Sorted(list) == SortedBy(Indexed(list), LaterFirst)

\* Two neighbours of the sorted list overlap.
Overlaps(s) ==
    \E m \in 1 .. Len(s) - 1 : PositionLess(s[m].edit.start, s[m + 1].edit.end)

InRange(t, e) == LET from == Offset(t, e.start) IN from >= 0 /\ from <= Offset(t, e.end)

Splice(t, e) ==
    SubSeq(t, 1, Offset(t, e.start)) \o e.newText \o
        SubSeq(t, Offset(t, e.end) + 1, Len(t))

Rejected(t) == [ok |-> FALSE, text |-> t]
ApplyOne(acc, x) ==
    IF acc.ok /\ InRange(acc.text, x.edit) THEN [ok |-> TRUE, text |-> Splice(acc.text, x.edit)]
    ELSE Rejected(acc.text)

\* What the first m edits of s make of the text.
Partly(t, s) ==
    LET after[m \in 0 .. Len(s)] ==
            IF m = 0 THEN [ok |-> TRUE, text |-> t] ELSE ApplyOne(after[m - 1], s[m])
    IN after
\* applyEdits
ApplyEdits(t, list) ==
    LET s == Sorted(list) IN
    IF Overlaps(s) THEN Rejected(t) ELSE Partly(t, s)[Len(s)]

(* -------------------------------- preview ------------------------------- *)

\* Faulty: edits with one start are shown in the reverse of the array order.
TextEditLessReversed(a, b) ==
    \/ PositionLess(a.edit.start, b.edit.start)
    \/ a.edit.start = b.edit.start /\ a.orig > b.orig

\* textEditLess, made total by the index since the sort is stable.
TextEditLess(a, b) ==
    \/ PositionLess(a.edit.start, b.edit.start)
    \/ a.edit.start = b.edit.start /\ PositionLess(a.edit.end, b.edit.end)
    \/ a.edit.start = b.edit.start /\ a.edit.end = b.edit.end /\ a.orig < b.orig

\* orderedFileEdits
Ordered(list) ==
    LET s == SortedBy(Indexed(list), TextEditLess) IN [m \in DOMAIN s |-> s[m].edit]

\* The text RenderDiff shows.
Preview(t, list) == ApplyEdits(t, Ordered(list))
==============================================================================
