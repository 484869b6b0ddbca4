----------------------------- MODULE AtomicApply -----------------------------
(* What applying a batch of edits promises (internal/edit/types.go: "The whole *)
(* batch is applied atomically: any failure rolls every applied step back"):   *)
(* the batch ends applied, with every file replaced, or failed, with every     *)
(* file a version that somebody wrote by hand.  The exceptions are the files   *)
(* the error names, which may keep the replacement or be lost.                 *)
CONSTANTS Files, User, Product, None

VARIABLES
    file,       \* the recoverable version of every file
    mine,       \* the files replaced and not put back
    blamed,     \* the files the error names as not restored
    outcome     \* applying, undoing, applied, failed or killed

vars == <<file, mine, blamed, outcome>>

TypeOK ==
    /\ file \in [Files -> User \cup Product \cup {None}]
    /\ mine \subseteq Files
    /\ blamed \subseteq Files
    /\ outcome \in {"applying", "undoing", "applied", "failed", "killed"}

Init ==
    /\ file \in [Files -> User]
    /\ mine = {} /\ blamed = {}
    /\ outcome = "applying"

Replace(f) ==
    /\ outcome = "applying" /\ f \notin mine
    /\ \E v \in Product : file' = [file EXCEPT ![f] = v]
    /\ mine' = mine \cup {f}
    /\ UNCHANGED <<blamed, outcome>>

Abandon ==
    /\ outcome = "applying"
    /\ outcome' = "undoing"
    /\ UNCHANGED <<file, mine, blamed>>

\* A file gets back a version written by hand.
PutBack(f) ==
    /\ outcome = "undoing"
    /\ \E v \in User : file' = [file EXCEPT ![f] = v]
    /\ mine' \in {mine, mine \ {f}}
    /\ UNCHANGED <<blamed, outcome>>

\* A file cannot be put back; the error names it.
Blame(f) ==
    /\ outcome = "undoing"
    /\ blamed' = blamed \cup {f}
    /\ mine' = mine \ {f}
    /\ UNCHANGED <<file, outcome>>

\* A file that is named already is lost.
Lose(f) ==
    /\ outcome = "undoing" /\ f \in blamed
    /\ file' = [file EXCEPT ![f] = None]
    /\ UNCHANGED <<mine, blamed, outcome>>

Succeed ==
    /\ outcome = "applying" /\ mine = Files
    /\ outcome' = "applied"
    /\ UNCHANGED <<file, mine, blamed>>

Fail ==
    /\ outcome \in {"applying", "undoing"} /\ mine = {}
    /\ outcome' = "failed"
    /\ UNCHANGED <<file, mine, blamed>>

Kill ==
    /\ outcome \in {"applying", "undoing"}
    /\ outcome' = "killed"
    /\ UNCHANGED <<file, mine, blamed>>

\* Somebody else writes the file.
Save(f) ==
    /\ \E v \in User : file' = [file EXCEPT ![f] = v]
    /\ UNCHANGED <<mine, blamed, outcome>>

Next ==
    \/ Abandon \/ Succeed \/ Fail \/ Kill
    \/ \E f \in Files : Replace(f) \/ PutBack(f) \/ Blame(f) \/ Lose(f) \/ Save(f)

Spec == Init /\ [][Next]_vars

\* A batch that failed left every file it does not name as somebody wrote it;
\* a batch that succeeded replaced every file and names none.
AllOrNothing ==
    /\ outcome = "failed" => \A f \in Files \ blamed : file[f] \in User
    /\ outcome = "applied" => mine = Files /\ blamed = {}
=============================================================================
