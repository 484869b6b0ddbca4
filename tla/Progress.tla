------------------------------- MODULE Progress ------------------------------
(* internal/backend/lsp/client_progress.go: readLoop feeds $/progress begins  *)
(* and ends into a progressTracker while the command waits in waitIdle for    *)
(* the server to finish indexing.  The tracker offers the waiter one "idle"   *)
(* channel per busy period, closed when the last token ends; the waiter then  *)
(* sits out settleTime and looks again.  Time is counted in ticks.            *)
EXTENDS Integers

CONSTANTS
    Tokens,     \* progress tokens the server uses
    Quiesce,    \* initialQuiesce in ticks
    Settle,     \* settleTime in ticks
    MaxBegins   \* bound: begin events of the server

ASSUME ProgressAssumption ==
    Quiesce \in Nat \ {0} /\ Settle \in Nat \ {0} /\ MaxBegins \in Nat

VARIABLES
    active,     \* progressTracker.active
    idle,       \* the current idle channel; they are numbered
    closed,     \* the idle channels that are closed
    anyBegin,   \* the anyBegin channel is closed
    pc,         \* where waitIdle is
    ch,         \* the idle channel waitIdle read under the lock
    timer,      \* ticks left of the timer waitIdle is at
    begins      \* begin events so far

tracker == <<active, idle, closed, anyBegin>>
vars == <<active, idle, closed, anyBegin, pc, ch, timer, begins>>

TypeOK ==
    /\ active \subseteq Tokens
    /\ begins \in 0 .. MaxBegins
    /\ idle \in 0 .. begins
    /\ closed \subseteq 0 .. idle
    /\ anyBegin \in BOOLEAN
    /\ pc \in {"first", "look", "waitIdle", "settle", "check", "idle", "ready", "expired"}
    /\ ch \in 0 .. idle
    /\ timer \in Nat

\* newProgressTracker starts idle: channel 0 is closed.
Init ==
    /\ active = {} /\ idle = 0 /\ closed = {0} /\ anyBegin = FALSE
    /\ pc = "first" /\ ch = 0 /\ timer = Quiesce
    /\ begins = 0

(* -------------------------- readLoop's goroutine ------------------------ *)

\* Faulty: every begin makes a new channel, not only the first of a period.
BeginRenews(t) ==
    /\ begins < MaxBegins /\ begins' = begins + 1
    /\ idle' = idle + 1
    /\ active' = active \cup {t}
    /\ anyBegin' = TRUE
    /\ UNCHANGED <<closed, pc, ch, timer>>

\* begin: the first token of a busy period replaces the idle channel.
Begin(t) ==
    /\ begins < MaxBegins /\ begins' = begins + 1
    /\ idle' = IF active = {} THEN idle + 1 ELSE idle
    /\ active' = active \cup {t}
    /\ anyBegin' = TRUE
    /\ UNCHANGED <<closed, pc, ch, timer>>

\* end: of a token that is active or not; the last one closes the channel.
End(t) ==
    /\ active' = active \ {t}
    /\ closed' = IF active' = {} THEN closed \cup {idle} ELSE closed
    /\ UNCHANGED <<idle, anyBegin, pc, ch, timer, begins>>

(* ------------------------------- waitIdle ------------------------------- *)

FirstBegin ==
    /\ pc = "first" /\ anyBegin
    /\ pc' = "look"
    /\ UNCHANGED <<tracker, ch, timer, begins>>

\* No progress within initialQuiesce: the server is considered ready.
NoBegin ==
    /\ pc = "first" /\ timer = 0
    /\ pc' = "ready"
    /\ UNCHANGED <<tracker, ch, timer, begins>>

\* isEmpty and the idle channel, read under one lock.
Look ==
    /\ pc = "look"
    /\ ch' = idle
    /\ IF active = {} THEN pc' = "settle" /\ timer' = Settle
                      ELSE pc' = "waitIdle" /\ UNCHANGED timer
    /\ UNCHANGED <<tracker, begins>>

IdleClosed ==
    /\ pc = "waitIdle" /\ ch \in closed
    /\ pc' = "settle" /\ timer' = Settle
    /\ UNCHANGED <<tracker, ch, begins>>

Settled ==
    /\ pc = "settle" /\ timer = 0
    /\ pc' = "check"
    /\ UNCHANGED <<tracker, ch, timer, begins>>

Check ==
    /\ pc = "check"
    /\ pc' = IF active = {} THEN "idle" ELSE "look"
    /\ UNCHANGED <<tracker, ch, timer, begins>>

\* The context of the wait expires or is cancelled.
Expire ==
    /\ pc \in {"first", "waitIdle", "settle"}
    /\ pc' = "expired"
    /\ UNCHANGED <<tracker, ch, timer, begins>>

Tick ==
    /\ pc \in {"first", "settle"} => timer > 0
    /\ timer' = IF pc \in {"first", "settle"} THEN timer - 1 ELSE timer
    /\ UNCHANGED <<tracker, pc, ch, begins>>

Wait == FirstBegin \/ NoBegin \/ Look \/ IdleClosed \/ Settled \/ Check

Next ==
    \/ Wait \/ Expire \/ Tick
    \/ \E t \in Tokens : Begin(t) \/ End(t)

Spec == Init /\ [][Next]_vars

\* waitIdle is scheduled, time passes and the server ends what it begins.
FairSpec ==
    /\ Spec /\ WF_vars(Wait) /\ WF_vars(Tick)
    /\ \A t \in Tokens : WF_vars(t \in active /\ End(t))

(* ------------------------------ properties ------------------------------ *)

\* No lost wake-up: the channel waitIdle waits on is closed already or is the one
\* that the end of the running busy period will close.
NoLostWakeup ==
    pc = "waitIdle" => ch \in closed \/ (ch = idle /\ active # {})

\* waitIdle returns when the server ends what it began.
Returns == <>(pc \in {"idle", "ready", "expired"})

=============================================================================
