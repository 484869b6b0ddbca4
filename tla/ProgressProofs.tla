---------------------------- MODULE ProgressProofs ---------------------------
(* Proofs about Progress for any set of tokens, any timer lengths and any      *)
(* number of busy periods.  NoLostWakeup is not inductive: a waiter reads an   *)
(* open channel only because, by ChannelTellsIdle, the current channel is open *)
(* exactly while a token is active.                                            *)
EXTENDS Progress, TLAPS

\* The current idle channel is closed exactly when no token is active, and every
\* channel of an earlier busy period is closed.
ChannelTellsIdle ==
    /\ idle \in closed <=> active = {}
    /\ \A m \in 0 .. idle : m < idle => m \in closed

IndInv == TypeOK /\ ChannelTellsIdle /\ NoLostWakeup

\* No token is known and nothing is counted at the start.
LEMMA InitIndInv == Init => IndInv
<1> SUFFICES ASSUME Init PROVE IndInv
    OBVIOUS
<1>1. TypeOK
    <2>1. active = {} /\ idle = 0 /\ begins = 0 /\ closed = {0} /\ ch = 0
          /\ anyBegin = FALSE /\ pc = "first" /\ timer = Quiesce
        BY DEF Init
    <2>2. anyBegin \in BOOLEAN
        BY <2>1
    <2>3. 0 \in 0 .. MaxBegins /\ Settle \in 0 .. Settle /\ Quiesce \in Nat
        BY ProgressAssumption
    <2> QED
        BY <2>1, <2>2, <2>3 DEF TypeOK
<1>2. ChannelTellsIdle
    BY DEF Init, ChannelTellsIdle
<1>3. NoLostWakeup
    BY DEF Init, NoLostWakeup
<1> QED
    BY <1>1, <1>2, <1>3 DEF IndInv

\* Every step keeps the invariant.
LEMMA StepIndInv == IndInv /\ [Next]_vars => IndInv'
<1> SUFFICES ASSUME IndInv, [Next]_vars PROVE IndInv'
    OBVIOUS
<1> USE ProgressAssumption
        DEF IndInv, TypeOK, ChannelTellsIdle, NoLostWakeup, tracker
<1>1. ASSUME NEW t \in Tokens, Begin(t) PROVE IndInv'
    <2>1. idle \in Nat /\ begins \in Nat
        OBVIOUS
    <2>2. active' # {} /\ closed' = closed
        BY <1>1 DEF Begin
    <2>3. TypeOK'
        BY <1>1, <2>1 DEF Begin
    <2>4. ChannelTellsIdle'
        \* a new busy period leaves a closed channel behind and opens one
        <3>1. CASE active = {}
            <4>1. idle' = idle + 1 /\ idle' \notin closed
                BY <1>1, <2>1, <3>1 DEF Begin
            <4> QED
                BY <2>1, <2>2, <3>1, <4>1
        <3>2. CASE active # {}
            BY <1>1, <2>2, <3>2 DEF Begin
        <3> QED
            BY <3>1, <3>2
    <2>5. NoLostWakeup'
        BY <1>1, <2>2 DEF Begin
    <2> QED
        BY <2>3, <2>4, <2>5
<1>2. ASSUME NEW t \in Tokens, End(t) PROVE IndInv'
    BY <1>2 DEF End
<1>3. CASE FirstBegin
    BY <1>3 DEF FirstBegin
<1>4. CASE NoBegin
    BY <1>4 DEF NoBegin
<1>5. CASE Look
    BY <1>5 DEF Look
<1>6. CASE IdleClosed
    BY <1>6 DEF IdleClosed
<1>7. CASE Settled
    BY <1>7 DEF Settled
<1>8. CASE Check
    BY <1>8 DEF Check
<1>9. CASE Expire
    BY <1>9 DEF Expire
<1>10. CASE Tick
    BY <1>10 DEF Tick
<1>11. CASE UNCHANGED vars
    BY <1>11 DEF vars
<1> QED
    BY <1>1, <1>2, <1>3, <1>4, <1>5, <1>6, <1>7, <1>8, <1>9, <1>10, <1>11
       DEF Next, Wait

\* The inductive invariant holds in every execution.
THEOREM Invariance == Spec => []IndInv
    BY InitIndInv, StepIndInv, PTL DEF Spec

\* The tracker and waitIdle keep their types in every execution.
THEOREM TypeCorrect == Spec => []TypeOK
    BY Invariance, PTL DEF IndInv

\* In every interleaving of $/progress notifications with waitIdle, the channel
\* it waits on is closed already or will be by the end of the running period.
THEOREM WakesUp == Spec => []NoLostWakeup
    BY Invariance, PTL DEF IndInv
=============================================================================
