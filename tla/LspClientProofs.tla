--------------------------- MODULE LspClientProofs ---------------------------
(* Proofs about LspClient, for every script of calls and every size of the    *)
(* pipe.                                                                      *)
(*                                                                            *)
(* Control relates the place of the calling goroutine to the kind of its      *)
(* call.  Numbering says that ids grow with the calls, so that an id is       *)
(* never given out twice.  Traffic follows a request id through everything    *)
(* that carries one (the two pipes, the server, readLoop and the channels):   *)
(* what bears the id of the request that waits belongs to the waiting call.   *)
(*                                                                            *)
(* EditsComplete needs more: a call has one request, which is in one place    *)
(* (OneRequest); an answer that is on its way was given (Answers); messages   *)
(* are read in the order they were sent, so that no edit of a command that    *)
(* was requested before its answer comes after it (InOrder); an edit is in    *)
(* one place and undecided until readLoop handles it (OneEdit).  From these,  *)
(* no early edit is lost while its command may succeed (NoneLost) and the     *)
(* server is told what the sinks hold (ToldTheTruth).                         *)
EXTENDS LspClient, TLAPS

Places == {"next", "arm", "register", "write", "enter", "parked", "giveUp", "received",
           "collect", "disarm", "exit", "wait", "done"}

Control ==
    /\ main \in Places
    /\ step \in Calls
    /\ server \in {"up", "gone"}
    /\ main \in {"arm", "collect", "disarm"} => Kind = "command"
    /\ main \in {"register", "enter", "parked", "giveUp", "received"} => Kind # "notify"
    /\ main \in {"exit", "wait", "done"} => Kind = "shutdown"
    /\ main = "done" => server = "gone"

\* The script ends with the shutdown: another call has a successor.
LEMMA ScriptGoesOn ==
    /\ Len(Script) \in Calls
    /\ \A c \in Calls : Script[c] \in Kinds
    /\ Script[Len(Script)] = "shutdown"
    /\ \A c \in Calls : Script[c] # "shutdown" => c + 1 \in Calls /\ c < Len(Script)
<1>1. Script \in Seq(Kinds) /\ Script # <<>> /\ Script[Len(Script)] = "shutdown"
    BY ClientAssumption
<1>2. Len(Script) \in Nat /\ Len(Script) # 0 /\ DOMAIN Script = 1 .. Len(Script)
    BY <1>1
<1>3. \A c \in 1 .. Len(Script) : Script[c] \in Kinds
    BY <1>1, <1>2
<1>4. \A c \in 1 .. Len(Script) : Script[c] # "shutdown" => c < Len(Script)
    BY <1>1, <1>2
<1> QED
    BY <1>1, <1>2, <1>3, <1>4 DEF Calls

\* The run starts before its first call.
LEMMA InitControl == Init => Control
BY ScriptGoesOn DEF Init, Control, Places, Calls

\* Every step keeps Control.
LEMMA StepControl == Control /\ [Next]_vars => Control'
<1> SUFFICES ASSUME Control, [Next]_vars PROVE Control'
    OBVIOUS
<1> USE ScriptGoesOn DEF Control, Kind, Places, Calls
<1>1. CASE Begin
    BY <1>1 DEF Begin, mainVars, shared, loopVars, serverVars, pipes, Kinds
<1>2. CASE Arm
    BY <1>2 DEF Arm, mainVars, shared, loopVars, serverVars, pipes, Kinds
<1>3. CASE Register
    BY <1>3 DEF Register, mainVars, shared, loopVars, serverVars, pipes, Kinds
<1>4. CASE WriteCall
    BY <1>4 DEF WriteCall, Finish, mainVars, shared, loopVars, serverVars, pipes, Kinds
<1>5. CASE WriteFails
    BY <1>5 DEF WriteFails, Finish, mainVars, shared, loopVars, serverVars, pipes, Kinds
<1>6. CASE TakeBuffered
    BY <1>6 DEF TakeBuffered, mainVars, shared, loopVars, serverVars, pipes, Kinds
<1>7. CASE TakeDone
    BY <1>7 DEF TakeDone, mainVars, shared, loopVars, serverVars, pipes, Kinds
<1>8. CASE Park
    BY <1>8 DEF Park, mainVars, shared, loopVars, serverVars, pipes, Kinds
<1>9. CASE Timeout
    BY <1>9 DEF Timeout, mainVars, shared, loopVars, serverVars, pipes, Kinds
<1>10. CASE GiveUp
    BY <1>10 DEF GiveUp, Finish, mainVars, shared, loopVars, serverVars, pipes, Kinds
<1>11. CASE Received
    BY <1>11 DEF Received, Finish, mainVars, shared, loopVars, serverVars, pipes, Kinds
<1>12. CASE Collect
    BY <1>12 DEF Collect, mainVars, shared, loopVars, serverVars, pipes, Kinds
<1>13. CASE Disarm
    BY <1>13 DEF Disarm, Finish, mainVars, shared, loopVars, serverVars, pipes, Kinds
<1>14. CASE Exit
    BY <1>14 DEF Exit, Finish, mainVars, shared, loopVars, serverVars, pipes, Kinds
<1>15. CASE Wait
    BY <1>15 DEF Wait, Finish, mainVars, shared, loopVars, serverVars, pipes, Kinds
<1>16. CASE ReadMessage
    BY <1>16 DEF ReadMessage, mainVars, shared, loopVars, serverVars, pipes, Kinds
<1>17. CASE ReadFails
    BY <1>17 DEF ReadFails, mainVars, shared, loopVars, serverVars, pipes, Kinds
<1>18. CASE Lookup
    BY <1>18 DEF Lookup, mainVars, shared, loopVars, serverVars, pipes, Kinds
<1>19. CASE Send
    BY <1>19 DEF Send, SendTo, mainVars, shared, loopVars, serverVars, pipes, Kinds
<1>20. CASE Capture
    BY <1>20 DEF Capture, mainVars, shared, loopVars, serverVars, pipes, Kinds
<1>21. CASE Reply
    BY <1>21 DEF Reply, mainVars, shared, loopVars, serverVars, pipes, Kinds
<1>22. CASE DrainOne
    BY <1>22 DEF DrainOne, SendTo, mainVars, shared, loopVars, serverVars, pipes, Kinds
<1>23. CASE DrainEnd
    BY <1>23 DEF DrainEnd, mainVars, shared, loopVars, serverVars, pipes, Kinds
<1>24. CASE Cancel
    BY <1>24 DEF Cancel, mainVars, shared, loopVars, serverVars, pipes, Kinds
<1>25. CASE ServerRead
    BY <1>25 DEF ServerRead, mainVars, shared, loopVars, serverVars, pipes, Kinds
<1>26. CASE ServerAnswer
    BY <1>26 DEF ServerAnswer, mainVars, shared, loopVars, serverVars, pipes, Kinds
<1>27. CASE ServerPush
    BY <1>27 DEF ServerPush, mainVars, shared, loopVars, serverVars, pipes, Kinds
<1>28. CASE ServerGarbles
    BY <1>28 DEF ServerGarbles, mainVars, shared, loopVars, serverVars, pipes, Kinds
<1>29. CASE ServerExit
    BY <1>29 DEF ServerExit, mainVars, shared, loopVars, serverVars, pipes, Kinds
<1>30. CASE UNCHANGED vars
    BY <1>30 DEF vars
<1> QED
    BY <1>1, <1>2, <1>3, <1>4, <1>5, <1>6, <1>7, <1>8, <1>9, <1>10, <1>11, <1>12, <1>13,
       <1>14, <1>15, <1>16, <1>17, <1>18, <1>19, <1>20, <1>21, <1>22, <1>23, <1>24,
       <1>25, <1>26, <1>27, <1>28, <1>29, <1>30 DEF Next, MainStep, LoopStep, ServerStep

\* However the run went, the calling goroutine ends only after the server process
\* is gone: Shutdown is the last call of every run and kills what does not exit.
THEOREM ReapsServer == Spec => []ServerReaped
<1>1. Control => ServerReaped
    BY DEF Control, ServerReaped
<1> QED
    BY InitControl, StepControl, <1>1, PTL DEF Spec

(* ---------------------- which request an answer is for ------------------- *)

Waiting == main \in {"write", "enter", "parked"} /\ Kind # "notify"

\* An id never comes back: a call has one at most, and a call that is still to
\* register has not.
Numbering ==
    /\ nextID \in Nat /\ id = nextID /\ nextID <= step
    /\ main \in {"next", "arm", "register"} \/ Kind = "notify" => nextID < step
    /\ Waiting => id \in 1 .. nextID
    /\ pending \subseteq 1 .. nextID

\* What bears the id of the request that waits belongs to the waiting call.
Own(r) == r.id \in 1 .. nextID /\ (Waiting /\ r.id = id => r.call = step)

OwnRequests == {r \in [kind : {"request"}, id : Calls, call : Calls] : Own(r)}
OwnResponses == {r \in [kind : {"response"}, id : Calls, call : Calls] : Own(r)}
EditRequests == [kind : {"applyEdit"}, call : Calls, edit : 1 .. MaxEdits]
EditReplies == [kind : {"applied", "refused"}, call : Calls, edit : 1 .. MaxEdits]

Pushes ==
    /\ pushed \in Seq([call : Calls, early : BOOLEAN, answered : {"none", "applied", "refused"}])
    /\ Len(pushed) <= MaxEdits

Pipes ==
    /\ toServer \in Seq({Nothing, Eof} \cup OwnRequests)
    /\ toClient \in Seq({Malformed} \cup OwnResponses \cup EditRequests)
    /\ work \subseteq OwnRequests /\ old \subseteq OwnRequests

Reader ==
    /\ loop \in {"read", "lookup", "send", "capture", "reply", "drain", "closed"}
    /\ loop \in {"lookup", "send"} => msg \in OwnResponses
    /\ loop = "capture" => msg \in EditRequests
    /\ loop = "reply" => msg \in EditReplies

Channels ==
    /\ chan \in [Calls -> {Nothing, Eof} \cup OwnResponses]
    /\ \A m \in Calls : chan[m] \in OwnResponses => chan[m].id = m
    /\ got \in [Calls -> Calls \cup {0}] /\ OwnAnswer

Traffic == Pipes /\ Pushes /\ Reader /\ Channels

(* Queues over a set of messages that only grows. *)
LEMMA Wider ==
    ASSUME NEW S, NEW T, S \subseteq T, NEW q \in Seq(S)
    PROVE  q \in Seq(T)
OBVIOUS

\* A queue takes a message of the set.
LEMMA Sent ==
    ASSUME NEW S, NEW T, S \subseteq T, NEW q \in Seq(S), NEW m \in T
    PROVE  Append(q, m) \in Seq(T)
<1>1. q \in Seq(T)
    BY Wider
<1> QED
    BY <1>1

\* What is read from a queue is in its set.
LEMMA Taken ==
    ASSUME NEW S, NEW T, S \subseteq T, NEW q \in Seq(S), q # <<>>
    PROVE  Head(q) \in S /\ Tail(q) \in Seq(T)
<1>1. Head(q) \in S /\ Tail(q) \in Seq(S)
    OBVIOUS
<1> QED
    BY <1>1, Wider

\* A sequence with one element replaced.
LEMMA Replaced ==
    ASSUME NEW S, NEW q \in Seq(S), NEW e, NEW v, e \in DOMAIN q => v \in S
    PROVE  [q EXCEPT ![e] = v] \in Seq(S) /\ Len([q EXCEPT ![e] = v]) = Len(q)
<1> DEFINE r == [q EXCEPT ![e] = v]
<1>1. Len(q) \in Nat /\ DOMAIN q = 1 .. Len(q) /\ q = [i \in 1 .. Len(q) |-> q[i]]
    OBVIOUS
<1>2. r = [i \in 1 .. Len(q) |-> IF i = e THEN v ELSE q[i]]
    BY <1>1
<1>3. \A i \in 1 .. Len(q) : (IF i = e THEN v ELSE q[i]) \in S
    BY <1>1
<1>4. r \in [1 .. Len(q) -> S]
    BY <1>2, <1>3
<1>5. r \in Seq(S) /\ DOMAIN r = 1 .. Len(q)
    BY <1>1, <1>4
<1> QED
    BY <1>1, <1>5

\* No id has been given out.
LEMMA InitNumbering == Init => Numbering
BY DEF Init, Numbering, Waiting

\* Every step keeps the numbering.
LEMMA StepNumbering == Control /\ Numbering /\ [Next]_vars => Numbering'
<1> SUFFICES ASSUME Control, Numbering, [Next]_vars PROVE Numbering'
    OBVIOUS
<1> USE ScriptGoesOn DEF Control, Numbering, Waiting, Kind, Places, Calls
<1>1. CASE Begin
    BY <1>1 DEF Begin, mainVars, shared, loopVars, serverVars, pipes, Kinds
<1>2. CASE Arm
    BY <1>2 DEF Arm, mainVars, shared, loopVars, serverVars, pipes, Kinds
<1>3. CASE Register
    BY <1>3 DEF Register, mainVars, shared, loopVars, serverVars, pipes, Kinds
<1>4. CASE WriteCall
    BY <1>4 DEF WriteCall, Finish, mainVars, shared, loopVars, serverVars, pipes, Kinds
<1>5. CASE WriteFails
    BY <1>5 DEF WriteFails, Finish, mainVars, shared, loopVars, serverVars, pipes, Kinds
<1>6. CASE TakeBuffered
    BY <1>6 DEF TakeBuffered, mainVars, shared, loopVars, serverVars, pipes, Kinds
<1>7. CASE TakeDone
    BY <1>7 DEF TakeDone, mainVars, shared, loopVars, serverVars, pipes, Kinds
<1>8. CASE Park
    BY <1>8 DEF Park, mainVars, shared, loopVars, serverVars, pipes, Kinds
<1>9. CASE Timeout
    BY <1>9 DEF Timeout, mainVars, shared, loopVars, serverVars, pipes, Kinds
<1>10. CASE GiveUp
    BY <1>10 DEF GiveUp, Finish, mainVars, shared, loopVars, serverVars, pipes, Kinds
<1>11. CASE Received
    <2>1. nextID' = nextID /\ id' = id /\ pending' = pending /\ main = "received"
        BY <1>11 DEF Received, shared
    <2>2. \/ step' = step /\ main' \in {"disarm", "collect", "exit", "done"}
          \/ Kind # "shutdown" /\ main' = "next" /\ step' \in {step + 1, Len(Script)}
        BY <1>11 DEF Received, Finish, Kinds
    <2> QED
        BY <2>1, <2>2
<1>12. CASE Collect
    BY <1>12 DEF Collect, mainVars, shared, loopVars, serverVars, pipes, Kinds
<1>13. CASE Disarm
    BY <1>13 DEF Disarm, Finish, mainVars, shared, loopVars, serverVars, pipes, Kinds
<1>14. CASE Exit
    BY <1>14 DEF Exit, Finish, mainVars, shared, loopVars, serverVars, pipes, Kinds
<1>15. CASE Wait
    BY <1>15 DEF Wait, Finish, mainVars, shared, loopVars, serverVars, pipes, Kinds
<1>16. CASE ReadMessage
    BY <1>16 DEF ReadMessage, mainVars, shared, loopVars, serverVars, pipes, Kinds
<1>17. CASE ReadFails
    BY <1>17 DEF ReadFails, mainVars, shared, loopVars, serverVars, pipes, Kinds
<1>18. CASE Lookup
    BY <1>18 DEF Lookup, mainVars, shared, loopVars, serverVars, pipes, Kinds
<1>19. CASE Send
    BY <1>19 DEF Send, SendTo, mainVars, shared, loopVars, serverVars, pipes, Kinds
<1>20. CASE Capture
    BY <1>20 DEF Capture, mainVars, shared, loopVars, serverVars, pipes, Kinds
<1>21. CASE Reply
    BY <1>21 DEF Reply, mainVars, shared, loopVars, serverVars, pipes, Kinds
<1>22. CASE DrainOne
    BY <1>22 DEF DrainOne, SendTo, mainVars, shared, loopVars, serverVars, pipes, Kinds
<1>23. CASE DrainEnd
    BY <1>23 DEF DrainEnd, mainVars, shared, loopVars, serverVars, pipes, Kinds
<1>24. CASE Cancel
    BY <1>24 DEF Cancel, mainVars, shared, loopVars, serverVars, pipes, Kinds
<1>25. CASE ServerRead
    BY <1>25 DEF ServerRead, mainVars, shared, loopVars, serverVars, pipes, Kinds
<1>26. CASE ServerAnswer
    BY <1>26 DEF ServerAnswer, mainVars, shared, loopVars, serverVars, pipes, Kinds
<1>27. CASE ServerPush
    BY <1>27 DEF ServerPush, mainVars, shared, loopVars, serverVars, pipes, Kinds
<1>28. CASE ServerGarbles
    BY <1>28 DEF ServerGarbles, mainVars, shared, loopVars, serverVars, pipes, Kinds
<1>29. CASE ServerExit
    BY <1>29 DEF ServerExit, mainVars, shared, loopVars, serverVars, pipes, Kinds
<1>30. CASE UNCHANGED vars
    BY <1>30 DEF vars, Kinds
<1> QED
    BY <1>1, <1>2, <1>3, <1>4, <1>5, <1>6, <1>7, <1>8, <1>9, <1>10, <1>11, <1>12, <1>13,
       <1>14, <1>15, <1>16, <1>17, <1>18, <1>19, <1>20, <1>21, <1>22, <1>23, <1>24,
       <1>25, <1>26, <1>27, <1>28, <1>29, <1>30 DEF Next, MainStep, LoopStep, ServerStep

\* The request that waits keeps its id and its call, and the next one gets an id
\* that nothing bears yet.
LEMMA Moves ==
    ASSUME Control, Numbering, [Next]_vars
    PROVE  /\ nextID <= nextID'
           /\ Waiting' => \/ Waiting /\ id' = id /\ step' = step
                          \/ id' = nextID + 1
<1> USE ScriptGoesOn DEF Control, Numbering, Waiting, Kind, Places, Calls
<1>1. CASE Begin
    BY <1>1 DEF Begin, mainVars, shared, loopVars, serverVars, pipes, Kinds
<1>2. CASE Arm
    BY <1>2 DEF Arm, mainVars, shared, loopVars, serverVars, pipes, Kinds
<1>3. CASE Register
    BY <1>3 DEF Register, mainVars, shared, loopVars, serverVars, pipes, Kinds
<1>4. CASE WriteCall
    BY <1>4 DEF WriteCall, Finish, mainVars, shared, loopVars, serverVars, pipes, Kinds
<1>5. CASE WriteFails
    BY <1>5 DEF WriteFails, Finish, mainVars, shared, loopVars, serverVars, pipes, Kinds
<1>6. CASE TakeBuffered
    BY <1>6 DEF TakeBuffered, mainVars, shared, loopVars, serverVars, pipes, Kinds
<1>7. CASE TakeDone
    BY <1>7 DEF TakeDone, mainVars, shared, loopVars, serverVars, pipes, Kinds
<1>8. CASE Park
    BY <1>8 DEF Park, mainVars, shared, loopVars, serverVars, pipes, Kinds
<1>9. CASE Timeout
    BY <1>9 DEF Timeout, mainVars, shared, loopVars, serverVars, pipes, Kinds
<1>10. CASE GiveUp
    BY <1>10 DEF GiveUp, Finish, mainVars, shared, loopVars, serverVars, pipes, Kinds
<1>11. CASE Received
    <2>1. nextID' = nextID /\ id' = id /\ pending' = pending /\ main = "received"
        BY <1>11 DEF Received, shared
    <2>2. \/ step' = step /\ main' \in {"disarm", "collect", "exit", "done"}
          \/ Kind # "shutdown" /\ main' = "next" /\ step' \in {step + 1, Len(Script)}
        BY <1>11 DEF Received, Finish, Kinds
    <2> QED
        BY <2>1, <2>2
<1>12. CASE Collect
    BY <1>12 DEF Collect, mainVars, shared, loopVars, serverVars, pipes, Kinds
<1>13. CASE Disarm
    BY <1>13 DEF Disarm, Finish, mainVars, shared, loopVars, serverVars, pipes, Kinds
<1>14. CASE Exit
    BY <1>14 DEF Exit, Finish, mainVars, shared, loopVars, serverVars, pipes, Kinds
<1>15. CASE Wait
    BY <1>15 DEF Wait, Finish, mainVars, shared, loopVars, serverVars, pipes, Kinds
<1>16. CASE ReadMessage
    BY <1>16 DEF ReadMessage, mainVars, shared, loopVars, serverVars, pipes, Kinds
<1>17. CASE ReadFails
    BY <1>17 DEF ReadFails, mainVars, shared, loopVars, serverVars, pipes, Kinds
<1>18. CASE Lookup
    BY <1>18 DEF Lookup, mainVars, shared, loopVars, serverVars, pipes, Kinds
<1>19. CASE Send
    BY <1>19 DEF Send, SendTo, mainVars, shared, loopVars, serverVars, pipes, Kinds
<1>20. CASE Capture
    BY <1>20 DEF Capture, mainVars, shared, loopVars, serverVars, pipes, Kinds
<1>21. CASE Reply
    BY <1>21 DEF Reply, mainVars, shared, loopVars, serverVars, pipes, Kinds
<1>22. CASE DrainOne
    BY <1>22 DEF DrainOne, SendTo, mainVars, shared, loopVars, serverVars, pipes, Kinds
<1>23. CASE DrainEnd
    BY <1>23 DEF DrainEnd, mainVars, shared, loopVars, serverVars, pipes, Kinds
<1>24. CASE Cancel
    BY <1>24 DEF Cancel, mainVars, shared, loopVars, serverVars, pipes, Kinds
<1>25. CASE ServerRead
    BY <1>25 DEF ServerRead, mainVars, shared, loopVars, serverVars, pipes, Kinds
<1>26. CASE ServerAnswer
    BY <1>26 DEF ServerAnswer, mainVars, shared, loopVars, serverVars, pipes, Kinds
<1>27. CASE ServerPush
    BY <1>27 DEF ServerPush, mainVars, shared, loopVars, serverVars, pipes, Kinds
<1>28. CASE ServerGarbles
    BY <1>28 DEF ServerGarbles, mainVars, shared, loopVars, serverVars, pipes, Kinds
<1>29. CASE ServerExit
    BY <1>29 DEF ServerExit, mainVars, shared, loopVars, serverVars, pipes, Kinds
<1>30. CASE UNCHANGED vars
    BY <1>30 DEF vars, Kinds
<1> QED
    BY <1>1, <1>2, <1>3, <1>4, <1>5, <1>6, <1>7, <1>8, <1>9, <1>10, <1>11, <1>12, <1>13,
       <1>14, <1>15, <1>16, <1>17, <1>18, <1>19, <1>20, <1>21, <1>22, <1>23, <1>24,
       <1>25, <1>26, <1>27, <1>28, <1>29, <1>30 DEF Next, MainStep, LoopStep, ServerStep

\* So nothing stops being the waiting call's own.
LEMMA OwnLasts ==
    ASSUME Control, Numbering, [Next]_vars
    PROVE  OwnRequests \subseteq OwnRequests' /\ OwnResponses \subseteq OwnResponses'
<1>1. nextID \in Nat /\ nextID' \in Nat
    BY StepNumbering DEF Numbering
<1>2. ASSUME NEW r, Own(r) PROVE Own(r)'
    BY <1>1, <1>2, Moves DEF Own
<1> QED
    BY <1>2 DEF OwnRequests, OwnResponses

\* A pipe and the server's table hold what they held, and what a step adds.
LEMMA StepPipes == Control /\ Numbering /\ Traffic /\ [Next]_vars => Pipes'
<1> SUFFICES ASSUME Control, Numbering, Traffic, [Next]_vars PROVE Pipes'
    OBVIOUS
<1> USE DEF Traffic
<1> DEFINE Up == {Nothing, Eof} \cup OwnRequests
           Down == {Malformed} \cup OwnResponses \cup EditRequests
<1>a. Up \subseteq Up' /\ Down \subseteq Down' /\ OwnRequests \subseteq OwnRequests'
    BY OwnLasts DEF EditRequests, Calls, Nothing, Eof, Malformed
<1>b. /\ toServer \in Seq(Up) /\ toClient \in Seq(Down)
      /\ work \subseteq OwnRequests /\ old \subseteq OwnRequests
    BY DEF Pipes
<1>c. Pipes' <=> /\ toServer' \in Seq(Up') /\ toClient' \in Seq(Down')
                 /\ work' \subseteq OwnRequests' /\ old' \subseteq OwnRequests'
    BY DEF Pipes
<1>d. Nothing \in Up' /\ Eof \in Up' /\ Malformed \in Down'
    BY DEF Nothing, Eof, Malformed
<1>e. toServer \in Seq(Up') /\ toClient \in Seq(Down')
      /\ work \subseteq OwnRequests' /\ old \subseteq OwnRequests'
    <2> HIDE DEF Up, Down
    <2> QED
        BY <1>a, <1>b, Wider
<1>1. CASE WriteCall
    <2>1. Kind # "notify" => Request(id, step) \in OwnRequests
        BY <1>1 DEF WriteCall, Control, Numbering, Waiting, Own, OwnRequests, Request, Calls
    <2>2. \E m \in Up : toServer' = Append(toServer, m)
        BY <1>1, <2>1 DEF WriteCall
    <2>3. toServer' \in Seq(Up')
        <3> HIDE DEF Up
        <3> QED
            BY <2>2, <1>a, <1>b, Sent
    <2>4. UNCHANGED <<toClient, work, old>>
        BY <1>1 DEF WriteCall, serverVars
    <2> QED
        BY <2>3, <2>4, <1>c, <1>e
<1>2. CASE Exit
    <2>1. (toServer' = Append(toServer, Eof) \/ toServer' = toServer) /\ UNCHANGED <<toClient, work, old>>
        BY <1>2 DEF Exit, mainVars, shared, loopVars, serverVars, pipes
    <2>2. toServer' \in Seq(Up')
        <3> HIDE DEF Up
        <3> QED
            BY <2>1, <1>a, <1>b, <1>d, <1>e, Sent
    <2> QED
        BY <2>1, <2>2, <1>c, <1>e
<1>3. CASE ReadMessage
    <2>1. toClient # <<>> /\ toClient' = Tail(toClient) /\ UNCHANGED <<toServer, work, old>>
        BY <1>3 DEF ReadMessage, serverVars
    <2>2. toClient' \in Seq(Down')
        <3> HIDE DEF Down
        <3> QED
            BY <2>1, <1>a, <1>b, Taken
    <2> QED
        BY <2>1, <2>2, <1>c, <1>e
<1>4. CASE Reply
    <2>1. (toServer' = Append(toServer, Nothing) \/ toServer' = toServer) /\ UNCHANGED <<toClient, work, old>>
        BY <1>4 DEF Reply, mainVars, shared, loopVars, serverVars, pipes
    <2>2. toServer' \in Seq(Up')
        <3> HIDE DEF Up
        <3> QED
            BY <2>1, <1>a, <1>b, <1>d, <1>e, Sent
    <2> QED
        BY <2>1, <2>2, <1>c, <1>e
<1>5. CASE ServerRead
    <2>1. /\ toServer # <<>> /\ toServer' = Tail(toServer) /\ UNCHANGED <<toClient, old>>
          /\ work' = IF Head(toServer).kind = "request" THEN work \cup {Head(toServer)} ELSE work
        BY <1>5 DEF ServerRead
    <2>2. Head(toServer) \in Up /\ toServer' \in Seq(Up')
        <3> HIDE DEF Up
        <3> QED
            BY <2>1, <1>a, <1>b, Taken
    <2>3. Head(toServer).kind = "request" => Head(toServer) \in OwnRequests
        BY <2>2 DEF Nothing, Eof
    <2>4. work' \subseteq OwnRequests'
        BY <2>1, <2>3, <1>a, <1>e
    <2> QED
        BY <2>1, <2>2, <2>4, <1>c, <1>e
<1>6. CASE ServerAnswer
    <2>1. PICK m \in work : /\ toClient' = Append(toClient, Response(m.id, m.call))
                            /\ work' = work \ {m} /\ old' = old \cup {m}
                            /\ UNCHANGED toServer
        BY <1>6 DEF ServerAnswer
    <2>2. Response(m.id, m.call) \in OwnResponses
        BY <1>b DEF OwnRequests, OwnResponses, Own, Response
    <2>3. toClient' \in Seq(Down')
        <3>1. Response(m.id, m.call) \in Down'
            BY <2>2, <1>a
        <3> HIDE DEF Down
        <3> QED
            BY <2>1, <3>1, <1>a, <1>b, Sent
    <2> QED
        BY <2>1, <2>3, <1>c, <1>e
<1>7. CASE ServerPush
    <2>1. PICK m \in work \cup old :
              toClient' = Append(toClient, ApplyEdit(m.call, Len(pushed) + 1))
        BY <1>7 DEF ServerPush
    <2>2. Len(pushed) + 1 \in 1 .. MaxEdits
        BY <1>7, ClientAssumption DEF ServerPush, Pushes
    <2>3. ApplyEdit(m.call, Len(pushed) + 1) \in EditRequests
        BY <1>b, <2>2 DEF OwnRequests, EditRequests, ApplyEdit
    <2>4. toClient' \in Seq(Down')
        <3>1. ApplyEdit(m.call, Len(pushed) + 1) \in Down'
            BY <2>3 DEF EditRequests, Calls
        <3> HIDE DEF Down
        <3> QED
            BY <2>1, <3>1, <1>a, <1>b, Sent
    <2>5. UNCHANGED <<toServer, work, old>>
        BY <1>7 DEF ServerPush
    <2> QED
        BY <2>4, <2>5, <1>c, <1>e
<1>8. CASE ServerGarbles
    <2>1. toClient' = Append(toClient, Malformed) /\ UNCHANGED <<toServer, work, old>>
        BY <1>8 DEF ServerGarbles, serverVars
    <2>2. toClient' \in Seq(Down')
        <3> HIDE DEF Down
        <3> QED
            BY <2>1, <1>a, <1>b, <1>d, Sent
    <2> QED
        BY <2>1, <2>2, <1>c, <1>e
<1>9. CASE \/ Begin \/ Arm \/ Register \/ WriteFails \/ TakeBuffered \/ TakeDone
           \/ Park \/ Timeout \/ GiveUp \/ Received \/ Collect \/ Disarm \/ Wait
           \/ ReadFails \/ Lookup \/ Send \/ Capture \/ DrainOne \/ DrainEnd
           \/ Cancel \/ ServerExit \/ UNCHANGED vars
    <2>1. UNCHANGED <<toServer, toClient, work, old>>
        BY <1>9 DEF Begin, Arm, Register, WriteFails, TakeBuffered, TakeDone, Park, Timeout,
                   GiveUp, Received, Collect, Disarm, Wait, ReadFails, Lookup, Send, Capture,
                   DrainOne, DrainEnd, Cancel, ServerExit, Finish, SendTo, mainVars, shared,
                   loopVars, serverVars, pipes, vars
    <2> QED
        BY <2>1, <1>c, <1>e
<1> QED
    BY <1>1, <1>2, <1>3, <1>4, <1>5, <1>6, <1>7, <1>8, <1>9 DEF Next, MainStep,
       LoopStep, ServerStep

\* The record of the applyEdit requests keeps its shape and its bound.
LEMMA StepPushes == Control /\ Numbering /\ Traffic /\ [Next]_vars => Pushes'
<1> SUFFICES ASSUME Control, Numbering, Traffic, [Next]_vars PROVE Pushes'
    OBVIOUS
<1> USE DEF Traffic
<1>1. CASE Reply
    <2>1. pushed' = pushed \/ pushed' = [pushed EXCEPT ![msg.edit].answered = msg.kind]
        BY <1>1 DEF Reply
    <2>2. msg.kind \in {"applied", "refused"}
        BY <1>1 DEF Reply, Reader, EditReplies
    <2>3. CASE pushed' = pushed
        BY <2>3 DEF Pushes
    <2>4. CASE pushed' = [pushed EXCEPT ![msg.edit].answered = msg.kind]
        <3> DEFINE P == [call : Calls, early : BOOLEAN, answered : {"none", "applied", "refused"}]
        <3>1. pushed \in Seq(P) /\ Len(pushed) <= MaxEdits
            BY DEF Pushes
        <3>2. ASSUME msg.edit \in DOMAIN pushed
              PROVE  [pushed[msg.edit] EXCEPT !.answered = msg.kind] \in P
            <4>1. pushed[msg.edit] \in P
                <5> HIDE DEF P
                <5> QED
                    BY <3>1, <3>2
            <4> QED
                BY <4>1, <2>2
        <3> DEFINE e == msg.edit
                   p == [pushed[msg.edit] EXCEPT !.answered = msg.kind]
        <3>3. pushed' = [pushed EXCEPT ![e] = p]
            BY <2>4
        <3>4. e \in DOMAIN pushed => p \in P
            BY <3>2
        <3> HIDE DEF P, e, p
        <3>5. pushed' \in Seq(P) /\ Len(pushed') = Len(pushed)
            BY <3>1, <3>3, <3>4, Replaced
        <3> QED
            BY <3>1, <3>5 DEF Pushes, P
    <2> QED
        BY <2>1, <2>3, <2>4
<1>2. CASE ServerPush
    <2>1. PICK m \in work \cup old : pushed' = Append(pushed, [call |-> m.call, early |-> m \in work,
                                                             answered |-> "none"])
        BY <1>2 DEF ServerPush
    <2>2. m.call \in Calls
        BY DEF Pipes, OwnRequests
    <2>3. Len(pushed) < MaxEdits
        BY <1>2 DEF ServerPush
    <2> QED
        BY <2>1, <2>2, <2>3, ClientAssumption DEF Pushes
<1>3. CASE \/ Begin \/ Arm \/ Register \/ WriteCall \/ WriteFails \/ TakeBuffered
           \/ TakeDone \/ Park \/ Timeout \/ GiveUp \/ Received \/ Collect \/ Disarm
           \/ Exit \/ Wait \/ ReadMessage \/ ReadFails \/ Lookup \/ Send \/ Capture
           \/ DrainOne \/ DrainEnd \/ Cancel \/ ServerRead \/ ServerAnswer
           \/ ServerGarbles \/ ServerExit \/ UNCHANGED vars
    <2>1. UNCHANGED pushed
        BY <1>3 DEF Begin, Arm, Register, WriteCall, WriteFails, TakeBuffered, TakeDone,
           Park,
                   Timeout, GiveUp, Received, Collect, Disarm, Exit, Wait, ReadMessage,
                   ReadFails, Lookup, Send, Capture, DrainOne, DrainEnd, Cancel, ServerRead,
                   ServerAnswer, ServerGarbles, ServerExit, Finish, SendTo, mainVars, shared,
                   loopVars, serverVars, pipes, vars
    <2> QED
        BY <2>1 DEF Pushes
<1> QED
    BY <1>1, <1>2, <1>3 DEF Next, MainStep, LoopStep, ServerStep

\* What readLoop handles is of the kind its place says.
LEMMA StepReader == Control /\ Numbering /\ Traffic /\ [Next]_vars => Reader'
<1> SUFFICES ASSUME Control, Numbering, Traffic, [Next]_vars PROVE Reader'
    OBVIOUS
<1> USE DEF Traffic
<1>a. OwnResponses \subseteq OwnResponses' /\ EditRequests' = EditRequests /\ EditReplies' = EditReplies
    BY OwnLasts DEF EditRequests, EditReplies, Calls
<1>1. CASE ReadMessage
    <2>1. msg' = Head(toClient) /\ toClient # <<>>
          /\ loop' = CASE msg'.kind = "response" -> "lookup"
                       [] msg'.kind = "applyEdit" -> "capture"
                       [] msg' = Malformed -> "drain"
        BY <1>1 DEF ReadMessage
    <2>2. msg' \in {Malformed} \cup OwnResponses \cup EditRequests
        BY <2>1 DEF Pipes
    <2>3. CASE msg' = Malformed
        BY <2>1, <2>3 DEF Reader, Malformed
    <2>4. CASE msg' \in OwnResponses
        BY <2>1, <2>4, <1>a DEF Reader, OwnResponses, Malformed
    <2>5. CASE msg' \in EditRequests
        BY <2>1, <2>5, <1>a DEF Reader, EditRequests, Malformed
    <2> QED
        BY <2>2, <2>3, <2>4, <2>5
<1>2. CASE ReadFails
    BY <1>2, <1>a DEF ReadFails, Reader, OwnResponses
<1>3. CASE Lookup
    BY <1>3, <1>a DEF Lookup, Reader, OwnResponses
<1>4. CASE Send
    BY <1>4, <1>a DEF Send, Reader, OwnResponses
<1>5. CASE Capture
    <2>1. loop' = "reply" /\ msg \in EditRequests
          /\ msg' = [msg EXCEPT !.kind = IF sink = 0 THEN "refused" ELSE "applied"]
        BY <1>5 DEF Capture, Reader
    <2>2. msg' \in EditReplies
        BY <2>1 DEF EditRequests, EditReplies
    <2> QED
        BY <2>1, <2>2, <1>a DEF Reader
<1>6. CASE Reply
    BY <1>6, <1>a DEF Reply, Reader, OwnResponses
<1>7. CASE DrainEnd
    BY <1>7, <1>a DEF DrainEnd, Reader, OwnResponses
<1>8. CASE \/ Begin \/ Arm \/ Register \/ WriteCall \/ WriteFails \/ TakeBuffered
           \/ TakeDone \/ Park \/ Timeout \/ GiveUp \/ Received \/ Collect \/ Disarm
           \/ Exit \/ Wait \/ DrainOne \/ Cancel \/ ServerRead \/ ServerAnswer
           \/ ServerPush \/ ServerGarbles \/ ServerExit \/ UNCHANGED vars
    <2>1. UNCHANGED <<loop, msg>>
        BY <1>8 DEF Begin, Arm, Register, WriteCall, WriteFails, TakeBuffered, TakeDone,
           Park,
                   Timeout, GiveUp, Received, Collect, Disarm, Exit, Wait, DrainOne, Cancel,
                   ServerRead, ServerAnswer, ServerPush, ServerGarbles, ServerExit, Finish,
                   SendTo, mainVars, shared, loopVars, serverVars, pipes, vars
    <2> QED
        BY <2>1, <1>a DEF Reader
<1> QED
    BY <1>1, <1>2, <1>3, <1>4, <1>5, <1>6, <1>7, <1>8 DEF Next, MainStep, LoopStep,
       ServerStep

\* readLoop's hand-off or buffering keeps the channels apart by id.
LEMMA SendKeeps ==
    ASSUME Control, Numbering, Traffic, [Next]_vars, step' = step,
           NEW m \in Calls, NEW answer \in {Nothing, Eof} \cup OwnResponses,
           SendTo(m, answer), answer \in OwnResponses => answer.id = m
    PROVE  Channels'
<1>a. OwnResponses \subseteq OwnResponses'
    BY OwnLasts
<1>b. chan \in [Calls -> {Nothing, Eof} \cup OwnResponses] /\ got \in [Calls -> Calls \cup {0}] /\ OwnAnswer
      /\ (\A n \in Calls : chan[n] \in OwnResponses => chan[n].id = n)
    BY DEF Traffic, Channels
<1>c. Nothing \notin OwnResponses' /\ Eof \notin OwnResponses'
    BY DEF OwnResponses, Nothing, Eof
<1>1. CASE main = "parked" /\ id = m
    <2>1. got' = [got EXCEPT ![step] = IF answer.kind = "response" THEN answer.call ELSE 0] /\ chan' = chan
        BY <1>1 DEF SendTo
    <2>2. ASSUME answer.kind = "response" PROVE answer.call = step
        <3>1. answer \in OwnResponses
            BY <2>2 DEF Nothing, Eof
        <3> QED
            BY <1>1, <3>1 DEF OwnResponses, Own, Waiting, Control
    <2>3. got' \in [Calls -> Calls \cup {0}] /\ OwnAnswer'
        BY <2>1, <2>2, <1>b DEF OwnAnswer, Control
    <2> QED
        BY <2>1, <2>3, <1>a, <1>b, <1>c DEF Channels
<1>2. CASE ~(main = "parked" /\ id = m)
    <2>1. chan' = [chan EXCEPT ![m] = answer] /\ got' = got
        BY <1>2 DEF SendTo
    <2> QED
        BY <2>1, <1>a, <1>b, <1>c DEF Channels, OwnAnswer
<1> QED
    BY <1>1, <1>2

\* A channel holds only answers with its id, and a call gets only its own.
LEMMA StepChannels == Control /\ Numbering /\ Traffic /\ [Next]_vars => Channels'
<1> SUFFICES ASSUME Control, Numbering, Traffic, [Next]_vars PROVE Channels'
    OBVIOUS
<1> USE DEF Traffic
<1>a. OwnResponses \subseteq OwnResponses' /\ Nothing \notin OwnResponses' /\ Eof \notin OwnResponses'
    BY OwnLasts DEF OwnResponses, Nothing, Eof
<1>b. pending \subseteq Calls /\ Nothing \notin OwnResponses /\ Eof \notin OwnResponses
    BY DEF Numbering, Control, Calls, OwnResponses, Nothing, Eof
<1>1. CASE TakeBuffered
    <2>1. /\ main = "enter" /\ chan[id] # Nothing /\ id \in Calls /\ step \in Calls
          /\ got' = [got EXCEPT ![step] = IF chan[id].kind = "response" THEN chan[id].call ELSE 0]
          /\ chan' = [chan EXCEPT ![id] = Nothing]
        BY <1>1 DEF TakeBuffered, Control, Numbering, Waiting, Calls
    <2>2. chan[id] \in {Nothing, Eof} \cup OwnResponses
        BY <2>1 DEF Channels
    <2>3. ASSUME chan[id].kind = "response" PROVE chan[id].call = step
        <3>1. chan[id] \in OwnResponses /\ chan[id].id = id
            BY <2>1, <2>2, <2>3 DEF Nothing, Eof, Channels
        <3> QED
            BY <2>1, <3>1 DEF OwnResponses, Own, Waiting, Control
    <2>4. got' \in [Calls -> Calls \cup {0}] /\ OwnAnswer'
        BY <2>1, <2>3 DEF Channels, OwnAnswer
    <2>5. chan' \in [Calls -> {Nothing, Eof} \cup OwnResponses] /\ \A m \in Calls : chan'[m] = chan[m] \/ chan'[m] = Nothing
        BY <2>1 DEF Channels
    <2> QED
        BY <2>4, <2>5, <1>a DEF Channels
<1>2. CASE Send
    <2>1. SendTo(msg.id, msg) /\ step' = step /\ msg \in OwnResponses /\ msg.id \in Calls
        BY <1>2 DEF Send, Reader, OwnResponses
    <2> QED
        BY <2>1, SendKeeps, Zenon
<1>3. CASE DrainOne
    <2>1. PICK m \in pending : SendTo(m, Eof) /\ step' = step
        BY <1>3 DEF DrainOne
    <2>2. m \in Calls /\ Eof \notin OwnResponses
        BY <1>b, <2>1
    <2> QED
        BY <2>1, <2>2, SendKeeps
<1>4. CASE \/ Begin \/ Arm \/ Register \/ WriteCall \/ WriteFails \/ TakeDone
           \/ Park \/ Timeout \/ GiveUp \/ Received \/ Collect \/ Disarm \/ Exit
           \/ Wait \/ ReadMessage \/ ReadFails \/ Lookup \/ Capture \/ Reply
           \/ DrainEnd \/ Cancel \/ ServerRead \/ ServerAnswer \/ ServerPush
           \/ ServerGarbles \/ ServerExit \/ UNCHANGED vars
    <2>1. UNCHANGED <<chan, got>>
        BY <1>4 DEF Begin, Arm, Register, WriteCall, WriteFails, TakeDone, Park, Timeout,
                   GiveUp, Received, Collect, Disarm, Exit, Wait, ReadMessage, ReadFails,
                   Lookup, Capture, Reply, DrainEnd, Cancel, ServerRead, ServerAnswer,
                   ServerPush, ServerGarbles, ServerExit, Finish, mainVars, shared, loopVars,
                   serverVars, pipes, vars
    <2> QED
        BY <2>1, <1>a DEF Channels, OwnAnswer
<1> QED
    BY <1>1, <1>2, <1>3, <1>4 DEF Next, MainStep, LoopStep, ServerStep

\* Nothing is on its way at the start.
LEMMA InitTraffic == Init => Traffic
<1> SUFFICES ASSUME Init PROVE Traffic
    OBVIOUS
<1>1. Pipes /\ Pushes
    BY ClientAssumption DEF Init, Pipes, Pushes
<1>2. Reader /\ Channels
    BY DEF Init, Reader, Channels, OwnAnswer, OwnResponses, Nothing
<1> QED
    BY <1>1, <1>2 DEF Traffic

\* Control, Numbering and Traffic hold in every execution.
LEMMA ClientHolds == Spec => [](Control /\ Numbering /\ Traffic)
<1>1. Init => Control /\ Numbering /\ Traffic
    BY InitControl, InitNumbering, InitTraffic
<1>2. Control /\ Numbering /\ Traffic /\ [Next]_vars => (Control /\ Numbering /\ Traffic)'
    BY StepControl, StepNumbering, StepPipes, StepPushes, StepReader, StepChannels DEF
       Traffic
<1> QED
    BY <1>1, <1>2, PTL DEF Spec

\* A late answer is never taken for the answer to another request: whatever a
\* call returns was the answer to its own.
THEOREM AnswersAreOwn == Spec => []OwnAnswer
<1>1. Traffic => OwnAnswer
    BY DEF Traffic, Channels
<1> QED
    BY ClientHolds, <1>1, PTL

(* ------------------- the edits that belong to a command ------------------ *)

\* MoveToFile, the one caller of ExecuteCommand (adapter.go:837), executes one
\* command in a run.  A second one would find the late edits of the first in its
\* sink: EditsComplete is false then.
OneCommand ==
    \A c, d \in Calls : Script[c] = "command" /\ Script[d] = "command" => c = d

\* The request of call c has been written.
Called(c) ==
    \/ c = step /\ main \notin {"next", "arm", "register", "write"}
    \/ c < step /\ result[c] \in {"ok", "err"}

\* How far a call's result tells where the goroutine is.
Results ==
    /\ result \in [Calls -> {"none", "ok", "err"}]
    /\ \A c \in Calls : c > step => result[c] = "none"
    /\ result[step] # "none" => main \in {"disarm", "done"}
    /\ main \in {"disarm", "done"} => result[step] # "none"
    /\ main = "collect" => got[step] # 0
    /\ DOMAIN edits = Calls
    /\ \A c \in Calls : result[c] = "ok" /\ Script[c] = "command" => got[c] # 0

\* The sink is armed exactly while a command is under way.
Armed ==
    /\ sink # 0 => sink = step /\ Kind = "command"
    /\ Kind = "command" /\ main \notin {"next", "arm"} => sink = step

RequestAt(i) == i \in DOMAIN toServer /\ toServer[i].kind = "request"
AnswerAt(i) == i \in DOMAIN toClient /\ toClient[i].kind = "response"
EditAt(i) == i \in DOMAIN toClient /\ toClient[i].kind = "applyEdit"

\* A call has one request, and that is in one place.
OneRequest ==
    /\ \A i, j \in DOMAIN toServer :
           RequestAt(i) /\ RequestAt(j) /\ toServer[i].call = toServer[j].call => i = j
    /\ \A i \in DOMAIN toServer : RequestAt(i) =>
           /\ Called(toServer[i].call)
           /\ \A r \in work \cup old : r.call # toServer[i].call
    /\ \A r \in work \cup old : Called(r.call)
    /\ \A r, s \in work : r.call = s.call => r = s
    /\ \A r \in work, s \in old : r.call # s.call

Answered(c) == \E r \in old : r.call = c

\* readLoop has read the answer to call c.
Seen(c) ==
    \/ loop \in {"lookup", "send"} /\ msg.call = c
    \/ \E m \in Calls : chan[m].kind = "response" /\ chan[m].call = c
    \/ got[c] # 0

Answers ==
    /\ \A i \in DOMAIN toClient : AnswerAt(i) => Answered(toClient[i].call)
    /\ \A c \in Calls : Seen(c) => Answered(c)

\* Edit e was requested for call c before the call's answer.
Early(e, c) == e \in DOMAIN pushed /\ pushed[e].early /\ pushed[e].call = c

\* No early edit comes behind the answer.
InOrder ==
    /\ \A i, j \in DOMAIN toClient :
           AnswerAt(i) /\ EditAt(j) /\ i < j => ~Early(toClient[j].edit, toClient[i].call)
    /\ \A c \in Calls : Seen(c) =>
           /\ \A j \in DOMAIN toClient : EditAt(j) => ~Early(toClient[j].edit, c)
           /\ loop = "capture" => ~Early(msg.edit, c)

\* Edit e was requested for call c, and nothing has been decided about it.
Undecided(e, c) ==
    /\ e \in DOMAIN pushed /\ pushed[e].call = c /\ pushed[e].answered = "none"
    /\ e \notin captured[c]

\* An edit is in one place, and has a reply only once it is decided.
OneEdit ==
    /\ captured \in [Calls -> SUBSET DOMAIN pushed]
    /\ \A e \in DOMAIN pushed : Script[pushed[e].call] = "command" /\ Called(pushed[e].call)
    /\ \A j \in DOMAIN toClient : EditAt(j) => Undecided(toClient[j].edit, toClient[j].call)
    /\ \A i, j \in DOMAIN toClient :
           EditAt(i) /\ EditAt(j) /\ toClient[i].edit = toClient[j].edit => i = j
    /\ loop = "capture" => Undecided(msg.edit, msg.call)
    /\ loop = "reply" =>
           /\ msg.edit \in DOMAIN pushed /\ pushed[msg.edit].call = msg.call
           /\ pushed[msg.edit].answered = "none"
           /\ msg.kind = "applied" <=> msg.edit \in captured[msg.call]
    /\ loop \in {"capture", "reply"} =>
           \A j \in DOMAIN toClient : EditAt(j) => toClient[j].edit # msg.edit

\* What the server is told is what the sinks hold.
ToldTheTruth ==
    \A e \in DOMAIN pushed :
        pushed[e].answered # "none" =>
            (pushed[e].answered = "applied" <=> e \in captured[pushed[e].call])

InFlight(e) ==
    \/ \E j \in DOMAIN toClient : EditAt(j) /\ toClient[j].edit = e
    \/ loop = "capture" /\ msg.edit = e

\* An early edit is on its way, in the sink, or its command has failed; a
\* command that succeeded returns it.
NoneLost ==
    \A c \in Calls : \A e \in DOMAIN pushed : Early(e, c) =>
        /\ e \in captured[c] \/ InFlight(e) \/ result[c] = "err"
        /\ result[c] = "ok" => e \in edits[c]

(* The places of a queue, after a send and after a receipt. *)
LEMMA SentAt ==
    ASSUME NEW S, NEW q \in Seq(S), NEW m
    PROVE  /\ Len(q) + 1 \notin DOMAIN q
           /\ \A i \in DOMAIN q : i \in DOMAIN Append(q, m) /\ Append(q, m)[i] = q[i] /\ i < Len(q) + 1
           /\ \A i \in DOMAIN Append(q, m) :
                  i \in DOMAIN q \/ (i = Len(q) + 1 /\ Append(q, m)[i] = m)
<1>1. Len(q) \in Nat /\ DOMAIN q = 1 .. Len(q)
    OBVIOUS
<1>2. DOMAIN Append(q, m) = 1 .. Len(q) + 1 /\ Append(q, m)[Len(q) + 1] = m
    OBVIOUS
<1>3. \A i \in 1 .. Len(q) : Append(q, m)[i] = q[i]
    OBVIOUS
<1>4. ASSUME NEW i \in DOMAIN q
      PROVE  i \in DOMAIN Append(q, m) /\ Append(q, m)[i] = q[i] /\ i < Len(q) + 1
    <2>1. i \in 1 .. Len(q)
        BY <1>1
    <2> QED
        BY <2>1, <1>1, <1>2, <1>3
<1>5. ASSUME NEW i \in DOMAIN Append(q, m)
      PROVE  i \in DOMAIN q \/ (i = Len(q) + 1 /\ Append(q, m)[i] = m)
    <2>1. i \in 1 .. Len(q) + 1
        BY <1>2
    <2> QED
        BY <2>1, <1>1, <1>2
<1> QED
    BY <1>1, <1>4, <1>5

\* Taking the head moves every other place down by one.
LEMMA TakenAt ==
    ASSUME NEW S, NEW q \in Seq(S), q # <<>>
    PROVE  /\ 1 \in DOMAIN q /\ Head(q) = q[1]
           /\ \A i \in DOMAIN Tail(q) : i + 1 \in DOMAIN q /\ Tail(q)[i] = q[i + 1] /\ 1 < i + 1 /\ i \in Int
<1>1. Len(q) \in Nat /\ DOMAIN q = 1 .. Len(q) /\ Len(q) > 0 /\ Head(q) = q[1]
    OBVIOUS
<1>2. DOMAIN Tail(q) = 1 .. Len(q) - 1 /\ \A i \in 1 .. Len(q) - 1 : Tail(q)[i] = q[i + 1]
    BY <1>1
<1>3. \A i \in 1 .. Len(q) - 1 : i + 1 \in 1 .. Len(q) /\ 1 < i + 1 /\ i \in Int
    BY <1>1
<1>4. 1 \in DOMAIN q
    BY <1>1
<1>5. ASSUME NEW i \in DOMAIN Tail(q)
      PROVE  i + 1 \in DOMAIN q /\ Tail(q)[i] = q[i + 1] /\ 1 < i + 1 /\ i \in Int
    <2>1. i \in 1 .. Len(q) - 1
        BY <1>2
    <2> QED
        BY <2>1, <1>1, <1>2, <1>3
<1> QED
    BY <1>1, <1>4, <1>5

Base == Control /\ Numbering /\ Traffic

\* The three together are inductive.
LEMMA StepBase == Base /\ [Next]_vars => Base'
BY StepControl, StepNumbering, StepPipes, StepPushes, StepReader, StepChannels DEF Base,
   Traffic

\* Every step keeps Results.
LEMMA StepResults == Base /\ Results /\ [Next]_vars => Results'
<1> SUFFICES ASSUME Base, Results, [Next]_vars PROVE Results'
    OBVIOUS
<1>a. Control /\ got \in [Calls -> Calls \cup {0}]
    BY DEF Base, Traffic, Channels
<1> USE <1>a, ScriptGoesOn DEF Control, Results, Kind, Places, Calls
<1>1. CASE Begin
    BY <1>1 DEF Begin, mainVars, shared, loopVars, serverVars, pipes, Kinds
<1>2. CASE Arm
    BY <1>2 DEF Arm, mainVars, shared, loopVars, serverVars, pipes, Kinds
<1>3. CASE Register
    BY <1>3 DEF Register, mainVars, shared, loopVars, serverVars, pipes, Kinds
<1>4. CASE WriteCall
    BY <1>4 DEF WriteCall, Finish, mainVars, shared, loopVars, serverVars, pipes, Kinds
<1>5. CASE WriteFails
    BY <1>5 DEF WriteFails, Finish, mainVars, shared, loopVars, serverVars, pipes, Kinds
<1>6. CASE TakeBuffered
    BY <1>6 DEF TakeBuffered, mainVars, shared, loopVars, serverVars, pipes, Kinds
<1>7. CASE TakeDone
    BY <1>7 DEF TakeDone, mainVars, shared, loopVars, serverVars, pipes, Kinds
<1>8. CASE Park
    BY <1>8 DEF Park, mainVars, shared, loopVars, serverVars, pipes, Kinds
<1>9. CASE Timeout
    BY <1>9 DEF Timeout, mainVars, shared, loopVars, serverVars, pipes, Kinds
<1>10. CASE GiveUp
    BY <1>10 DEF GiveUp, Finish, mainVars, shared, loopVars, serverVars, pipes, Kinds
<1>11. CASE Received
    <2>1. main = "received" /\ got' = got /\ edits' = edits
        BY <1>11 DEF Received
    <2>2. \/ main' = "disarm" /\ result' = [result EXCEPT ![step] = "err"] /\ step' = step
          \/ Kind # "command" /\ \E how \in {"ok", "err"} : Finish(how)
          \/ main' \in {"collect", "exit"} /\ got[step] # 0 /\ step' = step /\ result' = result
        BY <1>11 DEF Received, Kinds
    <2> QED
        BY <2>1, <2>2 DEF Finish
<1>12. CASE Collect
    BY <1>12 DEF Collect, mainVars, shared, loopVars, serverVars, pipes, Kinds
<1>13. CASE Disarm
    BY <1>13 DEF Disarm, Finish, mainVars, shared, loopVars, serverVars, pipes, Kinds
<1>14. CASE Exit
    BY <1>14 DEF Exit, Finish, mainVars, shared, loopVars, serverVars, pipes, Kinds
<1>15. CASE Wait
    BY <1>15 DEF Wait, Finish, mainVars, shared, loopVars, serverVars, pipes, Kinds
<1>16. CASE ReadMessage
    BY <1>16 DEF ReadMessage, mainVars, shared, loopVars, serverVars, pipes, Kinds
<1>17. CASE ReadFails
    BY <1>17 DEF ReadFails, mainVars, shared, loopVars, serverVars, pipes, Kinds
<1>18. CASE Lookup
    BY <1>18 DEF Lookup, mainVars, shared, loopVars, serverVars, pipes, Kinds
<1>19. CASE Send
    BY <1>19 DEF Send, SendTo, mainVars, shared, loopVars, serverVars, pipes, Kinds
<1>20. CASE Capture
    BY <1>20 DEF Capture, mainVars, shared, loopVars, serverVars, pipes, Kinds
<1>21. CASE Reply
    BY <1>21 DEF Reply, mainVars, shared, loopVars, serverVars, pipes, Kinds
<1>22. CASE DrainOne
    BY <1>22 DEF DrainOne, SendTo, mainVars, shared, loopVars, serverVars, pipes, Kinds
<1>23. CASE DrainEnd
    BY <1>23 DEF DrainEnd, mainVars, shared, loopVars, serverVars, pipes, Kinds
<1>24. CASE Cancel
    BY <1>24 DEF Cancel, mainVars, shared, loopVars, serverVars, pipes, Kinds
<1>25. CASE ServerRead
    BY <1>25 DEF ServerRead, mainVars, shared, loopVars, serverVars, pipes, Kinds
<1>26. CASE ServerAnswer
    BY <1>26 DEF ServerAnswer, mainVars, shared, loopVars, serverVars, pipes, Kinds
<1>27. CASE ServerPush
    BY <1>27 DEF ServerPush, mainVars, shared, loopVars, serverVars, pipes, Kinds
<1>28. CASE ServerGarbles
    BY <1>28 DEF ServerGarbles, mainVars, shared, loopVars, serverVars, pipes, Kinds
<1>29. CASE ServerExit
    BY <1>29 DEF ServerExit, mainVars, shared, loopVars, serverVars, pipes, Kinds
<1>30. CASE UNCHANGED vars
    BY <1>30 DEF vars, Kinds
<1> QED
    BY <1>1, <1>2, <1>3, <1>4, <1>5, <1>6, <1>7, <1>8, <1>9, <1>10, <1>11, <1>12, <1>13,
       <1>14, <1>15, <1>16, <1>17, <1>18, <1>19, <1>20, <1>21, <1>22, <1>23, <1>24,
       <1>25, <1>26, <1>27, <1>28, <1>29, <1>30 DEF Next, MainStep, LoopStep, ServerStep

\* Every step keeps Armed.
LEMMA StepArmed == Base /\ Results /\ Armed /\ [Next]_vars => Armed'
<1> SUFFICES ASSUME Base, Armed, [Next]_vars PROVE Armed'
    OBVIOUS
<1>a. Control
    BY DEF Base
<1> USE <1>a, ScriptGoesOn DEF Control, Armed, Kind, Places, Calls
<1>1. CASE Begin
    BY <1>1 DEF Begin, mainVars, shared, loopVars, serverVars, pipes, Kinds
<1>2. CASE Arm
    BY <1>2 DEF Arm, mainVars, shared, loopVars, serverVars, pipes, Kinds
<1>3. CASE Register
    BY <1>3 DEF Register, mainVars, shared, loopVars, serverVars, pipes, Kinds
<1>4. CASE WriteCall
    BY <1>4 DEF WriteCall, Finish, mainVars, shared, loopVars, serverVars, pipes, Kinds
<1>5. CASE WriteFails
    BY <1>5 DEF WriteFails, Finish, mainVars, shared, loopVars, serverVars, pipes, Kinds
<1>6. CASE TakeBuffered
    BY <1>6 DEF TakeBuffered, mainVars, shared, loopVars, serverVars, pipes, Kinds
<1>7. CASE TakeDone
    BY <1>7 DEF TakeDone, mainVars, shared, loopVars, serverVars, pipes, Kinds
<1>8. CASE Park
    BY <1>8 DEF Park, mainVars, shared, loopVars, serverVars, pipes, Kinds
<1>9. CASE Timeout
    BY <1>9 DEF Timeout, mainVars, shared, loopVars, serverVars, pipes, Kinds
<1>10. CASE GiveUp
    BY <1>10 DEF GiveUp, Finish, mainVars, shared, loopVars, serverVars, pipes, Kinds
<1>11. CASE Received
    BY <1>11 DEF Received, Finish, mainVars, shared, loopVars, serverVars, pipes, Kinds
<1>12. CASE Collect
    BY <1>12 DEF Collect, mainVars, shared, loopVars, serverVars, pipes, Kinds
<1>13. CASE Disarm
    BY <1>13 DEF Disarm, Finish, mainVars, shared, loopVars, serverVars, pipes, Kinds
<1>14. CASE Exit
    BY <1>14 DEF Exit, Finish, mainVars, shared, loopVars, serverVars, pipes, Kinds
<1>15. CASE Wait
    BY <1>15 DEF Wait, Finish, mainVars, shared, loopVars, serverVars, pipes, Kinds
<1>16. CASE ReadMessage
    BY <1>16 DEF ReadMessage, mainVars, shared, loopVars, serverVars, pipes, Kinds
<1>17. CASE ReadFails
    BY <1>17 DEF ReadFails, mainVars, shared, loopVars, serverVars, pipes, Kinds
<1>18. CASE Lookup
    BY <1>18 DEF Lookup, mainVars, shared, loopVars, serverVars, pipes, Kinds
<1>19. CASE Send
    BY <1>19 DEF Send, SendTo, mainVars, shared, loopVars, serverVars, pipes, Kinds
<1>20. CASE Capture
    BY <1>20 DEF Capture, mainVars, shared, loopVars, serverVars, pipes, Kinds
<1>21. CASE Reply
    BY <1>21 DEF Reply, mainVars, shared, loopVars, serverVars, pipes, Kinds
<1>22. CASE DrainOne
    BY <1>22 DEF DrainOne, SendTo, mainVars, shared, loopVars, serverVars, pipes, Kinds
<1>23. CASE DrainEnd
    BY <1>23 DEF DrainEnd, mainVars, shared, loopVars, serverVars, pipes, Kinds
<1>24. CASE Cancel
    BY <1>24 DEF Cancel, mainVars, shared, loopVars, serverVars, pipes, Kinds
<1>25. CASE ServerRead
    BY <1>25 DEF ServerRead, mainVars, shared, loopVars, serverVars, pipes, Kinds
<1>26. CASE ServerAnswer
    BY <1>26 DEF ServerAnswer, mainVars, shared, loopVars, serverVars, pipes, Kinds
<1>27. CASE ServerPush
    BY <1>27 DEF ServerPush, mainVars, shared, loopVars, serverVars, pipes, Kinds
<1>28. CASE ServerGarbles
    BY <1>28 DEF ServerGarbles, mainVars, shared, loopVars, serverVars, pipes, Kinds
<1>29. CASE ServerExit
    BY <1>29 DEF ServerExit, mainVars, shared, loopVars, serverVars, pipes, Kinds
<1>30. CASE UNCHANGED vars
    BY <1>30 DEF vars, Kinds
<1> QED
    BY <1>1, <1>2, <1>3, <1>4, <1>5, <1>6, <1>7, <1>8, <1>9, <1>10, <1>11, <1>12, <1>13,
       <1>14, <1>15, <1>16, <1>17, <1>18, <1>19, <1>20, <1>21, <1>22, <1>23, <1>24,
       <1>25, <1>26, <1>27, <1>28, <1>29, <1>30 DEF Next, MainStep, LoopStep, ServerStep

\* A request that has been written stays written.
LEMMA CalledLasts ==
    ASSUME Base, Results, [Next]_vars, NEW c \in Calls, Called(c)
    PROVE  Called(c)'
<1>a. Control
    BY DEF Base
<1> USE <1>a, ScriptGoesOn DEF Control, Results, Called, Kind, Places, Calls
<1>1. CASE Begin
    BY <1>1 DEF Begin, mainVars, shared, loopVars, serverVars, pipes, Kinds
<1>2. CASE Arm
    BY <1>2 DEF Arm, mainVars, shared, loopVars, serverVars, pipes, Kinds
<1>3. CASE Register
    BY <1>3 DEF Register, mainVars, shared, loopVars, serverVars, pipes, Kinds
<1>4. CASE WriteCall
    BY <1>4 DEF WriteCall, Finish, mainVars, shared, loopVars, serverVars, pipes, Kinds
<1>5. CASE WriteFails
    BY <1>5 DEF WriteFails, Finish, mainVars, shared, loopVars, serverVars, pipes, Kinds
<1>6. CASE TakeBuffered
    BY <1>6 DEF TakeBuffered, mainVars, shared, loopVars, serverVars, pipes, Kinds
<1>7. CASE TakeDone
    BY <1>7 DEF TakeDone, mainVars, shared, loopVars, serverVars, pipes, Kinds
<1>8. CASE Park
    BY <1>8 DEF Park, mainVars, shared, loopVars, serverVars, pipes, Kinds
<1>9. CASE Timeout
    BY <1>9 DEF Timeout, mainVars, shared, loopVars, serverVars, pipes, Kinds
<1>10. CASE GiveUp
    BY <1>10 DEF GiveUp, Finish, mainVars, shared, loopVars, serverVars, pipes, Kinds
<1>11. CASE Received
    <2>1. main = "received" /\ got' = got /\ edits' = edits
        BY <1>11 DEF Received
    <2>2. \/ main' = "disarm" /\ result' = [result EXCEPT ![step] = "err"] /\ step' = step
          \/ Kind # "command" /\ \E how \in {"ok", "err"} : Finish(how)
          \/ main' \in {"collect", "exit"} /\ got[step] # 0 /\ step' = step /\ result' = result
        BY <1>11 DEF Received, Kinds
    <2> QED
        BY <2>1, <2>2 DEF Finish
<1>12. CASE Collect
    BY <1>12 DEF Collect, mainVars, shared, loopVars, serverVars, pipes, Kinds
<1>13. CASE Disarm
    BY <1>13 DEF Disarm, Finish, mainVars, shared, loopVars, serverVars, pipes, Kinds
<1>14. CASE Exit
    BY <1>14 DEF Exit, Finish, mainVars, shared, loopVars, serverVars, pipes, Kinds
<1>15. CASE Wait
    BY <1>15 DEF Wait, Finish, mainVars, shared, loopVars, serverVars, pipes, Kinds
<1>16. CASE ReadMessage
    BY <1>16 DEF ReadMessage, mainVars, shared, loopVars, serverVars, pipes, Kinds
<1>17. CASE ReadFails
    BY <1>17 DEF ReadFails, mainVars, shared, loopVars, serverVars, pipes, Kinds
<1>18. CASE Lookup
    BY <1>18 DEF Lookup, mainVars, shared, loopVars, serverVars, pipes, Kinds
<1>19. CASE Send
    BY <1>19 DEF Send, SendTo, mainVars, shared, loopVars, serverVars, pipes, Kinds
<1>20. CASE Capture
    BY <1>20 DEF Capture, mainVars, shared, loopVars, serverVars, pipes, Kinds
<1>21. CASE Reply
    BY <1>21 DEF Reply, mainVars, shared, loopVars, serverVars, pipes, Kinds
<1>22. CASE DrainOne
    BY <1>22 DEF DrainOne, SendTo, mainVars, shared, loopVars, serverVars, pipes, Kinds
<1>23. CASE DrainEnd
    BY <1>23 DEF DrainEnd, mainVars, shared, loopVars, serverVars, pipes, Kinds
<1>24. CASE Cancel
    BY <1>24 DEF Cancel, mainVars, shared, loopVars, serverVars, pipes, Kinds
<1>25. CASE ServerRead
    BY <1>25 DEF ServerRead, mainVars, shared, loopVars, serverVars, pipes, Kinds
<1>26. CASE ServerAnswer
    BY <1>26 DEF ServerAnswer, mainVars, shared, loopVars, serverVars, pipes, Kinds
<1>27. CASE ServerPush
    BY <1>27 DEF ServerPush, mainVars, shared, loopVars, serverVars, pipes, Kinds
<1>28. CASE ServerGarbles
    BY <1>28 DEF ServerGarbles, mainVars, shared, loopVars, serverVars, pipes, Kinds
<1>29. CASE ServerExit
    BY <1>29 DEF ServerExit, mainVars, shared, loopVars, serverVars, pipes, Kinds
<1>30. CASE UNCHANGED vars
    BY <1>30 DEF vars, Kinds
<1> QED
    BY <1>1, <1>2, <1>3, <1>4, <1>5, <1>6, <1>7, <1>8, <1>9, <1>10, <1>11, <1>12, <1>13,
       <1>14, <1>15, <1>16, <1>17, <1>18, <1>19, <1>20, <1>21, <1>22, <1>23, <1>24,
       <1>25, <1>26, <1>27, <1>28, <1>29, <1>30 DEF Next, MainStep, LoopStep, ServerStep

\* A result is final once it is there, and so is what a command returned.
LEMMA ResultsLast ==
    ASSUME Base, Results, [Next]_vars, NEW c \in Calls, result[c] # "none"
    PROVE  result'[c] = result[c] /\ edits'[c] = edits[c]
<1>a. Control
    BY DEF Base
<1> USE <1>a, ScriptGoesOn DEF Control, Results, Kind, Places, Calls
<1>1. CASE Begin
    BY <1>1 DEF Begin, mainVars, shared, loopVars, serverVars, pipes, Kinds
<1>2. CASE Arm
    BY <1>2 DEF Arm, mainVars, shared, loopVars, serverVars, pipes, Kinds
<1>3. CASE Register
    BY <1>3 DEF Register, mainVars, shared, loopVars, serverVars, pipes, Kinds
<1>4. CASE WriteCall
    BY <1>4 DEF WriteCall, Finish, mainVars, shared, loopVars, serverVars, pipes, Kinds
<1>5. CASE WriteFails
    BY <1>5 DEF WriteFails, Finish, mainVars, shared, loopVars, serverVars, pipes, Kinds
<1>6. CASE TakeBuffered
    BY <1>6 DEF TakeBuffered, mainVars, shared, loopVars, serverVars, pipes, Kinds
<1>7. CASE TakeDone
    BY <1>7 DEF TakeDone, mainVars, shared, loopVars, serverVars, pipes, Kinds
<1>8. CASE Park
    BY <1>8 DEF Park, mainVars, shared, loopVars, serverVars, pipes, Kinds
<1>9. CASE Timeout
    BY <1>9 DEF Timeout, mainVars, shared, loopVars, serverVars, pipes, Kinds
<1>10. CASE GiveUp
    BY <1>10 DEF GiveUp, Finish, mainVars, shared, loopVars, serverVars, pipes, Kinds
<1>11. CASE Received
    BY <1>11 DEF Received, Finish, mainVars, shared, loopVars, serverVars, pipes, Kinds
<1>12. CASE Collect
    BY <1>12 DEF Collect, mainVars, shared, loopVars, serverVars, pipes, Kinds
<1>13. CASE Disarm
    BY <1>13 DEF Disarm, Finish, mainVars, shared, loopVars, serverVars, pipes, Kinds
<1>14. CASE Exit
    BY <1>14 DEF Exit, Finish, mainVars, shared, loopVars, serverVars, pipes, Kinds
<1>15. CASE Wait
    BY <1>15 DEF Wait, Finish, mainVars, shared, loopVars, serverVars, pipes, Kinds
<1>16. CASE ReadMessage
    BY <1>16 DEF ReadMessage, mainVars, shared, loopVars, serverVars, pipes, Kinds
<1>17. CASE ReadFails
    BY <1>17 DEF ReadFails, mainVars, shared, loopVars, serverVars, pipes, Kinds
<1>18. CASE Lookup
    BY <1>18 DEF Lookup, mainVars, shared, loopVars, serverVars, pipes, Kinds
<1>19. CASE Send
    BY <1>19 DEF Send, SendTo, mainVars, shared, loopVars, serverVars, pipes, Kinds
<1>20. CASE Capture
    BY <1>20 DEF Capture, mainVars, shared, loopVars, serverVars, pipes, Kinds
<1>21. CASE Reply
    BY <1>21 DEF Reply, mainVars, shared, loopVars, serverVars, pipes, Kinds
<1>22. CASE DrainOne
    BY <1>22 DEF DrainOne, SendTo, mainVars, shared, loopVars, serverVars, pipes, Kinds
<1>23. CASE DrainEnd
    BY <1>23 DEF DrainEnd, mainVars, shared, loopVars, serverVars, pipes, Kinds
<1>24. CASE Cancel
    BY <1>24 DEF Cancel, mainVars, shared, loopVars, serverVars, pipes, Kinds
<1>25. CASE ServerRead
    BY <1>25 DEF ServerRead, mainVars, shared, loopVars, serverVars, pipes, Kinds
<1>26. CASE ServerAnswer
    BY <1>26 DEF ServerAnswer, mainVars, shared, loopVars, serverVars, pipes, Kinds
<1>27. CASE ServerPush
    BY <1>27 DEF ServerPush, mainVars, shared, loopVars, serverVars, pipes, Kinds
<1>28. CASE ServerGarbles
    BY <1>28 DEF ServerGarbles, mainVars, shared, loopVars, serverVars, pipes, Kinds
<1>29. CASE ServerExit
    BY <1>29 DEF ServerExit, mainVars, shared, loopVars, serverVars, pipes, Kinds
<1>30. CASE UNCHANGED vars
    BY <1>30 DEF vars, Kinds
<1> QED
    BY <1>1, <1>2, <1>3, <1>4, <1>5, <1>6, <1>7, <1>8, <1>9, <1>10, <1>11, <1>12, <1>13,
       <1>14, <1>15, <1>16, <1>17, <1>18, <1>19, <1>20, <1>21, <1>22, <1>23, <1>24,
       <1>25, <1>26, <1>27, <1>28, <1>29, <1>30 DEF Next, MainStep, LoopStep, ServerStep

\* A command succeeds when ExecuteCommand collects, and in no other step.
LEMMA SucceedsByCollecting ==
    ASSUME Base, Results, [Next]_vars, NEW c \in Calls, Script[c] = "command",
           result[c] # "ok", result'[c] = "ok"
    PROVE  Collect /\ c = step
<1>a. Control
    BY DEF Base
<1> USE <1>a, ScriptGoesOn DEF Control, Results, Kind, Places, Calls
<1>1. CASE Begin
    BY <1>1 DEF Begin, mainVars, shared, loopVars, serverVars, pipes, Kinds
<1>2. CASE Arm
    BY <1>2 DEF Arm, mainVars, shared, loopVars, serverVars, pipes, Kinds
<1>3. CASE Register
    BY <1>3 DEF Register, mainVars, shared, loopVars, serverVars, pipes, Kinds
<1>4. CASE WriteCall
    BY <1>4 DEF WriteCall, Finish, mainVars, shared, loopVars, serverVars, pipes, Kinds
<1>5. CASE WriteFails
    BY <1>5 DEF WriteFails, Finish, mainVars, shared, loopVars, serverVars, pipes, Kinds
<1>6. CASE TakeBuffered
    BY <1>6 DEF TakeBuffered, mainVars, shared, loopVars, serverVars, pipes, Kinds
<1>7. CASE TakeDone
    BY <1>7 DEF TakeDone, mainVars, shared, loopVars, serverVars, pipes, Kinds
<1>8. CASE Park
    BY <1>8 DEF Park, mainVars, shared, loopVars, serverVars, pipes, Kinds
<1>9. CASE Timeout
    BY <1>9 DEF Timeout, mainVars, shared, loopVars, serverVars, pipes, Kinds
<1>10. CASE GiveUp
    BY <1>10 DEF GiveUp, Finish, mainVars, shared, loopVars, serverVars, pipes, Kinds
<1>11. CASE Received
    BY <1>11 DEF Received, Finish, mainVars, shared, loopVars, serverVars, pipes, Kinds
<1>12. CASE Collect
    BY <1>12 DEF Collect
<1>13. CASE Disarm
    BY <1>13 DEF Disarm, Finish, mainVars, shared, loopVars, serverVars, pipes, Kinds
<1>14. CASE Exit
    BY <1>14 DEF Exit, Finish, mainVars, shared, loopVars, serverVars, pipes, Kinds
<1>15. CASE Wait
    BY <1>15 DEF Wait, Finish, mainVars, shared, loopVars, serverVars, pipes, Kinds
<1>16. CASE ReadMessage
    BY <1>16 DEF ReadMessage, mainVars, shared, loopVars, serverVars, pipes, Kinds
<1>17. CASE ReadFails
    BY <1>17 DEF ReadFails, mainVars, shared, loopVars, serverVars, pipes, Kinds
<1>18. CASE Lookup
    BY <1>18 DEF Lookup, mainVars, shared, loopVars, serverVars, pipes, Kinds
<1>19. CASE Send
    BY <1>19 DEF Send, SendTo, mainVars, shared, loopVars, serverVars, pipes, Kinds
<1>20. CASE Capture
    BY <1>20 DEF Capture, mainVars, shared, loopVars, serverVars, pipes, Kinds
<1>21. CASE Reply
    BY <1>21 DEF Reply, mainVars, shared, loopVars, serverVars, pipes, Kinds
<1>22. CASE DrainOne
    BY <1>22 DEF DrainOne, SendTo, mainVars, shared, loopVars, serverVars, pipes, Kinds
<1>23. CASE DrainEnd
    BY <1>23 DEF DrainEnd, mainVars, shared, loopVars, serverVars, pipes, Kinds
<1>24. CASE Cancel
    BY <1>24 DEF Cancel, mainVars, shared, loopVars, serverVars, pipes, Kinds
<1>25. CASE ServerRead
    BY <1>25 DEF ServerRead, mainVars, shared, loopVars, serverVars, pipes, Kinds
<1>26. CASE ServerAnswer
    BY <1>26 DEF ServerAnswer, mainVars, shared, loopVars, serverVars, pipes, Kinds
<1>27. CASE ServerPush
    BY <1>27 DEF ServerPush, mainVars, shared, loopVars, serverVars, pipes, Kinds
<1>28. CASE ServerGarbles
    BY <1>28 DEF ServerGarbles, mainVars, shared, loopVars, serverVars, pipes, Kinds
<1>29. CASE ServerExit
    BY <1>29 DEF ServerExit, mainVars, shared, loopVars, serverVars, pipes, Kinds
<1>30. CASE UNCHANGED vars
    BY <1>30 DEF vars, Kinds
<1> QED
    BY <1>1, <1>2, <1>3, <1>4, <1>5, <1>6, <1>7, <1>8, <1>9, <1>10, <1>11, <1>12, <1>13,
       <1>14, <1>15, <1>16, <1>17, <1>18, <1>19, <1>20, <1>21, <1>22, <1>23, <1>24,
       <1>25, <1>26, <1>27, <1>28, <1>29, <1>30 DEF Next, MainStep, LoopStep, ServerStep

(* ------------------------- one request per call -------------------------- *)

\* Whatever names a call names one of the script.
LEMMA RequestsHaveCalls ==
    ASSUME Base
    PROVE  /\ \A i \in DOMAIN toServer : RequestAt(i) => toServer[i].call \in Calls
           /\ \A r \in work \cup old : r.call \in Calls
           /\ \A i \in DOMAIN toClient : AnswerAt(i) => toClient[i].call \in Calls
           /\ \A i \in DOMAIN toClient : EditAt(i) =>
                  toClient[i].call \in Calls /\ toClient[i] \in EditRequests
<1>1. Pipes
    BY DEF Base, Traffic
<1>2. \A i \in DOMAIN toServer : toServer[i] \in {Nothing, Eof} \cup OwnRequests
    BY <1>1 DEF Pipes
<1>3. \A i \in DOMAIN toClient : toClient[i] \in {Malformed} \cup OwnResponses \cup EditRequests
    BY <1>1 DEF Pipes
<1>4. \A i \in DOMAIN toServer : RequestAt(i) => toServer[i] \in OwnRequests
    BY <1>2 DEF RequestAt, Nothing, Eof
<1>5. \A i \in DOMAIN toClient : AnswerAt(i) => toClient[i] \in OwnResponses
    BY <1>3 DEF AnswerAt, Malformed, EditRequests
<1>6. \A i \in DOMAIN toClient : EditAt(i) => toClient[i] \in EditRequests
    BY <1>3 DEF EditAt, Malformed, OwnResponses
<1>7. work \cup old \subseteq OwnRequests
    BY <1>1 DEF Pipes
<1>8. /\ \A r \in OwnRequests : r.call \in Calls
      /\ \A r \in OwnResponses : r.call \in Calls
      /\ \A r \in EditRequests : r.call \in Calls
    BY DEF OwnRequests, OwnResponses, EditRequests
<1> QED
    BY <1>4, <1>5, <1>6, <1>7, <1>8

\* Writing to the server: nothing new, or the first request of its call.
LEMMA RequestSent ==
    ASSUME Base, Results, OneRequest, [Next]_vars, NEW m, toServer' = Append(toServer, m),
           work' = work, old' = old,
           m.kind = "request" => m.call \in Calls /\ ~Called(m.call) /\ Called(m.call)'
    PROVE  OneRequest'
<1>1. \A c \in Calls : Called(c) => Called(c)'
    BY CalledLasts
<1>2. toServer \in Seq({Nothing, Eof} \cup OwnRequests)
    BY DEF Base, Traffic, Pipes
<1>3. /\ \A i \in DOMAIN toServer : RequestAt(i) => toServer[i].call \in Calls
      /\ \A r \in work \cup old : r.call \in Calls
    BY RequestsHaveCalls
<1>4. \A i \in DOMAIN toServer' :
          \/ i \in DOMAIN toServer /\ toServer'[i] = toServer[i]
          \/ i = Len(toServer) + 1 /\ toServer'[i] = m
    <2>1. \A i \in DOMAIN Append(toServer, m) :
              i \in DOMAIN toServer \/ (i = Len(toServer) + 1 /\ Append(toServer, m)[i] = m)
        BY <1>2, SentAt
    <2>2. \A i \in DOMAIN toServer : Append(toServer, m)[i] = toServer[i]
        BY <1>2, SentAt
    <2> QED
        BY <2>1, <2>2
<1>5. \A i \in DOMAIN toServer' : RequestAt(i)' =>
          \/ RequestAt(i) /\ toServer'[i] = toServer[i]
          \/ i = Len(toServer) + 1 /\ toServer'[i] = m /\ m.kind = "request"
    BY <1>4 DEF RequestAt
<1> HIDE DEF RequestAt, Called
<1>6. \A i, j \in DOMAIN toServer' :
          RequestAt(i)' /\ RequestAt(j)' /\ toServer'[i].call = toServer'[j].call => i = j
    <2>1. \A i, j : RequestAt(i) /\ RequestAt(j) /\ toServer[i].call = toServer[j].call => i = j
        BY DEF OneRequest, RequestAt
    <2>2. \A i : RequestAt(i) => Called(toServer[i].call)
        BY DEF OneRequest, RequestAt
    <2> QED
        BY <2>1, <2>2, <1>5
<1>7. \A i \in DOMAIN toServer' : RequestAt(i)' =>
          Called(toServer[i].call)' /\ \A r \in work \cup old : r.call # toServer'[i].call
    <2>1. \A i : RequestAt(i) => /\ Called(toServer[i].call) /\ toServer[i].call \in Calls
                                 /\ \A r \in work \cup old : r.call # toServer[i].call
        BY <1>3 DEF OneRequest, RequestAt
    <2>2. \A r \in work \cup old : Called(r.call)
        BY DEF OneRequest
    <2> SUFFICES ASSUME NEW i \in DOMAIN toServer', RequestAt(i)', NEW c, c = toServer'[i].call
                 PROVE  Called(c)' /\ \A r \in work \cup old : r.call # c
        OBVIOUS
    <2>3. CASE RequestAt(i) /\ toServer'[i] = toServer[i]
        BY <2>1, <2>3, <1>1
    <2>4. CASE toServer'[i] = m /\ m.kind = "request"
        BY <2>2, <2>4
    <2> QED
        BY <2>3, <2>4, <1>5
<1>8. \A r \in work' \cup old' : Called(r.call)'
    BY <1>1, <1>3 DEF OneRequest
<1>9. \A r, q \in work' : r.call = q.call => r = q
    BY DEF OneRequest
<1>10. \A r \in work', q \in old' : r.call # q.call
    BY DEF OneRequest
<1> QED
    BY <1>6, <1>7, <1>8, <1>9, <1>10 DEF OneRequest

\* The request of a call is in the pipe, unanswered or answered, one of the three.
LEMMA StepOneRequest == Base /\ Results /\ OneRequest /\ [Next]_vars => OneRequest'
<1> SUFFICES ASSUME Base, Results, OneRequest, [Next]_vars PROVE OneRequest'
    OBVIOUS
<1>a. \A c \in Calls : Called(c) => Called(c)'
    BY CalledLasts
<1>c. /\ \A i \in DOMAIN toServer : RequestAt(i) => toServer[i].call \in Calls
      /\ \A r \in work \cup old : r.call \in Calls
    BY RequestsHaveCalls
<1>b. /\ UNCHANGED <<toServer, work, old>> => OneRequest'
      /\ \A i \in DOMAIN toServer : RequestAt(i) => toServer[i].call \in Calls
      /\ \A r \in work \cup old : r.call \in Calls
    BY <1>a, <1>c DEF OneRequest, RequestAt
<1>1. CASE WriteCall
    <2>1. CASE Kind = "notify"
        BY <1>1, <2>1, RequestSent DEF WriteCall, serverVars, Nothing
    <2>2. CASE Kind # "notify"
        <3>1. Request(id, step).call = step /\ step \in Calls /\ ~Called(step) /\ Called(step)'
            BY <1>1, <2>2 DEF WriteCall, Request, Called, Base, Control, Calls
        <3> QED
            BY <1>1, <2>2, <3>1, RequestSent DEF WriteCall, serverVars
    <2> QED
        BY <2>1, <2>2
<1>2. CASE Exit
    <2>1. work' = work /\ old' = old /\ (toServer' = Append(toServer, Eof) \/ toServer' = toServer)
        BY <1>2 DEF Exit, serverVars
    <2>2. Eof.kind # "request"
        BY DEF Eof
    <2>3. CASE toServer' = Append(toServer, Eof)
        BY <2>1, <2>2, <2>3, RequestSent
    <2> QED
        BY <2>1, <2>3, <1>b
<1>3. CASE Reply
    <2>1. work' = work /\ old' = old /\ (toServer' = Append(toServer, Nothing) \/ toServer' = toServer)
        BY <1>3 DEF Reply, serverVars
    <2>2. Nothing.kind # "request"
        BY DEF Nothing
    <2>3. CASE toServer' = Append(toServer, Nothing)
        BY <2>1, <2>2, <2>3, RequestSent
    <2> QED
        BY <2>1, <2>3, <1>b
<1>4. CASE ServerRead
    <2>1. toServer # <<>> /\ toServer' = Tail(toServer) /\ old' = old
          /\ work' = IF Head(toServer).kind = "request" THEN work \cup {Head(toServer)} ELSE work
        BY <1>4 DEF ServerRead
    <2>2. toServer \in Seq({Nothing, Eof} \cup OwnRequests)
        BY DEF Base, Traffic, Pipes
    <2>3. /\ 1 \in DOMAIN toServer /\ Head(toServer) = toServer[1]
          /\ \A i \in DOMAIN toServer' : i + 1 \in DOMAIN toServer /\ toServer'[i] = toServer[i + 1]
                                         /\ 1 # i + 1 /\ i \in Int
        BY <2>1, <2>2, TakenAt
    <2>4. \A i \in DOMAIN toServer' : RequestAt(i)' => RequestAt(i + 1) /\ i \in Int /\ toServer'[i] = toServer[i + 1]
        BY <2>3 DEF RequestAt
    <2>5. Head(toServer).kind = "request" <=> RequestAt(1)
        BY <2>3 DEF RequestAt
    <2>6. \A i, j \in DOMAIN toServer' :
              RequestAt(i)' /\ RequestAt(j)' /\ toServer'[i].call = toServer'[j].call => i = j
        <3> SUFFICES ASSUME NEW i \in DOMAIN toServer', NEW j \in DOMAIN toServer', RequestAt(i)', RequestAt(j)',
                            toServer'[i].call = toServer'[j].call
                     PROVE  i = j
            OBVIOUS
        <3>1. RequestAt(i + 1) /\ RequestAt(j + 1) /\ toServer[i + 1].call = toServer[j + 1].call
            BY <2>4
        <3>2. i + 1 = j + 1
            BY <3>1 DEF OneRequest, RequestAt
        <3> QED
            BY <3>2, <2>4
    <2>7. \A i \in DOMAIN toServer' : RequestAt(i)' =>
              Called(toServer'[i].call) /\ \A r \in work' \cup old' : r.call # toServer'[i].call
        <3> SUFFICES ASSUME NEW i \in DOMAIN toServer', RequestAt(i)'
                     PROVE  Called(toServer'[i].call) /\ \A r \in work' \cup old' : r.call # toServer'[i].call
            OBVIOUS
        <3>1. RequestAt(i + 1) /\ toServer'[i] = toServer[i + 1] /\ 1 # i + 1
            BY <2>3, <2>4
        <3>2. Called(toServer[i + 1].call) /\ \A r \in work \cup old : r.call # toServer[i + 1].call
            BY <3>1 DEF OneRequest, RequestAt
        <3>3. RequestAt(1) => toServer[1].call # toServer[i + 1].call
            BY <3>1 DEF OneRequest, RequestAt
        <3> QED
            BY <3>1, <3>2, <3>3, <2>1, <2>3, <2>5
    <2>8. \A r \in work' \cup old' : Called(r.call) /\ r.call \in Calls
        BY <2>1, <2>3, <2>5, <1>b DEF OneRequest, RequestAt
    <2>9. /\ \A r, q \in work' : r.call = q.call => r = q
          /\ \A r \in work', q \in old' : r.call # q.call
        BY <2>1, <2>3, <2>5 DEF OneRequest, RequestAt
    <2>10. \A i \in DOMAIN toServer' : RequestAt(i)' => toServer'[i].call \in Calls
        BY <2>3, <2>4, <1>b
    <2> QED
        BY <2>6, <2>7, <2>8, <2>9, <2>10, <1>a DEF OneRequest
<1>5. CASE ServerAnswer
    <2>1. PICK m \in work : work' = work \ {m} /\ old' = old \cup {m} /\ toServer' = toServer
        BY <1>5 DEF ServerAnswer
    <2>2. \A i \in DOMAIN toServer : RequestAt(i)' = RequestAt(i)
        BY <2>1 DEF RequestAt
    <2>3. work' \cup old' = work \cup old
        BY <2>1
    <2>4. /\ \A r, q \in work' : r.call = q.call => r = q
          /\ \A r \in work', q \in old' : r.call # q.call
        BY <2>1 DEF OneRequest
    <2> QED
        BY <2>1, <2>2, <2>3, <2>4, <1>a, <1>b DEF OneRequest
<1>6. CASE \/ Begin \/ Arm \/ Register \/ WriteFails \/ TakeBuffered \/ TakeDone
           \/ Park \/ Timeout \/ GiveUp \/ Received \/ Collect \/ Disarm \/ Wait
           \/ ReadMessage \/ ReadFails \/ Lookup \/ Send \/ Capture \/ DrainOne
           \/ DrainEnd \/ Cancel \/ ServerPush \/ ServerGarbles \/ ServerExit \/ UNCHANGED vars
    <2>1. UNCHANGED <<toServer, work, old>>
        BY <1>6 DEF Begin, Arm, Register, WriteFails, TakeBuffered, TakeDone, Park, Timeout,
                   GiveUp, Received, Collect, Disarm, Wait, ReadMessage, ReadFails, Lookup,
                   Send, Capture, DrainOne, DrainEnd, Cancel, ServerPush, ServerGarbles,
                   ServerExit, Finish, SendTo, mainVars, shared, loopVars, serverVars, pipes,
                   vars
    <2> QED
        BY <2>1, <1>b
<1> QED
    BY <1>1, <1>2, <1>3, <1>4, <1>5, <1>6 DEF Next, MainStep, LoopStep, ServerStep

(* ------------------------------ FIFO order ------------------------------- *)

\* Only ReadMessage brings an answer to readLoop.
LEMMA SeenByReading ==
    ASSUME Base, [Next]_vars, NEW c \in Calls, Seen(c)'
    PROVE  \/ Seen(c)
           \/ /\ ReadMessage /\ toClient # <<>> /\ Head(toClient).kind = "response"
              /\ Head(toClient).call = c /\ loop' = "lookup"
<1>a. /\ got \in [Calls -> Calls \cup {0}] /\ got' \in [Calls -> Calls \cup {0}] /\ OwnAnswer'
      /\ chan \in [Calls -> {Nothing, Eof} \cup OwnResponses] /\ step \in Calls
    BY StepBase DEF Base, Traffic, Channels, Control
<1>1. CASE TakeBuffered
    <2>1. got' = [got EXCEPT ![step] = IF chan[id].kind = "response" THEN chan[id].call ELSE 0]
          /\ chan' = [chan EXCEPT ![id] = Nothing] /\ loop' = loop /\ msg' = msg /\ id \in Calls
        BY <1>1 DEF TakeBuffered, loopVars, Base, Control, Numbering, Waiting, Calls
    <2>2. ASSUME got'[c] # 0, got[c] = 0 PROVE chan[id].kind = "response" /\ chan[id].call = c
        <3>1. c = step
            BY <2>1, <2>2, <1>a
        <3>2. got'[c] = c
            BY <2>2, <1>a DEF OwnAnswer
        <3> QED
            BY <2>1, <2>2, <3>1, <3>2, <1>a
    <2>3. \A m \in Calls : chan'[m].kind = "response" => chan'[m] = chan[m]
        BY <2>1, <1>a DEF Nothing
    <2> QED
        BY <2>1, <2>2, <2>3 DEF Seen
<1>2. CASE ReadMessage
    <2>1. toClient # <<>> /\ msg' = Head(toClient) /\ chan' = chan /\ got' = got
          /\ loop' = CASE msg'.kind = "response" -> "lookup"
                       [] msg'.kind = "applyEdit" -> "capture"
                       [] msg' = Malformed -> "drain"
        BY <1>2 DEF ReadMessage, mainVars, shared
    <2>2. msg' \in {Malformed} \cup OwnResponses \cup EditRequests
        BY <2>1 DEF Base, Traffic, Pipes
    <2>3. loop' = "lookup" => msg'.kind = "response"
        BY <2>1, <2>2 DEF Malformed, OwnResponses, EditRequests
    <2>4. loop' # "send"
        BY <2>1, <2>2 DEF Malformed, OwnResponses, EditRequests
    <2> QED
        BY <2>1, <2>3, <2>4, <1>2 DEF Seen
<1>3. CASE ReadFails
    BY <1>3 DEF ReadFails, Seen, mainVars, shared
<1>4. CASE Lookup
    BY <1>4 DEF Lookup, Seen, mainVars, shared
<1>5. CASE Send
    <2>1. PICK m \in Calls : SendTo(m, msg) /\ loop = "send"
        BY <1>5 DEF Send, Base, Traffic, Reader, OwnResponses
    <2>2. msg' = msg /\ loop' \notin {"lookup", "send"}
        BY <1>5 DEF Send, loopVars
    <2>3. CASE main = "parked" /\ id = m
        <3>1. got' = [got EXCEPT ![step] = IF msg.kind = "response" THEN msg.call ELSE 0] /\ chan' = chan
            BY <2>1, <2>3 DEF SendTo
        <3>2. ASSUME got'[c] # 0, got[c] = 0 PROVE msg.kind = "response" /\ msg.call = c
            <4>1. c = step /\ got'[c] = c
                BY <3>1, <3>2, <1>a DEF OwnAnswer
            <4> QED
                BY <3>1, <3>2, <4>1, <1>a
        <3> QED
            BY <2>1, <2>2, <3>1, <3>2 DEF Seen, Eof
    <2>4. CASE ~(main = "parked" /\ id = m)
        <3>1. got' = got /\ chan' = [chan EXCEPT ![m] = msg]
            BY <2>1, <2>4 DEF SendTo
        <3>2. \A n \in Calls : chan'[n] = chan[n] \/ chan'[n] = msg
            BY <3>1, <1>a
        <3> QED
            BY <2>1, <2>2, <3>1, <3>2 DEF Seen, Eof
    <2> QED
        BY <2>3, <2>4
<1>6. CASE Capture
    BY <1>6 DEF Capture, Seen, mainVars, shared
<1>7. CASE Reply
    BY <1>7 DEF Reply, Seen, mainVars, shared
<1>8. CASE DrainOne
    <2>1. PICK m \in pending : SendTo(m, Eof) /\ loop = "drain" /\ loop' = "drain"
        BY <1>8 DEF DrainOne, loopVars
    <2>2. msg' = msg /\ loop' \notin {"lookup", "send"}
        BY <1>8 DEF DrainOne, loopVars
    <2>3. CASE main = "parked" /\ id = m
        <3>1. got' = [got EXCEPT ![step] = IF Eof.kind = "response" THEN Eof.call ELSE 0] /\ chan' = chan
            BY <2>1, <2>3 DEF SendTo
        <3>2. ASSUME got'[c] # 0, got[c] = 0 PROVE Eof.kind = "response" /\ Eof.call = c
            <4>1. c = step /\ got'[c] = c
                BY <3>1, <3>2, <1>a DEF OwnAnswer
            <4> QED
                BY <3>1, <3>2, <4>1, <1>a
        <3> QED
            BY <2>1, <2>2, <3>1, <3>2 DEF Seen, Eof
    <2>4. CASE ~(main = "parked" /\ id = m)
        <3>1. got' = got /\ chan' = [chan EXCEPT ![m] = Eof]
            BY <2>1, <2>4 DEF SendTo
        <3>2. \A n \in Calls : chan'[n] = chan[n] \/ chan'[n] = Eof
            BY <3>1, <1>a
        <3> QED
            BY <2>1, <2>2, <3>1, <3>2 DEF Seen, Eof
    <2> QED
        BY <2>3, <2>4
<1>9. CASE DrainEnd
    BY <1>9 DEF DrainEnd, Seen, mainVars, shared
<1>10. CASE \/ Begin \/ Arm \/ Register \/ WriteCall \/ WriteFails \/ TakeDone
           \/ Park \/ Timeout \/ GiveUp \/ Received \/ Collect \/ Disarm \/ Exit
           \/ Wait \/ Cancel \/ ServerRead \/ ServerAnswer \/ ServerPush
           \/ ServerGarbles \/ ServerExit \/ UNCHANGED vars
    <2>1. UNCHANGED <<loop, msg, chan, got>>
        BY <1>10 DEF Begin, Arm, Register, WriteCall, WriteFails, TakeDone, Park, Timeout,
                   GiveUp, Received, Collect, Disarm, Exit, Wait, Cancel, ServerRead,
                   ServerAnswer, ServerPush, ServerGarbles, ServerExit, Finish, mainVars,
                   shared, loopVars, serverVars, pipes, vars
    <2> QED
        BY <2>1 DEF Seen
<1> QED
    BY <1>1, <1>2, <1>3, <1>4, <1>5, <1>6, <1>7, <1>8, <1>9, <1>10 DEF Next, MainStep,
       LoopStep, ServerStep

\* What a step of the client or the server does to the record of an edit.
LEMMA PushedKeeps ==
    ASSUME Base, [Next]_vars
    PROVE  /\ \A e \in DOMAIN pushed :
                  /\ e \in DOMAIN pushed'
                  /\ pushed'[e].call = pushed[e].call
                  /\ (pushed'[e].early = pushed[e].early)
                  /\ \/ pushed'[e].answered = pushed[e].answered
                     \/ Reply /\ e = msg.edit /\ pushed'[e].answered = msg.kind
           /\ ~ServerPush => DOMAIN pushed' = DOMAIN pushed
           /\ ServerPush => \E m \in work \cup old :
                  /\ Script[m.call] = "command"
                  /\ toClient' = Append(toClient, ApplyEdit(m.call, Len(pushed) + 1))
                  /\ Len(pushed) + 1 \notin DOMAIN pushed
                  /\ DOMAIN pushed' = DOMAIN pushed \cup {Len(pushed) + 1}
                  /\ pushed'[Len(pushed) + 1] = [call |-> m.call, early |-> m \in work, answered |-> "none"]
<1>a. pushed \in Seq([call : Calls, early : BOOLEAN, answered : {"none", "applied", "refused"}])
    BY DEF Base, Traffic, Pushes
<1>1. CASE ServerPush
    <2>1. PICK m \in work \cup old :
              /\ Script[m.call] = "command"
              /\ toClient' = Append(toClient, ApplyEdit(m.call, Len(pushed) + 1))
              /\ pushed' = Append(pushed, [call |-> m.call, early |-> m \in work, answered |-> "none"])
        BY <1>1 DEF ServerPush
    <2> DEFINE r == [call |-> m.call, early |-> m \in work, answered |-> "none"]
    <2>2. /\ Len(pushed) + 1 \notin DOMAIN pushed
          /\ \A e \in DOMAIN pushed : e \in DOMAIN pushed' /\ pushed'[e] = pushed[e]
        <3> HIDE DEF r
        <3> QED
            BY <2>1, <1>a, SentAt DEF r
    <2>3. DOMAIN pushed' = DOMAIN pushed \cup {Len(pushed) + 1} /\ pushed'[Len(pushed) + 1] = r
        <3> HIDE DEF r
        <3>1. pushed' = Append(pushed, r)
            BY <2>1 DEF r
        <3>2. Len(pushed) \in Nat /\ DOMAIN pushed = 1 .. Len(pushed)
            BY <1>a
        <3>3. DOMAIN pushed' = 1 .. Len(pushed) + 1 /\ pushed'[Len(pushed) + 1] = r
            BY <1>a, <3>1
        <3> QED
            BY <3>2, <3>3
    <2> QED
        BY <2>1, <2>2, <2>3, <1>1
<1>2. CASE Reply /\ ~ServerPush
    <2>1. pushed' = pushed \/ pushed' = [pushed EXCEPT ![msg.edit].answered = msg.kind]
        BY <1>2 DEF Reply
    <2>2. CASE pushed' = [pushed EXCEPT ![msg.edit].answered = msg.kind]
        <3>1. \A e \in DOMAIN pushed : e # msg.edit => pushed'[e] = pushed[e]
            BY <2>2
        <3>2. msg.edit \in DOMAIN pushed => pushed'[msg.edit] = [pushed[msg.edit] EXCEPT !.answered = msg.kind]
            BY <2>2
        <3>3. \A e \in DOMAIN pushed : pushed[e] \in [call : Calls, early : BOOLEAN, answered : {"none", "applied", "refused"}]
            <4> DEFINE P == [call : Calls, early : BOOLEAN, answered : {"none", "applied", "refused"}]
            <4> HIDE DEF P
            <4>1. pushed \in Seq(P)
                BY <1>a DEF P
            <4>2. \A e \in DOMAIN pushed : pushed[e] \in P
                BY <4>1
            <4> QED
                BY <4>2 DEF P
        <3>4. DOMAIN pushed' = DOMAIN pushed
            BY <2>2
        <3> QED
            BY <1>2, <3>1, <3>2, <3>3, <3>4
    <2> QED
        BY <2>1, <2>2, <1>2
<1>3. CASE ~Reply /\ ~ServerPush
    <2>1. pushed' = pushed
        BY <1>3 DEF Next, MainStep, LoopStep, ServerStep, Begin, Arm, Register,
           WriteCall, WriteFails, TakeBuffered, TakeDone,
                    Park, Timeout, GiveUp, Received, Collect, Disarm, Exit, Wait,
                    ReadMessage, ReadFails, Lookup, Send, Capture, DrainOne, DrainEnd,
                    Cancel, ServerRead, ServerAnswer, ServerGarbles, ServerExit, mainVars,
                    shared, loopVars, serverVars, pipes, vars
    <2> QED
        BY <2>1, <1>3
<1> QED
    BY <1>1, <1>2, <1>3

\* Once a call has been answered, none of the edits that come is early.
LEMMA NoLateEarly ==
    ASSUME Base, OneRequest, [Next]_vars, NEW c \in Calls, Answered(c), NEW e, Early(e, c)'
    PROVE  Early(e, c)
<1>1. CASE e \in DOMAIN pushed
    BY <1>1, PushedKeeps DEF Early
<1>2. CASE e \notin DOMAIN pushed
    <2>1. PICK m \in work \cup old :
              /\ e = Len(pushed) + 1
              /\ pushed'[e] = [call |-> m.call, early |-> m \in work, answered |-> "none"]
        BY <1>2, PushedKeeps DEF Early
    <2>2. m \in work /\ m.call = c
        <3>1. pushed'[e].early = (m \in work) /\ pushed'[e].call = m.call
            BY <2>1
        <3>2. pushed'[e].early /\ pushed'[e].call = c
            BY DEF Early
        <3> QED
            BY <3>1, <3>2
    <2> QED
        BY <2>2 DEF OneRequest, Answered
<1> QED
    BY <1>1, <1>2

\* readLoop takes the head of the pipe.
LEMMA TakesHead ==
    ASSUME Base, ReadMessage
    PROVE  /\ 1 \in DOMAIN toClient /\ msg' = toClient[1]
           /\ loop' \in {"lookup", "capture", "drain"} /\ (loop' = "capture" => EditAt(1))
           /\ \A i \in DOMAIN toClient' :
                  i + 1 \in DOMAIN toClient /\ toClient'[i] = toClient[i + 1] /\ 1 < i + 1 /\ i \in Int
<1>1. /\ toClient # <<>> /\ msg' = Head(toClient) /\ toClient' = Tail(toClient)
      /\ loop' = CASE msg'.kind = "response" -> "lookup"
                   [] msg'.kind = "applyEdit" -> "capture"
                   [] msg' = Malformed -> "drain"
    BY DEF ReadMessage
<1>2. toClient \in Seq({Malformed} \cup OwnResponses \cup EditRequests)
    BY DEF Base, Traffic, Pipes
<1>3. msg' \in {Malformed} \cup OwnResponses \cup EditRequests
    BY <1>1, <1>2
<1>4. loop' \in {"lookup", "capture", "drain"} /\ (loop' = "capture" => msg'.kind = "applyEdit")
    BY <1>1, <1>3 DEF Malformed, OwnResponses, EditRequests
<1> QED
    BY <1>1, <1>2, <1>4, TakenAt DEF EditAt

\* The server puts a message behind the others.
LEMMA PutsLast ==
    ASSUME Base, NEW m, toClient' = Append(toClient, m)
    PROVE  /\ Len(toClient) + 1 \notin DOMAIN toClient
           /\ \A i \in DOMAIN toClient : i \in DOMAIN toClient' /\ toClient'[i] = toClient[i] /\ i < Len(toClient) + 1
           /\ \A i \in DOMAIN toClient' :
                  i \in DOMAIN toClient \/ (i = Len(toClient) + 1 /\ toClient'[i] = m)
           /\ Len(toClient) + 1 \in DOMAIN toClient' /\ toClient'[Len(toClient) + 1] = m
           /\ DOMAIN toClient \subseteq Int /\ Len(toClient) \in Int
<1>1. toClient \in Seq({Malformed} \cup OwnResponses \cup EditRequests)
    BY DEF Base, Traffic, Pipes
<1>2. Len(toClient) \in Nat /\ DOMAIN toClient = 1 .. Len(toClient)
    BY <1>1
<1>3. DOMAIN toClient' = 1 .. Len(toClient) + 1 /\ toClient'[Len(toClient) + 1] = m
    BY <1>1
<1>4. Len(toClient) + 1 \in DOMAIN toClient' /\ DOMAIN toClient \subseteq Int
    BY <1>2, <1>3
<1> QED
    BY <1>1, <1>2, <1>3, <1>4, SentAt

\* No other step touches the pipe to the client.
LEMMA PipeQuiet ==
    ASSUME [Next]_vars, ~ReadMessage, ~ServerPush, ~ServerAnswer, ~ServerGarbles
    PROVE  toClient' = toClient
BY DEF Next, MainStep, LoopStep, ServerStep,
       Begin, Arm, Register, WriteCall, WriteFails, TakeBuffered, TakeDone,
       Park, Timeout, GiveUp, Received, Collect, Disarm, Exit, Wait, ReadFails,
       Lookup, Send, Capture, Reply, DrainOne, DrainEnd, Cancel, ServerRead,
       ServerExit, mainVars, shared, loopVars, serverVars, pipes, vars

\* What the server puts there that is not an edit is an answer to a request it
\* now counts as answered, or the end.
LEMMA PutsAnswer ==
    ASSUME Base, ServerAnswer \/ ServerGarbles
    PROVE  \E m : /\ toClient' = Append(toClient, m) /\ m.kind # "applyEdit"
                  /\ m.kind = "response" => m.call \in Calls /\ Answered(m.call)'
<1>1. CASE ServerAnswer
    <2>1. PICK m \in work : toClient' = Append(toClient, Response(m.id, m.call)) /\ old' = old \cup {m}
        BY <1>1 DEF ServerAnswer
    <2>2. m.call \in Calls /\ Answered(m.call)'
        BY <2>1, RequestsHaveCalls DEF Answered
    <2> QED
        BY <2>1, <2>2 DEF Response
<1>2. CASE ServerGarbles
    BY <1>2 DEF ServerGarbles, Malformed
<1> QED
    BY <1>1, <1>2

\* An answered call stays answered.
LEMMA AnsweredLasts ==
    ASSUME [Next]_vars, NEW c, Answered(c)
    PROVE  Answered(c)'
<1>1. old \subseteq old'
    BY DEF Next, MainStep, LoopStep, ServerStep, vars,
           Begin, Arm, Register, WriteCall, WriteFails, TakeBuffered, TakeDone, Park,
           Timeout, GiveUp, Received, Collect, Disarm, Exit, Wait, ReadMessage,
           ReadFails, Lookup, Send, Capture, Reply, DrainOne, DrainEnd, Cancel,
           ServerRead, ServerAnswer, ServerPush, ServerGarbles, ServerExit, mainVars,
           shared, loopVars, serverVars, pipes
<1> QED
    BY <1>1 DEF Answered

\* An answer that is on its way or has been read is one the server gave.
LEMMA StepAnswers == Base /\ Answers /\ [Next]_vars => Answers'
<1> SUFFICES ASSUME Base, Answers, [Next]_vars PROVE Answers'
    OBVIOUS
<1>a. ASSUME NEW i \in DOMAIN toClient, AnswerAt(i), NEW c, c = toClient[i].call
      PROVE  c \in Calls /\ Answered(c)'
    <2>1. c \in Calls /\ Answered(c)
        BY <1>a, RequestsHaveCalls DEF Answers
    <2> QED
        BY <2>1, AnsweredLasts
<1>1. ASSUME NEW i \in DOMAIN toClient', AnswerAt(i)', NEW c, c = toClient'[i].call PROVE Answered(c)'
    <2>1. CASE ReadMessage
        BY <1>1, <2>1, <1>a, TakesHead DEF AnswerAt
    <2>2. CASE ServerPush
        <3>1. PICK m : toClient' = Append(toClient, m) /\ m.kind = "applyEdit"
            BY <1>1, <2>2 DEF ServerPush, ApplyEdit
        <3> QED
            BY <1>1, <3>1, <1>a, PutsLast DEF AnswerAt
    <2>3. CASE ServerAnswer \/ ServerGarbles
        <3>1. PICK m : /\ toClient' = Append(toClient, m) /\ m.kind # "applyEdit"
                       /\ m.kind = "response" => m.call \in Calls /\ Answered(m.call)'
            BY <1>1, <2>3, PutsAnswer
        <3> QED
            BY <1>1, <3>1, <1>a, PutsLast DEF AnswerAt
    <2>4. CASE toClient' = toClient
        BY <1>1, <2>4, <1>a DEF AnswerAt
    <2> QED
        BY <2>1, <2>2, <2>3, <2>4, PipeQuiet
<1>2. ASSUME NEW c \in Calls, Seen(c)' PROVE Answered(c)'
    <2>1. CASE Seen(c)
        BY <2>1, AnsweredLasts DEF Answers
    <2>2. CASE ReadMessage /\ Head(toClient).kind = "response" /\ Head(toClient).call = c
        <3>1. AnswerAt(1) /\ toClient[1].call = c
            BY <2>2, TakesHead DEF AnswerAt, ReadMessage
        <3> QED
            BY <3>1, <1>a DEF AnswerAt
    <2> QED
        BY <1>2, <2>1, <2>2, SeenByReading
<1> QED
    BY <1>1, <1>2 DEF Answers, Answered

\* readLoop comes to a capture only by reading.
LEMMA CaptureWaits ==
    ASSUME [Next]_vars, ~ReadMessage, loop' = "capture"
    PROVE  loop = "capture" /\ msg' = msg
BY DEF Next, MainStep, LoopStep, ServerStep,
       Begin, Arm, Register, WriteCall, WriteFails, TakeBuffered, TakeDone, Park,
       Timeout, GiveUp, Received, Collect, Disarm, Exit, Wait, ReadFails, Lookup,
       Send, Capture, Reply, DrainOne, DrainEnd, Cancel, ServerRead, ServerAnswer,
       ServerPush, ServerGarbles, ServerExit, mainVars, shared, loopVars,
       serverVars, pipes, vars

\* Messages are read in the order they were sent: an early edit before the answer.
LEMMA StepInOrder == Base /\ OneRequest /\ Answers /\ OneEdit /\ InOrder /\ [Next]_vars => InOrder'
<1> SUFFICES ASSUME Base, OneRequest, Answers, OneEdit, InOrder, [Next]_vars PROVE InOrder'
    OBVIOUS
<1>a. ASSUME NEW c \in Calls, Answered(c), NEW e, Early(e, c)' PROVE Early(e, c)
    BY <1>a, NoLateEarly
<1>b. \A i \in DOMAIN toClient : AnswerAt(i) => toClient[i].call \in Calls /\ Answered(toClient[i].call)
    BY RequestsHaveCalls DEF Answers
<1>c. ASSUME ServerPush
      PROVE  \E m : /\ toClient' = Append(toClient, m) /\ m.kind = "applyEdit"
                    /\ m.edit = Len(pushed) + 1 /\ m.edit \notin DOMAIN pushed
    <2>1. PICK m \in work \cup old : /\ toClient' = Append(toClient, ApplyEdit(m.call, Len(pushed) + 1))
                                    /\ Len(pushed) + 1 \notin DOMAIN pushed
        BY <1>c, PushedKeeps
    <2>2. ApplyEdit(m.call, Len(pushed) + 1).kind = "applyEdit" /\ ApplyEdit(m.call, Len(pushed) + 1).edit = Len(pushed) + 1
        BY DEF ApplyEdit
    <2> QED
        BY <2>1, <2>2
<1>1. ASSUME NEW i \in DOMAIN toClient', NEW j \in DOMAIN toClient', AnswerAt(i)', EditAt(j)', i < j,
             NEW e, e = toClient'[j].edit, NEW c, c = toClient'[i].call
      PROVE  ~Early(e, c)'
    <2>1. CASE toClient' = toClient
        <3>1. AnswerAt(i) /\ EditAt(j) /\ e = toClient[j].edit /\ c = toClient[i].call
            BY <1>1, <2>1 DEF AnswerAt, EditAt
        <3> QED
            BY <1>1, <3>1, <1>a, <1>b DEF InOrder, AnswerAt, EditAt
    <2>2. CASE ReadMessage
        <3>1. AnswerAt(i + 1) /\ EditAt(j + 1) /\ e = toClient[j + 1].edit /\ c = toClient[i + 1].call /\ i + 1 < j + 1
            BY <1>1, <2>2, TakesHead DEF AnswerAt, EditAt
        <3> QED
            BY <1>1, <3>1, <1>a, <1>b DEF InOrder, AnswerAt, EditAt
    <2>3. CASE ServerPush
        <3>1. PICK m : /\ toClient' = Append(toClient, m) /\ m.kind = "applyEdit"
                       /\ m.edit = Len(pushed) + 1 /\ m.edit \notin DOMAIN pushed
            BY <2>3, <1>c
        <3>2. AnswerAt(i) /\ c = toClient[i].call
            BY <1>1, <3>1, PutsLast DEF AnswerAt
        <3>3. CASE j \in DOMAIN toClient
            <4>1. EditAt(j) /\ e = toClient[j].edit
                BY <1>1, <3>1, <3>3, PutsLast DEF EditAt
            <4> QED
                BY <1>1, <3>2, <4>1, <1>a, <1>b DEF InOrder, AnswerAt, EditAt
        <3>4. CASE j \notin DOMAIN toClient
            <4>1. e \notin DOMAIN pushed
                BY <1>1, <3>1, <3>4, PutsLast
            <4> QED
                BY <3>2, <4>1, <1>a, <1>b DEF Early, AnswerAt
        <3> QED
            BY <3>3, <3>4
    <2>4. CASE ServerAnswer \/ ServerGarbles
        <3>1. PICK m : toClient' = Append(toClient, m) /\ m.kind # "applyEdit"
            BY <2>4, PutsAnswer
        <3>2. EditAt(j) /\ e = toClient[j].edit
            BY <1>1, <3>1, PutsLast DEF EditAt
        <3>3. AnswerAt(i) /\ c = toClient[i].call
            BY <1>1, <3>1, <3>2, PutsLast DEF AnswerAt, EditAt
        <3> QED
            BY <1>1, <3>2, <3>3, <1>a, <1>b DEF InOrder, AnswerAt, EditAt
    <2> QED
        BY <2>1, <2>2, <2>3, <2>4, PipeQuiet
<1>2. ASSUME NEW c \in Calls, Seen(c)', NEW j \in DOMAIN toClient', EditAt(j)', NEW e, e = toClient'[j].edit
      PROVE  ~Early(e, c)'
    <2>1. CASE Seen(c)
        <3>1. Answered(c) /\ \A k \in DOMAIN toClient : EditAt(k) => ~Early(toClient[k].edit, c)
            BY <2>1 DEF Answers, InOrder
        <3>2. CASE \E k \in DOMAIN toClient : EditAt(k) /\ e = toClient[k].edit
            BY <3>1, <3>2, <1>a
        <3>3. CASE toClient' = toClient
            BY <1>2, <3>2, <3>3 DEF EditAt
        <3>4. CASE ReadMessage
            BY <1>2, <3>2, <3>4, TakesHead DEF EditAt
        <3>5. CASE ServerPush
            <4>1. PICK m : /\ toClient' = Append(toClient, m) /\ m.kind = "applyEdit"
                           /\ m.edit = Len(pushed) + 1 /\ m.edit \notin DOMAIN pushed
                BY <3>5, <1>c
            <4>2. CASE j \in DOMAIN toClient
                BY <1>2, <3>2, <4>1, <4>2, PutsLast DEF EditAt
            <4>3. CASE j \notin DOMAIN toClient
                <5>1. e \notin DOMAIN pushed
                    BY <1>2, <4>1, <4>3, PutsLast
                <5> QED
                    BY <3>1, <5>1, <1>a DEF Early
            <4> QED
                BY <4>2, <4>3
        <3>6. CASE ServerAnswer \/ ServerGarbles
            <4>1. PICK m : toClient' = Append(toClient, m) /\ m.kind # "applyEdit"
                BY <3>6, PutsAnswer
            <4> QED
                BY <1>2, <3>2, <4>1, PutsLast DEF EditAt
        <3> QED
            BY <3>3, <3>4, <3>5, <3>6, PipeQuiet
    <2>2. CASE ReadMessage /\ Head(toClient).kind = "response" /\ Head(toClient).call = c
        <3>1. AnswerAt(1) /\ toClient[1].call = c /\ EditAt(j + 1) /\ e = toClient[j + 1].edit /\ 1 < j + 1
            BY <1>2, <2>2, TakesHead DEF AnswerAt, EditAt, ReadMessage
        <3> QED
            BY <3>1, <1>a, <1>b DEF InOrder, AnswerAt, EditAt
    <2> QED
        BY <1>2, <2>1, <2>2, SeenByReading
<1>3. ASSUME NEW c \in Calls, Seen(c)', loop' = "capture", NEW e, e = msg'.edit
      PROVE  ~Early(e, c)'
    <2>1. Seen(c)
        BY <1>3, SeenByReading
    <2>2. Answered(c)
        BY <2>1 DEF Answers
    <2>3. CASE ReadMessage
        BY <1>3, <2>1, <2>2, <2>3, <1>a, TakesHead DEF InOrder
    <2>4. CASE ~ReadMessage
        <3>1. loop = "capture" /\ msg' = msg
            BY <1>3, <2>4, CaptureWaits
        <3> QED
            BY <1>3, <2>1, <2>2, <3>1, <1>a DEF InOrder
    <2> QED
        BY <2>3, <2>4
<1> QED
    BY <1>1, <1>2, <1>3 DEF InOrder, Early

(* ---------------------- an edit and what becomes of it -------------------- *)

\* readLoop comes to a reply only by a capture.
LEMMA ReplyWaits ==
    ASSUME Base, [Next]_vars, ~Capture, loop' = "reply"
    PROVE  loop = "reply" /\ msg' = msg /\ ~Reply
<1>1. ~ReadMessage
    BY TakesHead
<1> QED
    BY <1>1 DEF Next, MainStep, LoopStep, ServerStep,
       Begin, Arm, Register, WriteCall, WriteFails, TakeBuffered, TakeDone, Park,
       Timeout, GiveUp, Received, Collect, Disarm, Exit, Wait, ReadFails, Lookup,
       Send, Reply, DrainOne, DrainEnd, Cancel, ServerRead, ServerAnswer,
       ServerPush, ServerGarbles, ServerExit, mainVars, shared, loopVars,
       serverVars, pipes, vars

\* Nothing but handleApplyEdit fills a sink.
LEMMA OnlyCaptureCaptures ==
    ASSUME [Next]_vars, ~Capture
    PROVE  captured' = captured
BY DEF Next, MainStep, LoopStep, ServerStep,
       Begin, Arm, Register, WriteCall, WriteFails, TakeBuffered, TakeDone, Park,
       Timeout, GiveUp, Received, Collect, Disarm, Exit, Wait, ReadMessage,
       ReadFails, Lookup, Send, Reply, DrainOne, DrainEnd, Cancel, ServerRead,
       ServerAnswer, ServerPush, ServerGarbles, ServerExit, mainVars, shared,
       loopVars, serverVars, pipes, vars

\* Every edit was requested for a call of the script.
LEMMA PushesHaveCalls ==
    ASSUME Base
    PROVE  \A e \in DOMAIN pushed : pushed[e].call \in Calls
<1> DEFINE P == [call : Calls, early : BOOLEAN, answered : {"none", "applied", "refused"}]
<1>1. \A p \in P : p.call \in Calls
    OBVIOUS
<1>2. pushed \in Seq(P)
    BY DEF Base, Traffic, Pushes
<1> HIDE DEF P
<1>3. \A e \in DOMAIN pushed : pushed[e] \in P
    BY <1>2
<1> QED
    BY <1>1, <1>3

\* The sink an edit goes to is the one of its own command.
LEMMA CapturesOwn ==
    ASSUME Base, OneCommand, Armed, OneEdit, Capture
    PROVE  /\ msg.call \in Calls /\ Undecided(msg.edit, msg.call)
           /\ msg'.edit = msg.edit /\ msg'.call = msg.call
           /\ \/ sink = 0 /\ msg'.kind = "refused" /\ captured' = captured
              \/ /\ sink = msg.call /\ msg'.kind = "applied"
                 /\ captured' = [captured EXCEPT ![msg.call] = @ \cup {msg.edit}]
<1>1. /\ loop = "capture"
      /\ captured' = IF sink = 0 THEN captured ELSE [captured EXCEPT ![sink] = @ \cup {msg.edit}]
      /\ msg' = [msg EXCEPT !.kind = IF sink = 0 THEN "refused" ELSE "applied"]
    BY DEF Capture
<1>2. msg \in EditRequests
    BY <1>1 DEF Base, Traffic, Reader
<1>3. msg.call \in Calls /\ msg'.edit = msg.edit /\ msg'.call = msg.call
      /\ msg'.kind = IF sink = 0 THEN "refused" ELSE "applied"
    BY <1>1, <1>2 DEF EditRequests
<1>4. Undecided(msg.edit, msg.call)
    BY <1>1 DEF OneEdit
<1>5. Script[msg.call] = "command"
    BY <1>4 DEF OneEdit, Undecided
<1>6. sink # 0 => sink = msg.call
    BY <1>3, <1>5 DEF Armed, OneCommand, Base, Control, Kind
<1> QED
    BY <1>1, <1>3, <1>4, <1>6

\* What has not been decided stays so until readLoop handles it.
LEMMA StaysUndecided ==
    ASSUME Base, OneCommand, Armed, OneEdit, [Next]_vars, NEW c \in Calls, NEW e, Undecided(e, c),
           Capture \/ Reply => e # msg.edit
    PROVE  Undecided(e, c)'
<1>1. e \in DOMAIN pushed' /\ pushed'[e].call = c /\ pushed'[e].answered = "none"
    BY PushedKeeps DEF Undecided
<1>2. e \notin captured'[c]
    <2>1. CASE Capture
        BY <2>1, CapturesOwn DEF Undecided, OneEdit
    <2>2. CASE ~Capture
        BY <2>2, OnlyCaptureCaptures DEF Undecided
    <2> QED
        BY <2>1, <2>2
<1> QED
    BY <1>1, <1>2 DEF Undecided

\* An edit is pushed under a fresh number, read once, and replied to once.
LEMMA StepOneEdit ==
    ASSUME Base, OneCommand, Results, Armed, OneRequest, OneEdit, [Next]_vars
    PROVE  OneEdit'
<1>a. \A e \in DOMAIN pushed : e \in DOMAIN pushed' /\ pushed'[e].call = pushed[e].call
    BY PushedKeeps
<1>b. captured \in [Calls -> SUBSET DOMAIN pushed]
    BY DEF OneEdit
<1>c. \A j \in DOMAIN toClient : EditAt(j) =>
          /\ toClient[j].call \in Calls /\ Undecided(toClient[j].edit, toClient[j].call)
          /\ toClient[j].edit \in DOMAIN pushed
    BY RequestsHaveCalls DEF OneEdit, Undecided
<1>d. loop = "capture" => msg.call \in Calls /\ Undecided(msg.edit, msg.call) /\ msg.edit \in DOMAIN pushed
    BY DEF OneEdit, Base, Traffic, Reader, EditRequests, Undecided
<1>e. ASSUME ServerPush
      PROVE  \E m, n : /\ toClient' = Append(toClient, m) /\ n \notin DOMAIN pushed /\ m.edit = n
                       /\ m.call \in Calls /\ Script[m.call] = "command" /\ Called(m.call)
                       /\ DOMAIN pushed' = DOMAIN pushed \cup {n} /\ pushed'[n].call = m.call
                       /\ pushed'[n].answered = "none"
    <2>1. PICK m \in work \cup old :
              /\ Script[m.call] = "command"
              /\ toClient' = Append(toClient, ApplyEdit(m.call, Len(pushed) + 1))
              /\ Len(pushed) + 1 \notin DOMAIN pushed
              /\ DOMAIN pushed' = DOMAIN pushed \cup {Len(pushed) + 1}
              /\ pushed'[Len(pushed) + 1] = [call |-> m.call, early |-> m \in work, answered |-> "none"]
        BY <1>e, PushedKeeps
    <2> DEFINE n == Len(pushed) + 1
               p == ApplyEdit(m.call, n)
    <2>2. p.edit = n /\ p.call = m.call
        BY DEF ApplyEdit
    <2>3. m.call \in Calls /\ Called(m.call)
        BY RequestsHaveCalls DEF OneRequest
    <2>4. pushed'[n].call = m.call /\ pushed'[n].answered = "none"
        BY <2>1
    <2> HIDE DEF p, n
    <2>5. toClient' = Append(toClient, p) /\ n \notin DOMAIN pushed /\ DOMAIN pushed' = DOMAIN pushed \cup {n}
        BY <2>1 DEF p, n
    <2> QED
        BY <2>1, <2>2, <2>3, <2>4, <2>5
<1>1. captured' \in [Calls -> SUBSET DOMAIN pushed']
    <2>1. CASE Capture
        BY <2>1, <1>a, <1>b, CapturesOwn DEF Undecided
    <2>2. CASE ~Capture
        BY <2>2, <1>a, <1>b, OnlyCaptureCaptures
    <2> QED
        BY <2>1, <2>2
<1>2. ASSUME NEW e \in DOMAIN pushed', NEW c, c = pushed'[e].call
      PROVE  Script[c] = "command" /\ Called(c)'
    <2>1. ASSUME e \in DOMAIN pushed PROVE Script[c] = "command" /\ Called(c) /\ c \in Calls
        <3>1. c = pushed[e].call
            BY <1>a, <1>2, <2>1
        <3>2. pushed[e].call \in Calls
            BY <2>1, PushesHaveCalls
        <3> QED
            BY <2>1, <3>1, <3>2 DEF OneEdit
    <2>2. ASSUME e \notin DOMAIN pushed PROVE Script[c] = "command" /\ Called(c) /\ c \in Calls
        <3>1. ServerPush
            BY <2>2, PushedKeeps
        <3> QED
            BY <1>2, <2>2, <3>1, <1>e
    <2> QED
        BY <2>1, <2>2, CalledLasts
<1>3. ASSUME NEW j \in DOMAIN toClient', EditAt(j)', NEW e, e = toClient'[j].edit, NEW c, c = toClient'[j].call
      PROVE  /\ Undecided(e, c)'
             /\ loop' \in {"capture", "reply"} => e # msg'.edit
    <2>1. ASSUME NEW k \in DOMAIN toClient, EditAt(k), toClient'[j] = toClient[k]
          PROVE  /\ Undecided(e, c)'
                 /\ ~ReadMessage /\ loop' \in {"capture", "reply"} => e # msg'.edit
        <3>1. Capture \/ Reply => e # msg.edit
            BY <1>3, <2>1 DEF OneEdit, Capture, Reply
        <3>2. Undecided(e, c) /\ c \in Calls
            BY <1>3, <2>1, <1>c
        <3>3. Undecided(e, c)'
            BY <3>1, <3>2, StaysUndecided
        <3>4. ASSUME ~ReadMessage, loop' \in {"capture", "reply"} PROVE e # msg'.edit
            <4>1. CASE Capture
                BY <4>1, <3>1, CapturesOwn
            <4>2. CASE ~Capture
                <5>1. loop \in {"capture", "reply"} /\ msg' = msg
                    BY <3>4, <4>2, CaptureWaits, ReplyWaits
                <5> QED
                    BY <1>3, <2>1, <5>1 DEF OneEdit
            <4> QED
                BY <4>1, <4>2
        <3> QED
            BY <3>3, <3>4
    <2>2. CASE toClient' = toClient /\ ~ReadMessage
        BY <1>3, <2>1, <2>2 DEF EditAt
    <2>3. CASE ReadMessage
        <3>1. /\ EditAt(j + 1) /\ j + 1 \in DOMAIN toClient /\ toClient'[j] = toClient[j + 1] /\ 1 # j + 1
              /\ loop' \in {"capture", "reply"} => EditAt(1)
              /\ msg' = toClient[1] /\ 1 \in DOMAIN toClient
            BY <1>3, <2>3, TakesHead DEF EditAt
        <3>2. Undecided(e, c)'
            BY <2>1, <3>1
        <3>3. EditAt(1) => toClient[1].edit # toClient[j + 1].edit
            BY <3>1 DEF OneEdit
        <3> QED
            BY <1>3, <3>1, <3>2, <3>3
    <2>4. CASE ServerAnswer \/ ServerGarbles
        <3>1. PICK m : toClient' = Append(toClient, m) /\ m.kind # "applyEdit"
            BY <2>4, PutsAnswer
        <3>2. j \in DOMAIN toClient /\ EditAt(j) /\ toClient'[j] = toClient[j]
            BY <1>3, <3>1, PutsLast DEF EditAt
        <3>3. ~ReadMessage
            BY <2>4 DEF ServerAnswer, ServerGarbles, loopVars, ReadMessage, Base,
               Traffic, Reader, Pipes
        <3> QED
            BY <2>1, <3>2, <3>3
    <2>5. CASE ServerPush
        <3>1. PICK m, n : /\ toClient' = Append(toClient, m) /\ n \notin DOMAIN pushed /\ m.edit = n
                          /\ m.call \in Calls /\ n \in DOMAIN pushed' /\ pushed'[n].call = m.call
                          /\ pushed'[n].answered = "none"
            BY <2>5, <1>e
        <3>2. ~ReadMessage /\ loop' = loop /\ msg' = msg /\ captured' = captured
            BY <2>5 DEF ServerPush, loopVars, shared, ReadMessage, Base, Traffic, Reader
        <3>3. CASE j \in DOMAIN toClient
            <4>1. EditAt(j) /\ toClient'[j] = toClient[j]
                BY <1>3, <3>1, <3>3, PutsLast DEF EditAt
            <4> QED
                BY <2>1, <3>2, <3>3, <4>1
        <3>4. CASE j \notin DOMAIN toClient
            <4>1. e = n /\ c = m.call
                BY <1>3, <3>1, <3>4, PutsLast
            <4>2. Undecided(e, c)'
                BY <3>1, <3>2, <4>1, <1>b DEF Undecided
            <4>3. loop \in {"capture", "reply"} => msg.edit \in DOMAIN pushed
                BY <1>d DEF OneEdit
            <4> QED
                BY <3>1, <3>2, <4>1, <4>2, <4>3
        <3> QED
            BY <3>3, <3>4
    <2> QED
        BY <2>2, <2>3, <2>4, <2>5, PipeQuiet
<1>4. ASSUME NEW i \in DOMAIN toClient', NEW j \in DOMAIN toClient', EditAt(i)', EditAt(j)',
             toClient'[i].edit = toClient'[j].edit
      PROVE  i = j
    <2>1. CASE toClient' = toClient
        BY <1>4, <2>1 DEF EditAt, OneEdit
    <2>2. CASE ReadMessage
        <3>1. EditAt(i + 1) /\ EditAt(j + 1) /\ toClient[i + 1].edit = toClient[j + 1].edit /\ i \in Int /\ j \in Int
            BY <1>4, <2>2, TakesHead DEF EditAt
        <3>2. i + 1 = j + 1
            BY <3>1 DEF EditAt, OneEdit
        <3> QED
            BY <3>1, <3>2
    <2>3. CASE ServerAnswer \/ ServerGarbles
        <3>1. PICK m : toClient' = Append(toClient, m) /\ m.kind # "applyEdit"
            BY <2>3, PutsAnswer
        <3>2. EditAt(i) /\ EditAt(j) /\ toClient[i].edit = toClient[j].edit
            BY <1>4, <3>1, PutsLast DEF EditAt
        <3> QED
            BY <3>2 DEF EditAt, OneEdit
    <2>4. CASE ServerPush
        <3>1. PICK m, n : toClient' = Append(toClient, m) /\ n \notin DOMAIN pushed /\ m.edit = n
            BY <2>4, <1>e
        <3>2. /\ \A k \in DOMAIN toClient : EditAt(k)' => EditAt(k) /\ toClient'[k] = toClient[k] /\ toClient[k].edit # n
              /\ \A k \in DOMAIN toClient' \ DOMAIN toClient : k = Len(toClient) + 1 /\ toClient'[k].edit = n
            BY <3>1, <1>c, PutsLast DEF EditAt
        <3>3. \A k, l : EditAt(k) /\ EditAt(l) /\ toClient[k].edit = toClient[l].edit => k = l
            BY DEF EditAt, OneEdit
        <3> QED
            BY <1>4, <3>2, <3>3
    <2> QED
        BY <2>1, <2>2, <2>3, <2>4, PipeQuiet
<1>5. ASSUME loop' = "capture", NEW e, e = msg'.edit, NEW c, c = msg'.call
      PROVE  Undecided(e, c)'
    <2>1. CASE ReadMessage
        <3>1. EditAt(1) /\ 1 \in DOMAIN toClient /\ msg' = toClient[1]
            BY <1>5, <2>1, TakesHead
        <3>2. Undecided(e, c) /\ c \in Calls /\ ~Capture /\ ~Reply
            BY <1>5, <2>1, <3>1, <1>c DEF ReadMessage, Capture, Reply
        <3> QED
            BY <3>2, StaysUndecided
    <2>2. CASE ~ReadMessage
        <3>1. loop = "capture" /\ msg' = msg
            BY <1>5, <2>2, CaptureWaits
        <3>2. Undecided(e, c) /\ c \in Calls /\ ~Capture /\ ~Reply
            BY <1>5, <3>1, <1>d DEF Capture, Reply
        <3> QED
            BY <3>2, StaysUndecided
    <2> QED
        BY <2>1, <2>2
<1>6. ASSUME loop' = "reply"
      PROVE  /\ msg'.edit \in DOMAIN pushed' /\ pushed'[msg'.edit].call = msg'.call
             /\ pushed'[msg'.edit].answered = "none"
             /\ msg'.kind = "applied" <=> msg'.edit \in captured'[msg'.call]
    <2>1. CASE Capture
        <3>1. pushed' = pushed
            BY <2>1 DEF Capture, serverVars
        <3> QED
            BY <2>1, <3>1, <1>b, CapturesOwn DEF Undecided
    <2>2. CASE ~Capture
        <3>1. loop = "reply" /\ msg' = msg /\ ~Reply /\ captured' = captured
            BY <1>6, <2>2, ReplyWaits, OnlyCaptureCaptures
        <3>2. /\ msg.edit \in DOMAIN pushed /\ pushed[msg.edit].call = msg.call
              /\ pushed[msg.edit].answered = "none"
              /\ msg.kind = "applied" <=> msg.edit \in captured[msg.call]
            BY <3>1 DEF OneEdit
        <3> QED
            BY <3>1, <3>2, PushedKeeps
    <2> QED
        BY <2>1, <2>2
<1> QED
    BY <1>1, <1>2, <1>3, <1>4, <1>5, <1>6 DEF OneEdit, Called, Undecided

\* The reply a server got says what became of the edit.
LEMMA StepToldTheTruth ==
    ASSUME Base, OneCommand, Armed, OneEdit, ToldTheTruth, [Next]_vars
    PROVE  ToldTheTruth'
<1> SUFFICES ASSUME NEW e \in DOMAIN pushed', pushed'[e].answered # "none"
             PROVE  pushed'[e].answered = "applied" <=> e \in captured'[pushed'[e].call]
    BY DEF ToldTheTruth
<1>1. e \in DOMAIN pushed /\ pushed'[e].call = pushed[e].call /\ pushed[e].call \in Calls
    <2>1. ASSUME e \notin DOMAIN pushed PROVE FALSE
        <3>1. PICK m \in work \cup old :
                  /\ e = Len(pushed) + 1
                  /\ pushed'[e] = [call |-> m.call, early |-> m \in work, answered |-> "none"]
            BY <2>1, PushedKeeps
        <3>2. pushed'[e].answered = "none"
            BY <3>1
        <3> QED
            BY <3>2
    <2> QED
        BY <2>1, PushedKeeps, PushesHaveCalls
<1>2. CASE Capture
    <2>1. pushed' = pushed
        BY <1>2 DEF Capture, serverVars
    <2>2. e # msg.edit
        BY <1>2, <2>1, CapturesOwn DEF Undecided
    <2>3. e \in captured'[pushed[e].call] <=> e \in captured[pushed[e].call]
        <3> DEFINE k == pushed[e].call
        <3>1. k \in Calls /\ captured \in [Calls -> SUBSET DOMAIN pushed]
            BY <1>1 DEF OneEdit
        <3> HIDE DEF k
        <3>2. captured' = captured \/ captured' = [captured EXCEPT ![msg.call] = @ \cup {msg.edit}]
            BY <1>2, CapturesOwn
        <3>3. e \in captured'[k] <=> e \in captured[k]
            BY <2>2, <3>1, <3>2
        <3> QED
            BY <3>3 DEF k
    <2> QED
        BY <1>1, <2>1, <2>3 DEF ToldTheTruth
<1>3. CASE ~Capture /\ pushed'[e].answered = pushed[e].answered
    BY <1>1, <1>3, OnlyCaptureCaptures DEF ToldTheTruth
<1>4. CASE ~Capture /\ Reply /\ e = msg.edit /\ pushed'[e].answered = msg.kind
    BY <1>1, <1>4, OnlyCaptureCaptures DEF OneEdit, Reply
<1> QED
    BY <1>1, <1>2, <1>3, <1>4, PushedKeeps

\* While its command waits an edit finds the sink armed: one that is refused
\* comes after the command has ended, without a success if the edit is early.
LEMMA RefusedAfterFailure ==
    ASSUME Base, Results, Armed, InOrder, OneEdit, NEW e, NEW c \in Calls, Early(e, c),
           Capture, msg.edit = e, sink = 0
    PROVE  result[c] = "err"
<1>1. Script[c] = "command" /\ Called(c)
    BY DEF OneEdit, Early
<1>2. c # step
    BY <1>1 DEF Called, Armed, Kind, Base, Control, Calls
<1>3. result[c] \in {"ok", "err"}
    BY <1>1, <1>2 DEF Called
<1>4. ~Seen(c)
    BY DEF InOrder, Capture
<1>5. result[c] # "ok"
    BY <1>1, <1>4 DEF Seen, Results
<1> QED
    BY <1>3, <1>5

\* A capture waits for readLoop.
LEMMA CaptureStays ==
    ASSUME [Next]_vars, ~Capture, loop = "capture"
    PROVE  loop' = "capture" /\ msg' = msg
BY DEF Next, MainStep, LoopStep, ServerStep,
       Begin, Arm, Register, WriteCall, WriteFails, TakeBuffered, TakeDone, Park,
       Timeout, GiveUp, Received, Collect, Disarm, Exit, Wait, ReadMessage,
       ReadFails, Lookup, Send, Reply, DrainOne, DrainEnd, Cancel, ServerRead,
       ServerAnswer, ServerPush, ServerGarbles, ServerExit, mainVars, shared,
       loopVars, serverVars, pipes, vars

\* readLoop takes an edit that is at the head of the pipe, and no other.
LEMMA ReadsEdit ==
    ASSUME Base, [Next]_vars, ReadMessage, NEW j \in DOMAIN toClient, EditAt(j), NEW e, e = toClient[j].edit
    PROVE  InFlight(e)'
<1>1. /\ toClient # <<>> /\ msg' = Head(toClient) /\ toClient' = Tail(toClient)
      /\ loop' = CASE msg'.kind = "response" -> "lookup"
                   [] msg'.kind = "applyEdit" -> "capture"
                   [] msg' = Malformed -> "drain"
    BY DEF ReadMessage
<1>2. toClient \in Seq({Malformed} \cup OwnResponses \cup EditRequests)
    BY DEF Base, Traffic, Pipes
<1>3. Len(toClient) \in Nat /\ DOMAIN toClient = 1 .. Len(toClient)
    BY <1>2
<1>4. CASE j = 1
    <2>1. msg' = toClient[1] /\ msg'.kind = "applyEdit" /\ msg' # Malformed
        BY <1>1, <1>2, <1>4 DEF EditAt, Malformed
    <2>2. loop' = "capture"
        BY <1>1, <2>1 DEF Malformed
    <2> QED
        BY <2>1, <2>2, <1>4 DEF InFlight
<1>5. CASE j # 1
    <2>1. j - 1 \in DOMAIN toClient' /\ toClient'[j - 1] = toClient[j]
        <3>1. DOMAIN Tail(toClient) = 1 .. Len(toClient) - 1
            BY <1>1, <1>2
        <3>2. j \in Nat /\ j - 1 \in 1 .. Len(toClient) - 1 /\ (j - 1) + 1 = j
            BY <1>3, <1>5
        <3>3. \A i \in 1 .. Len(toClient) - 1 : Tail(toClient)[i] = toClient[i + 1]
            BY <1>1, <1>2
        <3> QED
            BY <1>1, <3>1, <3>2, <3>3
    <2>2. EditAt(j - 1)' /\ toClient'[j - 1].edit = e
        BY <2>1 DEF EditAt
    <2> QED
        BY <2>1, <2>2 DEF InFlight
<1> QED
    BY <1>4, <1>5

\* An early edit is never lost while its command may still succeed.
LEMMA StepNoneLost ==
    ASSUME Base, OneCommand, Results, Armed, OneRequest, Answers, InOrder, OneEdit, NoneLost, [Next]_vars
    PROVE  NoneLost'
<1> SUFFICES ASSUME NEW c \in Calls, NEW e \in DOMAIN pushed', Early(e, c)'
             PROVE  /\ e \in captured'[c] \/ InFlight(e)' \/ result'[c] = "err"
                    /\ result'[c] = "ok" => e \in edits'[c]
    BY DEF NoneLost
<1>a. result[c] = "ok" => Seen(c) /\ Answered(c) /\ Early(e, c)
    <2> SUFFICES ASSUME result[c] = "ok" PROVE Seen(c) /\ Answered(c) /\ Early(e, c)
        OBVIOUS
    <2>1. Script[c] = "command"
        <3>1. OneEdit'
            BY StepOneEdit
        <3> QED
            BY <3>1 DEF OneEdit, Early
    <2>2. Seen(c) /\ Answered(c)
        BY <2>1 DEF Results, Seen, Answers
    <2> QED
        BY <2>2, NoLateEarly
<1>b. Script[c] = "command"
    <2>1. OneEdit'
        BY StepOneEdit
    <2> QED
        BY <2>1 DEF OneEdit, Early
<1>1. CASE e \in DOMAIN pushed
    <2>1. Early(e, c)
        BY <1>1, PushedKeeps DEF Early
    <2>2. /\ e \in captured[c] \/ InFlight(e) \/ result[c] = "err"
          /\ result[c] = "ok" => e \in edits[c]
        BY <1>1, <2>1 DEF NoneLost
    <2>3. e \in captured'[c] \/ InFlight(e)' \/ result'[c] = "err"
        <3>1. CASE result[c] = "err"
            BY <3>1, ResultsLast
        <3>2. CASE e \in captured[c]
            <4>1. CASE Capture
                BY <3>2, <4>1, CapturesOwn DEF OneEdit
            <4>2. CASE ~Capture
                BY <3>2, <4>2, OnlyCaptureCaptures
            <4> QED
                BY <4>1, <4>2
        <3>3. CASE InFlight(e)
            <4>1. CASE loop = "capture" /\ msg.edit = e
                <5>1. CASE Capture
                    <6>1. CASE sink = 0
                        <7>1. result[c] = "err"
                            BY <2>1, <4>1, <5>1, <6>1, RefusedAfterFailure
                        <7> QED
                            BY <7>1, ResultsLast
                    <6>2. CASE sink # 0
                        BY <1>1, <2>1, <4>1, <5>1, <6>2, CapturesOwn DEF Early,
                           Undecided, OneEdit
                    <6> QED
                        BY <6>1, <6>2
                <5>2. CASE ~Capture
                    BY <4>1, <5>2, CaptureStays DEF InFlight
                <5> QED
                    BY <5>1, <5>2
            <4>2. ASSUME NEW j \in DOMAIN toClient, EditAt(j), toClient[j].edit = e
                  PROVE  InFlight(e)'
                <5>1. CASE toClient' = toClient
                    BY <4>2, <5>1 DEF InFlight, EditAt
                <5>2. CASE ReadMessage
                    BY <4>2, <5>2, ReadsEdit
                <5>3. CASE ServerPush \/ ServerAnswer \/ ServerGarbles
                    <6>1. PICK m : toClient' = Append(toClient, m)
                        BY <5>3 DEF ServerPush, ServerAnswer, ServerGarbles
                    <6> QED
                        BY <4>2, <6>1, PutsLast DEF InFlight, EditAt
                <5> QED
                    BY <5>1, <5>2, <5>3, PipeQuiet
            <4> QED
                BY <3>3, <4>1, <4>2 DEF InFlight
        <3> QED
            BY <2>2, <3>1, <3>2, <3>3
    <2>4. ASSUME result'[c] = "ok" PROVE e \in edits'[c]
        <3>1. CASE result[c] = "ok"
            BY <2>2, <3>1, ResultsLast
        <3>2. CASE result[c] # "ok"
            <4>1. Collect /\ c = step
                BY <1>b, <2>4, <3>2, SucceedsByCollecting
            <4>2. edits'[c] = captured[c] /\ result[c] # "err" /\ got[c] # 0
                <5>1. edits' = [edits EXCEPT ![step] = captured[step]] /\ main = "collect"
                    BY <4>1 DEF Collect
                <5>2. DOMAIN edits = Calls
                    BY DEF Results
                <5> QED
                    BY <4>1, <5>1, <5>2 DEF Results
            <4>3. ~InFlight(e)
                <5>1. Seen(c)
                    BY <4>2 DEF Seen
                <5> QED
                    BY <2>1, <5>1 DEF InFlight, InOrder
            <4> QED
                BY <2>2, <4>2, <4>3
        <3> QED
            BY <3>1, <3>2
    <2> QED
        BY <2>3, <2>4
<1>2. CASE e \notin DOMAIN pushed
    <2>1. ~Early(e, c)
        BY <1>2 DEF Early
    <2>2. ServerPush
        BY <1>2, PushedKeeps
    <2>3. InFlight(e)'
        <3>1. PICK m \in work \cup old :
                  /\ e = Len(pushed) + 1
                  /\ toClient' = Append(toClient, ApplyEdit(m.call, Len(pushed) + 1))
            BY <1>2, <2>2, PushedKeeps
        <3>2. ApplyEdit(m.call, e).kind = "applyEdit" /\ ApplyEdit(m.call, e).edit = e
            BY DEF ApplyEdit
        <3> QED
            BY <3>1, <3>2, PutsLast DEF InFlight, EditAt
    <2>4. result' = result
        BY <2>2 DEF ServerPush, mainVars
    <2> QED
        BY <2>1, <2>3, <2>4, <1>a
<1> QED
    BY <1>1, <1>2

(* ------------------------------ the theorem ------------------------------ *)

ClientInv ==
    /\ Base /\ Results /\ Armed
    /\ OneRequest /\ Answers /\ InOrder /\ OneEdit /\ ToldTheTruth /\ NoneLost

\* Nothing has been written, pushed or captured.
LEMMA InitClientInv == Init => ClientInv
<1> SUFFICES ASSUME Init PROVE ClientInv
    OBVIOUS
<1>1. Base
    BY InitControl, InitNumbering, InitTraffic DEF Base
<1>2. main = "next" /\ step = 1 /\ loop = "read" /\ sink = 0 /\ step \in Calls
    BY <1>1 DEF Init, Base, Control
<1>3. /\ toServer = <<>> /\ toClient = <<>> /\ pushed = <<>>
      /\ DOMAIN toServer = {} /\ DOMAIN toClient = {} /\ DOMAIN pushed = {}
      /\ work = {} /\ old = {}
    BY DEF Init
<1>4. Results /\ Armed
    BY <1>2 DEF Init, Results, Armed
<1>5. \A c \in Calls : ~Seen(c)
    BY <1>2 DEF Init, Seen, Nothing
<1>6. OneRequest /\ Answers /\ InOrder
    BY <1>2, <1>3, <1>5 DEF OneRequest, Answers, InOrder
<1>7. captured \in [Calls -> SUBSET DOMAIN pushed]
    BY DEF Init
<1>8. OneEdit /\ ToldTheTruth /\ NoneLost
    BY <1>2, <1>3, <1>7 DEF OneEdit, ToldTheTruth, NoneLost
<1> QED
    BY <1>1, <1>4, <1>6, <1>8 DEF ClientInv

\* With one command in the script the invariant is inductive.
LEMMA StepClientInv == OneCommand /\ ClientInv /\ [Next]_vars => ClientInv'
<1> SUFFICES ASSUME OneCommand, ClientInv, [Next]_vars PROVE ClientInv'
    OBVIOUS
<1> USE DEF ClientInv
<1>1. Base' /\ Results' /\ Armed'
    BY StepBase, StepResults, StepArmed
<1>2. OneRequest' /\ Answers' /\ InOrder'
    BY StepOneRequest, StepAnswers, StepInOrder
<1>3. OneEdit' /\ ToldTheTruth' /\ NoneLost'
    BY StepOneEdit, StepToldTheTruth, StepNoneLost
<1> QED
    BY <1>1, <1>2, <1>3

\* A command that succeeds returns every edit the server requested before it
\* answered, and what the server is told agrees with what the sink holds, however
\* the requests, the answers, a timeout and the capture interleave.
THEOREM CommandsReturnTheirEdits ==
    ASSUME OneCommand
    PROVE  Spec => []EditsComplete
<1>1. ClientInv => EditsComplete
    <2> SUFFICES ASSUME ClientInv, NEW e \in DOMAIN pushed, NEW c, c = pushed[e].call
                 PROVE  /\ pushed[e].early /\ result[c] = "ok" => e \in edits[c]
                        /\ pushed[e].answered # "none" => (pushed[e].answered = "applied" <=> e \in captured[c])
        BY DEF EditsComplete
    <2>1. c \in Calls
        BY PushesHaveCalls DEF ClientInv
    <2>2. pushed[e].early => Early(e, c)
        BY DEF Early
    <2>3. pushed[e].early /\ result[c] = "ok" => e \in edits[c]
        BY <2>1, <2>2 DEF ClientInv, NoneLost
    <2>4. pushed[e].answered # "none" => (pushed[e].answered = "applied" <=> e \in captured[c])
        BY DEF ClientInv, ToldTheTruth
    <2> QED
        BY <2>3, <2>4
<1>2. ClientInv /\ [Next]_vars => ClientInv'
    BY StepClientInv
<1> QED
    BY InitClientInv, <1>1, <1>2, PTL DEF Spec
=============================================================================
