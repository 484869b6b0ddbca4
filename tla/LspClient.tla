------------------------------ MODULE LspClient ------------------------------
(* The JSON-RPC client of internal/backend/lsp: the goroutine of the command  *)
(* that runs sends notifications and requests and finally shuts the server    *)
(* down, readLoop dispatches what the server sends, and the two share the map *)
(* of pending requests and the applyEdit sink under one mutex.                *)
(*                                                                            *)
(* A request waits on a channel of capacity one.  A send to a goroutine that  *)
(* is already parked in its select is a hand-off that resolves the select; a  *)
(* send before or after that is buffered, and a second one blocks.  The       *)
(* mutex is held across a blocking operation only while readLoop drains the   *)
(* pending requests, so the other critical sections are single steps that     *)
(* need MuFree.                                                               *)
EXTENDS Integers, Sequences, SequencesExt

CONSTANTS
    Script,     \* the kinds of the calls of one run, the last one "shutdown"
    PipeCap,    \* bound: messages the server's stdin pipe holds
    MaxEdits,   \* bound: applyEdit requests of the server in one run
    CanFail,    \* the server may exit on its own or send a malformed frame
    CanCancel   \* the context of the command may be cancelled

Kinds == {"notify", "request", "command", "shutdown"}

ASSUME ClientAssumption ==
    /\ Script \in Seq(Kinds) /\ Script # <<>> /\ Script[Len(Script)] = "shutdown"
    /\ PipeCap \in Nat \ {0} /\ MaxEdits \in Nat
    /\ CanFail \in BOOLEAN /\ CanCancel \in BOOLEAN

VARIABLES
    main,       \* where the calling goroutine is
    step,       \* the call of the Script it is at
    nextID, id, \* the last request id given out, the id of the current request
    result,     \* per call: "none", "ok" or "err"
    got,        \* per call: the answer a successful request returned
    edits,      \* per call: the edits a successful command returned
    pending,    \* ids in Client.pending
    chan,       \* id -> the message buffered in its channel
    sink,       \* the call whose applyEditSink is armed, 0 when none is
    captured,   \* call -> the edits its sink holds
    loop,       \* where readLoop is
    msg,        \* the message readLoop handles
    cancelled,  \* the base context is cancelled
    toServer, toClient,             \* the two pipes
    server,     \* "up", or "gone"
    work, old,  \* requests the server has read: unanswered, answered
    pushed      \* its applyEdit requests: the call, whether it was unanswered
                \* then, and what the client replied

mainVars == <<main, step, nextID, id, result, got, edits>>
shared == <<pending, chan, sink, captured>>
loopVars == <<loop, msg>>
serverVars == <<server, work, old, pushed>>
pipes == <<toServer, toClient>>
vars == <<main, step, nextID, id, result, got, edits, pending, chan, sink,
          captured, loop, msg, cancelled, toServer, toClient, server, work, old,
          pushed>>

Calls == 1 .. Len(Script)
Kind == Script[step]
MuFree == loop # "drain"
Nothing == [kind |-> "none"]
Eof == [kind |-> "eof"]
Malformed == [kind |-> "malformed"]
Request(m, c) == [kind |-> "request", id |-> m, call |-> c]
Response(m, c) == [kind |-> "response", id |-> m, call |-> c]
ApplyEdit(c, e) == [kind |-> "applyEdit", call |-> c, edit |-> e]

Init ==
    /\ main = "next" /\ step = 1 /\ nextID = 0 /\ id = 0
    /\ result = [c \in Calls |-> "none"]
    /\ got = [c \in Calls |-> 0]
    /\ edits = [c \in Calls |-> {}]
    /\ pending = {} /\ chan = [m \in Calls |-> Nothing]
    /\ sink = 0 /\ captured = [c \in Calls |-> {}]
    /\ loop = "read" /\ msg = Nothing
    /\ cancelled = FALSE
    /\ toServer = <<>> /\ toClient = <<>>
    /\ server = "up" /\ work = {} /\ old = {} /\ pushed = <<>>

(* ------------------------- the calling goroutine ------------------------ *)

\* The call returns: the command goes on after a success and shuts the server
\* down after an error.
Finish(how) ==
    /\ result' = [result EXCEPT ![step] = how]
    /\ IF Kind = "shutdown" THEN main' = "done" /\ step' = step
       ELSE /\ main' = "next"
            /\ step' = IF how = "ok" THEN step + 1 ELSE Len(Script)

\* The goroutine starts its next call.
Begin ==
    /\ main = "next"
    /\ main' = CASE Kind = "notify" -> "write"
                 [] Kind = "command" -> "arm"
                 [] OTHER -> "register"
    /\ UNCHANGED <<step, nextID, id, result, got, edits, shared, loopVars, cancelled,
                   pipes, serverVars>>

\* armApplyEditCapture
Arm ==
    /\ main = "arm" /\ MuFree
    /\ sink' = step
    /\ main' = "register"
    /\ UNCHANGED <<step, nextID, id, result, got, edits, pending, chan, captured,
                   loopVars, cancelled, pipes, serverVars>>

\* Faulty variants, here and below: mistakes TLC must notice when they take the
\* place of the definition that follows.  The lowest id that is not pending is
\* given out again.
RegisterReusesId ==
    /\ main = "register" /\ MuFree
    /\ \E m \in Calls \ pending :
           /\ 1 .. m - 1 \subseteq pending
           /\ nextID' = m /\ id' = m
           /\ pending' = pending \cup {m}
    /\ main' = "write"
    /\ UNCHANGED <<step, result, got, edits, chan, sink, captured, loopVars, cancelled,
                   pipes, serverVars>>

\* request: a fresh id and its channel
Register ==
    /\ main = "register" /\ MuFree
    /\ nextID' = nextID + 1 /\ id' = nextID + 1
    /\ pending' = pending \cup {nextID + 1}
    /\ main' = "write"
    /\ UNCHANGED <<step, result, got, edits, chan, sink, captured, loopVars, cancelled,
                   pipes, serverVars>>

\* transport.Write: waits while the pipe is full, fails once the server is gone.
WriteCall ==
    /\ main = "write" /\ server = "up" /\ Len(toServer) < PipeCap
    /\ toServer' = Append(toServer, IF Kind = "notify" THEN Nothing
                                    ELSE Request(id, step))
    /\ IF Kind = "notify" THEN Finish("ok")
       ELSE main' = "enter" /\ UNCHANGED <<step, result>>
    /\ UNCHANGED <<nextID, id, got, edits, shared, loopVars, cancelled, toClient,
                   serverVars>>

WriteFails ==
    /\ main = "write" /\ server = "gone"
    /\ IF Kind = "notify" THEN Finish("err")
       ELSE main' = "giveUp" /\ UNCHANGED <<step, result>>
    /\ UNCHANGED <<nextID, id, got, edits, shared, loopVars, cancelled, pipes,
                   serverVars>>

\* The select of request: any case that is ready may be taken ...
TakeBuffered ==
    /\ main = "enter" /\ chan[id] # Nothing
    /\ got' = [got EXCEPT ![step] = IF chan[id].kind = "response"
                                    THEN chan[id].call ELSE 0]
    /\ chan' = [chan EXCEPT ![id] = Nothing]
    /\ main' = "received"
    /\ UNCHANGED <<step, nextID, id, result, edits, pending, sink, captured, loopVars,
                   cancelled, pipes, serverVars>>

TakeDone ==
    /\ main = "enter" /\ (cancelled \/ loop = "closed")
    /\ main' = "giveUp"
    /\ UNCHANGED <<step, nextID, id, result, got, edits, shared, loopVars, cancelled,
                   pipes, serverVars>>

\* ... and the goroutine parks when none is.
Park ==
    /\ main = "enter" /\ chan[id] = Nothing /\ ~cancelled /\ loop # "closed"
    /\ main' = "parked"
    /\ UNCHANGED <<step, nextID, id, result, got, edits, shared, loopVars, cancelled,
                   pipes, serverVars>>

\* Faulty: the shutdown request has no timer.
TimeoutButNotShutdown ==
    /\ main = "parked" /\ Kind # "shutdown"
    /\ main' = "giveUp"
    /\ UNCHANGED <<step, nextID, id, result, got, edits, shared, loopVars, cancelled,
                   pipes, serverVars>>

\* requestTimeout elapses.
Timeout ==
    /\ main = "parked"
    /\ main' = "giveUp"
    /\ UNCHANGED <<step, nextID, id, result, got, edits, shared, loopVars, cancelled,
                   pipes, serverVars>>

\* Faulty: a failed shutdown leaves the server to itself.
GiveUpNoKill ==
    /\ main = "giveUp" /\ MuFree
    /\ pending' = pending \ {id}
    /\ IF Kind = "command"
       THEN /\ main' = "disarm" /\ result' = [result EXCEPT ![step] = "err"]
            /\ UNCHANGED step
       ELSE Finish("err")
    /\ UNCHANGED <<nextID, id, got, edits, chan, sink, captured, loopVars, cancelled,
                   pipes, serverVars>>

\* A failed request removes itself from pending; a failed shutdown kills and
\* reaps the server, a failed command still disarms.
GiveUp ==
    /\ main = "giveUp" /\ MuFree
    /\ pending' = pending \ {id}
    /\ IF Kind = "command"
       THEN /\ main' = "disarm" /\ result' = [result EXCEPT ![step] = "err"]
            /\ UNCHANGED <<step, server>>
       ELSE /\ Finish("err")
            /\ server' = IF Kind = "shutdown" THEN "gone" ELSE server
    /\ UNCHANGED <<nextID, id, got, edits, chan, sink, captured, loopVars, cancelled,
                   pipes, work, old, pushed>>

\* request returns the response, or the error readLoop put in its place.
Received ==
    /\ main = "received"
    /\ CASE got[step] = 0 /\ Kind = "command" ->
               /\ main' = "disarm" /\ result' = [result EXCEPT ![step] = "err"]
               /\ UNCHANGED <<step, server>>
         [] got[step] = 0 /\ Kind # "command" ->
               /\ Finish("err")
               /\ server' = IF Kind = "shutdown" THEN "gone" ELSE server
         [] got[step] # 0 /\ Kind = "request" -> Finish("ok") /\ UNCHANGED server
         [] got[step] # 0 /\ Kind = "command" ->
               main' = "collect" /\ UNCHANGED <<step, result, server>>
         [] got[step] # 0 /\ Kind = "shutdown" ->
               main' = "exit" /\ UNCHANGED <<step, result, server>>
    /\ UNCHANGED <<nextID, id, got, edits, shared, loopVars, cancelled, pipes, work,
                   old, pushed>>

\* ExecuteCommand copies what its sink captured.
Collect ==
    /\ main = "collect" /\ MuFree
    /\ edits' = [edits EXCEPT ![step] = captured[step]]
    /\ result' = [result EXCEPT ![step] = "ok"]
    /\ main' = "disarm"
    /\ UNCHANGED <<step, nextID, id, got, shared, loopVars, cancelled, pipes,
                   serverVars>>

Disarm ==
    /\ main = "disarm" /\ MuFree
    /\ sink' = 0
    /\ Finish(result[step])
    /\ UNCHANGED <<nextID, id, got, edits, pending, chan, captured, loopVars, cancelled,
                   pipes, serverVars>>

\* Shutdown: the exit notification; when it cannot be sent the server is killed.
Exit ==
    /\ main = "exit"
    /\ \/ /\ server = "up" /\ Len(toServer) < PipeCap
          /\ toServer' = Append(toServer, Eof)
          /\ main' = "wait" /\ UNCHANGED <<step, result>>
       \/ /\ server = "gone"
          /\ Finish("err") /\ UNCHANGED toServer
    /\ UNCHANGED <<nextID, id, got, edits, shared, loopVars, cancelled, toClient,
                   serverVars>>

\* waitProcessTimeout: the server exits by itself or is killed and reaped.
Wait ==
    /\ main = "wait"
    /\ server' = "gone"
    /\ \E how \in {"ok", "err"} : Finish(how)
    /\ UNCHANGED <<nextID, id, got, edits, shared, loopVars, cancelled, pipes, work,
                   old, pushed>>

(* ------------------------------- readLoop ------------------------------- *)

ReadMessage ==
    /\ loop = "read" /\ toClient # <<>>
    /\ msg' = Head(toClient) /\ toClient' = Tail(toClient)
    /\ loop' = CASE msg'.kind = "response" -> "lookup"
                 [] msg'.kind = "applyEdit" -> "capture"
                 [] msg' = Malformed -> "drain"
    /\ UNCHANGED <<mainVars, shared, cancelled, toServer, serverVars>>

ReadFails ==
    /\ loop = "read" /\ toClient = <<>> /\ server = "gone"
    /\ loop' = "drain"
    /\ UNCHANGED <<mainVars, shared, msg, cancelled, pipes, serverVars>>

\* The channel is looked up under the mutex, the send happens after it.
Lookup ==
    /\ loop = "lookup"
    /\ loop' = IF msg.id \in pending THEN "send" ELSE "read"
    /\ UNCHANGED <<mainVars, shared, msg, cancelled, pipes, serverVars>>

\* ch <- answer: handed to the parked goroutine or buffered; blocks when the
\* buffer is taken.
SendTo(m, answer) ==
    IF main = "parked" /\ id = m
    THEN /\ main' = "received"
         /\ got' = [got EXCEPT ![step] = IF answer.kind = "response"
                                         THEN answer.call ELSE 0]
         /\ UNCHANGED chan
    ELSE /\ chan[m] = Nothing
         /\ chan' = [chan EXCEPT ![m] = answer]
         /\ UNCHANGED <<main, got>>

Send ==
    /\ loop = "send"
    /\ SendTo(msg.id, msg)
    /\ loop' = "read"
    /\ UNCHANGED <<step, nextID, id, result, edits, pending, sink, captured, msg,
                   cancelled, pipes, serverVars>>

\* Faulty: a later edit takes the place of the earlier one.
CaptureLast ==
    /\ loop = "capture"
    /\ captured' = IF sink = 0 THEN captured
                   ELSE [captured EXCEPT ![sink] = {msg.edit}]
    /\ msg' = [msg EXCEPT !.kind = IF sink = 0 THEN "refused" ELSE "applied"]
    /\ loop' = "reply"
    /\ UNCHANGED <<mainVars, pending, chan, sink, cancelled, pipes, serverVars>>

\* handleApplyEdit: the edit goes to the armed sink ...
Capture ==
    /\ loop = "capture"
    /\ captured' = IF sink = 0 THEN captured
                   ELSE [captured EXCEPT ![sink] = @ \cup {msg.edit}]
    /\ msg' = [msg EXCEPT !.kind = IF sink = 0 THEN "refused" ELSE "applied"]
    /\ loop' = "reply"
    /\ UNCHANGED <<mainVars, pending, chan, sink, cancelled, pipes, serverVars>>

\* ... and the reply says whether there was one; a write error is ignored.
Reply ==
    /\ loop = "reply"
    /\ \/ /\ server = "up" /\ Len(toServer) < PipeCap
          /\ toServer' = Append(toServer, Nothing)
          /\ pushed' = [pushed EXCEPT ![msg.edit].answered = msg.kind]
       \/ server = "gone" /\ UNCHANGED <<toServer, pushed>>
    /\ loop' = "read"
    /\ UNCHANGED <<mainVars, shared, msg, cancelled, toClient, server, work, old>>

\* After a read error every pending request gets an error, mutex held.
DrainOne ==
    /\ loop = "drain"
    /\ \E m \in pending :
           /\ SendTo(m, Eof)
           /\ pending' = pending \ {m}
    /\ UNCHANGED <<step, nextID, id, result, edits, sink, captured, loopVars, cancelled,
                   pipes, serverVars>>

\* readLoop returns and closes done, which resolves a parked select.
DrainEnd ==
    /\ loop = "drain" /\ pending = {}
    /\ loop' = "closed"
    /\ main' = IF main = "parked" THEN "giveUp" ELSE main
    /\ UNCHANGED <<step, nextID, id, result, got, edits, shared, msg, cancelled, pipes,
                   serverVars>>

(* ------------------------------ environment ----------------------------- *)

\* A signal cancels the base context, which resolves a parked select.
Cancel ==
    /\ CanCancel /\ ~cancelled /\ main # "done"
    /\ cancelled' = TRUE
    /\ main' = IF main = "parked" THEN "giveUp" ELSE main
    /\ UNCHANGED <<step, nextID, id, result, got, edits, shared, loopVars, pipes,
                   serverVars>>

\* The server reads its stdin; it exits on the exit notification.
ServerRead ==
    /\ server = "up" /\ toServer # <<>>
    /\ toServer' = Tail(toServer)
    /\ work' = IF Head(toServer).kind = "request" THEN work \cup {Head(toServer)}
               ELSE work
    /\ server' = IF Head(toServer) = Eof THEN "gone" ELSE server
    /\ UNCHANGED <<mainVars, shared, loopVars, cancelled, toClient, old, pushed>>

\* It answers its requests in any order, or never.
ServerAnswer ==
    /\ server = "up"
    /\ \E m \in work :
           /\ toClient' = Append(toClient, Response(m.id, m.call))
           /\ work' = work \ {m} /\ old' = old \cup {m}
    /\ UNCHANGED <<mainVars, shared, loopVars, cancelled, toServer, server, pushed>>

\* A command makes it request edits, usually but not always before its answer.
ServerPush ==
    /\ server = "up" /\ Len(pushed) < MaxEdits
    /\ \E m \in work \cup old :
           /\ Script[m.call] = "command"
           /\ toClient' = Append(toClient, ApplyEdit(m.call, Len(pushed) + 1))
           /\ pushed' = Append(pushed, [call |-> m.call, early |-> m \in work,
                                       answered |-> "none"])
    /\ UNCHANGED <<mainVars, shared, loopVars, cancelled, toServer, server, work, old>>

\* A frame without a usable Content-Length: Read fails, the server lives on.
ServerGarbles ==
    /\ CanFail /\ server = "up"
    /\ loop \notin {"drain", "closed"} /\ Malformed \notin Range(toClient)
    /\ toClient' = Append(toClient, Malformed)
    /\ UNCHANGED <<mainVars, shared, loopVars, cancelled, toServer, serverVars>>

ServerExit ==
    /\ CanFail /\ server = "up"
    /\ server' = "gone"
    /\ UNCHANGED <<mainVars, shared, loopVars, cancelled, pipes, work, old, pushed>>

MainStep ==
    \/ Begin \/ Arm \/ Register \/ WriteCall \/ WriteFails
    \/ TakeBuffered \/ TakeDone \/ Park \/ Timeout \/ GiveUp \/ Received
    \/ Collect \/ Disarm \/ Exit \/ Wait

LoopStep ==
    \/ ReadMessage \/ ReadFails \/ Lookup \/ Send \/ Capture \/ Reply
    \/ DrainOne \/ DrainEnd

ServerStep == ServerRead \/ ServerAnswer \/ ServerPush \/ ServerGarbles \/ ServerExit

Next == MainStep \/ LoopStep \/ ServerStep \/ Cancel

Spec == Init /\ [][Next]_vars

\* The two goroutines are scheduled and timers expire; of the server, an
\* external program, nothing is assumed.
FairSpec == Spec /\ WF_vars(MainStep) /\ WF_vars(LoopStep)

(* ------------------------------ properties ------------------------------ *)

\* An answer that comes after its request timed out is never taken for the
\* answer to a later request, nor is the error of a drain.
OwnAnswer == \A c \in Calls : got[c] \in {0, c}

\* "the captured edits are complete once request returns": a command that
\* succeeded returns every edit the server requested before answering it, and the
\* server is told applied exactly for the edits that a sink holds, so an edit
\* that refute never looks at is never believed applied.
EditsComplete ==
    \A e \in DOMAIN pushed :
        LET c == pushed[e].call IN
        /\ pushed[e].early /\ result[c] = "ok" => e \in edits[c]
        /\ pushed[e].answered # "none" => (pushed[e].answered = "applied" <=> e \in captured[c])

\* However the run went, Shutdown leaves no server process behind.
ServerReaped == main = "done" => server = "gone"

\* A write to a server that has stopped reading has no timeout.
WriteBlocked == main \in {"write", "exit"} /\ server = "up" /\ Len(toServer) = PipeCap

\* readLoop cannot deliver the error to a request whose answer is still buffered,
\* and holds the mutex that the request needs to give up.
DrainBlocked ==
    /\ loop = "drain" /\ pending # {}
    /\ \A m \in pending : chan[m] # Nothing

\* The command ends, however the server behaves: there are only two ways to hang.
Terminates ==
    \/ <>(main = "done")
    \/ <>[]WriteBlocked
    \/ <>[]DrainBlocked

\* "When [the context] is cancelled in-flight requests return promptly".
CancelledReturns == cancelled ~> main = "done"
=============================================================================
