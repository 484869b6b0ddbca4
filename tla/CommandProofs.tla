---------------------------- MODULE CommandProofs ----------------------------
(* Proofs about Command for any set of requests, any outcome of choosing a     *)
(* backend and any budget of retries.  None of the properties is inductive:    *)
(* each needs to know, for every place of the program, what has not happened   *)
(* yet (Life, Meant, Told, Printed, Counted).                                  *)
EXTENDS Command, TLAPS

Starting == {"validate", "resolve", "build", "initialize"}
Working == {"settle", "prime", "find", "probe", "check kind", "check input", "open", "ask", "list", "capture"}
Writing == {"show", "apply"}
Leaving == {"tier 1", "shutdown"}
Left == {"route", "execute", "finish", "done"}
Places == Starting \cup Working \cup Writing \cup Leaving \cup Left

(* ---------------------------- the server's life -------------------------- *)

\* A server that runs has an adapter whose Shutdown is deferred, except after
\* an initialization that failed.
Life ==
    /\ pc \in Places
    /\ pc \in Starting => server = "none"
    /\ server = "running" => \/ pc \notin Starting \cup Left /\ backend = "lsp"
                             \/ pc \in Left /\ error = "init failed"

\* Every step keeps the server and its adapter together.
LEMMA LifeIsInductive == Life /\ [Next]_vars => Life'
<1> SUFFICES ASSUME Life, [Next]_vars PROVE Life'
    OBVIOUS
<1> USE DEF Life, Places, Starting, Working, Writing, Leaving, Left
<1>1. CASE Validate
    BY <1>1 DEF Validate, Fail, lspVars
<1>2. CASE Resolve
    BY <1>2 DEF Resolve, Fail, lspVars
<1>3. CASE Build
    BY <1>3 DEF Build, SetupFails, Fail
<1>4. CASE InitializeScript
    BY <1>4 DEF InitializeScript, SetupFails, Fail, AfterStart
<1>5. CASE InitializeServer
    BY <1>5 DEF InitializeServer, SetupFails, Fail
<1>6. CASE Settle
    BY <1>6 DEF Settle, SetupFails, Fail, AfterStart
<1>7. CASE Prime
    BY <1>7 DEF Prime
<1>8. CASE FindNothing
    BY <1>8 DEF FindNothing, Fail, lspVars
<1>9. CASE FindFails
    BY <1>9 DEF FindFails, Fail, lspVars
<1>10. CASE Find
    <2>1. pc = "find" /\ pc' \in {"tier 1", "check kind"} /\ UNCHANGED lspVars
        BY <1>10 DEF Find, Fail
    <2> QED
        BY <2>1 DEF lspVars
<1>11. CASE Probe
    BY <1>11 DEF Probe
<1>12. CASE CheckKind
    BY <1>12 DEF CheckKind, Fail, GiveUp, AskNext, lspVars
<1>13. CASE CheckInput
    BY <1>13 DEF CheckInput, Fail, GiveUp, AskNext, lspVars
<1>14. CASE Open
    BY <1>14 DEF Open, Fail, GiveUp
<1>15. CASE AskUnsettled
    <2>1. pc = "ask" /\ pc' \in {"ask", GiveUp} /\ UNCHANGED lspVars
        BY <1>15 DEF AskUnsettled, Fail
    <2> QED
        BY <2>1 DEF GiveUp, lspVars
<1>16. CASE AskRejected
    BY <1>16 DEF AskRejected, Fail, GiveUp, lspVars
<1>17. CASE AskEmpty
    BY <1>17 DEF AskEmpty, Fail, GiveUp, lspVars
<1>18. CASE AskAnswered
    BY <1>18 DEF AskAnswered, lspVars
<1>19. CASE RunScript
    BY <1>19 DEF RunScript, Fail, GiveUp, lspVars
<1>20. CASE List
    BY <1>20 DEF List, Fail, lspVars
<1>21. CASE Capture
    BY <1>21 DEF Capture, lspVars
<1>22. CASE Show
    BY <1>22 DEF Show, Fail, GiveUp, lspVars
<1>23. CASE Apply
    BY <1>23 DEF Apply, GiveUp, lspVars
<1>24. CASE ReturnTier1
    BY <1>24 DEF ReturnTier1, lspVars
<1>25. CASE Shutdown
    BY <1>25 DEF Shutdown
<1>26. CASE Route
    BY <1>26 DEF Route, lspVars
<1>27. CASE Execute
    BY <1>27 DEF Execute, lspVars
<1>28. CASE Finish
    BY <1>28 DEF Finish, lspVars
<1>29. CASE Finished \/ UNCHANGED vars
    BY <1>29 DEF Finished, vars
<1> QED
    BY <1>1, <1>2, <1>3, <1>4, <1>5, <1>6, <1>7, <1>8, <1>9, <1>10, <1>11, <1>12, <1>13,
       <1>14,
       <1>15, <1>16, <1>17, <1>18, <1>19, <1>20, <1>21, <1>22, <1>23, <1>24, <1>25, <1>26, <1>27,
       <1>28, <1>29 DEF Next

\* No command leaves a language server behind, except when the server never
\* becomes idle while it is initialized: the Shutdown deferred after a
\* successful Initialize is on every way out.
THEOREM StopsTheServer == Spec => []ServerIsStopped
<1>1. Init => Life
    BY DEF Init, Life, Places, Starting, Left
<1>2. Life => ServerIsStopped
    BY DEF Life, ServerIsStopped, Done, Starting, Left
<1> QED
    BY <1>1, <1>2, LifeIsInductive, PTL DEF Spec

(* ------------------------- what is done and told ------------------------- *)

Successes == {"applied", "dry-run", "ok"}

\* The kind that the user names fits what the server said, from where it has
\* been compared on; a listing never comes near an edit.
Meant ==
    /\ request \in Requests
    /\ pc = "check input" => request.op # "rename"
    /\ pc \in {"open", "ask", "capture"} \cup Writing => KindFits(request.language, request.kind, kind)
    /\ pc \in {"find", "probe", "check kind", "check input", "open", "ask", "capture"} \cup Writing =>
          request.op # "list-symbols"
    /\ pc = "apply" => ~request.dryRun
    /\ files = "changed" =>
          /\ pc \in Leaving \cup Left
          /\ ~request.dryRun /\ request.op # "list-symbols"
          /\ KindFits(request.language, request.kind, kind)

\* What the telemetry status and the snapshot say at each place.
Told ==
    /\ emitted \in {0, 1, 2, 3}
    /\ pc \notin Leaving \cup Left =>
          /\ error = "none" /\ files = "original" /\ snapshot # "applied" /\ emitted = 0
          /\ pc = "show" => status = "dry-run"
          /\ pc # "show" => status = ""
    /\ pc \in Leaving \cup Left =>
          /\ error = "none" =>
                /\ emitted = 0 /\ status \in Successes
                /\ files = "changed" => status = "applied"
                /\ status = "applied" => files = "changed"
          /\ error # "none" => status \notin Successes
          /\ error \notin {"none", "apply failed"} => files = "original"
          /\ (error # "apply failed" /\ snapshot = "applied") => files = "changed"
    /\ pc = "done" /\ exit = 0 => error = "none"
    /\ pc = "done" /\ error = "none" => exit = 0

ErrorStatuses ==
    {"backend-missing", "backend-failed", "unsupported", "kind-mismatch", "invalid-position", "no-op", "ambiguous"}
ErrorEnvelopes == [status : ErrorStatuses, exit : {1, 2, 3}]

\* What Envelope makes of the status and the exit code of an error.
LEMMA EnvelopeOfError ==
    ASSUME NEW s \in ErrorStatuses, NEW code \in {1, 2, 3}
    PROVE  /\ Envelope(s, code) \in ErrorEnvelopes
           /\ Envelope(s, code).status = s /\ Envelope(s, code).exit = code
BY DEF Envelope, ErrorEnvelopes

\* The envelopes that a place of the program prints as a constant are of errors.
LEMMA KnownEnvelopes ==
    /\ Envelope("backend-failed", 1) \in ErrorEnvelopes
    /\ Envelope("invalid-position", 1) \in ErrorEnvelopes
    /\ Envelope("ambiguous", 1) \in ErrorEnvelopes
<1>1. {"backend-failed", "invalid-position", "ambiguous"} \subseteq ErrorStatuses /\ 1 \in {1, 2, 3}
    BY DEF ErrorStatuses
<1> QED
    BY <1>1, EnvelopeOfError

\* No envelope of an error tells a success, and none has the exit code 0.
LEMMA EnvelopesOfErrors ==
    ASSUME NEW class
    PROVE  SetupEnvelope(class) \in ErrorEnvelopes /\ OperationEnvelope(class) \in ErrorEnvelopes
<1>1. SetupEnvelope(class) \in ErrorEnvelopes
    <2>1. "backend-missing" \in ErrorStatuses /\ "backend-failed" \in ErrorStatuses
        BY DEF ErrorStatuses
    <2>2. Envelope("backend-missing", 3) \in ErrorEnvelopes /\ Envelope("backend-failed", 1) \in ErrorEnvelopes
        BY <2>1, EnvelopeOfError
    <2> QED
        BY <2>2 DEF SetupEnvelope
<1>2. \/ OperationEnvelope(class) = SetupEnvelope(class)
      \/ \E s \in ErrorStatuses, code \in {1, 2, 3} : OperationEnvelope(class) = Envelope(s, code)
    BY DEF OperationEnvelope, ErrorStatuses
<1> QED
    BY <1>1, <1>2, EnvelopeOfError

\* An envelope that reports an error has a status other than success.
LEMMA ErrorEnvelopeIsNoSuccess ==
    ASSUME NEW e \in ErrorEnvelopes
    PROVE  e.exit \in {1, 2, 3} /\ e.status \in ErrorStatuses /\ e.status \notin Successes \cup {""}
BY DEF ErrorEnvelopes, ErrorStatuses, Successes

\* exitDetails: an error has another exit code than 0.
LEMMA ExitCodes == ASSUME NEW class PROVE ExitCode(class) \in {0, 1, 2, 3} /\ (ExitCode(class) = 0 <=> class = "none")
<1>1. ExitCode(class) \in {0, 1, 2, 3}
    BY DEF ExitCode
<1>2. ASSUME class = "none" PROVE ExitCode(class) = 0
    BY <1>2 DEF ExitCode
<1>3. ASSUME class # "none" PROVE ExitCode(class) # 0
    BY <1>3 DEF ExitCode
<1> QED
    BY <1>1, <1>2, <1>3

\* defaultStatusForError: no error is recorded as a success.
LEMMA DefaultStatusOfErrors == ASSUME NEW class, class # "none" PROVE DefaultStatus(class) \notin Successes
BY DEF DefaultStatus, Successes

\* Every step keeps that files change only as the user asked.
LEMMA MeantIsInductive == Meant /\ Told /\ Life /\ [Next]_vars => Meant'
<1> SUFFICES ASSUME Meant, Told, Life, [Next]_vars PROVE Meant'
    OBVIOUS
<1> USE RequestsAssumption
    DEF Meant, Told, Life, Places, Starting, Working, Writing, Leaving, Left
<1>1. CASE Validate
    BY <1>1 DEF Validate, Fail, lspVars, outVars
<1>2. CASE Resolve
    BY <1>2 DEF Resolve, Fail, lspVars
<1>3. CASE Build
    BY <1>3 DEF Build, SetupFails, Fail
<1>4. CASE InitializeScript
    BY <1>4 DEF InitializeScript, SetupFails, Fail, AfterStart, Tier1
<1>5. CASE InitializeServer
    BY <1>5 DEF InitializeServer, SetupFails, Fail
<1>6. CASE Settle
    BY <1>6 DEF Settle, SetupFails, Fail, AfterStart, Tier1
<1>7. CASE Prime
    BY <1>7 DEF Prime, outVars
<1>8. CASE FindNothing
    BY <1>8 DEF FindNothing, Fail, lspVars, outVars
<1>9. CASE FindFails
    BY <1>9 DEF FindFails, Fail, lspVars, outVars
<1>10. CASE Find
    BY <1>10 DEF Find, Fail, lspVars, outVars
<1>11. CASE Probe
    BY <1>11 DEF Probe, outVars
<1>12. CASE CheckKind
    BY <1>12 DEF CheckKind, Fail, GiveUp, AskNext, lspVars, outVars
<1>13. CASE CheckInput
    BY <1>13 DEF CheckInput, Fail, GiveUp, AskNext, lspVars, outVars, KindFits, NoKind
<1>14. CASE Open
    BY <1>14 DEF Open, Fail, GiveUp, outVars
<1>15. CASE AskUnsettled
    BY <1>15 DEF AskUnsettled, Fail, GiveUp, lspVars, outVars
<1>16. CASE AskRejected
    BY <1>16 DEF AskRejected, Fail, GiveUp, Rejections, lspVars, outVars
<1>17. CASE AskEmpty
    BY <1>17 DEF AskEmpty, Fail, GiveUp, lspVars, outVars
<1>18. CASE AskAnswered
    BY <1>18 DEF AskAnswered, lspVars, outVars
<1>19. CASE RunScript
    BY <1>19 DEF RunScript, Fail, GiveUp, ScriptAnswers, lspVars, outVars
<1>20. CASE List
    BY <1>20 DEF List, Fail, lspVars
<1>21. CASE Capture
    BY <1>21 DEF Capture, lspVars
<1>22. CASE Show
    BY <1>22 DEF Show, Fail, GiveUp, lspVars
<1>23. CASE Apply
    BY <1>23 DEF Apply, GiveUp, lspVars
<1>24. CASE ReturnTier1
    BY <1>24 DEF ReturnTier1, ReportAmbiguous, lspVars
<1>25. CASE Shutdown
    BY <1>25 DEF Shutdown, outVars
<1>26. CASE Route
    BY <1>26 DEF Route, lspVars
<1>27. CASE Execute
    BY <1>27 DEF Execute, lspVars
<1>28. CASE Finish
    BY <1>28 DEF Finish, lspVars
<1>29. CASE Finished \/ UNCHANGED vars
    BY <1>29 DEF Finished, vars
<1> QED
    BY <1>1, <1>2, <1>3, <1>4, <1>5, <1>6, <1>7, <1>8, <1>9, <1>10, <1>11, <1>12, <1>13,
       <1>14, <1>15, <1>16, <1>17, <1>18, <1>19, <1>20, <1>21, <1>22, <1>23, <1>24,
       <1>25, <1>26, <1>27, <1>28, <1>29 DEF Next

\* What the printing of an error leaves behind.
Printing ==
    \/ UNCHANGED <<emitted, status>>
    \/ emitted' \in {1, 2, 3} /\ status' \in ErrorStatuses

\* Emitting an error sets the exit code that goes with the kind of error.
LEMMA EmitErrors ==
    /\ EmitNothing => UNCHANGED <<envelopes, emitted, status>>
    /\ \A e \in ErrorEnvelopes :
          Emit(e) => envelopes' = Append(envelopes, e) /\ emitted' = e.exit /\ Printing
BY ErrorEnvelopeIsNoSuccess DEF EmitNothing, Emit, Printing

\* A backend that cannot be had ends the command, with an envelope or without.
LEMMA SetupFailsTells ==
    ASSUME NEW class, SetupFails(class)
    PROVE  error' = class /\ pc' = "route" /\ Printing
<1>1. \A e \in ErrorEnvelopes : EmitIf(request.json /\ request.op \in {"rename", "list-symbols"}, e) => Printing
    BY EmitErrors DEF EmitIf, Printing
<1> QED
    BY <1>1, EnvelopesOfErrors DEF SetupFails, Fail

\* Every step keeps that the status and the snapshot tell what happened.
LEMMA ToldIsInductive == Meant /\ Told /\ Life /\ [Next]_vars => Told'
<1> SUFFICES ASSUME Meant, Told, Life, [Next]_vars PROVE Told'
    OBVIOUS
<1> USE DEF Told, Life, Places, Starting, Working, Writing, Leaving, Left, Successes
<1>1. CASE Validate
    BY <1>1 DEF Validate, Fail, lspVars, outVars
<1>2. CASE Resolve
    <2>1. Envelope("invalid-position", 1) \in ErrorEnvelopes
        BY KnownEnvelopes
    <2>2. pc = "resolve" /\ UNCHANGED <<files, exit, snapshot>>
        BY <1>2 DEF Resolve
    <2>3. \/ pc' = "build" /\ EmitNothing /\ UNCHANGED error
          \/ pc' = "route" /\ error' = "invalid position" /\ Printing
        BY <1>2, <2>1, EmitErrors DEF Resolve, Fail, EmitIf, Printing
    <2> QED
        BY <2>2, <2>3, EmitErrors DEF Printing, ErrorStatuses
<1>3. CASE Build
    <2>1. pc = "build" /\ UNCHANGED <<files, exit, snapshot>>
        BY <1>3 DEF Build
    <2>2. PICK selection \in Selections(request) :
             \/ selection.error # "none" /\ SetupFails(selection.error)
             \/ pc' = "initialize" /\ EmitNothing /\ UNCHANGED error
        BY <1>3 DEF Build
    <2>3. CASE SetupFails(selection.error) /\ selection.error # "none"
        <3>1. error' \notin {"none", "apply failed"} /\ pc' = "route" /\ Printing
            BY <2>3, SetupFailsTells, SelectionsAssumption DEF SelectionErrors, Meant
        <3> QED
            BY <2>1, <3>1 DEF Printing, ErrorStatuses
    <2>4. CASE pc' = "initialize" /\ EmitNothing /\ UNCHANGED error
        BY <2>1, <2>4, EmitErrors
    <2> QED
        BY <2>2, <2>3, <2>4
<1>4. CASE InitializeScript
    <2>1. pc \in {"initialize", "settle"} /\ UNCHANGED <<files, exit, snapshot>>
        BY <1>4 DEF InitializeScript
    <2>2. \/ pc' = AfterStart /\ EmitNothing /\ UNCHANGED error
          \/ SetupFails("runtime missing")
        BY <1>4 DEF InitializeScript
    <2>3. \/ pc' \notin Writing \cup Leaving \cup Left /\ EmitNothing /\ UNCHANGED error
          \/ pc' = "route" /\ error' = "runtime missing" /\ Printing
        BY <2>2, SetupFailsTells DEF AfterStart
    <2> QED
        BY <2>1, <2>3, EmitErrors DEF Printing, ErrorStatuses
<1>5. CASE InitializeServer
    <2>1. pc \in {"initialize", "settle"} /\ UNCHANGED <<files, exit, snapshot>>
        BY <1>5 DEF InitializeServer
    <2>2. \/ pc' = "settle" /\ EmitNothing /\ UNCHANGED error
          \/ SetupFails("init failed")
        BY <1>5 DEF InitializeServer
    <2>3. \/ pc' \notin Writing \cup Leaving \cup Left /\ EmitNothing /\ UNCHANGED error
          \/ pc' = "route" /\ error' = "init failed" /\ Printing
        BY <2>2, SetupFailsTells DEF AfterStart
    <2> QED
        BY <2>1, <2>3, EmitErrors DEF Printing, ErrorStatuses
<1>6. CASE Settle
    <2>1. pc \in {"initialize", "settle"} /\ UNCHANGED <<files, exit, snapshot>>
        BY <1>6 DEF Settle
    <2>2. \/ pc' = AfterStart /\ EmitNothing /\ UNCHANGED error
          \/ SetupFails("init failed")
        BY <1>6 DEF Settle
    <2>3. \/ pc' \notin Writing \cup Leaving \cup Left /\ EmitNothing /\ UNCHANGED error
          \/ pc' = "route" /\ error' = "init failed" /\ Printing
        BY <2>2, SetupFailsTells DEF AfterStart
    <2> QED
        BY <2>1, <2>3, EmitErrors DEF Printing, ErrorStatuses
<1>7. CASE Prime
    BY <1>7 DEF Prime, outVars
<1>8. CASE FindNothing
    BY <1>8 DEF FindNothing, Fail, lspVars, outVars
<1>9. CASE FindFails
    BY <1>9 DEF FindFails, Fail, lspVars, outVars
<1>10. CASE Find
    BY <1>10 DEF Find, Fail, lspVars, outVars
<1>11. CASE Probe
    BY <1>11 DEF Probe, outVars
<1>12. CASE CheckKind
    BY <1>12 DEF CheckKind, Fail, GiveUp, AskNext, lspVars, outVars
<1>13. CASE CheckInput
    BY <1>13 DEF CheckInput, Fail, GiveUp, AskNext, lspVars, outVars
<1>14. CASE Open
    BY <1>14 DEF Open, Fail, GiveUp, outVars
<1>15. CASE AskUnsettled
    BY <1>15 DEF AskUnsettled, Fail, GiveUp, lspVars, outVars
<1>16. CASE AskRejected
    BY <1>16 DEF AskRejected, Fail, GiveUp, Rejections, lspVars, outVars
<1>17. CASE AskEmpty
    BY <1>17 DEF AskEmpty, Fail, GiveUp, lspVars, outVars
<1>18. CASE AskAnswered
    BY <1>18 DEF AskAnswered, lspVars, outVars
<1>19. CASE RunScript
    BY <1>19 DEF RunScript, Fail, GiveUp, ScriptAnswers, lspVars, outVars
<1>20. CASE List
    <2>1. Envelope("backend-failed", 1) \in ErrorEnvelopes
        BY KnownEnvelopes
    <2>2. pc = "list" /\ pc' = "shutdown" /\ UNCHANGED <<files, exit, snapshot>>
        BY <1>20 DEF List, Fail
    <2>3. \/ status' = "ok" /\ UNCHANGED <<error, emitted>>
          \/ error' = "list failed" /\ Printing
        BY <1>20, <2>1, EmitErrors DEF List, Fail, EmitIf, Printing
    <2> QED
        BY <2>2, <2>3 DEF Printing, ErrorStatuses
<1>21. CASE Capture
    BY <1>21 DEF Capture, lspVars
<1>22. CASE Show
    BY <1>22 DEF Show, Fail, GiveUp, lspVars, EmitNothing, EmitIf, Emit, Envelope
<1>23. CASE Apply
    <2>1. Envelope("backend-failed", 1) \in ErrorEnvelopes
        BY KnownEnvelopes
    <2>2. pc = "apply" /\ pc' \in Leaving /\ UNCHANGED exit
        BY <1>23 DEF Apply, GiveUp
    <2>3. \/ files' = "changed" /\ status' = "applied" /\ UNCHANGED <<error, emitted>>
          \/ error' = "apply failed" /\ Printing
        BY <1>23, <2>1, EmitErrors DEF Apply, EmitIf, Printing
    <2> QED
        BY <2>2, <2>3 DEF Printing, ErrorStatuses
<1>24. CASE ReturnTier1
    <2>1. pc = "tier 1" /\ pc' = "shutdown" /\ UNCHANGED <<error, files, exit, snapshot>>
        BY <1>24 DEF ReturnTier1
    <2>2. \/ UNCHANGED <<emitted, status>>
          \/ error = "ambiguous" /\ UNCHANGED emitted /\ status' = "ambiguous"
          \/ error # "none" /\ Printing
        <3>1. Envelope("ambiguous", 1) \in ErrorEnvelopes
            BY KnownEnvelopes
        <3>2. CASE error = "ambiguous" /\ ReportAmbiguous
            BY <3>1, <3>2, EmitErrors DEF ReportAmbiguous, Printing, ErrorStatuses
        <3>3. CASE error # "ambiguous"
            BY <1>24, <3>3, EnvelopesOfErrors, EmitErrors DEF ReturnTier1, EmitIf
        <3> QED
            BY <1>24, <3>2, <3>3 DEF ReturnTier1
    <2> QED
        BY <2>1, <2>2 DEF Printing, ErrorStatuses
<1>25. CASE Shutdown
    BY <1>25 DEF Shutdown, outVars
<1>26. CASE Route
    <2>1. pc = "route" /\ pc' = "execute" /\ UNCHANGED <<error, files, exit, snapshot>>
        BY <1>26 DEF Route
    <2>2. UNCHANGED <<emitted, status>> \/ (error # "none" /\ Printing)
        BY <1>26, EnvelopesOfErrors, EmitErrors DEF Route, EmitIf
    <2> QED
        BY <2>1, <2>2 DEF Printing, ErrorStatuses
<1>27. CASE Execute
    <2>1. pc = "execute" /\ pc' = "finish" /\ UNCHANGED <<error, files, exit, snapshot>>
        BY <1>27 DEF Execute
    <2>2. UNCHANGED <<emitted, status>> \/ (error # "none" /\ Printing)
        <3>1. Envelope("backend-failed", 1) \in ErrorEnvelopes
            BY KnownEnvelopes
        <3> QED
            BY <1>27, <3>1, EmitErrors DEF Execute, EmitIf
    <2> QED
        BY <2>1, <2>2 DEF Printing, ErrorStatuses
<1>28. CASE Finish
    BY <1>28, ExitCodes, DefaultStatusOfErrors DEF Finish, lspVars
<1>29. CASE Finished \/ UNCHANGED vars
    BY <1>29 DEF Finished, vars
<1> QED
    BY <1>1, <1>2, <1>3, <1>4, <1>5, <1>6, <1>7, <1>8, <1>9, <1>10, <1>11, <1>12, <1>13,
       <1>14, <1>15, <1>16, <1>17, <1>18, <1>19, <1>20, <1>21, <1>22, <1>23, <1>24,
       <1>25, <1>26, <1>27, <1>28, <1>29 DEF Next

\* Files change only as the user asked, and the exit code, the status and the
\* snapshot tell what happened, whatever the backend and the disk do.
THEOREM WritesAreTold == Spec => []WritesAreMeantAndTold
<1> DEFINE Inv == Meant /\ Told /\ Life
<1>1. Init => Inv
    <2>1. Init => Meant
        BY DEF Init, Meant, Writing, Leaving, Left
    <2>2. Init => Told
        BY DEF Init, Told, Leaving, Left
    <2>3. Init => Life
        BY DEF Init, Life, Places, Starting, Left
    <2> QED
        BY <2>1, <2>2, <2>3
<1>2. Inv /\ [Next]_vars => Inv'
    BY LifeIsInductive, MeantIsInductive, ToldIsInductive
<1>3. Inv => WritesAreMeantAndTold
    BY DEF Meant, Told, WritesAreMeantAndTold, Done, Leaving, Left, Successes
<1> QED
    BY <1>1, <1>2, <1>3, PTL DEF Spec

(* ---------------------------- what is printed ---------------------------- *)

AllEnvelopes == [status : ErrorStatuses \cup Successes, exit : {0, 1, 2, 3}]

Silent == envelopes = <<>>
ToldSuccess == Len(envelopes) = 1 /\ envelopes[1].exit = 0
ToldError == Len(envelopes) = 1 /\ envelopes[1].exit = emitted
ToldTwice == Len(envelopes) = 2 /\ envelopes[1].exit = emitted /\ envelopes[2].exit = emitted

\* With --json nothing is printed before the command is on its way out, then
\* the envelope of a success or one for the error; emitted tells which.
Printed ==
    /\ envelopes \in Seq(AllEnvelopes)
    /\ ~request.json => Silent /\ emitted = 0
    /\ pc \in {"prime", "find", "list", "tier 1"} => Tier1
    /\ pc = "tier 1" => request.op # "list-symbols"
    /\ request.json /\ pc \notin Leaving \cup Left => Silent
    /\ request.json /\ pc \in Leaving \cup Left =>
          /\ error = "none" => ToldSuccess
          /\ error # "none" /\ emitted = 0 => Silent
          /\ emitted # 0 /\ ~(Tier1 /\ error = "apply failed" /\ pc # "tier 1") => ToldError
          /\ Tier1 /\ error = "apply failed" /\ pc # "tier 1" => ToldTwice
          /\ error = "apply failed" => emitted = 1
          /\ pc = "tier 1" /\ error \notin {"none", "apply failed"} => emitted = 0
          /\ request.op = "list-symbols" /\ error # "none" /\ emitted = 0 => pc = "execute"
          /\ pc = "execute" /\ emitted = 0 /\ error # "none" => error = "invalid request"
          /\ pc \in {"finish", "done"} /\ error # "none" => emitted # 0
          /\ pc = "done" => exit = emitted

\* What a step may do to the envelopes: print one for an error or for a success,
\* or nothing.
AddsError ==
    /\ envelopes' \in Seq(AllEnvelopes)
    /\ emitted' # 0
    /\ Silent => ToldError'
    /\ ToldError /\ emitted' = emitted => ToldTwice'
AddsSuccess ==
    /\ envelopes' \in Seq(AllEnvelopes)
    /\ emitted' = emitted
    /\ Silent => ToldSuccess'
AddsNothing ==
    /\ envelopes' \in Seq(AllEnvelopes)
    /\ emitted' = emitted
    /\ Silent => Silent'
    /\ ToldSuccess => ToldSuccess'
    /\ ToldError => ToldError'
    /\ ToldTwice => ToldTwice'

\* emitJSONError prints one envelope with the exit code it remembers.
LEMMA EmitAdds ==
    ASSUME NEW e \in ErrorEnvelopes, envelopes \in Seq(AllEnvelopes), Emit(e)
    PROVE  AddsError /\ emitted' = e.exit
<1>1. e \in AllEnvelopes /\ e.exit # 0
    BY DEF AllEnvelopes, ErrorEnvelopes
<1>2. envelopes' = Append(envelopes, e) /\ emitted' = e.exit
    BY DEF Emit
<1>3. /\ envelopes' \in Seq(AllEnvelopes)
      /\ Len(envelopes') = Len(envelopes) + 1
      /\ \A i \in 1 .. Len(envelopes) : envelopes'[i] = envelopes[i]
      /\ envelopes'[Len(envelopes) + 1] = e
    BY <1>1, <1>2
<1>4. ASSUME Silent PROVE ToldError'
    <2>1. Len(envelopes) = 0
        BY <1>4 DEF Silent
    <2> QED
        BY <1>2, <1>3, <2>1 DEF ToldError
<1>5. ASSUME ToldError, emitted' = emitted PROVE ToldTwice'
    <2>1. Len(envelopes) = 1 /\ envelopes[1].exit = emitted
        BY <1>5 DEF ToldError
    <2>2. Len(envelopes') = 2 /\ envelopes'[1] = envelopes[1] /\ envelopes'[2] = e
        BY <1>3, <2>1
    <2> QED
        BY <1>2, <1>5, <2>1, <2>2 DEF ToldTwice
<1> QED
    BY <1>1, <1>2, <1>3, <1>4, <1>5 DEF AddsError

\* The envelope of a success has exit code 0.
LEMMA SuccessAdds ==
    ASSUME NEW s \in Successes, envelopes \in Seq(AllEnvelopes), emitted' = emitted,
           envelopes' = Append(envelopes, Envelope(s, 0))
    PROVE  AddsSuccess
<1>1. Envelope(s, 0) \in AllEnvelopes /\ Envelope(s, 0).exit = 0
    BY DEF Envelope, AllEnvelopes
<1>2. /\ envelopes' \in Seq(AllEnvelopes)
      /\ Len(envelopes') = Len(envelopes) + 1
      /\ envelopes'[Len(envelopes) + 1] = Envelope(s, 0)
    BY <1>1
<1>3. ASSUME Silent PROVE ToldSuccess'
    <2>1. Len(envelopes) = 0
        BY <1>3 DEF Silent
    <2> QED
        BY <1>1, <1>2, <2>1 DEF ToldSuccess
<1> QED
    BY <1>2, <1>3 DEF AddsSuccess

\* What is printed stays.
LEMMA NothingAdds ==
    ASSUME envelopes \in Seq(AllEnvelopes), UNCHANGED <<envelopes, emitted>>
    PROVE  AddsNothing
BY DEF AddsNothing, Silent, ToldSuccess, ToldError, ToldTwice

\* A backend that cannot be had is reported at once by rename and list-symbols.
LEMMA SetupFailsAdds ==
    ASSUME NEW class, SetupFails(class), envelopes \in Seq(AllEnvelopes)
    PROVE  /\ error' = class /\ pc' = "route"
           /\ request.json /\ request.op \in {"rename", "list-symbols"} => AddsError
           /\ ~(request.json /\ request.op \in {"rename", "list-symbols"}) => AddsNothing
<1>1. PICK e \in ErrorEnvelopes : EmitIf(request.json /\ request.op \in {"rename", "list-symbols"}, e)
    BY EnvelopesOfErrors DEF SetupFails
<1>2. error' = class /\ pc' = "route"
    BY DEF SetupFails, Fail
<1>3. CASE request.json /\ request.op \in {"rename", "list-symbols"}
    BY <1>1, <1>2, <1>3, EmitAdds DEF EmitIf
<1>4. CASE ~(request.json /\ request.op \in {"rename", "list-symbols"})
    BY <1>1, <1>2, <1>4, NothingAdds DEF EmitIf, EmitNothing
<1> QED
    BY <1>3, <1>4

\* Every step prints what Printed allows, and keeps what is printed.
LEMMA PrintedIsInductive == Printed /\ Meant /\ Told /\ Life /\ [Next]_vars => Printed'
<1> SUFFICES ASSUME Printed, Meant, Told, Life, [Next]_vars PROVE Printed'
    OBVIOUS
<1>one. 0 # 1
    OBVIOUS
<1> USE DEF Printed, Tier1, Starting, Working, Writing, Leaving, Left
<1>0. /\ request.json \in BOOLEAN /\ envelopes \in Seq(AllEnvelopes)
      /\ emitted \in {0, 1, 2, 3}
      /\ pc \notin Leaving \cup Left => error = "none" /\ emitted = 0
      /\ pc \in {"find", "probe", "check kind", "check input", "open", "ask", "capture", "show", "apply"} =>
            request.op # "list-symbols"
      /\ UNCHANGED <<envelopes, emitted>> => AddsNothing
    BY RequestsAssumption, NothingAdds DEF Meant, Told
<1>1. CASE Validate
    BY <1>0, <1>1 DEF AddsNothing, Validate, Fail, outVars
<1>2. CASE Resolve
    <2>1. pc = "resolve" /\ UNCHANGED <<request, exit>>
        BY <1>2 DEF Resolve
    <2>2. CASE pc' = "build" /\ UNCHANGED error /\ AddsNothing
        BY <1>0, <2>1, <2>2 DEF AddsNothing
    <2>3. CASE /\ pc' = "route" /\ error' = "invalid position"
               /\ EmitIf(request.json, Envelope("invalid-position", 1))
        <3>1. request.json => AddsError
            BY <1>0, <2>3, KnownEnvelopes, EmitAdds DEF EmitIf
        <3>2. ~request.json => AddsNothing
            BY <1>0, <2>3 DEF EmitIf, EmitNothing
        <3> QED
            BY <1>0, <2>1, <2>3, <3>1, <3>2 DEF AddsError, AddsNothing
    <2> QED
        BY <1>0, <1>2, <2>2, <2>3 DEF Resolve, Fail, EmitNothing
<1>3. CASE Build
    <2>1. pc = "build" /\ UNCHANGED <<request, exit>>
        BY <1>3 DEF Build
    <2>2. PICK selection \in Selections(request) :
             \/ selection.error # "none" /\ SetupFails(selection.error)
             \/ pc' = "initialize" /\ EmitNothing /\ UNCHANGED error
        BY <1>3 DEF Build
    <2>3. CASE selection.error # "none" /\ SetupFails(selection.error)
        <3>1. error' \notin {"none", "apply failed"}
            BY <1>0, <2>3, SetupFailsAdds, SelectionsAssumption DEF SelectionErrors, Meant
        <3> QED
            BY <1>0, <2>1, <2>3, <3>1, SetupFailsAdds DEF AddsError, AddsNothing
    <2>4. CASE pc' = "initialize" /\ EmitNothing /\ UNCHANGED error
        BY <1>0, <2>1, <2>4 DEF EmitNothing, AddsNothing
    <2> QED
        BY <2>2, <2>3, <2>4
<1>4. CASE InitializeScript
    <2>1. pc \in {"initialize", "settle"} /\ UNCHANGED <<request, exit>>
        BY <1>4 DEF InitializeScript
    <2>2. CASE pc' = AfterStart /\ EmitNothing /\ UNCHANGED error
        BY <1>0, <2>1, <2>2 DEF EmitNothing, AddsNothing, AfterStart
    <2>3. CASE SetupFails("runtime missing")
        <3>1. error' \notin {"none", "apply failed"}
            BY <2>3 DEF SetupFails, Fail
        <3>2. /\ pc' = "route"
              /\ request.json /\ request.op \in {"rename", "list-symbols"} => AddsError
              /\ ~(request.json /\ request.op \in {"rename", "list-symbols"}) => AddsNothing
            BY <1>0, <2>3, SetupFailsAdds
        <3> QED
            BY <1>0, <2>1, <3>1, <3>2 DEF AddsError, AddsNothing
    <2> QED
        BY <1>4, <2>2, <2>3 DEF InitializeScript
<1>5. CASE InitializeServer
    <2>1. pc \in {"initialize", "settle"} /\ UNCHANGED <<request, exit>>
        BY <1>5 DEF InitializeServer
    <2>2. CASE pc' = "settle" /\ EmitNothing /\ UNCHANGED error
        BY <1>0, <2>1, <2>2 DEF EmitNothing, AddsNothing, AfterStart
    <2>3. CASE SetupFails("init failed")
        <3>1. error' \notin {"none", "apply failed"}
            BY <2>3 DEF SetupFails, Fail
        <3>2. /\ pc' = "route"
              /\ request.json /\ request.op \in {"rename", "list-symbols"} => AddsError
              /\ ~(request.json /\ request.op \in {"rename", "list-symbols"}) => AddsNothing
            BY <1>0, <2>3, SetupFailsAdds
        <3> QED
            BY <1>0, <2>1, <3>1, <3>2 DEF AddsError, AddsNothing
    <2> QED
        BY <1>5, <2>2, <2>3 DEF InitializeServer
<1>6. CASE Settle
    <2>1. pc \in {"initialize", "settle"} /\ UNCHANGED <<request, exit>>
        BY <1>6 DEF Settle
    <2>2. CASE pc' = AfterStart /\ EmitNothing /\ UNCHANGED error
        BY <1>0, <2>1, <2>2 DEF EmitNothing, AddsNothing, AfterStart
    <2>3. CASE SetupFails("init failed")
        <3>1. error' \notin {"none", "apply failed"}
            BY <2>3 DEF SetupFails, Fail
        <3>2. /\ pc' = "route"
              /\ request.json /\ request.op \in {"rename", "list-symbols"} => AddsError
              /\ ~(request.json /\ request.op \in {"rename", "list-symbols"}) => AddsNothing
            BY <1>0, <2>3, SetupFailsAdds
        <3> QED
            BY <1>0, <2>1, <3>1, <3>2 DEF AddsError, AddsNothing
    <2> QED
        BY <1>6, <2>2, <2>3 DEF Settle
<1>7. CASE Prime
    BY <1>0, <1>7 DEF AddsNothing, Prime, outVars
<1>8. CASE FindNothing
    BY <1>0, <1>8 DEF AddsNothing, FindNothing, Fail, outVars
<1>9. CASE FindFails
    BY <1>0, <1>9 DEF AddsNothing, FindFails, Fail, outVars
<1>10. CASE Find
    BY <1>0, <1>10 DEF AddsNothing, Find, Fail, outVars
<1>11. CASE Probe
    BY <1>0, <1>11 DEF AddsNothing, Probe, outVars
<1>12. CASE CheckKind
    BY <1>0, <1>12 DEF AddsNothing, CheckKind, Fail, GiveUp, AskNext, outVars
<1>13. CASE CheckInput
    BY <1>0, <1>13 DEF AddsNothing, CheckInput, Fail, GiveUp, AskNext, outVars
<1>14. CASE Open
    BY <1>0, <1>14 DEF AddsNothing, Open, Fail, GiveUp, outVars
<1>15. CASE AskUnsettled
    BY <1>0, <1>15 DEF AddsNothing, AskUnsettled, Fail, GiveUp, outVars
<1>16. CASE AskRejected
    BY <1>0, <1>16 DEF AddsNothing, AskRejected, Fail, GiveUp, Rejections, outVars
<1>17. CASE AskEmpty
    BY <1>0, <1>17 DEF AddsNothing, AskEmpty, Fail, GiveUp, outVars
<1>18. CASE AskAnswered
    BY <1>0, <1>18 DEF AddsNothing, AskAnswered, outVars
<1>19. CASE RunScript
    BY <1>0, <1>19 DEF AddsNothing, RunScript, Fail, GiveUp, ScriptAnswers, outVars
<1>20. CASE List
    <2>1. pc = "list" /\ pc' = "shutdown" /\ UNCHANGED <<request, exit>>
        BY <1>20 DEF List, Fail
    <2>2. CASE /\ UNCHANGED <<error, emitted>>
               /\ envelopes' = IF request.json THEN Append(envelopes, Envelope("ok", 0)) ELSE envelopes
        <3>1. request.json => AddsSuccess
            BY <1>0, <2>2, SuccessAdds DEF Successes
        <3>2. ~request.json => AddsNothing
            BY <1>0, <2>2
        <3> QED
            BY <1>0, <2>1, <2>2, <3>1, <3>2 DEF AddsSuccess, AddsNothing
    <2>3. CASE error' = "list failed" /\ EmitIf(request.json, Envelope("backend-failed", 1))
        <3>1. request.json => AddsError
            BY <1>0, <2>3, KnownEnvelopes, EmitAdds DEF EmitIf
        <3>2. ~request.json => AddsNothing
            BY <1>0, <2>3 DEF EmitIf, EmitNothing
        <3> QED
            BY <1>0, <2>1, <2>3, <3>1, <3>2 DEF AddsError, AddsNothing
    <2> QED
        BY <1>20, <2>2, <2>3 DEF List, Fail
<1>21. CASE Capture
    BY <1>0, <1>21 DEF AddsNothing, Capture
<1>22. CASE Show
    <2>1. pc = "show" /\ pc' \in {"tier 1", "shutdown"} /\ (pc' = "tier 1" => Tier1) /\ UNCHANGED <<request, emitted, exit>>
        BY <1>22 DEF Show, Fail, GiveUp
    <2>2. CASE /\ UNCHANGED error
               /\ envelopes' = IF request.json THEN Append(envelopes, Envelope("dry-run", 0)) ELSE envelopes
        <3>1. request.json => AddsSuccess
            BY <1>0, <2>1, <2>2, SuccessAdds DEF Successes
        <3>2. ~request.json => AddsNothing
            BY <1>0, <2>1, <2>2
        <3> QED
            BY <1>0, <2>1, <2>2, <3>1, <3>2 DEF AddsSuccess, AddsNothing
    <2>3. CASE ~request.json /\ error' = "preview failed" /\ UNCHANGED envelopes
        BY <1>0, <2>1, <2>3 DEF AddsNothing
    <2> QED
        BY <1>22, <2>2, <2>3 DEF Show, Fail
<1>23. CASE Apply
    <2>1. /\ pc = "apply" /\ pc' \in {"tier 1", "shutdown"} /\ UNCHANGED <<request, exit>>
          /\ pc' = "tier 1" <=> Tier1
        BY <1>23 DEF Apply, GiveUp
    <2>2. CASE /\ UNCHANGED <<error, emitted>>
               /\ envelopes' = IF request.json THEN Append(envelopes, Envelope("applied", 0)) ELSE envelopes
        <3>1. request.json => AddsSuccess
            BY <1>0, <2>2, SuccessAdds DEF Successes
        <3>2. ~request.json => AddsNothing
            BY <1>0, <2>2
        <3> QED
            BY <1>0, <2>1, <2>2, <3>1, <3>2 DEF AddsSuccess, AddsNothing
    <2>3. CASE error' = "apply failed" /\ EmitIf(request.json, Envelope("backend-failed", 1))
        <3>1. request.json => AddsError /\ emitted' = 1
            BY <1>0, <2>3, KnownEnvelopes, EmitAdds DEF EmitIf, Envelope
        <3>2. ~request.json => AddsNothing
            BY <1>0, <2>3 DEF EmitIf, EmitNothing
        <3> QED
            BY <1>0, <2>1, <2>3, <3>1, <3>2 DEF AddsError, AddsNothing
    <2> QED
        BY <1>23, <2>2, <2>3 DEF Apply
<1>24. CASE ReturnTier1
    <2>1. pc = "tier 1" /\ pc' = "shutdown" /\ UNCHANGED <<request, error, exit>>
        BY <1>24 DEF ReturnTier1
    <2>2. CASE error = "ambiguous"
        <3>1. request.json => AddsError
            BY <1>0, <1>24, <2>2, KnownEnvelopes, EmitAdds DEF ReturnTier1, ReportAmbiguous
        <3>2. ~request.json => AddsNothing
            BY <1>0, <1>24, <2>2 DEF ReturnTier1, ReportAmbiguous
        <3> QED
            BY <1>0, <2>1, <2>2, <3>1, <3>2 DEF AddsError, AddsNothing
    <2>3. CASE error = "apply failed"
        <3>1. OperationEnvelope(error) = Envelope("backend-failed", 1)
            BY <2>3 DEF OperationEnvelope
        <3>2. request.json => AddsError /\ emitted' = 1
            BY <1>0, <1>24, <2>3, <3>1, KnownEnvelopes, EmitAdds DEF ReturnTier1,
               EmitIf, Envelope
        <3>3. ~request.json => AddsNothing
            BY <1>0, <1>24, <2>3 DEF ReturnTier1, EmitIf, EmitNothing
        <3> QED
            BY <1>0, <2>1, <2>3, <3>2, <3>3 DEF AddsError, AddsNothing
    <2>4. CASE error \in {"none", "parse error"}
        <3>1. AddsNothing
            BY <1>0, <1>24, <2>4 DEF ReturnTier1, EmitIf, EmitNothing
        <3> QED
            BY <1>0, <2>1, <2>4, <3>1 DEF AddsNothing
    <2>5. CASE error \notin {"none", "parse error", "apply failed", "ambiguous"}
        <3>1. request.json => AddsError
            BY <1>0, <1>24, <2>5, EnvelopesOfErrors, EmitAdds DEF ReturnTier1, EmitIf
        <3>2. ~request.json => AddsNothing
            BY <1>0, <1>24, <2>5 DEF ReturnTier1, EmitIf, EmitNothing
        <3> QED
            BY <1>0, <2>1, <2>5, <3>1, <3>2 DEF AddsError, AddsNothing
    <2> QED
        BY <2>2, <2>3, <2>4, <2>5
<1>25. CASE Shutdown
    BY <1>0, <1>25 DEF AddsNothing, Shutdown, outVars
<1>26. CASE Route
    <2>1. pc = "route" /\ pc' = "execute" /\ UNCHANGED <<request, error, exit>>
        BY <1>26 DEF Route
    <2>2. CASE request.json /\ request.op # "list-symbols" /\ error # "none" /\ emitted = 0
        <3>1. AddsError
            BY <1>0, <1>26, <2>2, EnvelopesOfErrors, EmitAdds DEF Route, EmitIf
        <3>2. request.json = TRUE /\ pc \in Left /\ emitted = 0
            BY <1>0, <2>1, <2>2
        <3>3. error = "apply failed" => emitted = 1
            BY <3>2
        <3>4. error # "apply failed"
            BY <1>one, <3>2, <3>3, Zenon
        <3> QED
            BY <1>0, <2>1, <2>2, <3>1, <3>4 DEF AddsError
    <2>3. CASE ~(request.json /\ request.op # "list-symbols" /\ error # "none" /\ emitted = 0)
        <3>1. AddsNothing
            BY <1>0, <1>26, <2>3 DEF Route, EmitIf, EmitNothing
        <3> QED
            BY <1>0, <2>1, <2>3, <3>1 DEF AddsNothing
    <2> QED
        BY <2>2, <2>3
<1>27. CASE Execute
    <2>1. pc = "execute" /\ pc' = "finish" /\ UNCHANGED <<request, error, exit>>
        BY <1>27 DEF Execute
    <2>2. CASE request.json /\ error # "none" /\ emitted = 0
        <3>1. error = "invalid request"
            BY <2>1, <2>2
        <3>2. ~HasExitCode(error)
            BY <3>1 DEF HasExitCode
        <3>3. AddsError
            BY <1>0, <1>27, <2>2, <3>2, KnownEnvelopes, EmitAdds DEF Execute, EmitIf
        <3> QED
            BY <1>0, <2>1, <2>2, <3>1, <3>3 DEF AddsError
    <2>3. CASE ~(request.json /\ error # "none" /\ emitted = 0)
        <3>1. AddsNothing
            BY <1>0, <1>27, <2>3 DEF Execute, EmitIf, EmitNothing
        <3> QED
            BY <1>0, <2>1, <2>3, <3>1 DEF AddsNothing
    <2> QED
        BY <2>2, <2>3
<1>28. CASE Finish
    <2>1. /\ pc = "finish" /\ pc' = "done" /\ UNCHANGED <<request, error, envelopes, emitted>>
          /\ emitted # 0 => exit' = emitted
          /\ emitted = 0 => exit' = ExitCode(error)
        BY <1>28 DEF Finish
    <2>2. error = "none" => ExitCode(error) = 0 /\ emitted = 0
        BY <2>1, ExitCodes DEF Told
    <2> QED
        BY <1>0, <2>1, <2>2 DEF AddsNothing
<1>29. CASE Finished \/ UNCHANGED vars
    BY <1>0, <1>29 DEF AddsNothing, Finished, vars
<1> QED
    BY <1>1, <1>2, <1>3, <1>4, <1>5, <1>6, <1>7, <1>8, <1>9, <1>10, <1>11, <1>12, <1>13,
       <1>14, <1>15,
       <1>16, <1>17, <1>18, <1>19, <1>20, <1>21, <1>22, <1>23, <1>24, <1>25, <1>26,
          <1>27, <1>28, <1>29 DEF Next

\* However an error gets out, a --json command prints one envelope whose exit
\* code is the process's, and two in the one case that OneEnvelope excepts.
THEOREM PrintsOneEnvelope == Spec => []OneEnvelope
<1> DEFINE Inv == Printed /\ Meant /\ Told /\ Life
<1>1. Init => Inv
    <2>1. Init => Printed
        <3>1. <<>> \in Seq(AllEnvelopes)
            OBVIOUS
        <3> QED
            BY <3>1 DEF Init, Printed, Leaving, Left, Silent
    <2>2. Init => Meant
        BY DEF Init, Meant, Writing, Leaving, Left
    <2>3. Init => Told
        BY DEF Init, Told, Leaving, Left
    <2>4. Init => Life
        BY DEF Init, Life, Places, Starting, Left
    <2> QED
        BY <2>1, <2>2, <2>3, <2>4
<1>2. Inv /\ [Next]_vars => Inv'
    BY LifeIsInductive, MeantIsInductive, ToldIsInductive, PrintedIsInductive
<1>3. Inv => OneEnvelope
    <2> SUFFICES ASSUME Inv, Done PROVE OneEnvelope
        BY DEF OneEnvelope
    <2>1. pc = "done" /\ request.json \in BOOLEAN /\ envelopes \in Seq(AllEnvelopes)
        BY RequestsAssumption DEF Done, Meant, Printed
    <2>2. CASE ~request.json
        BY <2>2 DEF Printed, OneEnvelope, Silent
    <2>3. CASE request.json /\ Tier1 /\ error = "apply failed"
        <3>1. ToldTwice /\ exit = emitted
            BY <2>1, <2>3 DEF Printed, Leaving, Left
        <3>2. DOMAIN envelopes = 1 .. Len(envelopes) /\ Len(envelopes) = 2
            BY <2>1, <3>1 DEF ToldTwice
        <3>3. \A i \in DOMAIN envelopes : envelopes[i].exit = exit
            <4> SUFFICES ASSUME NEW i \in DOMAIN envelopes PROVE envelopes[i].exit = exit
                OBVIOUS
            <4>1. i = 1 \/ i = 2
                BY <3>2
            <4> QED
                BY <3>1, <4>1 DEF ToldTwice
        <3> QED
            BY <2>3, <3>2, <3>3 DEF OneEnvelope
    <2>4. CASE request.json /\ ~(Tier1 /\ error = "apply failed")
        <3>1. Len(envelopes) = 1 /\ envelopes[1].exit = exit
            BY <2>1, <2>4 DEF Printed, Told, Leaving, Left, ToldError, ToldSuccess
        <3>2. DOMAIN envelopes = 1 .. Len(envelopes)
            BY <2>1
        <3>3. \A i \in DOMAIN envelopes : envelopes[i].exit = exit
            <4> SUFFICES ASSUME NEW i \in DOMAIN envelopes PROVE envelopes[i].exit = exit
                OBVIOUS
            <4>1. i = 1
                BY <3>1, <3>2
            <4> QED
                BY <3>1, <4>1
        <3> QED
            BY <2>4, <3>1, <3>3 DEF OneEnvelope
    <2> QED
        BY <2>1, <2>2, <2>3, <2>4
<1> QED
    BY <1>1, <1>2, <1>3, PTL DEF Spec

(* ------------------------- the two modes agree --------------------------- *)

\* The exceptions that SameExitInBothModes makes.
Excepted ==
    \/ error = "symbol not found"
    \/ error = "no server configured" /\ request.op \in {"rename", "list-symbols"}

\* What has been printed for an error has the exit code that the error has
\* without --json.
Agreed == emitted # 0 => emitted = ExitCode(error) \/ Excepted

\* What a step prints for an error.
PrintsRightly ==
    \/ UNCHANGED <<request, error, emitted>>
    \/ emitted' = 0
    \/ emitted' = ExitCode(error')
    \/ Excepted'

\* An operation's error is printed with its exit code, but for the symbol that is
\* not found, and a backend's but for the server that is not configured.
LEMMA OperationExit ==
    ASSUME NEW class, class # "none"
    PROVE  OperationEnvelope(class).exit = ExitCode(class) \/ class = "symbol not found"
BY DEF OperationEnvelope, SetupEnvelope, Envelope, ExitCode
\* A command that fails while it sets up exits the same way in both modes.
LEMMA SetupExit ==
    ASSUME NEW class \in SelectionErrors \cup {"init failed"}
    PROVE  SetupEnvelope(class).exit = ExitCode(class) \/ class = "no server configured"
BY DEF SelectionErrors, SetupEnvelope, Envelope, ExitCode

\* A backend that cannot be had is printed with its exit code but for that case.
LEMMA SetupFailsRightly ==
    ASSUME NEW class \in SelectionErrors \cup {"init failed"}, SetupFails(class),
           emitted = 0, UNCHANGED request
    PROVE  PrintsRightly
<1>1. error' = class
    BY DEF SetupFails, Fail
<1>2. CASE request.json /\ request.op \in {"rename", "list-symbols"}
    <2>1. CASE class \in {"unsupported language", "unsupported operation"}
        <3>1. emitted' = OperationEnvelope(class).exit
            BY <1>2, <2>1 DEF SetupFails, EmitIf, Emit
        <3> QED
            BY <1>1, <2>1, <3>1, OperationExit DEF PrintsRightly
    <2>2. CASE class \notin {"unsupported language", "unsupported operation"}
        <3>1. emitted' = SetupEnvelope(class).exit
            BY <1>2, <2>2 DEF SetupFails, EmitIf, Emit
        <3> QED
            BY <1>1, <1>2, <3>1, SetupExit DEF PrintsRightly, Excepted
    <2> QED
        BY <2>1, <2>2
<1>3. CASE ~(request.json /\ request.op \in {"rename", "list-symbols"})
    BY <1>3 DEF SetupFails, EmitIf, EmitNothing, PrintsRightly
<1> QED
    BY <1>2, <1>3

\* Every step prints an error with the exit code that it has.
LEMMA StepsPrintRightly == ASSUME Printed, Meant, Told, [Next]_vars PROVE PrintsRightly
<1>a. pc \notin Leaving \cup Left => emitted = 0
    BY DEF Told
<1> USE DEF PrintsRightly, Leaving, Left
<1>1. CASE Validate
    BY <1>a, <1>1 DEF Validate, Fail, lspVars, outVars
<1>2. CASE Resolve
    <2>1. CASE EmitNothing
        BY <1>a, <1>2, <2>1 DEF Resolve, EmitNothing
    <2>2. CASE error' = "invalid position" /\ EmitIf(request.json, Envelope("invalid-position", 1))
        BY <1>a, <1>2, <2>2 DEF Resolve, EmitIf, Emit, EmitNothing, Envelope, ExitCode
    <2> QED
        BY <1>2, <2>1, <2>2 DEF Resolve, Fail
<1>3. CASE Build
    <2>1. pc = "build" /\ UNCHANGED request
        BY <1>3 DEF Build
    <2>2. PICK selection \in Selections(request) :
             EmitNothing \/ (selection.error # "none" /\ SetupFails(selection.error))
        BY <1>3 DEF Build
    <2>3. selection.error # "none" => selection.error \in SelectionErrors
        BY SelectionsAssumption DEF Meant
    <2>4. EmitNothing => emitted' = 0
        BY <1>a, <2>1 DEF EmitNothing
    <2> QED
        BY <1>a, <2>1, <2>2, <2>3, <2>4, SetupFailsRightly
<1>4. CASE InitializeScript
    <2>1. pc = "initialize" /\ UNCHANGED request
        BY <1>4 DEF InitializeScript
    <2>2. EmitNothing \/ SetupFails("runtime missing")
        BY <1>4 DEF InitializeScript
    <2>3. EmitNothing => emitted' = 0
        BY <1>a, <2>1 DEF EmitNothing
    <2>4. "runtime missing" \in SelectionErrors \cup {"init failed"}
        BY DEF SelectionErrors
    <2> QED
        BY <1>a, <2>1, <2>2, <2>3, <2>4, SetupFailsRightly
<1>5. CASE InitializeServer
    <2>1. pc = "initialize" /\ UNCHANGED request
        BY <1>5 DEF InitializeServer
    <2>2. EmitNothing \/ SetupFails("init failed")
        BY <1>5 DEF InitializeServer
    <2>3. EmitNothing => emitted' = 0
        BY <1>a, <2>1 DEF EmitNothing
    <2>4. "init failed" \in SelectionErrors \cup {"init failed"}
        BY DEF SelectionErrors
    <2> QED
        BY <1>a, <2>1, <2>2, <2>3, <2>4, SetupFailsRightly
<1>6. CASE Settle
    <2>1. pc = "settle" /\ UNCHANGED request
        BY <1>6 DEF Settle
    <2>2. EmitNothing \/ SetupFails("init failed")
        BY <1>6 DEF Settle
    <2>3. EmitNothing => emitted' = 0
        BY <1>a, <2>1 DEF EmitNothing
    <2>4. "init failed" \in SelectionErrors \cup {"init failed"}
        BY DEF SelectionErrors
    <2> QED
        BY <1>a, <2>1, <2>2, <2>3, <2>4, SetupFailsRightly
<1>7. CASE Prime
    BY <1>a, <1>7 DEF Prime, Tier1, outVars
<1>8. CASE FindNothing
    BY <1>a, <1>8 DEF FindNothing, Fail, lspVars, outVars
<1>9. CASE FindFails
    BY <1>a, <1>9 DEF FindFails, Fail, lspVars, outVars
<1>10. CASE Find
    BY <1>a, <1>10 DEF Find, Fail, lspVars, outVars
<1>11. CASE Probe
    BY <1>a, <1>11 DEF Probe, outVars
<1>12. CASE CheckKind
    BY <1>a, <1>12 DEF CheckKind, Fail, GiveUp, AskNext, lspVars, outVars
<1>13. CASE CheckInput
    BY <1>a, <1>13 DEF CheckInput, Fail, GiveUp, AskNext, lspVars, outVars
<1>14. CASE Open
    BY <1>a, <1>14 DEF Open, Fail, GiveUp, outVars
<1>15. CASE AskUnsettled
    BY <1>a, <1>15 DEF AskUnsettled, Fail, GiveUp, lspVars, outVars
<1>16. CASE AskRejected
    BY <1>a, <1>16 DEF AskRejected, Fail, GiveUp, Rejections, lspVars, outVars
<1>17. CASE AskEmpty
    BY <1>a, <1>17 DEF AskEmpty, Fail, GiveUp, lspVars, outVars
<1>18. CASE AskAnswered
    BY <1>a, <1>18 DEF AskAnswered, lspVars, outVars
<1>19. CASE RunScript
    BY <1>a, <1>19 DEF RunScript, Fail, GiveUp, ScriptAnswers, lspVars, outVars
<1>20. CASE List
    <2>1. CASE UNCHANGED emitted
        BY <1>a, <1>20, <2>1 DEF List
    <2>2. CASE error' = "list failed" /\ EmitIf(request.json, Envelope("backend-failed", 1))
        BY <1>a, <1>20, <2>2 DEF List, EmitIf, Emit, EmitNothing, Envelope, ExitCode
    <2> QED
        BY <1>20, <2>1, <2>2 DEF List, Fail
<1>21. CASE Capture
    BY <1>a, <1>21 DEF Capture, lspVars, outVars
<1>22. CASE Show
    BY <1>a, <1>22 DEF Show, Fail, GiveUp, lspVars, outVars
<1>23. CASE Apply
    <2>1. CASE UNCHANGED emitted
        BY <1>a, <1>23, <2>1 DEF Apply
    <2>2. CASE error' = "apply failed" /\ EmitIf(request.json, Envelope("backend-failed", 1))
        BY <1>a, <1>23, <2>2 DEF Apply, EmitIf, Emit, EmitNothing, Envelope, ExitCode
    <2> QED
        BY <1>23, <2>1, <2>2 DEF Apply
<1>24. CASE ReturnTier1
    <2>1. CASE error = "ambiguous"
        BY <1>24, <2>1 DEF ReturnTier1, ReportAmbiguous, Emit, Envelope, ExitCode
    <2>2. CASE error # "ambiguous" /\ error # "none"
        BY <1>24, <2>2, OperationExit DEF ReturnTier1, EmitIf, Emit, EmitNothing, Excepted
    <2>3. CASE error = "none"
        BY <1>24, <2>3 DEF ReturnTier1, EmitIf, EmitNothing
    <2> QED
        BY <2>1, <2>2, <2>3
<1>25. CASE Shutdown
    BY <1>a, <1>25 DEF Shutdown, outVars
<1>26. CASE Route
    BY <1>26, OperationExit DEF Route, EmitIf, Emit, EmitNothing, Excepted
<1>27. CASE Execute
    <2>1. pc = "execute" /\ UNCHANGED <<request, error>>
        BY <1>27 DEF Execute
    <2>2. CASE request.json /\ error # "none" /\ emitted = 0
        <3>1. error = "invalid request"
            BY <2>1, <2>2 DEF Printed, Left
        <3> QED
            BY <1>27, <2>1, <3>1 DEF Execute, EmitIf, Emit, EmitNothing, Envelope, ExitCode
    <2>3. CASE ~(request.json /\ error # "none" /\ emitted = 0)
        BY <1>27, <2>1, <2>3 DEF Execute, EmitIf, EmitNothing
    <2> QED
        BY <2>2, <2>3
<1>28. CASE Finish
    BY <1>a, <1>28 DEF Finish, lspVars, outVars
<1>29. CASE Finished \/ UNCHANGED vars
    BY <1>29 DEF Finished, vars
<1> QED
    BY <1>1, <1>2, <1>3, <1>4, <1>5, <1>6, <1>7, <1>8, <1>9, <1>10, <1>11, <1>12, <1>13,
       <1>14, <1>15,
       <1>16, <1>17, <1>18, <1>19, <1>20, <1>21, <1>22, <1>23, <1>24, <1>25, <1>26,
          <1>27, <1>28, <1>29 DEF Next

\* The exit code does not depend on --json, but for the two exceptions: what is
\* emitted inline, by the routing or by Execute is what exitDetails finds.
THEOREM ModesExitAlike == Spec => []SameExitInBothModes
<1> DEFINE Inv == Agreed /\ Printed /\ Meant /\ Told /\ Life
<1>1. Init => Inv
    <2>1. Init => Printed
        <3>1. <<>> \in Seq(AllEnvelopes)
            OBVIOUS
        <3> QED
            BY <3>1 DEF Init, Printed, Leaving, Left, Silent
    <2>2. Init => Agreed /\ Meant /\ Told /\ Life
        BY DEF Init, Agreed, Meant, Told, Life, Places, Starting, Writing, Leaving, Left
    <2> QED
        BY <2>1, <2>2
<1>2. Inv /\ [Next]_vars => Inv'
    <2>1. Agreed /\ PrintsRightly => Agreed'
        BY DEF Agreed, PrintsRightly, Excepted
    <2> QED
        BY <2>1, StepsPrintRightly, LifeIsInductive, MeantIsInductive, ToldIsInductive,
           PrintedIsInductive
<1>3. Inv => SameExitInBothModes
    <2> SUFFICES ASSUME Inv, Done, request.json PROVE exit = ExitCode(error) \/ Excepted
        BY DEF SameExitInBothModes, Excepted
    <2>1. pc = "done" /\ exit = emitted /\ (error # "none" => emitted # 0) /\ (error = "none" => exit = 0)
        BY DEF Done, Printed, Told, Leaving, Left
    <2> QED
        BY <2>1, ExitCodes DEF Agreed
<1> QED
    BY <1>1, <1>2, <1>3, PTL DEF Spec

(* --------------------- what is opened, what is asked --------------------- *)

\* The adapter's record is right.
Recorded == (opened => didOpens = 1) /\ (~opened => didOpens = 0)

\* How often the server has been told of the file, at each place: the record of
\* the adapter is right until the probe or, for Go, the priming goes past it,
\* and only a rename comes to ask after either.
Counted ==
    /\ opened \in BOOLEAN
    /\ opened => didOpens \in {1, 2}
    /\ ~opened => didOpens \in {0, 1}
    /\ didOpens = 2 => request.op = "rename"
    /\ pc \in Starting => ~opened
    /\ pc \in Starting \cup {"settle", "prime", "probe", "check input"} => Recorded
    /\ pc \in {"settle", "prime"} /\ opened => request.language # "go"
    /\ pc \in (Starting \cup Working) \ {"validate"} => request.valid
    /\ pc \in {"prime", "find"} => Tier1
    /\ pc \in {"find", "probe", "check kind"} => request.op = "rename"
    /\ pc = "open" /\ request.op # "rename" => Recorded
    /\ pc = "ask" /\ backend = "lsp" => opened

\* The places before the request itself, where no loop has begun or the one that
\* looks for the symbol has ended.
BeforeAsking ==
    Starting \cup {"settle", "prime", "probe", "check kind", "check input", "open"}
\* How many requests of a retry loop have been sent.
Budgeted ==
    /\ tries \in Nat
    /\ pc \in BeforeAsking => tries = 0
    /\ pc = "ask" => tries < Attempts

\* What a step does to the budget: it leaves it alone and begins no loop that has
\* been begun, it resets it, or it spends one request.
Spends ==
    \/ /\ UNCHANGED <<request, tries>>
       /\ pc' \in BeforeAsking => pc \in BeforeAsking
       /\ pc' = "ask" => pc \in BeforeAsking \cup {"ask"}
    \/ UNCHANGED request /\ tries' = 0
    \/ /\ UNCHANGED request /\ tries' = tries + 1
       /\ pc' \notin BeforeAsking
       /\ pc' = "ask" => tries' < Attempts

\* A rename without edits has not come from a server.
NoServerHadNoEdits ==
    /\ backend = "tsmorph" => server = "none"
    /\ request.op = "rename" /\ error = "no edits" => server = "none" /\ backend # "lsp"

\* What the proofs use of the counts of notifications.
LEMMA SmallCounts == 1 # 2 /\ 0 + 1 = 1 /\ 1 + 0 = 1 /\ 1 + 1 = 2 /\ 2 + 0 = 2
OBVIOUS

\* Every step keeps the count of the didOpen notifications.
LEMMA CountedIsInductive == Counted /\ Meant /\ [Next]_vars => Counted'
<1> SUFFICES ASSUME Counted, Meant, [Next]_vars PROVE Counted'
    OBVIOUS
<1> USE RequestsAssumption DEF Counted, Recorded, Meant, Starting, Working, Writing, Leaving, Left, Tier1
<1>1. CASE Validate
    BY <1>1 DEF Validate, Fail, lspVars
<1>2. CASE Resolve
    BY <1>2 DEF Resolve, Fail, lspVars
<1>3. CASE Build
    BY <1>3 DEF Build, SetupFails, Fail
<1>4. CASE InitializeScript
    BY <1>4 DEF InitializeScript, SetupFails, Fail, AfterStart, Tier1
<1>5. CASE InitializeServer
    <2>1. pc = "initialize" /\ UNCHANGED request
        BY <1>5 DEF InitializeServer
    <2>2. CASE /\ pc' = "settle"
               /\ \E reached \in BOOLEAN :
                     /\ reached => request.language \in {"rust", "typescript"}
                     /\ opened' = reached
                     /\ didOpens' = IF reached THEN 1 ELSE 0
        <3>1. PICK reached \in BOOLEAN : /\ reached => request.language \in {"rust", "typescript"}
                                         /\ opened' = reached
                                         /\ didOpens' = IF reached THEN 1 ELSE 0
            BY <2>2
        <3> QED
            BY <2>1, <2>2, <3>1
    <2>3. CASE pc' = "route" /\ UNCHANGED <<opened, didOpens>>
        BY <2>1, <2>3
    <2> QED
        BY <1>5, <2>2, <2>3 DEF InitializeServer, SetupFails, Fail
<1>6. CASE Settle
    BY <1>6 DEF Settle, SetupFails, Fail, AfterStart, Tier1
<1>7. CASE Prime
    BY <1>7 DEF Prime, Tier1
<1>8. CASE FindNothing
    BY <1>8 DEF FindNothing, Fail, lspVars
<1>9. CASE FindFails
    BY <1>9 DEF FindFails, Fail, lspVars
<1>10. CASE Find
    <2>1. pc = "find" /\ pc' \in {"tier 1", "check kind"} /\ UNCHANGED <<request, lspVars>>
        BY <1>10 DEF Find, Fail
    <2> QED
        BY <2>1 DEF lspVars
<1>11. CASE Probe
    <2>1. pc = "probe" /\ pc' = "check kind" /\ UNCHANGED <<request, opened>>
        BY <1>11 DEF Probe
    <2>2. didOpens' = didOpens \/ didOpens' = didOpens + 1
        BY <1>11 DEF Probe
    <2>3. (opened /\ didOpens = 1) \/ (~opened /\ didOpens = 0)
        BY <2>1, Zenon
    <2>4. /\ opened => didOpens' \in {1, 2}
          /\ ~opened => didOpens' \in {0, 1}
        BY <2>2, <2>3, SmallCounts, Zenon
    <2> QED
        BY <2>1, <2>4, Zenon
<1>12. CASE CheckKind
    BY <1>12 DEF CheckKind, Fail, GiveUp, AskNext, lspVars
<1>13. CASE CheckInput
    BY <1>13 DEF CheckInput, Fail, GiveUp, AskNext, lspVars
<1>14. CASE Open
    <2>1. pc = "open" /\ pc' \in {"ask", "tier 1", "shutdown"} /\ UNCHANGED request
        BY <1>14 DEF Open, Fail, GiveUp
    <2>2. CASE opened' = TRUE /\ didOpens' = didOpens + IF opened THEN 0 ELSE 1
        <3>1. CASE opened
            <4>1. didOpens' = didOpens + 0 /\ didOpens \in {1, 2}
                BY <2>2, <3>1, Zenon
            <4> QED
                BY <2>1, <2>2, <3>1, <4>1, SmallCounts, Zenon
        <3>2. CASE ~opened
            <4>1. didOpens' = didOpens + 1 /\ didOpens \in {0, 1}
                BY <2>2, <3>2, Zenon
            <4> QED
                BY <2>1, <2>2, <3>2, <4>1, SmallCounts, Zenon
        <3> QED
            BY <3>1, <3>2
    <2>3. CASE pc' # "ask" /\ UNCHANGED <<opened, didOpens>>
        BY <2>1, <2>3
    <2> QED
        BY <1>14, <2>2, <2>3 DEF Open, Fail, GiveUp
<1>15. CASE AskUnsettled
    BY <1>15 DEF AskUnsettled, Fail, GiveUp, lspVars
<1>16. CASE AskRejected
    BY <1>16 DEF AskRejected, Fail, GiveUp, Rejections, lspVars
<1>17. CASE AskEmpty
    BY <1>17 DEF AskEmpty, Fail, GiveUp, lspVars
<1>18. CASE AskAnswered
    BY <1>18 DEF AskAnswered, lspVars
<1>19. CASE RunScript
    BY <1>19 DEF RunScript, Fail, GiveUp, ScriptAnswers, lspVars
<1>20. CASE List
    BY <1>20 DEF List, Fail, lspVars
<1>21. CASE Capture
    BY <1>21 DEF Capture, lspVars
<1>22. CASE Show
    BY <1>22 DEF Show, Fail, GiveUp, lspVars
<1>23. CASE Apply
    BY <1>23 DEF Apply, GiveUp, lspVars
<1>24. CASE ReturnTier1
    BY <1>24 DEF ReturnTier1, lspVars
<1>25. CASE Shutdown
    BY <1>25 DEF Shutdown
<1>26. CASE Route
    BY <1>26 DEF Route, lspVars
<1>27. CASE Execute
    BY <1>27 DEF Execute, lspVars
<1>28. CASE Finish
    BY <1>28 DEF Finish, lspVars
<1>29. CASE Finished \/ UNCHANGED vars
    <2>1. UNCHANGED <<request, pc, backend, opened, didOpens>>
        BY <1>29 DEF Finished, vars
    <2> QED
        BY <2>1, Zenon
<1> QED
    BY <1>1, <1>2, <1>3, <1>4, <1>5, <1>6, <1>7, <1>8, <1>9, <1>10, <1>11, <1>12, <1>13,
       <1>14, <1>15,
       <1>16, <1>17, <1>18, <1>19, <1>20, <1>21, <1>22, <1>23, <1>24, <1>25, <1>26,
          <1>27, <1>28, <1>29 DEF Next

\* The server is asked only about a file it was told of, and told twice only by
\* a rename: openAndAwaitIdle comes before every request of the adapter.
THEOREM AsksAboutOpenFiles == Spec => []OpenedBeforeAsked
<1> DEFINE Inv == Counted /\ Meant /\ Told /\ Life
<1>1. Init => Inv
    <2>1. Init => Counted
        <3> SUFFICES ASSUME Init PROVE Counted
            OBVIOUS
        <3>1. didOpens = 0 /\ pc = "validate" /\ opened = FALSE
            BY DEF Init
        <3>2. pc \notin (Starting \cup Working) \ {"validate"} /\ pc \notin {"settle", "prime"}
            BY <3>1 DEF Starting, Working
        <3>3. pc \notin {"prime", "find"} \cup {"find", "probe", "check kind"} /\ pc # "open" /\ pc # "ask" /\ 0 # 2
            BY <3>1
        <3> QED
            BY <3>1, <3>2, <3>3, Zenon DEF Counted, Recorded
    <2>2. Init => Meant /\ Told /\ Life
        BY DEF Init, Meant, Told, Life, Places, Starting, Writing, Leaving, Left
    <2> QED
        BY <2>1, <2>2
<1>2. Inv /\ [Next]_vars => Inv'
    BY LifeIsInductive, MeantIsInductive, ToldIsInductive, CountedIsInductive
<1>3. Inv => OpenedBeforeAsked
    <2> SUFFICES ASSUME Counted PROVE OpenedBeforeAsked
        OBVIOUS
    <2>1. didOpens \in {0, 1, 2}
        BY Zenon DEF Counted
    <2>2. didOpens <= 2 /\ (didOpens \in {1, 2} => didOpens >= 1) /\ (didOpens > 1 => didOpens = 2)
        BY <2>1
    <2> QED
        BY <2>2, Zenon DEF Counted, OpenedBeforeAsked
<1> QED
    BY <1>1, <1>2, <1>3, PTL DEF Spec

\* Every step spends as Spends says.
LEMMA StepsSpend == ASSUME [Next]_vars PROVE Spends
<1> USE DEF Spends, BeforeAsking, Starting
<1>1. CASE Validate
    BY <1>1 DEF Validate, Fail, lspVars
<1>2. CASE Resolve
    BY <1>2 DEF Resolve, Fail, lspVars
<1>3. CASE Build
    BY <1>3 DEF Build, SetupFails, Fail
<1>4. CASE InitializeScript
    BY <1>4 DEF InitializeScript, SetupFails, Fail, AfterStart, Tier1
<1>5. CASE InitializeServer
    BY <1>5 DEF InitializeServer, SetupFails, Fail
<1>6. CASE Settle
    BY <1>6 DEF Settle, SetupFails, Fail, AfterStart, Tier1
<1>7. CASE Prime
    BY <1>7 DEF Prime, Tier1
<1>8. CASE FindNothing
    BY <1>8 DEF FindNothing, Fail, lspVars
<1>9. CASE FindFails
    BY <1>9 DEF FindFails, Fail, lspVars
<1>10. CASE Find
    BY <1>10 DEF Find, Fail, lspVars
<1>11. CASE Probe
    BY <1>11 DEF Probe
<1>12. CASE CheckKind
    BY <1>12 DEF CheckKind, Fail, GiveUp, AskNext, lspVars
<1>13. CASE CheckInput
    BY <1>13 DEF CheckInput, Fail, GiveUp, AskNext, lspVars
<1>14. CASE Open
    BY <1>14 DEF Open, Fail, GiveUp
<1>15. CASE AskUnsettled
    BY <1>15 DEF AskUnsettled, Fail, GiveUp, lspVars
<1>16. CASE AskRejected
    BY <1>16 DEF AskRejected, Fail, GiveUp, Rejections, lspVars
<1>17. CASE AskEmpty
    BY <1>17 DEF AskEmpty, Fail, GiveUp, lspVars
<1>18. CASE AskAnswered
    BY <1>18 DEF AskAnswered, lspVars
<1>19. CASE RunScript
    BY <1>19 DEF RunScript, Fail, GiveUp, ScriptAnswers, lspVars
<1>20. CASE List
    BY <1>20 DEF List, Fail, lspVars
<1>21. CASE Capture
    BY <1>21 DEF Capture, lspVars
<1>22. CASE Show
    BY <1>22 DEF Show, Fail, GiveUp, lspVars
<1>23. CASE Apply
    BY <1>23 DEF Apply, GiveUp, lspVars
<1>24. CASE ReturnTier1
    BY <1>24 DEF ReturnTier1, lspVars
<1>25. CASE Shutdown
    BY <1>25 DEF Shutdown
<1>26. CASE Route
    BY <1>26 DEF Route, lspVars
<1>27. CASE Execute
    BY <1>27 DEF Execute, lspVars
<1>28. CASE Finish
    BY <1>28 DEF Finish, lspVars
<1>29. CASE Finished \/ UNCHANGED vars
    BY <1>29 DEF Finished, vars
<1> QED
    BY <1>1, <1>2, <1>3, <1>4, <1>5, <1>6, <1>7, <1>8, <1>9, <1>10, <1>11, <1>12, <1>13,
       <1>14, <1>15,
       <1>16, <1>17, <1>18, <1>19, <1>20, <1>21, <1>22, <1>23, <1>24, <1>25, <1>26,
          <1>27, <1>28, <1>29 DEF Next

\* Every step keeps the budget.
LEMMA BudgetedIsInductive == Budgeted /\ [Next]_vars => Budgeted'
<1> SUFFICES ASSUME Budgeted, [Next]_vars PROVE Budgeted'
    OBVIOUS
<1>1. Attempts \in Nat \ {0} /\ (UNCHANGED request => UNCHANGED Attempts)
    BY TriesAssumption DEF Attempts, Assists
<1>2. Spends
    BY StepsSpend
<1> QED
    BY <1>1, <1>2 DEF Budgeted, Spends

\* Every step keeps a rename whose answers are all empty from being a no-op.
LEMMA NoEditsIsInductive ==
    NoServerHadNoEdits /\ Meant /\ Told /\ Life /\ [Next]_vars => NoServerHadNoEdits'
<1> SUFFICES ASSUME NoServerHadNoEdits, Meant, Told, Life, [Next]_vars PROVE NoServerHadNoEdits'
    OBVIOUS
<1>a. pc \notin Leaving \cup Left => error = "none"
    BY DEF Told
<1>b. pc \in Starting => server = "none"
    BY DEF Life
<1>c. \A s \in Selections(request) : s.error # "no edits"
    BY SelectionsAssumption DEF Meant, SelectionErrors
<1> USE <1>a, <1>b, <1>c DEF NoServerHadNoEdits, Starting, Working, Writing, Leaving, Left
<1>1. CASE Validate
    BY <1>1 DEF Validate, Fail, lspVars
<1>2. CASE Resolve
    BY <1>2 DEF Resolve, Fail, lspVars
<1>3. CASE Build
    BY <1>3 DEF Build, SetupFails, Fail
<1>4. CASE InitializeScript
    BY <1>4 DEF InitializeScript, SetupFails, Fail, AfterStart, Tier1
<1>5. CASE InitializeServer
    BY <1>5 DEF InitializeServer, SetupFails, Fail
<1>6. CASE Settle
    BY <1>6 DEF Settle, SetupFails, Fail, AfterStart, Tier1
<1>7. CASE Prime
    BY <1>7 DEF Prime, Tier1
<1>8. CASE FindNothing
    BY <1>8 DEF FindNothing, Fail, lspVars
<1>9. CASE FindFails
    BY <1>9 DEF FindFails, Fail, lspVars
<1>10. CASE Find
    BY <1>10 DEF Find, Fail, lspVars
<1>11. CASE Probe
    BY <1>11 DEF Probe
<1>12. CASE CheckKind
    BY <1>12 DEF CheckKind, Fail, GiveUp, AskNext, lspVars
<1>13. CASE CheckInput
    BY <1>13 DEF CheckInput, Fail, GiveUp, AskNext, lspVars
<1>14. CASE Open
    BY <1>14 DEF Open, Fail, GiveUp
<1>15. CASE AskUnsettled
    BY <1>15 DEF AskUnsettled, Fail, GiveUp, lspVars
<1>16. CASE AskRejected
    BY <1>16 DEF AskRejected, Fail, GiveUp, Rejections, lspVars
<1>17. CASE AskEmpty
    <2>1. request.op # "rename"
        <3>1. request.op = "rename" => Transient = {"unsettled", "empty"}
            BY DEF Transient
        <3> QED
            BY <1>17, <3>1 DEF AskEmpty
    <2> QED
        BY <1>17, <2>1 DEF AskEmpty, Fail, GiveUp, lspVars
<1>18. CASE AskAnswered
    BY <1>18 DEF AskAnswered, lspVars
<1>19. CASE RunScript
    BY <1>19 DEF RunScript, Fail, GiveUp, ScriptAnswers, lspVars
<1>20. CASE List
    BY <1>20 DEF List, Fail, lspVars
<1>21. CASE Capture
    BY <1>21 DEF Capture, lspVars
<1>22. CASE Show
    BY <1>22 DEF Show, Fail, GiveUp, lspVars
<1>23. CASE Apply
    BY <1>23 DEF Apply, GiveUp, lspVars
<1>24. CASE ReturnTier1
    BY <1>24 DEF ReturnTier1, lspVars
<1>25. CASE Shutdown
    BY <1>25 DEF Shutdown
<1>26. CASE Route
    BY <1>26 DEF Route, lspVars
<1>27. CASE Execute
    BY <1>27 DEF Execute, lspVars
<1>28. CASE Finish
    BY <1>28 DEF Finish, lspVars
<1>29. CASE Finished \/ UNCHANGED vars
    BY <1>29 DEF Finished, vars
<1> QED
    BY <1>1, <1>2, <1>3, <1>4, <1>5, <1>6, <1>7, <1>8, <1>9, <1>10, <1>11, <1>12, <1>13,
       <1>14, <1>15,
       <1>16, <1>17, <1>18, <1>19, <1>20, <1>21, <1>22, <1>23, <1>24, <1>25, <1>26,
          <1>27, <1>28, <1>29 DEF Next

\* A request that is repeated ends after its budget in a failure: a rename whose
\* server sends only empty answers is never reported as a no-op, for any budget.
THEOREM UnsettledIsAFailure == Spec => []UnsettledIsNoAnswer
<1> DEFINE Inv == Budgeted /\ NoServerHadNoEdits /\ Meant /\ Told /\ Life
<1>1. Init => Inv
    <2>1. Init => Budgeted
        <3>1. Init => tries = 0 /\ pc = "validate"
            BY DEF Init
        <3> QED
            BY <3>1 DEF Budgeted
    <2>2. Init => NoServerHadNoEdits
        BY DEF Init, NoServerHadNoEdits
    <2>3. Init => Meant /\ Told /\ Life
        BY DEF Init, Meant, Told, Life, Places, Starting, Writing, Leaving, Left
    <2> QED
        BY <2>1, <2>2, <2>3
<1>2. Inv /\ [Next]_vars => Inv'
    BY LifeIsInductive, MeantIsInductive, ToldIsInductive, BudgetedIsInductive,
       NoEditsIsInductive
<1>3. Inv => UnsettledIsNoAnswer
    BY DEF Budgeted, NoServerHadNoEdits, UnsettledIsNoAnswer
<1> QED
    BY <1>1, <1>2, <1>3, PTL DEF Spec
==============================================================================
