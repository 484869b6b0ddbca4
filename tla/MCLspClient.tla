----------------------------- MODULE MCLspClient -----------------------------
(* The client on short runs of a command: what MoveToFile does (open the      *)
(* file, ask for code actions, execute one) in its smallest form.             *)
EXTENDS LspClient

MCMove == <<"notify", "request", "command", "shutdown">>
MCTwoRequests == <<"request", "request", "shutdown">>
=============================================================================
