---------------------------- MODULE MCPipeServer ----------------------------
(* Small instances of PipeServer for TLC; the client ids are model values. *)
EXTENDS PipeServer

CONSTANT w1     \* the VS Code window

\* From these a client can put together words in order, a SENSITIVE that is
\* taken or refused after a SAFE, a second HELLO, garbage and a farewell.
Vocabulary ==
    { [kind |-> "hello", id |-> w1],
      [kind |-> "state", seq |-> 0, report |-> "safe"],
      [kind |-> "state", seq |-> 0, report |-> "sensitive"],
      [kind |-> "state", seq |-> 1, report |-> "sensitive"],
      [kind |-> "garbage"],
      [kind |-> "goodbye"] }
=============================================================================
