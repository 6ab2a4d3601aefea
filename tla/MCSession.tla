------------------------------- MODULE MCSession ------------------------------
(* A short session for TLC.                                                 *)
EXTENDS Session

AllModes == {"repl", "once", "dash"}
\* "/other" does what "enter" does in the loop and what "text" does at a prompt.
Typeable == {"enter", "grant", "text", "/quit"}
=============================================================================
