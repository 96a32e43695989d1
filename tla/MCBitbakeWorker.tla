-------------------------- MODULE MCBitbakeWorker --------------------------
(* Small numbers of tasks and short pipes for TLC. *)
EXTENDS BitbakeWorker

CONSTANTS t1, t2
=============================================================================
