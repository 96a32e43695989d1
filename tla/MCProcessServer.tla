-------------------------- MODULE MCProcessServer --------------------------
(* Two clients: two builds, or a build and one that asks or stops. *)
EXTENDS ProcessServer

CONSTANTS a, b, s1, s2

TwoJobs == {[c \in Clients |-> IF c = a THEN "build" ELSE j] : j \in {"build", "kill"}}
=============================================================================
