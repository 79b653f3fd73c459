----------------------------- MODULE MCDatabases -----------------------------
(* Databases with two threads, a template, and a name they both use.       *)
EXTENDS Databases

CONSTANTS a, b
=============================================================================
