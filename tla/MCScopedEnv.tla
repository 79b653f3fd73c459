---------------------------- MODULE MCScopedEnv ----------------------------
(* ScopedEnv with two threads, two variables and three lists of changes.   *)
EXTENDS ScopedEnv

CONSTANTS t1, t2, k1, k2, v1, v2

\* One variable; two, one of them removed; one variable twice.
MCChanges == {
  <<<<k1, v1>>>>,
  <<<<k1, Unset>>, <<k2, v1>>>>,
  <<<<k1, v1>>, <<k1, v2>>>>}
=============================================================================
