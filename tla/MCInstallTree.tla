--------------------------- MODULE MCInstallTree ---------------------------
(* InstallTree for two processes that install two extensions which share a *)
(* file, from archives that their manifests name the other way round.      *)
EXTENDS InstallTree, TLC

CONSTANTS p1, p2, a1, a2

MCAccepts == [p \in Procs |-> Versions]
MCContents == [a \in Archives |-> ExtensionFiles]
MCManifest ==
  [p \in Procs |-> <<[name |-> "vector", built |-> 1, archive |-> IF p = p1 THEN a1 ELSE a2],
                     [name |-> "trgm", built |-> 1, archive |-> IF p = p1 THEN a2 ELSE a1]>>]
MCDeclared == [p \in Procs |-> <<"vector", "trgm">>]

\* A bound: once a population has failed only slotted clusters are started.
SlottedAfterFailure == uncached = {} \/ \A p \in Procs : mode[p] = "slotted"

\* Another: while a cluster lives under which somebody has removed, only slotted ones
\* are started beside it.
SlottedBesideStripped ==
  stripped = {} \/ \A p \in Procs : mode[p] = "slotted" \/ pc[p] = "stripping"

\* The processes are alike but for their archives.
Permutation == {(p1 :> p2) @@ (p2 :> p1) @@ (a1 :> a2) @@ (a2 :> a1)}
=============================================================================
