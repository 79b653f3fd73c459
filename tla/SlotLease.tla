----------------------------- MODULE SlotLease -----------------------------
(***************************************************************************)
(* What per-cluster data directories promise (ADR 005), without the files, *)
(* locks, guards, sweeps and watchers that keep the promise.  A slot is    *)
(* leased to one process; its data are written and removed by the holder   *)
(* of the lease, or removed once the holder is dead and no server works    *)
(* on them; the shared install tree goes only when nobody but the process  *)
(* that removes it holds a lease, or is stripped by a cluster that takes   *)
(* no part in this.                                                        *)
(***************************************************************************)
CONSTANT Slots

VARIABLES
  lease,     \* "free", "held" by a live process, "abandoned" by a dead one
  data,      \* the slots whose data directory exists
  serving,   \* the slots whose server works on the data directory
  tree       \* the shared install tree: "absent", "present", or "stripped" by
             \* a cluster that asked nobody

leaseVars == <<lease, data, serving, tree>>

LeaseInit ==
  /\ lease = [s \in Slots |-> "free"]
  /\ data = {}
  /\ serving = {}
  /\ tree = "absent"

Grant(s) ==
  /\ lease[s] = "free"
  /\ lease' = [lease EXCEPT ![s] = "held"]
  /\ UNCHANGED <<data, serving, tree>>

\* A process dies: every slot it holds or was about to hold is abandoned.
Abandon ==
  /\ \E S \in SUBSET {s \in Slots : lease[s] \in {"free", "held"}} :
       lease' = [s \in Slots |-> IF s \in S THEN "abandoned" ELSE lease[s]]
  /\ UNCHANGED <<data, serving, tree>>

Fill(s) ==
  /\ lease[s] = "held"
  /\ data' = data \cup {s}
  /\ UNCHANGED <<lease, serving, tree>>

Serve(s) ==
  /\ lease[s] = "held" /\ s \in data
  /\ serving' = serving \cup {s}
  /\ UNCHANGED <<lease, data, tree>>

\* A server stops or crashes, whoever holds the slot.
Cease(s) ==
  /\ serving' = serving \ {s}
  /\ UNCHANGED <<lease, data, tree>>

\* The holder removes its own data, never under its own server ...
Vacate(s) ==
  /\ lease[s] = "held" /\ s \notin serving
  /\ data' = data \ {s}
  /\ UNCHANGED <<lease, serving, tree>>

\* ... except when it lets go of its cluster: server and data go at once, or the
\* server is one nobody can find any more.
Discard(s) ==
  /\ lease[s] = "held"
  /\ data' = data \ {s}
  /\ serving' = serving \ {s}
  /\ UNCHANGED <<lease, tree>>

\* A sweep removes the data of a dead holder.
Reclaim(s) ==
  /\ lease[s] = "abandoned" /\ s \notin serving
  /\ data' = data \ {s}
  /\ UNCHANGED <<lease, serving, tree>>

Provision ==
  /\ tree' = "present"
  /\ UNCHANGED <<lease, data, serving>>

\* The last lease holder, or a cluster without a lease, removes the tree; the
\* last holder's data may go with it, and the tree's own removal may fail.
RemoveTree ==
  /\ \E mine \in SUBSET Slots :
       /\ {s \in Slots : lease[s] = "held"} \subseteq mine
       /\ \A s, t \in mine : s = t
       /\ \/ data' = data \ mine /\ mine \cap serving = {}
          \/ data' = data
  /\ tree' \in {"absent", tree}
  /\ UNCHANGED <<lease, serving>>

\* A cluster that has no lease and asks nobody removes the tree.
Strip ==
  /\ tree = "present" /\ tree' = "stripped"
  /\ UNCHANGED <<lease, data, serving>>

LeaseNext ==
  \/ \E s \in Slots :
       Grant(s) \/ Fill(s) \/ Serve(s) \/ Cease(s) \/ Vacate(s) \/ Discard(s) \/ Reclaim(s)
  \/ Abandon \/ Provision \/ RemoveTree \/ Strip

LeaseSpec == LeaseInit /\ [][LeaseNext]_leaseVars
=============================================================================
