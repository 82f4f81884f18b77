------------------------------ MODULE AbsLoader ------------------------------
(***************************************************************************)
(* What the remote path of getMetadata promises the ranks of a node        *)
(* (include/communicator/http/remote_file_loader.h, "load remotely once is *)
(* enough"): a cache of replicas fetched from their owners.  A file is     *)
(* fetched only because a rank asked for it, at most one fetch of a file   *)
(* is under way at a time, a fetch either completes or leaves the file as  *)
(* if it had never been asked for, a completed file is never fetched       *)
(* again, and a rank is answered only with a completed file.  Each step is *)
(* atomic; channels, threads and the polling interval are not visible.     *)
(***************************************************************************)
CONSTANTS Clients, Files, Want

VARIABLES
  cache,   \* [Files -> {"absent", "loading", "ready"}]
  asked,   \* the ranks whose request was issued
  served   \* the ranks answered with the replica

\* A rank issues its request for Want[c].
Ask(c) ==
  /\ c \notin asked
  /\ asked' = asked \cup {c}
  /\ UNCHANGED <<cache, served>>

\* A fetch starts for a file some rank asked for and nobody holds.
Fetch(f) ==
  /\ cache[f] = "absent"
  /\ \E c \in asked : Want[c] = f
  /\ cache' = [cache EXCEPT ![f] = "loading"]
  /\ UNCHANGED <<asked, served>>

\* The fetch completes, or fails and the file is absent again.
Finish(f) ==
  /\ cache[f] = "loading"
  /\ \E r \in {"ready", "absent"} : cache' = [cache EXCEPT ![f] = r]
  /\ UNCHANGED <<asked, served>>

\* A waiting rank is handed the completed replica.
Serve(c) ==
  /\ c \in asked \ served
  /\ cache[Want[c]] = "ready"
  /\ served' = served \cup {c}
  /\ UNCHANGED <<asked, cache>>

Init ==
  /\ cache = [f \in Files |-> "absent"]
  /\ asked = {}
  /\ served = {}

Next ==
  \/ \E c \in Clients : Ask(c) \/ Serve(c)
  \/ \E f \in Files : Fetch(f) \/ Finish(f)

Spec == Init /\ [][Next]_<<cache, asked, served>>
=============================================================================
