------------------------------- MODULE Monitor -------------------------------
(***************************************************************************)
(* The memory accounting of one node: monitor::MemoryMonitor               *)
(* (src/monitor/monitor.cpp) with CKPT_ENGINE_MEM_LIMIT_GB set, and the    *)
(* threads that call it.                                                   *)
(*                                                                         *)
(*  - collectMetric, under mu_, sets total_idle = total_capacity -         *)
(*    self_total_usage (size_t arithmetic);                                *)
(*  - enough(n) runs collectMetric, then reads total_idle WITHOUT mu_ and  *)
(*    answers total_idle > n;                                              *)
(*  - TryMemfdMalloc and TryLoadFromFile call enough, then do              *)
(*    self_total_usage += size without any lock, then memfdCalloc (and the *)
(*    file read), whose failure returns an error with the usage kept;      *)
(*  - memfdFree, called by Storage::Delete under the registry's exclusive  *)
(*    lock (but not mu_), does self_total_usage -= size.                   *)
(* A += or -= on a shared size_t is a load and a store: two steps.         *)
(*                                                                         *)
(* Callers: createMetadata and the bootstrap fallback call the allocator   *)
(* directly; handleBackup and LoadRemote first compare the last total_idle *)
(* (GetMemoryStat, no collect) with the size and give up when it is lower. *)
(* A request for a file whose entry is registered re-uses the memfd:      *)
(* memfdFtruncate to the request's size, no enough(), no change of the     *)
(* usage, and the row is saved with the new size that memfdFree will later *)
(* subtract.  One thread at a time works on a file (its lifecycle is       *)
(* serialised by the reconciler); the threads share only the monitor and   *)
(* the registry.                                                           *)
(***************************************************************************)
EXTENDS Integers, FiniteSets, Functions

CONSTANTS
  Threads,      \* HTTP, server and bootstrap threads that allocate or free
  Files,        \* checkpoint files (model values)
  Sizes,        \* metadata.size values a request may carry (positive)
  Capacity,     \* stat_.total_capacity: min(cgroup limit, user limit)
  SizeBits,     \* width of size_t in the model (64 in the code)
  Callers,      \* subset of the allocating call sites, see Prechecked
  MaxOps,       \* bound on the operations started
  MaxFail       \* bound on failing memfdCalloc / file reads

\* size_t arithmetic wraps modulo 2^SizeBits.
Mod == 2^SizeBits
Sub(a, b) == (a - b) % Mod
AddU(a, b) == (a + b) % Mod

\* Call sites that test GetMemoryStat().total_idle < size before allocating.
Prechecked == {"handleBackup", "LoadRemote"}

ASSUME Callers \subseteq {"createMetadata", "handleBackup", "LoadRemote", "TryLoadFromFile"}

VARIABLES
  usage,    \* stat_.self_total_usage
  idle,     \* stat_.total_idle
  live,     \* files whose entry is in the storage registry
  pc,       \* per thread: step of the call it is in
  file,     \* per thread: the file of that call
  caller,   \* per thread: the call site, or "delete"
  tmp,      \* per thread: self_total_usage as loaded by the += or -=
  rsize,    \* per thread: metadata.size of its request
  sz,       \* per file: metadata.size of its row
  nops,     \* operations started
  nfail     \* failures so far

vars == <<usage, idle, live, pc, file, caller, tmp, rsize, sz, nops, nfail>>

\* The constructor's collectMetric(true): nothing is used yet.
Init ==
  /\ usage = 0
  /\ idle = Sub(Capacity, 0)
  /\ live = {}
  /\ pc = [t \in Threads |-> "idle"]
  /\ file = [t \in Threads |-> CHOOSE f \in Files : TRUE]
  /\ caller = [t \in Threads |-> "delete"]
  /\ tmp = [t \in Threads |-> 0]
  /\ rsize = [t \in Threads |-> CHOOSE n \in Sizes : TRUE]
  /\ sz = [f \in Files |-> CHOOSE n \in Sizes : TRUE]
  /\ nops = 0 /\ nfail = 0

-----------------------------------------------------------------------------
Busy(f) == \E t \in Threads : pc[t] # "idle" /\ file[t] = f

\* The registry's rw_mutex_ is held exclusively by a thread inside memfdFree.
RegistryLocked == \E t \in Threads : pc[t] = "free_store"

\* collectMetric with a user limit: total_idle from self_total_usage.
collectMetric == idle' = Sub(Capacity, usage)

Goto(t, s) == pc' = [pc EXCEPT ![t] = s]

\* Storage::Load missed: the call site goes on to allocate.
Begin(t, f, c, n) ==
  /\ pc[t] = "idle" /\ nops < MaxOps
  /\ ~Busy(f) /\ f \notin live /\ ~RegistryLocked
  /\ Goto(t, IF c \in Prechecked THEN "precheck" ELSE "collect")
  /\ file' = [file EXCEPT ![t] = f] /\ caller' = [caller EXCEPT ![t] = c]
  /\ rsize' = [rsize EXCEPT ![t] = n]
  /\ nops' = nops + 1
  /\ UNCHANGED <<usage, idle, live, tmp, nfail, sz>>

\* handleBackup / LoadRemote: the error response when the last idle is low.
Precheck(t) ==
  /\ pc[t] = "precheck"
  /\ Goto(t, IF idle < rsize[t] THEN "idle" ELSE "collect")
  /\ UNCHANGED <<usage, idle, live, file, caller, tmp, nops, nfail, rsize, sz>>

\* enough(): collectMetric under mu_ ...
EnoughCollect(t) ==
  /\ pc[t] = "collect"
  /\ collectMetric
  /\ Goto(t, "check")
  /\ UNCHANGED <<usage, live, file, caller, tmp, nops, nfail, rsize, sz>>

\* ... then total_idle > size, read after the unlock: STATUS_OOM otherwise.
EnoughCheck(t) ==
  /\ pc[t] = "check"
  /\ Goto(t, IF idle > rsize[t] THEN "add_load" ELSE "idle")
  /\ UNCHANGED <<usage, idle, live, file, caller, tmp, nops, nfail, rsize, sz>>

\* self_total_usage += metadata.size: the load ...
AddLoad(t) ==
  /\ pc[t] = "add_load"
  /\ tmp' = [tmp EXCEPT ![t] = usage]
  /\ Goto(t, "add_store")
  /\ UNCHANGED <<usage, idle, live, file, caller, nops, nfail, rsize, sz>>

\* ... and the store.
AddStore(t) ==
  /\ pc[t] = "add_store"
  /\ usage' = AddU(tmp[t], rsize[t])
  /\ Goto(t, "calloc")
  /\ UNCHANGED <<idle, live, file, caller, tmp, nops, nfail, rsize, sz>>

\* memfdCalloc (and, in TryLoadFromFile, fopen/fread/fclose), then the
\* caller's Storage::Save; a failure returns an error and keeps the usage.
CallocResults == IF nfail < MaxFail THEN {TRUE, FALSE} ELSE {TRUE}

Calloc(t) ==
  /\ pc[t] = "calloc" /\ ~RegistryLocked
  /\ \E ok \in CallocResults :
       IF ok THEN /\ live' = live \cup {file[t]}
                  /\ sz' = [sz EXCEPT ![file[t]] = rsize[t]]
                  /\ UNCHANGED nfail
             ELSE nfail' = nfail + 1 /\ UNCHANGED <<live, sz>>
  /\ Goto(t, "idle")
  /\ UNCHANGED <<usage, idle, file, caller, tmp, nops, rsize>>

\* Storage::Delete of a registered entry: lock, memfdFree loads the usage ...
Delete(t, f) ==
  /\ pc[t] = "idle" /\ nops < MaxOps
  /\ ~Busy(f) /\ f \in live /\ ~RegistryLocked
  /\ tmp' = [tmp EXCEPT ![t] = usage]
  /\ Goto(t, "free_store")
  /\ file' = [file EXCEPT ![t] = f] /\ caller' = [caller EXCEPT ![t] = "delete"]
  /\ nops' = nops + 1
  /\ UNCHANGED <<usage, idle, live, nfail, rsize, sz>>

\* ... stores it less the size, erases the entry and unlocks.
FreeStore(t) ==
  /\ pc[t] = "free_store"
  /\ usage' = Sub(tmp[t], sz[file[t]])
  /\ live' = live \ {file[t]}
  /\ Goto(t, "idle")
  /\ UNCHANGED <<idle, file, caller, tmp, nops, nfail, rsize, sz>>

\* Util::memfdFtruncate: nothing to do at the same size, else ftruncate.
memfdFtruncate(f, n) ==
  IF n = sz[f] THEN {TRUE} ELSE CallocResults

\* createMetadata or handleBackup (after its idle check) for a file whose
\* entry Storage::Load finds: memfdFtruncate to the request's size without
\* enough() or any change of self_total_usage, then the row is saved with
\* that size; a failed ftruncate returns an error.
Recreate(t, f, c, n) ==
  /\ pc[t] = "idle" /\ nops < MaxOps
  /\ ~Busy(f) /\ f \in live /\ ~RegistryLocked
  /\ c \in {"createMetadata", "handleBackup"}
  /\ nops' = nops + 1
  /\ IF c \in Prechecked /\ idle < n
       THEN UNCHANGED <<sz, nfail>>
       ELSE \E ok \in memfdFtruncate(f, n) :
              IF ok THEN sz' = [sz EXCEPT ![f] = n] /\ UNCHANGED nfail
                    ELSE nfail' = nfail + 1 /\ UNCHANGED sz
  /\ UNCHANGED <<usage, idle, live, pc, file, caller, tmp, rsize>>

\* The monitor thread of Start(): collectMetric(false) every period.
MonitorCollect ==
  /\ collectMetric
  /\ UNCHANGED <<usage, live, pc, file, caller, tmp, nops, nfail, rsize, sz>>

Next ==
  \/ \E t \in Threads :
       \/ \E f \in Files : Delete(t, f)
       \/ \E f \in Files, c \in Callers, n \in Sizes : Begin(t, f, c, n) \/ Recreate(t, f, c, n)
       \/ Precheck(t) \/ EnoughCollect(t) \/ EnoughCheck(t)
       \/ AddLoad(t) \/ AddStore(t) \/ Calloc(t) \/ FreeStore(t)
  \/ MonitorCollect

Spec == Init /\ [][Next]_vars

-----------------------------------------------------------------------------
Pcs == {"idle", "precheck", "collect", "check", "add_load", "add_store", "calloc", "free_store"}

TypeOK ==
  /\ usage \in 0..(Mod - 1) /\ idle \in 0..(Mod - 1)
  /\ live \subseteq Files
  /\ pc \in [Threads -> Pcs] /\ file \in [Threads -> Files]
  /\ caller \in [Threads -> Callers \cup {"delete"}]
  /\ tmp \in [Threads -> 0..(Mod - 1)]
  /\ rsize \in [Threads -> Sizes] /\ sz \in [Files -> Sizes]
  /\ nops \in 0..MaxOps /\ nfail \in 0..MaxFail

\* Bytes of the regions the registry holds.
LiveBytes == SumFunctionOnSet(sz, live)

(* The limit the monitor exists to enforce (spec 4.4: an allocation is     *)
(* admitted only when self_total_usage + size <= capacity): however the    *)
(* allocating and freeing threads interleave, the checkpoint regions       *)
(* registered on the node never add up to more than total_capacity.       *)
WithinCapacity == LiveBytes <= Capacity
=============================================================================
