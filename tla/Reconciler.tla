----------------------------- MODULE Reconciler -----------------------------
(***************************************************************************)
(* The reconciliation core of one checkpoint-engine node (the "self" rank) *)
(* together with the parts of its successor that replication touches.     *)
(*                                                                         *)
(*  - the work queue (util::channel, operator/operator.cpp) and a pool of  *)
(*    workers running Coordinator::Reconcile (coordinator.cpp) one         *)
(*    database / registry / peer call per step;                            *)
(*  - the intra-node HTTP handlers createMetadata (with the eviction of    *)
(*    the oldest iteration, deleteOldestIteration) and updateMetadata      *)
(*    (http_service_impl.h);                                               *)
(*  - the metadata table shared by the ring (storage/metadata.cpp), the    *)
(*    owned map of the storage registry (storage/storage.cpp), durable    *)
(*    storage (storage/persistence.cpp);                                   *)
(*  - the successor: its backup map, written by Server::handleBackup, and  *)
(*    its reconciler, which deletes a replica once the row is OBSOLESCENT. *)
(*                                                                         *)
(* Every file is owned by self (node_rank = self), so the early return of  *)
(* Reconcile for backup data is exercised only on the successor.          *)
(***************************************************************************)
EXTENDS Integers, Sequences, FiniteSets, SequencesExt

CONSTANTS
  Files,          \* checkpoint file names (model values)
  Workers,        \* reconciler threads (OPERATOR_N_THREADS)
  Iteration,      \* [Files -> Nat]: the numeric iteration tag of each file
  WorldSize,      \* TRANSOM_WORLD_SIZE, 1 or 2 here
  Persistent,     \* CKPT_ENGINE_ENABLE_PERSISTENT = "on"
  MaxIteration,   \* CKPT_ENGINE_MAX_ITERATION_IN_CACHE
  QueueCap,       \* OPERATOR_WORKQUEUE_BUFFER
  MaxBackupFail,  \* bound on failed Backup calls to the successor
  MaxPersistFail, \* bound on failed WriteToDisk calls
  MaxOom,         \* bound on TryMemfdMalloc answering OutOfMemory
  NoRow           \* "no metadata row" (Load returns NOT_FOUND)

ASSUME WorldSize \in {1, 2} /\ Persistent \in BOOLEAN
ASSUME MaxIteration \in Nat \ {0} /\ QueueCap \in Nat \ {0}

\* api::CheckpointState
States == {"PENDING", "CACHED", "BACKED_UP", "PERSISTENT", "BROKEN", "OBSOLESCENT"}

VARIABLES
  meta,       \* metadata table: file -> state, or NoRow
  dict,       \* files in this node's owned map (Storage::dict_)
  backup,     \* files in the successor's backup map (Storage::backup_dict_)
  durable,    \* files written in full to the storage root
  placeholder,\* empty files created when persistence is off
  queue,      \* the operator's work queue
  succq,      \* keys the successor's BACKUP handler enqueued on its reconciler
  wpc, wkey, wsnap, wto, \* per worker: step, key, state read by Load, target state
  client,     \* per file: "new", "created", "pushing" (update issued), "updated",
              \* or "failed" (createMetadata answered an error)
  cpc, cfile, \* createMetadata in progress: step and file
  evbatch,    \* deleteOldestIteration: the rows (and states) BatchLoad returned
  evleft, evcur, evsnap, \* files left, current file, its state last read
  iterq,      \* IterationManager's FIFO of iterations
  nbfail, npfail, noom   \* failures so far

vars == <<meta, dict, backup, durable, placeholder, queue, succq, wpc, wkey,
          wsnap, wto, client, cpc, cfile, evbatch, evleft, evcur, evsnap, iterq,
          nbfail, npfail, noom>>
workerVars == <<wpc, wkey, wsnap, wto>>
creatorVars == <<cpc, cfile, evbatch, evleft, evcur, evsnap>>
failVars == <<nbfail, npfail, noom>>

Init ==
  /\ meta = [f \in Files |-> NoRow]
  /\ dict = {} /\ backup = {} /\ durable = {} /\ placeholder = {}
  /\ queue = <<>> /\ succq = {}
  /\ wpc = [w \in Workers |-> "idle"]
  /\ wkey = [w \in Workers |-> CHOOSE f \in Files : TRUE]
  /\ wsnap = [w \in Workers |-> NoRow]
  /\ wto = [w \in Workers |-> NoRow]
  /\ client = [f \in Files |-> "new"]
  /\ cpc = "idle" /\ cfile = (CHOOSE f \in Files : TRUE)
  /\ evbatch = [f \in Files |-> NoRow]
  /\ evleft = {} /\ evcur = (CHOOSE f \in Files : TRUE) /\ evsnap = NoRow
  /\ iterq = <<>>
  /\ nbfail = 0 /\ npfail = 0 /\ noom = 0

-----------------------------------------------------------------------------
(* The services the handlers call.  The database answers every query (its  *)
(* errors are not modelled); NoRow stands for STATUS_NOT_FOUND.            *)

\* MetaClient::Load: SELECT by primary key.
MetaLoad(f) == meta[f]

\* MetaClient::Save: REPLACE INTO, the whole row inserted or overwritten.
MetaSave(f, st) == [meta EXCEPT ![f] = st]

\* MetaClient::UpdateState: a blind UPDATE ... WHERE FILE_NAME, which
\* changes nothing when the row does not exist.
UpdateState(f, st) == IF meta[f] = NoRow THEN meta ELSE [meta EXCEPT ![f] = st]

\* MetaClient::BatchLoad with the filter {node_rank = self, iteration = it};
\* every row of the model is this node's.
BatchLoad(it) == {g \in Files : meta[g] # NoRow /\ Iteration[g] = it}

\* Storage::Save of a region of this node: insert_or_assign into dict_.
StorageSave(f) == dict \cup {f}

\* Persistence::WriteToDisk: fopen("w+"), fwrite and fclose, each of which
\* may fail; the answers it can give while failures remain.
WriteToDisk == IF npfail < MaxPersistFail THEN {TRUE, FALSE} ELSE {TRUE}

\* MemoryMonitor::TryMemfdMalloc: enough() re-samples the cgroup counters
\* and answers OutOfMemory when the idle memory is not above the size.
TryMemfdMalloc == IF noom < MaxOom THEN {"ok", "oom"} ELSE {"ok"}

\* IterationManager over its SafeDeque of numeric iterations.
isExist(q, it) == Contains(q, it)
totalIteration(q) == Len(q)
pushIteration(q, it) == Append(q, it)
deleteOldestIteration(q) == IF q = <<>> THEN q ELSE Tail(q)
\* ULONG_MAX on an empty queue: no file has that iteration.
oldestIteration(q) == IF q = <<>> THEN -1 ELSE Head(q)

-----------------------------------------------------------------------------
\* Mutant: the full-channel test off by one.
CanPushOffByOne == Len(queue) <= QueueCap

(* The work queue: `key >> work_queue_` blocks while the channel is full.  *)
CanPush == Len(queue) < QueueCap

\* Operator::AddRateLimited: RateLimiter::aquire sleeps for the limiter's
\* delay (timing only), then `key >> work_queue_`.
AddRateLimited(k) == CanPush /\ queue' = Append(queue, k)

\* Mutant: OBSOLESCENT records are never deleted.
DispatchNoObsolete(st) ==
  CASE st = "CACHED" /\ WorldSize < 2 /\ ~Persistent -> "placeholder"
    [] st = "CACHED" /\ WorldSize < 2                -> "persist"
    [] st = "CACHED"                                 -> "backup"
    [] st = "BACKED_UP" /\ ~Persistent               -> "placeholder"
    [] st = "BACKED_UP"                              -> "persist"
    [] OTHER                                         -> "idle"

\* Mutant: BACKED_UP treated as terminal, like PERSISTENT.
DispatchNoPersist(st) ==
  CASE st = "CACHED" /\ WorldSize < 2 /\ ~Persistent -> "placeholder"
    [] st = "CACHED" /\ WorldSize < 2                -> "persist"
    [] st = "CACHED"                                 -> "backup"
    [] st = "OBSOLESCENT" /\ WorldSize > 1           -> "backup"
    [] st = "OBSOLESCENT"                            -> "delete"
    [] OTHER                                         -> "idle"

(***************************************************************************)
(* Reconcile, the dispatch on the state read by Load once the data entry   *)
(* is known to exist: the next step of the worker.                         *)
(***************************************************************************)
Dispatch(st) ==
  CASE st = "CACHED" /\ WorldSize < 2 /\ ~Persistent -> "placeholder"
    [] st = "CACHED" /\ WorldSize < 2                -> "persist"
    [] st = "CACHED"                                 -> "backup"
    [] st = "BACKED_UP" /\ ~Persistent               -> "placeholder"
    [] st = "BACKED_UP"                              -> "persist"
    [] st = "OBSOLESCENT" /\ WorldSize > 1           -> "backup"
    [] st = "OBSOLESCENT"                            -> "delete"
    [] OTHER                                         -> "idle"

\* A worker pops a key (Operator::run) and loads its metadata row.
RecLoad(w) ==
  /\ wpc[w] = "idle" /\ queue # <<>>
  /\ LET k == Head(queue) IN
       /\ queue' = Tail(queue)
       /\ wkey' = [wkey EXCEPT ![w] = k]
       /\ wsnap' = [wsnap EXCEPT ![w] = MetaLoad(k)]
       /\ wpc' = [wpc EXCEPT ![w] = IF MetaLoad(k) = NoRow THEN "idle" ELSE "check"]
  /\ UNCHANGED <<meta, dict, backup, durable, placeholder, succq, wto, client,
                 creatorVars, iterq, failVars>>

\* checkDataCompletion, then the dispatch.  A missing entry is BROKEN unless
\* the row read was OBSOLESCENT; with persistence off an empty placeholder
\* file is created and the key is not re-enqueued.
RecCheck(w) ==
  LET k == wkey[w]  st == wsnap[w] IN
  /\ wpc[w] = "check"
  /\ IF k \notin dict
       THEN /\ wpc' = [wpc EXCEPT ![w] = IF st = "OBSOLESCENT" THEN "idle" ELSE "broken"]
            /\ UNCHANGED placeholder
       ELSE /\ wpc' = [wpc EXCEPT ![w] =
                         IF Dispatch(st) = "placeholder" THEN "idle" ELSE Dispatch(st)]
            /\ placeholder' = IF Dispatch(st) = "placeholder"
                                THEN placeholder \cup {k} ELSE placeholder
  /\ UNCHANGED <<meta, dict, backup, durable, queue, succq, wkey, wsnap, wto,
                 client, creatorVars, iterq, failVars>>

\* updateState(BROKEN): skipped when the row read was already BROKEN.
RecMarkBroken(w) ==
  /\ wpc[w] = "broken"
  /\ meta' = IF wsnap[w] = "BROKEN" THEN meta ELSE UpdateState(wkey[w], "BROKEN")
  /\ wpc' = [wpc EXCEPT ![w] = "idle"]
  /\ UNCHANGED <<dict, backup, durable, placeholder, queue, succq, wkey, wsnap,
                 wto, client, creatorVars, iterq, failVars>>

(***************************************************************************)
(* backUp: ClientUtil::Backup to the successor, and the successor's        *)
(* Server::handleBackup.  With data (state CACHED) the successor allocates *)
(* the replica in its backup map before the RDMA handshake, so a transfer  *)
(* that fails after that leaves the replica allocated; the successor       *)
(* enqueues the key only after the client's write token.  Metadata-only    *)
(* (state OBSOLESCENT) just enqueues the key on the successor.  On failure *)
(* the worker sleeps 3 s and re-enqueues.                                  *)
(***************************************************************************)
RecBackup(w) ==
  LET k == wkey[w] IN
  /\ wpc[w] = "backup"
  /\ \/ /\ wsnap[w] = "CACHED"
        /\ backup' = backup \cup {k}
        /\ succq' = succq \cup {k}
        /\ wto' = [wto EXCEPT ![w] = "BACKED_UP"]
        /\ wpc' = [wpc EXCEPT ![w] = "update"]
        /\ UNCHANGED nbfail
     \/ /\ wsnap[w] = "OBSOLESCENT"
        /\ succq' = succq \cup {k}
        /\ wpc' = [wpc EXCEPT ![w] = "delete"]
        /\ UNCHANGED <<backup, wto, nbfail>>
     \/ /\ nbfail < MaxBackupFail
        /\ nbfail' = nbfail + 1
        /\ \/ backup' = backup
           \/ wsnap[w] = "CACHED" /\ backup' = backup \cup {k}
        /\ wpc' = [wpc EXCEPT ![w] = "requeue"]
        /\ UNCHANGED <<succq, wto>>
  /\ UNCHANGED <<meta, dict, durable, placeholder, queue, wkey, wsnap, client,
                 creatorVars, iterq, npfail, noom>>

(***************************************************************************)
(* persistence: WriteToDisk of the region read by checkDataCompletion.     *)
(* A failure from CACHED (world size 1) re-enqueues; a failure from        *)
(* BACKED_UP sets do_not_requeue and the key is dropped.                   *)
(***************************************************************************)
RecPersist(w) ==
  LET k == wkey[w] IN
  /\ wpc[w] = "persist"
  /\ \E ok \in WriteToDisk :
       IF ok
         THEN /\ durable' = durable \cup {k}
              /\ wto' = [wto EXCEPT ![w] = "PERSISTENT"]
              /\ wpc' = [wpc EXCEPT ![w] = "update"]
              /\ UNCHANGED npfail
         ELSE /\ npfail' = npfail + 1
              /\ wpc' = [wpc EXCEPT ![w] = IF wsnap[w] = "CACHED" THEN "requeue" ELSE "idle"]
              /\ UNCHANGED <<durable, wto>>
  /\ UNCHANGED <<meta, dict, backup, placeholder, queue, succq, wkey, wsnap,
                 client, creatorVars, iterq, nbfail, noom>>

\* updateState: a blind UPDATE of the row to the target state, skipped when
\* the state read by Load already equals it; then the key is re-enqueued.
RecUpdate(w) ==
  /\ wpc[w] = "update"
  /\ meta' = IF wsnap[w] = wto[w] THEN meta ELSE UpdateState(wkey[w], wto[w])
  /\ wpc' = [wpc EXCEPT ![w] = "requeue"]
  /\ UNCHANGED <<dict, backup, durable, placeholder, queue, succq, wkey, wsnap,
                 wto, client, creatorVars, iterq, failVars>>

\* Operator::AddRateLimited from the worker itself (handler returned false).
RecRequeue(w) ==
  /\ wpc[w] = "requeue"
  /\ AddRateLimited(wkey[w])
  /\ wpc' = [wpc EXCEPT ![w] = "idle"]
  /\ UNCHANGED <<meta, dict, backup, durable, placeholder, succq, wkey, wsnap,
                 wto, client, creatorVars, iterq, failVars>>

\* deleteCkpt: Storage::Delete closes the memfd and unmaps asynchronously.
RecDelete(w) ==
  /\ wpc[w] = "delete"
  /\ dict' = dict \ {wkey[w]}
  /\ wpc' = [wpc EXCEPT ![w] = "idle"]
  /\ UNCHANGED <<meta, backup, durable, placeholder, queue, succq, wkey, wsnap,
                 wto, client, creatorVars, iterq, failVars>>

\* Mutant: the successor drops the replica without checking for OBSOLESCENT.
SuccReconcileAnyState(k) ==
  /\ k \in succq
  /\ succq' = succq \ {k}
  /\ backup' = backup \ {k}
  /\ UNCHANGED <<meta, dict, durable, placeholder, queue, workerVars, client,
                 creatorVars, iterq, failVars>>

(***************************************************************************)
(* The successor's reconciler for a key its BACKUP handler enqueued: the   *)
(* row is not its own, so it returns unless the row is OBSOLESCENT, in     *)
(* which case it deletes the replica from its backup map.                  *)
(***************************************************************************)
SuccReconcile(k) ==
  /\ k \in succq
  /\ succq' = succq \ {k}
  /\ backup' = IF MetaLoad(k) = "OBSOLESCENT" THEN backup \ {k} ELSE backup
  /\ UNCHANGED <<meta, dict, durable, placeholder, queue, workerVars, client,
                 creatorVars, iterq, failVars>>

-----------------------------------------------------------------------------
(***************************************************************************)
(* createMetadata.  Under rw_mutex_: a numeric iteration not yet in the    *)
(* queue, with the queue at max_iteration, first evicts the oldest         *)
(* iteration; then the iteration is pushed.  After the lock: allocate (or  *)
(* ftruncate) the region, save it in the owned map, REPLACE the row.       *)
(* The training client issues a file's create only once every file of an   *)
(* earlier iteration has been updated to CACHED or its create has failed.  *)
(***************************************************************************)
\* Mutants: the wait of deleteOldestIteration without one of its two cases.
EvictWaitsCachedOnly(st) == st = "CACHED" /\ WorldSize > 1
EvictWaitsBackedUpOnly(st) == st = "BACKED_UP" /\ Persistent

\* deleteOldestIteration waits while the state read is still transient.
EvictWaits(st) ==
  \/ st = "CACHED" /\ WorldSize > 1
  \/ st = "BACKED_UP" /\ Persistent

CreateBegin(f) ==
  LET it == Iteration[f]
      known == isExist(iterq, it)
      vec == BatchLoad(oldestIteration(iterq))
  IN
  /\ cpc = "idle" /\ client[f] = "new"
  /\ \A g \in Files : Iteration[g] < it => client[g] \in {"updated", "failed"}
  /\ \/ /\ known \/ totalIteration(iterq) < MaxIteration
        /\ iterq' = IF known THEN iterq ELSE pushIteration(iterq, it)
        /\ cpc' = "alloc" /\ cfile' = f
        /\ UNCHANGED <<evbatch, evleft, client>>
     \/ /\ ~known /\ totalIteration(iterq) >= MaxIteration /\ vec # {}
        /\ cpc' = "evict" /\ cfile' = f /\ evleft' = vec
        /\ evbatch' = [g \in Files |-> IF g \in vec THEN meta[g] ELSE NoRow]
        /\ UNCHANGED <<iterq, client>>
     \/ \* no row of the oldest iteration: the create answers an error
        /\ ~known /\ totalIteration(iterq) >= MaxIteration /\ vec = {}
        /\ client' = [client EXCEPT ![f] = "failed"]
        /\ UNCHANGED <<iterq, cpc, cfile, evbatch, evleft>>
  /\ UNCHANGED <<meta, dict, backup, durable, placeholder, queue, succq,
                 workerVars, evcur, evsnap, failVars>>

\* Take the next row of the batch with the state BatchLoad read, or,
\* when all are done, pop the oldest iteration and push the new one.
EvictNext ==
  /\ cpc = "evict"
  /\ IF evleft # {}
       THEN \E g \in evleft :
              /\ evcur' = g /\ evsnap' = evbatch[g] /\ cpc' = "wait"
              /\ UNCHANGED iterq
       ELSE /\ iterq' = pushIteration(deleteOldestIteration(iterq), Iteration[cfile])
            /\ cpc' = "alloc"
            /\ UNCHANGED <<evcur, evsnap>>
  /\ UNCHANGED <<meta, dict, backup, durable, placeholder, queue, succq,
                 workerVars, client, cfile, evbatch, evleft, failVars>>

\* The wait loop: sleep and Load again while the state is transient.
EvictWait ==
  /\ cpc = "wait"
  /\ IF EvictWaits(evsnap)
       THEN evsnap' = MetaLoad(evcur) /\ UNCHANGED cpc
       ELSE cpc' = "mark" /\ UNCHANGED evsnap
  /\ UNCHANGED <<meta, dict, backup, durable, placeholder, queue, succq,
                 workerVars, client, cfile, evbatch, evleft, evcur, iterq, failVars>>

EvictMark ==
  /\ cpc = "mark"
  /\ meta' = UpdateState(evcur, "OBSOLESCENT")
  /\ cpc' = "push"
  /\ UNCHANGED <<dict, backup, durable, placeholder, queue, succq, workerVars,
                 client, cfile, evbatch, evleft, evcur, evsnap, iterq, failVars>>

EvictPush ==
  /\ cpc = "push"
  /\ AddRateLimited(evcur)
  /\ cpc' = "drain"
  /\ UNCHANGED <<meta, dict, backup, durable, placeholder, succq, workerVars,
                 client, cfile, evbatch, evleft, evcur, evsnap, iterq, failVars>>

\* Poll the registry until the entry is gone: while Storage::Load still
\* finds it the thread sleeps and polls again (a step that changes nothing).
EvictDrain ==
  /\ cpc = "drain"
  /\ IF evcur \notin dict
       THEN /\ evleft' = evleft \ {evcur}
            /\ cpc' = "evict"
            /\ UNCHANGED <<meta, dict, backup, durable, placeholder, queue, succq,
                           workerVars, client, cfile, evbatch, evcur, evsnap,
                           iterq, failVars>>
       ELSE UNCHANGED vars

\* TryMemfdMalloc (or memfdFtruncate of an existing entry), Storage::Save,
\* MetaClient::Save of a PENDING row.  OutOfMemory answers an error.
CreateAlloc ==
  LET f == cfile IN
  /\ cpc = "alloc"
  /\ cpc' = "idle"
  /\ \E rc \in TryMemfdMalloc :
       IF rc = "ok"
         THEN /\ dict' = StorageSave(f)
              /\ meta' = MetaSave(f, "PENDING")
              /\ client' = [client EXCEPT ![f] = "created"]
              /\ UNCHANGED noom
         ELSE /\ noom' = noom + 1
              /\ client' = [client EXCEPT ![f] = "failed"]
              /\ UNCHANGED <<dict, meta>>
  /\ UNCHANGED <<backup, durable, placeholder, queue, succq, workerVars, cfile,
                 evbatch, evleft, evcur, evsnap, iterq, nbfail, npfail>>

\* updateMetadata(CACHED): UpdateState, then AddRateLimited.
ClientUpdate(f) ==
  /\ client[f] = "created"
  /\ meta' = UpdateState(f, "CACHED")
  /\ client' = [client EXCEPT ![f] = "pushing"]
  /\ UNCHANGED <<dict, backup, durable, placeholder, queue, succq, workerVars,
                 creatorVars, iterq, failVars>>

ClientPush(f) ==
  /\ client[f] = "pushing"
  /\ AddRateLimited(f)
  /\ client' = [client EXCEPT ![f] = "updated"]
  /\ UNCHANGED <<meta, dict, backup, durable, placeholder, succq, workerVars,
                 creatorVars, iterq, failVars>>

-----------------------------------------------------------------------------
\* Every file written and every thread back to waiting on an empty queue.
Quiescent ==
  /\ \A f \in Files : client[f] \in {"updated", "failed"}
  /\ cpc = "idle" /\ queue = <<>> /\ succq = {}
  /\ \A w \in Workers : wpc[w] = "idle"

WorkerStep(w) ==
  \/ RecLoad(w) \/ RecCheck(w) \/ RecMarkBroken(w) \/ RecBackup(w)
  \/ RecPersist(w) \/ RecUpdate(w) \/ RecRequeue(w) \/ RecDelete(w)

CreatorStep ==
  EvictNext \/ EvictWait \/ EvictMark \/ EvictPush \/ EvictDrain \/ CreateAlloc

Next ==
  \/ \E w \in Workers : WorkerStep(w)
  \/ \E k \in Files : SuccReconcile(k)
  \/ CreatorStep
  \/ \E f \in Files : CreateBegin(f) \/ ClientUpdate(f) \/ ClientPush(f)
  \/ Quiescent /\ UNCHANGED vars

(***************************************************************************)
(* Worker threads, the successor's reconciler and a createMetadata handler *)
(* that has started all run on dedicated threads: weakly fair.  The        *)
(* training client is not: it may stop issuing requests.                   *)
(***************************************************************************)
Fairness ==
  /\ \A w \in Workers : WF_vars(WorkerStep(w))
  /\ \A k \in Files : WF_vars(SuccReconcile(k))
  /\ WF_vars(CreatorStep)

Spec == Init /\ [][Next]_vars /\ Fairness

-----------------------------------------------------------------------------
(* Properties.                                                             *)

TypeOK ==
  /\ meta \in [Files -> States \cup {NoRow}]
  /\ dict \subseteq Files /\ backup \subseteq Files
  /\ durable \subseteq Files /\ placeholder \subseteq Files
  /\ queue \in Seq(Files) /\ Len(queue) <= QueueCap
  /\ succq \subseteq Files
  /\ wpc \in [Workers -> {"idle", "check", "broken", "backup", "persist",
                          "update", "requeue", "delete"}]
  /\ client \in [Files -> {"new", "created", "pushing", "updated", "failed"}]
  /\ cpc \in {"idle", "evict", "wait", "mark", "push", "drain", "alloc"}
  /\ evbatch \in [Files -> States \cup {NoRow}] /\ evleft \subseteq Files
  /\ iterq \in Seq(Nat) /\ Len(iterq) <= MaxIteration

\* The legal graph of the lifecycle (spec section 3): OBSOLESCENT and
\* BROKEN are sinks, and a record moves forward only.
Live == {"PENDING", "CACHED", "BACKED_UP", "PERSISTENT"}
LegalStep(from, to) ==
  \/ from = NoRow /\ to = "PENDING"
  \/ from = "PENDING" /\ to = "CACHED"
  \/ from = "CACHED" /\ to = IF WorldSize >= 2 THEN "BACKED_UP" ELSE "PERSISTENT"
  \/ from = "BACKED_UP" /\ to = "PERSISTENT"
  \/ from \in Live /\ to \in {"OBSOLESCENT", "BROKEN"}

\* I3: every write of a row, by a reconciler's updateState, by the evictor
\* or by a client, follows the legal graph.  Reconcile writes the target
\* state blindly, after reading the row one or more steps earlier.
LegalTransitions ==
  [][\A f \in Files : meta'[f] # meta[f] => LegalStep(meta[f], meta'[f])]_meta

\* A worker only persists or replicates the region of a file still resident
\* in the owned map: Storage::Delete closes and unmaps the memfd, so a
\* worker holding an address loaded before the delete reads freed memory.
NoReadAfterDelete ==
  \A w \in Workers :
    (wpc[w] = "persist" \/ (wpc[w] = "backup" /\ wsnap[w] = "CACHED"))
      => wkey[w] \in dict

\* With persistence on, no checkpoint the client wrote is lost: while its
\* row is live the data is either still resident or durably written, and
\* once evicted it had been written to disk (createMetadata only evicts
\* after CACHED and BACKED_UP have settled).
NoDataLoss ==
  Persistent =>
    \A f \in Files :
      /\ meta[f] \in Live \ {"PENDING"} => f \in dict \cup durable
      /\ meta[f] = "OBSOLESCENT" => f \in durable

\* A record reported BACKED_UP has a replica in the successor's backup map.
ReplicatedWhenBackedUp ==
  \A f \in Files : meta[f] = "BACKED_UP" => f \in backup

\* Every iteration in the IterationManager's queue has a metadata row of this
\* node, except the one whose create is allocating: deleteOldestIteration
\* finds the files of the oldest iteration with BatchLoad and fails the
\* create when there are none.
IterationsBacked ==
  \A i \in ToSet(iterq) :
    \/ cpc = "alloc" /\ Iteration[cfile] = i
    \/ \E f \in Files : Iteration[f] = i /\ meta[f] # NoRow

\* The eviction of the oldest iteration started by createMetadata always
\* finishes: its wait loop and its drain loop both end (they hold rw_mutex_,
\* so every later createMetadata waits on them).
EvictionTerminates == cpc = "evict" ~> cpc \in {"alloc", "idle"}

\* With persistence on and no failed write to disk, every checkpoint the
\* client updated to CACHED is eventually PERSISTENT (or evicted or found
\* broken): the re-enqueues of Reconcile carry it from CACHED through
\* BACKED_UP to PERSISTENT, however its workers interleave with the evictor
\* and the other worker.  A failed write is not retried: Reconcile sets
\* do_not_requeue (coordinator.cpp:301), where spec 4.1 has every I/O error
\* re-enqueue, and with one such failure this property is violated.
EventuallyDurable ==
  Persistent =>
    \A f \in Files :
      client[f] = "updated" ~> meta[f] \in {"PERSISTENT", "OBSOLESCENT", "BROKEN"}

=============================================================================
