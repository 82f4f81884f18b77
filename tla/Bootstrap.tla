------------------------------ MODULE Bootstrap ------------------------------
(***************************************************************************)
(* Coordinator::bootstrap of a restarted node (Self) on a ring of three:   *)
(* Pred -> Self -> Succ -> Pred, each node backing up to the next.         *)
(*                                                                         *)
(*  - the pull task (t1): BatchLoadRemote to the next node, then one LOAD  *)
(*    per returned record, retried with doubling back-off while the wait   *)
(*    is at most BOOTSTRAP_MAX_RETRY_INTERVAL_SECONDS, then the fallback   *)
(*    BatchLoadFromFileSystem;                                             *)
(*  - the push task (t2): NotifyBackup to the previous node, retried       *)
(*    forever, and Server::handleNotifyBackup on that node;               *)
(*  - MarkReady once both tasks are joined (main.cpp).                     *)
(*                                                                         *)
(* The predecessor keeps serving its own training client and reconciler   *)
(* while Self bootstraps.  Self has lost its owned and backup maps and its *)
(* IterationManager; the metadata table and the disk are intact.          *)
(***************************************************************************)
EXTENDS Integers, FiniteSets

CONSTANTS
  Pred, Self, Succ, \* the three ranks (model values)
  Files,            \* checkpoint files
  Owner,            \* [Files -> {Pred, Self, Succ}]: node_rank of each row
  Iteration,        \* [Files -> Nat]
  InitSelf,         \* states the rows of Self may be in at the restart
  InitPred,         \* states the rows of Pred may be in at the restart
  PredEvicts,       \* whether Pred's createMetadata may evict meanwhile
  MinRetry,         \* BOOTSTRAP_MIN_RETRY_INTERVAL_SECONDS
  MaxRetry,         \* BOOTSTRAP_MAX_RETRY_INTERVAL_SECONDS
  NoRow             \* the state of a file that has no row in the table

Nodes == {Pred, Self, Succ}

States == {"PENDING", "CACHED", "BACKED_UP", "PERSISTENT", "BROKEN", "OBSOLESCENT"}
Live == {"PENDING", "CACHED", "BACKED_UP", "PERSISTENT"}
Replicated == {"BACKED_UP", "PERSISTENT"}

\* ClientUtil::getNextNode: (rank + 1) % world_size
NextOf(n) == CASE n = Pred -> Self [] n = Self -> Succ [] n = Succ -> Pred

\* Number of BatchLoadRemote attempts of the pull task: one per value of
\* wait_time = MinRetry, 2*MinRetry, ... not above MaxRetry.
RECURSIVE Rounds(_)
Rounds(w) == IF w > MaxRetry THEN 0 ELSE 1 + Rounds(2 * w)
PullAttempts == Rounds(MinRetry)

VARIABLES
  st,       \* metadata table: state of each row
  dict,     \* owned map of each node
  backup,   \* backup map of each node
  disk,     \* files whose durable copy exists
  iters,    \* Self's IterationManager
  ppc, tries, ptodo, pok,   \* pull task: step, failed attempts, records left, result
  spc,      \* push task: "connect", "wait" (for the response), "done"
  hpc, hsnap, htodo, hok,   \* Pred's handleNotifyBackup: step, rows read, rows left, result
  ready,    \* the HTTP service's ready flag
  gpc, gw, gfile, grow      \* a getMetadata on Self: step, wait_time, file, row state

getVars == <<gpc, gw, gfile, grow>>
vars == <<st, dict, backup, disk, iters, ppc, tries, ptodo, pok, spc, hpc,
          hsnap, htodo, hok, ready, getVars>>
pullVars == <<ppc, tries, ptodo, pok>>
handlerVars == <<hpc, hsnap, htodo, hok>>

\* MetadataClient::BatchLoad with a rank filter.
RowsOf(rank) == {f \in Files : Owner[f] = rank /\ st[f] # NoRow}

\* A restart of Self: its maps are empty; every other node holds its own
\* live records and the replicas of its predecessor's replicated records;
\* PERSISTENT records are on disk, evicted or broken ones may be.
Init ==
  /\ st \in {s \in [Files -> States \cup {NoRow}] :
               \A f \in Files : /\ Owner[f] = Self => s[f] \in InitSelf
                                /\ Owner[f] = Pred => s[f] \in InitPred}
  /\ dict = [n \in Nodes |-> IF n = Self THEN {}
                             ELSE {f \in Files : Owner[f] = n /\ st[f] \in Live}]
  /\ backup = [n \in Nodes |-> IF n = Self THEN {}
                               ELSE {f \in Files : NextOf(Owner[f]) = n /\ st[f] \in Replicated}]
  /\ disk \in {D \in SUBSET Files :
                 \A f \in Files : /\ st[f] = "PERSISTENT" => f \in D
                                  /\ f \in D => st[f] \in {"PERSISTENT", "OBSOLESCENT", "BROKEN"}}
  /\ iters = {}
  /\ ppc = "batch" /\ tries = 0 /\ ptodo = {} /\ pok = TRUE
  /\ spc = "connect"
  /\ hpc = "idle" /\ hsnap = [f \in Files |-> "PENDING"] /\ htodo = {} /\ hok = TRUE
  /\ ready = FALSE
  /\ gpc = "idle" /\ gw = MinRetry /\ gfile = (CHOOSE f \in Files : TRUE) /\ grow = NoRow

-----------------------------------------------------------------------------
(* The pull task.                                                          *)

\* Coordinator::retriveCheckpointFromFileSystem: BatchLoadFromFileSystem,
\* whose BatchLoad(rank = self) fixes the rows it will walk through; its
\* result is ignored and t1 ends with it.
retriveCheckpointFromFileSystem == ppc' = "fs" /\ ptodo' = RowsOf(Self)

\* Mutant: the pull task retries forever, as the push task does.
PullFailedNoFallback ==
  ppc' = "batch" /\ UNCHANGED <<tries, ptodo>>

\* Mutant: one attempt too many before the fallback.
PullFailedOffByOne ==
  IF tries + 1 <= PullAttempts
    THEN ppc' = "batch" /\ tries' = tries + 1 /\ UNCHANGED ptodo
    ELSE tries' = tries + 1 /\ retriveCheckpointFromFileSystem

\* A failed attempt: sleep and retry, or fall back to the file system.
PullFailed ==
  IF tries + 1 < PullAttempts
    THEN ppc' = "batch" /\ tries' = tries + 1 /\ UNCHANGED ptodo
    ELSE tries' = tries + 1 /\ retriveCheckpointFromFileSystem

\* Storage::Load on node n: the owned map for a record of rank n, the backup
\* map for any other.
StorageLoad(n, f) == IF Owner[f] = n THEN f \in dict[n] ELSE f \in backup[n]

\* Server::handleBatchLoad on node n for the rows of a rank: NOT_FOUND when
\* there is none; OBSOLESCENT rows are skipped; the first row whose entry
\* is missing turns the answer into UNKNOWN_ERROR.
BatchLoadAnswer(n, rank) ==
  LET rows == RowsOf(rank)
      live == {f \in rows : st[f] # "OBSOLESCENT"}
  IN  CASE rows = {} -> [code |-> "NOT_FOUND", recs |-> {}]
        [] \A f \in live : StorageLoad(n, f) -> [code |-> "SUCCESS", recs |-> live]
        [] OTHER -> [code |-> "UNKNOWN", recs |-> {}]

\* Coordinator::retriveCheckpoint: BatchLoadRemote of the rows of rank self
\* in any state; only an UNKNOWN_ERROR answer fails the attempt.
retriveCheckpoint(rsp) == rsp.code # "UNKNOWN"

\* BatchLoadRemote to the next node; the returned records go to the loader
\* threads.
PullBatch ==
  LET rsp == BatchLoadAnswer(NextOf(Self), Self)
  IN
  /\ ppc = "batch"
  /\ \/ retriveCheckpoint(rsp)
        /\ ppc' = "load" /\ ptodo' = rsp.recs /\ pok' = TRUE /\ UNCHANGED tries
     \/ ~retriveCheckpoint(rsp) /\ PullFailed /\ UNCHANGED pok
  /\ UNCHANGED <<st, dict, backup, disk, iters, spc, handlerVars, ready>>

\* One loader thread: LoadRemote connects to the node of rank
\* metadata.node_rank, whose handleLoad looks the file up in its owned map;
\* on success the region is allocated and saved in Self's owned map.
PullLoad(f) ==
  LET target == Owner[f]
      found == StorageLoad(target, f)
  IN
  /\ ppc = "load" /\ f \in ptodo
  /\ ptodo' = ptodo \ {f}
  /\ pok' = (pok /\ found)
  /\ dict' = IF found THEN [dict EXCEPT ![Self] = @ \cup {f}] ELSE dict
  /\ UNCHANGED <<st, backup, disk, iters, ppc, tries, spc, handlerVars, ready>>

\* All loader results collected.
PullCollect ==
  /\ ppc = "load" /\ ptodo = {}
  /\ IF pok THEN ppc' = "done" /\ UNCHANGED <<tries, ptodo>> ELSE PullFailed
  /\ UNCHANGED <<st, dict, backup, disk, iters, pok, spc, handlerVars, ready>>

\* Mutant: the fallback does not skip OBSOLESCENT rows.
PullFsEachNoSkip(f) ==
  /\ ppc = "fs" /\ f \in ptodo
  /\ iters' = iters \cup {Iteration[f]}
  /\ IF f \in disk
       THEN /\ dict' = [dict EXCEPT ![Self] = @ \cup {f}]
            /\ ptodo' = ptodo \ {f} /\ UNCHANGED ppc
       ELSE ppc' = "done" /\ UNCHANGED <<dict, ptodo>>
  /\ UNCHANGED <<st, backup, disk, tries, pok, spc, handlerVars, ready>>

\* BatchLoadFromFileSystem, one row at a time in the order MySQL returns
\* them: skip OBSOLESCENT, register the iteration, TryLoadFromFile; the
\* first file that cannot be read ends the fallback.
PullFsEach(f) ==
  /\ ppc = "fs" /\ f \in ptodo
  /\ IF st[f] = "OBSOLESCENT"
       THEN ptodo' = ptodo \ {f} /\ UNCHANGED <<iters, dict, ppc>>
       ELSE /\ iters' = iters \cup {Iteration[f]}
            /\ IF f \in disk
                 THEN /\ dict' = [dict EXCEPT ![Self] = @ \cup {f}]
                      /\ ptodo' = ptodo \ {f} /\ UNCHANGED ppc
                 ELSE ppc' = "done" /\ UNCHANGED <<dict, ptodo>>
  /\ UNCHANGED <<st, backup, disk, tries, pok, spc, handlerVars, ready>>

PullFsDone ==
  /\ ppc = "fs" /\ ptodo = {}
  /\ ppc' = "done"
  /\ UNCHANGED <<st, dict, backup, disk, iters, tries, ptodo, pok, spc,
                 handlerVars, ready>>

-----------------------------------------------------------------------------
(* The push task and the previous node's handleNotifyBackup.              *)

PushSend ==
  /\ spc = "connect" /\ hpc = "idle"
  /\ spc' = "wait" /\ hpc' = "check"
  /\ UNCHANGED <<st, dict, backup, disk, iters, pullVars, hsnap, htodo, hok, ready>>

\* Mutant: the rows to re-replicate are loaded with a BACKED_UP filter
\* instead of STATE_ANY.
HandlerCheckBackedUpOnly ==
  LET vec == RowsOf(Pred)
      need == Cardinality({f \in vec : st[f] \in Replicated})
  IN
  /\ hpc = "check"
  /\ IF dict[Pred] = {} \/ need # Cardinality(dict[Pred])
       THEN hpc' = "silent" /\ UNCHANGED <<hsnap, htodo, hok>>
       ELSE /\ hpc' = "fanout" /\ hok' = TRUE /\ hsnap' = st
            /\ htodo' = {f \in vec : st[f] = "BACKED_UP"}
  /\ UNCHANGED <<st, dict, backup, disk, iters, pullVars, spc, ready>>

\* BatchLoad(rank = self) and the precondition: as many BACKED_UP or
\* PERSISTENT rows as entries in the owned map, and the map not empty.
\* When it fails the handler returns without writing a response and its
\* connection thread goes back to reading the next request.
HandlerCheck ==
  LET vec == RowsOf(Pred)
      need == Cardinality({f \in vec : st[f] \in Replicated})
  IN
  /\ hpc = "check"
  /\ IF dict[Pred] = {} \/ need # Cardinality(dict[Pred])
       THEN hpc' = "silent" /\ UNCHANGED <<hsnap, htodo, hok>>
       ELSE /\ hpc' = "fanout" /\ htodo' = vec /\ hok' = TRUE
            /\ hsnap' = st
  /\ UNCHANGED <<st, dict, backup, disk, iters, pullVars, spc, ready>>

\* backupEach on one of the eight threads: Storage::Load first, then skip
\* OBSOLESCENT (as read by the BatchLoad), else Backup to the next node,
\* Self, whose handleBackup saves the replica in its backup map.
HandlerBackup(f) ==
  /\ hpc = "fanout" /\ f \in htodo
  /\ htodo' = htodo \ {f}
  /\ IF ~StorageLoad(Pred, f)
       THEN hok' = FALSE /\ UNCHANGED backup
       ELSE /\ backup' = IF hsnap[f] = "OBSOLESCENT" THEN backup
                         ELSE [backup EXCEPT ![NextOf(Pred)] = @ \cup {f}]
            /\ UNCHANGED hok
  /\ UNCHANGED <<st, dict, disk, iters, pullVars, spc, hpc, hsnap, ready>>

\* The t2 loop of Coordinator::bootstrap: triggerCheckpoint (NotifyBackup)
\* succeeded and the loop breaks, or the task sleeps and calls it again.
PushRetry(ok) == IF ok THEN "done" ELSE "connect"

\* The aggregate response, which ends the push task's call.
HandlerReply ==
  /\ hpc = "fanout" /\ htodo = {} /\ spc = "wait"
  /\ hpc' = "idle"
  /\ spc' = PushRetry(hok)
  /\ UNCHANGED <<st, dict, backup, disk, iters, pullVars, hsnap, htodo, hok, ready>>

\* Coordinator::bootstrap returns once t1.join() and t2.join() return.
Joined == ppc = "done" /\ spc = "done"

\* main: Coordinator::Run (bootstrap), then MarkReady.
MarkReady ==
  /\ Joined /\ ~ready
  /\ ready' = TRUE
  /\ UNCHANGED <<st, dict, backup, disk, iters, pullVars, spc, handlerVars>>

-----------------------------------------------------------------------------
(* The predecessor's own activity, as the Reconciler module details it.    *)

\* updateMetadata(CACHED) from Pred's training client.
PredWrite(f) ==
  /\ Owner[f] = Pred /\ st[f] = "PENDING"
  /\ st' = [st EXCEPT ![f] = "CACHED"]
  /\ UNCHANGED <<dict, backup, disk, iters, pullVars, spc, handlerVars, ready>>

\* Reconcile of a CACHED record: Backup to the next node (Self), BACKED_UP.
PredReplicate(f) ==
  /\ Owner[f] = Pred /\ st[f] = "CACHED" /\ f \in dict[Pred]
  /\ backup' = [backup EXCEPT ![NextOf(Pred)] = @ \cup {f}]
  /\ st' = [st EXCEPT ![f] = "BACKED_UP"]
  /\ UNCHANGED <<dict, disk, iters, pullVars, spc, handlerVars, ready>>

\* Reconcile of a BACKED_UP record: WriteToDisk, PERSISTENT.
PredPersist(f) ==
  /\ Owner[f] = Pred /\ st[f] = "BACKED_UP" /\ f \in dict[Pred]
  /\ disk' = disk \cup {f}
  /\ st' = [st EXCEPT ![f] = "PERSISTENT"]
  /\ UNCHANGED <<dict, backup, iters, pullVars, spc, handlerVars, ready>>

\* deleteOldestIteration on Pred followed by the reconciler's delete.
PredEvict(f) ==
  /\ PredEvicts /\ Owner[f] = Pred /\ st[f] = "PERSISTENT"
  /\ st' = [st EXCEPT ![f] = "OBSOLESCENT"]
  /\ dict' = [dict EXCEPT ![Pred] = @ \ {f}]
  /\ UNCHANGED <<backup, disk, iters, pullVars, spc, handlerVars, ready>>

-----------------------------------------------------------------------------
(* HttpServiceImpl::getMetadata on Self, called by a rank that reloads its *)
(* checkpoint after the restart (the HTTP service is up before bootstrap). *)
bootVars == <<st, dict, backup, disk, iters, pullVars, spc, handlerVars, ready>>

\* CHECK_BOOTSTRAP_RETRY_INTERVAL_SECONDS = BOOTSTRAP_MAX_RETRY_INTERVAL_SECONDS * 5
CheckRetry == MaxRetry * 5

\* A request arrives; wait_ready starts with wait_time = MIN.
GetBegin ==
  /\ gpc = "idle"
  /\ gpc' = "test" /\ gw' = MinRetry
  /\ UNCHANGED <<gfile, grow, bootVars>>

wait_ready ==
  /\ gpc = "test"
  /\ CASE ready -> gpc' = "row" /\ UNCHANGED gw
        [] gw < CheckRetry -> gw' = 2 * gw /\ UNCHANGED gpc
        [] OTHER -> gpc' = "timed_out" /\ UNCHANGED gw
  /\ UNCHANGED <<gfile, grow, bootVars>>

\* meta_client->Load of the row: an error without one, an error for a
\* BROKEN, OBSOLESCENT or PENDING row; a replica of Pred's is backed up
\* here (found_metadata), a row of Succ goes to the remote file loader
\* (the RemoteFileLoader module), a row of Self is looked up here.
GetRow ==
  /\ gpc = "row"
  /\ \E f \in Files :
       CASE st[f] = NoRow -> gpc' = "no_row" /\ UNCHANGED <<gfile, grow>>
         [] st[f] \in {"BROKEN", "OBSOLESCENT", "PENDING"} ->
              gpc' = "bad_state" /\ UNCHANGED <<gfile, grow>>
         [] Owner[f] = Succ -> gpc' = "remote" /\ UNCHANGED <<gfile, grow>>
         [] OTHER -> gpc' = "found" /\ gfile' = f /\ grow' = st[f]
  /\ UNCHANGED <<gw, bootVars>>

\* found_metadata: Storage::Load on Self; OK with the region, or "in-memory
\* checkpoint does not exist in local or backup".
GetFound ==
  /\ gpc = "found"
  /\ gpc' = IF StorageLoad(Self, gfile) THEN "ok" ELSE "missing"
  /\ UNCHANGED <<gw, gfile, grow, bootVars>>

-----------------------------------------------------------------------------
PullStep ==
  PullBatch \/ PullCollect \/ PullFsDone \/ \E f \in Files : PullLoad(f) \/ PullFsEach(f)
HandlerStep == HandlerCheck \/ HandlerReply \/ \E f \in Files : HandlerBackup(f)

BootNext ==
  \/ PullStep \/ PushSend \/ HandlerStep \/ MarkReady
  \/ \E f \in Files : PredWrite(f) \/ PredReplicate(f) \/ PredPersist(f) \/ PredEvict(f)

GetStep == wait_ready \/ GetRow \/ GetFound \/ GetBegin

\* Nothing left to do: the node is ready, or waits for an answer that the
\* previous node will never send.
Stuck == ppc = "done" /\ (ready \/ (spc = "wait" /\ hpc = "silent"))

Next ==
  \/ BootNext /\ UNCHANGED getVars
  \/ GetStep
  \/ Stuck /\ UNCHANGED vars

\* The bootstrap threads, the peer's connection thread and the peer's
\* reconciler run on dedicated threads; the peer's training client and its
\* evictions are not obliged to happen, nor is the rank's request.
Fairness ==
  /\ WF_vars(PullStep /\ UNCHANGED getVars) /\ WF_vars(PushSend /\ UNCHANGED getVars)
  /\ WF_vars(HandlerStep /\ UNCHANGED getVars) /\ WF_vars(MarkReady /\ UNCHANGED getVars)
  /\ \A f \in Files : /\ WF_vars(PredReplicate(f) /\ UNCHANGED getVars)
                      /\ WF_vars(PredPersist(f) /\ UNCHANGED getVars)

Spec == Init /\ [][Next]_vars /\ Fairness


-----------------------------------------------------------------------------
(* Properties.                                                             *)

TypeOK ==
  /\ st \in [Files -> States \cup {NoRow}]
  /\ dict \in [Nodes -> SUBSET Files] /\ backup \in [Nodes -> SUBSET Files]
  /\ disk \subseteq Files /\ iters \subseteq {Iteration[f] : f \in Files}
  /\ ppc \in {"batch", "load", "fs", "done"} /\ tries \in 0..PullAttempts
  /\ ptodo \subseteq Files /\ pok \in BOOLEAN
  /\ spc \in {"connect", "wait", "done"}
  /\ hpc \in {"idle", "check", "silent", "fanout"}
  /\ hsnap \in [Files -> States \cup {NoRow}] /\ htodo \subseteq Files /\ hok \in BOOLEAN
  /\ ready \in BOOLEAN
  /\ gpc \in {"idle", "test", "timed_out", "row", "no_row", "bad_state",
             "remote", "found", "ok", "missing"}
  /\ gw \in {MinRetry * 2^k : k \in 0..7} /\ gfile \in Files /\ grow \in States \cup {NoRow}

\* R3: once the restarted node reports ready (MarkReady after both
\* bootstrap tasks), every record of its own that had been replicated or
\* persisted is resident in its owned map again.  The code meets it only
\* for records that are PERSISTENT on disk: a BACKED_UP record is asked of
\* the node itself (client.cpp:120) and a BROKEN row before it stops the
\* file-system fallback (client.cpp:351), so boot_busy_peer starts Self with
\* PERSISTENT, OBSOLESCENT or no rows, and boot_load_self with the others.
Restored ==
  ready => \A f \in Files :
             Owner[f] = Self /\ st[f] \in Replicated => f \in dict[Self]

\* Once the restarted node is ready, the previous node has re-sent it the
\* replica of every record that is BACKED_UP or PERSISTENT (NOTIFY_BACKUP
\* and handleNotifyBackup), so a second failure loses nothing.
BackupRestored ==
  ready => \A f \in Files :
             Owner[f] = Pred /\ st[f] \in Replicated => f \in backup[Self]

PullTerminates == <>(ppc = "done")

\* The restarted node eventually becomes ready (main.cpp: MarkReady after
\* t1.join() and t2.join()).
BootstrapCompletes == <>ready

=============================================================================
