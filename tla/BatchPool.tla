------------------------------ MODULE BatchPool ------------------------------
(***************************************************************************)
(* The fan-out of Server::handleNotifyBackup (server.cpp), and its twin in *)
(* ClientUtil::BatchLoadRemote (client.cpp): BOOTSTRAP_CONCURRENT_THREADS  *)
(* detached workers range over a default (unbounded) channel `ch`; a      *)
(* feeder thread writes every task and closes `ch`; each worker writes the *)
(* result of its task into `res_ch`; the handler thread reads as many      *)
(* results as there were tasks, then closes res_ch and returns.           *)
(*                                                                         *)
(* A worker's task: backupEach(metadata), whose first call is              *)
(* Storage::Load; a Metadata with an empty file name makes it LOG_FATAL,   *)
(* i.e. exit(1).  Otherwise the task answers true or false.                *)
(***************************************************************************)
EXTENDS Channel, Integers, FiniteSets

CONSTANTS
  Workers,   \* the detached pool threads
  Feeder,    \* the thread writing the tasks
  Handler,   \* the thread running handleNotifyBackup
  Tasks,     \* the metadata records of the owned map (model values)
  TaskSeq,   \* the order the feeder writes them in
  Ch, ResCh  \* the two channels

ASSUME /\ Threads = Workers \cup {Feeder, Handler}
       /\ Chans = {Ch, ResCh} /\ Values = Tasks \cup BOOLEAN
       /\ Len(TaskSeq) = Cardinality(Tasks)

VARIABLES
  wpc,    \* per worker: step of backupFunc
  wres,   \* per worker: the result of its task
  fpc,    \* feeder: index of the next task; Len(TaskSeq) + 2 once closed
  hpc,    \* handler: results still to read; -1 once it returned
  hok     \* handler: AND of the results read so far

poolVars == <<wpc, wres, fpc, hpc, hok>>
vars == <<chanVars, poolVars>>

Init ==
  /\ ChanInit
  /\ wpc = [w \in Workers |-> "test"]
  /\ wres = [w \in Workers |-> TRUE]
  /\ fpc = 1
  /\ hpc = Len(TaskSeq)
  /\ hok = TRUE

-----------------------------------------------------------------------------
(* backupFunc: `for (auto metadata : ch)`.                                 *)
WorkerTest(w) ==
  /\ wpc[w] = "test"
  /\ CallTest(w, Ch)
  /\ wpc' = [wpc EXCEPT ![w] = "deref"]
  /\ UNCHANGED <<wres, fpc, hpc, hok>>

WorkerDeref(w) ==
  /\ wpc[w] = "deref" /\ chpc[w] = "idle"
  /\ IF res[w]
       THEN CallRecv(w, Ch) /\ wpc' = [wpc EXCEPT ![w] = "task"]
       ELSE wpc' = [wpc EXCEPT ![w] = "exit"] /\ UNCHANGED chanVars
  /\ UNCHANGED <<wres, fpc, hpc, hok>>

\* backupEach on the element operator* produced: Storage::Load exits the
\* process on an empty file name; any other task answers true or false.
WorkerTask(w) ==
  /\ wpc[w] = "task" /\ chpc[w] = "idle"
  /\ IF out[w] = Default
       THEN wpc' = [wpc EXCEPT ![w] = "fatal"] /\ UNCHANGED wres
       ELSE \E ok \in BOOLEAN :
              wpc' = [wpc EXCEPT ![w] = "result"] /\ wres' = [wres EXCEPT ![w] = ok]
  /\ UNCHANGED <<chanVars, fpc, hpc, hok>>

\* `ret >> res_ch`, then the next iteration.
WorkerResult(w) ==
  /\ wpc[w] = "result"
  /\ CallSend(w, ResCh, wres[w])
  /\ wpc' = [wpc EXCEPT ![w] = "test"]
  /\ UNCHANGED <<wres, fpc, hpc, hok>>

-----------------------------------------------------------------------------
\* The feeder: `metadata >> ch` for each task, then ch.close().
FeedNext ==
  /\ fpc \in 1..Len(TaskSeq)
  /\ CallSend(Feeder, Ch, TaskSeq[fpc])
  /\ fpc' = fpc + 1
  /\ UNCHANGED <<wpc, wres, hpc, hok>>

FeedClose ==
  /\ fpc = Len(TaskSeq) + 1 /\ chpc[Feeder] = "idle"
  /\ CloseChan(Ch)
  /\ fpc' = fpc + 1
  /\ UNCHANGED <<wpc, wres, hpc, hok>>

\* The handler: `tmp_res << res_ch` as many times as there are tasks, then
\* res_ch.close() and the reply.
HandlerRecv ==
  /\ hpc > 0 /\ chpc[Handler] = "idle"
  /\ hok' = (hok /\ (hpc = Len(TaskSeq) \/ out[Handler] = TRUE))
  /\ CallRecv(Handler, ResCh)
  /\ hpc' = hpc - 1
  /\ UNCHANGED <<wpc, wres, fpc>>

HandlerClose ==
  /\ hpc = 0 /\ chpc[Handler] = "idle"
  /\ hok' = (hok /\ out[Handler] = TRUE)
  /\ CloseChan(ResCh)
  /\ hpc' = -1
  /\ UNCHANGED <<wpc, wres, fpc>>

-----------------------------------------------------------------------------
Next ==
  \/ \E w \in Workers : WorkerTest(w) \/ WorkerDeref(w) \/ WorkerTask(w) \/ WorkerResult(w)
  \/ FeedNext \/ FeedClose \/ HandlerRecv \/ HandlerClose
  \/ \E t \in Threads : ChanStep(t) /\ UNCHANGED poolVars

Spec == Init /\ [][Next]_vars

(* No pool worker ever runs backupEach on an element the feeder did not    *)
(* write: operator* must not hand out a default-constructed Metadata,     *)
(* whose empty file name makes Storage::Load call exit(1).                 *)
NoFatalTask == \A w \in Workers : wpc[w] # "fatal"
=============================================================================
