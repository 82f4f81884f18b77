-------------------------- MODULE RemoteFileLoader --------------------------
(***************************************************************************)
(* The remote path of getMetadata (http_service_impl.h) and the            *)
(* remoteFileLoader singleton (remote_file_loader.h) on one node.          *)
(*                                                                         *)
(* HTTP threads (Clients) ask for a checkpoint owned by another node: each *)
(* writes its file name into req_ch_ (a util::channel of capacity 4) with  *)
(* AddKey, then polls ongoing_files_ every 250 ms until the entry is true  *)
(* (WaitUntilFileReady, no timeout), then looks the file up in the local   *)
(* storage registry.  One reconcile thread (Loader) reads req_ch_ with a   *)
(* range-for, skips names already in ongoing_files_, inserts false, runs   *)
(* ClientUtil::LoadRemote and sets the entry true, or erases it when the   *)
(* load failed.  LoadRemote registers the region in the backup map         *)
(* (Storage::Save) before the RDMA read, so a failure after that point     *)
(* leaves a region whose content was never transferred.                    *)
(*                                                                         *)
(* The earlier checks of getMetadata (wait_ready, the metadata row, its    *)
(* state, the row being a replica held here) are taken as passed: the      *)
(* clients are exactly the calls that reach AddKey.                        *)
(***************************************************************************)
EXTENDS Channel, FiniteSets

CONSTANTS
  Clients,      \* HTTP threads inside getMetadata
  Loader,       \* the reconcile thread of remoteFileLoader
  Files,        \* file names requested (model values)
  Want,         \* [Clients -> Files]: the file each client asks for
  Req,          \* the channel req_ch_
  MaxLoadFail   \* bound on LoadRemote calls that fail

ASSUME Threads = Clients \cup {Loader} /\ Chans = {Req} /\ Values = Files

\* ongoing_files_: no entry, or the bool stored for the name.
NoEntry == "none"
Entry(b) == IF b THEN "true" ELSE "false"

VARIABLES
  ongoing,  \* [Files -> {NoEntry, Entry(FALSE), Entry(TRUE)}]
  stored,   \* [Files -> {"none", "partial", "full"}]: the backup map entry
  gpc,      \* per client: step of getMetadata
  lpc,      \* step of the reconcile thread
  lkey,     \* the name the reconcile thread works on
  nloads,   \* per file: LoadRemote calls that transferred it in full
  nfail     \* failed LoadRemote calls so far

loaderVars == <<ongoing, stored, gpc, lpc, lkey, nloads, nfail>>
vars == <<chanVars, loaderVars>>

Init ==
  /\ ChanInit
  /\ ongoing = [f \in Files |-> NoEntry]
  /\ stored = [f \in Files |-> "none"]
  /\ gpc = [c \in Clients |-> "add"]
  /\ lpc = "test" /\ lkey = Default
  /\ nloads = [f \in Files |-> 0]
  /\ nfail = 0

-----------------------------------------------------------------------------
(* getMetadata, remote branch.                                             *)
\* AddKey: `val >> req_ch_`.
AddKey(c) ==
  /\ gpc[c] = "add"
  /\ CallSend(c, Req, Want[c])
  /\ gpc' = [gpc EXCEPT ![c] = "poll"]
  /\ UNCHANGED <<ongoing, stored, lpc, lkey, nloads, nfail>>

\* Mutant: the poll returns as soon as the entry exists, ready or not.
WaitUntilFileReadyExists(c) ==
  /\ gpc[c] = "poll" /\ chpc[c] = "idle"
  /\ ongoing[Want[c]] # NoEntry
  /\ gpc' = [gpc EXCEPT ![c] = IF stored[Want[c]] = "none" THEN "error" ELSE "ok"]
  /\ UNCHANGED <<chanVars, ongoing, stored, lpc, lkey, nloads, nfail>>

\* WaitUntilFileReady returns once safeRead sees the entry true (a poll that
\* sees anything else only sleeps); then Storage::Load of the replica.
WaitUntilFileReady(c) ==
  /\ gpc[c] = "poll" /\ chpc[c] = "idle"
  /\ ongoing[Want[c]] = Entry(TRUE)
  /\ gpc' = [gpc EXCEPT ![c] = IF stored[Want[c]] = "none" THEN "error" ELSE "ok"]
  /\ UNCHANGED <<chanVars, ongoing, stored, lpc, lkey, nloads, nfail>>

-----------------------------------------------------------------------------
(* The reconcile thread: `for (auto item : req_ch_)`.                      *)
\* operator!= of the range-for.
LoaderNext ==
  /\ lpc = "test"
  /\ CallTest(Loader, Req)
  /\ lpc' = "deref"
  /\ UNCHANGED <<ongoing, stored, gpc, lkey, nloads, nfail>>

\* operator* once operator!= answered true; the loop ends on false.
LoaderDeref ==
  /\ lpc = "deref" /\ chpc[Loader] = "idle"
  /\ IF res[Loader]
       THEN CallRecv(Loader, Req) /\ lpc' = "find"
       ELSE lpc' = "exit" /\ UNCHANGED chanVars
  /\ UNCHANGED <<ongoing, stored, gpc, lkey, nloads, nfail>>

\* Mutant: no de-duplication, every name read is loaded.
LoaderFindNoSkip ==
  LET f == out[Loader] IN
  /\ lpc = "find" /\ chpc[Loader] = "idle"
  /\ lpc' = "load" /\ ongoing' = [ongoing EXCEPT ![f] = Entry(FALSE)]
  /\ lkey' = f
  /\ UNCHANGED <<chanVars, stored, gpc, nloads, nfail>>

\* The unlocked find: a name already present is skipped; otherwise
\* safeInsert(name, false).
LoaderFind ==
  LET f == out[Loader] IN
  /\ lpc = "find" /\ chpc[Loader] = "idle"
  /\ IF ongoing[f] # NoEntry
       THEN lpc' = "test" /\ UNCHANGED ongoing
       ELSE lpc' = "load" /\ ongoing' = [ongoing EXCEPT ![f] = Entry(FALSE)]
  /\ lkey' = f
  /\ UNCHANGED <<chanVars, stored, gpc, nloads, nfail>>

\* LoadRemote, then safeUpdate(name, true) or, on failure, safeErase(name).
\* A failure before the memfd allocation leaves the backup map alone; one
\* after Storage::Save (handshake or RDMA read) leaves the region in it.
LoaderLoad ==
  LET f == lkey IN
  /\ lpc = "load"
  /\ lpc' = "test"
  /\ \/ /\ stored' = [stored EXCEPT ![f] = "full"]
        /\ ongoing' = [ongoing EXCEPT ![f] = Entry(TRUE)]
        /\ nloads' = [nloads EXCEPT ![f] = @ + 1]
        /\ UNCHANGED nfail
     \/ /\ nfail < MaxLoadFail
        /\ nfail' = nfail + 1
        /\ ongoing' = [ongoing EXCEPT ![f] = NoEntry]
        /\ \/ UNCHANGED stored
           \/ stored' = [stored EXCEPT ![f] = IF @ = "full" THEN @ ELSE "partial"]
        /\ UNCHANGED nloads
  /\ UNCHANGED <<chanVars, gpc, lkey>>

-----------------------------------------------------------------------------
\* Nothing left to do: the reconcile thread blocks in operator!= on an empty
\* channel and every client has returned or polls an entry that is not true.
Idle ==
  /\ lpc = "deref" /\ chpc[Loader] = "test_wait"
  /\ \A c \in Clients :
       \/ gpc[c] \in {"ok", "error"}
       \/ gpc[c] = "poll" /\ chpc[c] = "idle" /\ ongoing[Want[c]] # Entry(TRUE)

Next ==
  \/ \E c \in Clients : AddKey(c) \/ WaitUntilFileReady(c)
  \/ LoaderNext \/ LoaderDeref \/ LoaderFind \/ LoaderLoad
  \/ \E t \in Threads : ChanStep(t) /\ UNCHANGED loaderVars
  \/ Idle /\ UNCHANGED vars

\* Every thread that can run gets to run: the threads are OS threads.
Fairness ==
  /\ \A c \in Clients : WF_vars(AddKey(c)) /\ WF_vars(WaitUntilFileReady(c))
  /\ WF_vars(LoaderNext \/ LoaderDeref \/ LoaderFind \/ LoaderLoad)
  /\ \A t \in Threads : WF_vars(ChanStep(t) /\ UNCHANGED loaderVars)

Spec == Init /\ [][Next]_vars /\ Fairness

-----------------------------------------------------------------------------
TypeOK ==
  /\ ChanTypeOK
  /\ ongoing \in [Files -> {NoEntry, Entry(FALSE), Entry(TRUE)}]
  /\ stored \in [Files -> {"none", "partial", "full"}]
  /\ gpc \in [Clients -> {"add", "poll", "ok", "error"}]
  /\ lpc \in {"test", "deref", "find", "load", "exit"}
  /\ nloads \in [Files -> Nat] /\ nfail \in 0..MaxLoadFail

(* The de-duplication the loader exists for ("load remotely once is       *)
(* enough"): however many ranks ask for a file at once, and whatever loads *)
(* failed before, the file is transferred in full at most once.            *)
LoadedOnce == \A f \in Files : nloads[f] <= 1

(* A getMetadata call that returns OK hands out a region whose content was *)
(* transferred in full, never the region left by a failed RDMA read.       *)
ServedComplete == \A c \in Clients : gpc[c] = "ok" => stored[Want[c]] = "full"

\* The loader as the ranks see it: an ongoing_files_ entry false is a fetch
\* under way, true a completed one; a rank has asked once its AddKey began
\* and is served once getMetadata returns the replica.  The channel, the
\* loader's position and the regions left by failed reads are hidden.
AbsCache == [f \in Files |-> CASE ongoing[f] = Entry(TRUE) -> "ready"
                               [] ongoing[f] = Entry(FALSE) -> "loading"
                               [] OTHER -> "absent"]

AbsL == INSTANCE AbsLoader WITH
          cache <- AbsCache,
          asked <- {c \in Clients : gpc[c] # "add"},
          served <- {c \in Clients : gpc[c] = "ok"}

(* Refinement: every behaviour of getMetadata's remote path and the        *)
(* reconcile thread is one of the abstract cache's.  A name is inserted    *)
(* only after a rank wrote it into req_ch_, never while a load of it is    *)
(* running or after one completed, safeErase puts the name back as never   *)
(* asked for, and WaitUntilFileReady returns only on a completed load (an  *)
(* "error" return of a rank is no behaviour of the abstract cache).        *)
LoaderRefines == AbsL!Spec

(* Every getMetadata call whose AddKey went through eventually returns, as *)
(* long as the loads succeed.                                              *)
ClientsServed == \A c \in Clients : <>(gpc[c] \in {"ok", "error"})
=============================================================================
