------------------------------- MODULE Session -------------------------------
(***************************************************************************)
(* One inter-node connection: ClientUtil::Backup or ClientUtil::LoadRemote *)
(* (client.cpp) against the Server::execute thread that accepted it       *)
(* (server.cpp), over RdmaCommunicator (rdma_communicator.cpp).            *)
(*                                                                         *)
(* The TCP stream in each direction is a sequence of segments, in the     *)
(* order written:                                                          *)
(*  - a frame of Write(): the 8-byte size_t length, then the body; Read() *)
(*    reads 8 bytes, Realloc()s the buffer to that length (LOG_FATAL when  *)
(*    realloc fails) and reads the body;                                   *)
(*  - "con": the cm_con_data_t of sock_sync_data in connect_qp, whose      *)
(*    first field is htonll(region address);                              *)
(*  - "q": the single byte "Q" of the second sock_sync_data.               *)
(* A Read() that starts on "con" takes the byte-swapped address for the   *)
(* length: realloc of that many bytes fails and the process exits.  A      *)
(* Read() that starts on "q" has one of its eight bytes and blocks.        *)
(*                                                                         *)
(* ~RdmaCommunicator and Close() call shutdown(SHUT_RDWR) before close(),  *)
(* so the peer always receives a FIN first; a reset the kernel may send    *)
(* after it (unread data at close, a later write) no longer changes what   *)
(* the peer's reads see: once the FIN is in, read() returns 0 (EOF).  Only *)
(* a process exit closes without shutdown: the peer then sees a reset if   *)
(* the exiting side left data unread, and EOF otherwise.  A write to a     *)
(* closed peer is dropped.  sock_send and sock_recv return -1 as a         *)
(* size_t, which the `<= 0` tests of Read/Write take for success: a failed *)
(* write is never reported, so every Write() here succeeds.               *)
(*                                                                         *)
(* The RDMA transfer: the client posts NChunks work requests, the NIC     *)
(* executes them in order (NicLand), and poll_completion waits for each    *)
(* completion; a bad completion or a QP in error ends the transfer.       *)
(* Storage calls, memfd allocation and ibverbs setup are abstracted to     *)
(* their success or failure, at the point of the code where they happen.   *)
(***************************************************************************)
EXTENDS Naturals, Sequences

CONSTANTS
  Ops,         \* routines the client may run: subset of {"BACKUP", "LOAD"}
  NChunks,     \* RDMA work requests of the transfer (chunks of 1 GB)
  FailPoints,  \* calls that may fail in this configuration
  MaxFail      \* bound on failures in one session

Sides == {"client", "server"}
Other(s) == IF s = "client" THEN "server" ELSE "client"
Frames == {"routine", "req", "rsp_ok", "rsp_err", "W", "R"}
Segments == Frames \cup {"con", "q"}

VARIABLES
  op,        \* the routine the client sends
  onlyMeta,  \* req.only_metadata
  pc,        \* per side: where the thread is
  inbox,     \* per side: bytes sent to it and not yet read
  peerEnd,   \* per side: what a read sees once its inbox is empty
  closed,    \* per side: its socket is closed
  posted,    \* RDMA work requests posted by the client
  landed,    \* of those, executed by the NIC
  polled,    \* of those, whose completion the client polled
  nfail,     \* failures so far
  added      \* handleBackup reached controller_->AddRateLimited

vars == <<op, onlyMeta, pc, inbox, peerEnd, closed, posted, landed, polled, nfail, added>>

Init ==
  /\ op \in Ops /\ onlyMeta \in BOOLEAN
  /\ pc = [s \in Sides |-> IF s = "client" THEN "connect" ELSE "none"]
  /\ inbox = [s \in Sides |-> <<>>]
  /\ peerEnd = [s \in Sides |-> "open"]
  /\ closed = [s \in Sides |-> FALSE]
  /\ posted = 0 /\ landed = 0 /\ polled = 0 /\ nfail = 0 /\ added = FALSE

-----------------------------------------------------------------------------
(* Results of calls, the socket and the stream.                           *)
\* The result of a call at failure point p: success, or failure while the
\* failure budget lasts.
Results(p) == IF p \in FailPoints /\ nfail < MaxFail THEN {"ok", "fail"} ELSE {"ok"}
Count(r) == nfail' = IF r = "fail" THEN nfail + 1 ELSE nfail

\* What a blocking read of side s sees first: a segment, nothing yet, or
\* the end of the stream.
Incoming(s) ==
  IF inbox[s] # <<>> THEN Head(inbox[s])
  ELSE IF peerEnd[s] = "open" THEN "wait" ELSE peerEnd[s]

Pop(s) == inbox' = [inbox EXCEPT ![s] = Tail(@)]

\* write()/send() of a segment: queued at the peer, or dropped when the
\* peer has closed its socket (the writer already has the peer's FIN or
\* reset, which the answering reset does not change).
Send(s, seg) ==
  /\ IF closed[Other(s)]
       THEN UNCHANGED inbox
       ELSE inbox' = [inbox EXCEPT ![Other(s)] = Append(@, seg)]
  /\ UNCHANGED peerEnd

\* ~RdmaCommunicator / Close(): shutdown(fd_, SHUT_RDWR), then close(fd_).
Close(s) ==
  /\ closed' = [closed EXCEPT ![s] = TRUE]
  /\ peerEnd' = [peerEnd EXCEPT ![Other(s)] = "fin"]

\* LOG_FATAL ends the process: the kernel closes the socket without a
\* shutdown, with a reset when data sent to it is still unread.
Exit(s) ==
  /\ closed' = [closed EXCEPT ![s] = TRUE]
  /\ peerEnd' = [peerEnd EXCEPT ![Other(s)] = IF inbox[s] # <<>> THEN "rst" ELSE "fin"]

\* Where a failed step leaves the thread: the client function returns
\* false; a server handler returns to the execute loop.
FailTo(s) == IF s = "client" THEN "ret_false" ELSE "routine"

-----------------------------------------------------------------------------
(* rdma_handshake: create_resource, then connect_qp (sock_sync_data of     *)
(* cm_con_data_t, the three QP transitions, sock_sync_data of "Q").       *)
HsCreate(s) ==
  /\ pc[s] = "hs_create"
  /\ \E r \in Results(s \o "_create") :
       /\ pc' = [pc EXCEPT ![s] = IF r = "ok" THEN "hs_con_w" ELSE FailTo(s)]
       /\ Count(r)
  /\ UNCHANGED <<op, onlyMeta, inbox, peerEnd, closed, posted, landed, polled, added>>

\* sock_sync_data, write half; a write error is read as success (rc is an
\* int compared with a size_t).
HsWrite(s) ==
  /\ pc[s] \in {"hs_con_w", "hs_q_w"}
  /\ Send(s, IF pc[s] = "hs_con_w" THEN "con" ELSE "q")
  /\ pc' = [pc EXCEPT ![s] = IF pc[s] = "hs_con_w" THEN "hs_con_r" ELSE "hs_q_r"]
  /\ UNCHANGED <<op, onlyMeta, closed, posted, landed, polled, nfail, added>>

\* sock_sync_data, read loop: a reset ends it with an error; EOF (read
\* returns 0) leaves rc at 0 and the loop reads again forever.
HsRead(s) ==
  LET want == IF pc[s] = "hs_con_r" THEN "con" ELSE "q"
      x == Incoming(s)
  IN
  /\ pc[s] \in {"hs_con_r", "hs_q_r"}
  /\ x # "wait"
  /\ CASE x = want -> Pop(s) /\ pc' = [pc EXCEPT ![s] =
                        IF want = "con" THEN "hs_modify"
                        ELSE IF s = "client" THEN "post" ELSE "sign"]
       [] x = "rst" -> pc' = [pc EXCEPT ![s] = FailTo(s)] /\ UNCHANGED inbox
       [] x = "fin" -> pc' = [pc EXCEPT ![s] = "spin"] /\ UNCHANGED inbox
       [] OTHER     -> pc' = [pc EXCEPT ![s] = "misread"] /\ UNCHANGED inbox
  /\ UNCHANGED <<op, onlyMeta, peerEnd, closed, posted, landed, polled, nfail, added>>

\* The loop of sock_sync_data after EOF: read() returns 0 again, rc stays
\* 0 and total_read_bytes < xfer_size, so the thread reads forever.
HsSpin(s) ==
  /\ pc[s] = "spin"
  /\ UNCHANGED vars

\* modify_qp_to_init, modify_qp_to_rtr, modify_qp_to_rts.
HsModify(s) ==
  /\ pc[s] = "hs_modify"
  /\ \E r \in Results(s \o "_modify") :
       /\ pc' = [pc EXCEPT ![s] = IF r = "ok" THEN "hs_q_w" ELSE FailTo(s)]
       /\ Count(r)
  /\ UNCHANGED <<op, onlyMeta, inbox, peerEnd, closed, posted, landed, polled, added>>

-----------------------------------------------------------------------------
(* The client.                                                             *)
\* Connect(); on success the server's accept loop starts execute().
ClientConnect ==
  /\ pc["client"] = "connect"
  /\ \E r \in Results("connect") :
       /\ pc' = IF r = "ok" THEN [pc EXCEPT !["client"] = "send", !["server"] = "routine"]
                ELSE [pc EXCEPT !["client"] = "ret_false"]
       /\ Count(r)
  /\ UNCHANGED <<op, onlyMeta, inbox, peerEnd, closed, posted, landed, polled, added>>

\* Write(routine), then Write(request).
ClientSend ==
  /\ pc["client"] = "send"
  /\ inbox' = [inbox EXCEPT !["server"] = @ \o <<"routine", "req">>]
  /\ pc' = [pc EXCEPT !["client"] = "rsp"]
  /\ UNCHANGED <<op, onlyMeta, peerEnd, closed, posted, landed, polled, nfail, added>>

\* Mutant: the response code is not checked.
ClientResponseNoCode ==
  LET x == Incoming("client")
      next == IF onlyMeta THEN "ret_true" ELSE IF op = "LOAD" THEN "memfd" ELSE "hs_create"
  IN
  /\ pc["client"] = "rsp" /\ x # "wait"
  /\ CASE x \in {"rsp_ok", "rsp_err"} -> Pop("client") /\ pc' = [pc EXCEPT !["client"] = next]
       [] x \in {"fin", "rst"} -> UNCHANGED inbox /\ pc' = [pc EXCEPT !["client"] = "ret_false"]
       [] OTHER                -> UNCHANGED inbox /\ pc' = [pc EXCEPT !["client"] = "misread"]
  /\ UNCHANGED <<op, onlyMeta, peerEnd, closed, posted, landed, polled, nfail, added>>

\* Read(response); an error code or only_metadata ends the call.
ClientResponse ==
  LET x == Incoming("client")
      next == IF onlyMeta THEN "ret_true" ELSE IF op = "LOAD" THEN "memfd" ELSE "hs_create"
  IN
  /\ pc["client"] = "rsp" /\ x # "wait"
  /\ CASE x = "rsp_ok"         -> Pop("client") /\ pc' = [pc EXCEPT !["client"] = next]
       [] x = "rsp_err"        -> Pop("client") /\ pc' = [pc EXCEPT !["client"] = "ret_false"]
       [] x \in {"fin", "rst"} -> UNCHANGED inbox /\ pc' = [pc EXCEPT !["client"] = "ret_false"]
       [] OTHER                -> UNCHANGED inbox /\ pc' = [pc EXCEPT !["client"] = "misread"]
  /\ UNCHANGED <<op, onlyMeta, peerEnd, closed, posted, landed, polled, nfail, added>>

\* LoadRemote: the idle-memory check and TryMemfdMalloc, then
\* Storage::Save of the region before the handshake.
ClientMemfd ==
  /\ pc["client"] = "memfd"
  /\ \E r \in Results("client_memfd") :
       /\ pc' = [pc EXCEPT !["client"] = IF r = "ok" THEN "hs_create" ELSE "ret_false"]
       /\ Count(r)
  /\ UNCHANGED <<op, onlyMeta, inbox, peerEnd, closed, posted, landed, polled, added>>

\* Mutant: the post loop runs while written <= size.
ClientPostPastEnd ==
  /\ pc["client"] = "post"
  /\ IF posted <= NChunks
       THEN \E r \in Results("post") :
              /\ posted' = IF r = "ok" THEN posted + 1 ELSE posted
              /\ pc' = IF r = "ok" THEN pc ELSE [pc EXCEPT !["client"] = "ret_false"]
              /\ Count(r)
       ELSE pc' = [pc EXCEPT !["client"] = "poll"] /\ UNCHANGED <<posted, nfail>>
  /\ UNCHANGED <<op, onlyMeta, inbox, peerEnd, closed, landed, polled, added>>

\* rdma_write / rdma_read, first loop: post_send of one chunk.
ClientPost ==
  /\ pc["client"] = "post"
  /\ IF posted < NChunks
       THEN \E r \in Results("post") :
              /\ posted' = IF r = "ok" THEN posted + 1 ELSE posted
              /\ pc' = IF r = "ok" THEN pc ELSE [pc EXCEPT !["client"] = "ret_false"]
              /\ Count(r)
       ELSE pc' = [pc EXCEPT !["client"] = "poll"] /\ UNCHANGED <<posted, nfail>>
  /\ UNCHANGED <<op, onlyMeta, inbox, peerEnd, closed, landed, polled, added>>

\* The NIC executes the posted work requests in order, while the server
\* process, which owns the remote QP and region, is alive.
NicLand ==
  /\ landed < posted /\ pc["server"] # "fatal"
  /\ landed' = landed + 1
  /\ UNCHANGED <<op, onlyMeta, pc, inbox, peerEnd, closed, posted, polled, nfail, added>>

\* Mutant: the poll loop stops one completion short.
ClientPollShort ==
  /\ pc["client"] = "poll"
  /\ IF polled < posted - 1
       THEN \/ landed > polled /\ polled' = polled + 1 /\ UNCHANGED <<pc, nfail>>
            \/ landed = polled /\ pc["server"] = "fatal"
               /\ pc' = [pc EXCEPT !["client"] = "ret_false"] /\ UNCHANGED <<polled, nfail>>
            \/ \E r \in Results("poll") \ {"ok"} :
                 pc' = [pc EXCEPT !["client"] = "ret_false"] /\ Count(r) /\ UNCHANGED polled
       ELSE pc' = [pc EXCEPT !["client"] = "notify"] /\ UNCHANGED <<polled, nfail>>
  /\ UNCHANGED <<op, onlyMeta, inbox, peerEnd, closed, posted, landed, added>>

\* Second loop: poll_completion, once per chunk.  It returns on a
\* completion, or an error on a bad completion or a QP in error (the
\* remote process is gone); otherwise it sleeps and polls again.
ClientPoll ==
  /\ pc["client"] = "poll"
  /\ IF polled < posted
       THEN \/ landed > polled /\ polled' = polled + 1 /\ UNCHANGED <<pc, nfail>>
            \/ landed = polled /\ pc["server"] = "fatal"
               /\ pc' = [pc EXCEPT !["client"] = "ret_false"] /\ UNCHANGED <<polled, nfail>>
            \/ \E r \in Results("poll") \ {"ok"} :
                 pc' = [pc EXCEPT !["client"] = "ret_false"] /\ Count(r) /\ UNCHANGED polled
       ELSE pc' = [pc EXCEPT !["client"] = "notify"] /\ UNCHANGED <<polled, nfail>>
  /\ UNCHANGED <<op, onlyMeta, inbox, peerEnd, closed, posted, landed, added>>

\* Write("W") after rdma_write, Write(RDMA_READ_MSG) after rdma_read.
ClientNotify ==
  /\ pc["client"] = "notify"
  /\ Send("client", IF op = "BACKUP" THEN "W" ELSE "R")
  /\ pc' = [pc EXCEPT !["client"] = "ret_true"]
  /\ UNCHANGED <<op, onlyMeta, closed, posted, landed, polled, nfail, added>>

\* The function returns; the RdmaCommunicator destructor closes the socket.
ClientReturn ==
  /\ pc["client"] \in {"ret_true", "ret_false"}
  /\ Close("client")
  /\ pc' = [pc EXCEPT !["client"] = IF @ = "ret_true" THEN "true" ELSE "false"]
  /\ UNCHANGED <<op, onlyMeta, inbox, posted, landed, polled, nfail, added>>

-----------------------------------------------------------------------------
(* The server thread: Server::execute and the handlers it calls.           *)
\* The frame of a Read() at the head of the stream: a frame, or the length
\* of a handshake segment taken for a frame length.
\*   "con": the byte-swapped address is far beyond memory, Realloc calls
\*          LOG_FATAL and the process exits (closing its sockets);
\*   "q":   one byte of the eight, MSG_WAITALL waits for the rest.
MisreadTo(x) == IF x = "con" THEN "fatal" ELSE "hung"

\* `while (c->Read(buffer))`: the routine frame selects the handler; a
\* failed Read, or a frame that is not 8 bytes long, ends the loop and the
\* thread, whose shared_ptr closes the socket.
SrvRoutine ==
  LET x == Incoming("server") IN
  /\ pc["server"] = "routine" /\ x # "wait"
  /\ CASE x = "routine" ->
            /\ Pop("server") /\ UNCHANGED <<closed, peerEnd>>
            /\ pc' = [pc EXCEPT !["server"] = IF op = "BACKUP" THEN "backup" ELSE "load"]
       [] x \in {"con", "q"} ->
            /\ UNCHANGED inbox
            /\ pc' = [pc EXCEPT !["server"] = MisreadTo(x)]
            /\ IF x = "con" THEN Exit("server") ELSE UNCHANGED <<closed, peerEnd>>
       [] OTHER ->
            /\ UNCHANGED inbox /\ Close("server")
            /\ pc' = [pc EXCEPT !["server"] = "gone"]
  /\ UNCHANGED <<op, onlyMeta, posted, landed, polled, nfail, added>>

\* handleBackup: Read(request); the idle-memory check sets the response
\* code; Write(response); an error code returns, only_metadata goes on to
\* AddRateLimited, otherwise Storage::Load / TryMemfdMalloc follow.
SrvBackup ==
  LET x == Incoming("server") IN
  /\ pc["server"] = "backup" /\ x # "wait"
  /\ IF x = "req"
       THEN \E r \in IF onlyMeta THEN {"ok"} ELSE Results("server_oom") :
              /\ inbox' = [inbox EXCEPT !["server"] = Tail(@), !["client"] =
                             Append(@, IF r = "ok" THEN "rsp_ok" ELSE "rsp_err")]
              /\ pc' = [pc EXCEPT !["server"] =
                          IF r = "fail" THEN "routine" ELSE IF onlyMeta THEN "added" ELSE "memfd"]
              /\ Count(r)
       ELSE UNCHANGED <<inbox, nfail>> /\ pc' = [pc EXCEPT !["server"] = "routine"]
  /\ UNCHANGED <<op, onlyMeta, peerEnd, closed, posted, landed, polled, added>>

\* handleBackup after its success response: reuse the entry
\* (memfdFtruncate) or TryMemfdMalloc and Storage::Save; a failure returns.
SrvMemfd ==
  /\ pc["server"] = "memfd"
  /\ \E r \in Results("server_memfd") :
       /\ pc' = [pc EXCEPT !["server"] = IF r = "ok" THEN "hs_create" ELSE "routine"]
       /\ Count(r)
  /\ UNCHANGED <<op, onlyMeta, inbox, peerEnd, closed, posted, landed, polled, added>>

\* handleLoad: Read(request); MetadataClient::Load and Storage::Load set
\* the response code; Write(response); an error code or only_metadata
\* returns, otherwise the handshake follows.
SrvLoad ==
  LET x == Incoming("server") IN
  /\ pc["server"] = "load" /\ x # "wait"
  /\ IF x = "req"
       THEN \E r \in Results("server_load") :
              /\ inbox' = [inbox EXCEPT !["server"] = Tail(@), !["client"] =
                             Append(@, IF r = "ok" THEN "rsp_ok" ELSE "rsp_err")]
              /\ pc' = [pc EXCEPT !["server"] =
                          IF r = "fail" \/ onlyMeta THEN "routine" ELSE "hs_create"]
              /\ Count(r)
       ELSE UNCHANGED <<inbox, nfail>> /\ pc' = [pc EXCEPT !["server"] = "routine"]
  /\ UNCHANGED <<op, onlyMeta, peerEnd, closed, posted, landed, polled, added>>

\* Read the finish notification; anything but the expected string is a
\* LOG_FATAL; a failed Read returns.
SrvSign ==
  LET x == Incoming("server")
      want == IF op = "BACKUP" THEN "W" ELSE "R"
  IN
  /\ pc["server"] = "sign" /\ x # "wait"
  /\ CASE x = want ->
            /\ Pop("server") /\ UNCHANGED <<closed, peerEnd>>
            /\ pc' = [pc EXCEPT !["server"] = IF op = "BACKUP" THEN "added" ELSE "routine"]
       [] x \in {"fin", "rst"} ->
            /\ UNCHANGED <<inbox, closed, peerEnd>>
            /\ pc' = [pc EXCEPT !["server"] = "routine"]
       [] OTHER ->
            /\ UNCHANGED inbox /\ Exit("server")
            /\ pc' = [pc EXCEPT !["server"] = "fatal"]
  /\ UNCHANGED <<op, onlyMeta, posted, landed, polled, nfail, added>>

\* controller_->AddRateLimited(file_name): the replica is handed to the
\* reconciler; the handler returns to the execute loop.
SrvAdded ==
  /\ pc["server"] = "added"
  /\ added' = TRUE
  /\ pc' = [pc EXCEPT !["server"] = "routine"]
  /\ UNCHANGED <<op, onlyMeta, inbox, peerEnd, closed, posted, landed, polled, nfail>>

-----------------------------------------------------------------------------
ClientDone == pc["client"] \in {"true", "false"}
ServerDone == pc["server"] \in {"none", "gone"}

\* Both threads have returned.
Finished == ClientDone /\ ServerDone /\ UNCHANGED vars

Next ==
  \/ ClientConnect \/ ClientSend \/ ClientResponse \/ ClientMemfd
  \/ ClientPost \/ NicLand \/ ClientPoll \/ ClientNotify \/ ClientReturn
  \/ SrvRoutine \/ SrvBackup \/ SrvMemfd \/ SrvLoad \/ SrvSign \/ SrvAdded
  \/ \E s \in Sides : HsCreate(s) \/ HsWrite(s) \/ HsRead(s) \/ HsSpin(s) \/ HsModify(s)
  \/ Finished

Spec == Init /\ [][Next]_vars

-----------------------------------------------------------------------------
Pcs == {"connect", "send", "rsp", "memfd", "post", "poll", "notify", "ret_true",
        "ret_false", "true", "false", "none", "routine", "backup", "load", "sign",
        "added", "gone", "fatal", "hung", "spin", "misread", "hs_create",
        "hs_con_w", "hs_con_r", "hs_modify", "hs_q_w", "hs_q_r"}

TypeOK ==
  /\ op \in Ops /\ onlyMeta \in BOOLEAN
  /\ pc \in [Sides -> Pcs]
  /\ inbox \in [Sides -> Seq(Segments)]
  /\ peerEnd \in [Sides -> {"open", "fin", "rst"}]
  /\ closed \in [Sides -> BOOLEAN]
  /\ polled <= landed /\ landed <= posted /\ posted <= NChunks
  /\ nfail <= MaxFail /\ added \in BOOLEAN

(* The two ends stay in step: no Read() of either side starts on a         *)
(* handshake segment (the server would exit through Realloc's LOG_FATAL,  *)
(* or wait for bytes that never come), and no sock_sync_data reads a      *)
(* frame or spins on EOF.                                                  *)
Aligned == \A s \in Sides : pc[s] \notin {"fatal", "hung", "misread", "spin"}

(* Whenever either side takes the RDMA transfer as done (the server's      *)
(* handleBackup accepts the "W" notification, or the client call returns   *)
(* true), every chunk of the region has been written.                      *)
TransferComplete ==
  ~onlyMeta /\ (added \/ pc["client"] \in {"ret_true", "true"}) => landed = NChunks
=============================================================================
