------------------------------- MODULE Channel -------------------------------
(***************************************************************************)
(* util::channel (include/util/channel.h): a std::queue guarded by one     *)
(* mutex and ONE condition variable shared by readers and writers.         *)
(*                                                                         *)
(*  - operator>> (write): test is_closed_ without the lock (throw), lock,  *)
(*    waitBeforeWrite, push, unlock, then notify_one;                      *)
(*  - blocking_iterator::operator!= : lock, waitBeforeRead, answer         *)
(*    !(closed && empty), unlock;                                          *)
(*  - operator<< (a read; blocking_iterator::operator* calls it): test   *)
(*    closed && empty without the lock (return, leaving the output         *)
(*    default-constructed), lock, waitBeforeRead, pop if not empty,        *)
(*    unlock, then notify_one;                                             *)
(*  - close: store is_closed_ WITHOUT the mutex, then notify_all.          *)
(*                                                                         *)
(* A call is a sequence of steps of the calling thread, tracked in chpc.   *)
(* A user module starts a call with CallSend / CallTest / CallRecv and     *)
(* continues once chpc is "idle" again.  cnd_.wait(lock, pred) is the loop *)
(* "test pred under the mutex; if false, block and release the mutex; on  *)
(* wake-up re-acquire and test again": the test and the block are two      *)
(* steps, because close() changes the predicate without the mutex.        *)
(* notify_one wakes an arbitrary thread of the wait set, reader or         *)
(* writer.  Spurious wake-ups are not modelled: they are allowed but never *)
(* guaranteed, so no progress may depend on them.                          *)
(***************************************************************************)
EXTENDS Naturals, Sequences

CONSTANTS
  Threads,   \* threads that use the channels
  Chans,     \* channel objects
  Cap,       \* [Chans -> Nat]: cap_, 0 for the default (unbounded) channel
  Values,    \* elements written
  Default,   \* a default-constructed value_type
  NoThread   \* the mutex is free

VARIABLES
  buf,       \* per channel: queue_
  closed,    \* per channel: is_closed_
  owner,     \* per channel: the thread holding mtx_, or NoThread
  sleepers,  \* per channel: threads blocked in cnd_.wait
  chpc,      \* per thread: where it is in a channel call
  chan,      \* per thread: the channel of its current call
  item,      \* per thread: the element it is writing
  out,       \* per thread: the element its last read produced
  res        \* per thread: the answer of its last operator!=

chanVars == <<buf, closed, owner, sleepers, chpc, chan, item, out, res>>

ChanPcs == {"idle", "send", "send_lock", "send_sleep", "send_wait", "send_notify",
            "thrown", "test_lock", "test_sleep", "test_wait", "recv", "recv_lock",
            "recv_sleep", "recv_wait", "recv_notify"}

ChanInit ==
  /\ buf = [c \in Chans |-> <<>>]
  /\ closed = [c \in Chans |-> FALSE]
  /\ owner = [c \in Chans |-> NoThread]
  /\ sleepers = [c \in Chans |-> {}]
  /\ chpc = [t \in Threads |-> "idle"]
  /\ chan = [t \in Threads |-> CHOOSE c \in Chans : TRUE]
  /\ item = [t \in Threads |-> Default]
  /\ out = [t \in Threads |-> Default]
  /\ res = [t \in Threads |-> FALSE]

\* The predicates of waitBeforeRead and waitBeforeWrite.
CanRead(c) == buf[c] # <<>> \/ closed[c]
CanWrite(c) == Cap[c] = 0 \/ Len(buf[c]) < Cap[c]

\* A thread that was notified, or is about to start, may take the mutex.
Ready(t, pc) ==
  /\ chpc[t] = pc \o "_lock" \/ (chpc[t] = pc \o "_wait" /\ t \notin sleepers[chan[t]])
  /\ owner[chan[t]] = NoThread

Set(f, t, v) == [f EXCEPT ![t] = v]

-----------------------------------------------------------------------------
(* Calls, made by a step of the user module.                               *)
CallSend(t, c, v) ==
  /\ chpc[t] = "idle"
  /\ chpc' = Set(chpc, t, "send") /\ chan' = Set(chan, t, c) /\ item' = Set(item, t, v)
  /\ UNCHANGED <<buf, closed, owner, sleepers, out, res>>

CallTest(t, c) ==
  /\ chpc[t] = "idle"
  /\ chpc' = Set(chpc, t, "test_lock") /\ chan' = Set(chan, t, c)
  /\ UNCHANGED <<buf, closed, owner, sleepers, item, out, res>>

CallRecv(t, c) ==
  /\ chpc[t] = "idle"
  /\ chpc' = Set(chpc, t, "recv") /\ chan' = Set(chan, t, c)
  /\ UNCHANGED <<buf, closed, owner, sleepers, item, out, res>>

\* close(): is_closed_ = true and notify_all, no mutex taken.
CloseChan(c) ==
  /\ closed' = [closed EXCEPT ![c] = TRUE]
  /\ sleepers' = [sleepers EXCEPT ![c] = {}]
  /\ UNCHANGED <<buf, owner, chpc, chan, item, out, res>>

-----------------------------------------------------------------------------
(* Steps of a call.                                                        *)
\* operator>>: the unlocked test of is_closed_.
SendCheck(t) ==
  /\ chpc[t] = "send"
  /\ chpc' = Set(chpc, t, IF closed[chan[t]] THEN "thrown" ELSE "send_lock")
  /\ UNCHANGED <<buf, closed, owner, sleepers, chan, item, out, res>>

\* Under the mutex: waitBeforeWrite's test, then push and unlock.
SendLock(t) ==
  LET c == chan[t] IN
  /\ Ready(t, "send")
  /\ IF CanWrite(c)
       THEN /\ buf' = [buf EXCEPT ![c] = Append(@, item[t])]
            /\ chpc' = Set(chpc, t, "send_notify")
            /\ UNCHANGED owner
       ELSE /\ owner' = [owner EXCEPT ![c] = t]
            /\ chpc' = Set(chpc, t, "send_sleep")
            /\ UNCHANGED buf
  /\ UNCHANGED <<closed, sleepers, chan, item, out, res>>

\* cnd_.wait: block and release the mutex.
Sleep(t) ==
  LET c == chan[t] IN
  /\ chpc[t] \in {"send_sleep", "test_sleep", "recv_sleep"}
  /\ owner' = [owner EXCEPT ![c] = NoThread]
  /\ sleepers' = [sleepers EXCEPT ![c] = @ \cup {t}]
  /\ chpc' = Set(chpc, t, CASE chpc[t] = "send_sleep" -> "send_wait"
                            [] chpc[t] = "test_sleep" -> "test_wait"
                            [] OTHER -> "recv_wait")
  /\ UNCHANGED <<buf, closed, chan, item, out, res>>

\* cnd_.notify_one after the unlock: one blocked thread, of either kind.
Notify(t) ==
  LET c == chan[t] IN
  /\ chpc[t] \in {"send_notify", "recv_notify"}
  /\ chpc' = Set(chpc, t, "idle")
  /\ \/ sleepers[c] = {} /\ UNCHANGED sleepers
     \/ \E s \in sleepers[c] : sleepers' = [sleepers EXCEPT ![c] = @ \ {s}]
  /\ UNCHANGED <<buf, closed, owner, chan, item, out, res>>

\* operator!=: waitBeforeRead, then !(closed && empty).
TestLock(t) ==
  LET c == chan[t] IN
  /\ Ready(t, "test")
  /\ IF CanRead(c)
       THEN /\ res' = Set(res, t, ~(closed[c] /\ buf[c] = <<>>))
            /\ chpc' = Set(chpc, t, "idle")
            /\ UNCHANGED owner
       ELSE /\ owner' = [owner EXCEPT ![c] = t]
            /\ chpc' = Set(chpc, t, "test_sleep")
            /\ UNCHANGED res
  /\ UNCHANGED <<buf, closed, sleepers, chan, item, out>>

\* operator<<: the unlocked test of closed && empty; the output keeps the
\* value of `value_type value;` in operator*.
RecvCheck(t) ==
  LET c == chan[t] IN
  /\ chpc[t] = "recv"
  /\ IF closed[c] /\ buf[c] = <<>>
       THEN chpc' = Set(chpc, t, "idle") /\ out' = Set(out, t, Default)
       ELSE chpc' = Set(chpc, t, "recv_lock") /\ UNCHANGED out
  /\ UNCHANGED <<buf, closed, owner, sleepers, chan, item, res>>

\* Mutant: the front element is copied out but not popped.
RecvLockNoPop(t) ==
  LET c == chan[t] IN
  /\ Ready(t, "recv")
  /\ IF CanRead(c)
       THEN /\ out' = Set(out, t, IF buf[c] # <<>> THEN Head(buf[c]) ELSE Default)
            /\ chpc' = Set(chpc, t, "recv_notify")
            /\ UNCHANGED <<owner, buf>>
       ELSE /\ owner' = [owner EXCEPT ![c] = t]
            /\ chpc' = Set(chpc, t, "recv_sleep")
            /\ UNCHANGED <<buf, out>>
  /\ UNCHANGED <<closed, sleepers, chan, item, res>>

\* Under the mutex: waitBeforeRead, then pop if not empty.
RecvLock(t) ==
  LET c == chan[t] IN
  /\ Ready(t, "recv")
  /\ IF CanRead(c)
       THEN /\ out' = Set(out, t, IF buf[c] # <<>> THEN Head(buf[c]) ELSE Default)
            /\ buf' = [buf EXCEPT ![c] = IF @ # <<>> THEN Tail(@) ELSE @]
            /\ chpc' = Set(chpc, t, "recv_notify")
            /\ UNCHANGED owner
       ELSE /\ owner' = [owner EXCEPT ![c] = t]
            /\ chpc' = Set(chpc, t, "recv_sleep")
            /\ UNCHANGED <<buf, out>>
  /\ UNCHANGED <<closed, sleepers, chan, item, res>>

ChanStep(t) ==
  \/ SendCheck(t) \/ SendLock(t) \/ Sleep(t) \/ Notify(t)
  \/ TestLock(t) \/ RecvCheck(t) \/ RecvLock(t)

-----------------------------------------------------------------------------
ChanTypeOK ==
  /\ buf \in [Chans -> Seq(Values)]
  /\ closed \in [Chans -> BOOLEAN]
  /\ owner \in [Chans -> Threads \cup {NoThread}]
  /\ sleepers \in [Chans -> SUBSET Threads]
  /\ chpc \in [Threads -> ChanPcs]
  /\ chan \in [Threads -> Chans]
  /\ item \in [Threads -> Values \cup {Default}]
  /\ out \in [Threads -> Values \cup {Default}]
  /\ res \in [Threads -> BOOLEAN]
=============================================================================
