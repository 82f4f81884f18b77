---------------------------- MODULE RateLimiter ----------------------------
(***************************************************************************)
(* operators::RateLimiter (src/operator/rate_limiter.cpp), the limiter of  *)
(* Operator::AddRateLimited (src/operator/operator.cpp).                   *)
(*                                                                         *)
(* claim_next runs under mut_: it reads system_clock, syncs, and books the *)
(* next slot; aquire then sleeps for the returned wait, so its caller      *)
(* pushes at now + wait.  The Operator sets the rate to                    *)
(* OPERATOR_RATELIMITER_RATE, so interval_ = 1e6 / 500 = 2000 us;          *)
(* max_permits_ is 0 and never changed, so no permit is ever stored.       *)
(* The claims of concurrent callers are serialised by mut_, so one claim   *)
(* at a time is a faithful interleaving of them.                           *)
(*                                                                         *)
(* Time is in units of the model (Interval of them per interval_).  `now`  *)
(* is real time, which the sleeps measure; system_clock reads now - skew:  *)
(* skew grows when the wall clock is set back and shrinks when it is set   *)
(* forward (NTP step, operator).                                           *)
(***************************************************************************)
EXTENDS Integers, Sequences

CONSTANTS
  Interval,   \* interval_, in time units
  MaxClaims,  \* bound on the aquire calls
  MaxTime,    \* bound on real time
  MaxSkew     \* bound on how far the wall clock is off real time, either way

VARIABLES
  lim,    \* [next_free |-> next_free_, stored |-> stored_permits_]
  now,    \* real time
  skew,   \* real time minus the system_clock reading
  calls   \* history: per aquire, [at, skew, release] in real time

limVars == <<lim, now, skew, calls>>

\* The state the constructor leaves: next_free_ 0, stored_permits_ 0.
NewLimiter == [next_free |-> 0, stored |-> 0]

\* max_permits_: set to 0 by the constructor, never assigned again.
MaxPermits == 0

Lesser(a, b) == IF a < b THEN a ELSE b
Larger(a, b) == IF a > b THEN a ELSE b

\* Mutant: sync moves next_free_ to the clock even when it is ahead.
syncNoGuard(s, t) ==
  [next_free |-> t,
   stored |-> Lesser(MaxPermits, s.stored + (t - s.next_free) \div Interval)]

\* Mutant: the idle time accrues as permits without the max_permits_ cap.
syncUncapped(s, t) ==
  IF t > s.next_free
    THEN [next_free |-> t, stored |-> s.stored + (t - s.next_free) \div Interval]
    ELSE s

\* sync(now): once the clock has passed next_free_, the idle time accrues
\* as stored permits (at most max_permits_) and next_free_ catches up.
sync(s, t) ==
  IF t > s.next_free
    THEN [next_free |-> t,
          stored |-> Lesser(MaxPermits, s.stored + (t - s.next_free) \div Interval)]
    ELSE s

\* Mutant: the wait is taken after next_free_ has been advanced.
claim_nextLateWait(s, t, permits) ==
  LET u == sync(s, t)
      stored == Lesser(permits, u.stored)
      nf == u.next_free + (permits - stored) * Interval
  IN [lim |-> [next_free |-> nf, stored |-> u.stored - stored],
      wait |-> nf - t]

\* claim_next(permits) at clock reading t: sync, wait until next_free_,
\* take the stored permits first and book fresh * interval_ after it.
\* After sync next_free_ >= t, so the unsigned wait does not wrap.
claim_next(s, t, permits) ==
  LET u == sync(s, t)
      stored == Lesser(permits, u.stored)
  IN [lim |-> [next_free |-> u.next_free + (permits - stored) * Interval,
               stored |-> u.stored - stored],
      wait |-> u.next_free - t]

\* system_clock since the epoch is far past the constructor's next_free_.
LimInit ==
  /\ lim = NewLimiter
  /\ now = MaxSkew + 1
  /\ skew = 0
  /\ calls = <<>>

\* aquire(): claim_next at the clock reading, then sleep_for the wait.
aquire ==
  /\ Len(calls) < MaxClaims
  /\ LET c == claim_next(lim, now - skew, 1)
     IN /\ lim' = c.lim
        /\ calls' = Append(calls, [at |-> now, skew |-> skew,
                                   release |-> now + c.wait])
  /\ UNCHANGED <<now, skew>>

\* Real time passes.
Tick ==
  /\ now < MaxTime
  /\ now' = now + 1
  /\ UNCHANGED <<lim, skew, calls>>

\* The wall clock that system_clock reads is set back by one unit.
StepBack ==
  /\ skew < MaxSkew
  /\ skew' = skew + 1
  /\ UNCHANGED <<lim, now, calls>>

\* The wall clock is set forward by one unit.
StepForward ==
  /\ skew > -MaxSkew
  /\ skew' = skew - 1
  /\ UNCHANGED <<lim, now, calls>>

LimNext == aquire \/ Tick \/ StepBack \/ StepForward

LimSpec == LimInit /\ [][LimNext]_limVars

-----------------------------------------------------------------------------
LimTypeOK ==
  /\ lim \in [next_free : Nat, stored : {0}]
  /\ now \in 0..MaxTime /\ skew \in -MaxSkew..MaxSkew
  /\ calls \in Seq([at : Nat, skew : -MaxSkew..MaxSkew, release : Int])
  /\ Len(calls) <= MaxClaims

\* When the i-th caller would go under a burst-free token bucket driven by
\* real time: at once, or an interval after the previous caller went.
Bucket(i) ==
  IF i = 1 THEN calls[1].at
  ELSE Larger(calls[i].at, calls[i - 1].release + Interval)

\* How far the wall clock was set back (negative: forward) between the
\* previous claim and this one.
Regression(i) ==
  IF i = 1 THEN calls[1].skew ELSE calls[i].skew - calls[i - 1].skew

(* B3 (spec 4.1) asks for one caller per interval on a monotonic clock;    *)
(* claim_next reads system_clock instead.  AddRateLimited still spaces its *)
(* callers an interval apart in real time, less exactly how far the wall   *)
(* clock was set forward between the two claims: a forward step of d lets *)
(* sync move next_free_ up to the new reading and the next sleep_for end d *)
(* early (at once for d >= interval), while a step back only spaces them   *)
(* further apart.                                                          *)
RateLimited ==
  \A i \in 2..Len(calls) :
    calls[i].release >= calls[i - 1].release + Interval + Regression(i)

(* The limiter delays a caller no more than the token bucket requires,     *)
(* except for the time the wall clock was set back since the previous     *)
(* claim: claim_next measures the wait with system_clock, so a step back   *)
(* of d stalls the next caller (a worker, the evictor or handleBackup) by  *)
(* up to d, and with a monotonic clock (skew constant) by nothing; a step *)
(* forward only shortens the wait.                                         *)
DelayBounded ==
  \A i \in 1..Len(calls) : calls[i].release <= Bucket(i) + Larger(0, Regression(i))
=============================================================================
