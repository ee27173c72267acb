---------------------------- MODULE RateLimiters ----------------------------
(***************************************************************************)
(* RateLimiter and DistinctRateLimiter of server/main.py: tables of recent *)
(* events by key, bounded in keys, under a lock.  A call reads the clock   *)
(* before it takes the lock, so calls of different threads may be decided  *)
(* out of the order of their times.  Emptying the table of expired keys is *)
(* lazy, at most once in CleanupEvery.  An event is known by the call that *)
(* recorded it and the list of a key is the set of its events, each        *)
(* knowing those it was appended to; a key without events is not in the    *)
(* table.                                                                  *)
(***************************************************************************)
EXTENDS Integers, FiniteSets

CONSTANTS
  MaxCalls,      \* a bound on the calls of one behaviour
  Keys, Values,  \* principals, and what DistinctRateLimiter tells apart
  Limit, Window, \* of every call, as each limiter's callers pass one pair
  MaxKeys,
  CleanupEvery,  \* the 60 seconds of _cleanup
  MaxClock       \* a bound on the time of one behaviour

ASSUME LimiterAssumption ==
  /\ MaxCalls \in Nat /\ IsFiniteSet(Keys)
  /\ Limit \in Nat \ {0} /\ MaxKeys \in Nat \ {0}
  /\ Window \in Nat /\ CleanupEvery \in Nat \ {0} /\ MaxClock \in Nat

VARIABLES
  kind,        \* "evicting" or "refusing" RateLimiter, or "distinct"
  clock,
  call,        \* each call's key, value, time, verdict and the events it was
               \* appended to, while they matter
  late,        \* history: calls decided after a call with a later time
  latest,      \* history: the latest time of a decided call
  table,       \* _events
  lastCleanup

limiterVars == <<kind, clock, call, late, latest, table, lastCleanup>>

\* Numbered in the order in which they read the clock.
Calls == 1 .. MaxCalls

Verdicts == {"idle", "clocked", "charged", "free", "refused"}
None == "none"
Blank(verdict) ==
  [key |-> None, value |-> None, at |-> 0, verdict |-> verdict, behind |-> {}]

LimiterTypeOK ==
  /\ kind \in {"evicting", "refusing", "distinct"}
  /\ clock \in CleanupEvery .. (CleanupEvery + MaxClock)
  /\ call \in [Calls -> [key : Keys \cup {None}, value : Values \cup {None},
                     at : Nat, verdict : Verdicts, behind : SUBSET Calls]]
  /\ late \subseteq Calls /\ latest \in Nat
  /\ table \in [Keys -> SUBSET Calls]
  /\ lastCleanup \in Nat

\* The machine has been up for a while when the process starts.
LimiterInit ==
  /\ kind \in {"evicting", "refusing", "distinct"}
  /\ clock = CleanupEvery
  /\ call = [c \in Calls |-> Blank("idle")]
  /\ late = {} /\ latest = 0
  /\ table = [k \in Keys |-> {}]
  /\ lastCleanup = 0

Time ==
  /\ clock < CleanupEvery + MaxClock
  /\ clock' = clock + 1
  /\ UNCHANGED <<kind, call, late, latest, table, lastCleanup>>

\* now = time.monotonic(), before the lock.
ReadClock(c) ==
  /\ call[c].verdict = "idle" /\ \A d \in 1 .. c - 1 : call[d].verdict # "idle"
  /\ \E k \in Keys, v \in IF kind = "distinct" THEN Values ELSE {None} :
       call' = [call EXCEPT ![c] = [key |-> k, value |-> v, at |-> clock,
                                    verdict |-> "clocked", behind |-> {}]]
  /\ UNCHANGED <<kind, clock, late, latest, table, lastCleanup>>

-----------------------------------------------------------------------------

\* Slip, for the runs on mutated code: an event at the cutoff is dropped.
FreshStrictly(events, now) == {e \in events : call[e].at > now - Window}
Fresh(events, now) == {e \in events : call[e].at >= now - Window}

Larger(a, b) == IF a > b THEN a ELSE b

\* Slip: the time of the cleanup is noted by every call.
CleanupPostponed(now) ==
  /\ lastCleanup' = now
CleanupNoted(now) ==
  /\ lastCleanup' = IF now - lastCleanup >= CleanupEvery THEN now ELSE lastCleanup

\* The table as _cleanup leaves it.
Cleaned(now) ==
  IF now - lastCleanup >= CleanupEvery
  THEN [k \in Keys |-> Fresh(table[k], now)] ELSE table

Stored(t) == {k \in Keys : t[k] # {}}
Full(t) == Cardinality(Stored(t)) >= MaxKeys

\* The end of the list.
LastOf(events) == CHOOSE e \in events : events \subseteq call[e].behind \cup {e}

Latest(times) == CHOOSE a \in times : \A b \in times : b <= a

\* What the eviction compares: the last event appended, or the latest value.
Recency(events) ==
  IF kind = "distinct" THEN Latest({call[e].at : e \in events})
  ELSE call[LastOf(events)].at

Oldest(t) ==
  {k \in Stored(t) : \A other \in Stored(t) : Recency(t[k]) <= Recency(t[other])}

\* The call is decided, and what was recorded for the keys "forgotten" is gone.
Decided(c, outcome, forgotten) ==
  /\ call' = [d \in Calls |->
       IF d = c THEN outcome
       ELSE IF call[d].verdict = "charged" /\ call[d].key \in forgotten THEN Blank("free")
       ELSE call[d]]
  /\ latest' = Larger(call[c].at, latest)
  /\ CleanupNoted(call[c].at)
  /\ UNCHANGED <<kind, clock>>

\* The call changed nothing but what it pruned.
Settle(c, verdict) == Decided(c, Blank(verdict), {}) /\ UNCHANGED late

\* The call was appended to the list of its key, and "forgotten" evicted.
Charge(c, events, forgotten) ==
  /\ Decided(c, [call[c] EXCEPT !.verdict = "charged", !.behind = events], forgotten)
  /\ late' = IF call[c].at < latest THEN late \cup {c} ELSE late

\* record_failure once the lock is held; check and the receipt gates add only
\* the answer 429.
RecordFailure(c) ==
  LET k == call[c].key
      now == call[c].at
      events == Fresh(Cleaned(now)[k], now)
      t == [Cleaned(now) EXCEPT ![k] = events]
      pressed == events = {} /\ Full(t)
  IN /\ call[c].verdict = "clocked" /\ kind # "distinct"
     /\ \/ /\ Cardinality(events) >= Limit \/ (pressed /\ kind = "refusing")
           /\ table' = t /\ Settle(c, "refused")
        \/ /\ Cardinality(events) < Limit /\ ~pressed
           /\ table' = [t EXCEPT ![k] = events \cup {c}] /\ Charge(c, events, {})
        \/ /\ Cardinality(events) < Limit /\ pressed /\ kind = "evicting"
           /\ \E oldest \in Oldest(t) :
                /\ table' = [t EXCEPT ![oldest] = {}, ![k] = {c}]
                /\ Charge(c, {}, {oldest})

\* is_limited, which charges nothing; its caller counts True as a refusal.
IsLimited(c) ==
  LET k == call[c].key
      now == call[c].at
      events == Fresh(Cleaned(now)[k], now)
      t == [Cleaned(now) EXCEPT ![k] = events]
      limited == \/ Cardinality(events) >= Limit
                 \/ events = {} /\ Full(t) /\ kind = "refusing"
  IN /\ call[c].verdict = "clocked" /\ kind # "distinct"
     /\ table' = t
     /\ Settle(c, IF limited THEN "refused" ELSE "free")

\* clear, after a successful login.
Clear(k) ==
  /\ kind # "distinct" /\ table[k] # {}
  /\ table' = [table EXCEPT ![k] = {}]
  /\ call' = [d \in Calls |-> IF call[d].verdict = "charged" /\ call[d].key = k
                              THEN Blank("free") ELSE call[d]]
  /\ UNCHANGED <<kind, clock, late, latest, lastCleanup>>

\* record_distinct: a value still in the window is not charged again, nor is
\* its time renewed.
RecordDistinct(c) ==
  LET k == call[c].key
      now == call[c].at
      before == Cleaned(now)
      values == Fresh(before[k], now)
      t == [before EXCEPT ![k] = values]
      known == \E e \in values : call[e].value = call[c].value
      pressed == before[k] = {} /\ Full(before)
  IN /\ call[c].verdict = "clocked" /\ kind = "distinct"
     /\ \/ /\ known
           /\ table' = t /\ Settle(c, "free")
        \/ /\ ~known /\ Cardinality(values) >= Limit
           /\ table' = t /\ Settle(c, "refused")
        \/ /\ ~known /\ Cardinality(values) < Limit /\ ~pressed
           /\ table' = [t EXCEPT ![k] = values \cup {c}] /\ Charge(c, values, {})
        \/ /\ ~known /\ Cardinality(values) < Limit /\ pressed
           /\ \E oldest \in Oldest(before) :
                /\ table' = [before EXCEPT ![oldest] = {}, ![k] = {c}]
                /\ Charge(c, {}, {oldest})

LimiterNext ==
  \/ Time
  \/ \E c \in Calls : ReadClock(c) \/ RecordFailure(c) \/ IsLimited(c) \/ RecordDistinct(c)
  \/ \E k \in Keys : Clear(k)

LimiterSpec == LimiterInit /\ [][LimiterNext]_limiterVars

-----------------------------------------------------------------------------
(* Properties.  The table forgets what it prunes; the calls do not. *)

ChargedTo(k, from) ==
  {c \in Calls : call[c].verdict = "charged" /\ call[c].key = k /\ call[c].at >= from}

\* No window of time holds more than Limit charged calls of one key that the
\* table did not forget (by an eviction or a clear), leaving aside a call that
\* read the clock first and was decided after a later one: pruning for the
\* later one may have made room for it.
WindowBounded ==
  \A k \in Keys : \A t \in 0 .. (CleanupEvery + MaxClock) :
    Cardinality({c \in ChargedTo(k, t - Window) \ late : call[c].at <= t}) <= Limit

\* A call is refused only if its key was charged Limit times in the window (for
\* other values, where values are told apart and no later call came first), or if
\* the table may not evict and MaxKeys other keys were charged within the window
\* and one cleanup interval, or by a call that came late: expired keys do not keep
\* the table full.
RefusesForCause ==
  [][\A c \in Calls : call[c].verdict = "clocked" /\ call'[c].verdict = "refused" =>
       LET recent == ChargedTo(call[c].key, call[c].at - Window)
       IN \/ /\ Cardinality(recent) >= Limit
             /\ kind = "distinct" /\ call[c].at >= latest
                  => \A d \in recent : call[d].value # call[c].value
          \/ /\ kind = "refusing"
             /\ Cardinality({k \in Keys \ {call[c].key} :
                  \/ ChargedTo(k, call[c].at - Window - CleanupEvery + 1) # {}
                  \/ ChargedTo(k, 0) \cap late # {}}) >= MaxKeys]_limiterVars
=============================================================================
