----------------------------- MODULE RateLimiter -----------------------------
(***************************************************************************)
(* proxy.rateLimiter: a sliding window of one minute for each user, with a *)
(* sweep that forgets users who stay away.  Handlers read the limit from   *)
(* the configuration and the time from the clock before allow takes the    *)
(* mutex: other calls, with later times, and reloads come in between.      *)
(*                                                                         *)
(* A hit has the number of its call beside its time, so that hits are a    *)
(* set.  A configuration is the limit it sets.                             *)
(***************************************************************************)
EXTENDS Integers, FiniteSets

CONSTANTS
    User,
    Handler,   \* slots for concurrent requests, each used again and again
    Limits,    \* values of rate_limit_per_minute, 0 for none
    Minute,    \* in units of the clock
    MaxDelay,  \* bound on the time between time.Now() and the mutex
    MaxClock,  \* bound on the clock
    MaxCalls   \* bound on the number of calls

ASSUME LimiterAssumption ==
    /\ Limits \subseteq Nat /\ Limits # {}
    /\ Minute \in Nat \ {0} /\ MaxDelay \in Nat /\ MaxClock \in Nat /\ MaxCalls \in Nat

VARIABLES
    clock,
    limit,     \* Config.RateLimitPerMinute now
    hits,      \* rateLimiter.hits
    lastSweep, \* rateLimiter.lastSweep
    req,       \* the call of each handler
    calls,     \* calls so far
    granted,   \* every call granted under a limit, for each user
    verdict    \* the last call, with what allow returned

limiterVars == <<clock, limit, hits, lastSweep, req, calls, granted, verdict>>

NoCall == [pc |-> "idle"]
Nobody == [user |-> "nobody"]

LimiterInit == /\ clock = 0 /\ limit \in Limits
               /\ hits = [u \in User |-> {}] /\ lastSweep = 0
               /\ req = [h \in Handler |-> NoCall] /\ calls = 0
               /\ granted = [u \in User |-> {}] /\ verdict = Nobody

\* Time passes; a handler does not wait for ever between its two statements
TimePasses == /\ clock < MaxClock
              /\ \A h \in Handler : req[h].pc = "timed" => clock - req[h].t < MaxDelay
              /\ clock' = clock + 1
              /\ UNCHANGED <<limit, hits, lastSweep, req, calls, granted, verdict>>

Reload == /\ limit' \in Limits \ {limit}
          /\ UNCHANGED <<clock, hits, lastSweep, req, calls, granted, verdict>>

\* forward: c := p.cfg.Get()
Enter(h) == /\ req[h].pc = "idle"
            /\ \E u \in User :
                  req' = [req EXCEPT ![h] = [pc |-> "entered", user |-> u, limit |-> limit]]
            /\ UNCHANGED <<clock, limit, hits, lastSweep, calls, granted, verdict>>

\* forward: time.Now(), an argument of the call
ReadClock(h) ==
    /\ req[h].pc = "entered" /\ calls < MaxCalls
    /\ calls' = calls + 1
    /\ req' = [req EXCEPT ![h] = [pc |-> "timed", user |-> req[h].user, limit |-> req[h].limit,
                                  t |-> clock, n |-> calls]]
    /\ UNCHANGED <<clock, limit, hits, lastSweep, granted, verdict>>

\* Mutant: the cutoff is half a minute
RecentHalf(hs, now) == {hit \in hs : 2 * hit.t > 2 * now - Minute}

\* The hits less than a minute old, those after now among them
Recent(hs, now) == {hit \in hs : hit.t > now - Minute}

\* Mutant: the sweep is forgotten
SweepNever(now) == hits

\* After a minute without a sweep, every user is swept.  A user without hits is one whose
\* key is deleted
Sweep(now) ==
    IF now - lastSweep < Minute THEN hits ELSE [v \in User |-> Recent(hits[v], now)]

\* Mutant: calls that are refused count
AllowRefused(h) ==
    LET u    == req[h].user
        now  == req[h].t
        hit  == [t |-> now, n |-> req[h].n]
        kept == Recent(Sweep(now)[u], now)
        ok   == req[h].limit = 0 \/ Cardinality(kept) < req[h].limit
    IN  /\ req[h].pc = "timed"
        /\ lastSweep' = IF now - lastSweep >= Minute THEN now ELSE lastSweep
        /\ hits' = [Sweep(now) EXCEPT ![u] = IF req[h].limit = 0 THEN @ ELSE kept \cup {hit}]
        /\ granted' = [granted EXCEPT ![u] = IF req[h].limit # 0 /\ ok THEN @ \cup {hit} ELSE @]
        /\ verdict' = [user |-> u, t |-> now, limit |-> req[h].limit, ok |-> ok]
        /\ req' = [req EXCEPT ![h] = NoCall]
        /\ UNCHANGED <<clock, limit, calls>>

\* rateLimiter.allow, under its mutex
Allow(h) ==
    LET u    == req[h].user
        now  == req[h].t
        hit  == [t |-> now, n |-> req[h].n]
        kept == Recent(Sweep(now)[u], now)
        ok   == req[h].limit = 0 \/ Cardinality(kept) < req[h].limit
        one  == IF req[h].limit # 0 /\ ok THEN {hit} ELSE {}
    IN  /\ req[h].pc = "timed"
        /\ lastSweep' = IF now - lastSweep >= Minute THEN now ELSE lastSweep
        /\ hits' = [Sweep(now) EXCEPT ![u] = IF req[h].limit = 0 THEN @ ELSE kept \cup one]
        /\ granted' = [granted EXCEPT ![u] = @ \cup one]
        /\ verdict' = [user |-> u, t |-> now, limit |-> req[h].limit, ok |-> ok]
        /\ req' = [req EXCEPT ![h] = NoCall]
        /\ UNCHANGED <<clock, limit, calls>>

LimiterNext == \/ TimePasses \/ Reload
               \/ \E h \in Handler : Enter(h) \/ ReadClock(h) \/ Allow(h)

LimiterSpec == LimiterInit /\ [][LimiterNext]_limiterVars

-----------------------------------------------------------------------------

Hit  == [t : Nat, n : Nat]
Call == {NoCall}
        \cup [pc : {"entered"}, user : User, limit : Limits]
        \cup [pc : {"timed"}, user : User, limit : Limits, t : Nat, n : Nat]

\* The hits of a user are calls that were granted, each with its own number and none with
\* a time still to come, like the calls on their way to the mutex and the last sweep
LimiterTypeOK ==
    /\ clock \in Nat /\ limit \in Limits /\ calls \in Nat
    /\ req \in [Handler -> Call]
    /\ lastSweep \in Nat /\ lastSweep <= clock
    /\ granted \in [User -> SUBSET Hit] /\ hits \in [User -> SUBSET Hit]
    /\ \A u \in User : hits[u] \subseteq granted[u] /\ IsFiniteSet(granted[u])
    /\ \A u \in User : \A hit \in granted[u] : hit.t <= clock /\ hit.n < calls
    /\ \A h \in Handler : req[h].pc = "timed" => req[h].t <= clock /\ req[h].n < calls

\* The hits after a moment
Since(hs, t) == {hit \in hs : hit.t > t}

\* In the minute up to now no user was granted more than the limit, whatever the order in
\* which calls get the mutex, and whichever limit was in force when each was made
AtMostLimitPerMinute ==
    \A u \in User : \E top \in Limits : Cardinality(Since(granted[u], clock - Minute)) <= top

\* A call is refused only if as many as its limit were granted in the minute before it
\* or since: what was refused, or is older, or was another user's, does not count
RefusedOnlyWhenFull ==
    verdict # Nobody /\ ~verdict.ok =>
        /\ verdict.limit > 0
        /\ Cardinality(Since(granted[verdict.user], verdict.t - Minute)) >= verdict.limit

\* Users who stay away are forgotten: where a handler waits for less than a minute, no hit
\* is two minutes older than the last call
HitsForgotten ==
    verdict # Nobody /\ MaxDelay < Minute =>
        \A u \in User : hits[u] = Since(hits[u], verdict.t - 2 * Minute)

\* What a minute up to now needs is still there
RecentStored == \A u \in User : Since(granted[u], clock - Minute) \subseteq hits[u]

\* What AtMostLimitPerMinute needs to be kept by every step
LimiterInv == LimiterTypeOK /\ RecentStored /\ AtMostLimitPerMinute

\* The verdict is on a call that was made
VerdictKnown ==
    verdict # Nobody => verdict \in [user : User, t : Nat, limit : Limits, ok : BOOLEAN]

\* What RefusedOnlyWhenFull needs to be kept by every step
RefusalInv == VerdictKnown /\ RefusedOnlyWhenFull

\* What HitsForgotten needs: a call that got the mutex after a later one was at most
\* MaxDelay late, so that no hit is a minute older than the last sweep, and the last
\* sweep is less than a minute older than the last call
SweptInv ==
    MaxDelay < Minute =>
        /\ \A u \in User : \A hit \in hits[u] : hit.t > lastSweep - Minute
        /\ \A h \in Handler : req[h].pc = "timed" => clock - req[h].t <= MaxDelay
        /\ verdict # Nobody => verdict.t \in Nat /\ verdict.t - lastSweep < Minute
=============================================================================
