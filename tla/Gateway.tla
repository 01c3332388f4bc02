------------------------------ MODULE Gateway ------------------------------
(***************************************************************************)
(* The admission path of the proxy: the requests handled by Proxy.forward, *)
(* the per-user lock of userLimitExceeded and recordUsage, the in-memory   *)
(* boost states, the usage database, the balance snapshot and the hot-     *)
(* reloaded configuration they all read.                                   *)
(*                                                                         *)
(* A worker is one goroutine slot of the HTTP server: it handles requests  *)
(* one after the other, so Cardinality(Worker) is the largest number of    *)
(* requests in flight at once.  A reporter is one goroutine building a     *)
(* usage report (/v1/usage, /api/usage, /api/admin, /v1/balance).          *)
(*                                                                         *)
(* Money is counted in whole accounting units (store.cost_units); a        *)
(* percentage of an amount is rounded to a unit, as meter.USDToUnits does. *)
(***************************************************************************)
EXTENDS Integers, Sequences, FiniteSets

CONSTANTS
    User,        \* uuids
    Worker,      \* goroutines serving generation requests
    Reporter,    \* goroutines serving usage reports
    Periods,     \* config.Periods: the accounting windows, in order
    Duration,    \* length of every window
    Conf,        \* the configurations the file may hold
    Cost,        \* what one answered request may cost, in units
    Health,      \* what the upstream may report of a pool: status ok?, percent used
    NoLimits,    \* a user without limits of its own
    NoSnapshot,  \* the Syncer before its first successful fetch
    NoBoost,     \* no boost state for that user and window
    Nobody,      \* the holder of a free lock
    MaxClock,    \* bound on time
    Horizon,     \* bound on how far ahead a reset time is explored
    MaxRev,      \* bound on configuration reloads
    MaxSpent,    \* bound on what one user is charged in all
    DBReadFails  \* may a SELECT on the usage table fail?

Period == {Periods[i] : i \in 1 .. Len(Periods)}
Time   == 0 .. MaxClock
Limits == [Period -> Nat]
\* config.Boost after ApplyDefaults and validate
Policy == [enabled : BOOLEAN, overage : Nat, trigger : Nat, percent : Nat,
           poolMax : Nat, otherMax : Nat, maxTimes : Nat]

\* balance.CapInfo and balance.Snapshot
Cap      == [resetsAt : Nat, health : Health]
Snapshot == [Period -> Cap]

\* proxy.boostState
BoostState == [resetsAt : Nat, limit : Nat, level : Nat, revision : Nat,
               policy : Policy, baseLimit : Nat]

ASSUME ClockAssumption  == MaxClock \in Nat /\ MaxRev \in Nat /\ Horizon \in Nat /\ MaxSpent \in Nat
ASSUME PeriodAssumption ==
    /\ Periods \in Seq(STRING) /\ Len(Periods) >= 1
    /\ \A i, j \in 1 .. Len(Periods) : Periods[i] = Periods[j] => i = j
    /\ Duration \in [Period -> Nat \ {0}]
ASSUME ConfAssumption ==
    \A c \in Conf : /\ c.users \subseteq User
                    /\ c.global \in Limits
                    /\ c.own \in [User -> Limits \cup {NoLimits}]
                    /\ c.boost \in Policy
ASSUME CostAssumption   == /\ Cost \subseteq Nat
                           /\ Health \subseteq [ok : BOOLEAN, percent : Nat]
ASSUME FaultAssumption  == DBReadFails \in BOOLEAN
ASSUME WorkerAssumption == IsFiniteSet(Worker) /\ Nobody \notin Worker
ASSUME MarkerAssumption ==
    /\ NoLimits \notin Limits
    /\ NoSnapshot \notin Snapshot
    /\ NoBoost \notin BoostState

VARIABLES
    clock,   \* time.Now, in ticks
    cfg,     \* config.Manager.current: the content and the identity of the pointer
    snap,    \* balance.Syncer.snap
    due,     \* the reset times the balance service gave last, whoever asked
    spent,   \* the usage table: spent[u][t] is what u was charged at or after t
    boost,   \* boostTracker.m
    holder,  \* who holds the mutex lockFor returns for a user
    req,     \* the request each worker is handling, and how far it has come
    rep      \* the report each reporter is building

vars == <<clock, cfg, snap, due, spent, boost, holder, req, rep>>

-----------------------------------------------------------------------------
(* Amounts, windows and limits *)

\* meter.USDToUnits(amount * percent / 100): rounded to the nearest unit
Pct(amount, percent) == (2 * amount * percent + 100) \div 200

\* CapInfo.WindowStart; nothing is recorded before time 0
WindowStart(cap, p) ==
    IF cap.resetsAt > Duration[p] THEN cap.resetsAt - Duration[p] ELSE 0

\* CapInfo.Exceeded
Exceeded(cap) == cap.health.percent >= 100 \/ ~cap.health.ok

\* poolExceeded
PoolExceeded(s) == \E p \in Period : Exceeded(s[p])

\* Config.EffectiveLimits, for a user found in an earlier configuration
EffectiveLimits(c, own) == IF own # NoLimits THEN own ELSE c.global

\* Store.UserWindowSum(u, since): no upper end to the window
UserWindowSum(u, since) == IF since \in Time THEN spent[u][since] ELSE 0

\* What the snapshot s lets u's requests count in window p
Used(s, u, p) == UserWindowSum(u, WindowStart(s[p], p))

-----------------------------------------------------------------------------
(* boostTracker *)

\* Mutant: an entry outlives a reload
HonouredAnyConf(b, resetsAt, c, limit) ==
    b # NoBoost /\ b.resetsAt = resetsAt /\ b.limit > 0

\* Mutant: an entry outlives its cycle
HonouredAnyCycle(b, resetsAt, c, limit) ==
    /\ b # NoBoost /\ b.limit > 0
    /\ b.revision = c.rev /\ b.policy = c.conf.boost /\ b.baseLimit = limit

\* boostTracker.state honours an entry of this cycle, configuration and limit only
Honoured(b, resetsAt, c, limit) ==
    /\ b # NoBoost
    /\ b.resetsAt = resetsAt
    /\ b.limit > 0
    /\ b.revision = c.rev
    /\ b.policy = c.conf.boost
    /\ b.baseLimit = limit

\* boostTracker.state deletes an entry it does not honour
StateOf(b, resetsAt, c, limit) ==
    IF Honoured(b, resetsAt, c, limit) THEN b ELSE NoBoost

BaseOf(b, limit) == IF b # NoBoost THEN b.limit ELSE limit
LevelOf(b)       == IF b # NoBoost THEN b.level ELSE 0

\* The entry boostTracker.mark writes when the tier above b is granted
NextTier(b, resetsAt, c, limit) ==
    [resetsAt |-> resetsAt, limit |-> Pct(BaseOf(b, limit), c.conf.boost.percent),
     level |-> LevelOf(b) + 1, revision |-> c.rev, policy |-> c.conf.boost,
     baseLimit |-> limit]

\* Mutant: max_boost_times is not looked at
MayBoostUncapped(u, p, b, policy, limits, s, used, unread) ==
    /\ used >= Pct(BaseOf(b, limits[p]), policy.trigger)
    /\ s[p].health.ok /\ s[p].health.percent < policy.poolMax
    /\ \A q \in Period \ ({p} \cup unread) :
          limits[q] > 0 => Used(s, u, q) < Pct(limits[q], policy.otherMax)

\* The conditions of maybeBoostLocked; the windows in unread could not be queried
MayBoost(u, p, b, policy, limits, s, used, unread) ==
    /\ ~(policy.maxTimes > 0 /\ LevelOf(b) >= policy.maxTimes)
    /\ used >= Pct(BaseOf(b, limits[p]), policy.trigger)
    /\ s[p].health.ok /\ s[p].health.percent < policy.poolMax
    /\ \A q \in Period \ ({p} \cup unread) :
          limits[q] > 0 => Used(s, u, q) < Pct(limits[q], policy.otherMax)

\* hardLimitFor, b being what boostTracker.state returned
HardLimit(policy, b, limit) ==
    IF ~policy.enabled THEN limit
    ELSE IF b # NoBoost THEN b.limit
    ELSE Pct(limit, policy.overage)

-----------------------------------------------------------------------------
(* Initial state *)

Idle == [pc |-> "idle"]

Init == /\ clock = 0
        /\ cfg \in [rev : {0}, conf : Conf]
        /\ snap = NoSnapshot
        /\ due = [p \in Period |-> 0]
        /\ spent = [u \in User |-> [t \in Time |-> 0]]
        /\ boost = [u \in User |-> [p \in Period |-> NoBoost]]
        /\ holder = [u \in User |-> Nobody]
        /\ req = [w \in Worker |-> Idle]
        /\ rep = [k \in Reporter |-> Idle]

-----------------------------------------------------------------------------
(* The environment: time, the configuration file, the upstream balance *)

Tick == /\ clock < MaxClock
        /\ clock' = clock + 1
        /\ UNCHANGED <<cfg, snap, due, spent, boost, holder, req, rep>>

\* Manager.Reload with a valid file: a new pointer, whatever it holds
Reload == /\ cfg.rev < MaxRev
          /\ \E c \in Conf : cfg' = [rev |-> cfg.rev + 1, conf |-> c]
          /\ UNCHANGED <<clock, snap, due, spent, boost, holder, req, rep>>

\* The upstream moves a reset time only once it has passed
NextReset(p, r) ==
    /\ r > clock
    /\ r <= clock + Duration[p]
    /\ r = due[p] \/ due[p] <= clock

\* Syncer.fetch, successful: the three caps are replaced together
Refresh == /\ \E resets \in [Period -> clock + 1 .. clock + Horizon],
                 health \in [Period -> Health] :
                 /\ \A p \in Period : NextReset(p, resets[p])
                 /\ snap' = [p \in Period |-> [resetsAt |-> resets[p], health |-> health[p]]]
                 /\ due' = resets
           /\ UNCHANGED <<clock, cfg, spent, boost, holder, req, rep>>

\* The process ends, by a crash or a signal, and is started again.  A shutdown is no
\* better: main closes the database and returns while handlers still run.  Only what is
\* in the usage table survives
Restart == /\ cfg' \in [rev : {0}, conf : Conf]
           /\ snap' = NoSnapshot
           /\ boost' = [u \in User |-> [p \in Period |-> NoBoost]]
           /\ holder' = [u \in User |-> Nobody]
           /\ req' = [w \in Worker |-> Idle]
           /\ rep' = [k \in Reporter |-> Idle]
           /\ UNCHANGED <<clock, due, spent>>

-----------------------------------------------------------------------------
(* A generation request: Proxy.forward *)

\* authUser: the user comes from the configuration of this moment
Authenticate(w, u) ==
    /\ req[w].pc = "idle"
    /\ u \in cfg.conf.users
    /\ req' = [req EXCEPT ![w] = [pc |-> "authed", user |-> u, own |-> cfg.conf.own[u]]]
    /\ UNCHANGED <<clock, cfg, snap, due, spent, boost, holder, rep>>

\* Refused for what is not modelled here: frequency, size, body, model, price;
\* or because the balance is unknown, or the pool is exhausted
Refuse(w) ==
    /\ req[w].pc = "authed"
    /\ req' = [req EXCEPT ![w] = Idle]
    /\ UNCHANGED <<clock, cfg, snap, due, spent, boost, holder, rep>>

\* The snapshot and the time this request is judged, and later charged, by
ReadSnapshot(w) ==
    /\ req[w].pc = "authed"
    /\ snap # NoSnapshot
    /\ ~PoolExceeded(snap)
    /\ req' = [req EXCEPT ![w] = [pc |-> "wait", user |-> req[w].user, own |-> req[w].own,
                                  seen |-> snap, at |-> clock]]
    /\ UNCHANGED <<clock, cfg, snap, due, spent, boost, holder, rep>>

\* Mutant: the passes run without mutual exclusion
LockShared(w) ==
    /\ req[w].pc = "wait"
    /\ holder' = [holder EXCEPT ![req[w].user] = w]
    /\ req' = [req EXCEPT ![w] =
                  [pc |-> "boost", user |-> req[w].user, seen |-> req[w].seen,
                   at |-> req[w].at, eff |-> cfg, i |-> 1,
                   found |-> NoBoost, limits |-> EffectiveLimits(cfg.conf, req[w].own)]]
    /\ UNCHANGED <<clock, cfg, snap, due, spent, boost, rep>>

\* userLimitExceeded takes the user's lock, then reads the configuration again
Lock(w) ==
    /\ req[w].pc = "wait"
    /\ holder[req[w].user] = Nobody
    /\ holder' = [holder EXCEPT ![req[w].user] = w]
    /\ req' = [req EXCEPT ![w] =
                  [pc |-> "boost", user |-> req[w].user, seen |-> req[w].seen,
                   at |-> req[w].at, eff |-> cfg, i |-> 1,
                   found |-> NoBoost, limits |-> EffectiveLimits(cfg.conf, req[w].own)]]
    /\ UNCHANGED <<clock, cfg, snap, due, spent, boost, rep>>

\* Mutant: one window too many
PassedLate(r, next) == IF r.i <= Len(Periods) THEN [r EXCEPT !.i = r.i + 1] ELSE next

\* A pass goes on to the next window, or to what follows the last
Passed(r, next) == IF r.i < Len(Periods) THEN [r EXCEPT !.i = r.i + 1] ELSE next

Checking(r) == [r EXCEPT !.pc = "check", !.i = 1, !.found = NoBoost]

\* First pass, one window: maybeBoostLocked reads the boost state, and gives up or goes on
BoostPeriod(w) ==
    LET r == req[w]
        u == r.user
        p == Periods[r.i]
        b == StateOf(boost[u][p], r.seen[p].resetsAt, r.eff, r.limits[p])
    IN  /\ r.pc = "boost"
        /\ \/ /\ r.limits[p] = 0 \/ ~r.eff.conf.boost.enabled \/ DBReadFails
              /\ UNCHANGED boost
              /\ req' = [req EXCEPT ![w] = Passed(r, Checking(r))]
           \/ /\ r.limits[p] > 0
              /\ r.eff.conf.boost.enabled
              /\ boost' = [boost EXCEPT ![u][p] = b]
              /\ \E unread \in IF DBReadFails THEN SUBSET Period ELSE {{}} :
                    req' = [req EXCEPT ![w] =
                       IF MayBoost(u, p, b, r.eff.conf.boost, r.limits, r.seen,
                                   Used(r.seen, u, p), unread)
                         THEN [r EXCEPT !.pc = "grant", !.found = b]
                         ELSE Passed(r, Checking(r))]
        /\ UNCHANGED <<clock, cfg, snap, due, spent, holder, rep>>

\* boostTracker.mark: the tier above the one found is granted, and a report may
\* have touched the boost state since it was read
Grant(w) ==
    LET r == req[w]
        p == Periods[r.i]
    IN  /\ r.pc = "grant"
        /\ boost' = [boost EXCEPT ![r.user][p] =
                        NextTier(r.found, r.seen[p].resetsAt, r.eff, r.limits[p])]
        /\ req' = [req EXCEPT ![w] =
                      Passed([r EXCEPT !.pc = "boost", !.found = NoBoost], Checking(r))]
        /\ UNCHANGED <<clock, cfg, snap, due, spent, holder, rep>>

\* Mutant: a window used up exactly still lets a request pass
ExhaustedStrict(r, p, b) ==
    Used(r.seen, r.user, p) > HardLimit(r.eff.conf.boost, b, r.limits[p])

\* Is window p of request r exhausted?  b is the boost state it finds
Exhausted(r, p, b) ==
    Used(r.seen, r.user, p) >= HardLimit(r.eff.conf.boost, b, r.limits[p])

\* The deferred Unlock of userLimitExceeded
Unlock(u) == holder' = [holder EXCEPT ![u] = Nobody]

\* Second pass, one window: the window is unlimited, unreadable or not exhausted.
\* After the last one the lock is released and the request goes upstream
PassPeriod(w) ==
    LET r == req[w]
        u == r.user
        p == Periods[r.i]
        b == StateOf(boost[u][p], r.seen[p].resetsAt, r.eff, r.limits[p])
    IN  /\ r.pc = "check"
        /\ \/ /\ r.limits[p] = 0 \/ DBReadFails
              /\ UNCHANGED boost
           \/ /\ r.limits[p] > 0
              /\ ~Exhausted(r, p, b)
              /\ boost' = IF r.eff.conf.boost.enabled
                            THEN [boost EXCEPT ![u][p] = b] ELSE boost
        /\ req' = [req EXCEPT ![w] =
                      Passed(r, [pc |-> "upstream", user |-> u, at |-> r.at])]
        /\ IF r.i < Len(Periods) THEN UNCHANGED holder ELSE Unlock(u)
        /\ UNCHANGED <<clock, cfg, snap, due, spent, rep>>

\* Second pass, one window: the window is exhausted, 429
RejectPeriod(w) ==
    LET r == req[w]
        u == r.user
        p == Periods[r.i]
        b == StateOf(boost[u][p], r.seen[p].resetsAt, r.eff, r.limits[p])
    IN  /\ r.pc = "check"
        /\ r.limits[p] > 0
        /\ Exhausted(r, p, b)
        /\ boost' = IF r.eff.conf.boost.enabled
                      THEN [boost EXCEPT ![u][p] = b] ELSE boost
        /\ req' = [req EXCEPT ![w] = Idle]
        /\ Unlock(u)
        /\ UNCHANGED <<clock, cfg, snap, due, spent, rep>>

\* The upstream was never reached, failed, or answered without a usage:
\* the request ends and nothing is charged
EndUncharged(w) ==
    /\ req[w].pc = "upstream"
    /\ req' = [req EXCEPT ![w] = Idle]
    /\ UNCHANGED <<clock, cfg, snap, due, spent, boost, holder, rep>>

\* The upstream answered with a usage, worth cost units
Answer(w) ==
    /\ req[w].pc = "upstream"
    /\ \E cost \in Cost :
          /\ spent[req[w].user][0] + cost <= MaxSpent
          /\ req' = [req EXCEPT ![w] = [pc |-> "record", user |-> req[w].user,
                                        at |-> req[w].at, cost |-> cost]]
    /\ UNCHANGED <<clock, cfg, snap, due, spent, boost, holder, rep>>

\* Mutant: a charge is stamped when it is recorded
ChargedNow(u, cost, at) ==
    [spent EXCEPT ![u] = [t \in Time |-> IF t <= clock THEN spent[u][t] + cost
                                                       ELSE spent[u][t]]]

\* The usage table after u was charged cost at time at
Charged(u, cost, at) ==
    [spent EXCEPT ![u] = [t \in Time |-> IF t <= at THEN spent[u][t] + cost
                                                    ELSE spent[u][t]]]

\* Mutant: the charge does not wait for the lock
RecordUsageUnlocked(w) ==
    LET r == req[w]
    IN  /\ r.pc = "record"
        /\ spent' \in {Charged(r.user, r.cost, r.at), spent}
        /\ req' = [req EXCEPT ![w] = Idle]
        /\ UNCHANGED <<clock, cfg, snap, due, boost, holder, rep>>

\* recordUsage under the user's lock; a failed INSERT is logged and forgotten
RecordUsage(w) ==
    LET r == req[w]
    IN  /\ r.pc = "record"
        /\ holder[r.user] = Nobody
        /\ spent' \in {Charged(r.user, r.cost, r.at), spent}
        /\ req' = [req EXCEPT ![w] = Idle]
        /\ UNCHANGED <<clock, cfg, snap, due, boost, holder, rep>>

-----------------------------------------------------------------------------
(* A usage report: windowsReport.  It takes no user lock *)

\* The caller reads the configuration, the user's limits and the snapshot
ReportRead(k, u) ==
    /\ rep[k].pc = "idle"
    /\ snap # NoSnapshot
    /\ u \in cfg.conf.users
    /\ rep' = [rep EXCEPT ![k] =
                  [pc |-> "read", user |-> u, seen |-> snap,
                   limits |-> EffectiveLimits(cfg.conf, cfg.conf.own[u])]]
    /\ UNCHANGED <<clock, cfg, snap, due, spent, boost, holder, req>>

\* windowsReport itself reads the configuration again
ReportConfig(k) ==
    /\ rep[k].pc = "read"
    /\ rep' = [rep EXCEPT ![k] =
                  [pc |-> "scan", user |-> rep[k].user, seen |-> rep[k].seen,
                   limits |-> rep[k].limits, eff |-> cfg, i |-> 1]]
    /\ UNCHANGED <<clock, cfg, snap, due, spent, boost, holder, req>>

\* One window of the report: boostTracker.state cleans up as it reads
ReportPeriod(k) ==
    LET r == rep[k]
        p == Periods[r.i]
    IN  /\ r.pc = "scan"
        /\ boost' = IF r.limits[p] > 0 /\ r.eff.conf.boost.enabled
                      THEN [boost EXCEPT ![r.user][p] =
                               StateOf(@, r.seen[p].resetsAt, r.eff, r.limits[p])]
                      ELSE boost
        /\ rep' = [rep EXCEPT ![k] = Passed(r, Idle)]
        /\ UNCHANGED <<clock, cfg, snap, due, spent, holder, req>>

-----------------------------------------------------------------------------

Step(w) == \/ \E u \in User : Authenticate(w, u)
           \/ Refuse(w)
           \/ ReadSnapshot(w)
           \/ Lock(w)
           \/ BoostPeriod(w)
           \/ Grant(w)
           \/ PassPeriod(w)
           \/ RejectPeriod(w)
           \/ EndUncharged(w)
           \/ Answer(w)
           \/ RecordUsage(w)

Report(k) == \/ \E u \in User : ReportRead(k, u)
             \/ ReportConfig(k)
             \/ ReportPeriod(k)

Next == \/ Tick
        \/ Reload
        \/ Refresh
        \/ Restart
        \/ \E w \in Worker : Step(w)
        \/ \E k \in Reporter : Report(k)

Spec == Init /\ [][Next]_vars
=============================================================================
