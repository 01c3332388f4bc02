---------------------------- MODULE GatewayProps ----------------------------
(***************************************************************************)
(* What the admission path of module Gateway promises.                     *)
(***************************************************************************)
EXTENDS Gateway

CONSTANTS
    MaxCost,   \* no answered request costs more
    MaxLevel,  \* no configuration allows more boosts in a cycle
    Ceiling,   \* Ceiling[n]: no limit boosted n times exceeds it
    HardCap    \* no window is ever judged against a larger limit

LimitsOf(c, u) == IF c.own[u] # NoLimits THEN {c.own[u], c.global} ELSE {c.global}

ASSUME BoundAssumption ==
    /\ MaxCost \in Nat /\ \A cost \in Cost : cost <= MaxCost
    /\ MaxLevel \in Nat /\ Ceiling \in [0 .. MaxLevel -> Nat] /\ HardCap \in Nat
    /\ \A n \in 0 .. MaxLevel : Ceiling[n] <= HardCap
    /\ \A c \in Conf :
          /\ \A u \in User, p \in Period : \A l \in LimitsOf(c, u) : l[p] <= Ceiling[0]
          /\ c.boost.enabled =>
                /\ c.boost.maxTimes \in 1 .. MaxLevel
                /\ Pct(Ceiling[0], c.boost.overage) <= HardCap
                /\ \A n \in 0 .. MaxLevel - 1 :
                      Pct(Ceiling[n], c.boost.percent) <= Ceiling[n + 1]

-----------------------------------------------------------------------------
(* Types *)

Pointer == [rev : Nat, conf : Conf]

Request ==
    {Idle}
    \cup [pc : {"authed"}, user : User, own : Limits \cup {NoLimits}]
    \cup [pc : {"wait"}, user : User, own : Limits \cup {NoLimits},
          seen : Snapshot, at : Time]
    \cup [pc : {"boost", "grant", "check"}, user : User, seen : Snapshot, at : Time,
          eff : Pointer, i : 1 .. Len(Periods), found : BoostState \cup {NoBoost},
          limits : Limits]
    \cup [pc : {"upstream"}, user : User, at : Time]
    \cup [pc : {"record"}, user : User, at : Time, cost : Cost]

ReportState ==
    {Idle}
    \cup [pc : {"read"}, user : User, seen : Snapshot, limits : Limits]
    \cup [pc : {"scan"}, user : User, seen : Snapshot, limits : Limits,
          eff : Pointer, i : 1 .. Len(Periods)]

\* The types of the variables
TypeOK == /\ clock \in Time
          /\ cfg \in Pointer
          /\ snap \in Snapshot \cup {NoSnapshot}
          /\ due \in [Period -> Nat]
          /\ spent \in [User -> [Time -> Nat]]
          /\ boost \in [User -> [Period -> BoostState \cup {NoBoost}]]
          /\ holder \in [User -> Worker \cup {Nobody}]
          /\ req \in [Worker -> Request]
          /\ rep \in [Reporter -> ReportState]

-----------------------------------------------------------------------------
(* Quotas *)

Judging(w)  == req[w].pc \in {"boost", "grant", "check"}
InFlight(u) == {w \in Worker : req[w].pc \in {"upstream", "record"} /\ req[w].user = u}

\* What u has used in window p, by the latest snapshot
CurrentStart(p) == WindowStart([resetsAt |-> due[p]], p)
UsedNow(u, p)   == UserWindowSum(u, CurrentStart(p))

\* Every configuration limits u in window p
Metered(u, p) == \A c \in Conf : \A l \in LimitsOf(c, u) : l[p] > 0

\* A limited user never gets further past the largest hard limit than the
\* requests in flight at once can cost: the check of userLimitExceeded and the
\* charge of recordUsage are apart, but each admission saw a window not yet
\* exhausted, whatever snapshot and configuration it held
OvershootBounded ==
    \A u \in User, p \in Period : Metered(u, p) =>
        UsedNow(u, p) + MaxCost * Cardinality(InFlight(u))
            < HardCap + MaxCost * Cardinality(Worker)

\* The user's lock makes the passes of userLimitExceeded one decision: a window
\* that passed is still below the largest hard limit while the later windows
\* are judged, since no charge of the same user can be recorded in between
ChecksStayTrue ==
    \A w \in Worker : req[w].pc = "check" =>
        \A j \in 1 .. req[w].i - 1 :
            req[w].limits[Periods[j]] > 0 =>
                Used(req[w].seen, req[w].user, Periods[j]) < HardCap

\* A boost state of the configuration in force was granted under its policy,
\* within its max_boost_times, and no level exceeds what so many boosts give
TiersBounded ==
    \A u \in User, p \in Period :
        LET b == boost[u][p]
        IN  b # NoBoost =>
               /\ b.level \in 1 .. b.policy.maxTimes
               /\ b.limit <= Ceiling[b.level]
               /\ b.revision <= cfg.rev
               /\ b.revision = cfg.rev => b.policy = cfg.conf.boost

\* What n boosts of a limit give
TierLimit(policy, limit) ==
    LET tier[n \in 0 .. policy.maxTimes] ==
            IF n = 0 THEN limit ELSE Pct(tier[n - 1], policy.percent)
    IN  tier

OnLadder(b) == b # NoBoost => b.limit = TierLimit(b.policy, b.baseLimit)[b.level]

\* Reloads and reports never mix two ladders: the limit of a boost state is its own
\* base limit boosted level times by its own policy, no rung skipped or counted twice
TiersExact == \A u \in User, p \in Period : OnLadder(boost[u][p])

\* A window that lets a request pass beyond its limit without boosts (the base overage,
\* where boosts are enabled) does so by a boost granted for the very cycle and
\* configuration the request is judged by
BeyondOverageNeedsLiveBoost ==
    [][\A w \in Worker :
         LET r == req[w]
             p == Periods[r.i]
         IN  /\ r.pc = "check"
             /\ req'[w] # Idle /\ req'[w] # r
             /\ r.limits[p] > 0
             /\ Used(r.seen, r.user, p) >=
                    HardLimit(r.eff.conf.boost, NoBoost, r.limits[p])
             => /\ boost[r.user][p] # NoBoost
                /\ boost[r.user][p].resetsAt = r.seen[p].resetsAt
                /\ boost[r.user][p].revision = r.eff.rev
      ]_vars

\* A request still in flight when a window rolls over is charged to the window
\* it was admitted in: it takes nothing from the new one
RolloverNotCharged ==
    [][\A w \in Worker, u \in User, p \in Period :
         /\ req[w].pc = "record" /\ req[w].user = u
         /\ req'[w] = Idle
         /\ req[w].at < CurrentStart(p)
         => UsedNow(u, p)' = UsedNow(u, p)
      ]_vars

-----------------------------------------------------------------------------
(* The inductive invariant behind the quota *)

\* Whoever judges a user's request holds that user's lock
LockHeld == \A w \in Worker : Judging(w) => holder[req[w].user] = w

\* What was charged since a later moment is part of what was charged since an earlier one
SuffixSums ==
    \A u \in User : \A s, t \in Time : s <= t => spent[u][t] <= spent[u][s]

\* A snapshot in use is not newer than the latest
SnapshotsAdvance ==
    /\ snap # NoSnapshot => \A p \in Period : snap[p].resetsAt = due[p]
    /\ \A w \in Worker : req[w].pc \in {"wait", "boost", "grant", "check"} =>
          \A p \in Period : req[w].seen[p].resetsAt <= due[p]

\* The limits a request is judged by are some configuration's limits of its user
LimitsKnown ==
    \A w \in Worker :
        /\ req[w].pc \in {"authed", "wait"} =>
              \E c \in Conf : req[w].own = c.own[req[w].user]
        /\ Judging(w) =>
              \E c \in Conf : req[w].limits \in LimitsOf(c, req[w].user)

\* A configuration once read is not newer than the current one, and the same if as new
PointersKnown ==
    \A w \in Worker : Judging(w) =>
        /\ req[w].eff.rev <= cfg.rev
        /\ req[w].eff.rev = cfg.rev => req[w].eff = cfg

\* Only a configuration that enables boosts grants one
PoliciesKnown ==
    \A u \in User, p \in Period :
        boost[u][p] # NoBoost =>
            \E c \in Conf : c.boost = boost[u][p].policy /\ c.boost.enabled

\* A boost about to be granted goes one rung above a state of the same ladder
GrantsKnown ==
    \A w \in Worker : req[w].pc = "grant" =>
        LET r == req[w]
            p == Periods[r.i]
            b == r.found
        IN  /\ r.eff.conf.boost.enabled
            /\ LevelOf(b) < r.eff.conf.boost.maxTimes
            /\ b # NoBoost => /\ b.level >= 1
                              /\ b.limit <= Ceiling[b.level]
                              /\ Honoured(b, r.seen[p].resetsAt, r.eff, r.limits[p])

\* The boosts: what a step may rely on to grant one more
TierInv == LimitsKnown /\ PointersKnown /\ PoliciesKnown /\ GrantsKnown /\ TiersBounded

\* All an admission and a charge rely on to keep the quota
QuotaInv == /\ LockHeld /\ SuffixSums /\ SnapshotsAdvance /\ TierInv
            /\ ChecksStayTrue /\ OvershootBounded

\* The boost a request has found and may build on is on its ladder, even if the entry
\* is gone by then
LadderInv == TiersExact /\ \A w \in Worker : Judging(w) => OnLadder(req[w].found)

-----------------------------------------------------------------------------
(* The passes over the windows, the lock, the snapshot and the boosts, seen from outside *)

\* A request has its ticket from the last window that let it pass until it is settled
TicketOf(r) == IF r.pc \in {"upstream", "record"} THEN [user |-> r.user, at |-> r.at]
               ELSE Idle
Tickets == [w \in Worker |-> TicketOf(req[w])]
Starts  == [p \in Period |-> CurrentStart(p)]
Limited == {up \in User \X Period : Metered(up[1], up[2])}

Abstract == INSTANCE Quota WITH
    NoTicket <- Idle, Cap <- HardCap, start <- Starts, ticket <- Tickets

\* The admission of userLimitExceeded, many steps under a lock, and the charge of
\* recordUsage behave as the two single steps of Quota do
ImplementsQuota == Abstract!Spec

-----------------------------------------------------------------------------
(* What the documentation says and the code does not do *)

\* README: concurrent requests push the spending past the limit by the amount of one
\* request at most
AtMostOneOvershoot ==
    \A u \in User, p \in Period : Metered(u, p) => UsedNow(u, p) <= HardCap + MaxCost
=============================================================================
