--------------------------- MODULE GatewayProofs ----------------------------
(***************************************************************************)
(* Proofs about the admission path, for every set of users and workers,    *)
(* every list of windows and every set of configurations.                  *)
(***************************************************************************)
EXTENDS GatewayProps, Induction, FiniteSetTheorems, TLAPS

(* Rounding a percentage of an amount gives an amount, and a larger amount *)
(* gives no less: what the bounds on limits are carried over boosts with.  *)
LEMMA PctType == \A a, x \in Nat : Pct(a, x) \in Nat
<1> TAKE a, x \in Nat
<1>1. 2 * a * x + 100 \in Nat
  OBVIOUS
<1> DEFINE m == 2 * a * x + 100
<1>2. \A k \in Nat : k \div 200 \in Nat
  OBVIOUS
<1>3. QED
  BY <1>1, <1>2 DEF Pct

LEMMA PctMonotone ==
    ASSUME NEW a \in Nat, NEW b \in Nat, NEW x \in Nat, a <= b
    PROVE  Pct(a, x) <= Pct(b, x)
<1>1. 2 * a * x <= 2 * b * x
  <2>1. PICK d \in Nat : b = a + d
    <3>1. b - a \in Nat /\ b = a + (b - a)
      OBVIOUS
    <3>2. QED
      BY <3>1
  <2>2. 2 * b * x = 2 * a * x + 2 * d * x
    BY <2>1
  <2>3. 2 * d * x \in Nat /\ 2 * a * x \in Nat
    OBVIOUS
  <2>4. QED
    BY <2>2, <2>3
<1>2. 2 * a * x \in Nat /\ 2 * b * x \in Nat
  OBVIOUS
<1>3. \A k, l \in Nat : k <= l => (k + 100) \div 200 <= (l + 100) \div 200
  OBVIOUS
<1>4. QED
  BY <1>1, <1>2, <1>3 DEF Pct

-----------------------------------------------------------------------------
(* The types of what the handlers compute *)

LEMMA PeriodType == \A i \in 1 .. Len(Periods) : Periods[i] \in Period
BY DEF Period

\* A limit of a known configuration, whoever it is asked for
LEMMA LimitsType ==
    ASSUME NEW c \in Conf, NEW own \in Limits \cup {NoLimits}
    PROVE  EffectiveLimits(c, own) \in Limits
BY ConfAssumption DEF EffectiveLimits

LEMMA OwnType ==
    ASSUME NEW c \in Conf, NEW u \in User
    PROVE  c.own[u] \in Limits \cup {NoLimits}
BY ConfAssumption

LEMMA StateOfType ==
    ASSUME NEW b \in BoostState \cup {NoBoost}, NEW r, NEW c, NEW l
    PROVE  StateOf(b, r, c, l) \in BoostState \cup {NoBoost}
BY DEF StateOf

LEMMA NextTierType ==
    ASSUME NEW b \in BoostState \cup {NoBoost}, NEW r \in Nat,
           NEW c \in Pointer, NEW l \in Nat
    PROVE  NextTier(b, r, c, l) \in BoostState
<1>1. BaseOf(b, l) \in Nat /\ LevelOf(b) \in Nat
  BY DEF BaseOf, LevelOf, BoostState
<1>2. c.conf.boost \in Policy /\ c.rev \in Nat
  BY ConfAssumption DEF Pointer
<1>3. c.conf.boost.percent \in Nat
  BY <1>2 DEF Policy
<1>4. Pct(BaseOf(b, l), c.conf.boost.percent) \in Nat
  BY <1>1, <1>3, PctType
<1>5. QED
  BY <1>1, <1>2, <1>4 DEF NextTier, BoostState

\* A request that is being judged: what it holds is well typed
JudgedRequest ==
    [pc : {"boost", "grant", "check"}, user : User, seen : Snapshot, at : Time,
     eff : Pointer, i : 1 .. Len(Periods), found : BoostState \cup {NoBoost},
     limits : Limits]

LEMMA JudgedType ==
    ASSUME NEW r \in Request, r.pc \in {"boost", "grant", "check"}
    PROVE  r \in JudgedRequest
BY DEF Request, JudgedRequest, Idle

\* What the other requests hold, by how far they have come
LEMMA RequestFields ==
    ASSUME NEW r \in Request
    PROVE  /\ r.pc = "authed" => r.user \in User /\ r.own \in Limits \cup {NoLimits}
           /\ r.pc = "wait" => /\ r.user \in User /\ r.own \in Limits \cup {NoLimits}
                              /\ r.seen \in Snapshot /\ r.at \in Time
           /\ r.pc = "upstream" => r.user \in User /\ r.at \in Time
           /\ r.pc = "record" => r.user \in User /\ r.at \in Time /\ r.cost \in Cost
<1>1. CASE r = Idle
  BY <1>1 DEF Idle
<1>2. CASE r # Idle
  BY <1>2 DEF Request
<1>3. QED
  BY <1>1, <1>2

LEMMA JudgedPeriod ==
    ASSUME NEW r \in JudgedRequest
    PROVE  /\ Periods[r.i] \in Period
           /\ r.user \in User
           /\ r.seen[Periods[r.i]].resetsAt \in Nat
           /\ r.limits[Periods[r.i]] \in Nat
           /\ r.eff \in Pointer
           /\ r.i \in 1 .. Len(Periods)
           /\ r.found \in BoostState \cup {NoBoost}
<1>1. r.i \in 1 .. Len(Periods) /\ r.user \in User /\ r.seen \in Snapshot
      /\ r.limits \in Limits /\ r.eff \in Pointer
      /\ r.found \in BoostState \cup {NoBoost}
  BY DEF JudgedRequest
<1>2. Periods[r.i] \in Period
  BY <1>1, PeriodType
<1>3. QED
  BY <1>1, <1>2 DEF Snapshot, Cap, Limits

\* What becomes of a judged request when its window is done
LEMMA PassedType ==
    ASSUME NEW r \in JudgedRequest, NEW next \in Request
    PROVE  Passed(r, next) \in Request
<1>1. CASE r.i < Len(Periods)
  <2>1. r.i + 1 \in 1 .. Len(Periods)
    BY <1>1, PeriodAssumption DEF JudgedRequest
  <2>2. [r EXCEPT !.i = r.i + 1] \in JudgedRequest
    BY <2>1 DEF JudgedRequest
  <2>3. QED
    BY <1>1, <2>2 DEF Passed, Request, JudgedRequest
<1>2. CASE ~(r.i < Len(Periods))
  BY <1>2 DEF Passed
<1>3. QED
  BY <1>1, <1>2

\* After its last window a judged request turns to the second pass
LEMMA CheckingType ==
    ASSUME NEW r \in JudgedRequest
    PROVE  Checking(r) \in JudgedRequest /\ Checking(r) \in Request
<1>1. 1 \in 1 .. Len(Periods)
  BY PeriodAssumption
<1>2. Checking(r) \in JudgedRequest
  BY <1>1 DEF Checking, JudgedRequest
<1>3. QED
  BY <1>2 DEF Request, JudgedRequest

\* A judged request that keeps its window and changes its step and the state it found
LEMMA FoundType ==
    ASSUME NEW r \in JudgedRequest, NEW pc \in {"boost", "grant"},
           NEW b \in BoostState \cup {NoBoost}
    PROVE  /\ [r EXCEPT !.pc = pc, !.found = b] \in JudgedRequest
           /\ [r EXCEPT !.pc = pc, !.found = b] \in Request
<1>1. [r EXCEPT !.pc = pc, !.found = b] \in JudgedRequest
  BY DEF JudgedRequest
<1>2. QED
  BY <1>1 DEF Request, JudgedRequest

LEMMA BoostUpdateType ==
    ASSUME TypeOK, NEW u \in User, NEW p \in Period,
           NEW b \in BoostState \cup {NoBoost}
    PROVE  [boost EXCEPT ![u][p] = b] \in [User -> [Period -> BoostState \cup {NoBoost}]]
BY DEF TypeOK

LEMMA ChargedType ==
    ASSUME TypeOK, NEW u \in User, NEW cost \in Nat, NEW at \in Time
    PROVE  Charged(u, cost, at) \in [User -> [Time -> Nat]]
BY DEF TypeOK, Charged

-----------------------------------------------------------------------------
(* Type correctness *)

LEMMA InitType == Init => TypeOK
<1> SUFFICES ASSUME Init PROVE TypeOK
  OBVIOUS
<1>1. 0 \in Time
  BY ClockAssumption DEF Time
<1>2. Idle \in Request /\ Idle \in ReportState
  BY DEF Request, ReportState
<1>3. QED
  BY <1>1, <1>2 DEF Init, TypeOK, Pointer

LEMMA NextType == TypeOK /\ [Next]_vars => TypeOK'
<1> SUFFICES ASSUME TypeOK, [Next]_vars PROVE TypeOK'
  OBVIOUS
<1> USE DEF TypeOK
<1>idle. Idle \in Request /\ Idle \in ReportState
  BY DEF Request, ReportState
<1>1. CASE Tick
  BY <1>1, ClockAssumption DEF Tick, Time
<1>2. CASE Reload
  BY <1>2 DEF Reload, Pointer
<1>3. CASE Refresh
  <2>1. PICK resets \in [Period -> clock + 1 .. clock + Horizon],
             health \in [Period -> Health] :
           snap' = [p \in Period |-> [resetsAt |-> resets[p], health |-> health[p]]]
    BY <1>3 DEF Refresh
  <2>2. \A p \in Period : resets[p] \in Nat
    BY ClockAssumption DEF Time
  <2>3. snap' \in Snapshot
    BY <2>1, <2>2 DEF Snapshot, Cap
  <2>4. due' \in [Period -> Nat]
    BY <1>3, ClockAssumption DEF Refresh, Time
  <2>5. QED
    BY <1>3, <2>3, <2>4 DEF Refresh
<1>restart. CASE Restart
  BY <1>restart, <1>idle DEF Restart, Pointer
<1>4. ASSUME NEW w \in Worker, NEW u \in User, Authenticate(w, u) PROVE TypeOK'
  <2>1. cfg.conf.own[u] \in Limits \cup {NoLimits}
    BY OwnType DEF Pointer
  <2>2. [pc |-> "authed", user |-> u, own |-> cfg.conf.own[u]] \in Request
    BY <2>1 DEF Request
  <2>3. QED
    BY <1>4, <2>2 DEF Authenticate
<1>5. ASSUME NEW w \in Worker, Refuse(w) PROVE TypeOK'
  BY <1>5, <1>idle DEF Refuse
<1>6. ASSUME NEW w \in Worker, ReadSnapshot(w) PROVE TypeOK'
  <2>1. req[w].user \in User /\ req[w].own \in Limits \cup {NoLimits}
    BY <1>6, RequestFields DEF ReadSnapshot
  <2>2. snap \in Snapshot
    BY <1>6 DEF ReadSnapshot
  <2>3. [pc |-> "wait", user |-> req[w].user, own |-> req[w].own,
         seen |-> snap, at |-> clock] \in Request
    BY <2>1, <2>2 DEF Request
  <2>4. QED
    BY <1>6, <2>3 DEF ReadSnapshot
<1>7. ASSUME NEW w \in Worker, Lock(w) PROVE TypeOK'
  <2>1. /\ req[w].user \in User /\ req[w].own \in Limits \cup {NoLimits}
        /\ req[w].seen \in Snapshot /\ req[w].at \in Time
    BY <1>7, RequestFields DEF Lock
  <2>2. EffectiveLimits(cfg.conf, req[w].own) \in Limits
    BY <2>1, LimitsType DEF Pointer
  <2>3. 1 \in 1 .. Len(Periods)
    BY PeriodAssumption
  <2>4. [pc |-> "boost", user |-> req[w].user, seen |-> req[w].seen,
         at |-> req[w].at, eff |-> cfg, i |-> 1, found |-> NoBoost,
         limits |-> EffectiveLimits(cfg.conf, req[w].own)] \in Request
    BY <2>1, <2>2, <2>3 DEF Request
  <2>5. QED
    BY <1>7, <2>1, <2>4 DEF Lock
<1>8. ASSUME NEW w \in Worker, BoostPeriod(w) PROVE TypeOK'
  <2> DEFINE r == req[w]
             p == Periods[r.i]
             b == StateOf(boost[r.user][p], r.seen[p].resetsAt, r.eff, r.limits[p])
             go == [r EXCEPT !.pc = "grant", !.found = b]
  <2>1. r \in JudgedRequest
    BY <1>8, JudgedType DEF BoostPeriod
  <2>2. p \in Period /\ r.user \in User
    BY <2>1, JudgedPeriod
  <2>3. b \in BoostState \cup {NoBoost}
    BY <2>2, StateOfType
  <2>4. [boost EXCEPT ![r.user][p] = b] \in [User -> [Period -> BoostState \cup {NoBoost}]]
    BY <2>2, <2>3, BoostUpdateType
  <2>5. boost' \in [User -> [Period -> BoostState \cup {NoBoost}]]
    BY <1>8, <2>4 DEF BoostPeriod
  <2>6. Passed(r, Checking(r)) \in Request
    BY <2>1, CheckingType, PassedType
  <2>7. go \in Request
    BY <2>1, <2>3, FoundType
  <2>8. req' = [req EXCEPT ![w] = Passed(r, Checking(r))] \/ req' = [req EXCEPT ![w] = go]
    BY <1>8 DEF BoostPeriod
  <2>9. req' \in [Worker -> Request]
    BY <2>6, <2>7, <2>8
  <2>10. QED
    BY <1>8, <2>5, <2>9 DEF BoostPeriod
<1>grant. ASSUME NEW w \in Worker, Grant(w) PROVE TypeOK'
  <2> DEFINE r == req[w]
             p == Periods[r.i]
             n == NextTier(r.found, r.seen[p].resetsAt, r.eff, r.limits[p])
             on == [r EXCEPT !.pc = "boost", !.found = NoBoost]
  <2>1. r \in JudgedRequest
    BY <1>grant, JudgedType DEF Grant
  <2>2. p \in Period /\ r.user \in User
    BY <2>1, JudgedPeriod
  <2>3. n \in BoostState
    BY <2>1, NextTierType, JudgedPeriod
  <2>4. [boost EXCEPT ![r.user][p] = n] \in [User -> [Period -> BoostState \cup {NoBoost}]]
    BY <2>2, <2>3, BoostUpdateType
  <2>5. on \in JudgedRequest
    BY <2>1, FoundType
  <2>6. Passed(on, Checking(r)) \in Request
    BY <2>1, <2>5, CheckingType, PassedType
  <2>7. QED
    BY <1>grant, <2>4, <2>6 DEF Grant
<1>9. ASSUME NEW w \in Worker, PassPeriod(w) \/ RejectPeriod(w) PROVE TypeOK'
  <2> DEFINE r == req[w]
             p == Periods[r.i]
             b == StateOf(boost[r.user][p], r.seen[p].resetsAt, r.eff, r.limits[p])
             up == [pc |-> "upstream", user |-> r.user, at |-> r.at]
  <2>1. r \in JudgedRequest
    BY <1>9, JudgedType DEF PassPeriod, RejectPeriod
  <2>2. p \in Period /\ r.user \in User /\ r.at \in Time
    BY <2>1, JudgedPeriod DEF JudgedRequest
  <2>3. b \in BoostState \cup {NoBoost}
    BY <2>2, StateOfType
  <2>4. [boost EXCEPT ![r.user][p] = b]
           \in [User -> [Period -> BoostState \cup {NoBoost}]]
    BY <2>2, <2>3, BoostUpdateType
  <2>5. boost' \in [User -> [Period -> BoostState \cup {NoBoost}]]
    BY <1>9, <2>4 DEF PassPeriod, RejectPeriod
  <2>6. up \in Request
    BY <2>2 DEF Request
  <2>7. Passed(r, up) \in Request
    BY <2>1, <2>6, PassedType
  <2>8. req' \in [Worker -> Request]
    BY <1>9, <1>idle, <2>7 DEF PassPeriod, RejectPeriod
  <2>9. holder' \in [User -> Worker \cup {Nobody}]
    BY <1>9 DEF PassPeriod, RejectPeriod, Unlock
  <2>10. QED
    BY <1>9, <2>5, <2>8, <2>9 DEF PassPeriod, RejectPeriod
<1>10. ASSUME NEW w \in Worker, EndUncharged(w) PROVE TypeOK'
  BY <1>10, <1>idle DEF EndUncharged
<1>11. ASSUME NEW w \in Worker, Answer(w) PROVE TypeOK'
  <2>1. req[w].user \in User /\ req[w].at \in Time
    BY <1>11, RequestFields DEF Answer
  <2>2. \A cost \in Cost : [pc |-> "record", user |-> req[w].user,
                            at |-> req[w].at, cost |-> cost] \in Request
    BY <2>1 DEF Request
  <2>3. QED
    BY <1>11, <2>2 DEF Answer
<1>12. ASSUME NEW w \in Worker, RecordUsage(w) PROVE TypeOK'
  <2>1. req[w].user \in User /\ req[w].at \in Time /\ req[w].cost \in Nat
    BY <1>12, RequestFields, CostAssumption DEF RecordUsage
  <2> DEFINE charged == Charged(req[w].user, req[w].cost, req[w].at)
  <2>2. charged \in [User -> [Time -> Nat]]
    BY <2>1, ChargedType
  <2>4. spent' = charged \/ spent' = spent
    BY <1>12 DEF RecordUsage
  <2>3. QED
    BY <1>12, <1>idle, <2>2, <2>4 DEF RecordUsage
<1>13. ASSUME NEW k \in Reporter, NEW u \in User, ReportRead(k, u) PROVE TypeOK'
  <2>1. EffectiveLimits(cfg.conf, cfg.conf.own[u]) \in Limits
    BY OwnType, LimitsType DEF Pointer
  <2>2. snap \in Snapshot
    BY <1>13 DEF ReportRead
  <2>3. [pc |-> "read", user |-> u, seen |-> snap,
         limits |-> EffectiveLimits(cfg.conf, cfg.conf.own[u])] \in ReportState
    BY <2>1, <2>2 DEF ReportState
  <2>4. QED
    BY <1>13, <2>3 DEF ReportRead
<1>14. ASSUME NEW k \in Reporter, ReportConfig(k) PROVE TypeOK'
  <2>1. rep[k].user \in User /\ rep[k].seen \in Snapshot /\ rep[k].limits \in Limits
    BY <1>14 DEF ReportConfig, ReportState, Idle
  <2>2. 1 \in 1 .. Len(Periods)
    BY PeriodAssumption
  <2>3. [pc |-> "scan", user |-> rep[k].user, seen |-> rep[k].seen,
         limits |-> rep[k].limits, eff |-> cfg, i |-> 1] \in ReportState
    BY <2>1, <2>2 DEF ReportState
  <2>4. QED
    BY <1>14, <2>3 DEF ReportConfig
<1>15. ASSUME NEW k \in Reporter, ReportPeriod(k) PROVE TypeOK'
  <2> DEFINE r == rep[k]
             p == Periods[r.i]
             b == StateOf(boost[r.user][p], r.seen[p].resetsAt, r.eff, r.limits[p])
  <2>1. r \in [pc : {"scan"}, user : User, seen : Snapshot, limits : Limits,
                eff : Pointer, i : 1 .. Len(Periods)]
    BY <1>15 DEF ReportPeriod, ReportState, Idle
  <2>2. p \in Period /\ r.user \in User
    BY <2>1, PeriodType
  <2>3. b \in BoostState \cup {NoBoost}
    BY <2>2, StateOfType
  <2>4. [boost EXCEPT ![r.user][p] = b]
           \in [User -> [Period -> BoostState \cup {NoBoost}]]
    BY <2>2, <2>3, BoostUpdateType
  <2>5. [boost EXCEPT ![r.user][p] = StateOf(@, r.seen[p].resetsAt, r.eff, r.limits[p])]
          = [boost EXCEPT ![r.user][p] = b]
    OBVIOUS
  <2>6. boost' \in [User -> [Period -> BoostState \cup {NoBoost}]]
    BY <1>15, <2>4, <2>5 DEF ReportPeriod
  <2>7. Passed(r, Idle) \in ReportState
    <3>1. CASE r.i < Len(Periods)
      <4>1. r.i + 1 \in 1 .. Len(Periods)
        BY <2>1, <3>1, PeriodAssumption
      <4>2. QED
        BY <2>1, <3>1, <4>1 DEF Passed, ReportState
    <3>2. CASE ~(r.i < Len(Periods))
      BY <3>2, <1>idle DEF Passed
    <3>3. QED
      BY <3>1, <3>2
  <2>8. QED
    BY <1>15, <2>6, <2>7 DEF ReportPeriod
<1>16. CASE UNCHANGED vars
  BY <1>16 DEF vars
<1>17. QED
  BY <1>1, <1>2, <1>3, <1>restart, <1>4, <1>5, <1>6, <1>7, <1>8, <1>9, <1>grant, <1>10, <1>11,
     <1>12, <1>13, <1>14, <1>15, <1>16 DEF Next, Step, Report

\* The variables keep their types, whatever the interleaving of requests, reports,
\* reloads and refreshes
THEOREM TypeCorrect == Spec => []TypeOK
<1>1. Init => TypeOK
  BY InitType
<1>2. TypeOK /\ [Next]_vars => TypeOK'
  BY NextType
<1>3. QED
  BY <1>1, <1>2, PTL DEF Spec

-----------------------------------------------------------------------------
(* Boosts *)

\* A judged request that goes on keeps what it is judged by
LEMMA PassedKeeps ==
    ASSUME NEW r \in JudgedRequest, NEW next
    PROVE  \/ /\ r.i < Len(Periods)
              /\ Passed(r, next) = [r EXCEPT !.i = r.i + 1]
              /\ Passed(r, next) \in JudgedRequest
              /\ Passed(r, next).pc = r.pc /\ Passed(r, next).user = r.user
              /\ Passed(r, next).limits = r.limits /\ Passed(r, next).eff = r.eff
              /\ Passed(r, next).seen = r.seen /\ Passed(r, next).i = r.i + 1
           \/ r.i = Len(Periods) /\ Passed(r, next) = next
<1>1. CASE r.i < Len(Periods)
  <2>1. r.i + 1 \in 1 .. Len(Periods)
    BY <1>1, PeriodAssumption DEF JudgedRequest
  <2>2. QED
    BY <1>1, <2>1 DEF Passed, JudgedRequest
<1>2. CASE ~(r.i < Len(Periods))
  BY <1>2, PeriodAssumption DEF Passed, JudgedRequest
<1>3. QED
  BY <1>1, <1>2

\* The limits of a known configuration are below the first ceiling
LEMMA LimitsCapped ==
    ASSUME NEW c \in Conf, NEW u \in User, NEW l \in LimitsOf(c, u), NEW p \in Period
    PROVE  l[p] <= Ceiling[0] /\ l \in Limits
<1>1. l[p] <= Ceiling[0]
  BY BoundAssumption
<1>2. l \in Limits
  BY ConfAssumption DEF LimitsOf
<1>3. QED
  BY <1>1, <1>2

LEMMA CeilingType ==
    /\ MaxLevel \in Nat /\ HardCap \in Nat
    /\ \A n \in 0 .. MaxLevel : Ceiling[n] \in Nat /\ Ceiling[n] <= HardCap
BY BoundAssumption

\* What an entry of the boost table must satisfy
EntryOK(b, current) ==
    b # NoBoost =>
        /\ \E c \in Conf : c.boost = b.policy /\ c.boost.enabled
        /\ b.level \in 1 .. b.policy.maxTimes
        /\ b.limit <= Ceiling[b.level]
        /\ b.revision <= current.rev
        /\ b.revision = current.rev => b.policy = current.conf.boost

LEMMA EntryLevel ==
    ASSUME NEW b \in BoostState \cup {NoBoost}, NEW current, EntryOK(b, current), b # NoBoost
    PROVE  b.level >= 1 /\ b.limit <= Ceiling[b.level]
<1>1. b.level \in Nat /\ b.policy.maxTimes \in Nat
  BY DEF BoostState, Policy
<1>2. b.level \in 1 .. b.policy.maxTimes /\ b.limit <= Ceiling[b.level]
  BY DEF EntryOK
<1>3. QED
  BY <1>1, <1>2

LEMMA EntriesOK ==
    (\A u \in User, p \in Period : EntryOK(boost[u][p], cfg))
        <=> PoliciesKnown /\ TiersBounded
BY DEF EntryOK, PoliciesKnown, TiersBounded

LEMMA EntryUpdate ==
    ASSUME TypeOK, PoliciesKnown, TiersBounded, NEW u \in User, NEW p \in Period, NEW b,
           EntryOK(b, cfg), boost' = [boost EXCEPT ![u][p] = b], cfg' = cfg
    PROVE  PoliciesKnown' /\ TiersBounded'
<1>1. ASSUME NEW v \in User, NEW q \in Period PROVE EntryOK(boost'[v][q], cfg')
  <2>1. EntryOK(boost[v][q], cfg)
    BY EntriesOK
  <2>2. boost'[v][q] = IF v = u /\ q = p THEN b ELSE boost[v][q]
    BY DEF TypeOK
  <2>3. QED
    BY <2>1, <2>2
<1>2. QED
  BY <1>1 DEF EntryOK, PoliciesKnown, TiersBounded

LEMMA EntryKept ==
    ASSUME PoliciesKnown, TiersBounded, NEW u \in User, NEW p \in Period,
           NEW r, NEW c, NEW l
    PROVE  EntryOK(StateOf(boost[u][p], r, c, l), cfg)
<1>1. EntryOK(boost[u][p], cfg)
  BY EntriesOK
<1>2. QED
  BY <1>1 DEF StateOf, EntryOK

\* What is known of the boost a request is about to be granted
GrantOK(r) ==
    r.pc = "grant" =>
        LET p == Periods[r.i]
        IN  /\ r.eff.conf.boost.enabled
            /\ LevelOf(r.found) < r.eff.conf.boost.maxTimes
            /\ r.found # NoBoost =>
                  /\ r.found.level >= 1
                  /\ r.found.limit <= Ceiling[r.found.level]
                  /\ Honoured(r.found, r.seen[p].resetsAt, r.eff, r.limits[p])

\* The entry a boost writes: one level up, under the ceiling of that level
LEMMA NextTierOK ==
    ASSUME TypeOK, TierInv, NEW w \in Worker, req[w].pc = "grant",
           NEW p \in Period, NEW t \in Nat
    PROVE  EntryOK(NextTier(req[w].found, t, req[w].eff, req[w].limits[p]), cfg)
<1> DEFINE r == req[w]
           c == r.eff
           b == r.found
           l == r.limits[p]
           n == NextTier(b, t, c, l)
<1>1. /\ r \in JudgedRequest /\ c \in Pointer /\ r.user \in User /\ r.limits \in Limits
      /\ b \in BoostState \cup {NoBoost}
  <2>1. r \in Request
    BY DEF TypeOK
  <2>2. QED
    BY <2>1, JudgedType DEF JudgedRequest
<1>2. c.conf \in Conf /\ c.conf.boost \in Policy /\ c.rev \in Nat /\ c.conf.boost.enabled
  BY <1>1, ConfAssumption DEF Pointer, TierInv, GrantsKnown
<1>3. c.conf.boost.maxTimes \in 1 .. MaxLevel
  BY <1>2, BoundAssumption
<1>4. l \in Nat /\ l <= Ceiling[0]
  <2>1. PICK k \in Conf : r.limits \in LimitsOf(k, r.user)
    BY DEF TierInv, LimitsKnown, Judging
  <2>2. QED
    BY <1>1, <2>1, LimitsCapped DEF Limits
<1>5. /\ LevelOf(b) < c.conf.boost.maxTimes
      /\ b # NoBoost => b.level >= 1 /\ b.limit <= Ceiling[b.level]
  BY DEF TierInv, GrantsKnown
<1>6. /\ LevelOf(b) \in 0 .. MaxLevel - 1
      /\ BaseOf(b, l) \in Nat
      /\ BaseOf(b, l) <= Ceiling[LevelOf(b)]
  <2>1. CASE b = NoBoost
    BY <2>1, <1>3, <1>4, BoundAssumption DEF LevelOf, BaseOf
  <2>2. CASE b # NoBoost
    <3>1. b.level \in Nat /\ b.limit \in Nat
      BY <2>2, <1>1 DEF BoostState
    <3>2. LevelOf(b) = b.level /\ BaseOf(b, l) = b.limit
      BY <2>2 DEF LevelOf, BaseOf
    <3>3. LevelOf(b) \in 0 .. MaxLevel - 1
      BY <3>1, <3>2, <1>3, <1>5, CeilingType
    <3>4. QED
      BY <2>2, <1>5, <3>1, <3>2, <3>3
  <2>3. QED
    BY <2>1, <2>2
<1>7. n.limit <= Ceiling[LevelOf(b) + 1]
  <2> DEFINE x == c.conf.boost.percent
             top == Ceiling[LevelOf(b)]
  <2>1. x \in Nat /\ top \in Nat /\ Ceiling[LevelOf(b) + 1] \in Nat
    <3>1. LevelOf(b) \in 0 .. MaxLevel /\ LevelOf(b) + 1 \in 0 .. MaxLevel
      BY <1>6, CeilingType
    <3>2. QED
      BY <1>2, <3>1, CeilingType DEF Policy
  <2>2. Pct(BaseOf(b, l), x) <= Pct(top, x)
    BY <1>6, <2>1, PctMonotone
  <2>3. Pct(top, x) <= Ceiling[LevelOf(b) + 1]
    BY <1>2, <1>6, BoundAssumption
  <2>4. Pct(BaseOf(b, l), x) \in Nat /\ Pct(top, x) \in Nat
    BY <1>6, <2>1, PctType
  <2>5. QED
    BY <2>1, <2>2, <2>3, <2>4 DEF NextTier
<1>8. n.level \in 1 .. n.policy.maxTimes
  BY <1>3, <1>5, <1>6 DEF NextTier
<1>9. n.revision <= cfg.rev /\ (n.revision = cfg.rev => n.policy = cfg.conf.boost)
  BY DEF TierInv, PointersKnown, Judging, NextTier
<1>10. \E k \in Conf : k.boost = n.policy /\ k.boost.enabled
  BY <1>2 DEF NextTier
<1>11. QED
  BY <1>7, <1>8, <1>9, <1>10 DEF EntryOK, NextTier

\* What a request must satisfy for the boosts it may be granted
RequestOK(r, current) ==
    /\ r.pc \in {"authed", "wait"} => \E c \in Conf : r.own = c.own[r.user]
    /\ r.pc \in {"boost", "grant", "check"} =>
          /\ \E c \in Conf : r.limits \in LimitsOf(c, r.user)
          /\ r.eff.rev <= current.rev
          /\ r.eff.rev = current.rev => r.eff = current
    /\ GrantOK(r)

LEMMA RequestsOK ==
    (\A w \in Worker : RequestOK(req[w], cfg))
        <=> LimitsKnown /\ PointersKnown /\ GrantsKnown
BY DEF RequestOK, GrantOK, LimitsKnown, PointersKnown, GrantsKnown, Judging

LEMMA RequestUpdate ==
    ASSUME TypeOK, LimitsKnown, PointersKnown, GrantsKnown, NEW w \in Worker, NEW x,
           RequestOK(x, cfg), req' = [req EXCEPT ![w] = x], cfg' = cfg
    PROVE  LimitsKnown' /\ PointersKnown' /\ GrantsKnown'
<1>1. ASSUME NEW v \in Worker PROVE RequestOK(req'[v], cfg')
  <2>1. RequestOK(req[v], cfg)
    BY RequestsOK
  <2>2. req'[v] = IF v = w THEN x ELSE req[v]
    BY DEF TypeOK
  <2>3. QED
    BY <2>1, <2>2
<1>2. QED
  BY <1>1 DEF RequestOK, GrantOK, LimitsKnown, PointersKnown, GrantsKnown, Judging

LEMMA PassedOK ==
    ASSUME NEW r \in JudgedRequest, NEW next, r.pc # "grant",
           RequestOK(r, cfg), RequestOK(next, cfg)
    PROVE  RequestOK(Passed(r, next), cfg)
BY PassedKeeps DEF RequestOK, GrantOK, JudgedRequest

\* A step that changes neither the requests' judgement nor the boosts
LEMMA TierStable ==
    ASSUME TierInv, UNCHANGED <<boost, cfg, req>>
    PROVE  TierInv'
BY DEF TierInv, LimitsKnown, PointersKnown, GrantsKnown, PoliciesKnown, TiersBounded, Judging

LEMMA TierStep == TypeOK /\ TierInv /\ [Next]_vars => TierInv'
<1> SUFFICES ASSUME TypeOK, TierInv, [Next]_vars PROVE TierInv'
  OBVIOUS
<1>idle. RequestOK(Idle, cfg)
  BY DEF RequestOK, GrantOK, Idle
<1>old. \A w \in Worker : RequestOK(req[w], cfg)
  BY RequestsOK DEF TierInv
<1>1. CASE Tick
  BY <1>1, TierStable DEF Tick
<1>2. CASE Reload
  <2>1. cfg'.rev = cfg.rev + 1 /\ cfg.rev \in Nat /\ UNCHANGED <<boost, req>>
    BY <1>2 DEF Reload, TypeOK, Pointer
  <2>2. ASSUME NEW w \in Worker PROVE RequestOK(req'[w], cfg')
    <3>1. CASE req[w].pc \in {"boost", "grant", "check"}
      <4>1. req[w].eff.rev \in Nat
        BY <3>1, JudgedType DEF TypeOK, JudgedRequest, Pointer
      <4>2. QED
        BY <2>1, <3>1, <4>1, <1>old DEF RequestOK
    <3>2. CASE ~(req[w].pc \in {"boost", "grant", "check"})
      BY <2>1, <3>2, <1>old DEF RequestOK
    <3>3. QED
      BY <3>1, <3>2
  <2>3. ASSUME NEW u \in User, NEW p \in Period PROVE EntryOK(boost'[u][p], cfg')
    <3>1. EntryOK(boost[u][p], cfg)
      BY EntriesOK DEF TierInv
    <3>2. boost[u][p] # NoBoost => boost[u][p].revision \in Nat
      BY DEF TypeOK, BoostState
    <3>3. QED
      BY <2>1, <3>1, <3>2 DEF EntryOK
  <2>4. LimitsKnown' /\ PointersKnown' /\ GrantsKnown'
    BY <2>2 DEF RequestOK, GrantOK, LimitsKnown, PointersKnown, GrantsKnown, Judging
  <2>5. PoliciesKnown' /\ TiersBounded'
    BY <2>3 DEF EntryOK, PoliciesKnown, TiersBounded
  <2>6. QED
    BY <2>4, <2>5 DEF TierInv
<1>restart. CASE Restart
  BY <1>restart DEF Restart, Idle, TierInv, LimitsKnown, PointersKnown, GrantsKnown,
     PoliciesKnown, TiersBounded, Judging
<1>3. CASE Refresh
  BY <1>3, TierStable DEF Refresh
<1>4. ASSUME NEW w \in Worker, NEW x, RequestOK(x, cfg),
             req' = [req EXCEPT ![w] = x], UNCHANGED <<boost, cfg>>
      PROVE  TierInv'
  <2>1. LimitsKnown' /\ PointersKnown' /\ GrantsKnown'
    BY <1>4, RequestUpdate DEF TierInv
  <2>2. PoliciesKnown' /\ TiersBounded'
    BY <1>4 DEF TierInv, PoliciesKnown, TiersBounded
  <2>3. QED
    BY <2>1, <2>2 DEF TierInv
<1>5. ASSUME NEW w \in Worker, NEW u \in User, Authenticate(w, u) PROVE TierInv'
  <2> DEFINE x == [pc |-> "authed", user |-> u, own |-> cfg.conf.own[u]]
  <2>1. RequestOK(x, cfg)
    BY DEF RequestOK, GrantOK, TypeOK, Pointer
  <2>2. QED
    BY <1>4, <1>5, <2>1 DEF Authenticate
<1>6. ASSUME NEW w \in Worker, Refuse(w) \/ EndUncharged(w) PROVE TierInv'
  BY <1>4, <1>6, <1>idle DEF Refuse, EndUncharged
<1>7. ASSUME NEW w \in Worker, ReadSnapshot(w) PROVE TierInv'
  <2> DEFINE x == [pc |-> "wait", user |-> req[w].user, own |-> req[w].own,
                   seen |-> snap, at |-> clock]
  <2>1. RequestOK(x, cfg)
    BY <1>7, <1>old DEF RequestOK, GrantOK, ReadSnapshot
  <2>2. QED
    BY <1>4, <1>7, <2>1 DEF ReadSnapshot
<1>8. ASSUME NEW w \in Worker, Lock(w) PROVE TierInv'
  <2> DEFINE x == [pc |-> "boost", user |-> req[w].user, seen |-> req[w].seen,
                   at |-> req[w].at, eff |-> cfg, i |-> 1, found |-> NoBoost,
                   limits |-> EffectiveLimits(cfg.conf, req[w].own)]
  <2>1. PICK c \in Conf : req[w].own = c.own[req[w].user]
    BY <1>8, <1>old DEF Lock, RequestOK
  <2>2. \E k \in Conf : EffectiveLimits(cfg.conf, req[w].own) \in LimitsOf(k, req[w].user)
    <3>1. CASE req[w].own # NoLimits
      BY <2>1, <3>1 DEF EffectiveLimits, LimitsOf
    <3>2. CASE req[w].own = NoLimits
      <4>1. cfg.conf \in Conf
        BY DEF TypeOK, Pointer
      <4>2. cfg.conf.global \in LimitsOf(cfg.conf, req[w].user)
        BY DEF LimitsOf
      <4>3. QED
        BY <3>2, <4>1, <4>2 DEF EffectiveLimits
    <3>3. QED
      BY <3>1, <3>2
  <2>3. cfg.rev <= cfg.rev
    BY DEF TypeOK, Pointer
  <2>4. RequestOK(x, cfg)
    BY <2>2, <2>3 DEF RequestOK, GrantOK
  <2>5. QED
    BY <1>4, <1>8, <2>4 DEF Lock
<1>9. ASSUME NEW w \in Worker, BoostPeriod(w) PROVE TierInv'
  <2> DEFINE r == req[w]
             p == Periods[r.i]
             t == r.seen[p].resetsAt
             b == StateOf(boost[r.user][p], t, r.eff, r.limits[p])
             go == [r EXCEPT !.pc = "grant", !.found = b]
  <2>1. r \in JudgedRequest /\ r.pc = "boost"
    BY <1>9, JudgedType DEF BoostPeriod, TypeOK
  <2>2. p \in Period /\ r.user \in User /\ t \in Nat
    BY <2>1, JudgedPeriod
  <2>3. RequestOK(Passed(r, Checking(r)), cfg)
    <3>1. RequestOK(Checking(r), cfg)
      BY <1>old, <2>1 DEF RequestOK, GrantOK, Checking, JudgedRequest
    <3>2. QED
      BY <1>old, <2>1, <3>1, PassedOK
  <2>4. EntryOK(b, cfg)
    BY <2>2, EntryKept DEF TierInv
  <2>5. b \in BoostState \cup {NoBoost}
    BY <2>2, StateOfType DEF TypeOK
  <2>6. ASSUME r.eff.conf.boost.enabled,
               ~(r.eff.conf.boost.maxTimes > 0 /\ LevelOf(b) >= r.eff.conf.boost.maxTimes)
        PROVE  RequestOK(go, cfg)
    <3>1. r.eff.conf \in Conf
      BY <2>1 DEF JudgedRequest, Pointer
    <3>2. r.eff.conf.boost.maxTimes \in Nat /\ r.eff.conf.boost.maxTimes > 0
      <4>1. r.eff.conf.boost.maxTimes \in 1 .. MaxLevel
        BY <2>6, <3>1, BoundAssumption
      <4>2. QED
        BY <4>1, CeilingType
    <3>3. LevelOf(b) \in Nat
      BY <2>5 DEF LevelOf, BoostState
    <3>4. LevelOf(b) < r.eff.conf.boost.maxTimes
      BY <2>6, <3>2, <3>3
    <3>5. b # NoBoost => /\ b.level >= 1
                         /\ b.limit <= Ceiling[b.level]
                         /\ Honoured(b, t, r.eff, r.limits[p])
      <4>2. b # NoBoost => b.level >= 1 /\ b.limit <= Ceiling[b.level]
        BY <2>4, <2>5, EntryLevel
      <4>3. b # NoBoost => Honoured(b, t, r.eff, r.limits[p])
        BY DEF StateOf
      <4>4. QED
        BY <4>2, <4>3
    <3>6. /\ go.pc = "grant" /\ go.found = b /\ go.i = r.i /\ go.seen = r.seen
          /\ go.eff = r.eff /\ go.limits = r.limits /\ go.user = r.user
      BY <2>1 DEF JudgedRequest
    <3>7. GrantOK(go)
      BY <2>6, <3>4, <3>5, <3>6 DEF GrantOK
    <3>8. QED
      BY <1>old, <2>1, <3>6, <3>7 DEF RequestOK
  <2>7. \E x : RequestOK(x, cfg) /\ req' = [req EXCEPT ![w] = x]
    <3>1. CASE req' = [req EXCEPT ![w] = Passed(r, Checking(r))]
      BY <2>3, <3>1
    <3>2. CASE /\ req' = [req EXCEPT ![w] = go]
               /\ r.eff.conf.boost.enabled
               /\ ~(r.eff.conf.boost.maxTimes > 0
                    /\ LevelOf(b) >= r.eff.conf.boost.maxTimes)
      BY <2>6, <3>2
    <3>3. QED
      BY <1>9, <3>1, <3>2 DEF BoostPeriod, MayBoost
  <2>8. LimitsKnown' /\ PointersKnown' /\ GrantsKnown'
    BY <1>9, <2>7, RequestUpdate DEF BoostPeriod, TierInv
  <2>9. CASE UNCHANGED boost
    BY <1>9, <2>8, <2>9 DEF BoostPeriod, TierInv, PoliciesKnown, TiersBounded
  <2>10. CASE boost' = [boost EXCEPT ![r.user][p] = b]
    BY <1>9, <2>2, <2>4, <2>8, <2>10, EntryUpdate DEF BoostPeriod, TierInv
  <2>11. QED
    BY <1>9, <2>9, <2>10 DEF BoostPeriod
<1>grant. ASSUME NEW w \in Worker, Grant(w) PROVE TierInv'
  <2> DEFINE r == req[w]
             p == Periods[r.i]
             t == r.seen[p].resetsAt
             n == NextTier(r.found, t, r.eff, r.limits[p])
             on == [r EXCEPT !.pc = "boost", !.found = NoBoost]
  <2>1. r \in JudgedRequest /\ r.pc = "grant"
    BY <1>grant, JudgedType DEF Grant, TypeOK
  <2>2. p \in Period /\ r.user \in User /\ t \in Nat
    BY <2>1, JudgedPeriod
  <2>3. RequestOK(Passed(on, Checking(r)), cfg)
    <3>1. RequestOK(Checking(r), cfg)
      BY <1>old, <2>1 DEF RequestOK, GrantOK, Checking, JudgedRequest
    <3>2. RequestOK(on, cfg) /\ on \in JudgedRequest /\ on.pc # "grant"
      BY <1>old, <2>1 DEF RequestOK, GrantOK, JudgedRequest
    <3>3. QED
      BY <3>1, <3>2, PassedOK
  <2>4. LimitsKnown' /\ PointersKnown' /\ GrantsKnown'
    BY <1>grant, <2>3, RequestUpdate DEF Grant, TierInv
  <2>5. EntryOK(n, cfg)
    BY <2>1, <2>2, NextTierOK
  <2>6. QED
    BY <1>grant, <2>2, <2>4, <2>5, EntryUpdate DEF Grant, TierInv
<1>10. ASSUME NEW w \in Worker, PassPeriod(w) \/ RejectPeriod(w) PROVE TierInv'
  <2> DEFINE r == req[w]
             p == Periods[r.i]
             b == StateOf(boost[r.user][p], r.seen[p].resetsAt, r.eff, r.limits[p])
             up == [pc |-> "upstream", user |-> r.user, at |-> r.at]
  <2>1. r \in JudgedRequest /\ r.pc = "check"
    BY <1>10, JudgedType DEF PassPeriod, RejectPeriod, TypeOK
  <2>2. p \in Period /\ r.user \in User
    BY <2>1, JudgedPeriod
  <2>3. RequestOK(up, cfg)
    BY DEF RequestOK, GrantOK
  <2>4. RequestOK(Passed(r, up), cfg)
    BY <2>1, <2>3, <1>old, PassedOK
  <2>5. LimitsKnown' /\ PointersKnown' /\ GrantsKnown'
    BY <1>10, <1>idle, <2>4, RequestUpdate DEF PassPeriod, RejectPeriod, TierInv
  <2>6. EntryOK(b, cfg)
    BY <2>2, EntryKept DEF TierInv
  <2>7. boost' = boost \/ boost' = [boost EXCEPT ![r.user][p] = b]
    BY <1>10 DEF PassPeriod, RejectPeriod
  <2>8. cfg' = cfg
    BY <1>10 DEF PassPeriod, RejectPeriod
  <2>9. CASE boost' = boost
    BY <2>5, <2>8, <2>9 DEF TierInv, PoliciesKnown, TiersBounded
  <2>10. CASE boost' = [boost EXCEPT ![r.user][p] = b]
    BY <2>2, <2>5, <2>6, <2>8, <2>10, EntryUpdate DEF TierInv
  <2>11. QED
    BY <2>7, <2>9, <2>10
<1>11. ASSUME NEW w \in Worker, Answer(w) PROVE TierInv'
  <2>1. PICK cost \in Cost : req' = [req EXCEPT ![w] =
           [pc |-> "record", user |-> req[w].user, at |-> req[w].at, cost |-> cost]]
    BY <1>11 DEF Answer
  <2>2. RequestOK([pc |-> "record", user |-> req[w].user,
                   at |-> req[w].at, cost |-> cost], cfg)
    BY DEF RequestOK, GrantOK
  <2>3. QED
    BY <1>4, <1>11, <2>1, <2>2 DEF Answer
<1>12. ASSUME NEW w \in Worker, RecordUsage(w) PROVE TierInv'
  BY <1>4, <1>12, <1>idle DEF RecordUsage
<1>13. ASSUME NEW k \in Reporter, NEW u \in User, ReportRead(k, u) PROVE TierInv'
  BY <1>13, TierStable DEF ReportRead
<1>14. ASSUME NEW k \in Reporter, ReportConfig(k) PROVE TierInv'
  BY <1>14, TierStable DEF ReportConfig
<1>15. ASSUME NEW k \in Reporter, ReportPeriod(k) PROVE TierInv'
  <2> DEFINE r == rep[k]
             p == Periods[r.i]
             b == StateOf(boost[r.user][p], r.seen[p].resetsAt, r.eff, r.limits[p])
  <2>1. p \in Period /\ r.user \in User
    <3>1. r \in ReportState /\ r.pc = "scan"
      BY <1>15 DEF ReportPeriod, TypeOK
    <3>2. r \in [pc : {"scan"}, user : User, seen : Snapshot, limits : Limits,
                  eff : Pointer, i : 1 .. Len(Periods)]
      BY <3>1 DEF ReportState, Idle
    <3>3. QED
      BY <3>2, PeriodType
  <2>2. EntryOK(b, cfg)
    BY <2>1, EntryKept DEF TierInv
  <2>3. cfg' = cfg /\ req' = req
    BY <1>15 DEF ReportPeriod
  <2>4. boost' = boost \/ boost' = [boost EXCEPT ![r.user][p] = b]
    BY <1>15 DEF ReportPeriod
  <2>5. LimitsKnown' /\ PointersKnown' /\ GrantsKnown'
    BY <2>3 DEF TierInv, LimitsKnown, PointersKnown, GrantsKnown, Judging
  <2>6. CASE boost' = boost
    BY <2>3, <2>6, TierStable
  <2>7. CASE boost' = [boost EXCEPT ![r.user][p] = b]
    BY <2>1, <2>2, <2>3, <2>5, <2>7, EntryUpdate DEF TierInv
  <2>8. QED
    BY <2>4, <2>6, <2>7
<1>16. CASE UNCHANGED vars
  BY <1>16, TierStable DEF vars
<1>17. QED
  BY <1>1, <1>2, <1>restart, <1>3, <1>5, <1>6, <1>7, <1>8, <1>9, <1>grant, <1>10, <1>11, <1>12,
     <1>13, <1>14, <1>15, <1>16 DEF Next, Step, Report

\* However requests, reports and reloads interleave, no boost exceeds the rungs its
\* own policy allows, and one of the current configuration follows its policy
THEOREM TiersStayBounded == Spec => []TiersBounded
<1>1. Init => TierInv
  BY DEF Init, Idle, TierInv, LimitsKnown, PointersKnown, GrantsKnown, PoliciesKnown, TiersBounded,
         Judging
<1>2. TypeOK /\ TierInv /\ [Next]_vars => TierInv'
  BY TierStep
<1>3. TierInv => TiersBounded
  BY DEF TierInv
<1>4. QED
  BY <1>1, <1>2, <1>3, TypeCorrect, PTL DEF Spec

-----------------------------------------------------------------------------
(* Boosts, to the unit *)

\* f is the ladder of n rungs from l
IsLadder(f, n, l, x) == f = [k \in 0 .. n |-> IF k = 0 THEN l ELSE Pct(f[k - 1], x)]

\* A ladder of any height has its rungs
LEMMA LadderExists ==
    ASSUME NEW l, NEW x, NEW n \in Nat
    PROVE  \E f : IsLadder(f, n, l, x)
<1> DEFINE S == {m \in Nat : \E f : IsLadder(f, m, l, x)}
<1>1. 0 \in S
  <2>1. IsLadder([k \in 0 .. 0 |-> l], 0, l, x)
    BY DEF IsLadder
  <2> QED BY <2>1
<1>2. ASSUME NEW m \in S PROVE m + 1 \in S
  <2>1. PICK f : IsLadder(f, m, l, x)
    OBVIOUS
  <2> DEFINE g == [k \in 0 .. m + 1 |-> IF k <= m THEN f[k] ELSE Pct(f[m], x)]
  <2>2. ASSUME NEW k \in 0 .. m + 1 PROVE g[k] = IF k = 0 THEN l ELSE Pct(g[k - 1], x)
    <3>0. m \in Nat
      OBVIOUS
    <3>1. CASE k = m + 1
      <4>1. g[k] = Pct(f[m], x) /\ g[k - 1] = f[m] /\ k # 0
        BY <3>0, <3>1
      <4> QED BY <4>1
    <3>2. CASE k \in 0 .. m
      <4>1. f[k] = IF k = 0 THEN l ELSE Pct(f[k - 1], x)
        BY <2>1, <3>2 DEF IsLadder
      <4>2. g[k] = f[k] /\ (k # 0 => g[k - 1] = f[k - 1])
        BY <3>0, <3>2
      <4> QED BY <4>1, <4>2
    <3> QED BY <3>0, <3>1, <3>2
  <2>3. g = [k \in 0 .. m + 1 |-> g[k]]
    OBVIOUS
  <2> HIDE DEF g
  <2>4. IsLadder(g, m + 1, l, x)
    BY <2>2, <2>3 DEF IsLadder
  <2> QED BY <2>4
<1> HIDE DEF S
<1>3. S = Nat
  <2>1. S \in SUBSET Nat
    BY DEF S
  <2> QED BY <1>1, <1>2, <2>1, SetInduction
<1> QED BY <1>3 DEF S

\* The tiers of a policy are the ladder from the limit
LEMMA LadderRungs ==
    ASSUME NEW p, p.maxTimes \in Nat, NEW l
    PROVE  IsLadder(TierLimit(p, l), p.maxTimes, l, p.percent)
<1>1. \E f : IsLadder(f, p.maxTimes, l, p.percent)
  BY LadderExists
<1>2. TierLimit(p, l) = CHOOSE f : IsLadder(f, p.maxTimes, l, p.percent)
  BY DEF TierLimit, IsLadder
<1> QED BY <1>1, <1>2

\* The entry a boost writes is the next rung of the ladder of the one it found
LEMMA NextTierOnLadder ==
    ASSUME TypeOK, TierInv, LadderInv, NEW w \in Worker, req[w].pc = "grant", NEW t
    PROVE  LET r == req[w]
           IN  OnLadder(NextTier(r.found, t, r.eff, r.limits[Periods[r.i]]))
<1> DEFINE r == req[w]
           b == r.found
           c == r.eff
           l == r.limits[Periods[r.i]]
           q == c.conf.boost
           f == TierLimit(q, l)
           n == NextTier(b, t, c, l)
<1>1. /\ r \in JudgedRequest /\ c \in Pointer /\ b \in BoostState \cup {NoBoost}
  <2>1. r \in Request
    BY DEF TypeOK
  <2> QED BY <2>1, JudgedType DEF JudgedRequest
<1>2. q \in Policy /\ q.maxTimes \in Nat
  BY <1>1, ConfAssumption DEF Pointer, Policy
<1>3. /\ LevelOf(b) < q.maxTimes
      /\ b # NoBoost => Honoured(b, r.seen[Periods[r.i]].resetsAt, c, l)
  BY DEF TierInv, GrantsKnown
<1>4. OnLadder(b)
  BY DEF LadderInv, Judging
<1>5. LevelOf(b) \in Nat
  BY <1>1 DEF LevelOf, BoostState
<1>6. LevelOf(b) \in 0 .. q.maxTimes /\ LevelOf(b) + 1 \in 0 .. q.maxTimes
  BY <1>2, <1>3, <1>5
<1>7. IsLadder(f, q.maxTimes, l, q.percent)
  BY <1>2, LadderRungs
<1> HIDE DEF f
<1>8. BaseOf(b, l) = f[LevelOf(b)]
  <2>1. CASE b = NoBoost
    <3>1. 0 \in 0 .. q.maxTimes
      BY <1>2
    <3>2. f[0] = l
      BY <1>7, <3>1 DEF IsLadder
    <3> QED BY <2>1, <3>2 DEF BaseOf, LevelOf
  <2>2. CASE b # NoBoost
    <3>1. b.policy = q /\ b.baseLimit = l
      BY <1>3, <2>2 DEF Honoured
    <3> QED BY <1>4, <2>2, <3>1 DEF OnLadder, BaseOf, LevelOf, f
  <2> QED BY <2>1, <2>2
<1>9. f[LevelOf(b) + 1] = Pct(f[LevelOf(b)], q.percent)
  <2> DEFINE k == LevelOf(b) + 1
  <2>1. k # 0 /\ k - 1 = LevelOf(b) /\ k \in 0 .. q.maxTimes
    BY <1>5, <1>6
  <2> HIDE DEF k
  <2>2. f[k] = Pct(f[k - 1], q.percent)
    BY <1>7, <2>1 DEF IsLadder
  <2> QED BY <2>1, <2>2 DEF k
<1>10. /\ n.limit = Pct(BaseOf(b, l), q.percent) /\ n.level = LevelOf(b) + 1
       /\ n.policy = q /\ n.baseLimit = l
  BY DEF NextTier
<1> HIDE DEF n
<1>11. n.limit = TierLimit(n.policy, n.baseLimit)[n.level]
  BY <1>8, <1>9, <1>10 DEF f
<1> QED BY <1>11 DEF OnLadder, n

LEMMA StateOfOnLadder ==
    ASSUME TiersExact, NEW u \in User, NEW p \in Period, NEW r, NEW c, NEW l
    PROVE  OnLadder(StateOf(boost[u][p], r, c, l))
BY DEF TiersExact, StateOf, OnLadder

LEMMA LadderUpdate ==
    ASSUME TypeOK, TiersExact, NEW u \in User, NEW p \in Period, NEW b, OnLadder(b),
           boost' = [boost EXCEPT ![u][p] = b]
    PROVE  TiersExact'
<1>1. ASSUME NEW v \in User, NEW q \in Period PROVE OnLadder(boost'[v][q])
  <2>1. boost'[v][q] = IF v = u /\ q = p THEN b ELSE boost[v][q]
    BY DEF TypeOK
  <2> QED BY <2>1 DEF TiersExact
<1> QED BY <1>1 DEF TiersExact, OnLadder

\* What a request has found is on its ladder
FoundOK(r) == r.pc \in {"boost", "grant", "check"} => OnLadder(r.found)

LEMMA FoundUpdate ==
    ASSUME TypeOK, LadderInv, NEW w \in Worker, NEW x, FoundOK(x),
           req' = [req EXCEPT ![w] = x], TiersExact'
    PROVE  LadderInv'
<1>1. ASSUME NEW v \in Worker, req'[v].pc \in {"boost", "grant", "check"}
      PROVE  OnLadder(req'[v].found)
  <2>1. req'[v] = IF v = w THEN x ELSE req[v]
    BY DEF TypeOK
  <2> QED BY <1>1, <2>1 DEF LadderInv, Judging, FoundOK
<1> QED BY <1>1 DEF LadderInv, Judging, OnLadder

LEMMA PassedFound ==
    ASSUME NEW r \in JudgedRequest, NEW next, OnLadder(r.found), FoundOK(next)
    PROVE  FoundOK(Passed(r, next))
<1>1. CASE r.i < Len(Periods)
  <2>1. Passed(r, next).found = r.found
    BY <1>1 DEF Passed, JudgedRequest
  <2> QED BY <2>1 DEF FoundOK
<1>2. CASE ~(r.i < Len(Periods))
  BY <1>2 DEF Passed
<1> QED BY <1>1, <1>2

LEMMA CheckingFound == ASSUME NEW r \in JudgedRequest PROVE FoundOK(Checking(r))
<1>1. Checking(r).found = NoBoost
  BY DEF Checking, JudgedRequest
<1> QED BY <1>1 DEF FoundOK, OnLadder

LEMMA LadderStep == TypeOK /\ TierInv /\ LadderInv /\ [Next]_vars => LadderInv'
<1> SUFFICES ASSUME TypeOK, TierInv, LadderInv, [Next]_vars PROVE LadderInv'
  OBVIOUS
<1>1. ASSUME UNCHANGED <<boost, req>> PROVE LadderInv'
  BY <1>1 DEF LadderInv, TiersExact, Judging, OnLadder
<1>2. ASSUME UNCHANGED boost PROVE TiersExact'
  BY <1>2 DEF LadderInv, TiersExact, OnLadder
<1>3. FoundOK(Idle)
  BY DEF FoundOK, Idle
<1>4. CASE Restart
  BY <1>4 DEF Restart, Idle, LadderInv, TiersExact, Judging, OnLadder
<1>5. ASSUME NEW w \in Worker,
             \/ \E u \in User : Authenticate(w, u)
             \/ Refuse(w) \/ ReadSnapshot(w) \/ EndUncharged(w) \/ Answer(w) \/ RecordUsage(w)
      PROVE  LadderInv'
  <2>1. UNCHANGED boost /\ \E x : FoundOK(x) /\ req' = [req EXCEPT ![w] = x]
    BY <1>3, <1>5 DEF Authenticate, Refuse, ReadSnapshot, EndUncharged, Answer, RecordUsage,
       FoundOK
  <2> QED BY <1>2, <2>1, FoundUpdate
<1>6. ASSUME NEW w \in Worker, Lock(w) PROVE LadderInv'
  <2>1. UNCHANGED boost /\ \E x : FoundOK(x) /\ req' = [req EXCEPT ![w] = x]
    BY <1>6 DEF Lock, FoundOK, OnLadder
  <2> QED BY <1>2, <2>1, FoundUpdate
<1>7. ASSUME NEW w \in Worker, BoostPeriod(w) PROVE LadderInv'
  <2> DEFINE r == req[w]
             p == Periods[r.i]
             b == StateOf(boost[r.user][p], r.seen[p].resetsAt, r.eff, r.limits[p])
             go == [r EXCEPT !.pc = "grant", !.found = b]
  <2>1. r \in JudgedRequest /\ r.pc = "boost"
    BY <1>7, JudgedType DEF BoostPeriod, TypeOK
  <2>2. p \in Period /\ r.user \in User
    BY <2>1, JudgedPeriod
  <2>3. OnLadder(b)
    BY <2>2, StateOfOnLadder DEF LadderInv
  <2>4. TiersExact'
    <3>1. boost' = boost \/ boost' = [boost EXCEPT ![r.user][p] = b]
      BY <1>7 DEF BoostPeriod
    <3> QED BY <1>2, <2>2, <2>3, <3>1, LadderUpdate DEF LadderInv
  <2>5. FoundOK(Passed(r, Checking(r)))
    <3>1. OnLadder(r.found)
      BY <2>1 DEF LadderInv, Judging
    <3> QED BY <2>1, <3>1, PassedFound, CheckingFound
  <2>6. FoundOK(go)
    <3>1. go.found = b
      BY <2>1 DEF JudgedRequest
    <3> QED BY <2>3, <3>1 DEF FoundOK
  <2>7. req' = [req EXCEPT ![w] = go] \/ req' = [req EXCEPT ![w] = Passed(r, Checking(r))]
    BY <1>7 DEF BoostPeriod
  <2> QED BY <2>4, <2>5, <2>6, <2>7, FoundUpdate
<1>8. ASSUME NEW w \in Worker, Grant(w) PROVE LadderInv'
  <2> DEFINE r == req[w]
             p == Periods[r.i]
             n == NextTier(r.found, r.seen[p].resetsAt, r.eff, r.limits[p])
             on == [r EXCEPT !.pc = "boost", !.found = NoBoost]
  <2>1. r \in JudgedRequest /\ r.pc = "grant"
    BY <1>8, JudgedType DEF Grant, TypeOK
  <2>2. p \in Period /\ r.user \in User
    BY <2>1, JudgedPeriod
  <2>3. OnLadder(n)
    BY <2>1, NextTierOnLadder
  <2>4. TiersExact'
    BY <1>8, <2>2, <2>3, LadderUpdate DEF Grant, LadderInv
  <2>5. on \in JudgedRequest /\ on.found = NoBoost
    BY <2>1 DEF JudgedRequest
  <2>6. FoundOK(Passed(on, Checking(r)))
    BY <2>1, <2>5, PassedFound, CheckingFound DEF OnLadder
  <2> QED BY <1>8, <2>4, <2>6, FoundUpdate DEF Grant
<1>9. ASSUME NEW w \in Worker, PassPeriod(w) \/ RejectPeriod(w) PROVE LadderInv'
  <2> DEFINE r == req[w]
             p == Periods[r.i]
             b == StateOf(boost[r.user][p], r.seen[p].resetsAt, r.eff, r.limits[p])
             up == [pc |-> "upstream", user |-> r.user, at |-> r.at]
  <2>1. r \in JudgedRequest /\ r.pc = "check"
    BY <1>9, JudgedType DEF PassPeriod, RejectPeriod, TypeOK
  <2>2. p \in Period /\ r.user \in User
    BY <2>1, JudgedPeriod
  <2>3. OnLadder(b)
    BY <2>2, StateOfOnLadder DEF LadderInv
  <2>4. TiersExact'
    <3>1. boost' = boost \/ boost' = [boost EXCEPT ![r.user][p] = b]
      BY <1>9 DEF PassPeriod, RejectPeriod
    <3> QED BY <1>2, <2>2, <2>3, <3>1, LadderUpdate DEF LadderInv
  <2>5. FoundOK(Passed(r, up))
    <3>1. OnLadder(r.found) /\ FoundOK(up)
      BY <2>1 DEF LadderInv, Judging, FoundOK
    <3> QED BY <2>1, <3>1, PassedFound
  <2>6. req' = [req EXCEPT ![w] = Passed(r, up)] \/ req' = [req EXCEPT ![w] = Idle]
    BY <1>9 DEF PassPeriod, RejectPeriod
  <2> QED BY <1>3, <2>4, <2>5, <2>6, FoundUpdate
<1>10. ASSUME NEW k \in Reporter, ReportPeriod(k) PROVE LadderInv'
  <2> DEFINE r == rep[k]
             p == Periods[r.i]
             b == StateOf(boost[r.user][p], r.seen[p].resetsAt, r.eff, r.limits[p])
  <2>1. p \in Period /\ r.user \in User
    <3>1. r \in ReportState /\ r.pc = "scan"
      BY <1>10 DEF ReportPeriod, TypeOK
    <3>2. r \in [pc : {"scan"}, user : User, seen : Snapshot, limits : Limits,
                  eff : Pointer, i : 1 .. Len(Periods)]
      BY <3>1 DEF ReportState, Idle
    <3> QED BY <3>2, PeriodType
  <2>2. OnLadder(b)
    BY <2>1, StateOfOnLadder DEF LadderInv
  <2>3. boost' = boost \/ boost' = [boost EXCEPT ![r.user][p] = b]
    BY <1>10 DEF ReportPeriod
  <2>4. TiersExact'
    BY <1>2, <2>1, <2>2, <2>3, LadderUpdate DEF LadderInv
  <2>5. UNCHANGED req
    BY <1>10 DEF ReportPeriod
  <2> QED BY <2>4, <2>5 DEF LadderInv, Judging, OnLadder
<1>11. CASE Tick \/ Reload \/ Refresh \/ UNCHANGED vars
  BY <1>1, <1>11 DEF Tick, Reload, Refresh, vars
<1>12. ASSUME NEW k \in Reporter, (\E u \in User : ReportRead(k, u)) \/ ReportConfig(k)
       PROVE  LadderInv'
  BY <1>1, <1>12 DEF ReportRead, ReportConfig
<1> QED BY <1>4, <1>5, <1>6, <1>7, <1>8, <1>9, <1>10, <1>11, <1>12 DEF Next, Step, Report

\* However requests, reports and reloads interleave, the limit of a boost state is its own
\* base limit boosted level times by its own policy: no boost is counted twice or lost
THEOREM TiersStayExact == Spec => []TiersExact
<1>1. Init => TierInv /\ LadderInv
  BY DEF Init, Idle, TierInv, LimitsKnown, PointersKnown, GrantsKnown, PoliciesKnown, TiersBounded,
         Judging, LadderInv, TiersExact, OnLadder
<1>2. TypeOK /\ TierInv /\ LadderInv /\ [Next]_vars => TierInv' /\ LadderInv'
  BY TierStep, LadderStep
<1>3. LadderInv => TiersExact
  BY DEF LadderInv
<1> QED BY <1>1, <1>2, <1>3, TypeCorrect, PTL DEF Spec

-----------------------------------------------------------------------------
(* Quotas: what is used, and the limit it is compared with *)

LEMMA WindowStartType ==
    ASSUME NEW cap, cap.resetsAt \in Nat, NEW p \in Period
    PROVE  WindowStart(cap, p) \in Nat
BY PeriodAssumption DEF WindowStart

LEMMA WindowStartMonotone ==
    ASSUME NEW a, NEW b, a.resetsAt \in Nat, b.resetsAt \in Nat, NEW p \in Period,
           a.resetsAt <= b.resetsAt
    PROVE  WindowStart(a, p) <= WindowStart(b, p)
BY PeriodAssumption DEF WindowStart

LEMMA SumType ==
    ASSUME TypeOK, NEW u \in User, NEW t PROVE UserWindowSum(u, t) \in Nat
BY DEF TypeOK, UserWindowSum

\* A window that starts later holds no more
LEMMA SumMonotone ==
    ASSUME TypeOK, SuffixSums, NEW u \in User, NEW s \in Nat, NEW t \in Nat, s <= t
    PROVE  UserWindowSum(u, t) <= UserWindowSum(u, s)
<1>1. CASE t \in Time
  <2>1. s \in Time
    BY <1>1, ClockAssumption DEF Time
  <2>2. QED
    BY <1>1, <2>1 DEF SuffixSums, UserWindowSum
<1>2. CASE t \notin Time
  BY <1>2, SumType DEF UserWindowSum
<1>3. QED
  BY <1>1, <1>2

LEMMA CurrentStartType ==
    ASSUME TypeOK, NEW p \in Period PROVE CurrentStart(p) \in Nat
BY WindowStartType DEF TypeOK, CurrentStart

\* The hard limit of a judged request is under the cap, whichever rung is in force
LEMMA HardLimitCapped ==
    ASSUME TypeOK, TierInv, NEW w \in Worker, req[w].pc = "check",
           NEW p \in Period, NEW t
    PROVE  LET b == StateOf(boost[req[w].user][p], t, req[w].eff, req[w].limits[p])
               h == HardLimit(req[w].eff.conf.boost, b, req[w].limits[p])
           IN  h \in Nat /\ h <= HardCap
<1> DEFINE r == req[w]
           l == r.limits[p]
           b == StateOf(boost[r.user][p], t, r.eff, l)
           policy == r.eff.conf.boost
           h == HardLimit(policy, b, l)
<1>1. r \in JudgedRequest
  BY JudgedType DEF TypeOK
<1>2. r.eff.conf \in Conf /\ r.user \in User /\ r.limits \in Limits
  BY <1>1 DEF JudgedRequest, Pointer
<1>3. policy \in Policy
  BY <1>2, ConfAssumption
<1>4. l \in Nat /\ l <= Ceiling[0]
  <2>1. PICK k \in Conf : r.limits \in LimitsOf(k, r.user)
    BY DEF TierInv, LimitsKnown, Judging
  <2>2. QED
    BY <1>2, <2>1, LimitsCapped DEF Limits
<1>5. 0 \in 0 .. MaxLevel /\ Ceiling[0] \in Nat /\ Ceiling[0] <= HardCap /\ HardCap \in Nat
  BY CeilingType
<1>6. CASE ~policy.enabled
  <2>1. h = l
    BY <1>6 DEF HardLimit
  <2>2. l <= HardCap
    BY <1>4, <1>5
  <2>3. QED
    BY <1>4, <2>1, <2>2
<1>7. CASE policy.enabled /\ b # NoBoost
  <2>1. EntryOK(b, cfg)
    BY <1>2, EntryKept DEF TierInv
  <2>2. PICK c \in Conf : c.boost = b.policy /\ c.boost.enabled
    BY <1>7, <2>1 DEF EntryOK
  <2>3. b.policy.maxTimes \in 1 .. MaxLevel
    BY <2>2, BoundAssumption
  <2>4. b \in BoostState
    BY <1>2, <1>7, StateOfType DEF TypeOK
  <2>5. b.level \in Nat /\ b.limit \in Nat
    BY <2>4 DEF BoostState
  <2>6. b.level \in 1 .. b.policy.maxTimes /\ b.limit <= Ceiling[b.level]
    BY <1>7, <2>1 DEF EntryOK
  <2>7. b.level \in 0 .. MaxLevel
    BY <2>3, <2>5, <2>6, CeilingType
  <2>8. b.limit <= HardCap
    BY <2>5, <2>6, <2>7, CeilingType
  <2>9. h = b.limit
    BY <1>7 DEF HardLimit
  <2>10. QED
    BY <2>5, <2>8, <2>9
<1>8. CASE policy.enabled /\ b = NoBoost
  <2> DEFINE x == policy.overage
  <2>1. x \in Nat
    BY <1>3 DEF Policy
  <2>2. Pct(l, x) <= Pct(Ceiling[0], x)
    BY <1>4, <1>5, <2>1, PctMonotone
  <2>3. Pct(Ceiling[0], x) <= HardCap
    BY <1>2, <1>8, BoundAssumption
  <2>4. Pct(l, x) \in Nat /\ Pct(Ceiling[0], x) \in Nat
    BY <1>4, <1>5, <2>1, PctType
  <2>5. h = Pct(l, x)
    BY <1>8 DEF HardLimit
  <2>6. Pct(l, x) <= HardCap
    BY <1>5, <2>2, <2>3, <2>4
  <2>7. QED
    BY <2>4, <2>5, <2>6
<1>9. QED
  BY <1>6, <1>7, <1>8

\* A window a request passed holds less than the cap
LEMMA PassedWindow ==
    ASSUME TypeOK, TierInv, DBReadFails = FALSE, NEW w \in Worker, PassPeriod(w),
           req[w].limits[Periods[req[w].i]] > 0
    PROVE  Used(req[w].seen, req[w].user, Periods[req[w].i]) < HardCap
<1> DEFINE r == req[w]
           p == Periods[r.i]
           b == StateOf(boost[r.user][p], r.seen[p].resetsAt, r.eff, r.limits[p])
           h == HardLimit(r.eff.conf.boost, b, r.limits[p])
<1>1. r.pc = "check" /\ r \in JudgedRequest
  BY JudgedType DEF PassPeriod, TypeOK
<1>2. p \in Period /\ r.user \in User /\ r.limits[p] \in Nat
  BY <1>1, JudgedPeriod
<1>3. h \in Nat /\ h <= HardCap
  BY <1>1, <1>2, HardLimitCapped
<1>4. ~(Used(r.seen, r.user, p) >= h)
  BY <1>2 DEF PassPeriod, Exhausted
<1>5. Used(r.seen, r.user, p) \in Nat
  BY <1>2, SumType DEF Used
<1>6. QED
  BY <1>3, <1>4, <1>5, CeilingType

-----------------------------------------------------------------------------
(* The lock, the usage table and the snapshots *)

\* A request that stops, or has not begun, to be judged leaves the others' locks alone
LEMMA LockKept ==
    ASSUME TypeOK, LockHeld, NEW w \in Worker, NEW x, ~(x.pc \in {"boost", "grant", "check"}),
           req' = [req EXCEPT ![w] = x], UNCHANGED holder
    PROVE  LockHeld'
BY DEF TypeOK, LockHeld, Judging

LEMMA LockReleased ==
    ASSUME TypeOK, LockHeld, NEW w \in Worker, Judging(w), NEW x,
           ~(x.pc \in {"boost", "grant", "check"}), req' = [req EXCEPT ![w] = x],
           Unlock(req[w].user)
    PROVE  LockHeld'
<1>1. ASSUME NEW v \in Worker, Judging(v)' PROVE holder'[req'[v].user] = v
  <2>1. v # w /\ req'[v] = req[v] /\ Judging(v)
    BY <1>1 DEF TypeOK, Judging
  <2>2. holder[req[v].user] = v /\ holder[req[w].user] = w
    BY <2>1 DEF LockHeld
  <2>3. req[v].user \in User
    BY <2>1, JudgedType DEF TypeOK, Judging, JudgedRequest
  <2>4. QED
    BY <2>1, <2>2, <2>3 DEF Unlock, TypeOK
<1>2. QED
  BY <1>1 DEF LockHeld

LEMMA LockCarried ==
    ASSUME TypeOK, LockHeld, NEW w \in Worker, Judging(w), NEW x, x.user = req[w].user,
           req' = [req EXCEPT ![w] = x], UNCHANGED holder
    PROVE  LockHeld'
BY DEF TypeOK, LockHeld, Judging

\* The first pass changes nothing of a request but its step, its window and what it found
LEMMA FirstPass ==
    ASSUME TypeOK, NEW w \in Worker, BoostPeriod(w) \/ Grant(w)
    PROVE  /\ Judging(w)
           /\ UNCHANGED <<clock, cfg, snap, due, spent, holder, rep>>
           /\ \E x : /\ req' = [req EXCEPT ![w] = x]
                     /\ x.pc \in {"boost", "grant", "check"}
                     /\ x.user = req[w].user /\ x.seen = req[w].seen
                     /\ x.pc = "check" => x.i = 1
<1> DEFINE r == req[w]
           b == StateOf(boost[r.user][Periods[r.i]], r.seen[Periods[r.i]].resetsAt,
                        r.eff, r.limits[Periods[r.i]])
           go == [r EXCEPT !.pc = "grant", !.found = b]
           on == [r EXCEPT !.pc = "boost", !.found = NoBoost]
           Shape(x) == /\ x.pc \in {"boost", "grant", "check"}
                       /\ x.user = r.user /\ x.seen = r.seen
                       /\ x.pc = "check" => x.i = 1
<1>1. r \in JudgedRequest /\ r.pc \in {"boost", "grant"}
  BY JudgedType DEF BoostPeriod, Grant, TypeOK
<1>2. Judging(w) /\ UNCHANGED <<clock, cfg, snap, due, spent, holder, rep>>
  BY <1>1 DEF BoostPeriod, Grant, Judging
<1>3. Shape(Checking(r)) /\ Shape(go)
  BY <1>1 DEF Checking, JudgedRequest
<1>4. CASE BoostPeriod(w)
  <2>1. r.pc = "boost"
    BY <1>4 DEF BoostPeriod
  <2>2. Shape(Passed(r, Checking(r)))
    BY <1>1, <1>3, <2>1, PassedKeeps
  <2>3. req' = [req EXCEPT ![w] = Passed(r, Checking(r))] \/ req' = [req EXCEPT ![w] = go]
    BY <1>4 DEF BoostPeriod
  <2>4. QED
    BY <1>2, <1>3, <2>2, <2>3
<1>5. CASE Grant(w)
  <2>1. on \in JudgedRequest /\ on.pc = "boost" /\ on.user = r.user /\ on.seen = r.seen
    BY <1>1 DEF JudgedRequest
  <2>2. Shape(Passed(on, Checking(r)))
    BY <1>3, <2>1, PassedKeeps
  <2>3. req' = [req EXCEPT ![w] = Passed(on, Checking(r))]
    BY <1>5 DEF Grant
  <2>4. QED
    BY <1>2, <2>2, <2>3
<1>6. QED
  BY <1>4, <1>5

LEMMA LockStep == TypeOK /\ LockHeld /\ [Next]_vars => LockHeld'
<1> SUFFICES ASSUME TypeOK, LockHeld, [Next]_vars PROVE LockHeld'
  OBVIOUS
<1>1. CASE UNCHANGED <<holder, req>>
  BY <1>1 DEF LockHeld, Judging
<1>2. ASSUME NEW w \in Worker, NEW u \in User, Authenticate(w, u) PROVE LockHeld'
  <2> DEFINE x == [pc |-> "authed", user |-> u, own |-> cfg.conf.own[u]]
  <2>1. ~(x.pc \in {"boost", "grant", "check"})
    OBVIOUS
  <2>2. QED
    BY <1>2, <2>1, LockKept DEF Authenticate
<1>3. ASSUME NEW w \in Worker, Refuse(w) \/ EndUncharged(w) \/ RecordUsage(w)
      PROVE  LockHeld'
  <2>1. ~(Idle.pc \in {"boost", "grant", "check"})
    BY DEF Idle
  <2>2. QED
    BY <1>3, <2>1, LockKept DEF Refuse, EndUncharged, RecordUsage
<1>4. ASSUME NEW w \in Worker, ReadSnapshot(w) PROVE LockHeld'
  <2> DEFINE x == [pc |-> "wait", user |-> req[w].user, own |-> req[w].own,
                   seen |-> snap, at |-> clock]
  <2>1. ~(x.pc \in {"boost", "grant", "check"})
    OBVIOUS
  <2>2. QED
    BY <1>4, <2>1, LockKept DEF ReadSnapshot
<1>5. ASSUME NEW w \in Worker, Lock(w) PROVE LockHeld'
  <2> DEFINE x == [pc |-> "boost", user |-> req[w].user, seen |-> req[w].seen,
                   at |-> req[w].at, eff |-> cfg, i |-> 1, found |-> NoBoost,
                   limits |-> EffectiveLimits(cfg.conf, req[w].own)]
             u == req[w].user
  <2>1. u \in User
    BY <1>5, RequestFields DEF Lock, TypeOK
  <2>2. /\ holder[u] = Nobody /\ holder' = [holder EXCEPT ![u] = w]
        /\ req' = [req EXCEPT ![w] = x]
    BY <1>5 DEF Lock
  <2>3. ASSUME NEW v \in Worker, Judging(v)' PROVE holder'[req'[v].user] = v
    <3>1. CASE v = w
      BY <2>1, <2>2, <3>1 DEF TypeOK
    <3>2. CASE v # w
      <4>1. req'[v] = req[v]
        BY <2>2, <3>2 DEF TypeOK
      <4>2. Judging(v)
        BY <2>3, <4>1 DEF Judging
      <4>3. holder[req[v].user] = v
        BY <4>2 DEF LockHeld
      <4>4. req[v].user # u
        BY <2>2, <4>3, WorkerAssumption
      <4>5. QED
        BY <2>2, <4>1, <4>3, <4>4 DEF TypeOK
    <3>3. QED
      BY <3>1, <3>2
  <2>4. QED
    BY <2>3 DEF LockHeld
<1>6. ASSUME NEW w \in Worker, BoostPeriod(w) \/ Grant(w) PROVE LockHeld'
  BY <1>6, FirstPass, LockCarried
<1>7. ASSUME NEW w \in Worker, PassPeriod(w) PROVE LockHeld'
  <2> DEFINE r == req[w]
             up == [pc |-> "upstream", user |-> r.user, at |-> r.at]
  <2>1. r \in JudgedRequest /\ Judging(w)
    BY <1>7, JudgedType DEF PassPeriod, TypeOK, Judging
  <2>2. CASE r.i < Len(Periods)
    <3>1. Passed(r, up).user = r.user
      BY <2>1, PassedKeeps
    <3>2. UNCHANGED holder /\ req' = [req EXCEPT ![w] = Passed(r, up)]
      BY <1>7, <2>2 DEF PassPeriod
    <3>3. QED
      BY <2>1, <3>1, <3>2, LockCarried
  <2>3. CASE ~(r.i < Len(Periods))
    <3>1. Unlock(r.user) /\ req' = [req EXCEPT ![w] = up]
      BY <1>7, <2>3 DEF PassPeriod, Passed
    <3>2. ~(up.pc \in {"boost", "grant", "check"})
      OBVIOUS
    <3>3. QED
      BY <2>1, <3>1, <3>2, LockReleased
  <2>4. QED
    BY <2>2, <2>3
<1>8. ASSUME NEW w \in Worker, RejectPeriod(w) PROVE LockHeld'
  <2>1. Judging(w) /\ ~(Idle.pc \in {"boost", "grant", "check"})
    BY <1>8 DEF RejectPeriod, Judging, Idle
  <2>2. Unlock(req[w].user) /\ req' = [req EXCEPT ![w] = Idle]
    BY <1>8 DEF RejectPeriod
  <2>3. QED
    BY <2>1, <2>2, LockReleased
<1>9. ASSUME NEW w \in Worker, Answer(w) PROVE LockHeld'
  <2>1. PICK cost \in Cost : req' = [req EXCEPT ![w] =
           [pc |-> "record", user |-> req[w].user, at |-> req[w].at, cost |-> cost]]
    BY <1>9 DEF Answer
  <2> DEFINE x == [pc |-> "record", user |-> req[w].user, at |-> req[w].at, cost |-> cost]
  <2>2. ~(x.pc \in {"boost", "grant", "check"})
    OBVIOUS
  <2>3. QED
    BY <1>9, <2>1, <2>2, LockKept DEF Answer
<1>restart. CASE Restart
  BY <1>restart DEF Restart, Idle, LockHeld, Judging
<1>10. QED
  BY <1>1, <1>2, <1>3, <1>4, <1>5, <1>6, <1>7, <1>8, <1>9, <1>restart
     DEF Next, Step, Report, Tick, Reload, Refresh, ReportRead, ReportConfig,
         ReportPeriod, vars

LEMMA SuffixStep == TypeOK /\ SuffixSums /\ [Next]_vars => SuffixSums'
<1> SUFFICES ASSUME TypeOK, SuffixSums, [Next]_vars PROVE SuffixSums'
  OBVIOUS
<1>1. CASE UNCHANGED spent
  BY <1>1 DEF SuffixSums
<1>2. ASSUME NEW w \in Worker, RecordUsage(w) PROVE SuffixSums'
  <2> DEFINE u == req[w].user
             at == req[w].at
             cost == req[w].cost
  <2>1. u \in User /\ at \in Nat /\ cost \in Nat
    <3>1. u \in User /\ at \in Time /\ cost \in Cost
      BY <1>2, RequestFields DEF RecordUsage, TypeOK
    <3>2. Time \subseteq Nat /\ Cost \subseteq Nat
      BY CostAssumption, ClockAssumption DEF Time
    <3>3. QED
      BY <3>1, <3>2
  <2>2. spent' = Charged(u, cost, at) \/ spent' = spent
    BY <1>2 DEF RecordUsage
  <2>3. ASSUME spent' = Charged(u, cost, at), NEW v \in User, NEW s \in Time,
               NEW t \in Time, s <= t
        PROVE  spent'[v][t] <= spent'[v][s]
    <3>1. spent[v][t] \in Nat /\ spent[v][s] \in Nat /\ s \in Nat /\ t \in Nat
      <4>1. spent[v][t] \in Nat /\ spent[v][s] \in Nat
        BY DEF TypeOK
      <4>2. s \in Nat /\ t \in Nat
        BY ClockAssumption DEF Time
      <4>3. QED
        BY <4>1, <4>2
    <3>2. spent[v][t] <= spent[v][s]
      BY <2>3 DEF SuffixSums
    <3>3. CASE v # u
      BY <2>3, <3>2, <3>3 DEF Charged, TypeOK
    <3>4. CASE v = u
      <4>1. /\ spent'[v][t] = IF t <= at THEN spent[v][t] + cost ELSE spent[v][t]
            /\ spent'[v][s] = IF s <= at THEN spent[v][s] + cost ELSE spent[v][s]
        BY <2>1, <2>3, <3>4 DEF Charged, TypeOK
      <4>2. QED
        BY <2>1, <2>3, <3>1, <3>2, <4>1
    <3>5. QED
      BY <3>3, <3>4
  <2>4. QED
    BY <1>1, <2>2, <2>3 DEF SuffixSums
<1>3. QED
  BY <1>1, <1>2 DEF Next, Step, Report, Tick, Reload, Refresh, Restart, Authenticate, Refuse,
     ReadSnapshot, Lock, BoostPeriod, Grant, PassPeriod, RejectPeriod, EndUncharged, Answer,
     ReportRead, ReportConfig, ReportPeriod, vars

\* A refresh sets no reset time back
LEMMA RefreshForward ==
    ASSUME TypeOK, Refresh, NEW p \in Period
    PROVE  due[p] \in Nat /\ due'[p] \in Nat /\ due[p] <= due'[p]
<1>1. PICK resets \in [Period -> clock + 1 .. clock + Horizon] :
         NextReset(p, resets[p]) /\ due' = resets
  BY DEF Refresh
<1>2. clock \in Nat /\ due[p] \in Nat
  BY ClockAssumption DEF TypeOK, Time
<1>3. QED
  BY <1>1, <1>2, ClockAssumption DEF NextReset

\* A refresh starts no window earlier than it was
LEMMA StartsForward ==
    ASSUME TypeOK, Refresh, NEW p \in Period
    PROVE  /\ CurrentStart(p) \in Nat /\ CurrentStart(p)' \in Nat
           /\ CurrentStart(p) <= CurrentStart(p)'
<1>1. due[p] \in Nat /\ due'[p] \in Nat /\ due[p] <= due'[p]
  BY RefreshForward
<1>2. QED
  BY <1>1, WindowStartMonotone, WindowStartType DEF CurrentStart

LEMMA SnapshotKept ==
    ASSUME [Next]_vars, ~Refresh, ~Restart PROVE UNCHANGED due /\ UNCHANGED snap
BY DEF Next, Step, Report, Tick, Reload, Authenticate, Refuse, ReadSnapshot, Lock, BoostPeriod,
   Grant, PassPeriod, RejectPeriod, EndUncharged, Answer, RecordUsage, ReportRead, ReportConfig,
   ReportPeriod, vars

\* The snapshot in force is the latest there was
LEMMA SnapshotIsDue ==
    ASSUME SnapshotsAdvance, [Next]_vars, snap' # NoSnapshot, NEW p \in Period
    PROVE  snap'[p].resetsAt = due'[p]
<1>1. CASE Refresh
  BY <1>1 DEF Refresh
<1>2. CASE Restart
  BY <1>2 DEF Restart
<1>3. CASE ~Refresh /\ ~Restart
  BY <1>3, SnapshotKept DEF SnapshotsAdvance
<1>4. QED
  BY <1>1, <1>2, <1>3

LEMMA SnapshotsStep == TypeOK /\ SnapshotsAdvance /\ [Next]_vars => SnapshotsAdvance'
<1> SUFFICES ASSUME TypeOK, SnapshotsAdvance, [Next]_vars,
                    NEW w \in Worker, req'[w].pc \in {"wait", "boost", "grant", "check"},
                    NEW p \in Period
             PROVE  req'[w].seen[p].resetsAt <= due'[p]
  BY SnapshotIsDue DEF SnapshotsAdvance
<1>1. CASE Refresh
  <2>1. req'[w] = req[w] /\ req[w].pc \in {"wait", "boost", "grant", "check"}
    BY <1>1 DEF Refresh
  <2>2. req[w].seen \in Snapshot
    <3>1. req[w] \in Request
      BY DEF TypeOK
    <3>2. QED
      BY <2>1, <3>1, RequestFields, JudgedType DEF JudgedRequest
  <2>3. req[w].seen[p].resetsAt \in Nat /\ req[w].seen[p].resetsAt <= due[p]
    BY <2>1, <2>2 DEF SnapshotsAdvance, Snapshot, Cap
  <2>4. due[p] \in Nat /\ due'[p] \in Nat /\ due[p] <= due'[p]
    BY <1>1, RefreshForward
  <2>5. QED
    BY <2>1, <2>3, <2>4
<1>restart. CASE Restart
  BY <1>restart DEF Restart, Idle
<1>2. CASE due' = due /\ req'[w] = req[w]
  BY <1>2 DEF SnapshotsAdvance
<1>3. CASE ReadSnapshot(w)
  <2>1. req'[w].seen = snap /\ snap \in Snapshot /\ snap # NoSnapshot /\ due' = due
    BY <1>3, MarkerAssumption DEF ReadSnapshot, TypeOK
  <2>2. snap[p].resetsAt = due[p] /\ due[p] \in Nat
    BY <2>1 DEF SnapshotsAdvance, TypeOK
  <2>3. QED
    BY <2>1, <2>2
<1>4. CASE Lock(w)
  BY <1>4 DEF Lock, TypeOK, SnapshotsAdvance
<1>5. CASE BoostPeriod(w) \/ Grant(w)
  <2>1. Judging(w) /\ due' = due /\ req'[w].seen = req[w].seen
    BY <1>5, FirstPass DEF TypeOK
  <2>2. QED
    BY <2>1 DEF SnapshotsAdvance, Judging
<1>pass. CASE PassPeriod(w)
  <2> DEFINE r == req[w]
             up == [pc |-> "upstream", user |-> r.user, at |-> r.at]
  <2>1. r \in JudgedRequest /\ r.pc = "check" /\ due' = due
    BY <1>pass, JudgedType DEF PassPeriod, TypeOK
  <2>2. req'[w] = Passed(r, up)
    BY <1>pass DEF PassPeriod, TypeOK
  <2>3. up.pc = "upstream"
    OBVIOUS
  <2>4. Passed(r, up) # up
    BY <2>2, <2>3
  <2>5. req'[w].seen = r.seen
    BY <2>1, <2>2, <2>4, PassedKeeps
  <2>6. QED
    BY <2>1, <2>5 DEF SnapshotsAdvance
<1>6. ASSUME NEW v \in Worker, Step(v), v # w PROVE due' = due /\ req'[w] = req[w]
  BY <1>6 DEF Step, Authenticate, Refuse, ReadSnapshot, Lock, BoostPeriod, Grant, PassPeriod,
     RejectPeriod, EndUncharged, Answer, RecordUsage, TypeOK
<1>7. CASE Step(w)
  <2>1. ~(RejectPeriod(w) \/ EndUncharged(w) \/ RecordUsage(w) \/ Refuse(w))
    BY DEF RejectPeriod, EndUncharged, RecordUsage, Refuse, Idle, TypeOK
  <2>2. ~Answer(w) /\ \A u \in User : ~Authenticate(w, u)
    BY DEF Answer, Authenticate, TypeOK
  <2>3. QED
    BY <1>3, <1>4, <1>5, <1>pass, <1>7, <2>1, <2>2 DEF Step
<1>8. QED
  BY <1>1, <1>restart, <1>2, <1>6, <1>7 DEF Next, Report, Tick, Reload, ReportRead, ReportConfig,
     ReportPeriod, vars

-----------------------------------------------------------------------------
(* The check and the charge *)

BaseInv == TypeOK /\ LockHeld /\ SuffixSums /\ SnapshotsAdvance /\ TierInv

\* The windows a request has passed stay under the cap until its verdict
LEMMA ChecksStep ==
    ASSUME DBReadFails = FALSE
    PROVE  BaseInv /\ ChecksStayTrue /\ [Next]_vars => ChecksStayTrue'
<1> SUFFICES ASSUME BaseInv, ChecksStayTrue, [Next]_vars,
                    NEW w \in Worker, req'[w].pc = "check",
                    NEW j \in 1 .. req'[w].i - 1,
                    req'[w].limits[Periods[j]] > 0
             PROVE  Used(req[w].seen, req[w].user, Periods[j])' < HardCap
  BY DEF ChecksStayTrue
<1> USE DEF BaseInv
<1> DEFINE r == req[w]
           up == [pc |-> "upstream", user |-> r.user, at |-> r.at]
<1>1. CASE UNCHANGED <<spent, req>>
  <2>1. Used(req[w].seen, req[w].user, Periods[j]) < HardCap
    BY <1>1 DEF ChecksStayTrue
  <2>2. QED
    BY <1>1, <2>1 DEF Used, UserWindowSum
<1>2. CASE req'[w] = r /\ UNCHANGED spent
  <2>1. Used(req[w].seen, req[w].user, Periods[j]) < HardCap
    BY <1>2 DEF ChecksStayTrue
  <2>2. QED
    BY <1>2, <2>1 DEF Used, UserWindowSum
<1>3. CASE BoostPeriod(w) \/ Grant(w)
  <2>1. req'[w].i = 1
    BY <1>3, FirstPass DEF TypeOK
  <2>2. QED
    BY <2>1
<1>4. CASE PassPeriod(w)
  <2>1. r \in JudgedRequest /\ r.pc = "check" /\ UNCHANGED spent
    BY <1>4, JudgedType DEF PassPeriod, TypeOK
  <2>2. req'[w] = Passed(r, up) /\ up.pc = "upstream"
    BY <1>4 DEF PassPeriod, TypeOK
  <2>3. Passed(r, up) # up
    BY <2>2
  <2>4. /\ req'[w].i = r.i + 1 /\ req'[w].limits = r.limits
        /\ req'[w].user = r.user /\ req'[w].seen = r.seen
    BY <2>1, <2>2, <2>3, PassedKeeps
  <2>5. r.i \in Nat
    BY <2>1, PeriodAssumption DEF JudgedRequest
  <2>6. Used(r.seen, r.user, Periods[j]) < HardCap
    <3>1. CASE j = r.i
      BY <1>4, <2>4, <3>1, PassedWindow
    <3>2. CASE j # r.i
      <4>1. j \in 1 .. r.i - 1
        BY <2>4, <2>5, <3>2
      <4>2. QED
        BY <2>1, <2>4, <4>1 DEF ChecksStayTrue
    <3>3. QED
      BY <3>1, <3>2
  <2>7. QED
    BY <2>1, <2>4, <2>6 DEF Used, UserWindowSum
<1>5. ASSUME NEW v \in Worker, RecordUsage(v) PROVE Used(req[w].seen, req[w].user, Periods[j])' < HardCap
  <2>1. req[v].pc = "record" /\ req[v].user \in User /\ holder[req[v].user] = Nobody
    BY <1>5, RequestFields DEF RecordUsage, TypeOK
  <2>2. v # w /\ req'[w] = r
    BY <1>5 DEF RecordUsage, Idle, TypeOK
  <2>3. r.user # req[v].user
    BY <2>1, <2>2, WorkerAssumption DEF LockHeld, Judging
  <2>4. spent'[r.user] = spent[r.user]
    <3>1. r.user \in User
      BY <2>2, JudgedType DEF JudgedRequest, TypeOK
    <3>2. spent' = spent \/ spent' = Charged(req[v].user, req[v].cost, req[v].at)
      BY <1>5 DEF RecordUsage
    <3>3. QED
      BY <2>1, <2>3, <3>1, <3>2 DEF Charged, TypeOK
  <2>5. Used(req[w].seen, req[w].user, Periods[j]) < HardCap
    BY <2>2 DEF ChecksStayTrue
  <2>6. QED
    BY <2>2, <2>4, <2>5 DEF Used, UserWindowSum
<1>6. ASSUME NEW v \in Worker, Step(v), v # w, ~RecordUsage(v)
      PROVE  req'[w] = r /\ UNCHANGED spent
  BY <1>6 DEF Step, Authenticate, Refuse, ReadSnapshot, Lock, BoostPeriod, Grant, PassPeriod,
     RejectPeriod, EndUncharged, Answer, TypeOK
<1>7. ASSUME Step(w) PROVE BoostPeriod(w) \/ Grant(w) \/ PassPeriod(w)
  <2>1. ~(RejectPeriod(w) \/ EndUncharged(w) \/ RecordUsage(w) \/ Refuse(w))
    BY DEF RejectPeriod, EndUncharged, RecordUsage, Refuse, Idle, TypeOK
  <2>2. ~Answer(w) /\ ~ReadSnapshot(w) /\ ~Lock(w) /\ \A u \in User : ~Authenticate(w, u)
    BY DEF Answer, Authenticate, ReadSnapshot, Lock, TypeOK
  <2>3. QED
    BY <1>7, <2>1, <2>2 DEF Step
<1>8. ~Restart
  BY DEF Restart, Idle
<1>9. QED
  BY <1>1, <1>2, <1>3, <1>4, <1>5, <1>6, <1>7, <1>8 DEF Next, Report, Tick, Reload, Refresh,
     ReportRead, ReportConfig, ReportPeriod, vars

LEMMA ProductMonotone ==
    ASSUME NEW c \in Nat, NEW m \in Nat, NEW n \in Nat, m <= n
    PROVE  c * m <= c * n /\ c * m \in Nat /\ c * n \in Nat
<1>1. PICK d \in Nat : n = m + d
  <2>1. n - m \in Nat /\ n = m + (n - m)
    OBVIOUS
  <2>2. QED
    BY <2>1
<1>2. c * n = c * m + c * d
  BY <1>1
<1>3. c * m \in Nat /\ c * d \in Nat
  OBVIOUS
<1>4. QED
  BY <1>2, <1>3

LEMMA FewInFlight ==
    ASSUME NEW S, S \subseteq Worker
    PROVE  /\ IsFiniteSet(S) /\ Cardinality(S) \in Nat
           /\ Cardinality(Worker) \in Nat /\ Cardinality(S) <= Cardinality(Worker)
BY FS_Subset, FS_CardinalityType, WorkerAssumption

\* A step by which no window grows and no request goes upstream keeps the bound
LEMMA OvershootShrinks ==
    ASSUME TypeOK, TypeOK', OvershootBounded,
           NEW u \in User, NEW p \in Period, Metered(u, p),
           UsedNow(u, p)' <= UsedNow(u, p), InFlight(u)' \subseteq InFlight(u)
    PROVE  UsedNow(u, p)' + MaxCost * Cardinality(InFlight(u)')
               < HardCap + MaxCost * Cardinality(Worker)
<1> DEFINE m == Cardinality(InFlight(u)')
           n == Cardinality(InFlight(u))
<1>1. /\ m \in Nat /\ n \in Nat /\ m <= n /\ Cardinality(Worker) \in Nat
  <2>1. InFlight(u) \subseteq Worker
    BY DEF InFlight
  <2>2. IsFiniteSet(InFlight(u)) /\ n \in Nat /\ Cardinality(Worker) \in Nat
    BY <2>1, FewInFlight
  <2>3. QED
    BY <2>2, FS_Subset, FS_CardinalityType
<1>2. MaxCost \in Nat /\ HardCap \in Nat
  BY BoundAssumption
<1>3. MaxCost * m <= MaxCost * n /\ MaxCost * m \in Nat /\ MaxCost * n \in Nat
  BY <1>1, <1>2, ProductMonotone
<1>4. MaxCost * Cardinality(Worker) \in Nat
  BY <1>1, <1>2, ProductMonotone
<1>5. UsedNow(u, p) + MaxCost * n < HardCap + MaxCost * Cardinality(Worker)
  BY DEF OvershootBounded
<1>6. UsedNow(u, p) \in Nat /\ UsedNow(u, p)' \in Nat
  <2>1. UsedNow(u, p) \in Nat
    BY SumType DEF UsedNow
  <2>2. UsedNow(u, p)' \in Nat
    BY DEF UsedNow, UserWindowSum, TypeOK
  <2>3. QED
    BY <2>1, <2>2
<1>7. QED
  BY <1>2, <1>3, <1>4, <1>5, <1>6

\* An admission: the window was under the cap, and no more requests are in flight
\* than there are workers
LEMMA AdmissionBounded ==
    ASSUME NEW used \in Nat, used < HardCap, NEW S, S \subseteq Worker
    PROVE  used + MaxCost * Cardinality(S) < HardCap + MaxCost * Cardinality(Worker)
<1>1. /\ Cardinality(S) \in Nat /\ Cardinality(Worker) \in Nat
      /\ Cardinality(S) <= Cardinality(Worker)
  BY FewInFlight
<1>2. MaxCost \in Nat /\ HardCap \in Nat
  BY BoundAssumption
<1>3. /\ MaxCost * Cardinality(S) <= MaxCost * Cardinality(Worker)
      /\ MaxCost * Cardinality(S) \in Nat /\ MaxCost * Cardinality(Worker) \in Nat
  BY <1>1, <1>2, ProductMonotone
<1>4. QED
  BY <1>2, <1>3

\* A charge: what the window gains, the request leaving the flight gives back
LEMMA ChargeBounded ==
    ASSUME TypeOK, OvershootBounded, NEW u \in User, NEW p \in Period, Metered(u, p),
           NEW w \in InFlight(u), NEW cost \in Cost, NEW used \in Nat,
           used <= UsedNow(u, p) + cost
    PROVE  used + MaxCost * Cardinality(InFlight(u) \ {w})
               < HardCap + MaxCost * Cardinality(Worker)
<1> DEFINE n == Cardinality(InFlight(u))
           m == Cardinality(InFlight(u) \ {w})
<1>1. n \in Nat /\ m \in Nat /\ n = m + 1 /\ Cardinality(Worker) \in Nat
  <2>1. InFlight(u) \subseteq Worker
    BY DEF InFlight
  <2>2. IsFiniteSet(InFlight(u)) /\ n \in Nat /\ Cardinality(Worker) \in Nat
    BY <2>1, FewInFlight
  <2>3. m = n - 1 /\ IsFiniteSet(InFlight(u) \ {w})
    BY <2>2, FS_RemoveElement
  <2>4. m \in Nat
    BY <2>3, FS_CardinalityType
  <2>5. QED
    BY <2>2, <2>3, <2>4
<1>2. MaxCost \in Nat /\ HardCap \in Nat /\ cost \in Nat /\ cost <= MaxCost
  BY BoundAssumption, CostAssumption
<1>3. MaxCost * n = MaxCost * m + MaxCost
  BY <1>1, <1>2
<1>4. MaxCost * m \in Nat /\ MaxCost * Cardinality(Worker) \in Nat
  BY <1>1, <1>2, ProductMonotone
<1>5. UsedNow(u, p) + MaxCost * n < HardCap + MaxCost * Cardinality(Worker)
  BY DEF OvershootBounded
<1>6. UsedNow(u, p) \in Nat
  BY SumType DEF UsedNow
<1>7. QED
  BY <1>2, <1>3, <1>4, <1>5, <1>6

\* Once the last window has passed, every one of them is below the cap, also by the
\* snapshot that is in force by then
LEMMA AdmittedBelowCap ==
    ASSUME DBReadFails = FALSE, BaseInv, ChecksStayTrue, NEW w \in Worker, PassPeriod(w),
           ~(req[w].i < Len(Periods)), NEW p \in Period, Metered(req[w].user, p)
    PROVE  UsedNow(req[w].user, p) < HardCap
<1> USE DEF BaseInv
<1> DEFINE r == req[w]
           u == r.user
<1>1. r \in JudgedRequest /\ r.pc = "check" /\ u \in User
  BY JudgedType DEF PassPeriod, TypeOK, JudgedRequest
<1>2. r.i = Len(Periods)
  BY <1>1, PeriodAssumption DEF JudgedRequest
<1>3. PICK j \in 1 .. Len(Periods) : p = Periods[j]
  BY DEF Period
<1>4. r.limits[p] > 0
  <2>1. PICK c \in Conf : r.limits \in LimitsOf(c, u)
    BY <1>1 DEF TierInv, LimitsKnown, Judging
  <2>2. QED
    BY <2>1 DEF Metered
<1>5. Used(r.seen, u, p) < HardCap
  <2>1. CASE j = r.i
    BY <1>3, <1>4, <2>1, PassedWindow
  <2>2. CASE j # r.i
    <3>1. j \in 1 .. r.i - 1
      BY <1>2, <2>2, PeriodAssumption
    <3>2. QED
      BY <1>1, <1>3, <1>4, <3>1 DEF ChecksStayTrue
  <2>3. QED
    BY <2>1, <2>2
<1>6. r.seen[p].resetsAt \in Nat /\ due[p] \in Nat /\ r.seen[p].resetsAt <= due[p]
  BY <1>1 DEF SnapshotsAdvance, TypeOK, JudgedRequest, Snapshot, Cap
<1>7. UsedNow(u, p) <= Used(r.seen, u, p)
  <2>1. /\ WindowStart(r.seen[p], p) <= CurrentStart(p)
        /\ WindowStart(r.seen[p], p) \in Nat /\ CurrentStart(p) \in Nat
    BY <1>6, WindowStartMonotone, WindowStartType DEF CurrentStart
  <2>2. QED
    BY <1>1, <2>1, SumMonotone DEF UsedNow, Used
<1>8. UsedNow(u, p) \in Nat /\ Used(r.seen, u, p) \in Nat /\ HardCap \in Nat
  BY <1>1, SumType, CeilingType DEF Used, UsedNow
<1>9. QED
  BY <1>5, <1>7, <1>8

LEMMA OvershootStep ==
    ASSUME DBReadFails = FALSE
    PROVE  BaseInv /\ ChecksStayTrue /\ OvershootBounded /\ TypeOK' /\ [Next]_vars
               => OvershootBounded'
<1> SUFFICES ASSUME BaseInv, ChecksStayTrue, OvershootBounded, TypeOK', [Next]_vars,
                    NEW u \in User, NEW p \in Period, Metered(u, p)
             PROVE  UsedNow(u, p)' + MaxCost * Cardinality(InFlight(u)')
                        < HardCap + MaxCost * Cardinality(Worker)
  BY DEF OvershootBounded, Metered
<1> USE DEF BaseInv
<1>1. UsedNow(u, p) \in Nat
  BY SumType DEF UsedNow
<1>2. ASSUME UNCHANGED <<spent, due>>, InFlight(u)' \subseteq InFlight(u)
      PROVE  UsedNow(u, p)' + MaxCost * Cardinality(InFlight(u)')
                 < HardCap + MaxCost * Cardinality(Worker)
  <2>1. UsedNow(u, p)' = UsedNow(u, p)
    BY <1>2 DEF UsedNow, UserWindowSum, CurrentStart
  <2>2. QED
    BY <1>1, <1>2, <2>1, OvershootShrinks
<1>3. CASE UNCHANGED <<spent, due, req>>
  <2>1. InFlight(u)' \subseteq InFlight(u)
    BY <1>3 DEF InFlight
  <2>2. QED
    BY <1>2, <1>3, <2>1
<1>4. CASE Refresh
  <2>1. InFlight(u)' \subseteq InFlight(u) /\ UNCHANGED spent
    BY <1>4 DEF InFlight, Refresh
  <2>2. /\ CurrentStart(p) \in Nat /\ CurrentStart(p)' \in Nat
        /\ CurrentStart(p) <= CurrentStart(p)'
    BY <1>4, StartsForward
  <2>3. UserWindowSum(u, CurrentStart(p)') <= UsedNow(u, p)
    BY <2>2, SumMonotone DEF UsedNow
  <2>4. UsedNow(u, p)' <= UsedNow(u, p)
    BY <2>1, <2>3 DEF UsedNow, UserWindowSum
  <2>5. QED
    BY <2>1, <2>4, OvershootShrinks
<1>restart. CASE Restart
  <2>1. InFlight(u)' \subseteq InFlight(u) /\ UNCHANGED <<spent, due>>
    BY <1>restart DEF Restart, InFlight, Idle
  <2>2. QED
    BY <1>2, <2>1
<1>5. ASSUME NEW w \in Worker, NEW x, req' = [req EXCEPT ![w] = x],
             ~(x.pc \in {"upstream", "record"})
      PROVE  InFlight(u)' \subseteq InFlight(u)
  BY <1>5 DEF InFlight, TypeOK
<1>6. ASSUME NEW w \in Worker, NEW v \in User, Authenticate(w, v)
      PROVE  InFlight(u)' \subseteq InFlight(u) /\ UNCHANGED <<spent, due>>
  BY <1>6 DEF Authenticate, InFlight, TypeOK
<1>7. ASSUME NEW w \in Worker,
             Refuse(w) \/ RejectPeriod(w) \/ EndUncharged(w)
      PROVE  InFlight(u)' \subseteq InFlight(u) /\ UNCHANGED <<spent, due>>
  <2>1. ~(Idle.pc \in {"upstream", "record"})
    BY DEF Idle
  <2>2. req' = [req EXCEPT ![w] = Idle] /\ UNCHANGED <<spent, due>>
    BY <1>7 DEF Refuse, RejectPeriod, EndUncharged
  <2>3. QED
    BY <1>5, <2>1, <2>2
<1>8. ASSUME NEW w \in Worker, ReadSnapshot(w) \/ Lock(w)
      PROVE  InFlight(u)' \subseteq InFlight(u) /\ UNCHANGED <<spent, due>>
  <2> DEFINE wait == [pc |-> "wait", user |-> req[w].user, own |-> req[w].own,
                      seen |-> snap, at |-> clock]
             judge == [pc |-> "boost", user |-> req[w].user, seen |-> req[w].seen,
                       at |-> req[w].at, eff |-> cfg, i |-> 1, found |-> NoBoost,
                       limits |-> EffectiveLimits(cfg.conf, req[w].own)]
  <2>1. ~(wait.pc \in {"upstream", "record"}) /\ ~(judge.pc \in {"upstream", "record"})
    OBVIOUS
  <2>2. /\ \/ req' = [req EXCEPT ![w] = wait]
           \/ req' = [req EXCEPT ![w] = judge]
        /\ UNCHANGED <<spent, due>>
    BY <1>8 DEF ReadSnapshot, Lock
  <2>3. QED
    BY <1>5, <2>1, <2>2
<1>9. ASSUME NEW w \in Worker, BoostPeriod(w) \/ Grant(w)
      PROVE  InFlight(u)' \subseteq InFlight(u) /\ UNCHANGED <<spent, due>>
  <2>1. UNCHANGED <<spent, due>>
    BY <1>9, FirstPass
  <2>2. PICK x : req' = [req EXCEPT ![w] = x] /\ x.pc \in {"boost", "grant", "check"}
    BY <1>9, FirstPass
  <2>3. ~(x.pc \in {"upstream", "record"})
    BY <2>2
  <2>4. QED
    BY <1>5, <2>1, <2>2, <2>3
<1>10. ASSUME NEW w \in Worker, Answer(w)
       PROVE  InFlight(u)' \subseteq InFlight(u) /\ UNCHANGED <<spent, due>>
  BY <1>10 DEF Answer, InFlight, TypeOK
<1>11. ASSUME NEW w \in Worker, PassPeriod(w)
       PROVE  UsedNow(u, p)' + MaxCost * Cardinality(InFlight(u)')
                  < HardCap + MaxCost * Cardinality(Worker)
  <2> DEFINE r == req[w]
             up == [pc |-> "upstream", user |-> r.user, at |-> r.at]
  <2>1. r \in JudgedRequest /\ r.pc = "check" /\ UNCHANGED <<spent, due>>
    BY <1>11, JudgedType DEF PassPeriod, TypeOK
  <2>2. req' = [req EXCEPT ![w] = Passed(r, up)]
    BY <1>11 DEF PassPeriod
  <2>3. CASE r.i < Len(Periods)
    <3>1. Passed(r, up).pc = "check"
      BY <2>1, <2>3, PassedKeeps
    <3>2. QED
      BY <1>2, <1>5, <2>1, <2>2, <3>1
  <2>4. CASE ~(r.i < Len(Periods)) /\ r.user # u
    <3>1. Passed(r, up) = up
      BY <2>4 DEF Passed
    <3>2. InFlight(u)' \subseteq InFlight(u)
      BY <2>2, <2>4, <3>1 DEF InFlight, TypeOK
    <3>3. QED
      BY <1>2, <2>1, <3>2
  <2>5. CASE ~(r.i < Len(Periods)) /\ r.user = u
    <3>1. UsedNow(u, p) < HardCap
      BY <1>11, <2>5, AdmittedBelowCap DEF BaseInv
    <3>2. UsedNow(u, p)' = UsedNow(u, p)
      BY <2>1 DEF UsedNow, UserWindowSum, CurrentStart
    <3>3. InFlight(u)' \subseteq Worker
      BY DEF InFlight
    <3>4. QED
      BY <1>1, <3>1, <3>2, <3>3, AdmissionBounded
  <2>6. QED
    BY <2>3, <2>4, <2>5
<1>12. ASSUME NEW w \in Worker, RecordUsage(w)
       PROVE  UsedNow(u, p)' + MaxCost * Cardinality(InFlight(u)')
                  < HardCap + MaxCost * Cardinality(Worker)
  <2> DEFINE v == req[w].user
             cost == req[w].cost
             at == req[w].at
  <2>1. /\ req[w].pc = "record" /\ v \in User /\ cost \in Cost /\ at \in Time
        /\ req' = [req EXCEPT ![w] = Idle] /\ UNCHANGED due
    BY <1>12, RequestFields DEF RecordUsage, TypeOK
  <2>2. spent' = spent \/ spent' = Charged(v, cost, at)
    BY <1>12 DEF RecordUsage
  <2>3. ~(Idle.pc \in {"upstream", "record"})
    BY DEF Idle
  <2>4. InFlight(u)' \subseteq InFlight(u)
    BY <1>5, <2>1, <2>3
  <2>5. CASE v # u \/ spent' = spent
    <3>1. spent'[u] = spent[u]
      BY <2>1, <2>2, <2>5 DEF Charged, TypeOK
    <3>2. UsedNow(u, p)' = UsedNow(u, p)
      BY <2>1, <3>1 DEF UsedNow, UserWindowSum, CurrentStart
    <3>3. QED
      BY <1>1, <2>4, <3>2, OvershootShrinks
  <2>6. CASE v = u /\ spent' = Charged(u, cost, at)
    <3>1. w \in InFlight(u)
      BY <2>1, <2>6 DEF InFlight
    <3>2. InFlight(u)' = InFlight(u) \ {w}
      BY <2>1, <2>3 DEF InFlight, TypeOK
    <3>3. CurrentStart(p)' = CurrentStart(p)
      BY <2>1 DEF CurrentStart
    <3>4. UsedNow(u, p)' \in Nat
      BY DEF UsedNow, UserWindowSum, TypeOK
    <3>5. UsedNow(u, p)' <= UsedNow(u, p) + cost
      <4>1. cost \in Nat
        BY <2>1, CostAssumption
      <4>2. CASE CurrentStart(p) \in Time
        <5>1. spent'[u][CurrentStart(p)] <= spent[u][CurrentStart(p)] + cost
          <6>1. spent[u][CurrentStart(p)] \in Nat
            BY <4>2 DEF TypeOK
          <6>2. spent'[u][CurrentStart(p)]
                   = IF CurrentStart(p) <= at THEN spent[u][CurrentStart(p)] + cost
                                              ELSE spent[u][CurrentStart(p)]
            BY <2>6, <4>2 DEF Charged, TypeOK
          <6>3. QED
            BY <4>1, <6>1, <6>2
        <5>2. QED
          BY <3>3, <4>2, <5>1 DEF UsedNow, UserWindowSum
      <4>3. CASE CurrentStart(p) \notin Time
        BY <3>3, <4>1, <4>3 DEF UsedNow, UserWindowSum
      <4>4. QED
        BY <4>2, <4>3
    <3>6. QED
      BY <2>1, <3>1, <3>2, <3>4, <3>5, ChargeBounded
  <2>7. QED
    BY <2>2, <2>5, <2>6
<1>13. QED
  BY <1>2, <1>3, <1>4, <1>restart, <1>6, <1>7, <1>8, <1>9, <1>10, <1>11, <1>12
     DEF Next, Step, Report, Tick, Reload, ReportRead, ReportConfig, ReportPeriod, vars

LEMMA QuotaInit == Init => QuotaInv
<1> SUFFICES ASSUME Init PROVE QuotaInv
  OBVIOUS
<1>1. LockHeld /\ SnapshotsAdvance /\ ChecksStayTrue
  BY DEF Init, Idle, LockHeld, SnapshotsAdvance, ChecksStayTrue, Judging
<1>2. SuffixSums
  BY DEF Init, SuffixSums
<1>3. TierInv
  BY DEF Init, Idle, TierInv, LimitsKnown, PointersKnown, GrantsKnown, PoliciesKnown, TiersBounded,
         Judging
<1>4. OvershootBounded
  <2> SUFFICES ASSUME NEW u \in User, NEW p \in Period, Metered(u, p)
               PROVE  UsedNow(u, p) + MaxCost * Cardinality(InFlight(u))
                          < HardCap + MaxCost * Cardinality(Worker)
    BY DEF OvershootBounded
  <2>1. UsedNow(u, p) = 0
    BY DEF Init, UsedNow, UserWindowSum
  <2>2. 0 < HardCap
    <3>1. PICK c \in Conf : TRUE
      BY DEF Init
    <3>2. PICK l \in LimitsOf(c, u) : TRUE
      BY DEF LimitsOf
    <3>3. l[p] > 0 /\ l[p] <= Ceiling[0] /\ l \in Limits
      BY LimitsCapped DEF Metered
    <3>4. l[p] \in Nat
      BY <3>3 DEF Limits
    <3>5. 0 \in 0 .. MaxLevel /\ Ceiling[0] \in Nat /\ Ceiling[0] <= HardCap
          /\ HardCap \in Nat
      BY CeilingType
    <3>6. QED
      BY <3>3, <3>4, <3>5
  <2>3. InFlight(u) \subseteq Worker
    BY DEF InFlight
  <2>4. QED
    BY <2>1, <2>2, <2>3, AdmissionBounded
<1>5. QED
  BY <1>1, <1>2, <1>3, <1>4 DEF QuotaInv

\* With a database that answers: the lock, the usage table, the snapshots, the boosts, the
\* passes and the spending together survive every step, whatever the interleaving
THEOREM QuotaInvariant ==
    ASSUME DBReadFails = FALSE
    PROVE  Spec => []QuotaInv
<1>1. Init => QuotaInv
  BY QuotaInit
<1>2. TypeOK /\ TypeOK' /\ QuotaInv /\ [Next]_vars => QuotaInv'
  BY LockStep, SuffixStep, SnapshotsStep, TierStep, ChecksStep, OvershootStep
     DEF QuotaInv, BaseInv
<1>3. QED
  BY <1>1, <1>2, TypeCorrect, PTL DEF Spec

\* With a database that answers, no interleaving of admissions, charges, reloads,
\* refreshes and reports takes a user further past the largest hard limit than the
\* requests in flight at once may cost, in any window
THEOREM QuotaKept ==
    ASSUME DBReadFails = FALSE
    PROVE  Spec => []OvershootBounded
<1>1. QuotaInv => OvershootBounded
  BY DEF QuotaInv
<1>2. QED
  BY <1>1, QuotaInvariant, PTL

\* With a database that answers, a window that passed is still under the cap when
\* the verdict falls
THEOREM VerdictIsOneDecision ==
    ASSUME DBReadFails = FALSE
    PROVE  Spec => []ChecksStayTrue
<1>1. QuotaInv => ChecksStayTrue
  BY DEF QuotaInv
<1>2. QED
  BY <1>1, QuotaInvariant, PTL

-----------------------------------------------------------------------------
(* What one step may do *)

\* A request is judged, goes on and is charged by its own steps only; all that another
\* step can do to it is to end it with the process
LEMMA OwnSteps ==
    ASSUME TypeOK, [Next]_vars, NEW w \in Worker, req'[w] # req[w]
    PROVE  Restart \/ Step(w)
<1>1. CASE Tick \/ Reload \/ Refresh \/ UNCHANGED vars
  BY <1>1 DEF Tick, Reload, Refresh, vars
<1>2. ASSUME NEW k \in Reporter, Report(k) PROVE FALSE
  BY <1>2 DEF Report, ReportRead, ReportConfig, ReportPeriod
<1>3. ASSUME NEW v \in Worker, Step(v) PROVE v = w
  <2> SUFFICES \E x : req' = [req EXCEPT ![v] = x]
    BY DEF TypeOK
  <2>1. CASE \E u \in User : Authenticate(v, u)
    BY <2>1 DEF Authenticate
  <2>2. CASE Refuse(v) \/ ReadSnapshot(v)
    BY <2>2 DEF Refuse, ReadSnapshot
  <2>3. CASE Lock(v)
    BY <2>3 DEF Lock
  <2>4. CASE BoostPeriod(v) \/ Grant(v)
    BY <2>4, FirstPass
  <2>5. CASE PassPeriod(v)
    <3>1. req' = [req EXCEPT ![v] = Passed(req[v], [pc |-> "upstream", user |-> req[v].user,
                                                    at |-> req[v].at])]
      BY <2>5 DEF PassPeriod
    <3>2. QED
      BY <3>1
  <2>6. CASE RejectPeriod(v) \/ EndUncharged(v)
    <3>1. req' = [req EXCEPT ![v] = Idle]
      BY <2>6 DEF RejectPeriod, EndUncharged
    <3>2. QED
      BY <3>1
  <2>7. CASE Answer(v)
    BY <2>7 DEF Answer
  <2>8. CASE RecordUsage(v)
    BY <2>8 DEF RecordUsage
  <2>9. QED
    BY <1>3, <2>1, <2>2, <2>3, <2>4, <2>5, <2>6, <2>7, <2>8 DEF Step
<1>4. QED
  BY <1>1, <1>2, <1>3 DEF Next

LEMMA OldChargeElsewhere ==
    ASSUME TypeOK, NEW w \in Worker, RecordUsage(w), NEW u \in User, NEW p \in Period,
           req[w].user = u, req[w].at < CurrentStart(p)
    PROVE  UsedNow(u, p)' = UsedNow(u, p)
<1> DEFINE r == req[w]
           start == CurrentStart(p)
<1>1. r.at \in Time /\ r.cost \in Cost /\ UNCHANGED due
  BY RequestFields DEF RecordUsage, TypeOK
<1>2. CurrentStart(p)' = start /\ start \in Nat
  BY <1>1, CurrentStartType DEF CurrentStart
<1>3. CASE spent' = spent
  BY <1>2, <1>3 DEF UsedNow, UserWindowSum
<1>4. CASE spent' = Charged(u, r.cost, r.at)
  <2>1. start \in Time => spent'[u][start] = spent[u][start]
    BY <1>1, <1>2, <1>4, ClockAssumption DEF Charged, TypeOK, Time
  <2>2. QED
    BY <1>2, <2>1 DEF UsedNow, UserWindowSum
<1>5. QED
  BY <1>3, <1>4 DEF RecordUsage

\* A charge that comes after a rollover, however late, is never part of a window that
\* began after its request was judged; nor does a failed INSERT or a restart add to one
THEOREM RolloverKeepsCharges == Spec => RolloverNotCharged
<1> DEFINE Kept(w, u, p) ==
              /\ req[w].pc = "record" /\ req[w].user = u
              /\ req'[w] = Idle
              /\ req[w].at < CurrentStart(p)
              => UsedNow(u, p)' = UsedNow(u, p)
           Step1 == \A w \in Worker, u \in User, p \in Period : Kept(w, u, p)
<1>1. ASSUME TypeOK, [Next]_vars PROVE Step1
  <2> SUFFICES ASSUME NEW w \in Worker, NEW u \in User, NEW p \in Period,
                      req[w].pc = "record", req[w].user = u, req'[w] = Idle,
                      req[w].at < CurrentStart(p)
               PROVE  UsedNow(u, p)' = UsedNow(u, p)
    OBVIOUS
  <2>1. req'[w] # req[w]
    BY DEF Idle
  <2>2. CASE Restart
    BY <2>2 DEF Restart, UsedNow, UserWindowSum, CurrentStart
  <2>3. CASE Step(w)
    <3>1. RecordUsage(w)
      BY <2>3 DEF Step, Authenticate, Refuse, ReadSnapshot, Lock, BoostPeriod, Grant,
         PassPeriod, RejectPeriod, EndUncharged, Answer
    <3>2. QED
      BY <1>1, <3>1, OldChargeElsewhere
  <2>4. QED
    BY <1>1, <2>1, <2>2, <2>3, OwnSteps
<1>2. TypeOK /\ [Next]_vars => [Step1]_vars
  BY <1>1
<1>3. Spec => [][Step1]_vars
  BY <1>2, TypeCorrect, PTL DEF Spec
<1>4. QED
  BY <1>3 DEF RolloverNotCharged

LEMMA PassNeedsBoost ==
    ASSUME DBReadFails = FALSE, NEW w \in Worker, PassPeriod(w),
           req[w].limits[Periods[req[w].i]] > 0,
           Used(req[w].seen, req[w].user, Periods[req[w].i]) >=
               HardLimit(req[w].eff.conf.boost, NoBoost, req[w].limits[Periods[req[w].i]])
    PROVE  LET r == req[w]
               p == Periods[r.i]
           IN  /\ boost[r.user][p] # NoBoost
               /\ boost[r.user][p].resetsAt = r.seen[p].resetsAt
               /\ boost[r.user][p].revision = r.eff.rev
<1> DEFINE r == req[w]
           p == Periods[r.i]
           entry == boost[r.user][p]
           b == StateOf(entry, r.seen[p].resetsAt, r.eff, r.limits[p])
<1>1. r.limits[p] # 0
  OBVIOUS
<1>2. ~(Used(r.seen, r.user, p) >= HardLimit(r.eff.conf.boost, b, r.limits[p]))
  BY <1>1 DEF PassPeriod, Exhausted
<1>3. b # NoBoost
  BY <1>2
<1>4. Honoured(entry, r.seen[p].resetsAt, r.eff, r.limits[p])
  BY <1>3 DEF StateOf
<1>5. QED
  BY <1>4 DEF Honoured

\* With a database that answers, no boost of another cycle, configuration or limit lets
\* a request pass: not one a reload or a report left behind, nor one of a worker that
\* judged by an older snapshot
THEOREM PassesAreCovered ==
    ASSUME DBReadFails = FALSE
    PROVE  Spec => BeyondOverageNeedsLiveBoost
<1> DEFINE Covered ==
              \A w \in Worker :
                 LET r == req[w]
                     p == Periods[r.i]
                 IN  /\ r.pc = "check"
                     /\ req'[w] # Idle /\ req'[w] # r
                     /\ r.limits[p] > 0
                     /\ Used(r.seen, r.user, p) >=
                            HardLimit(r.eff.conf.boost, NoBoost, r.limits[p])
                     => /\ boost[r.user][p] # NoBoost
                        /\ boost[r.user][p].resetsAt = r.seen[p].resetsAt
                        /\ boost[r.user][p].revision = r.eff.rev
<1>1. ASSUME TypeOK, [Next]_vars PROVE Covered
  <2>1. ASSUME NEW w \in Worker, req[w].pc = "check", req'[w] # Idle, req'[w] # req[w]
        PROVE  PassPeriod(w)
    <3>1. ~Restart
      BY <2>1 DEF Restart
    <3>2. Step(w)
      BY <1>1, <2>1, <3>1, OwnSteps
    <3>3. ~RejectPeriod(w)
      BY <1>1, <2>1 DEF RejectPeriod, TypeOK
    <3>4. QED
      BY <2>1, <3>2, <3>3 DEF Step, Authenticate, Refuse, ReadSnapshot, Lock, BoostPeriod,
         Grant, EndUncharged, Answer, RecordUsage
  <2>2. QED
    BY <2>1, PassNeedsBoost
<1>2. TypeOK /\ [Next]_vars => [Covered]_vars
  BY <1>1
<1>3. Spec => [][Covered]_vars
  BY <1>2, TypeCorrect, PTL DEF Spec
<1>4. QED
  BY <1>3 DEF BeyondOverageNeedsLiveBoost

-----------------------------------------------------------------------------
(***************************************************************************)
(* The admission path implements Quota: its passes, locks, snapshots and   *)
(* boosts are stutters, but for the last window that passes, the charge    *)
(* and the refresh.                                                        *)
(***************************************************************************)

\* A step of one request changes its ticket and no other
LEMMA TicketUpdate ==
    ASSUME TypeOK, NEW w \in Worker, NEW x, req' = [req EXCEPT ![w] = x]
    PROVE  Tickets' = [Tickets EXCEPT ![w] = TicketOf(x)]
BY DEF TypeOK, Tickets

\* A request without a ticket that gets none, or one that keeps it, is not seen
LEMMA Unseen ==
    ASSUME TypeOK, NEW w \in Worker, NEW x, req' = [req EXCEPT ![w] = x],
           TicketOf(x) = TicketOf(req[w]), UNCHANGED <<due, spent>>
    PROVE  UNCHANGED Abstract!vars
<1>1. Tickets' = [Tickets EXCEPT ![w] = TicketOf(req[w])]
  BY TicketUpdate
<1>2. Tickets' = Tickets
  BY <1>1 DEF Tickets
<1>3. Starts' = Starts
  BY DEF Starts, CurrentStart
<1>4. QED
  BY <1>2, <1>3 DEF Abstract!vars

LEMMA TicketIsNotIdle ==
    ASSUME NEW u, NEW t PROVE [user |-> u, at |-> t] # Idle
<1>1. DOMAIN [user |-> u, at |-> t] = {"user", "at"}
  OBVIOUS
<1>2. DOMAIN Idle = {"pc"}
  BY DEF Idle
<1>3. QED
  BY <1>1, <1>2

\* What the windows' starts and a user's sum are to Quota
LEMMA AbstractUsed ==
    ASSUME NEW u \in User, NEW p \in Period
    PROVE  Abstract!Used(u, p) = UsedNow(u, p)
BY DEF Abstract!Used, Starts, UsedNow, UserWindowSum

LEMMA RefreshRolls ==
    ASSUME TypeOK, Refresh PROVE Abstract!Roll
<1>1. \A p \in Period : CurrentStart(p)' \in Nat /\ CurrentStart(p) \in Nat
                        /\ CurrentStart(p) <= CurrentStart(p)'
  BY StartsForward
<1>2. Starts' \in [Period -> Nat] /\ \A p \in Period : Starts'[p] >= Starts[p]
  BY <1>1 DEF Starts
<1>3. Tickets' = Tickets /\ spent' = spent
  BY DEF Refresh, Tickets
<1>4. QED
  BY <1>2, <1>3 DEF Abstract!Roll

\* A restart drops every request that is under way
LEMMA RestartCrashes ==
    ASSUME Restart PROVE Abstract!Crash
<1>1. Tickets' = [w \in Worker |-> Idle]
  BY DEF Restart, Tickets, TicketOf, Idle
<1>2. Starts' = Starts /\ spent' = spent
  BY DEF Restart, Starts, CurrentStart
<1>3. QED
  BY <1>1, <1>2 DEF Abstract!Crash

\* The last window that passes admits the request in one step
LEMMA PassAdmits ==
    ASSUME DBReadFails = FALSE, BaseInv, ChecksStayTrue, NEW w \in Worker, PassPeriod(w)
    PROVE  Abstract!Next \/ UNCHANGED Abstract!vars
<1> USE DEF BaseInv
<1> DEFINE r == req[w]
           up == [pc |-> "upstream", user |-> r.user, at |-> r.at]
<1>1. r \in JudgedRequest /\ r.pc = "check" /\ UNCHANGED <<spent, due>>
  BY JudgedType DEF PassPeriod, TypeOK
<1>2. req' = [req EXCEPT ![w] = Passed(r, up)]
  BY DEF PassPeriod
<1>3. TicketOf(r) = Idle
  BY <1>1 DEF TicketOf
<1>4. CASE r.i < Len(Periods)
  <2>1. Passed(r, up).pc = "check"
    BY <1>1, <1>4, PassedKeeps
  <2>2. TicketOf(Passed(r, up)) = Idle
    BY <2>1 DEF TicketOf
  <2>3. QED
    BY <1>1, <1>2, <1>3, <2>2, Unseen
<1>5. CASE ~(r.i < Len(Periods))
  <2>1. r.user \in User /\ r.at \in Time
    BY <1>1 DEF JudgedRequest
  <2>2. TicketOf(Passed(r, up)) = [user |-> r.user, at |-> r.at]
    BY <1>5 DEF Passed, TicketOf
  <2>3. Tickets' = [Tickets EXCEPT ![w] = [user |-> r.user, at |-> r.at]]
    BY <1>2, <2>2, TicketUpdate
  <2>4. Tickets[w] = Idle
    BY <1>3 DEF Tickets
  <2>5. ASSUME NEW p \in Period, <<r.user, p>> \in Limited
        PROVE  Abstract!Used(r.user, p) < HardCap
    <3>1. Metered(r.user, p)
      BY <2>5 DEF Limited
    <3>2. QED
      BY <1>5, <2>1, <3>1, AdmittedBelowCap, AbstractUsed
  <2>6. Starts' = Starts /\ spent' = spent
    BY <1>1 DEF Starts, CurrentStart
  <2>7. Abstract!Admit(w, r.user)
    BY <2>1, <2>3, <2>4, <2>5, <2>6 DEF Abstract!Admit
  <2>8. QED
    BY <2>1, <2>7 DEF Abstract!Next
<1>6. QED
  BY <1>4, <1>5

\* The charge is one step under the lock, or is waived when the INSERT fails
LEMMA RecordSettles ==
    ASSUME TypeOK, NEW w \in Worker, RecordUsage(w)
    PROVE  Abstract!Next
<1> DEFINE r == req[w]
<1>1. /\ r.pc = "record" /\ r.user \in User /\ r.at \in Time /\ r.cost \in Cost
      /\ req' = [req EXCEPT ![w] = Idle] /\ UNCHANGED due
  BY RequestFields DEF RecordUsage, TypeOK
<1>2. Tickets[w] = [user |-> r.user, at |-> r.at] /\ Tickets[w] # Idle
  BY <1>1, TicketIsNotIdle DEF Tickets, TicketOf
<1>3. Tickets' = [Tickets EXCEPT ![w] = Idle]
  BY <1>1, TicketUpdate DEF TicketOf, Idle
<1>4. Starts' = Starts
  BY <1>1 DEF Starts, CurrentStart
<1>5. CASE spent' = spent
  <2>1. Abstract!Waive(w)
    BY <1>2, <1>3, <1>4, <1>5 DEF Abstract!Waive
  <2>2. QED
    BY <2>1 DEF Abstract!Next
<1>6. CASE spent' = Charged(r.user, r.cost, r.at)
  <2>1. r.cost \in Nat
    BY <1>1, CostAssumption
  <2>2. \A t \in Time : (IF t <= r.at THEN spent[r.user][t] + r.cost ELSE spent[r.user][t])
                            = spent[r.user][t] + (IF t <= r.at THEN r.cost ELSE 0)
    BY <1>1, <2>1 DEF TypeOK
  <2>3. spent' = [spent EXCEPT ![r.user] =
                     [t \in Time |-> spent[r.user][t] + IF t <= r.at THEN r.cost ELSE 0]]
    BY <1>6, <2>2 DEF Charged
  <2>4. Abstract!Charge(w, r.cost)
    BY <1>2, <1>3, <1>4, <2>3 DEF Abstract!Charge
  <2>5. QED
    BY <1>1, <2>4 DEF Abstract!Next
<1>7. QED
  BY <1>5, <1>6 DEF RecordUsage

LEMMA EndWaives ==
    ASSUME TypeOK, NEW w \in Worker, EndUncharged(w)
    PROVE  Abstract!Next
<1>1. /\ req[w].pc = "upstream" /\ req' = [req EXCEPT ![w] = Idle]
      /\ UNCHANGED <<due, spent>>
  BY DEF EndUncharged
<1>2. Tickets[w] # Idle
  BY <1>1, TicketIsNotIdle DEF Tickets, TicketOf
<1>3. Tickets' = [Tickets EXCEPT ![w] = Idle]
  BY <1>1, TicketUpdate DEF TicketOf, Idle
<1>4. Starts' = Starts
  BY <1>1 DEF Starts, CurrentStart
<1>5. Abstract!Waive(w)
  BY <1>1, <1>2, <1>3, <1>4 DEF Abstract!Waive
<1>6. QED
  BY <1>5 DEF Abstract!Next

\* The other steps of a request leave it with the ticket it has, or with none
LEMMA OthersUnseen ==
    ASSUME TypeOK, NEW w \in Worker,
           \/ \E u \in User : Authenticate(w, u)
           \/ Refuse(w) \/ ReadSnapshot(w) \/ Lock(w) \/ BoostPeriod(w) \/ Grant(w)
           \/ RejectPeriod(w) \/ Answer(w)
    PROVE  UNCHANGED Abstract!vars
<1> DEFINE r == req[w]
           wait  == [pc |-> "wait", user |-> r.user, own |-> r.own, seen |-> snap, at |-> clock]
           judge == [pc |-> "boost", user |-> r.user, seen |-> r.seen, at |-> r.at,
                     eff |-> cfg, i |-> 1, found |-> NoBoost,
                     limits |-> EffectiveLimits(cfg.conf, r.own)]
<1>idle. TicketOf(Idle) = Idle
  BY DEF TicketOf, Idle
<1>1. ASSUME NEW u \in User, Authenticate(w, u) PROVE UNCHANGED Abstract!vars
  <2> DEFINE x == [pc |-> "authed", user |-> u, own |-> cfg.conf.own[u]]
  <2>1. r.pc = "idle" /\ req' = [req EXCEPT ![w] = x] /\ UNCHANGED <<due, spent>>
    BY <1>1 DEF Authenticate
  <2>2. TicketOf(x) = TicketOf(r)
    BY <2>1 DEF TicketOf
  <2>3. QED
    BY <2>1, <2>2, Unseen
<1>2. CASE Refuse(w) \/ RejectPeriod(w)
  <2>1. /\ r.pc \in {"authed", "check"} /\ req' = [req EXCEPT ![w] = Idle]
        /\ UNCHANGED <<due, spent>>
    BY <1>2 DEF Refuse, RejectPeriod
  <2>2. TicketOf(Idle) = TicketOf(r)
    BY <1>idle, <2>1 DEF TicketOf
  <2>3. QED
    BY <2>1, <2>2, Unseen
<1>3. CASE ReadSnapshot(w)
  <2>1. r.pc = "authed" /\ req' = [req EXCEPT ![w] = wait] /\ UNCHANGED <<due, spent>>
    BY <1>3 DEF ReadSnapshot
  <2>2. TicketOf(wait) = TicketOf(r)
    BY <2>1 DEF TicketOf
  <2>3. QED
    BY <2>1, <2>2, Unseen
<1>4. CASE Lock(w)
  <2>1. r.pc = "wait" /\ req' = [req EXCEPT ![w] = judge] /\ UNCHANGED <<due, spent>>
    BY <1>4 DEF Lock
  <2>2. TicketOf(judge) = TicketOf(r)
    BY <2>1 DEF TicketOf
  <2>3. QED
    BY <2>1, <2>2, Unseen
<1>5. CASE BoostPeriod(w) \/ Grant(w)
  <2>1. Judging(w) /\ UNCHANGED <<due, spent>>
    BY <1>5, FirstPass
  <2>2. PICK x : req' = [req EXCEPT ![w] = x] /\ x.pc \in {"boost", "grant", "check"}
    BY <1>5, FirstPass
  <2>3. TicketOf(x) = TicketOf(r)
    BY <2>1, <2>2 DEF TicketOf, Judging
  <2>4. QED
    BY <2>1, <2>2, <2>3, Unseen
<1>6. CASE Answer(w)
  <2>1. PICK cost \in Cost :
          /\ r.pc = "upstream" /\ UNCHANGED <<due, spent>>
          /\ req' = [req EXCEPT ![w] = [pc |-> "record", user |-> r.user,
                                        at |-> r.at, cost |-> cost]]
    BY <1>6 DEF Answer
  <2>2. TicketOf([pc |-> "record", user |-> r.user, at |-> r.at, cost |-> cost]) = TicketOf(r)
    BY <2>1 DEF TicketOf
  <2>3. QED
    BY <2>1, <2>2, Unseen
<1>7. QED
  BY <1>1, <1>2, <1>3, <1>4, <1>5, <1>6

\* With a database that answers, the admission path implements Quota: whatever happens
\* between its steps, a request is admitted as if all windows were looked at in one moment,
\* and charged once at most, at the time it was judged at
THEOREM GatewayImplementsQuota ==
    ASSUME DBReadFails = FALSE
    PROVE  Spec => ImplementsQuota
<1>1. Init => Abstract!Init
  <2> SUFFICES ASSUME Init PROVE Abstract!Init
    OBVIOUS
  <2>1. Starts = [p \in Period |-> 0]
    BY PeriodAssumption DEF Init, Starts, CurrentStart, WindowStart
  <2>2. Tickets = [w \in Worker |-> Idle]
    BY DEF Init, Tickets, TicketOf, Idle
  <2>3. QED
    BY <2>1, <2>2 DEF Init, Abstract!Init
<1>2. TypeOK /\ QuotaInv /\ [Next]_vars => [Abstract!Next]_(Abstract!vars)
  <2> SUFFICES ASSUME TypeOK, QuotaInv, [Next]_vars
               PROVE  Abstract!Next \/ UNCHANGED Abstract!vars
    OBVIOUS
  <2>1. BaseInv /\ ChecksStayTrue
    BY DEF QuotaInv, BaseInv
  <2>2. CASE UNCHANGED <<due, spent, req>>
    BY <2>2 DEF Abstract!vars, Starts, CurrentStart, Tickets
  <2>3. CASE Refresh
    BY <2>3, RefreshRolls DEF Abstract!Next
  <2>restart. CASE Restart
    BY <2>restart, RestartCrashes DEF Abstract!Next
  <2>4. ASSUME NEW w \in Worker, Step(w) PROVE Abstract!Next \/ UNCHANGED Abstract!vars
    BY <2>1, <2>4, PassAdmits, RecordSettles, EndWaives, OthersUnseen DEF Step
  <2>5. QED
    BY <2>2, <2>3, <2>restart, <2>4 DEF Next, Report, Tick, Reload, ReportRead, ReportConfig,
       ReportPeriod, vars
<1>3. QED
  BY <1>1, <1>2, TypeCorrect, QuotaInvariant, PTL DEF Spec, ImplementsQuota, Abstract!Spec
=============================================================================
