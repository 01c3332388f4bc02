---------------------------- MODULE ServiceProofs ----------------------------
(***************************************************************************)
(* Theorems about the parts of the process that have a state of their own  *)
(* beside the requests.  The hot reload and the balance synchroniser: for  *)
(* all configurations, delays of the provider and edits of the file.  The  *)
(* rate limiter: for every number of users and concurrent calls, every     *)
(* delay in front of the mutex and every sequence of reloads.              *)
(***************************************************************************)
EXTENDS BalanceSync, RateLimiter, FiniteSetTheorems, TLAPS

-----------------------------------------------------------------------------
(* The hot reload *)

\* Once main has loaded the file, what was hashed and then loaded without the file
\* changing in between is what is in force, if it is valid
WatchInv ==
    /\ wpc \in {"load", "hash", "idle", "reload"}
    /\ wpc = "idle" /\ ~torn /\ lastHash \in Valid => cur = lastHash

\* The process starts on a file that is valid and not yet loaded
LEMMA WatchInvInit == WatchInit => WatchInv
BY DEF WatchInit, WatchInv

\* No step breaks it, an edit at any moment included
LEMMA WatchInvStep ==
    ASSUME WatchInv, [WatchNext]_watchVars
    PROVE  WatchInv'
<1> USE DEF WatchInv
<1>1. CASE WriteFile \/ RemoveFile
  BY <1>1 DEF WriteFile, RemoveFile
<1>2. CASE Load
  BY <1>2 DEF Load
<1>3. CASE Watch
  BY <1>3 DEF Watch
<1>4. CASE PollGone \/ PollChanged
  BY <1>4 DEF PollGone, PollChanged
<1>5. CASE ReloadFile
  BY <1>5 DEF ReloadFile
<1>6. CASE UNCHANGED watchVars
  BY <1>6 DEF watchVars
<1> QED BY <1>1, <1>2, <1>3, <1>4, <1>5, <1>6 DEF WatchNext, Watcher

\* For any contents and any edits, while main starts and between the two reads of a poll
\* included: a valid file whose hash is the last one recorded is the configuration in
\* force, unless the content last read to be loaded was another one than was hashed
THEOREM SeenStaysLoaded == WatchSpec => []SeenIsLoaded
<1>1. WatchInit => WatchInv
  BY WatchInvInit
<1>2. WatchInv /\ [WatchNext]_watchVars => WatchInv'
  BY WatchInvStep
<1>3. WatchInv => SeenIsLoaded
  BY DEF WatchInv, SeenIsLoaded
<1> QED BY <1>1, <1>2, <1>3, PTL DEF WatchSpec

-----------------------------------------------------------------------------
(* The synchroniser *)

LEMMA SyncInvInit == Init => SyncInv
BY SyncAssumption DEF Init, WatchInit, SyncInv, Running, NapInv, DueInv

\* Once loaded, the configuration in force is valid, whatever the file becomes
LEMMA LoadedStaysValid ==
    ASSUME Running, WatchNext, UNCHANGED syncVars
    PROVE  Running'
<1> USE DEF Running, syncVars
<1>1. CASE WriteFile \/ RemoveFile
  BY <1>1 DEF WriteFile, RemoveFile
<1>2. CASE Load \/ ReloadFile
  BY <1>2 DEF Load, ReloadFile
<1>3. CASE Watch \/ PollGone \/ PollChanged
  BY <1>3 DEF Watch, PollGone, PollChanged
<1> QED BY <1>1, <1>2, <1>3 DEF WatchNext, Watcher

LEMMA ReconfigureKeeps == SyncInv /\ Reconfigure => SyncInv'
<1> SUFFICES ASSUME SyncInv, Reconfigure PROVE SyncInv'
  OBVIOUS
<1>1. Running'
  BY LoadedStaysValid DEF SyncInv, Reconfigure
<1>2. UNCHANGED <<spc, asked, age, nap, snap>>
  BY DEF Reconfigure, syncVars
<1>3. (cur' = cur /\ since' = since) \/ since' = 0 \/ (wpc = "load" /\ since' = since)
  BY DEF Reconfigure, WatchNext, Watcher, WriteFile, RemoveFile, Load, Watch, PollGone,
         PollChanged, ReloadFile
<1>4. NapInv'
  BY <1>2, <1>3, SyncAssumption DEF SyncInv, Running, NapInv
<1>5. DueInv'
  BY <1>2, <1>3 DEF SyncInv, Running, DueInv
<1> QED BY <1>1, <1>4, <1>5 DEF SyncInv

\* Time that passes is taken from the nap; an age that is no longer counted is no larger
LEMMA TickKeeps == SyncInv /\ Tick => SyncInv'
<1> SUFFICES ASSUME SyncInv, Tick PROVE SyncInv'
  OBVIOUS
<1>1. /\ UNCHANGED <<cur, wpc, spc, asked, snap>> /\ spc \in {"nap", "asked"}
      /\ nap' = IF spc = "nap" THEN nap - 1 ELSE nap
      /\ spc = "nap" => nap > 0
      /\ age' = Older(age) /\ since' = Older(since)
  BY DEF Tick, watchVars
<1>2. /\ age \in Nat /\ since \in Nat /\ nap \in Nat /\ nap <= Check
      /\ spc = "nap" => age + nap <= Interval[cur] \/ since + nap <= Check
  BY SyncAssumption DEF SyncInv, NapInv
<1>3. \A x \in Nat : Older(x) \in Nat /\ Older(x) <= x + 1
  BY SyncAssumption DEF Older, AtMost
<1>4. age' \in Nat /\ age' <= age + 1 /\ since' \in Nat /\ since' <= since + 1
  BY <1>1, <1>2, <1>3
<1>5. nap' \in 0 .. Check
  BY <1>1, <1>2, SyncAssumption
<1>6. ASSUME spc = "nap"
      PROVE  age' + nap' <= Interval[cur] \/ since' + nap' <= Check
  <2>1. nap' = nap - 1 /\ nap > 0
    BY <1>1, <1>6
  <2>2. CASE age + nap <= Interval[cur]
    <3>1. Interval[cur] \in Nat
      BY <1>6, SyncAssumption DEF SyncInv, Running
    <3> QED BY <1>2, <1>4, <2>1, <2>2, <3>1
  <2>3. CASE since + nap <= Check
    <3>1. since \in Nat /\ nap \in Nat /\ Check \in Nat
      BY <1>2, SyncAssumption
    <3>2. since' + nap' <= Check
      <4>1. \A s, t, n, c \in Nat : t <= s + 1 /\ n > 0 /\ s + n <= c => t + (n - 1) <= c
        OBVIOUS
      <4> QED BY <1>4, <2>1, <2>3, <3>1, <4>1
    <3> QED BY <3>2
  <2> QED BY <1>2, <1>6, <2>2, <2>3
<1>7. NapInv'
  <2>1. spc' = spc /\ cur' = cur
    BY <1>1
  <2> QED BY <1>4, <1>5, <1>6, <2>1 DEF NapInv
<1>8. Running' /\ DueInv'
  BY <1>1 DEF SyncInv, Running, DueInv
<1> QED BY <1>7, <1>8 DEF SyncInv

LEMMA PlanKeeps == SyncInv /\ Plan => SyncInv'
<1> SUFFICES ASSUME SyncInv, Plan PROVE SyncInv'
  OBVIOUS
<1>1. UNCHANGED <<cur, wpc, asked, age, snap, since>> /\ spc = "plan"
  BY DEF Plan, watchVars
<1>2. Interval[cur] \in Nat /\ Check \in Nat /\ age \in Nat /\ since \in Nat /\ nap \in 0 .. Check
  BY <1>1, SyncAssumption DEF SyncInv, Running, NapInv
<1>3. CASE age >= Interval[cur]
  BY <1>1, <1>2, <1>3 DEF Plan, SyncInv, Running, NapInv, DueInv
<1>4. CASE ~(age >= Interval[cur])
  <2>1. spc' = "nap" /\ nap' = AtMost(Interval[cur] - age, Check)
    BY <1>4 DEF Plan
  <2>2. nap' \in 0 .. Check /\ age + nap' <= Interval[cur]
    BY <1>2, <1>4, <2>1 DEF AtMost
  <2> QED BY <1>1, <1>2, <2>1, <2>2 DEF SyncInv, Running, NapInv, DueInv
<1> QED BY <1>3, <1>4

LEMMA SyncInvStep == SyncInv /\ [Next]_vars => SyncInv'
<1> SUFFICES ASSUME SyncInv, [Next]_vars PROVE SyncInv'
  OBVIOUS
<1>1. CASE StartSync
  BY <1>1 DEF StartSync, watchVars, SyncInv, Running, NapInv, DueInv
<1>2. CASE Fetch
  <2>1. cur \in Valid
    BY <1>2 DEF Fetch, SyncInv, Running
  <2> QED BY <1>2, <2>1, SyncAssumption
          DEF Fetch, watchVars, SyncInv, Running, NapInv, DueInv
<1>3. CASE FetchSucceeds \/ FetchFails
  BY <1>3 DEF FetchSucceeds, FetchFails, watchVars, SyncInv, Running, NapInv, DueInv
<1>4. CASE Wake
  BY <1>4 DEF Wake, watchVars, SyncInv, Running, NapInv, DueInv
<1>5. CASE UNCHANGED vars
  BY <1>5 DEF vars, watchVars, syncVars, SyncInv, Running, NapInv, DueInv
<1> QED BY <1>1, <1>2, <1>3, <1>4, <1>5, ReconfigureKeeps, TickKeeps, PlanKeeps DEF Next, Sync

\* The invariant holds throughout
LEMMA SyncInvariant == Spec => []SyncInv
BY SyncInvInit, SyncInvStep, PTL DEF Spec

\* For any contents, intervals and edits of the file: a shortened interval takes effect
\* within a check, whatever timer runs
THEOREM IntervalAlwaysHonoured == Spec => []IntervalHonoured
<1>1. SyncInv => IntervalHonoured
  <2> SUFFICES ASSUME SyncInv, spc = "nap"
               PROVE  age <= Interval[cur] \/ since <= Check
    BY DEF IntervalHonoured
  <2>1. Interval[cur] \in Nat /\ Check \in Nat
    BY SyncAssumption DEF SyncInv, Running
  <2> QED BY <2>1 DEF SyncInv, NapInv
<1> QED BY <1>1, SyncInvariant, PTL

\* For any contents, intervals, delays and edits of the file: after the very first attempt
\* the provider is asked an interval after the last one, failed or not, and earlier only
\* if a reload replaces the configuration in the same moment
THEOREM NeverTooOften == Spec => NotTooOften
<1>1. SyncInv => (Fetch => spc = "first" \/ since = 0 \/ age >= Interval[cur])
  BY DEF SyncInv, DueInv, Fetch
<1>2. Spec => [][Fetch => spc = "first" \/ since = 0 \/ age >= Interval[cur]]_vars
  BY <1>1, SyncInvariant, PTL
<1> QED BY <1>2 DEF NotTooOften

\* Neither a failed fetch nor a reload takes the last good snapshot away
THEOREM SnapshotsKept == Spec => SnapshotKept
<1>1. ASSUME SyncInv, [Next]_vars, snap # Unsynced PROVE snap' # Unsynced
  <2>1. CASE Reconfigure \/ Tick \/ UNCHANGED vars
    BY <1>1, <2>1 DEF Reconfigure, Tick, vars, syncVars
  <2>2. CASE StartSync \/ Fetch \/ FetchFails \/ Plan \/ Wake
    BY <1>1, <2>2 DEF StartSync, Fetch, FetchFails, Plan, Wake
  <2>3. CASE FetchSucceeds
    BY <1>1, <2>3 DEF FetchSucceeds, SyncInv, DueInv
  <2> QED BY <1>1, <2>1, <2>2, <2>3 DEF Next, Sync
<1>2. SyncInv /\ [Next]_vars => [snap # Unsynced => snap' # Unsynced]_vars
  BY <1>1
<1>3. Spec => [][snap # Unsynced => snap' # Unsynced]_vars
  BY <1>2, SyncInvariant, PTL DEF Spec
<1> QED BY <1>3 DEF SnapshotKept

-----------------------------------------------------------------------------
(* The rate limiter *)

LEMMA LimiterInvInit == LimiterInit => LimiterInv
<1> SUFFICES ASSUME LimiterInit PROVE LimiterInv
  OBVIOUS
<1> USE LimiterAssumption
<1>1. LimiterTypeOK
  <2>1. IsFiniteSet({})
    BY FS_EmptySet
  <2>2. req \in [Handler -> Call]
    BY DEF LimiterInit, Call, NoCall
  <2>3. \A h \in Handler : req[h].pc # "timed"
    BY DEF LimiterInit, NoCall
  <2> QED BY <2>1, <2>2, <2>3 DEF LimiterInit, LimiterTypeOK, Hit
<1>2. \A u \in User : Since(granted[u], clock - Minute) = {}
  BY DEF LimiterInit, Since
<1>3. Cardinality({}) = 0
  BY FS_EmptySet
<1>4. AtMostLimitPerMinute
  <2>1. PICK top \in Limits : top \in Nat
    OBVIOUS
  <2> QED BY <1>2, <1>3, <2>1 DEF AtMostLimitPerMinute
<1> QED BY <1>1, <1>2, <1>4 DEF LimiterInv, RecentStored

(* What one call does *)

LEMMA AddOne ==
    ASSUME NEW S, NEW x, IsFiniteSet(S)
    PROVE  /\ IsFiniteSet(S \cup {x})
           /\ \/ Cardinality(S \cup {x}) = Cardinality(S)
              \/ Cardinality(S \cup {x}) = Cardinality(S) + 1
BY FS_AddElement

\* What the last minute needs is among the hits the call counts: its time is not after
\* the clock, so that neither its own cutoff nor that of the sweep is
LEMMA KeptEnough ==
    ASSUME LimiterInv, NEW h \in Handler, Allow(h)
    PROVE  Since(granted[req[h].user], clock - Minute)
               \subseteq Recent(Sweep(req[h].t)[req[h].user], req[h].t)
<1> USE LimiterAssumption DEF LimiterInv, LimiterTypeOK
<1>1. req[h].t \in Nat /\ req[h].t <= clock /\ req[h].user \in User
  BY DEF Allow, Call, NoCall
<1>2. Since(granted[req[h].user], clock - Minute) \subseteq hits[req[h].user]
  BY <1>1 DEF RecentStored
<1>3. \A hit \in Since(granted[req[h].user], clock - Minute) :
          hit.t \in Nat /\ hit.t > req[h].t - Minute
  BY <1>1 DEF Since, Hit
<1> QED BY <1>1, <1>2, <1>3 DEF Sweep, Recent

LEMMA AllowKeepsTypes ==
    ASSUME LimiterInv, NEW h \in Handler, Allow(h)
    PROVE  LimiterTypeOK'
<1> DEFINE u    == req[h].user
           now  == req[h].t
           hit  == [t |-> now, n |-> req[h].n]
           kept == Recent(Sweep(now)[u], now)
<1> USE LimiterAssumption DEF LimiterInv, LimiterTypeOK
<1>1. /\ now \in Nat /\ now <= clock /\ u \in User
      /\ req[h].n \in Nat /\ req[h].n < calls /\ req[h].limit \in Limits
  BY DEF Allow, Call, NoCall
<1>2. hit \in Hit
  BY <1>1 DEF Hit
<1>3. \A v \in User : Sweep(now)[v] \subseteq hits[v]
  BY DEF Sweep, Recent
<1>4. Sweep(now) \in [User -> SUBSET Hit]
  BY <1>3 DEF Sweep, Recent
<1>5. kept \subseteq hits[u]
  BY <1>1, <1>3 DEF Recent
<1>6. PICK one \in SUBSET {hit} :
          /\ granted' = [granted EXCEPT ![u] = @ \cup one]
          /\ hits' = [Sweep(now) EXCEPT ![u] = IF req[h].limit = 0 THEN @ ELSE kept \cup one]
  BY DEF Allow
<1>7. req' \in [Handler -> Call] /\ \A i \in Handler : req'[i] \in {req[i], NoCall}
  BY DEF Allow, Call
<1>8. lastSweep' \in Nat /\ lastSweep' <= clock'
  BY <1>1 DEF Allow
<1>9. granted' \in [User -> SUBSET Hit] /\ hits' \in [User -> SUBSET Hit]
  BY <1>1, <1>2, <1>4, <1>5, <1>6
<1>10. \A v \in User : hits'[v] \subseteq granted'[v]
  BY <1>1, <1>3, <1>4, <1>5, <1>6
<1>11. \A v \in User : IsFiniteSet(granted'[v])
  <2>1. \A S : IsFiniteSet(S) => IsFiniteSet(S \cup {hit})
    BY AddOne
  <2>2. \A v \in User : granted'[v] = granted[v] \/ granted'[v] = granted[v] \cup {hit}
    BY <1>1, <1>6
  <2> QED BY <2>1, <2>2
<1>12. \A v \in User : \A e \in granted'[v] : e.t <= clock' /\ e.n < calls'
  BY <1>1, <1>6 DEF Allow
<1>13. \A i \in Handler : req'[i].pc = "timed" => req'[i].t <= clock' /\ req'[i].n < calls'
  BY <1>7 DEF Allow, NoCall
<1>14. clock' \in Nat /\ limit' \in Limits /\ calls' \in Nat
  BY DEF Allow
<1> QED BY <1>7, <1>8, <1>9, <1>10, <1>11, <1>12, <1>13, <1>14

\* A call is added to what was granted in the last minute only if that, all of which it
\* has counted, is less than its limit
LEMMA AllowKeepsLimit ==
    ASSUME LimiterInv, NEW h \in Handler, Allow(h)
    PROVE  AtMostLimitPerMinute' /\ RecentStored'
<1> DEFINE u    == req[h].user
           now  == req[h].t
           hit  == [t |-> now, n |-> req[h].n]
           kept == Recent(Sweep(now)[u], now)
           G    == Since(granted[u], clock - Minute)
           ok   == req[h].limit = 0 \/ Cardinality(kept) < req[h].limit
           one  == IF req[h].limit # 0 /\ ok THEN {hit} ELSE {}
<1> USE LimiterAssumption DEF LimiterInv, LimiterTypeOK
<1>1. now \in Nat /\ now <= clock /\ u \in User /\ req[h].limit \in Limits
  BY DEF Allow, Call, NoCall
<1>2. G \subseteq kept /\ kept \subseteq Sweep(now)[u]
  BY KeptEnough DEF Recent
<1>3. /\ granted' = [granted EXCEPT ![u] = @ \cup one]
      /\ hits' = [Sweep(now) EXCEPT ![u] = IF req[h].limit = 0 THEN @ ELSE kept \cup one]
      /\ clock' = clock
  BY DEF Allow
<1>4. Sweep(now) \in [User -> SUBSET Hit]
  BY DEF Sweep, Recent
<1>5. granted'[u] = granted[u] \cup one
  BY <1>1, <1>3
<1>6. Since(granted'[u], clock' - Minute) \subseteq G \cup one
  BY <1>3, <1>5 DEF Since
<1>7. G \cup one \subseteq hits'[u]
  BY <1>1, <1>2, <1>3, <1>4
<1>8. ASSUME NEW v \in User, v # u
      PROVE  /\ Since(granted'[v], clock' - Minute) = Since(granted[v], clock - Minute)
             /\ Since(granted[v], clock - Minute) \subseteq hits'[v]
  <2>1. granted'[v] = granted[v] /\ hits'[v] = Sweep(now)[v]
    BY <1>1, <1>3, <1>4, <1>8
  <2>2. Since(granted[v], clock - Minute) \subseteq hits[v]
    BY DEF RecentStored
  <2>3. \A e \in Since(granted[v], clock - Minute) : e.t \in Nat /\ e.t > now - Minute
    BY <1>1 DEF Since, Hit
  <2> QED BY <1>3, <2>1, <2>2, <2>3 DEF Sweep, Recent
<1>9. RecentStored'
  <2> SUFFICES ASSUME NEW v \in User
               PROVE  Since(granted'[v], clock' - Minute) \subseteq hits'[v]
    BY DEF RecentStored
  <2>1. CASE v = u
    BY <2>1, <1>6, <1>7
  <2>2. CASE v # u
    BY <2>2, <1>8
  <2> QED BY <2>1, <2>2
<1>10. \E top \in Limits : Cardinality(Since(granted'[u], clock' - Minute)) <= top
  <2>1. CASE one = {}
    <3>1. granted'[u] = granted[u]
      BY <2>1, <1>5
    <3> QED BY <3>1, <1>1, <1>3 DEF AtMostLimitPerMinute
  <2>2. CASE one # {}
    <3>1. one = {hit} /\ req[h].limit # 0 /\ Cardinality(kept) < req[h].limit
      BY <2>2
    <3>2. IsFiniteSet(kept)
      <4>1. kept \subseteq hits[u]
        BY <1>1 DEF Recent, Sweep
      <4>2. kept \subseteq granted[u] /\ IsFiniteSet(granted[u])
        BY <4>1, <1>1
      <4> QED BY <4>2, FS_Subset
    <3>3. IsFiniteSet(G) /\ Cardinality(G) <= Cardinality(kept)
      BY <3>2, <1>2, FS_Subset
    <3>4. /\ IsFiniteSet(G \cup {hit})
          /\ Cardinality(G \cup {hit}) = Cardinality(G) \/ Cardinality(G \cup {hit}) = Cardinality(G) + 1
      BY <3>3, AddOne
    <3>5. Cardinality(Since(granted'[u], clock' - Minute)) <= Cardinality(G \cup {hit})
      BY <3>1, <3>4, <1>6, FS_Subset
    <3>6. /\ Cardinality(G) \in Nat /\ Cardinality(kept) \in Nat
          /\ Cardinality(G \cup {hit}) \in Nat
          /\ Cardinality(Since(granted'[u], clock' - Minute)) \in Nat
      BY <3>1, <3>2, <3>3, <3>4, <1>6, FS_CardinalityType, FS_Subset
    <3>7. req[h].limit \in Nat
      BY <1>1
    <3>8. Cardinality(Since(granted'[u], clock' - Minute)) <= req[h].limit
      BY <3>1, <3>3, <3>4, <3>5, <3>6, <3>7
    <3> QED BY <3>8, <1>1
  <2> QED BY <2>1, <2>2
<1>11. AtMostLimitPerMinute'
  <2> SUFFICES ASSUME NEW v \in User
               PROVE  \E top \in Limits : Cardinality(Since(granted'[v], clock' - Minute)) <= top
    BY DEF AtMostLimitPerMinute
  <2>1. CASE v = u
    BY <2>1, <1>10
  <2>2. CASE v # u
    BY <2>2, <1>8 DEF AtMostLimitPerMinute
  <2> QED BY <2>1, <2>2
<1> QED BY <1>9, <1>11

(* Time only takes hits out of the minute *)
LEMMA TickKeepsLimit ==
    ASSUME LimiterInv, TimePasses
    PROVE  LimiterInv'
<1> USE LimiterAssumption DEF LimiterInv, LimiterTypeOK
<1>1. /\ clock' = clock + 1 /\ granted' = granted /\ hits' = hits /\ req' = req
      /\ calls' = calls /\ limit' = limit /\ lastSweep' = lastSweep
  BY DEF TimePasses
<1>2. \A u \in User : Since(granted'[u], clock' - Minute) \subseteq Since(granted[u], clock - Minute)
  BY <1>1 DEF Since, Hit
<1>3. LimiterTypeOK'
  <2>1. \A u \in User : \A hit \in granted[u] : hit.t \in Nat /\ hit.t <= clock
    BY DEF Hit
  <2>2. \A h \in Handler : req[h].pc = "timed" => req[h].t \in Nat /\ req[h].t <= clock
    BY DEF Call, NoCall
  <2> QED BY <1>1, <2>1, <2>2
<1>4. RecentStored'
  BY <1>1, <1>2 DEF RecentStored
<1>5. AtMostLimitPerMinute'
  <2> SUFFICES ASSUME NEW u \in User
               PROVE  \E top \in Limits : Cardinality(Since(granted'[u], clock' - Minute)) <= top
    BY DEF AtMostLimitPerMinute
  <2>1. PICK top \in Limits : Cardinality(Since(granted[u], clock - Minute)) <= top
    BY DEF AtMostLimitPerMinute
  <2>2. IsFiniteSet(Since(granted[u], clock - Minute))
    BY FS_Subset DEF Since
  <2>3. /\ IsFiniteSet(Since(granted'[u], clock' - Minute))
        /\ Cardinality(Since(granted'[u], clock' - Minute)) <= Cardinality(Since(granted[u], clock - Minute))
    BY <1>2, <2>2, FS_Subset
  <2>4. /\ Cardinality(Since(granted[u], clock - Minute)) \in Nat
        /\ Cardinality(Since(granted'[u], clock' - Minute)) \in Nat
    BY <2>2, <2>3, FS_CardinalityType
  <2>5. top \in Nat
    OBVIOUS
  <2> QED BY <2>1, <2>3, <2>4, <2>5
<1> QED BY <1>3, <1>4, <1>5

LEMMA LimiterStep == LimiterInv /\ [LimiterNext]_limiterVars => LimiterInv'
<1> SUFFICES ASSUME LimiterInv, [LimiterNext]_limiterVars PROVE LimiterInv'
  OBVIOUS
<1> USE LimiterAssumption
<1>1. CASE TimePasses
  BY <1>1, TickKeepsLimit
<1>2. CASE Reload
  BY <1>2 DEF Reload, LimiterInv, LimiterTypeOK, RecentStored, AtMostLimitPerMinute
<1>3. ASSUME NEW h \in Handler, Enter(h) PROVE LimiterInv'
  <2> USE DEF LimiterInv, LimiterTypeOK
  <2>1. /\ UNCHANGED <<clock, limit, hits, lastSweep, calls, granted>>
        /\ RecentStored' /\ AtMostLimitPerMinute'
    BY <1>3 DEF Enter, RecentStored, AtMostLimitPerMinute
  <2>2. PICK u \in User :
            req' = [req EXCEPT ![h] = [pc |-> "entered", user |-> u, limit |-> limit]]
    BY <1>3 DEF Enter
  <2>3. req' \in [Handler -> Call]
    BY <2>2 DEF Call
  <2>4. \A i \in Handler : req'[i].pc = "timed" => req'[i] = req[i]
    BY <2>2
  <2> QED BY <2>1, <2>3, <2>4
<1>4. ASSUME NEW h \in Handler, ReadClock(h) PROVE LimiterInv'
  <2> USE DEF LimiterInv, LimiterTypeOK
  <2>1. /\ UNCHANGED <<clock, limit, hits, lastSweep, granted>> /\ calls' = calls + 1
        /\ RecentStored' /\ AtMostLimitPerMinute'
    BY <1>4 DEF ReadClock, RecentStored, AtMostLimitPerMinute
  <2>2. req[h].user \in User /\ req[h].limit \in Limits
    BY <1>4 DEF ReadClock, Call, NoCall
  <2>3. req' = [req EXCEPT ![h] = [pc |-> "timed", user |-> req[h].user,
                                   limit |-> req[h].limit, t |-> clock, n |-> calls]]
    BY <1>4 DEF ReadClock
  <2>4. req' \in [Handler -> Call]
    BY <2>2, <2>3 DEF Call
  <2>5. \A u \in User : \A hit \in granted[u] : hit.n \in Nat /\ hit.n < calls
    BY DEF Hit
  <2>6. ASSUME NEW i \in Handler, req'[i].pc = "timed"
        PROVE  req'[i].t <= clock' /\ req'[i].n < calls'
    <3>1. CASE i = h
      BY <3>1, <2>1, <2>3
    <3>2. CASE i # h
      <4>1. req'[i] = req[i]
        BY <3>2, <2>3
      <4>2. req[i].n \in Nat /\ req[i].n < calls /\ req[i].t <= clock
        BY <4>1, <2>6 DEF Call, NoCall
      <4> QED BY <4>1, <4>2, <2>1
    <3> QED BY <3>1, <3>2
  <2> QED BY <2>1, <2>4, <2>5, <2>6
<1>5. ASSUME NEW h \in Handler, Allow(h) PROVE LimiterInv'
  BY <1>5, AllowKeepsTypes, AllowKeepsLimit DEF LimiterInv
<1>6. CASE UNCHANGED limiterVars
  BY <1>6 DEF limiterVars, LimiterInv, LimiterTypeOK, RecentStored, AtMostLimitPerMinute
<1> QED BY <1>1, <1>2, <1>3, <1>4, <1>5, <1>6 DEF LimiterNext

\* For any users, concurrent calls, delays, limits and reloads: in the minute up to now no
\* user was granted more calls than a configured limit, although times are read before the
\* mutex is taken and an earlier time may be handled after a later one
THEOREM RateLimitKept == LimiterSpec => []AtMostLimitPerMinute
<1>1. LimiterInit => LimiterInv
  BY LimiterInvInit
<1>2. LimiterInv /\ [LimiterNext]_limiterVars => LimiterInv'
  BY LimiterStep
<1>3. LimiterInv => AtMostLimitPerMinute
  BY DEF LimiterInv
<1> QED BY <1>1, <1>2, <1>3, PTL DEF LimiterSpec

-----------------------------------------------------------------------------
(* Refusals *)

LEMMA RefusalStep == LimiterTypeOK /\ RefusalInv /\ [LimiterNext]_limiterVars => RefusalInv'
<1> SUFFICES ASSUME LimiterTypeOK, RefusalInv, [LimiterNext]_limiterVars PROVE RefusalInv'
  OBVIOUS
<1> USE LimiterAssumption
<1>1. ASSUME UNCHANGED <<granted, verdict>> PROVE RefusalInv'
  BY <1>1 DEF RefusalInv, VerdictKnown, RefusedOnlyWhenFull
<1>2. ASSUME NEW h \in Handler, Allow(h) PROVE RefusalInv'
  <2> DEFINE u    == req[h].user
             now  == req[h].t
             kept == Recent(Sweep(now)[u], now)
             ok   == req[h].limit = 0 \/ Cardinality(kept) < req[h].limit
             full == Since(granted'[u], now - Minute)
  <2>1. now \in Nat /\ u \in User /\ req[h].limit \in Limits
    BY <1>2 DEF Allow, LimiterTypeOK, Call, NoCall
  <2>2. verdict' = [user |-> u, t |-> now, limit |-> req[h].limit, ok |-> ok]
    BY <1>2 DEF Allow
  <2>3. VerdictKnown'
    BY <2>1, <2>2 DEF VerdictKnown
  <2>4. PICK one : granted' = [granted EXCEPT ![u] = @ \cup one] /\ (~ok => one = {})
    BY <1>2 DEF Allow
  <2>5. ASSUME ~ok
        PROVE  req[h].limit > 0 /\ Cardinality(full) >= req[h].limit
    <3>1. granted'[u] = granted[u]
      BY <2>1, <2>4, <2>5 DEF LimiterTypeOK
    <3>2. kept \subseteq full
      BY <2>1, <3>1 DEF LimiterTypeOK, Sweep, Recent, Since
    <3>3. IsFiniteSet(full)
      <4>1. IsFiniteSet(granted[u]) /\ full \subseteq granted[u]
        BY <2>1, <3>1 DEF LimiterTypeOK, Since
      <4> QED BY <4>1, FS_Subset
    <3>4. /\ IsFiniteSet(kept)
          /\ Cardinality(kept) <= Cardinality(full)
      BY <3>2, <3>3, FS_Subset
    <3>5. Cardinality(kept) \in Nat /\ Cardinality(full) \in Nat
      BY <3>3, <3>4, FS_CardinalityType
    <3>6. req[h].limit \in Nat
      BY <2>1
    <3> HIDE DEF kept, full
    <3> QED BY <2>5, <3>4, <3>5, <3>6
  <2>6. RefusedOnlyWhenFull'
    <3>1. /\ verdict'.user = u /\ verdict'.t = now
          /\ verdict'.limit = req[h].limit /\ verdict'.ok = ok
      BY <2>2
    <3> HIDE DEF u, now, ok
    <3> QED BY <2>5, <3>1 DEF RefusedOnlyWhenFull
  <2> QED BY <2>3, <2>6 DEF RefusalInv
<1>3. TimePasses \/ Reload \/ (\E h \in Handler : Enter(h) \/ ReadClock(h)) \/ UNCHANGED limiterVars
      => UNCHANGED <<granted, verdict>>
  BY DEF TimePasses, Reload, Enter, ReadClock, limiterVars
<1> QED BY <1>1, <1>2, <1>3 DEF LimiterNext

\* For any users, concurrent calls, delays, limits and reloads: who is refused has been
\* granted as many calls as the limit the call was made under, in the minute before it
\* or since
THEOREM RefusalsJustified == LimiterSpec => []RefusedOnlyWhenFull
<1>1. LimiterInit => LimiterInv /\ RefusalInv
  BY LimiterInvInit DEF LimiterInit, RefusalInv, VerdictKnown, RefusedOnlyWhenFull
<1>2. LimiterInv /\ RefusalInv /\ [LimiterNext]_limiterVars => LimiterInv' /\ RefusalInv'
  BY LimiterStep, RefusalStep DEF LimiterInv
<1>3. RefusalInv => RefusedOnlyWhenFull
  BY DEF RefusalInv
<1> QED BY <1>1, <1>2, <1>3, PTL DEF LimiterSpec

-----------------------------------------------------------------------------
(* The sweep *)

LEMMA AllowSweeps ==
    ASSUME LimiterTypeOK, SweptInv, NEW h \in Handler, Allow(h)
    PROVE  SweptInv'
<1> SUFFICES ASSUME MaxDelay < Minute
             PROVE  /\ \A v \in User : \A hit \in hits'[v] : hit.t > lastSweep' - Minute
                    /\ \A i \in Handler : req'[i].pc = "timed" => clock' - req'[i].t <= MaxDelay
                    /\ verdict'.t \in Nat /\ verdict'.t - lastSweep' < Minute
  BY DEF SweptInv
<1> DEFINE u    == req[h].user
           now  == req[h].t
           hit  == [t |-> now, n |-> req[h].n]
           kept == Recent(Sweep(now)[u], now)
<1> USE LimiterAssumption
<1>1. /\ now \in Nat /\ u \in User /\ now <= clock /\ clock \in Nat
      /\ lastSweep \in Nat /\ lastSweep <= clock /\ clock - now <= MaxDelay
  BY DEF Allow, LimiterTypeOK, Call, NoCall, SweptInv
<1>2. lastSweep' = IF now - lastSweep >= Minute THEN now ELSE lastSweep
  BY DEF Allow
<1>3. now > lastSweep' - Minute /\ now - lastSweep' < Minute
  BY <1>1, <1>2
<1>4. \A v \in User : \A e \in Sweep(now)[v] : e.t > lastSweep' - Minute
  BY <1>1, <1>2 DEF Sweep, Recent, SweptInv, LimiterTypeOK
<1>5. PICK one \in SUBSET {hit} :
          hits' = [Sweep(now) EXCEPT ![u] = IF req[h].limit = 0 THEN @ ELSE kept \cup one]
  BY DEF Allow
<1>6. kept \subseteq Sweep(now)[u]
  BY DEF Recent
<1>7. ASSUME NEW v \in User, NEW e \in hits'[v] PROVE e.t > lastSweep' - Minute
  <2>1. Sweep(now) = [w \in User |-> Sweep(now)[w]]
    BY DEF Sweep, LimiterTypeOK
  <2>2. e \in Sweep(now)[v] \/ e = hit
    BY <1>5, <1>6, <1>7, <2>1
  <2> QED BY <1>3, <1>4, <2>2
<1>8. \A i \in Handler : req'[i].pc = "timed" => clock' - req'[i].t <= MaxDelay
  BY DEF Allow, NoCall, SweptInv, LimiterTypeOK
<1>9. verdict'.t = now
  BY DEF Allow
<1> QED BY <1>1, <1>3, <1>7, <1>8, <1>9

LEMMA SweptStep == LimiterTypeOK /\ SweptInv /\ [LimiterNext]_limiterVars => SweptInv'
<1> SUFFICES ASSUME LimiterTypeOK, SweptInv, [LimiterNext]_limiterVars PROVE SweptInv'
  OBVIOUS
<1> USE LimiterAssumption
<1>1. CASE TimePasses
  <2>1. \A i \in Handler : req[i].pc = "timed" => req[i].t \in Nat /\ clock - req[i].t < MaxDelay
    BY <1>1 DEF TimePasses, LimiterTypeOK, Call, NoCall
  <2>2. /\ clock' = clock + 1 /\ clock \in Nat
        /\ UNCHANGED <<hits, lastSweep, req, verdict>>
    BY <1>1 DEF TimePasses, LimiterTypeOK
  <2> QED BY <2>1, <2>2 DEF SweptInv
<1>2. CASE Reload \/ UNCHANGED limiterVars
  BY <1>2 DEF Reload, limiterVars, SweptInv
<1>3. ASSUME NEW h \in Handler, Enter(h) \/ ReadClock(h) PROVE SweptInv'
  <2>1. /\ UNCHANGED <<clock, hits, lastSweep, verdict>> /\ clock \in Nat
        /\ \A i \in Handler : req'[i].pc = "timed" => req'[i] = req[i] \/ req'[i].t = clock
    BY <1>3 DEF Enter, ReadClock, LimiterTypeOK
  <2>2. \A i \in Handler : req'[i].pc = "timed" /\ MaxDelay < Minute
                              => clock' - req'[i].t <= MaxDelay
    BY <2>1 DEF SweptInv
  <2> QED BY <2>1, <2>2 DEF SweptInv
<1>4. ASSUME NEW h \in Handler, Allow(h) PROVE SweptInv'
  BY <1>4, AllowSweeps
<1> QED BY <1>1, <1>2, <1>3, <1>4 DEF LimiterNext

\* For any users, concurrent calls, limits and reloads, where a handler waits for less than
\* a minute: one sweep a minute, made by whoever calls, is enough to forget everyone's
\* calls within two minutes
THEOREM AbsentUsersForgotten == LimiterSpec => []HitsForgotten
<1>1. LimiterInit => LimiterInv /\ SweptInv
  BY LimiterInvInit DEF LimiterInit, SweptInv, NoCall
<1>2. LimiterInv /\ SweptInv /\ [LimiterNext]_limiterVars => LimiterInv' /\ SweptInv'
  BY LimiterStep, SweptStep DEF LimiterInv
<1>3. LimiterInv /\ SweptInv => HitsForgotten
  <2> SUFFICES ASSUME LimiterInv, SweptInv, verdict # Nobody, MaxDelay < Minute,
                      NEW u \in User, NEW hit \in hits[u]
               PROVE  hit.t > verdict.t - 2 * Minute
    BY DEF HitsForgotten, Since
  <2>1. hit.t \in Nat /\ lastSweep \in Nat
    BY DEF LimiterInv, LimiterTypeOK, Hit
  <2>2. /\ hit.t > lastSweep - Minute
        /\ verdict.t \in Nat /\ verdict.t - lastSweep < Minute
    BY DEF SweptInv
  <2> QED BY <2>1, <2>2, LimiterAssumption
<1> QED BY <1>1, <1>2, <1>3, PTL DEF LimiterSpec
=============================================================================
