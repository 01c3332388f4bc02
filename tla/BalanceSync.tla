---------------------------- MODULE BalanceSync -----------------------------
(***************************************************************************)
(* balance.Syncer over the hot-reloaded configuration of ConfigWatch: the  *)
(* goroutine of Start fetches the balance of the configured provider,      *)
(* then sleeps until its interval is over, in naps short enough to notice  *)
(* that the configuration has shortened the interval.                      *)
(*                                                                         *)
(* Time is kept as ages, so that it need not be bounded.                   *)
(***************************************************************************)
EXTENDS ConfigWatch

CONSTANTS
    Interval,  \* balance_interval_seconds of every valid content
    Provider,  \* its balance provider
    Unsynced,  \* the Syncer before its first successful fetch
    Timeout,   \* how long a request to the provider may take
    Check,     \* intervalCheck
    MaxAge     \* ages are counted up to here

ASSUME SyncAssumption ==
    /\ Interval \in [Valid -> Nat \ {0}]
    /\ DOMAIN Provider = Valid /\ \A c \in Valid : Provider[c] # Unsynced
    /\ Check \in Nat \ {0} /\ Timeout \in Nat /\ MaxAge \in Nat
    /\ \A c \in Valid : Interval[c] + Check < MaxAge

VARIABLES
    spc,      \* the Syncer's goroutine
    asked,    \* the provider the request in flight goes to
    spend,    \* how long the request has taken
    age,      \* time since lastFetch
    nap,      \* time until the timer fires
    snap,     \* whose balance Syncer.snap holds
    since     \* time since a reload last replaced the configuration

syncVars == <<spc, asked, spend, age, nap, snap>>
vars     == <<watchVars, syncVars, since>>

Init == /\ WatchInit
        /\ spc = "start" /\ asked = Unsynced /\ spend = 0 /\ age = 0 /\ nap = 0
        /\ snap = Unsynced /\ since = MaxAge

AtMost(x, y) == IF x <= y THEN x ELSE y
Older(x)     == AtMost(x + 1, MaxAge)

\* The watcher moves; the Syncer sees it only when it reads the configuration
Reconfigure == /\ WatchNext
               /\ since' = IF wpc = "reload" /\ cur' # cur THEN 0 ELSE since
               /\ UNCHANGED syncVars

-----------------------------------------------------------------------------
(* The Syncer.  Time passes while it sleeps or waits for an answer only *)

Tick == /\ \/ spc = "nap" /\ nap > 0
           \/ spc = "asked" /\ spend < Timeout
        /\ age' = Older(age) /\ since' = Older(since)
        /\ nap' = IF spc = "nap" THEN nap - 1 ELSE nap
        /\ spend' = IF spc = "asked" THEN spend + 1 ELSE spend
        /\ UNCHANGED <<watchVars, spc, asked, snap>>

\* main starts the Syncer after Watch; its goroutine fetches at once
StartSync == /\ spc = "start" /\ wpc \notin {"load", "hash"}
             /\ spc' = "first"
             /\ UNCHANGED <<watchVars, asked, spend, age, nap, snap, since>>

\* Mutant: the provider is resolved at the first fetch only
FetchOnceResolved == /\ spc \in {"first", "due"}
                     /\ spc' = "asked" /\ spend' = 0
                     /\ asked' = IF snap = Unsynced THEN Provider[cur] ELSE snap
                     /\ UNCHANGED <<watchVars, age, nap, snap, since>>

\* current: the address and the key of the provider as configured now
Fetch == /\ spc \in {"first", "due"}
         /\ spc' = "asked" /\ asked' = Provider[cur] /\ spend' = 0
         /\ UNCHANGED <<watchVars, age, nap, snap, since>>

\* Mutant: a failed fetch clears the snapshot
FetchFailsClears == /\ spc = "asked"
                    /\ spc' = "plan" /\ age' = 0 /\ snap' = Unsynced
                    /\ UNCHANGED <<watchVars, asked, spend, nap, since>>

\* A whole answer replaces the snapshot
FetchSucceeds == /\ spc = "asked"
                 /\ spc' = "plan" /\ age' = 0 /\ snap' = asked
                 /\ UNCHANGED <<watchVars, asked, spend, nap, since>>

\* Mutant: while there is no snapshot, a failed fetch is tried again at once
FetchFailsAgain == /\ spc = "asked"
                   /\ spc' = (IF snap = Unsynced THEN "due" ELSE "plan") /\ age' = 0
                   /\ UNCHANGED <<watchVars, asked, spend, nap, snap, since>>

\* No answer in time, an error, or one Parse rejects: the snapshot stays, and the next
\* attempt is an interval away all the same
FetchFails == /\ spc = "asked"
              /\ spc' = "plan" /\ age' = 0
              /\ UNCHANGED <<watchVars, asked, spend, nap, snap, since>>

\* Mutant: the timer is set to the whole interval
PlanOnce == /\ spc = "plan"
            /\ IF age >= Interval[cur]
                 THEN spc' = "due" /\ UNCHANGED nap
                 ELSE spc' = "nap" /\ nap' = Interval[cur] - age
            /\ UNCHANGED <<watchVars, asked, spend, age, snap, since>>

\* The head of the loop: is it time to fetch, and if not, how long to sleep?
Plan == /\ spc = "plan"
        /\ IF age >= Interval[cur]
             THEN spc' = "due" /\ UNCHANGED nap
             ELSE spc' = "nap" /\ nap' = AtMost(Interval[cur] - age, Check)
        /\ UNCHANGED <<watchVars, asked, spend, age, snap, since>>

\* The timer fires
Wake == /\ spc = "nap" /\ nap = 0
        /\ spc' = "plan"
        /\ UNCHANGED <<watchVars, asked, spend, age, nap, snap, since>>

Sync == StartSync \/ Fetch \/ FetchSucceeds \/ FetchFails \/ Plan \/ Wake
Next == Reconfigure \/ Tick \/ Sync
Spec == Init /\ [][Next]_vars

\* Time goes on, both goroutines run, and a provider asked again and again answers once
Fairness == /\ WF_vars(Reconfigure /\ Watcher)
            /\ WF_vars(Tick)
            /\ WF_vars(Sync)
            /\ \A v \in Valid : SF_vars(FetchSucceeds /\ asked = Provider[v])

FairSpec == Spec /\ Fairness

-----------------------------------------------------------------------------
(* Properties *)

\* A shortened interval takes effect before the timer of the old one: nobody sleeps past
\* the current interval unless the configuration changed less than a check ago
IntervalHonoured ==
    spc = "nap" => age <= Interval[cur] \/ since <= Check

\* The provider is not asked more often than configured, one that has never answered
\* included: every fetch but the very first begins an interval after the last one ended,
\* answered or not, unless a reload replaced the configuration at that moment
NotTooOften ==
    [][Fetch => spc = "first" \/ since = 0 \/ age >= Interval[cur]]_vars

\* A snapshot once taken is never lost, whatever fetches fail
SnapshotKept == [][snap # Unsynced => snap' # Unsynced]_vars

\* When the configuration settles, the snapshot becomes that of its provider: an answer
\* of the provider configured before cannot stay
SnapshotFollows ==
    \A v \in Valid : <>[](cur = v) => <>[](snap = Provider[v])

-----------------------------------------------------------------------------
(* What IntervalHonoured, NotTooOften and SnapshotKept need to be kept by every step *)

\* The goroutine runs on a valid configuration
Running == /\ wpc # "load" => cur \in Valid
           /\ spc # "start" => wpc # "load"
           /\ spc \in {"start", "first", "due", "asked", "plan", "nap"}

\* What is left of a nap ends with the interval, or within a check of the change
NapInv == /\ age \in Nat /\ since \in Nat /\ nap \in 0 .. Check
          /\ spc = "nap" => age + nap <= Interval[cur] \/ since + nap <= Check

\* Nothing but the end of the interval brings the goroutine to a fetch, save the first
DueInv == /\ spc = "asked" => asked # Unsynced
          /\ spc = "due" => since = 0 \/ age >= Interval[cur]

SyncInv == Running /\ NapInv /\ DueInv
=============================================================================
