----------------------------- MODULE MCGateway ------------------------------
(* Instances of Gateway for TLC *)
EXTENDS GatewayProps, TLC

CONSTANTS u1, u2, w1, w2, w3, r1

Symmetry == Permutations(Worker)

MCPeriods  == <<"5h", "1w">>
MCDuration == [p \in {"5h", "1w"} |-> IF p = "5h" THEN 2 ELSE 3]

Tight == [enabled |-> TRUE, overage |-> 125, trigger |-> 50, percent |-> 150,
          poolMax |-> 85, otherMax |-> 80, maxTimes |-> 1]
Twice == [Tight EXCEPT !.maxTimes = 2]
Off   == [Tight EXCEPT !.enabled = FALSE]

Limit(short, long) == [p \in {"5h", "1w"} |-> IF p = "5h" THEN short ELSE long]

ConfWith(policy, limits) ==
    [users |-> User, global |-> limits, own |-> [u \in User |-> NoLimits],
     boost |-> policy]

Full == [ok |-> TRUE, percent |-> 0]
Low  == [ok |-> TRUE, percent |-> 90]
Gone == [ok |-> FALSE, percent |-> 0]

\* quota: one configuration, two windows; a used 4 passes by a boost only
QuotaConf    == {ConfWith([Tight EXCEPT !.overage = 105], Limit(4, 4))}
QuotaCeiling == [n \in 0 .. 1 |-> IF n = 0 THEN 4 ELSE 6]
QuotaHealth  == {Full}

\* reload: the policy changes, the user has a limit of its own or not, reports clean up
OnePeriod     == <<"5h">>
OneDuration   == [p \in {"5h"} |-> 2]
OneLimit(l)   == [p \in {"5h"} |-> l]
ReloadConf    == {[ConfWith(Tight, OneLimit(4)) EXCEPT !.own = [u \in User |-> OneLimit(2)]],
                  ConfWith(Twice, OneLimit(4))}
ReloadCeiling == [n \in 0 .. 2 |-> CASE n = 0 -> 4 [] n = 1 -> 6 [] n = 2 -> 9]
ReloadHealth  == {Full, Low}

\* one_overshoot: one window, no boosts; one request leaves 1 of the limit of 3
PlainConf     == {ConfWith(Off, OneLimit(3))}
PlainCeiling  == [n \in 0 .. 0 |-> 3]
=============================================================================
