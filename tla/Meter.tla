------------------------------- MODULE Meter --------------------------------
(***************************************************************************)
(* What an answer costs: the usage in its body, the price of the model,    *)
(* raised in peak windows.  Prices are whole units per token, so that      *)
(* nothing is rounded.                                                     *)
(***************************************************************************)
EXTENDS Answers

CONSTANT Day  \* minutes of a day

Price(in, out, read, write) == [in |-> in, out |-> out, read |-> read, write |-> write]
Peak(enabled, mult, windows) == [enabled |-> enabled, mult |-> mult, windows |-> windows]
NoPeak == Peak(FALSE, 0, <<>>)

\* usageJSON.usage: a Chat Completions upstream has fields of its own, the two others
\* share theirs
BodyUsage(upstream, u) ==
    CASE (u.in > 0 \/ u.out > 0) /\ upstream = "chat"  -> u
      [] (u.in > 0 \/ u.out > 0) /\ upstream # "chat"  -> [u EXCEPT !.total = u.in + u.out]
      [] ~(u.in > 0 \/ u.out > 0)                      -> [NoUsage EXCEPT !.total = u.total]

\* parseHHMM: "24:00" is no time
IsTime(t) == t \in 0 .. Day - 1

\* Mutant: a window that ends before it starts is empty
IsPeakTimeSameDay(minute, windows) ==
    \E k \in DOMAIN windows :
        LET w == windows[k]
        IN  IsTime(w[1]) /\ IsTime(w[2]) /\ w[1] <= minute /\ minute < w[2]

\* Windows may reach over midnight; those that make no sense are skipped
IsPeakTime(minute, windows) ==
    \E k \in DOMAIN windows :
        LET w == windows[k]
        IN  /\ IsTime(w[1]) /\ IsTime(w[2])
            /\ \/ w[1] < w[2] /\ w[1] <= minute /\ minute < w[2]
               \/ w[1] > w[2] /\ (w[1] <= minute \/ minute < w[2])

ApplyPeak(price, peak, minute) ==
    LET mult == IF peak.mult <= 1 THEN 2 ELSE peak.mult
    IN  IF peak.enabled /\ IsPeakTime(minute, peak.windows)
          THEN Price(price.in * mult, price.out * mult, price.read * mult, price.write * mult)
          ELSE price

\* Tokens read from the cache or written to it are among those of the prompt
CostUnits(price, u) ==
    LET prompt == u.in - u.cached - u.written
    IN  (IF prompt < 0 THEN 0 ELSE prompt) * price.in
        + u.cached * price.read + u.written * price.write + u.out * price.out
=============================================================================
