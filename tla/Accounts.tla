------------------------------ MODULE Accounts -------------------------------
(***************************************************************************)
(* One request and what is charged for it: the configuration file decides  *)
(* who asks, which provider answers and what a token costs; the request's  *)
(* settings and the answer's usage pass through the conversion.  The file  *)
(* may be written anew while the answer is under way (ConfigWatch tells    *)
(* how a new one is noticed), and the request keeps what it was admitted   *)
(* with.  Quotas and concurrency are the business of Gateway.              *)
(***************************************************************************)
EXTENDS Meter, ConfigFile

CONSTANTS
    Files,    \* texts the program may be started on
    Rewrites, \* texts written later
    Clients,  \* protocols
    Minutes,  \* when requests are admitted, minutes of the day
    Demands,  \* function: protocol -> settings a client of it may ask for
    Usages,   \* function: protocol -> usages an upstream of it may report
    Hy3       \* the model's name that the conversion knows

Protocol == {"chat", "responses", "anthropic"}

\* The values config.Config holds.  Of a model's target, what is no protocol is ""
Prices    == [in : Int, out : Int, read : Int, write : Int]
Peaks     == [enabled : BOOLEAN, mult : Int, windows : Seq(Int \X Int)]
Models    == [name : Nat, provider : Nat, alias : Nat, price : Prices, peak : Peaks,
              target : Protocol \cup {""}, limit : Int]
IsText(f) ==
    /\ f.providers \in Seq(Seq([name : Nat, url : STRING, key : STRING]))
    /\ f.pricing \in Seq(Seq(Models))
    /\ f.users \in Seq(ToSet(f.users)) /\ \A u \in ToSet(f.users) : u.keys \in Seq(Nat)
    /\ f.boost \in [enabled : BOOLEAN, overage : Int, trigger : Int, boost : Int, pool : Int,
                    other : Int, times : Int]
    /\ f.interval \in Int

\* What a client may ask for in its protocol, and what an upstream may report
Efforts == {"", "none", "minimal", "low", "medium", "high", "xhigh", "max"}
OpenAIDemands ==
    [limit : Nat, effort : Efforts, thinking : {FALSE}, budget : {0},
     choice : {"auto", "none", "required", "function"}, parallel : BOOLEAN]
AnthropicDemands ==
    [limit : Nat, effort : {""}, thinking : BOOLEAN, budget : Nat,
     choice : {"auto", "none", "any", "tool"}, parallel : BOOLEAN]
DemandsOf(protocol) == IF protocol = "anthropic" THEN AnthropicDemands ELSE OpenAIDemands
Reports == [in : Nat, out : Nat, total : Nat, cached : Nat, written : Nat, reasoning : Nat]

ASSUME AccountsAssumption ==
    /\ Day \in Nat \ {0} /\ Minutes \subseteq 0 .. Day - 1
    /\ \A f \in Files \cup Rewrites : IsText(f)
    /\ Clients \subseteq Protocol
    /\ \A c \in Clients : Demands[c] \subseteq DemandsOf(c)
    /\ \A p \in Protocol : Usages[p] \subseteq Reports

VARIABLES
    file,     \* the text last accepted, or the one the program is started on
    stage,    \* "start", "exited", "idle", "asked" or "charged"
    request,  \* what forward has captured of the request
    charge    \* the usage reported, the cost recorded for it, the usage told to the client

vars == <<file, stage, request, charge>>

config == Parse(file)

Init == file \in Files /\ stage = "start" /\ request = <<>> /\ charge = <<>>

\* main: Load, or exit
Start == /\ stage = "start"
         /\ stage' = IF Accepted(file) THEN "idle" ELSE "exited"
         /\ UNCHANGED <<file, request, charge>>

\* reload: a text that is not accepted leaves the configuration as it is
Rewrite(f) == /\ stage = "asked"
              /\ file' = IF Accepted(f) THEN f ELSE file
              /\ UNCHANGED <<stage, request, charge>>

\* forward, up to the request for the upstream: a client has the key of some user, and asks
\* for a model that is listed
Ask(name, client, minute, asked) ==
    LET model  == config.pricing[name]
        target == IF model.target = "" THEN client ELSE model.target
    IN  /\ stage = "idle" /\ name \in DOMAIN config.pricing
        /\ \E u \in ToSet(config.users) : u.keys # <<>>
        /\ request' = [model |-> model, provider |-> config.providers[model.provider],
                       minute |-> minute, client |-> client, target |-> target, asked |-> asked,
                       sent |-> IF client = target THEN asked
                                ELSE ConvertSettings(client, target, asked, model.limit,
                                                     model.name = Hy3)]
        /\ stage' = "asked"
        /\ UNCHANGED <<file, charge>>

\* A whole answer with this usage
Body(upstream, u) ==
    CASE upstream = "chat"      -> [content |-> <<>>, reasoning |-> <<>>, calls |-> <<>>,
                                    finish |-> "stop", usage |-> u]
      [] upstream = "responses" -> [output |-> <<>>, status |-> "completed", usage |-> u]
      [] upstream = "anthropic" -> [content |-> <<>>, stop |-> "end_turn", usage |-> u]

\* ParseBodyUsage reads the answer as it came, before its conversion
Billed(u) == BodyUsage(request.target, u)

\* Mutant: the price in force when the answer is there
RateNow == LET model == config.pricing[request.model.name]
           IN  ApplyPeak(model.price, model.peak, request.minute)

Rate == ApplyPeak(request.model.price, request.model.peak, request.minute)

\* The rest of forward, with recordUsage
Answer(u) ==
    /\ stage = "asked"
    /\ charge' = [usage |-> u, cost |-> CostUnits(Rate, Billed(u)),
                  told |-> IF request.client = request.target THEN u
                           ELSE ConvertAnswer(request.client, request.target,
                                              Body(request.target, u), FALSE, <<>>).usage]
    /\ stage' = "charged"
    /\ UNCHANGED <<file, request>>

Next ==
    \/ Start
    \/ \E f \in Rewrites : Rewrite(f)
    \/ /\ stage = "idle"
       /\ \E name \in DOMAIN config.pricing, client \in Clients, minute \in Minutes :
             \E asked \in Demands[client] : Ask(name, client, minute, asked)
    \/ stage = "asked" /\ \E u \in Usages[request.target] : Answer(u)

Spec == Init /\ [][Next]_vars

-----------------------------------------------------------------------------
\* A configuration is in force
Running == stage \in {"idle", "asked", "charged"}

\* The entry of a list that was written first under its name
WrittenFirst(e, entries) ==
    \E k \in DOMAIN entries : /\ entries[k] = e
                              /\ \A j \in 1 .. k - 1 : entries[j].name # e.name

\* A configuration in force can be worked with (validate, NormalizeProviders): a key has
\* one user, a model has a provider to go to, the name a model has upstream is not the
\* name under which another model is offered, a boost raises the limit above its trigger
ConfigUsable ==
    Running =>
        /\ \A k, l \in DOMAIN config.users : \A key \in ToSet(config.users[k].keys) :
              Contains(config.users[l].keys, key) => k = l
        /\ \A n \in DOMAIN config.pricing :
              LET m == config.pricing[n]
              IN  /\ m.provider \in DOMAIN config.providers
                  /\ m.alias # Unset => \A o \in DOMAIN config.pricing \ {n} : o # m.alias
        /\ config.boost.enabled => /\ config.boost.overage >= 100
                                   /\ config.boost.boost > config.boost.trigger
        /\ config.interval > 0

\* Whatever is written twice, a model and a provider in force have the values of the first
\* section and of its first entry of the name; of a model only the provider may be filled
\* in, with the same one for all (decodeFirstWins, validate).  Which one, and which models
\* are listed, is the order of names: as written only where the section is there once
FirstWritten ==
    Running =>
        /\ \A n \in DOMAIN config.pricing :
              LET m == config.pricing[n]
              IN  \E p \in {Unset, m.provider} :
                      /\ WrittenFirst([m EXCEPT !.provider = p], file.pricing[1])
                      /\ p = Unset => m.provider = config.order[1]
        /\ file.providers # <<>> /\ file.providers[1] # <<>> =>
              /\ \A n \in DOMAIN config.providers :
                    WrittenFirst(config.providers[n], file.providers[1])
              /\ Len(file.providers) = 1 => config.order[1] = file.providers[1][1].name
        /\ Len(file.pricing) = 1 =>
              IsInjective(config.models) /\ ToSet(config.models) = DOMAIN config.pricing

Minimum(x, y) == IF x < y THEN x ELSE y
\* How long after the start of a window, around the clock
InWindow(minute, w) ==
    IsTime(w[1]) /\ IsTime(w[2]) /\ (minute - w[1]) % Day < (w[2] - w[1]) % Day
Times(m) == IF /\ m.peak.enabled
               /\ \E k \in DOMAIN m.peak.windows : InWindow(request.minute, m.peak.windows[k])
            THEN IF m.peak.mult > 1 THEN m.peak.mult ELSE 2
            ELSE 1

\* A usage that tells prompt or completion tokens, and counts those of the cache in the
\* prompt where there are any, as the protocols of OpenAI do: what is charged is the price
\* the request was admitted under, times the multiplier if its minute lay in a window, for
\* every token once, cached ones at their own price, and never less than nothing for the
\* prompt (CostUnits, ApplyPeak)
TellsTokens(u) == u.in > 0 \/ u.out > 0
TokensCost(fresh, u, p) ==
    fresh * p.in + u.cached * p.read + u.written * p.write + u.out * p.out
ChargeExact ==
    LET u == charge.usage
    IN  /\ stage = "charged" /\ TellsTokens(u)
        /\ request.target = "anthropic" => u.cached + u.written = 0
        => charge.cost = Times(request.model)
             * TokensCost(u.in - Minimum(u.in, u.cached + u.written), u, request.model.price)

\* A client that reckons with the usage it is told comes to what it was charged, whatever
\* protocol it speaks (ConvertResponseMeta, ParseBodyUsage)
ToldAsBilled ==
    stage = "charged" =>
        CostUnits(Rate, BodyUsage(request.client, charge.told)) = charge.cost

\* What a client asked of the answer is what an upstream of another protocol is asked: its
\* limit, whether and how hard to think, which tools to use and whether in parallel.  Anthropic
\* is given a limit, and a budget when it is to think, which for an effort other than low,
\* medium and high is the smallest; it is not told of tools (RequestPromiseKept).  hy3
\* gets the nearest of its efforts (ParseRequest, ConvertRequest)
Effort(protocol, s) ==
    IF protocol # "anthropic" THEN s.effort
    ELSE IF s.thinking THEN EffortOf(s.budget) ELSE ""
Nearest(target, hy3, effort) ==
    CASE target = "anthropic" /\ effort \notin {"", "low", "medium", "high"}       -> "low"
      [] target = "chat" /\ hy3 /\ effort \in {"none", "minimal"}                 -> "no_think"
      [] target = "chat" /\ hy3 /\ effort \in {"medium", "high", "xhigh", "max"}  -> "high"
      [] OTHER                                                                   -> effort
\* A choice of tools in the words of one protocol and of another
SameChoice(a, b) ==
    a = b \/ <<a, b>> \in {<<"any", "required">>, <<"tool", "function">>,
                          <<"required", "any">>, <<"function", "tool">>}
SettingsKept ==
    stage \in {"asked", "charged"} /\ request.client # request.target =>
        LET asked  == request.asked
            sent   == request.sent
            target == request.target
        IN  /\ Effort(target, sent) =
                  Nearest(target, request.model.name = Hy3, Effort(request.client, asked))
            /\ asked.limit > 0 => sent.limit = asked.limit
            /\ target = "anthropic" => sent.limit > 0 /\ (sent.thinking => sent.budget > 0)
            /\ target # "anthropic" =>
                  SameChoice(asked.choice, sent.choice) /\ sent.parallel = asked.parallel

-----------------------------------------------------------------------------
(* What the documents promise and the code does not do *)

\* README.md:64 and 93, config.go:337: a model that names no provider goes to the first one
\* that is written, also where "providers" itself is there twice
FirstProviderServes ==
    Running /\ file.providers # <<>> /\ file.providers[1] # <<>> =>
        \A m \in ToSet(file.pricing[1]) :
            m.provider = Unset /\ WrittenFirst(m, file.pricing[1]) =>
                config.pricing[m.name].provider = file.providers[1][1].name

\* README.md:204 and 242: the real tokens are charged.  An Anthropic upstream leaves those of
\* the cache out of its input_tokens, so the latter are to be charged in full
CachedBesidesInput ==
    stage = "charged" /\ request.target = "anthropic" /\ TellsTokens(charge.usage) =>
        charge.cost = Times(request.model)
            * TokensCost(charge.usage.in, charge.usage, request.model.price)

\* README.md:219, regression_test.go:171: which tools to use is not lost.  The protocol of
\* Anthropic has words for it (parse_request.go:379)
ChoiceReachesAnthropic ==
    /\ stage \in {"asked", "charged"}
    /\ request.target = "anthropic" /\ request.client # "anthropic"
    /\ request.asked.choice # "auto"
    => SameChoice(request.asked.choice, request.sent.choice)

\* build_request.go:202 and 209: a client that asks for no thinking gets none
NoneIsNone ==
    stage \in {"asked", "charged"} /\ request.asked.effort = "none" =>
        Effort(request.target, request.sent) \in {"", "none", "no_think"}

\* At any moment one of the four promises is kept.  It follows from each of them, and a
\* request that breaks it breaks all four
RequestPromiseKept ==
    FirstProviderServes \/ CachedBesidesInput \/ ChoiceReachesAnthropic \/ NoneIsNone
=============================================================================
