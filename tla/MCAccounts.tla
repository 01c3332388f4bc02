----------------------------- MODULE MCAccounts ------------------------------
(* Instances of Accounts: a file in which one section at a time varies. *)
EXTENDS Accounts

Go    == Provider(1, "http://go", "sk-go")
Other == Provider(2, "http://other", "sk-other")

Plain   == Price(2, 5, 1, 3)
Free    == Price(0, 0, 0, 0)
Night   == Peak(TRUE, 3, <<<<9, 2>>, <<4, 4>>, <<5, 12>>>>)
Morning == Peak(TRUE, 0, <<<<2, 5>>, <<4, 6>>>>)

Chatty == Model(1, 0, 0, Plain, Night, "chat", 0)
Claude == Model(2, 2, 7, Plain, Morning, "anthropic", 6)

Alice == User(1, <<1>>, [w \in {"5h"} |-> 3])
Bob   == User(2, <<2, 3>>, [w \in {} |-> 0])

Off == Boost(FALSE, 0, 0, 0, 0, 0, 0)

Base == [providers |-> <<<<Go, Other>>>>, legacy |-> Legacy("", ""), balance |-> 0,
         pricing |-> <<<<Chatty, Claude>>>>, users |-> <<Alice, Bob>>,
         limits |-> [w \in {"5h", "1w"} |-> 9], boost |-> Off, admin |-> "pw", rate |-> 0,
         interval |-> 0]

ProviderTexts ==
    {<<<<Go, Other, Provider(1, "http://again", "sk-again")>>>>, <<<<Other, Go>>>>, <<<<Go>>>>,
     <<<<Go, Provider(2, "", "sk")>>>>, <<<<Go, Provider(2, "no url", "sk")>>>>,
     <<<<Go, Provider(2, "http://other", "")>>>>}
PricingTexts ==
    {<<<<Chatty, Claude, [Chatty EXCEPT !.price = Free, !.target = "anthropic"]>>>>,
     <<<<Claude, [Claude EXCEPT !.alias = 1], Chatty>>>>,
     <<<<[Chatty EXCEPT !.alias = 2], Claude>>>>, <<<<[Chatty EXCEPT !.alias = 1]>>>>,
     <<<<[Chatty EXCEPT !.provider = 3]>>>>, <<<<[Chatty EXCEPT !.price.in = -1]>>>>,
     <<<<[Chatty EXCEPT !.target = "responses"], [Claude EXCEPT !.target = ""]>>>>,
     <<<<[Claude EXCEPT !.target = "chat"]>>>>,
     <<<<[Chatty EXCEPT !.peak = NoPeak, !.price = Free]>>>>, <<<<>>>>, <<>>}
UserTexts ==
    {<<Alice, [Bob EXCEPT !.keys = <<1>>]>>, <<Alice, [Bob EXCEPT !.uuid = 1]>>,
     <<[Alice EXCEPT !.keys = <<1, 1>>]>>, <<[Alice EXCEPT !.keys = <<>>]>>, <<>>,
     <<[Alice EXCEPT !.limits = [w \in {"1w"} |-> -1]]>>}
BoostTexts ==
    {Boost(TRUE, overage, trigger, boost, 0, 0, 0) :
        overage \in {0, 99, 100}, trigger \in {-1, 100, 101}, boost \in {0, 100, 120}}

\* A section that is there twice
Repeated ==
    {[Base EXCEPT !.pricing = <<<<Chatty, Claude>>, <<Claude>>>>],
     [Base EXCEPT !.providers = <<<<Go, Other>>, <<Other>>>>],
     [Base EXCEPT !.providers = <<<<Go, Other>>, <<Other>>>>,
                  !.pricing = <<<<[Chatty EXCEPT !.target = "anthropic"]>>>>]}

MCFiles ==
    {Base} \cup Repeated
    \cup {[Base EXCEPT !.providers = p] : p \in ProviderTexts}
    \cup {[Base EXCEPT !.pricing = p] : p \in PricingTexts}
    \cup {[Base EXCEPT !.users = u] : u \in UserTexts}
    \cup {[Base EXCEPT !.boost = b] : b \in BoostTexts}
    \cup {[Base EXCEPT !.providers = <<>>, !.legacy = Legacy("http://old", key),
                       !.pricing = <<<<Chatty>>>>] : key \in {"", "sk"}}
    \cup {[Base EXCEPT !.balance = 3], [Base EXCEPT !.admin = ""], [Base EXCEPT !.rate = -1]}

MCRewrites ==
    {[Base EXCEPT !.pricing = <<<<[Chatty EXCEPT !.price = Free], Claude>>>>],
     [Base EXCEPT !.pricing = <<<<[Chatty EXCEPT !.alias = 2], Claude>>>>]}

OpenAI ==
    {Settings(0, "", FALSE, 0, "auto", TRUE), Settings(0, "low", FALSE, 0, "required", TRUE),
     Settings(20, "medium", FALSE, 0, "function", FALSE),
     Settings(20, "high", FALSE, 0, "none", FALSE), Settings(20, "xhigh", FALSE, 0, "auto", TRUE),
     Settings(20, "none", FALSE, 0, "required", FALSE)}
Anthropic ==
    {Settings(20, "", FALSE, 0, "any", TRUE), Settings(20, "", TRUE, 0, "tool", FALSE),
     Settings(20, "", TRUE, 7, "any", FALSE), Settings(40, "", TRUE, 8, "none", TRUE),
     Settings(40, "", TRUE, 29, "tool", TRUE), Settings(40, "", TRUE, 30, "auto", FALSE)}
MCDemands == [p \in Protocol |-> IF p = "anthropic" THEN Anthropic ELSE OpenAI]
MCUsages ==
    [p \in Protocol |->
        {Usage(5, 3, 8, 0, 0, 2), Usage(5, 3, 8, 2, 1, 0), Usage(2, 0, 2, 2, 1, 0),
         Usage(0, 4, 4, 0, 0, 4), Usage(0, 0, 0, 3, 0, 0), NoUsage,
         Usage(0, 0, IF p = "anthropic" THEN 0 ELSE 6, 0, 0, 0)}]
=============================================================================
