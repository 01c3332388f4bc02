--------------------------- MODULE AccountsProofs ----------------------------
(***************************************************************************)
(* What a request is asked, charged and told, and what a configuration     *)
(* that was accepted can be relied on for: any texts, prices, windows,     *)
(* settings and usages.                                                    *)
(***************************************************************************)
EXTENDS Accounts, Induction

-----------------------------------------------------------------------------
(* Peak windows *)

LEMMA Around ==
    ASSUME NEW d \in Nat \ {0}, NEW x \in 0 .. d - 1, NEW y \in 0 .. d - 1
    PROVE  (x - y) % d = IF y <= x THEN x - y ELSE x - y + d
<1> DEFINE z == IF y <= x THEN x - y ELSE x - y + d
           q == IF y <= x THEN 0 ELSE -1
<1>1. z \in 0 .. d - 1 /\ q \in Int /\ x - y \in Int
  OBVIOUS
<1>2. x - y = d * q + z
  OBVIOUS
<1> QED BY <1>1, <1>2

\* A window around the clock is the window of the code, whether it reaches over midnight or not
LEMMA SameWindow ==
    ASSUME NEW minute \in 0 .. Day - 1, NEW w
    PROVE  InWindow(minute, w) <=>
             /\ IsTime(w[1]) /\ IsTime(w[2])
             /\ \/ w[1] < w[2] /\ w[1] <= minute /\ minute < w[2]
                \/ w[1] > w[2] /\ (w[1] <= minute \/ minute < w[2])
<1> SUFFICES ASSUME IsTime(w[1]), IsTime(w[2])
             PROVE  (minute - w[1]) % Day < (w[2] - w[1]) % Day <=>
                      \/ w[1] < w[2] /\ w[1] <= minute /\ minute < w[2]
                      \/ w[1] > w[2] /\ (w[1] <= minute \/ minute < w[2])
  BY DEF InWindow
<1> DEFINE a == w[1]
           b == w[2]
<1>1. Day \in Nat \ {0} /\ a \in 0 .. Day - 1 /\ b \in 0 .. Day - 1
  BY AccountsAssumption DEF IsTime
<1> HIDE DEF a, b
<1>2. (minute - a) % Day = IF a <= minute THEN minute - a ELSE minute - a + Day
  BY <1>1, Around
<1>3. (b - a) % Day = IF a <= b THEN b - a ELSE b - a + Day
  BY <1>1, Around
<1>4. (minute - a) % Day < (b - a) % Day <=>
        (a < b /\ a <= minute /\ minute < b) \/ (a > b /\ (a <= minute \/ minute < b))
  BY <1>1, <1>2, <1>3
<1> QED BY <1>4 DEF a, b

\* What ApplyPeak multiplies by
LEMMA PeakTimes ==
    ASSUME NEW m, m.price \in Prices, m.peak \in Peaks, NEW minute \in 0 .. Day - 1
    PROVE  LET times == IF /\ m.peak.enabled
                           /\ \E k \in DOMAIN m.peak.windows : InWindow(minute, m.peak.windows[k])
                        THEN IF m.peak.mult > 1 THEN m.peak.mult ELSE 2
                        ELSE 1
               rate  == ApplyPeak(m.price, m.peak, minute)
           IN  /\ times \in Int /\ rate \in Prices
               /\ rate.in = m.price.in * times /\ rate.out = m.price.out * times
               /\ rate.read = m.price.read * times /\ rate.write = m.price.write * times
<1> DEFINE inside == \E k \in DOMAIN m.peak.windows : InWindow(minute, m.peak.windows[k])
           mult   == IF m.peak.mult > 1 THEN m.peak.mult ELSE 2
           times  == IF m.peak.enabled /\ inside THEN mult ELSE 1
           rate   == ApplyPeak(m.price, m.peak, minute)
<1>1. IsPeakTime(minute, m.peak.windows) <=> inside
  BY SameWindow DEF IsPeakTime
<1> HIDE DEF inside
<1>2. /\ m.price.in \in Int /\ m.price.out \in Int /\ m.price.read \in Int
      /\ m.price.write \in Int /\ m.peak.mult \in Int /\ m.peak.enabled \in BOOLEAN
  BY DEF Prices, Peaks
<1>3. mult = (IF m.peak.mult <= 1 THEN 2 ELSE m.peak.mult) /\ mult \in Int
  BY <1>2
<1> HIDE DEF mult
<1>4. CASE m.peak.enabled /\ inside
  <2>1. rate = Price(m.price.in * mult, m.price.out * mult, m.price.read * mult,
                     m.price.write * mult)
    BY <1>1, <1>3, <1>4 DEF ApplyPeak
  <2>2. times = mult
    BY <1>4
  <2> QED BY <1>2, <1>3, <2>1, <2>2 DEF Price, Prices, inside, mult
<1>5. CASE ~(m.peak.enabled /\ inside)
  <2>1. rate = m.price
    BY <1>1, <1>5 DEF ApplyPeak
  <2>2. times = 1
    BY <1>5
  <2> QED BY <1>2, <2>1, <2>2 DEF inside, mult
<1> QED BY <1>4, <1>5

-----------------------------------------------------------------------------
(* Costs *)

Cost(u, p) ==
    IF u.in = 0 /\ u.out = 0 THEN 0
    ELSE (u.in - Minimum(u.in, u.cached + u.written)) * p.in
         + u.cached * p.read + u.written * p.write + u.out * p.out

\* Usage without prompt and completion costs nothing; cached tokens beyond the prompt do
\* not make it less
LEMMA BodyCost ==
    ASSUME NEW u \in Reports, NEW p \in Prices, NEW upstream
    PROVE  CostUnits(p, BodyUsage(upstream, u)) = Cost(u, p)
<1>1. /\ u.in \in Nat /\ u.out \in Nat /\ u.cached \in Nat /\ u.written \in Nat
      /\ p.in \in Int /\ p.out \in Int /\ p.read \in Int /\ p.write \in Int
  BY DEF Reports, Prices
<1> DEFINE b == BodyUsage(upstream, u)
<1>2. CASE u.in > 0 \/ u.out > 0
  <2>1. b = u \/ b = [u EXCEPT !.total = u.in + u.out]
    BY <1>2 DEF BodyUsage
  <2>2. b.in = u.in /\ b.out = u.out /\ b.cached = u.cached /\ b.written = u.written
    BY <2>1 DEF Reports
  <2> HIDE DEF b
  <2>3. (IF u.in - u.cached - u.written < 0 THEN 0 ELSE u.in - u.cached - u.written)
          = u.in - Minimum(u.in, u.cached + u.written)
    BY <1>1 DEF Minimum
  <2>4. ~(u.in = 0 /\ u.out = 0)
    BY <1>1, <1>2
  <2>5. CostUnits(p, b) = Cost(u, p)
    BY <2>2, <2>3, <2>4 DEF CostUnits, Cost
  <2> QED BY <2>5 DEF b
<1>3. CASE ~(u.in > 0 \/ u.out > 0)
  <2>1. b = [NoUsage EXCEPT !.total = u.total]
    BY <1>3 DEF BodyUsage
  <2>2. b.in = 0 /\ b.out = 0 /\ b.cached = 0 /\ b.written = 0
    BY <2>1 DEF NoUsage, Usage
  <2> HIDE DEF b
  <2>3. u.in = 0 /\ u.out = 0
    BY <1>1, <1>3
  <2>4. CostUnits(p, b) = 0 * p.in + 0 * p.read + 0 * p.write + 0 * p.out
    BY <2>2 DEF CostUnits
  <2>5. CostUnits(p, b) = 0
    BY <1>1, <2>4
  <2> QED BY <2>3, <2>5 DEF Cost, b
<1> QED BY <1>2, <1>3

LEMMA CostTimes ==
    ASSUME NEW u \in Reports, NEW p \in Prices, NEW q \in Prices, NEW t \in Int,
           q.in = p.in * t, q.out = p.out * t, q.read = p.read * t, q.write = p.write * t
    PROVE  Cost(u, q) = t * Cost(u, p)
<1>1. /\ u.in \in Int /\ u.out \in Int /\ u.cached \in Int /\ u.written \in Int
      /\ p.in \in Int /\ p.out \in Int /\ p.read \in Int /\ p.write \in Int
  BY DEF Reports, Prices
<1>2. \A f, c, w, o, a, b, d, e \in Int :
        f * (a * t) + c * (b * t) + w * (d * t) + o * (e * t)
          = t * (f * a + c * b + w * d + o * e)
  OBVIOUS
<1> DEFINE f == u.in - Minimum(u.in, u.cached + u.written)
<1>3. f \in Int
  BY <1>1 DEF Minimum
<1> HIDE DEF f
<1>4. CASE u.in = 0 /\ u.out = 0
  <2>1. Cost(u, q) = 0 /\ Cost(u, p) = 0
    BY <1>4 DEF Cost
  <2> QED BY <2>1
<1>5. CASE ~(u.in = 0 /\ u.out = 0)
  <2>1. Cost(u, p) = f * p.in + u.cached * p.read + u.written * p.write + u.out * p.out
    BY <1>5 DEF Cost, f
  <2>2. Cost(u, q) = f * (p.in * t) + u.cached * (p.read * t) + u.written * (p.write * t)
                     + u.out * (p.out * t)
    BY <1>5 DEF Cost, f
  <2> QED BY <1>1, <1>2, <1>3, <2>1, <2>2
<1> QED BY <1>4, <1>5

\* What a client of another protocol is told costs the same
LEMMA ToldCost ==
    ASSUME NEW from \in Protocol, NEW to \in Protocol, NEW u \in Reports, NEW p \in Prices
    PROVE  LET v == ConvertAnswer(to, from, Body(from, u), FALSE, <<>>).usage
           IN  v \in Reports /\ Cost(v, p) = Cost(u, p)
<1> DEFINE c == ParseAnswer(from, Body(from, u))
           v == ConvertAnswer(to, from, Body(from, u), FALSE, <<>>).usage
<1>1. /\ u.in \in Nat /\ u.out \in Nat /\ u.total \in Nat /\ u.cached \in Nat
      /\ u.written \in Nat /\ u.reasoning \in Nat
      /\ p.in \in Int /\ p.out \in Int /\ p.read \in Int /\ p.write \in Int
  BY DEF Reports, Prices
<1>2. c.usage = u \/ c.usage = Usage(u.in, u.out, u.in + u.out, u.cached, u.written, 0)
  <2>1. CASE from = "chat"
    BY <2>1 DEF ParseAnswer, Body, ParseChatAnswer, Choice
  <2>2. CASE from = "responses"
    BY <2>2 DEF ParseAnswer, Body, ParseResponsesAnswer, Choice
  <2>3. CASE from = "anthropic"
    BY <2>3 DEF ParseAnswer, Body, ParseAnthropicAnswer, Choice
  <2> QED BY <2>1, <2>2, <2>3 DEF Protocol
<1>3. v = Told(c.usage) \/ v = AnthropicUsage(c.usage)
  <2>1. CASE to = "chat"
    BY <2>1 DEF ConvertAnswer, BuildChatAnswer
  <2>2. CASE to = "responses"
    BY <2>2 DEF ConvertAnswer, BuildResponsesAnswer
  <2>3. CASE to = "anthropic"
    BY <2>3 DEF ConvertAnswer, BuildAnthropicAnswer
  <2> QED BY <2>1, <2>2, <2>3 DEF Protocol
<1> HIDE DEF c, v
<1> DEFINE d == c.usage
<1>4. /\ d \in Reports /\ d.in = u.in /\ d.out = u.out /\ d.cached = u.cached
      /\ d.written = u.written
  BY <1>1, <1>2 DEF Usage, Reports
<1> HIDE DEF d
<1>5. CASE HasUsage(d)
  <2>1. v = d \/ v = Usage(d.in, d.out, 0, d.cached, d.written, 0)
    BY <1>3, <1>5 DEF Told, AnthropicUsage, d
  <2>2. /\ v \in Reports /\ v.in = u.in /\ v.out = u.out /\ v.cached = u.cached
        /\ v.written = u.written
    BY <1>1, <1>4, <2>1 DEF Usage, Reports
  <2>3. Cost(v, p) = Cost(u, p)
    BY <2>2 DEF Cost
  <2> QED BY <2>2, <2>3 DEF v
<1>6. CASE ~HasUsage(d)
  <2>1. v = NoUsage
    BY <1>3, <1>6 DEF Told, AnthropicUsage, d
  <2>2. v \in Reports /\ v.in = 0 /\ v.out = 0
    BY <2>1 DEF NoUsage, Usage, Reports
  <2>3. u.in = 0 /\ u.out = 0
    BY <1>1, <1>4, <1>6 DEF HasUsage
  <2>4. Cost(v, p) = Cost(u, p)
    BY <2>2, <2>3 DEF Cost
  <2> QED BY <2>2, <2>4 DEF v
<1> QED BY <1>5, <1>6

-----------------------------------------------------------------------------
(* Settings *)

Asks(client, target, hy3, asked, sent) ==
    /\ Effort(target, sent) = Nearest(target, hy3, Effort(client, asked))
    /\ asked.limit > 0 => sent.limit = asked.limit
    /\ target = "anthropic" => sent.limit > 0 /\ (sent.thinking => sent.budget > 0)
    /\ target # "anthropic" =>
          SameChoice(asked.choice, sent.choice) /\ sent.parallel = asked.parallel

\* Settings that parsing has made common to all protocols
Common(client, s, r) ==
    /\ r.limit = s.limit /\ r.parallel = s.parallel /\ s.limit \in Nat
    /\ r.effort = Effort(client, s) /\ r.effort \in Efforts
    /\ r.thinking = s.thinking
    /\ SameChoice(s.choice, r.choice)

LEMMA ParsedSettings ==
    ASSUME NEW client \in Protocol, NEW s \in DemandsOf(client)
    PROVE  Common(client, s, ParseSettings(client, s))
<1>1. CASE client = "anthropic"
  <2>0. s \in AnthropicDemands
    BY <1>1 DEF DemandsOf
  <2> DEFINE effort == IF s.thinking THEN EffortOf(s.budget) ELSE ""
  <2>1. EffortOf(s.budget) \in {"low", "medium", "high"}
    <3>1. s.budget \in Nat
      BY <2>0 DEF AnthropicDemands
    <3> QED BY <3>1 DEF EffortOf
  <2>2. effort \in Efforts
    BY <2>1 DEF Efforts
  <2> HIDE DEF effort
  <2>3. ParseSettings(client, s) = [s EXCEPT !.effort = effort, !.choice = ChoiceOf(@)]
    BY <1>1 DEF ParseSettings, effort
  <2>4. SameChoice(s.choice, ChoiceOf(s.choice))
    <3>1. s.choice \in {"auto", "none", "any", "tool"}
      BY <2>0 DEF AnthropicDemands
    <3> QED BY <3>1 DEF ChoiceOf, SameChoice
  <2>5. Effort(client, s) = effort
    BY <1>1 DEF Effort, effort
  <2> DEFINE t == [s EXCEPT !.effort = effort, !.choice = ChoiceOf(@)]
  <2>6. /\ t.limit = s.limit /\ t.parallel = s.parallel /\ t.effort = effort
        /\ t.thinking = s.thinking /\ t.choice = ChoiceOf(s.choice) /\ s.limit \in Nat
    BY <2>0 DEF AnthropicDemands
  <2> HIDE DEF t
  <2> QED BY <2>2, <2>3, <2>4, <2>5, <2>6 DEF Common, t
<1>2. CASE client # "anthropic"
  <2>1. ParseSettings(client, s) = s /\ Effort(client, s) = s.effort
    BY <1>2 DEF ParseSettings, Effort
  <2>2. s \in OpenAIDemands
    BY <1>2 DEF DemandsOf
  <2>3. SameChoice(s.choice, s.choice)
    BY DEF SameChoice
  <2> QED BY <2>1, <2>2, <2>3 DEF OpenAIDemands, Common
<1> QED BY <1>1, <1>2

\* The efforts a protocol of OpenAI is asked for
LEMMA NearestEffort ==
    ASSUME NEW hy3 \in BOOLEAN, NEW effort \in Efforts
    PROVE  /\ CompletionsEffort(effort, hy3) = Nearest("chat", hy3, effort)
           /\ effort = Nearest("responses", hy3, effort)
<1>1. CASE ~hy3
  BY <1>1 DEF CompletionsEffort, Nearest
<1>2. CASE hy3
  <2>1. effort \in {"", "low"} \/ effort \in {"none", "minimal"}
        \/ effort \in {"medium", "high", "xhigh", "max"}
    BY DEF Efforts
  <2> QED BY <1>2, <2>1 DEF CompletionsEffort, Nearest
<1> QED BY <1>1, <1>2

\* Another protocol is asked for the same
LEMMA SettingsConverted ==
    ASSUME NEW client \in Protocol, NEW target \in Protocol, client # target,
           NEW s \in DemandsOf(client), NEW limit \in Int, NEW hy3 \in BOOLEAN
    PROVE  Asks(client, target, hy3, s, ConvertSettings(client, target, s, limit, hy3))
<1> DEFINE r    == ParseSettings(client, s)
           sent == ConvertSettings(client, target, s, limit, hy3)
<1>1. Common(client, s, r)
  BY ParsedSettings
<1>2. CASE target # "anthropic"
  <2> DEFINE effort == Nearest(target, hy3, r.effort)
  <2>1. sent = Settings(r.limit, effort, FALSE, 0, r.choice, r.parallel)
    <3>1. r.effort \in Efforts
      BY <1>1 DEF Common
    <3> HIDE DEF r
    <3>2. CASE target = "chat"
      <4>1. effort = CompletionsEffort(r.effort, hy3)
        BY <3>1, <3>2, NearestEffort
      <4> HIDE DEF effort
      <4> QED BY <3>2, <4>1 DEF ConvertSettings, r
    <3>3. CASE target = "responses"
      <4>1. effort = r.effort
        BY <3>1, <3>3, NearestEffort
      <4> HIDE DEF effort
      <4> QED BY <3>3, <4>1 DEF ConvertSettings, r
    <3> QED BY <1>2, <3>2, <3>3 DEF Protocol
  <2> HIDE DEF r, effort
  <2>2. /\ sent.limit = r.limit /\ sent.effort = effort /\ sent.choice = r.choice
        /\ sent.parallel = r.parallel
    BY <2>1 DEF Settings
  <2> HIDE DEF sent
  <2>3. Effort(target, sent) = effort
    BY <1>2, <2>2 DEF Effort
  <2>4. effort = Nearest(target, hy3, Effort(client, s))
    BY <1>1 DEF effort, Common
  <2>5. Asks(client, target, hy3, s, sent)
    BY <1>1, <1>2, <2>2, <2>3, <2>4 DEF Asks, Common
  <2> QED BY <2>5 DEF sent
<1>3. CASE target = "anthropic"
  <2> DEFINE fallback == IF limit > 0 THEN limit ELSE DefaultLimit
             budget   == IF s.effort = "" THEN 0 ELSE BudgetOf(s.effort)
  <2>1. /\ r = s /\ s.thinking = FALSE /\ s.limit \in Nat
        /\ s.effort \in Efforts /\ Effort(client, s) = s.effort
    <3>1. s \in OpenAIDemands
      BY <1>3 DEF DemandsOf
    <3> QED BY <1>3, <3>1 DEF OpenAIDemands, ParseSettings, Effort
  <2>2. sent = AnthropicSettings(s, fallback)
    BY <1>3, <2>1 DEF ConvertSettings
  <2>3. AnthropicSettings(s, fallback)
          = Settings(IF s.limit > 0 THEN s.limit ELSE fallback, "", budget > 0, budget, "", "")
    BY <2>1 DEF AnthropicSettings
  <2>4. /\ sent.limit = (IF s.limit > 0 THEN s.limit ELSE fallback)
        /\ sent.thinking = (budget > 0) /\ sent.budget = budget
    <3> HIDE DEF sent, budget, fallback
    <3> DEFINE allowed  == IF s.limit > 0 THEN s.limit ELSE fallback
               thinking == budget > 0
    <3>1. sent = Settings(allowed, "", thinking, budget, "", "")
      BY <2>2, <2>3
    <3> HIDE DEF allowed, thinking
    <3>2. sent.limit = allowed /\ sent.thinking = thinking /\ sent.budget = budget
      BY <3>1 DEF Settings
    <3> QED BY <3>2 DEF allowed, thinking
  <2>5. fallback \in Int /\ fallback > 0
    BY DEF DefaultLimit
  <2> HIDE DEF sent, fallback
  <2>6. Effort(target, sent) = IF budget > 0 THEN EffortOf(budget) ELSE ""
    <3> HIDE DEF budget
    <3> QED BY <1>3, <2>4 DEF Effort
  <2>7. EffortOf(2) = "low" /\ EffortOf(8) = "medium" /\ EffortOf(32) = "high"
    BY DEF EffortOf
  <2>8. Effort(target, sent) = Nearest(target, hy3, s.effort)
    <3>1. CASE s.effort = ""
      <4>1. budget = 0
        BY <3>1
      <4>2. Nearest(target, hy3, s.effort) = ""
        BY <1>3, <3>1 DEF Nearest
      <4> HIDE DEF budget
      <4>3. ~(budget > 0)
        BY <4>1
      <4> QED BY <2>6, <4>2, <4>3
    <3>2. CASE s.effort = "medium"
      <4>1. budget = 8
        BY <3>2 DEF BudgetOf
      <4>2. Nearest(target, hy3, s.effort) = "medium"
        BY <1>3, <3>2 DEF Nearest
      <4> HIDE DEF budget
      <4> QED BY <2>6, <2>7, <4>1, <4>2
    <3>3. CASE s.effort = "high"
      <4>1. budget = 32
        BY <3>3 DEF BudgetOf
      <4>2. Nearest(target, hy3, s.effort) = "high"
        BY <1>3, <3>3 DEF Nearest
      <4> HIDE DEF budget
      <4> QED BY <2>6, <2>7, <4>1, <4>2
    <3>4. CASE s.effort \notin {"", "medium", "high"}
      <4>1. budget = 2
        BY <3>4 DEF BudgetOf
      <4>2. Nearest(target, hy3, s.effort) = "low"
        BY <1>3, <3>4 DEF Nearest
      <4> HIDE DEF budget
      <4> QED BY <2>6, <2>7, <4>1, <4>2
    <3> QED BY <3>1, <3>2, <3>3, <3>4
  <2>9. sent.limit > 0 /\ (sent.thinking => sent.budget > 0)
    <3> HIDE DEF budget
    <3> QED BY <2>1, <2>4, <2>5
  <2>10. s.limit > 0 => sent.limit = s.limit
    BY <2>4
  <2>11. Asks(client, target, hy3, s, sent)
    BY <1>3, <2>1, <2>8, <2>9, <2>10 DEF Asks
  <2> QED BY <2>11 DEF sent
<1> QED BY <1>2, <1>3

-----------------------------------------------------------------------------
(* Names of a section *)

\* ByName takes the first entry of each name
LEMMA FirstOfName ==
    ASSUME NEW entries, IsSeq(entries), NEW n \in ToSet(NamesIn(entries))
    PROVE  /\ \E k \in DOMAIN entries : /\ ByName(entries)[n] = entries[k]
                                        /\ \A j \in 1 .. k - 1 : entries[j].name # n
           /\ ByName(entries)[n].name = n
<1> DEFINE I == {i \in 1 .. Len(entries) : entries[i].name = n}
<1>1. Len(entries) \in Nat /\ DOMAIN entries = 1 .. Len(entries)
  BY SeqLength
<1>2. I # {} /\ I \in SUBSET (1 .. Len(entries))
  BY <1>1 DEF ToSet, NamesIn
<1>3. ByName(entries)[n] = entries[SelectInSeq(entries, LAMBDA e : e.name = n)]
  BY DEF ByName
<1>4. SelectInSeq(entries, LAMBDA e : e.name = n) = Min(I)
  BY <1>2 DEF SelectInSeq
<1> HIDE DEF I
<1>5. PICK i \in I : \A j \in I : i <= j
  BY <1>1, <1>2, LeastOf
<1>6. Min(I) \in I /\ \A j \in I : Min(I) <= j
  BY <1>5 DEF Min
<1> DEFINE k == Min(I)
<1> HIDE DEF k
<1>7. k \in 1 .. Len(entries) /\ entries[k].name = n
  BY <1>6 DEF I, k
<1>8. ASSUME NEW j \in 1 .. k - 1 PROVE entries[j].name # n
  <2>1. j \in 1 .. Len(entries) /\ ~(k <= j)
    BY <1>1, <1>7
  <2> QED BY <1>6, <2>1 DEF I, k
<1> QED BY <1>1, <1>3, <1>4, <1>7, <1>8 DEF k

LEMMA NamesOfSeq ==
    ASSUME NEW entries, IsSeq(entries)
    PROVE  /\ IsSeq(NamesIn(entries)) /\ Len(NamesIn(entries)) = Len(entries)
           /\ DOMAIN ByName(entries) = ToSet(NamesIn(entries))
<1>1. Len(entries) \in Nat /\ DOMAIN entries = 1 .. Len(entries)
  BY SeqLength
<1>2. NamesIn(entries) = [k \in 1 .. Len(entries) |-> NamesIn(entries)[k]]
  BY <1>1 DEF NamesIn
<1> QED BY <1>1, <1>2, FunctionIsSeq DEF ByName

-----------------------------------------------------------------------------
(* dedupeKeepFirst *)

Firsts(s) == {k \in DOMAIN s : \A j \in 1 .. k - 1 : s[j] # s[k]}

LEMMA DedupeAppend ==
    ASSUME NEW s, IsSeq(s), NEW e
    PROVE  Dedupe(Append(s, e)) = IF e \in ToSet(s) THEN Dedupe(s) ELSE Append(Dedupe(s), e)
<1> DEFINE t == Append(s, e)
           n == Len(s)
<1>1. /\ n \in Nat /\ Len(t) = n + 1 /\ DOMAIN s = 1 .. n /\ DOMAIN t = 1 .. n + 1
      /\ \A j \in 1 .. n : t[j] = s[j]
      /\ t[n + 1] = e
  BY Appended
<1> HIDE DEF t, n
<1>2. \A k \in 1 .. n : k \in Firsts(t) <=> k \in Firsts(s)
  BY <1>1 DEF Firsts
<1>3. n + 1 \in Firsts(t) <=> e \notin ToSet(s)
  BY <1>1 DEF Firsts, ToSet
<1>4. At(t, Firsts(t)) = IF n + 1 \in Firsts(t) THEN Append(At(s, Firsts(s)), e)
                         ELSE At(s, Firsts(s))
  BY <1>2, AtAppend DEF t, n
<1>5. Dedupe(t) = At(t, Firsts(t)) /\ Dedupe(s) = At(s, Firsts(s))
  BY DEF Dedupe, Firsts
<1> QED BY <1>3, <1>4, <1>5 DEF t

Deduped(s, d) ==
    /\ IsSeq(d) /\ ToSet(d) = ToSet(s) /\ IsInjective(d) /\ Len(d) <= Len(s)
    /\ Len(d) = Len(s) => d = s
    /\ s # <<>> => d # <<>> /\ d[1] = s[1]

LEMMA EmptyDeduped == Deduped(<<>>, Dedupe(<<>>))
<1>1. Dedupe(<<>>) = <<>>
  BY AtEmpty DEF Dedupe
<1>2. IsInjective(<<>>)
  BY EmptyIsSeq DEF IsInjective
<1>3. Len(<<>>) <= Len(<<>>)
  BY EmptyIsSeq
<1> QED BY <1>1, <1>2, <1>3, EmptyIsSeq DEF Deduped

LEMMA MoreDeduped ==
    ASSUME NEW s, IsSeq(s), NEW e, Deduped(s, Dedupe(s))
    PROVE  Deduped(Append(s, e), Dedupe(Append(s, e)))
<1> DEFINE t == Append(s, e)
           d == Dedupe(s)
           c == Append(d, e)
           n == Len(s)
           m == Len(d)
<1>1. /\ n \in Nat /\ Len(t) = n + 1 /\ DOMAIN s = 1 .. n /\ DOMAIN t = 1 .. n + 1
      /\ \A j \in 1 .. n : t[j] = s[j]
      /\ t[n + 1] = e
  BY Appended
<1>2. /\ IsSeq(d) /\ ToSet(d) = ToSet(s) /\ IsInjective(d) /\ m <= n
      /\ m = n => d = s
      /\ s # <<>> => d # <<>> /\ d[1] = s[1]
  BY DEF Deduped
<1>3. /\ IsSeq(c) /\ m \in Nat /\ Len(c) = m + 1 /\ DOMAIN d = 1 .. m /\ DOMAIN c = 1 .. m + 1
      /\ \A j \in 1 .. m : c[j] = d[j]
      /\ c[m + 1] = e
  BY <1>2, Appended
<1>4. Dedupe(t) = IF e \in ToSet(s) THEN d ELSE c
  BY DedupeAppend
<1>5. ToSet(t) = ToSet(s) \cup {e}
  <2> HIDE DEF t, n
  <2> QED BY <1>1 DEF ToSet
<1>6. t # <<>> /\ (s # <<>> => t[1] = s[1]) /\ (s = <<>> => t[1] = e)
  <2>1. s # <<>> => n # 0
    BY EmptySeqLength
  <2>2. t # <<>> /\ (s = <<>> => t[1] = e)
    BY FirstAppended
  <2> HIDE DEF t, n
  <2> QED BY <1>1, <2>1, <2>2
<1> HIDE DEF n, m, c
<1>7. CASE e \in ToSet(s)
  <2>1. Dedupe(t) = d /\ ToSet(d) = ToSet(t)
    BY <1>2, <1>4, <1>5, <1>7
  <2>2. s # <<>>
    BY <1>7, EmptyIsSeq DEF ToSet
  <2>3. m <= n + 1 /\ m # n + 1
    BY <1>1, <1>2, <1>3
  <2> HIDE DEF t, d
  <2>4. Len(d) <= Len(t) /\ Len(d) # Len(t)
    BY <1>1, <2>3 DEF m
  <2> QED BY <1>2, <1>6, <2>1, <2>2, <2>4 DEF Deduped, t
<1>8. CASE e \notin ToSet(s)
  <2>1. Dedupe(t) = c
    BY <1>4, <1>8
  <2>2. ToSet(c) = ToSet(d) \cup {e}
    BY <1>3 DEF ToSet
  <2>3. \A j \in 1 .. m : d[j] # e
    BY <1>2, <1>3, <1>8 DEF ToSet
  <2>4. IsInjective(c)
    <3> SUFFICES ASSUME NEW i \in 1 .. m + 1, NEW j \in 1 .. m + 1, c[i] = c[j], i < j
                 PROVE  FALSE
      BY <1>3 DEF IsInjective
    <3>1. i \in 1 .. m /\ c[i] = d[i]
      BY <1>3
    <3>2. CASE j = m + 1
      BY <1>3, <2>3, <3>1, <3>2
    <3>3. CASE j \in 1 .. m
      <4>1. d[i] = d[j] /\ i \in DOMAIN d /\ j \in DOMAIN d
        BY <1>3, <3>1, <3>3
      <4>2. i = j
        BY <1>2, <4>1 DEF IsInjective
      <4> QED BY <4>2
    <3> QED BY <1>3, <3>2, <3>3
  <2>5. Len(c) <= Len(t)
    BY <1>1, <1>2, <1>3
  <2>6. Len(c) = Len(t) => c = t
    <3> SUFFICES ASSUME Len(c) = Len(t) PROVE c = t
      OBVIOUS
    <3>1. d = s
      BY <1>1, <1>2, <1>3
    <3> QED BY <3>1 DEF c
  <2>7. c # <<>> /\ c[1] = t[1]
    <3>1. CASE s = <<>>
      <4>1. d = <<>>
        BY <3>1, AtEmpty DEF Dedupe
      <4> QED BY <1>2, <1>6, <3>1, <4>1, FirstAppended DEF c
    <3>2. CASE s # <<>>
      <4>1. m # 0
        BY <1>2, <3>2, EmptySeqLength DEF m
      <4>2. 1 \in 1 .. m
        BY <1>3, <4>1
      <4>3. c[1] = d[1] /\ c # <<>>
        BY <1>2, <1>3, <4>2, FirstAppended DEF c
      <4> QED BY <1>2, <1>6, <3>2, <4>3
    <3> QED BY <3>1, <3>2
  <2>8. ToSet(c) = ToSet(t)
    BY <1>2, <1>5, <2>2
  <2> HIDE DEF t
  <2> QED BY <1>3, <2>1, <2>4, <2>5, <2>6, <2>7, <2>8 DEF Deduped, t
<1> QED BY <1>7, <1>8

\* Every element is kept once, in its first place
LEMMA DedupeKeepsFirst == ASSUME NEW s, IsSeq(s) PROVE Deduped(s, Dedupe(s))
<1> DEFINE S == {n \in Nat : \A x : IsSeq(x) /\ Len(x) = n => Deduped(x, Dedupe(x))}
<1>1. 0 \in S
  <2> SUFFICES ASSUME NEW x, IsSeq(x), Len(x) = 0 PROVE Deduped(x, Dedupe(x))
    OBVIOUS
  <2>1. x = <<>>
    BY EmptySeqLength
  <2> QED BY <2>1, EmptyDeduped
<1>2. ASSUME NEW n \in S PROVE n + 1 \in S
  <2> SUFFICES ASSUME NEW x, IsSeq(x), Len(x) = n + 1 PROVE Deduped(x, Dedupe(x))
    OBVIOUS
  <2>1. PICK t : IsSeq(t) /\ Len(t) = n /\ x = Append(t, x[n + 1])
    BY Shortened
  <2>2. Deduped(t, Dedupe(t))
    BY <2>1
  <2> QED BY <2>1, <2>2, MoreDeduped
<1>3. S = Nat
  <2>1. S \in SUBSET Nat
    OBVIOUS
  <2> HIDE DEF S
  <2> QED BY <1>1, <1>2, <2>1, SetInduction
<1>4. Len(s) \in Nat
  BY SeqLength
<1> QED BY <1>3, <1>4

-----------------------------------------------------------------------------
(* The order of the providers *)

LEMMA NothingAscends == IsSeq(Ascending({}))
<1>1. Cardinality({}) = 0
  BY FS_EmptySet
<1>2. \E s \in [1 .. 0 -> {}] : \A i, j \in DOMAIN s : i < j => s[i] < s[j]
  <2>1. [i \in 1 .. 0 |-> i] \in [1 .. 0 -> {}]
    OBVIOUS
  <2> QED BY <2>1
<1>3. Ascending({}) \in [1 .. 0 -> {}]
  BY <1>1, <1>2 DEF Ascending
<1>4. Ascending({}) \in Seq({})
  BY <1>3
<1> QED BY <1>4 DEF IsSeq

\* Where the section is there once, its first provider is the default
LEMMA FirstProvider ==
    ASSUME NEW f, IsText(f), Len(f.providers) = 1, f.providers[1] # <<>>
    PROVE  ProviderOrder(f)[1] = f.providers[1][1].name
<1> DEFINE entries == f.providers[1]
           names   == ToSet(NamesIn(entries))
           order   == Dedupe(NamesIn(entries))
<1>1. IsSeq(entries) /\ IsSeq(f.providers) /\ f.providers # <<>>
  BY DEF IsText, IsSeq
<1>2. Section(f.providers) = entries /\ KeyOrder(f.providers) = order
  BY <1>1 DEF Section, KeyOrder, Last, IsText
<1>3. /\ IsSeq(NamesIn(entries)) /\ Len(NamesIn(entries)) = Len(entries)
      /\ DOMAIN ByName(entries) = names
  BY <1>1, NamesOfSeq
<1>4. Len(entries) \in Nat \ {0} /\ DOMAIN entries = 1 .. Len(entries)
  BY <1>1, SeqLength, EmptySeqLength
<1>5. names # {} /\ NamesIn(entries)[1] = entries[1].name /\ NamesIn(entries) # <<>>
  <2>1. NamesIn(entries)[1] = entries[1].name
    BY <1>4 DEF NamesIn
  <2>2. NamesIn(entries) # <<>>
    BY <1>3, <1>4, EmptySeqLength
  <2>3. 1 \in DOMAIN NamesIn(entries)
    BY <1>4 DEF NamesIn
  <2> QED BY <2>1, <2>2, <2>3 DEF ToSet
<1>6. DOMAIN Providers(f) = names
  BY <1>2, <1>3, <1>5 DEF Providers
<1>7. Deduped(NamesIn(entries), order)
  BY <1>3, DedupeKeepsFirst
<1> HIDE DEF names, order, entries
<1>8. IsSeq(order) /\ ToSet(order) = names /\ order # <<>> /\ order[1] = entries[1].name
  BY <1>5, <1>7 DEF Deduped, names
<1> DEFINE P == {k \in DOMAIN order : order[k] \in names}
<1>9. DOMAIN order \subseteq P
  BY <1>8 DEF ToSet
<1> HIDE DEF P
<1>10. At(order, P) = order
  BY <1>8, <1>9, AtAll
<1>11. ProviderOrder(f) = At(order, P) \o Ascending(names \ ToSet(At(order, P)))
  BY <1>2, <1>6 DEF ProviderOrder, P
<1>12. names \ ToSet(order) = {}
  BY <1>8
<1>13. ProviderOrder(f) = order \o Ascending({})
  BY <1>10, <1>11, <1>12
<1>14. (order \o Ascending({}))[1] = order[1]
  BY <1>8, NothingAscends, FirstOfTwo
<1> QED BY <1>8, <1>13, <1>14 DEF entries

-----------------------------------------------------------------------------
(* The keys of all users *)

\* The first m lists are in the flat one, and if that repeats nothing they share nothing
Disjoint(seqs, flat, m) ==
    /\ flat \in Seq(Nat)
    /\ \A k \in 1 .. m : \A i \in DOMAIN seqs[k] : \E p \in DOMAIN flat : flat[p] = seqs[k][i]
    /\ IsInjective(flat) =>
          \A k, l \in 1 .. m : \A i \in DOMAIN seqs[k], j \in DOMAIN seqs[l] :
              seqs[k][i] = seqs[l][j] => k = l

LEMMA MoreDisjoint ==
    ASSUME NEW seqs, NEW m \in Nat, NEW flat, Disjoint(seqs, flat, m), seqs[m + 1] \in Seq(Nat)
    PROVE  Disjoint(seqs, flat \o seqs[m + 1], m + 1)
<1> DEFINE t    == seqs[m + 1]
           more == flat \o t
           n    == Len(flat)
<1>1. /\ flat \in Seq(Nat) /\ t \in Seq(Nat) /\ n \in Nat /\ Len(t) \in Nat
      /\ DOMAIN flat = 1 .. n /\ DOMAIN t = 1 .. Len(t)
  BY DEF Disjoint
<1>2. /\ more \in Seq(Nat) /\ Len(more) = n + Len(t) /\ DOMAIN more = 1 .. n + Len(t)
      /\ \A p \in 1 .. n : more[p] = flat[p]
      /\ \A i \in 1 .. Len(t) : more[n + i] = t[i]
  BY <1>1
<1> HIDE DEF more, n, t
<1>3. \A p \in 1 .. n : p \in DOMAIN more
  BY <1>1, <1>2
<1>4. \A i \in DOMAIN t : n + i \in DOMAIN more /\ n + i \notin 1 .. n
  BY <1>1, <1>2
<1>5. ASSUME NEW k \in 1 .. m + 1, NEW i \in DOMAIN seqs[k]
      PROVE  \E p \in DOMAIN more : more[p] = seqs[k][i]
  <2>1. CASE k = m + 1
    BY <1>1, <1>2, <1>4, <2>1 DEF t
  <2>2. CASE k \in 1 .. m
    <3>1. PICK p \in DOMAIN flat : flat[p] = seqs[k][i]
      BY <2>2 DEF Disjoint
    <3> QED BY <1>1, <1>2, <1>3, <3>1
  <2> QED BY <2>1, <2>2
<1>6. ASSUME IsInjective(more), NEW k \in 1 .. m, NEW i \in DOMAIN seqs[k], NEW j \in DOMAIN t,
             seqs[k][i] = t[j]
      PROVE  FALSE
  <2>1. PICK p \in DOMAIN flat : flat[p] = seqs[k][i]
    BY DEF Disjoint
  <2>2. p \in DOMAIN more /\ n + j \in DOMAIN more /\ p # n + j
    BY <1>1, <1>3, <1>4
  <2>3. more[p] = more[n + j]
    BY <1>1, <1>2, <1>6, <2>1
  <2> QED BY <1>6, <2>2, <2>3 DEF IsInjective
<1>7. ASSUME IsInjective(more), NEW k \in 1 .. m + 1, NEW l \in 1 .. m + 1,
             NEW i \in DOMAIN seqs[k], NEW j \in DOMAIN seqs[l], seqs[k][i] = seqs[l][j]
      PROVE  k = l
  <2>1. CASE k = m + 1 /\ l \in 1 .. m
    BY <1>6, <1>7, <2>1 DEF t
  <2>2. CASE l = m + 1 /\ k \in 1 .. m
    BY <1>6, <1>7, <2>2 DEF t
  <2>3. CASE k \in 1 .. m /\ l \in 1 .. m
    <3>1. IsInjective(flat)
      <4> SUFFICES ASSUME NEW p \in 1 .. n, NEW q \in 1 .. n, flat[p] = flat[q] PROVE p = q
        BY <1>1 DEF IsInjective
      <4> QED BY <1>2, <1>3, <1>7 DEF IsInjective
    <3> QED BY <1>7, <2>3, <3>1 DEF Disjoint
  <2>4. CASE k = m + 1 /\ l = m + 1
    BY <2>4
  <2> QED BY <2>1, <2>2, <2>3, <2>4
<1>8. Disjoint(seqs, more, m + 1)
  BY <1>2, <1>5, <1>7 DEF Disjoint
<1> QED BY <1>8 DEF more, t

LEMMA NothingDisjoint ==
    ASSUME NEW seqs PROVE Disjoint(seqs, <<>>, 0)
BY DEF Disjoint

LEMMA FlatDisjoint ==
    ASSUME NEW seqs, IsSeq(seqs), \A k \in DOMAIN seqs : seqs[k] \in Seq(Nat)
    PROVE  /\ IsSeq(FlattenSeq(seqs))
           /\ IsInjective(FlattenSeq(seqs)) =>
                 \A k, l \in DOMAIN seqs : \A i \in DOMAIN seqs[k], j \in DOMAIN seqs[l] :
                     seqs[k][i] = seqs[l][j] => k = l
<1> DEFINE n == Len(seqs)
<1>1. n \in Nat /\ DOMAIN seqs = 1 .. n
  BY SeqLength
<1>2. CASE n = 0
  <2>1. FlattenSeq(seqs) = seqs
    BY <1>2 DEF FlattenSeq
  <2> QED BY <1>1, <1>2, <2>1
<1>3. CASE n # 0
  <2>1. \E f : IsFlat(f, seqs, n)
    BY <1>1, FlatExists
  <2>2. FlattenSeq(seqs) = (CHOOSE f : IsFlat(f, seqs, n))[n]
    BY <1>3 DEF FlattenSeq, IsFlat
  <2>3. PICK f : IsFlat(f, seqs, n) /\ FlattenSeq(seqs) = f[n]
    BY <2>1, <2>2
  <2> HIDE DEF n
  <2> DEFINE S == {m \in Nat : m + 1 <= n => Disjoint(seqs, f[m + 1], m + 1)}
  <2>4. 0 \in S
    <3>1. 1 \in 1 .. n
      BY <1>1, <1>3
    <3>2. f[1] = seqs[1] /\ seqs[1] \in Seq(Nat)
      BY <1>1, <2>3, <3>1 DEF IsFlat
    <3>3. Disjoint(seqs, <<>> \o seqs[0 + 1], 0 + 1)
      <4>1. 0 \in Nat /\ seqs[0 + 1] \in Seq(Nat)
        BY <3>2
      <4> QED BY <4>1, NothingDisjoint, MoreDisjoint
    <3>4. <<>> \o seqs[1] = seqs[1]
      BY <3>2
    <3> QED BY <3>2, <3>3, <3>4
  <2>5. ASSUME NEW m \in S PROVE m + 1 \in S
    <3> SUFFICES ASSUME (m + 1) + 1 <= n PROVE Disjoint(seqs, f[(m + 1) + 1], (m + 1) + 1)
      OBVIOUS
    <3> DEFINE k == m + 1
               l == k + 1
    <3>1. k \in Nat /\ k \in 1 .. n /\ l \in 1 .. n /\ l # 1 /\ l - 1 = k
      BY <1>1
    <3>2. Disjoint(seqs, f[k], k)
      BY <3>1
    <3> HIDE DEF k, l, S
    <3>3. f[l] = f[k] \o seqs[l]
      BY <2>3, <3>1 DEF IsFlat
    <3>4. seqs[l] \in Seq(Nat)
      BY <1>1, <3>1
    <3>5. Disjoint(seqs, f[k] \o seqs[l], l)
      BY <3>1, <3>2, <3>4, MoreDisjoint DEF l
    <3> QED BY <3>3, <3>5 DEF k, l
  <2> HIDE DEF S
  <2>6. S = Nat
    <3>1. S \in SUBSET Nat
      BY DEF S
    <3> QED BY <2>4, <2>5, <3>1, SetInduction
  <2>7. n - 1 \in S /\ (n - 1) + 1 = n
    BY <1>1, <1>3, <2>6
  <2>8. Disjoint(seqs, f[n], n)
    BY <1>1, <2>7 DEF S
  <2> QED BY <1>1, <2>3, <2>8 DEF Disjoint, IsSeq
<1> QED BY <1>2, <1>3

-----------------------------------------------------------------------------
(* A configuration that was accepted *)

\* Nobody shares a key
LEMMA KeysOwned ==
    ASSUME NEW f, IsText(f), UsersAccepted(f)
    PROVE  \A k, l \in DOMAIN f.users : \A key \in ToSet(f.users[k].keys) :
               Contains(f.users[l].keys, key) => k = l
<1> DEFINE seqs == [k \in DOMAIN f.users |-> f.users[k].keys]
           keys == FlattenSeq(seqs)
<1>1. IsSeq(f.users) /\ \A k \in DOMAIN f.users : f.users[k].keys \in Seq(Nat)
  BY DEF IsText, IsSeq, ToSet
<1>2. Len(f.users) \in Nat /\ DOMAIN f.users = 1 .. Len(f.users)
  BY <1>1, SeqLength
<1>3. seqs = [k \in 1 .. Len(f.users) |-> seqs[k]]
  BY <1>2
<1>4. DOMAIN seqs = DOMAIN f.users /\ \A k \in DOMAIN f.users : seqs[k] = f.users[k].keys
  OBVIOUS
<1>5. Len(Dedupe(keys)) = Len(keys)
  BY DEF UsersAccepted
<1> HIDE DEF seqs
<1>6. IsSeq(seqs) /\ \A k \in DOMAIN seqs : seqs[k] \in Seq(Nat)
  BY <1>1, <1>2, <1>3, <1>4, FunctionIsSeq
<1>7. IsSeq(keys)
  BY <1>6, FlatDisjoint
<1> HIDE DEF keys
<1>8. IsInjective(keys)
  BY <1>5, <1>7, DedupeKeepsFirst DEF Deduped
<1> SUFFICES ASSUME NEW k \in DOMAIN f.users, NEW l \in DOMAIN f.users,
                    NEW key \in ToSet(f.users[k].keys), Contains(f.users[l].keys, key)
             PROVE  k = l
  OBVIOUS
<1>9. PICK i \in DOMAIN seqs[k] : seqs[k][i] = key
  BY <1>4 DEF ToSet
<1>10. PICK j \in DOMAIN seqs[l] : seqs[l][j] = key
  BY <1>4, <1>6 DEF Contains
<1> QED BY <1>4, <1>6, <1>8, <1>9, <1>10, FlatDisjoint DEF keys

\* A model that is offered is one that was written, but for its provider
LEMMA ModelWritten ==
    ASSUME NEW f, IsText(f), PricingAccepted(f), NEW n \in DOMAIN Pricing(f)
    PROVE  LET m == Pricing(f)[n]
           IN  /\ f.pricing # <<>> /\ Section(f.pricing) = f.pricing[1]
               /\ \E w \in Models :
                     /\ WrittenFirst(w, f.pricing[1]) /\ w.name = n
                     /\ m = IF w.provider # Unset THEN w
                            ELSE [w EXCEPT !.provider = ProviderOrder(f)[1]]
<1> DEFINE entries == Section(f.pricing)
           w       == ByName(entries)[n]
<1>1. DOMAIN Pricing(f) = DOMAIN ByName(entries) /\ n \in DOMAIN ByName(entries)
  BY DEF Pricing
<1>2. IsSeq(f.pricing)
  BY DEF IsText, IsSeq
<1>3. f.pricing # <<>> /\ entries = f.pricing[1]
  <2>1. CASE f.pricing = <<>>
    <3>1. entries = <<>>
      BY <2>1 DEF Section
    <3>2. DOMAIN ByName(entries) = {}
      BY <3>1, EmptyIsSeq DEF ByName, NamesIn, ToSet
    <3> QED BY <1>1, <3>2
  <2>2. CASE f.pricing # <<>>
    BY <1>2, <2>2 DEF Section, IsText
  <2> QED BY <2>1, <2>2
<1>4. entries \in Seq(Models) /\ IsSeq(entries)
  <2>1. 1 \in DOMAIN f.pricing
    BY <1>2, <1>3, SeqLength, EmptySeqLength
  <2>2. f.pricing[1] \in Seq(Models)
    BY <2>1 DEF IsText
  <2> QED BY <1>3, <2>2 DEF IsSeq
<1> HIDE DEF entries
<1>5. n \in ToSet(NamesIn(entries))
  BY <1>1, <1>4, NamesOfSeq
<1>6. /\ \E k \in DOMAIN entries : w = entries[k] /\ \A j \in 1 .. k - 1 : entries[j].name # n
      /\ w.name = n
  BY <1>4, <1>5, FirstOfName
<1>7. w \in Models
  BY <1>4, <1>6
<1>8. WrittenFirst(w, entries)
  BY <1>6 DEF WrittenFirst
<1>9. Pricing(f)[n] = IF w.provider # Unset THEN w
                      ELSE [w EXCEPT !.provider = ProviderOrder(f)[1]]
  BY <1>1 DEF Pricing, entries
<1> HIDE DEF w
<1>10. \E v \in Models :
          /\ WrittenFirst(v, f.pricing[1]) /\ v.name = n
          /\ Pricing(f)[n] = IF v.provider # Unset THEN v
                             ELSE [v EXCEPT !.provider = ProviderOrder(f)[1]]
  BY <1>3, <1>6, <1>7, <1>8, <1>9
<1> QED BY <1>3, <1>10 DEF entries

LEMMA AcceptedUsable ==
    ASSUME IsText(file), Accepted(file)
    PROVE  ConfigUsable
<1> DEFINE all == Pricing(file)
           b   == WithDefaults(file.boost)
<1>1. /\ config.users = file.users /\ config.pricing = all /\ config.boost = b
      /\ config.providers = Providers(file)
      /\ config.interval = IF file.interval <= 0 THEN 120 ELSE file.interval
  BY DEF config, Parse
<1>2. UsersAccepted(file) /\ PricingAccepted(file) /\ BoostAccepted(b)
  BY DEF Accepted
<1>3. \A k, l \in DOMAIN file.users : \A key \in ToSet(file.users[k].keys) :
          Contains(file.users[l].keys, key) => k = l
  BY <1>2, KeysOwned
<1>4. ASSUME NEW n \in DOMAIN all
      PROVE  /\ all[n].provider \in DOMAIN Providers(file)
             /\ all[n].alias # Unset => \A o \in DOMAIN all \ {n} : o # all[n].alias
  <2>1. all[n].provider \in DOMAIN Providers(file) /\ all[n].alias \notin DOMAIN all \ {n}
    BY <1>2 DEF PricingAccepted
  <2> HIDE DEF all
  <2> QED BY <2>1
<1>5. b.enabled => b.overage >= 100 /\ b.boost > b.trigger
  <2>1. b.boost \in Int /\ b.trigger \in Int
    BY DEF WithDefaults, Boost, IsText
  <2> HIDE DEF b
  <2> QED BY <1>2, <2>1 DEF BoostAccepted
<1>6. config.interval > 0
  BY <1>1 DEF IsText
<1> HIDE DEF all, b
<1> QED BY <1>1, <1>3, <1>4, <1>5, <1>6 DEF ConfigUsable

LEMMA ProviderWritten ==
    ASSUME NEW f, IsText(f), f.providers # <<>>, f.providers[1] # <<>>,
           NEW n \in DOMAIN Providers(f)
    PROVE  WrittenFirst(Providers(f)[n], f.providers[1])
<1> DEFINE entries == f.providers[1]
<1>1. IsSeq(f.providers) /\ Section(f.providers) = entries
  BY DEF IsText, IsSeq, Section
<1>2. IsSeq(entries)
  <2>1. 1 \in DOMAIN f.providers
    BY <1>1, SeqLength, EmptySeqLength
  <2> QED BY <2>1 DEF IsText, IsSeq
<1>3. Len(entries) \in Nat \ {0} /\ DOMAIN entries = 1 .. Len(entries)
  BY <1>2, SeqLength, EmptySeqLength
<1>4. DOMAIN ByName(entries) = ToSet(NamesIn(entries)) /\ NamesIn(entries)[1] \in ToSet(NamesIn(entries))
  <2>1. 1 \in DOMAIN NamesIn(entries)
    BY <1>3 DEF NamesIn
  <2> QED BY <1>2, <2>1, NamesOfSeq DEF ToSet
<1>5. Providers(f) = ByName(entries)
  BY <1>1, <1>4 DEF Providers
<1> HIDE DEF entries
<1>6. n \in ToSet(NamesIn(entries))
  BY <1>4, <1>5
<1>7. /\ \E k \in DOMAIN entries : /\ Providers(f)[n] = entries[k]
                                   /\ \A j \in 1 .. k - 1 : entries[j].name # n
      /\ Providers(f)[n].name = n
  BY <1>2, <1>5, <1>6, FirstOfName
<1>8. WrittenFirst(Providers(f)[n], entries)
  BY <1>7 DEF WrittenFirst
<1> QED BY <1>8 DEF entries

\* Where the section is there once, the models listed are those that are offered
LEMMA ModelsListed ==
    ASSUME NEW f, IsText(f), Len(f.pricing) = 1
    PROVE  IsInjective(KeyOrder(f.pricing)) /\ ToSet(KeyOrder(f.pricing)) = DOMAIN Pricing(f)
<1> DEFINE entries == f.pricing[1]
           order   == Dedupe(NamesIn(entries))
<1>1. IsSeq(f.pricing) /\ f.pricing # <<>> /\ DOMAIN f.pricing = 1 .. 1
  <2>1. IsSeq(f.pricing)
    BY DEF IsText, IsSeq
  <2>2. f.pricing # <<>>
    BY <2>1, EmptySeqLength
  <2>3. DOMAIN f.pricing = 1 .. 1
    BY <2>1, SeqLength
  <2> QED BY <2>1, <2>2, <2>3
<1>2. Section(f.pricing) = entries /\ KeyOrder(f.pricing) = order
  BY <1>1 DEF Section, KeyOrder, Last, IsText
<1>3. IsSeq(entries)
  BY <1>1 DEF IsText, IsSeq
<1> HIDE DEF entries
<1>4. IsSeq(NamesIn(entries)) /\ DOMAIN ByName(entries) = ToSet(NamesIn(entries))
  BY <1>3, NamesOfSeq
<1>5. IsInjective(order) /\ ToSet(order) = ToSet(NamesIn(entries))
  BY <1>4, DedupeKeepsFirst DEF Deduped
<1>6. DOMAIN Pricing(f) = DOMAIN ByName(entries)
  BY <1>2 DEF Pricing
<1> QED BY <1>2, <1>4, <1>5, <1>6

\* A model is the one that was written first, with the first provider if it named none
LEMMA ModelFirst ==
    ASSUME NEW f, IsText(f), PricingAccepted(f), NEW n \in DOMAIN Pricing(f)
    PROVE  \E p \in {Unset, Pricing(f)[n].provider} :
              /\ WrittenFirst([Pricing(f)[n] EXCEPT !.provider = p], f.pricing[1])
              /\ p = Unset => Pricing(f)[n].provider = ProviderOrder(f)[1]
<1> DEFINE m == Pricing(f)[n]
           first == ProviderOrder(f)[1]
<1>1. PICK w \in Models : /\ WrittenFirst(w, f.pricing[1])
                          /\ m = IF w.provider # Unset THEN w ELSE [w EXCEPT !.provider = first]
  BY ModelWritten
<1> HIDE DEF m, first
<1>2. CASE w.provider # Unset
  <2>1. m = w /\ [m EXCEPT !.provider = m.provider] = w
    BY <1>1, <1>2 DEF Models
  <2> QED BY <1>1, <1>2, <2>1 DEF m
<1>3. CASE w.provider = Unset
  <2>1. m = [w EXCEPT !.provider = first]
    BY <1>1, <1>3
  <2>2. m.provider = first /\ [m EXCEPT !.provider = Unset] = w
    BY <1>3, <2>1 DEF Models
  <2> QED BY <1>1, <2>2 DEF m, first
<1> QED BY <1>2, <1>3

LEMMA AcceptedFirstWritten ==
    ASSUME IsText(file), Accepted(file)
    PROVE  FirstWritten
<1>1. /\ config.pricing = Pricing(file) /\ config.providers = Providers(file)
      /\ config.order = ProviderOrder(file) /\ config.models = KeyOrder(file.pricing)
  BY DEF config, Parse
<1>2. PricingAccepted(file)
  BY DEF Accepted
<1>3. \A n \in DOMAIN Pricing(file) :
          \E p \in {Unset, Pricing(file)[n].provider} :
              /\ WrittenFirst([Pricing(file)[n] EXCEPT !.provider = p], file.pricing[1])
              /\ p = Unset => Pricing(file)[n].provider = ProviderOrder(file)[1]
  BY <1>2, ModelFirst
<1>4. ASSUME file.providers # <<>>, file.providers[1] # <<>>
      PROVE  /\ \A n \in DOMAIN Providers(file) :
                   WrittenFirst(Providers(file)[n], file.providers[1])
             /\ Len(file.providers) = 1 =>
                   ProviderOrder(file)[1] = file.providers[1][1].name
  BY <1>4, ProviderWritten, FirstProvider
<1>5. Len(file.pricing) = 1 =>
          /\ IsInjective(KeyOrder(file.pricing))
          /\ ToSet(KeyOrder(file.pricing)) = DOMAIN Pricing(file)
  BY ModelsListed
<1> QED BY <1>1, <1>3, <1>4, <1>5 DEF FirstWritten

-----------------------------------------------------------------------------
(* The invariant *)

\* What a request holds, and what holds of it
RequestInv ==
    stage \in {"asked", "charged"} =>
        /\ request.model.price \in Prices /\ request.model.peak \in Peaks
        /\ request.minute \in 0 .. Day - 1
        /\ request.client \in Protocol /\ request.target \in Protocol

AccountsInv ==
    /\ stage \in {"start", "exited", "idle", "asked", "charged"}
    /\ IsText(file) /\ (Running => Accepted(file))
    /\ RequestInv /\ SettingsKept
    /\ ChargeExact /\ ToldAsBilled

LEMMA AccountsInvInit == Init => AccountsInv
BY AccountsAssumption
DEF Init, AccountsInv, Running, RequestInv, SettingsKept, ChargeExact, ToldAsBilled

LEMMA AskKeeps ==
    ASSUME AccountsInv, NEW name, NEW client \in Clients, NEW minute \in Minutes,
           NEW asked \in Demands[client], Ask(name, client, minute, asked)
    PROVE  AccountsInv'
<1> DEFINE model  == config.pricing[name]
           target == IF model.target = "" THEN client ELSE model.target
           sent   == IF client = target THEN asked
                     ELSE ConvertSettings(client, target, asked, model.limit, model.name = Hy3)
<1>1. /\ stage = "idle" /\ stage' = "asked" /\ file' = file
      /\ name \in DOMAIN config.pricing
      /\ request' = [model |-> model, provider |-> config.providers[model.provider],
                     minute |-> minute, client |-> client, target |-> target,
                     asked |-> asked, sent |-> sent]
  BY DEF Ask
<1>2. Accepted(file) /\ IsText(file)
  BY <1>1 DEF AccountsInv, Running
<1>3. /\ model.price \in Prices /\ model.peak \in Peaks /\ model.limit \in Int
      /\ model.target \in Protocol \cup {""}
  <2>1. PricingAccepted(file) /\ model = Pricing(file)[name] /\ name \in DOMAIN Pricing(file)
    BY <1>1, <1>2 DEF Accepted, config, Parse
  <2> HIDE DEF model
  <2>2. PICK w \in Models :
           model = IF w.provider # Unset THEN w
                   ELSE [w EXCEPT !.provider = ProviderOrder(file)[1]]
    BY <1>2, <2>1, ModelWritten
  <2> QED BY <2>2 DEF Models
<1>4. client \in Protocol /\ asked \in DemandsOf(client) /\ minute \in 0 .. Day - 1
  BY AccountsAssumption
<1> HIDE DEF model
<1>5. target \in Protocol
  BY <1>3, <1>4
<1>6. /\ request'.model = model /\ request'.minute = minute /\ request'.client = client
      /\ request'.target = target /\ request'.asked = asked /\ request'.sent = sent
  BY <1>1
<1>7. client # target => Asks(client, target, model.name = Hy3, asked, sent)
  BY <1>3, <1>4, <1>5, SettingsConverted
<1> HIDE DEF target, sent
<1>8. SettingsKept'
  BY <1>6, <1>7 DEF SettingsKept, Asks
<1>9. RequestInv'
  BY <1>3, <1>4, <1>5, <1>6 DEF RequestInv
<1>10. ChargeExact' /\ ToldAsBilled'
  BY <1>1 DEF ChargeExact, ToldAsBilled
<1> QED BY <1>1, <1>2, <1>8, <1>9, <1>10 DEF AccountsInv, Running

LEMMA AnswerKeeps ==
    ASSUME AccountsInv, NEW u \in Usages[request.target], Answer(u)
    PROVE  AccountsInv'
<1> DEFINE from == request.target
           to   == request.client
           told == IF to = from THEN u ELSE ConvertAnswer(to, from, Body(from, u), FALSE, <<>>).usage
           p    == request.model.price
<1>1. /\ stage = "asked" /\ stage' = "charged" /\ file' = file /\ request' = request
      /\ charge' = [usage |-> u, cost |-> CostUnits(Rate, BodyUsage(from, u)), told |-> told]
  BY DEF Answer, Billed
<1>2. /\ p \in Prices /\ request.model.peak \in Peaks /\ request.minute \in 0 .. Day - 1
      /\ from \in Protocol /\ to \in Protocol
  BY <1>1 DEF AccountsInv, RequestInv
<1>3. u \in Reports
  BY <1>2, AccountsAssumption
<1>4. /\ charge'.usage = u /\ charge'.cost = CostUnits(Rate, BodyUsage(from, u))
      /\ charge'.told = told
  BY <1>1
<1>5. /\ Times(request.model) \in Int /\ Rate \in Prices
      /\ Rate.in = p.in * Times(request.model) /\ Rate.out = p.out * Times(request.model)
      /\ Rate.read = p.read * Times(request.model) /\ Rate.write = p.write * Times(request.model)
  BY <1>2, PeakTimes DEF Times, Rate
<1>6. charge'.cost = Cost(u, Rate)
  BY <1>3, <1>4, <1>5, BodyCost
<1>7. Cost(u, Rate) = Times(request.model) * Cost(u, p)
  BY <1>2, <1>3, <1>5, CostTimes
<1>8. Times(request.model)' = Times(request.model) /\ Rate' = Rate
  BY <1>1 DEF Times, Rate
<1>9. told \in Reports /\ Cost(told, Rate) = Cost(u, Rate)
  <2>1. CASE to = from
    BY <1>3, <2>1
  <2>2. CASE to # from
    BY <1>2, <1>3, <1>5, <2>2, ToldCost
  <2> QED BY <2>1, <2>2
<1> HIDE DEF told
<1>10. CostUnits(Rate, BodyUsage(to, told)) = charge'.cost
  BY <1>5, <1>6, <1>9, BodyCost
<1>11. ChargeExact'
  <2>1. request'.model = request.model
    BY <1>1
  <2>2. charge'.cost = Times(request.model)' * Cost(charge'.usage, request'.model.price)
    BY <1>4, <1>6, <1>7, <1>8, <2>1
  <2>3. TellsTokens(charge'.usage) => ~(charge'.usage.in = 0 /\ charge'.usage.out = 0)
    BY DEF TellsTokens
  <2> QED BY <2>2, <2>3 DEF ChargeExact, Cost, TellsTokens, TokensCost
<1>12. ToldAsBilled'
  BY <1>1, <1>4, <1>8, <1>10 DEF ToldAsBilled
<1>13. SettingsKept' /\ RequestInv'
  BY <1>1 DEF AccountsInv, SettingsKept, RequestInv
<1> QED BY <1>1, <1>11, <1>12, <1>13 DEF AccountsInv, Running

LEMMA AccountsInvStep == AccountsInv /\ [Next]_vars => AccountsInv'
<1> SUFFICES ASSUME AccountsInv, [Next]_vars PROVE AccountsInv'
  OBVIOUS
<1>1. CASE Start
  <2>1. /\ stage = "start" /\ stage' = (IF Accepted(file) THEN "idle" ELSE "exited")
        /\ file' = file
    BY <1>1 DEF Start
  <2> QED BY <2>1
          DEF AccountsInv, Running, RequestInv, SettingsKept, ChargeExact, ToldAsBilled
<1>2. ASSUME NEW f \in Rewrites, Rewrite(f) PROVE AccountsInv'
  <2>1. /\ stage = "asked" /\ stage' = stage /\ request' = request /\ charge' = charge
        /\ file' = IF Accepted(f) THEN f ELSE file
    BY <1>2 DEF Rewrite
  <2>2. IsText(file') /\ (Running' => Accepted(file'))
    BY <2>1, AccountsAssumption DEF AccountsInv, Running
  <2>3. RequestInv' /\ SettingsKept' /\ ChargeExact' /\ ToldAsBilled'
    BY <2>1 DEF AccountsInv, RequestInv, SettingsKept, ChargeExact, ToldAsBilled
  <2> QED BY <2>1, <2>2, <2>3 DEF AccountsInv
<1>3. ASSUME NEW name \in DOMAIN config.pricing, NEW client \in Clients, NEW minute \in Minutes,
             NEW asked \in Demands[client],
             Ask(name, client, minute, asked)
      PROVE  AccountsInv'
  BY <1>3, AskKeeps
<1>4. ASSUME NEW u \in Usages[request.target], Answer(u) PROVE AccountsInv'
  BY <1>4, AnswerKeeps
<1>5. CASE UNCHANGED vars
  <2>1. file' = file /\ stage' = stage /\ request' = request /\ charge' = charge
    BY <1>5 DEF vars
  <2>2. RequestInv' /\ SettingsKept' /\ ChargeExact' /\ ToldAsBilled'
    BY <2>1 DEF AccountsInv, RequestInv, SettingsKept, ChargeExact, ToldAsBilled, Times, Rate
  <2> QED BY <2>1, <2>2 DEF AccountsInv, Running
<1> QED BY <1>1, <1>2, <1>3, <1>4, <1>5 DEF Next

LEMMA AccountsInvariant == Spec => []AccountsInv
BY AccountsInvInit, AccountsInvStep, PTL DEF Spec

-----------------------------------------------------------------------------

\* Whatever is in the texts a program is started on and reloaded with: keys have one user,
\* models a provider that exists and aliases that hide no model, boosts raise the limit
\* above their trigger
THEOREM ConfigStaysUsable == Spec => []ConfigUsable
<1>1. AccountsInv => ConfigUsable
  <2>1. CASE Running
    BY <2>1, AcceptedUsable DEF AccountsInv
  <2>2. CASE ~Running
    BY <2>2 DEF ConfigUsable
  <2> QED BY <2>1, <2>2
<1> QED BY <1>1, AccountsInvariant, PTL

\* Of any number of entries with the same name, in any number of sections, the values of the
\* first are those in force, in any text; the order of names is as written where the section is
\* there once
THEOREM FirstStaysWritten == Spec => []FirstWritten
<1>1. AccountsInv => FirstWritten
  <2>1. CASE Running
    BY <2>1, AcceptedFirstWritten DEF AccountsInv
  <2>2. CASE ~Running
    BY <2>2 DEF FirstWritten
  <2> QED BY <2>1, <2>2
<1> QED BY <1>1, AccountsInvariant, PTL

\* For any prices, multipliers, windows, minutes, and usages that tell prompt or completion
\* tokens and count cached ones in the prompt: every token is charged once, at the price of
\* admission, and with the multiplier exactly in the windows
THEOREM ChargesStayExact == Spec => []ChargeExact
<1>1. AccountsInv => ChargeExact
  BY DEF AccountsInv
<1> QED BY <1>1, AccountsInvariant, PTL

\* For any usage and each pair of protocols: the usage the client is told costs what it
\* was charged
THEOREM ClientsToldAsBilled == Spec => []ToldAsBilled
<1>1. AccountsInv => ToldAsBilled
  BY DEF AccountsInv
<1> QED BY <1>1, AccountsInvariant, PTL

\* For any limit, budget, effort and choice of tools a client may ask for: an upstream of
\* another protocol is asked for the same, or the nearest effort it has a word for; the choice
\* of tools is what Anthropic is not told
THEOREM SettingsStayKept == Spec => []SettingsKept
<1>1. AccountsInv => SettingsKept
  BY DEF AccountsInv
<1> QED BY <1>1, AccountsInvariant, PTL
=============================================================================
