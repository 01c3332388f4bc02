----------------------------- MODULE ConfigFile -----------------------------
(***************************************************************************)
(* The configuration file: what Parse makes of a text, and what it         *)
(* refuses.  A JSON text may hold a key twice.  Names are numbers, 0 is    *)
(* a name or a field left out.                                             *)
(***************************************************************************)
EXTENDS Integers, Sequences, SequencesExt, Picks

Unset   == 0
Default == 9  \* the name of the provider made of the legacy fields

Provider(name, url, key) == [name |-> name, url |-> url, key |-> key]
Legacy(url, key)         == Provider(Default, url, key)
Model(name, provider, alias, price, peak, target, limit) ==
    [name |-> name, provider |-> provider, alias |-> alias, price |-> price, peak |-> peak,
     target |-> target, limit |-> limit]
User(uuid, keys, limits) == [uuid |-> uuid, keys |-> keys, limits |-> limits]
Boost(enabled, overage, trigger, boost, pool, other, times) ==
    [enabled |-> enabled, overage |-> overage, trigger |-> trigger, boost |-> boost,
     pool |-> pool, other |-> other, times |-> times]

NamesIn(entries) == [k \in DOMAIN entries |-> entries[k].name]

\* Mutant: of entries with the same name the last counts, as in encoding/json
ByNameLast(entries) ==
    [n \in ToSet(NamesIn(entries)) |->
        entries[SelectLastInSeq(entries, LAMBDA e : e.name = n)]]

\* decodeFirstWins: of entries with the same name the first counts
ByName(entries) ==
    [n \in ToSet(NamesIn(entries)) |->
        entries[SelectInSeq(entries, LAMBDA e : e.name = n)]]

\* dedupeKeepFirst
Dedupe(s) == At(s, {k \in DOMAIN s : \A j \in 1 .. k - 1 : s[j] # s[k]})

\* A section is a list of the objects that were written for it.  Values are those of the
\* first; objectKeyOrder takes the order of names from the last, as encoding/json does
Section(objects)  == IF objects = <<>> THEN <<>> ELSE Head(objects)
KeyOrder(objects) == IF objects = <<>> THEN <<>> ELSE Dedupe(NamesIn(Last(objects)))

\* ApplyLegacyDefaults
Providers(f) ==
    LET written == ByName(Section(f.providers))
    IN  IF DOMAIN written # {} \/ (f.legacy.url = "" /\ f.legacy.key = "") THEN written
        ELSE [n \in {Default} |-> f.legacy]

\* sort.Strings
Ascending(names) ==
    CHOOSE s \in [1 .. Cardinality(names) -> names] :
        \A i, j \in DOMAIN s : i < j => s[i] < s[j]

\* NormalizeProviders: names that are in the order only are dropped, the others follow it
ProviderOrder(f) ==
    LET names   == DOMAIN Providers(f)
        order   == KeyOrder(f.providers)
        written == At(order, {k \in DOMAIN order : order[k] \in names})
    IN  written \o Ascending(names \ ToSet(written))

\* validate: a model without a provider gets the first
Pricing(f) ==
    LET written == ByName(Section(f.pricing))
    IN  [n \in DOMAIN written |->
            IF written[n].provider # Unset THEN written[n]
            ELSE [written[n] EXCEPT !.provider = ProviderOrder(f)[1]]]

\* ApplyDefaults
WithDefaults(b) ==
    LET Of(v, d) == IF v <= 0 THEN d ELSE v
    IN  Boost(b.enabled, Of(b.overage, 105), Of(b.trigger, 90), Of(b.boost, 150),
              Of(b.pool, 85), Of(b.other, 95), b.times)

-----------------------------------------------------------------------------
(* validate *)

BoostAccepted(b) ==
    b.enabled => /\ b.overage >= 100 /\ b.boost > 100
                 /\ b.trigger <= 100 /\ b.pool <= 100 /\ b.other <= 100
                 /\ b.times >= 0

ProvidersAccepted(f) ==
    LET ps == Providers(f)
    IN  /\ DOMAIN ps # {}
        /\ \A n \in DOMAIN ps : ps[n].url \notin {"", "no url"} /\ ps[n].key # ""
        /\ f.balance # Unset => f.balance \in DOMAIN ps

\* Mutant: a provider need not exist
PricingAcceptedAnyProvider(f) ==
    LET all == Pricing(f)
    IN  /\ DOMAIN all # {}
        /\ \A n \in DOMAIN all : /\ \A p \in Range(all[n].price) : p >= 0
                                 /\ all[n].alias \notin DOMAIN all \ {n}

PricingAccepted(f) ==
    LET all == Pricing(f)
    IN  /\ DOMAIN all # {}
        /\ \A n \in DOMAIN all : /\ \A p \in Range(all[n].price) : p >= 0
                                 /\ all[n].alias \notin DOMAIN all \ {n}
                                 /\ all[n].provider \in DOMAIN Providers(f)

LimitsAccepted(limits) == \A w \in DOMAIN limits : limits[w] >= 0

UsersAccepted(f) ==
    LET us   == f.users
        keys == FlattenSeq([k \in DOMAIN us |-> us[k].keys])
    IN  /\ us # <<>>
        /\ \A k \in DOMAIN us : us[k].uuid # Unset /\ us[k].keys # <<>>
                                /\ LimitsAccepted(us[k].limits)
        /\ Len(Dedupe([k \in DOMAIN us |-> us[k].uuid])) = Len(us)
        /\ ~Contains(keys, Unset) /\ Len(Dedupe(keys)) = Len(keys)

Accepted(f) ==
    /\ BoostAccepted(WithDefaults(f.boost))
    /\ ProvidersAccepted(f)
    /\ f.admin # "" /\ f.rate >= 0
    /\ PricingAccepted(f)
    /\ LimitsAccepted(f.limits)
    /\ UsersAccepted(f)

-----------------------------------------------------------------------------

\* Parse, on a file it accepts
Parse(f) ==
    [providers |-> Providers(f), order |-> ProviderOrder(f), pricing |-> Pricing(f),
     models |-> KeyOrder(f.pricing), boost |-> WithDefaults(f.boost), users |-> f.users,
     limits |-> f.limits, interval |-> IF f.interval <= 0 THEN 120 ELSE f.interval]
=============================================================================
