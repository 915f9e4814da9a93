---------------------------- MODULE AssetMapping ----------------------------
(***************************************************************************)
(* How an event gets its assets (services/asset_mapping.py over the        *)
(* registry of providers/registry.py): the model proposes, the security    *)
(* master decides, and the industries of the text fill up what is left.    *)
(*                                                                         *)
(* A text is the set of terms it holds: issuer names, listing codes in     *)
(* security syntax, branded products and industries.  The master is a      *)
(* table; assets the providers find while a proposal is resolved join it.  *)
(***************************************************************************)
EXTENDS Integers, Sequences, FiniteSets, FiniteSetsExt

CONSTANTS
  Asset,           \* listings, as 1 .. n in the order of their ids
  Listing,         \* [Asset -> its row], see Eligible and Linked for the fields
  Known,           \* the assets in the master to begin with
  Texts,           \* texts of news, sets of terms
  Tags,            \* sets of codes that news items carry as symbols
  Hints,           \* proposals of the model
  Industries,      \* level-2 industries, in the order of the rules
  Ambiguous,       \* names and products that are ordinary words too
  MaxHints,        \* bound: proposals of one reply
  ShortlistLimit,  \* 30 in the code
  MaxMapped        \* 8 in the code

VARIABLES
  text, tags,   \* the event and its news
  reply,        \* "proposals", or "failed": no reply that fits the schema
  master,       \* assets known to the registry
  shortlist,    \* assets offered to the model
  candidates,   \* each asset's candidate row
  proposed,     \* proposals read
  stage         \* "asked", then "mapped"

mappingVars == <<text, tags, reply, master, shortlist, candidates, proposed, stage>>

NoCandidate == [relationship |-> "none", relevance |-> 0, confidence |-> 0]
Mapped == {a \in Asset : candidates[a] # NoCandidate}

-----------------------------------------------------------------------------
\* The registry.
MentionsIssuer(query, a) == (Listing[a].names \ Ambiguous) \intersect query # {}
ExplicitCode(query, a) == Listing[a].code \in query
MentionsAsset(query, a) == ExplicitCode(query, a) \/ MentionsIssuer(query, a)
ProductsIn(query, a) == (Listing[a].products \ Ambiguous) \intersect query

MappingAssets(known) ==
  {a \in known : Listing[a].active /\ Listing[a].tier # "manual_only"}

\* asset_is_mapping_eligible: an exact-only coin needs a name or a code that
\* no other coin has.
Terms(a) == Listing[a].names \union {Listing[a].code}
Eligible(query, a, known) ==
  /\ Listing[a].active
  /\ \/ Listing[a].tier = "standard"
     \/ /\ Listing[a].tier = "exact_only"
        /\ LET others == {b \in MappingAssets(known) \ {a} : Listing[b].market = "CRYPTO"}
           IN  (Terms(a) \intersect query) \ UNION {Terms(b) : b \in others} # {}

ShortlistScore(query, a) ==
  CASE ExplicitCode(query, a) -> 100
    [] ~ExplicitCode(query, a) /\ Listing[a].products \intersect query # {} -> 95
    [] OTHER -> IF Listing[a].names \intersect query # {} THEN 90 ELSE 0

Larger(a, b) ==
  \/ Listing[a].cap > Listing[b].cap
  \/ Listing[a].cap = Listing[b].cap /\ a < b

ShortlistAssets(query, known) ==
  LET scored == {a \in MappingAssets(known) :
                   Eligible(query, a, known) /\ ShortlistScore(query, a) > 0}
      Before(a, b) ==
        \/ ShortlistScore(query, a) > ShortlistScore(query, b)
        \/ ShortlistScore(query, a) = ShortlistScore(query, b) /\ Larger(a, b)
  IN  {a \in scored : Cardinality({b \in scored : Before(b, a)}) < ShortlistLimit}

\* Two listings of one issuer, by their master data alone.
Linked(a, b) ==
  \/ a = b \/ Listing[a].primary = b \/ Listing[b].primary = a
  \/ Listing[a].issuer # "none" /\ Listing[a].issuer = Listing[b].issuer
  \/ Listing[a].primary # 0 /\ Listing[a].primary = Listing[b].primary

ProductOwners(query, known) ==
  {a \in known : \E o \in known : ProductsIn(query, o) # {} /\ Linked(o, a)}

\* resolve_assets: the master first, the providers only when it knows nothing.
Exact(query, known) ==
  {a \in MappingAssets(known) : MentionsAsset(query, a) /\ Eligible(query, a, known)}
\* They answer with every listing of an issuer; all join the master.
Discovered(query, known) ==
  IF Exact(query, known) # {} THEN {}
  ELSE {a \in Asset : \E b \in Asset : MentionsAsset(query, b) /\ Linked(b, a)}
ResolveAssets(query, known) ==
  Exact(query, known \union Discovered(query, known))

Mentioned(query) == {Industries[k] : k \in DOMAIN Industries} \intersect query

\* industry_representatives: of each industry the three largest of each
\* market, one of each market in turn, as many as there is room for.
Standing(a, known) ==
  1 + Cardinality({b \in known \ {a} :
        /\ Listing[b].active /\ Listing[b].industry = Listing[a].industry
        /\ Listing[b].market = Listing[a].market /\ Larger(b, a)})
MarketOrder == [CN |-> 1, HK |-> 2, US |-> 3]
Place(a) == CHOOSE k \in DOMAIN Industries : Industries[k] = Listing[a].industry
Ahead(a, b, known) ==
  \/ Place(a) < Place(b)
  \/ /\ Place(a) = Place(b)
     /\ \/ Standing(a, known) < Standing(b, known)
        \/ /\ Standing(a, known) = Standing(b, known)
           /\ MarketOrder[Listing[a].market] < MarketOrder[Listing[b].market]

Listed(industries, known) ==
  {a \in known : /\ Listing[a].active
                 /\ Listing[a].industry \in industries
                 /\ Listing[a].market \in DOMAIN MarketOrder
                 /\ Standing(a, known) <= 3}
Representatives(industries, known, limit) ==
  LET listed == Listed(industries, known)
  IN  {a \in listed : Cardinality({b \in listed : Ahead(b, a, known)}) < limit}

-----------------------------------------------------------------------------
\* map_event, up to the reply of the model.
Init ==
  /\ text \in Texts /\ tags \in Tags
  /\ reply \in {"proposals", "failed"}
  /\ master = Known
  /\ shortlist = ShortlistAssets(text, Known)
  /\ candidates = [a \in Asset |->
       IF a \in ProductOwners(text, Known)
       THEN [relationship |-> "product_owner", relevance |-> 85, confidence |-> 99]
       ELSE NoCandidate]
  /\ proposed = 0 /\ stage = "asked"

SourceCode(a) == ExplicitCode(text, a) \/ Listing[a].code \in tags

\* Defect: being resolved from any of the queries is identity enough.
IdentityMatchesAnyQuery(hint, a) ==
  hint.symbol = Listing[a].code => SourceCode(a) \/ hint.mention \in text

\* _identity_matches: the code both proposed and in the source, or the issuer
\* named by the very words the proposal quotes.
IdentityMatches(hint, a) ==
  \/ hint.symbol = Listing[a].code /\ SourceCode(a)
  \/ MentionsIssuer({hint.mention}, a)

Queries(hint) == <<hint.symbol, hint.name, hint.mention>>

\* The master as each query finds it: what one discovers the next one knows.
With(known, query) == known \union Discovered({query}, known)
MasterAfter(hint, k) ==
  CASE k = 0 -> master
    [] k = 1 -> With(master, hint.symbol)
    [] k = 2 -> With(With(master, hint.symbol), hint.name)
    [] OTHER -> With(With(With(master, hint.symbol), hint.name), hint.mention)

Admissible(hint) ==
  /\ hint.mention \in text /\ hint.confidence >= 60
  /\ hint.relationship # "product_owner" /\ hint.asset # 0 /\ shortlist # {}
       => hint.asset \in shortlist

Resolved(hint) ==
  LET byId == {hint.asset} \intersect master
      byQuery == UNION {ResolveAssets({Queries(hint)[k]}, MasterAfter(hint, k - 1)) : k \in 1 .. 3}
  IN  {a \in byId \union {b \in byQuery : shortlist # {} => b \in shortlist} :
         /\ hint.symbol # "none" => Listing[a].code = hint.symbol
         /\ hint.market # "any" => Listing[a].market = hint.market
         /\ ~Listing[a].fund
         /\ IdentityMatches(hint, a)}

\* _validate_hint: a listing whose code the source does not give, and that is
\* not the issuer's primary one, is mapped at a discount.
Candidate(hint, a) ==
  IF hint.relationship # "product_owner" /\ Listing[a].primary # 0 /\ ~SourceCode(a)
  THEN [relationship |-> "cross_listing_issuer",
        relevance |-> Min({hint.confidence, 55}), confidence |-> Min({hint.confidence, 75})]
  ELSE [relationship |-> hint.relationship,
        relevance |-> hint.confidence, confidence |-> hint.confidence]

Validated(hint) ==
  CASE ~Admissible(hint) -> {}
    [] Admissible(hint) /\ hint.relationship = "product_owner" ->
         ProductOwners({hint.mention}, master)
    [] OTHER -> Resolved(hint)

Propose(hint) ==
  /\ stage = "asked" /\ reply = "proposals" /\ proposed < MaxHints
  /\ proposed' = proposed + 1
  /\ \E valid \in {Validated(hint)} :
       candidates' = [a \in Asset |->
         IF a \in valid /\ Candidate(hint, a).relevance > candidates[a].relevance
         THEN Candidate(hint, a) ELSE candidates[a]]
  /\ master' = IF Admissible(hint) /\ hint.relationship # "product_owner"
               THEN MasterAfter(hint, 3) ELSE master
  /\ UNCHANGED <<text, tags, reply, shortlist, stage>>

\* The end of map_event: industries of the text and, if it replied, of the
\* model; their representatives take the places the named assets leave.
Conclude(industries) ==
  /\ stage = "asked" /\ stage' = "mapped"
  /\ reply = "failed" => industries = {}
  /\ \E peers \in {Representatives(Mentioned(text) \union industries, master,
                                   Max({0, MaxMapped - Cardinality(Mapped)}))} :
       candidates' = [a \in Asset |->
         IF a \in peers /\ candidates[a] = NoCandidate
         THEN [relationship |-> "industry_peer", relevance |-> 40, confidence |-> 55]
         ELSE candidates[a]]
  /\ UNCHANGED <<text, tags, reply, master, shortlist, proposed>>

Next ==
  \/ \E hint \in Hints : Propose(hint)
  \/ \E industries \in SUBSET {Industries[k] : k \in DOMAIN Industries} : Conclude(industries)

-----------------------------------------------------------------------------
\* Whatever the model proposes, the master has the last word: an asset that is
\* mapped as anything but a peer is named by the source, by its issuer, by its
\* code or by a product of its issuer, and one mapped by name is of the
\* shortlist if there was one; an owner the master verified is never lost or
\* outbid by a weaker claim, with or without a reply; a secondary listing never
\* outranks the named primary one; peers never displace a named asset, never
\* outrank one and come largest first (asset_mapping.py, map_event,
\* _validate_hint; test_asset_mapping.py).
MappingIsVerified ==
  LET named == {a \in Mapped : candidates[a].relationship # "industry_peer"}
      peers == Mapped \ named
  IN
  /\ \A a \in named :
       \/ MentionsIssuer(text, a) \/ SourceCode(a)
       \/ \E o \in Asset : ProductsIn(text, o) # {} /\ Linked(o, a)
  /\ \A a \in named :
       candidates[a].relationship # "product_owner" /\ shortlist # {} => a \in shortlist
  /\ \A a \in ProductOwners(text, Known) : a \in named /\ candidates[a].relevance >= 85
  /\ \A a \in named :
       candidates[a].relationship = "cross_listing_issuer" =>
         \A b \in named : b = Listing[a].primary => candidates[b].relevance > candidates[a].relevance
  /\ \A a \in peers, b \in named : candidates[a].relevance < candidates[b].relevance
  /\ peers # {} => Cardinality(Mapped) <= MaxMapped
  /\ \A a \in peers : \A b \in master :
       Listing[b].active /\ Listing[b].industry = Listing[a].industry
         /\ Listing[b].market = Listing[a].market /\ Larger(b, a) => b \in Mapped
=============================================================================
