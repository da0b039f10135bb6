------------------------------ MODULE Routing -------------------------------
(***************************************************************************)
(* proxy-bridge/routing-config.mjs: what makes a pair of routing documents *)
(* valid, and where a valid pair sends a piece of work. All of it is pure. *)
(*                                                                         *)
(* A document is a record of the keys the rules below look at; "shape"     *)
(* stands for every rule about one value alone (its type, its range, an    *)
(* unknown key). An absent model is NoModel; an empty offload_bands of a   *)
(* target stands for the key left out.                                     *)
(***************************************************************************)
EXTENDS Bands, Sequences, FiniteSets

CONSTANTS NoModel,   \* no model for a band
          Extra      \* providers of llm-routing.local.yaml: a function from some ids

Network == {"public", "corporate"}
Scope   == {"fg", "bg"}
Class   == {"fg-chat", "background"}
ClaudeKey == <<"fg-chat", "claude">>
AnyAgent == "*"

\* The elements of a sequence at the places to keep, in their order (a filter, as a
\* recursive function because its properties are proved).
Only(seq, keep) ==
  LET upto[n \in 0 .. Len(seq)] ==
        IF n = 0 THEN << >>
        ELSE IF n \in keep THEN Append(upto[n - 1], seq[n]) ELSE upto[n - 1]
  IN  upto[Len(seq)]

-----------------------------------------------------------------------------
(* Validation.                                                             *)

\* withLocalProviders; a provider in both files is an error, see Valid.
AllProviders(r) ==
  [id \in DOMAIN r.providers \cup DOMAIN Extra |->
     IF id \in DOMAIN r.providers THEN r.providers[id] ELSE Extra[id]]

Served(p) == {b \in Band : p.models[b] # NoModel}
Offers(p, m) == p.available = {} \/ m \in p.available

ProviderValid(p) ==
  /\ p.on => p.impl /\ Served(p) # {}
  /\ \A b \in Served(p) : Offers(p, p.models[b])
  /\ p.timed \subseteq Served(p)

\* knownProvider: declared and enabled.
Known(ps, id) == id \in DOMAIN ps /\ ps[id].on

\* normalizeRouteEntry. A profile maps bands to models a caller may ask for.
EntryValid(ps, e) ==
  /\ Known(ps, e.provider)
  /\ e.band \in Band => e.band \in Served(ps[e.provider])
  /\ \A b \in DOMAIN e.profile : e.profile[b] # NoModel /\ Offers(ps[e.provider], e.profile[b])

DefaultsValid(ps, r) == \A cls \in Class : EntryValid(ps, r.defaults[cls]) /\ r.defaults[cls].band \in Band

RoutesValid(ps, r) ==
  \A k \in DOMAIN r.routes :
    /\ EntryValid(ps, r.routes[k])
    /\ k = ClaudeKey => ps[r.routes[k].provider].wire

\* The bands a target takes, and the scopes it takes one for.
BandsOf(s, t) == IF t.bands = << >> THEN s.bands ELSE DOMAIN t.bands
ScopeOf(t, b) == IF b \in DOMAIN t.bands THEN t.bands[b] ELSE t.scope

\* One target: it may narrow the policy, never widen it; one that is in use is
\* enabled and has a model for every band it takes.
TargetValid(ps, s, t) ==
  /\ t.scope # {}
  /\ DOMAIN t.bands \subseteq s.bands
  /\ \A b \in DOMAIN t.bands : t.bands[b] # {} /\ t.bands[b] \subseteq t.scope
  /\ t.limited => "fg" \in t.scope
  /\ t.provider \in DOMAIN ps
  /\ s.on /\ t.on => Known(ps, t.provider) /\ BandsOf(s, t) \subseteq Served(ps[t.provider])

PolicyValid(s) == s.on => s.bands # {}

\* No two targets claim a network, none comes after one that serves every network.
SemanticValid(ps, s) ==
  /\ PolicyValid(s)
  /\ \A i \in DOMAIN s.targets :
       /\ TargetValid(ps, s, s.targets[i])
       /\ \A j \in 1 .. i - 1 : s.targets[j].net \notin {"any", s.targets[i].net}

\* A chain's candidates that are enabled: the disabled ones are left out, with a
\* warning. No provider comes twice, the chain's head included.
Usable(ps, chain) == Only(chain, {i \in DOMAIN chain : ps[chain[i].provider].on})

ChainValid(ps, head, chain) ==
  LET left == Usable(ps, chain)
  IN  \A i \in DOMAIN left :
        left[i].provider # head /\ \A j \in 1 .. i - 1 : left[j].provider # left[i].provider

\* A candidate names a declared provider and the networks it is for, if not for all.
Candidate(ps) == [provider : DOMAIN ps, when : SUBSET Network]

\* Mutant: a repeat in a chain is let through.
ChainsKnown(ps, f) ==
  \A head \in DOMAIN f.chains :
    /\ head \in DOMAIN ps
    /\ ps[head].on => f.chains[head] \in Seq(Candidate(ps))
ChainsValid(ps, f) ==
  \A head \in DOMAIN f.chains :
    /\ head \in DOMAIN ps
    /\ ps[head].on => /\ f.chains[head] \in Seq(Candidate(ps))
                      /\ ChainValid(ps, head, f.chains[head])

\* parseRoutingConfig does not throw.
Valid(r, f) ==
  /\ r.shape /\ f.shape
  /\ DOMAIN r.providers \cap DOMAIN Extra = {} /\ DOMAIN r.providers # {}
  /\ LET ps == AllProviders(r)
     IN  /\ \A id \in DOMAIN ps : ProviderValid(ps[id])
         /\ DefaultsValid(ps, r) /\ RoutesValid(ps, r)
         /\ SemanticValid(ps, r.semantic) /\ ChainsValid(ps, f)

\* What it returns: the routes and the policy as they are, the merged providers,
\* the chains of enabled providers without the disabled ones.
Parsed(r, f) ==
  LET ps == AllProviders(r)
  IN  [providers |-> ps, defaults |-> r.defaults, routes |-> r.routes, semantic |-> r.semantic,
       enforce |-> f.enforce,
       chains |-> [h \in {x \in DOMAIN f.chains : ps[x].on} |-> Usable(ps, f.chains[h])]]

-----------------------------------------------------------------------------
(* Resolution of a request q: its job and agent, the band it asks for, the *)
(* network, whether it is larger than a target's foreground limit, whether *)
(* the target is full, whether it carries tools, whether it names a        *)
(* model that routes have a profile for.                                   *)

ClassOf(q) == IF q.job = "fg-chat" THEN "fg-chat" ELSE "background"

\* The key that matches: the job and agent, the job, the default of the class.
Matched(c, q) ==
  IF <<q.job, q.agent>> \in DOMAIN c.routes THEN c.routes[<<q.job, q.agent>>]
  ELSE IF <<q.job, AnyAgent>> \in DOMAIN c.routes THEN c.routes[<<q.job, AnyAgent>>]
  ELSE c.defaults[ClassOf(q)]

BandFor(c, q) ==
  LET e == Matched(c, q)
  IN  IF e.band \in Band THEN e.band
      ELSE IF q.asks \in Band THEN q.asks ELSE c.defaults[ClassOf(q)].band

\* pickOffloadTarget: the first that is on and serves this network; at most one.
Serving(s, net) == {i \in DOMAIN s.targets : s.targets[i].on /\ s.targets[i].net \in {"any", net}}
TargetFor(s, net) ==
  IF ~s.on THEN {}
  ELSE {s.targets[i] : i \in {i \in Serving(s, net) : \A j \in Serving(s, net) : i <= j}}

\* foregroundLimitReason.
LimitKeepsOff(t, q) == t.limited /\ (q.large \/ q.full)

ScopeFor(q) == IF ClassOf(q) = "fg-chat" THEN "fg" ELSE "bg"

WireKept(c, e, t) == c.providers[e.provider].wire => c.providers[t.provider].wire

\* The offload's ladder.
Moves(c, q, e, band, t) ==
  /\ e.provider # t.provider
  /\ e.offload
  /\ band \in c.semantic.bands
  /\ band \in BandsOf(c.semantic, t)
  /\ ScopeFor(q) \in ScopeOf(t, band)
  /\ WireKept(c, e, t)
  /\ ~(ClassOf(q) = "fg-chat" /\ LimitKeepsOff(t, q))

LowestServed(p) == CHOOSE b \in Served(p) : \A d \in Served(p) : Rank(b) <= Rank(d)

\* The model of a provider for a band: that band's, the default band's, the
\* lowest one's.
ModelOf(c, q, p, band) ==
  IF band \in Served(p) THEN p.models[band]
  ELSE LET dflt == c.defaults[ClassOf(q)].band
       IN  IF dflt \in Served(p) THEN p.models[dflt] ELSE p.models[LowestServed(p)]

\* resolveRoute. A route's profile goes before the provider's model, moved or not.
\* Where the call was moved from counts only when it was.
Resolve(c, q) ==
  LET e     == Matched(c, q)
      band  == BandFor(c, q)
      to    == {t \in TargetFor(c.semantic, q.net) : Moves(c, q, e, band, t)}
      moved == to # {}
      id    == IF moved THEN (CHOOSE t \in to : TRUE).provider ELSE e.provider
      own   == q.named /\ band \in DOMAIN e.profile
  IN  [provider |-> id, band |-> band, profiled |-> own,
       model |-> IF own THEN e.profile[band] ELSE ModelOf(c, q, c.providers[id], band),
       moved |-> moved, from |-> e.provider]

-----------------------------------------------------------------------------
(* buildChain.                                                             *)

Unguarded(id) == [provider |-> id, when |-> {}]
Others(chain, id) == Only(chain, {i \in DOMAIN chain : chain[i].provider # id})

\* Mutant: the declared chain of the target goes first.
CandidatesLast(c, route) ==
  LET declared == IF route.provider \in DOMAIN c.chains THEN c.chains[route.provider] ELSE << >>
  IN  IF ~route.moved THEN declared ELSE Append(Others(declared, route.from), Unguarded(route.from))
\* What comes after the head: where the call was moved from, then the declared chain.
Candidates(c, route) ==
  LET declared == IF route.provider \in DOMAIN c.chains THEN c.chains[route.provider] ELSE << >>
  IN  IF ~route.moved THEN declared ELSE <<Unguarded(route.from)>> \o Others(declared, route.from)

Eligible4(c, q, cand) ==
  /\ c.providers[cand.provider].on
  /\ cand.when = {} \/ q.net \in cand.when
  /\ c.enforce /\ q.tools => c.providers[cand.provider].tools

\* The head keeps the route's model, every other hop has one of its own provider's.
Hop(c, route, cand) ==
  LET p == c.providers[cand.provider]
  IN  [provider |-> cand.provider,
       model |-> IF cand.provider = route.provider THEN route.model
                 ELSE IF route.band \in Served(p) THEN p.models[route.band]
                 ELSE p.models[LowestServed(p)]]

\* The head and what comes after it, and what this request's chain keeps of them.
AllOf(c, route) == <<Unguarded(route.provider)>> \o Candidates(c, route)
Left(c, q) ==
  LET all == AllOf(c, Resolve(c, q))
  IN  Only(all, {i \in DOMAIN all : Eligible4(c, q, all[i])})

ChainOf(c, q) ==
  LET left == Left(c, q) IN [i \in DOMAIN left |-> Hop(c, Resolve(c, q), left[i])]

\* fgChatRouteGuard: /v1/messages refuses a route that its wire cannot reach.
Refused(c, q) == ~c.providers[Resolve(c, q).provider].wire
=============================================================================
