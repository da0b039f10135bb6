------------------------------ MODULE MCRouting -----------------------------
(* An instance of RoutingStore for TLC. Providers: a (an account with the  *)
(* Claude wire), g (a gateway), l (the local model), x (a gateway that only *)
(* this deployment has, from llm-routing.local.yaml).                      *)
EXTENDS RoutingStore, TLC

CONSTANTS p1, p2

B3(s, m, h) == [small |-> s, medium |-> m, high |-> h]
Prov(on, models, wire, tools) ==
  [on |-> on, impl |-> TRUE, models |-> models, available |-> {}, timed |-> {},
   wire |-> wire, tools |-> tools]
MCExtra == [x |-> Prov(TRUE, B3(NoModel, "x-m", "x-h"), FALSE, TRUE)]
A == [Prov(TRUE, B3("a-s", "a-m", "a-h"), TRUE, TRUE) EXCEPT !.available = {"a-s", "a-m", "a-h"}]
G(on) == [Prov(on, B3("g-s", "g-m", NoModel), FALSE, TRUE) EXCEPT !.timed = {"small"}]
L(on, m, wire, tools) == Prov(on, B3("l-s", m, NoModel), wire, tools)

Entry(p, b, off, prof) == [provider |-> p, band |-> b, offload |-> off, profile |-> prof]
Target(p, on, net, scope, bands, limited) ==
  [provider |-> p, on |-> on, net |-> net, scope |-> scope, bands |-> bands, limited |-> limited]

Doc(l, gOn, sOn, bands, targets, claude, loop) ==
  [shape |-> TRUE, providers |-> [a |-> A, g |-> G(gOn), l |-> l],
   defaults |-> ("fg-chat" :> Entry("a", "high", TRUE, << >>)
                 @@ "background" :> Entry("g", "small", TRUE, << >>)),
   routes |-> (IF claude = {} THEN << >> ELSE (ClaudeKey :> CHOOSE e \in claude : TRUE))
              @@ (<<"loop", AnyAgent>> :> loop)
              @@ (<<"loop", "pi">> :> Entry("g", "medium", FALSE, << >>)),
   semantic |-> [on |-> sOn, bands |-> bands, targets |-> targets]]

\* Local models: small only or medium too, with the Claude wire or without, with
\* tools or without, off.
Locals == {L(TRUE, m, w, t) : m \in {NoModel, "l-m"}, w \in BOOLEAN, t \in BOOLEAN}
            \cup {L(FALSE, "l-m", TRUE, TRUE)}
Policies == {
  << >>,
  <<Target("l", TRUE, "any", Scope, << >>, FALSE)>>,
  <<Target("l", TRUE, "public", {"fg"}, [small |-> {"fg"}], TRUE),
    Target("x", TRUE, "corporate", {"bg"}, << >>, FALSE)>>,
  <<Target("g", FALSE, "any", Scope, << >>, FALSE)>>,
  <<Target("l", TRUE, "public", Scope, [small |-> Scope, medium |-> {"bg"}], TRUE)>>}
Claude == {{}, {Entry("a", "from-caller", TRUE, << >>)}, {Entry("l", "small", TRUE, << >>)}}
Loops == {Entry("g", "from-caller", TRUE, << >>), Entry("a", "small", TRUE, [small |-> "a-m"])}

Chain(ids) == [i \in DOMAIN ids |-> Unguarded(ids[i])]
Fall(chains, enforce) == [shape |-> TRUE, chains |-> chains, enforce |-> enforce]
F1 == Fall([a |-> Chain(<<"g", "x">>), g |-> Chain(<<"a">>),
            l |-> <<[provider |-> "x", when |-> {"corporate"}], Unguarded("a"), Unguarded("g")>>], TRUE)
F2 == Fall([g |-> Chain(<<"l", "x", "l">>)], FALSE)
F3 == Fall([a |-> Chain(<<"g", "a">>)], TRUE)

R1(claude) == Doc(L(TRUE, NoModel, TRUE, FALSE), TRUE, TRUE, {"small"},
                  <<Target("l", TRUE, "any", Scope, << >>, FALSE)>>, claude, Entry("g", "from-caller", TRUE, << >>))
MCRDocs == {
  R1({Entry("a", "from-caller", TRUE, << >>)}),
  R1({Entry("g", "small", TRUE, << >>)}),
  Doc(L(FALSE, NoModel, FALSE, TRUE), TRUE, FALSE, {}, << >>, {}, Entry("a", "small", TRUE, << >>))}
MCFDocs == {F1, F2, F3}

MCFirstPairs ==
  {Pair(Doc(l, g, s, {"small", "medium"}, ts, c, e), f) :
     l \in Locals, g \in BOOLEAN, s \in BOOLEAN, ts \in Policies, c \in Claude, e \in Loops,
     f \in {F1, F2, F3}}
  \cup {Pair(r, F1) : r \in MCRDocs}

MCPatches == {
  [routes |-> (ClaudeKey :> Entry("g", "small", TRUE, << >>)), on |-> {}, targets |-> {},
   chains |-> << >>, enforce |-> {}],
  [routes |-> (ClaudeKey :> Drop), on |-> {FALSE}, chains |-> [a |-> Chain(<<"x">>), g |-> Drop], enforce |-> {TRUE},
   targets |-> {<<[provider |-> "l", on |-> TRUE, net |-> "public", scope |-> {}, bands |-> {"small"}]>>}]}

MCRequests ==
  [job : {"fg-chat", "loop", "other"}, agent : {"claude", "pi"}, asks : {"small", "medium", "-"},
   net : Network, large : BOOLEAN, full : {FALSE}, tools : BOOLEAN, named : BOOLEAN]
SaverSymmetry == Permutations(Saver)
=============================================================================
