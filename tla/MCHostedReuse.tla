--------------------------- MODULE MCHostedReuse ---------------------------
(* Two requests, two fetches at a time, ranges that meet at their bounds   *)
(* and in their spellings, and answers for the wrong request.              *)
EXTENDS HostedReuse, TLC

CONSTANTS q1, q2, small, large

MCLength == (small :> 1) @@ (large :> 2)

MCProbes == [1..2 -> 0..2]

C(op, v) == <<op, v>>

Ranges ==
  {Wildcard,
   <<C(">=", <<1>>)>>, <<C(">", <<1>>)>>, <<C("==", <<1, 0>>)>>, <<C("==", <<1>>)>>,
   <<C("<", <<2>>)>>, <<C("<=", <<2, 0>>)>>,
   <<C(">=", <<1>>), C("<", <<2>>)>>,
   <<C(">", <<1>>), C(">=", <<1, 0>>), C("<=", <<2>>)>>,
   <<C(">=", <<1, 1>>), C("<", <<1, 2>>)>>,
   <<C(">", <<2>>), C("<", <<1>>)>>,
   <<C(">=", <<1>>), C("?", <<>>)>>}

Target(id, range) ==
  [id |-> id, runtime |-> "r", platform |-> "p", architecture |-> "a",
   range |-> range, interfaces |-> {"i", "j"}]

Context(targets, selected) ==
  [targets |-> targets, selected |-> selected, interfaces |-> {"i"},
   treatments |-> {"exact-component", "source-free-method"}, results |-> {"1.3", "1.4", "1.5"}]

AnyOf(range) == Target("other", range)

FirstQueries ==
  {Context({Target("t", r)}, None) : r \in Ranges}
  \cup {Context({Target("t", <<C(">=", <<1>>)>>), AnyOf(<<C("<", <<2>>)>>)}, s) : s \in {None, "t", "none"}}
  \cup {[Context({Target("t", Wildcard)}, None) EXCEPT !.interfaces = {"k"}],
        [Context({Target("t", Wildcard)}, None) EXCEPT !.treatments = {"source-free-method"}],
        [Context({Target("t", Wildcard)}, None) EXCEPT !.results = {"1.3", "1.4"}]}

MCQueries ==
  (q1 :> FirstQueries) @@ (q2 :> {Context({Target("t", <<C(">=", <<2>>)>>)}, None)})

Supports(range) ==
  [runtime |-> "r", platforms |-> {"p"}, architectures |-> {"a"},
   range |-> range, interfaces |-> {"i"}]

NextAction(kind, subject, checks) == [kind |-> kind, subject |-> subject, checks |-> checks]

Install(o) == NextAction("install-and-verify", o, {<<"digest-equals", o>>})
Supply == NextAction("supply-missing-fact", "fact", {<<"fact-present", "fact">>})

Answer(q, range, object, version, delivery) ==
  [request |-> q, treatment |-> "exact-component", kind |-> "artifact",
   version |-> version, delivery |-> delivery, object |-> object, supports |-> Supports(range), next |-> Install(object)]

Base == Answer(q1, Wildcard, large, "1.4", "protected")

MCAnswers ==
  {Answer(q1, r, large, "1.4", "protected") : r \in Ranges}
  \cup {[Base EXCEPT !.version = "1.5"], [Base EXCEPT !.version = "1.3"],
        [Base EXCEPT !.version = "1.5", !.delivery = "edge"],
        [Base EXCEPT !.delivery = "edge"],
        [Base EXCEPT !.kind = "none", !.object = None],
        [Base EXCEPT !.supports.runtime = "s"],
        [Base EXCEPT !.supports.platforms = {"x"}],
        [Base EXCEPT !.supports.architectures = {"x"}],
        [Base EXCEPT !.supports.interfaces = {}],
        [Base EXCEPT !.supports.runtime = "any", !.supports.platforms = {"any"},
                     !.supports.architectures = {"any"}],
        [Base EXCEPT !.kind = "git-commit"],
        [Base EXCEPT !.treatment = "source-free-method", !.kind = "none", !.object = None,
                     !.next = NextAction("re-query", "none", {<<"generation-current", "g">>})],
        [Base EXCEPT !.treatment = "abstention", !.kind = "none", !.object = None, !.next = Supply],
        [Base EXCEPT !.treatment = "abstention", !.kind = "none", !.object = None],
        [Base EXCEPT !.next.checks = {}],
        [Base EXCEPT !.treatment = "abstention", !.kind = "none", !.object = None,
                     !.next = NextAction("supply-missing-fact", "rate-limited",
                                         {<<"fact-present", "rate-limited">>})],
        [Base EXCEPT !.treatment = "source-free-method", !.kind = "none", !.object = None,
                     !.next = NextAction("apply-method-step", <<"file-exists", "f">>,
                                         {<<"file-exists", "f">>})],
        [Base EXCEPT !.next.kind = "handoff-native-add"],
        [Base EXCEPT !.next = NextAction("use-local-catalog", "none",
                                         {<<"fact-present", "local-catalog">>})],
        Answer(q2, Wildcard, small, "1.5", "edge"), Answer(q2, Wildcard, small, "1.3", "protected")}

Symmetry == Permutations(Fetchers)
=============================================================================
