-------------------------- MODULE MCProviderCall --------------------------
(* Instances of ProviderCall for TLC.                                       *)
EXTENDS ProviderCall, TLC

CONSTANTS azure, gpt4, gpt5, gpt51, own, other

SupportedAll == {OpenAI, azure}
ModelsAll == {gpt4, gpt5, gpt51}
Gpt5All == {gpt5, gpt51}
Gpt51All == {gpt51}
ConnectionsAll == {own, other}
ProviderOfAll == [c \in ConnectionsAll |-> IF c = own THEN azure ELSE OpenAI]

Dict(p, m) == [form |-> "dict", provider |-> p, model |-> m]
Text(p, m) == [form |-> "text", provider |-> p, model |-> m]

\* Nothing listed; another provider; the primary model again, a provider out of the
\* catalog, a dictionary and a text without a model, and a repeat.
Lists == {<<>>, <<Text(azure, gpt51)>>,
          <<Dict(NoProvider, gpt5), Dict(Unsupported, gpt4), Dict(azure, Blank),
            Text(OpenAI, gpt5), Text(azure, Blank)>>}

Wiring == {<<NoRoute, NoConnection, NoConnection>>, <<R(azure, gpt5), own, other>>,
           <<R(azure, gpt51), other, own>>}

V(p, ps, none, on, ts, ls, rnd, n, w) ==
    [provider |-> p, model |-> gpt5, params |-> ps, effortNone |-> none, enabled |-> on,
     targets |-> ts, legacy |-> ls, random |-> rnd, limit |-> n,
     target |-> w[1], targetConnection |-> w[2], connection |-> w[3]]

\* Every shape of routing with one parameter, and every parameter with two routes.
VersionsAll ==
    {V(p, {"temperature"}, TRUE, on, ts, ls, rnd, n, w) :
        p \in {OpenAI, azure, Unsupported}, on \in BOOLEAN, ts \in Lists,
        ls \in {<<>>, <<gpt5, gpt4>>}, rnd \in BOOLEAN, n \in {0, 2}, w \in Wiring}
    \cup
    {V(OpenAI, ps, none, TRUE, <<Text(azure, m)>>, <<>>, FALSE, 0, w) :
        ps \in {{"temperature", "reasoning", "max_tokens", "max_output_tokens"},
                {"temperature", "top_p", "max_output_tokens", "seed"}},
        none \in BOOLEAN, m \in {gpt4, gpt51}, w \in Wiring}
=============================================================================
