------------------------------ MODULE MCAdvice ------------------------------
(****************************************************************************)
(* One session of any kind.  The metrics are normal, at a threshold, just    *)
(* above it, abnormal in one or in several, missing or None; the mixes are   *)
(* empty, of one model, of two, of one twice and of one that no file seeds.  *)
(****************************************************************************)
EXTENDS Advice

Entry(input, output, unit, risk) ==
    [input |-> input, output |-> output, unit |-> unit, risk |-> risk]

MCSeedEntry == Entry(Unknown, Unknown, Unknown, Unknown)
MCPrices == {Entry(1, 2, "per_1k_tokens", "LOW"), Entry(0, 0, "per_1k_tokens", "HIGH"),
             Entry(4, 2, Unknown, "unclassified")}

Used(model, calls) == [model |-> model, calls |-> calls]

MCObservations == {
    [cost_usd |-> 75, request_count |-> 20],
    [cost_usd |-> 76],
    [cost_usd |-> 100, latency_ms |-> 2000],
    [latency_ms |-> 800],
    [cost_usd |-> Absent, latency_ms |-> 2000],
    [token_count |-> Absent],
    [cost_usd |-> Absent],
    [cost_usd |-> 10, token_count |-> 30000],
    [cost_usd |-> 10, model_distribution |-> <<Used("gpt-4o", 5), Used("llama-3-8b", 5)>>],
    [cost_usd |-> 10, model_distribution |-> <<Used("gpt-4o", 2), Used("llama-3-8b", 3)>>]}

MCHistories == {<< >>, <<70, 90>>, <<50>>}

Part(model, share) == [model |-> model, share |-> share]
Input(volume, budget, mix) == [volume |-> volume, budget |-> budget, mix |-> mix]

MCInputs == {
    Input(2, Unknown, << >>),
    Input(2, 3, <<Part("m1", 100)>>),
    Input(2, Unknown, <<Part("m1", 80), Part("m2", 20)>>),
    Input(3, 3, <<Part("m2", 10), Part("m1", 40), Part("m2", 50)>>),
    Input(2, 3, <<Part("m1", 0)>>),
    Input(2, 3, <<Part("m1", 50), Part("m3", 50)>>)}
=============================================================================
