------------------------------ MODULE MCRouter ------------------------------
(* Router with two chat providers of one family, one of a responses API.   *)
EXTENDS Router

CONSTANTS kimi, kimi2, qwen, r1

MCFamilyOf == [p \in Providers |-> IF p = qwen THEN "qwen" ELSE "kimi"]
MCWireOf == [p \in Providers |-> IF p = qwen THEN "responses" ELSE "chat"]
MCPolicyOf == [f \in {"kimi", "qwen"} |->
    IF f = "qwen" THEN "qwen_omit_zero_clamp_1" ELSE "kimi_only_temperature_1"]
\* All is there, a provider or a key is missing.
MCSettings ==
    {[configured |-> Providers, secrets |-> Providers],
     [configured |-> Providers \ {kimi}, secrets |-> Providers],
     [configured |-> Providers \ {qwen}, secrets |-> {kimi}]}
=============================================================================
