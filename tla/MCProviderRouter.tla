-------------------------- MODULE MCProviderRouter --------------------------
(* Two callers, the local model and one cloud provider; a request starts with either. *)
EXTENDS ProviderRouter

MCProviders == {"ollama", "cloud"}
MCLocal == {"ollama"}
MCRankings == {<<"ollama", "cloud">>, <<"cloud">>}
MCBackoff == <<1>>
MCRetryAfter == {2}
MCRetries == [timeout |-> 1, server |-> 0]
MCCallers == {1, 2}

\* Only the cloud provider's row is ever behind, and then either it or the breaker is blank:
\* a cooldown that was not written, or one that is over and still in the row.
FewRowsBehind ==
    /\ saved["ollama"] = breaker["ollama"]
    /\ saved["cloud"] # breaker["cloud"] => Blank \in {saved["cloud"], breaker["cloud"]}
=============================================================================
