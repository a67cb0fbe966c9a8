----------------------------- MODULE MCPlanning -----------------------------
EXTENDS Planning

\* Two models of one provider, one of each other.
MCSupported == [p \in Providers |-> CASE p = "openai" -> <<"gpt", "mini">>
                                      [] p = "anthropic" -> <<"claude">>
                                      [] p = "ollama" -> <<"qwen">>]
MCDefault == [p \in Providers |-> Head(MCSupported[p])]
MCEnv == [provider |-> "ollama", auth |-> "api_key"]

\* Nothing stored; a model of another provider; a mode that is not implemented;
\* a provider that does not exist, left by hand in the table.
MCStored ==
  {[provider |-> NoRow, auth |-> NoRow, model |-> NoRow],
   [provider |-> "openai", auth |-> NoRow, model |-> "claude"],
   [provider |-> "anthropic", auth |-> "codex_oauth", model |-> "claude"],
   [provider |-> "gemini", auth |-> NoRow, model |-> NoRow]}

=============================================================================
