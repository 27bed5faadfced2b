---------------------------- MODULE LanguageModels ----------------------------
(***************************************************************************)
(* Which language model answers (context_engine/llm/__init__.py,           *)
(* get_client), and what a call of one can come to (anthropic_client.py,   *)
(* azure_client.py, openai_client.py, mock.py).  The environment is read   *)
(* anew at every call; a value still holding its template's placeholder    *)
(* counts as missing, and whatever is missing leaves the mock to answer.   *)
(***************************************************************************)
EXTENDS Integers

Providers == {"anthropic", "azure", "openai"}

\* The variables a choice of provider reads; an empty value is as good as none.
Variables == {"ANTHROPIC_API_KEY", "OPENAI_API_KEY",
              "AZURE_API_KEY", "AZURE_ENDPOINT", "LLM_MODEL",
              "AZURE_OPENAI_API_KEY", "AZURE_OPENAI_ENDPOINT", "AZURE_OPENAI_DEPLOYMENT"}
Values == {"none", "placeholder", "set"}

\* mock: MOCK_LLM; sdks: the packages that can be imported.
Environments ==
    [mock : BOOLEAN, provider : Providers \cup {"mock", "other"},
     var : [Variables -> Values], sdks : SUBSET {"anthropic", "openai"}]

\* os.getenv(a) or os.getenv(b)
OrElse(a, b) == IF a = "none" THEN b ELSE a

Configured(env, provider) ==
    CASE provider = "anthropic" -> env.var["ANTHROPIC_API_KEY"] = "set"
      [] provider = "openai"    -> env.var["OPENAI_API_KEY"] = "set"
      [] provider = "azure"     ->
            /\ OrElse(env.var["AZURE_API_KEY"], env.var["AZURE_OPENAI_API_KEY"]) = "set"
            /\ OrElse(env.var["AZURE_ENDPOINT"], env.var["AZURE_OPENAI_ENDPOINT"]) = "set"
            /\ OrElse(env.var["LLM_MODEL"], env.var["AZURE_OPENAI_DEPLOYMENT"]) # "none"

\* The azure client is made with the openai package.
Sdk(provider) == IF provider = "anthropic" THEN "anthropic" ELSE "openai"

ClientFor(env) ==
    IF /\ ~env.mock
       /\ env.provider \in Providers
       /\ Configured(env, env.provider)
       /\ Sdk(env.provider) \in env.sdks
    THEN env.provider ELSE "mock"

\* complete: the mock echoes the prompt; a provider's client returns the text of
\* the answer, which may be empty, or its call raises.
Completions(client) == IF client = "mock" THEN {"echo"} ELSE {"text", "empty", "raises"}

\* summarize: the mock keeps the head of the text; a provider's client asks for
\* a completion of its own.
Summaries(client) == IF client = "mock" THEN {"head"} ELSE Completions(client)
===============================================================================
