----------------------------- MODULE LlmProviders -----------------------------
(***************************************************************************)
(* How a process (extraction, cleanse, category, check) gets its provider  *)
(* and model: apps/api/src/services/llm-provider.ts and ai-settings.ts.    *)
(* A settings record holds the rows of system_settings and the environment *)
(* that these files read; there is no state here.                          *)
(***************************************************************************)
EXTENDS Naturals

CONSTANTS
    ClaudeModels,   \* model ids of Anthropic (claude-*)
    OllamaTags      \* model tags of the local Ollama

Unset == "unset"
NoModel == "no-model"
Models == ClaudeModels \cup OllamaTags

ASSUME ProvidersAssumption ==
    /\ ClaudeModels \cap OllamaTags = {} /\ ClaudeModels # {} /\ OllamaTags # {}
    /\ Models \cap {Unset, NoModel} = {}

Process == {"extraction", "cleanse", "category", "check"}
ProviderId == {"local", "anthropic"}
Policy == {"local-only", "anthropic-only", "local-first", "anthropic-first"}

\* One row of settings and environment: what is stored, what the environment
\* says (`env...`), and per process the provider and the model chosen for it.
Settings ==
    [mode : {Unset, "direct", "router"}, envMode : {Unset, "direct", "router"},
     routerConfigured : BOOLEAN,
     policy : Policy \cup {Unset},
     provider : [Process -> {"default"} \cup ProviderId],
     model : [Process -> Models \cup {NoModel}],
     localModel : OllamaTags \cup {Unset}, anthropicModel : ClaudeModels \cup {Unset},
     defaultLocal : OllamaTags, defaultClaude : ClaudeModels,
     key : BOOLEAN, engine : {"legacy", "statement-model"}, statementModel : OllamaTags]

\* Every setting resolves from the database, then the environment, then a default.
Resolved(stored, env, default) ==
    CASE stored # Unset -> stored [] env # Unset -> env [] OTHER -> default

\* A stored `router` counts only while the environment can reach the router.
resolveAiMode(cfg) ==
    LET mode == Resolved(cfg.mode, cfg.envMode, "direct")
    IN  IF cfg.mode = "router" /\ ~cfg.routerConfigured THEN "direct" ELSE mode

resolveProviderPolicy(cfg) == Resolved(cfg.policy, Unset, "local-only")

providerOrderFor(policy) ==
    CASE policy = "local-only" -> [primary |-> "local", secondary |-> "none"]
      [] policy = "anthropic-only" -> [primary |-> "anthropic", secondary |-> "none"]
      [] policy = "local-first" -> [primary |-> "local", secondary |-> "anthropic"]
      [] policy = "anthropic-first" -> [primary |-> "anthropic", secondary |-> "local"]

\* The provider a process runs on: its own choice, or the policy's primary.
ProviderOf(cfg, proc) ==
    IF cfg.provider[proc] # "default" THEN cfg.provider[proc]
    ELSE providerOrderFor(resolveProviderPolicy(cfg)).primary

\* A provider's own model, when the process names none.
resolveModelLabelForProvider(cfg, id) ==
    IF id = "anthropic" THEN Resolved(cfg.anthropicModel, Unset, cfg.defaultClaude)
    ELSE Resolved(cfg.localModel, Unset, cfg.defaultLocal)

modelMatchesProvider(model, id) == (model \in ClaudeModels) <=> (id = "anthropic")

\* A model of the other family is dropped.
processModelForProvider(model, id) ==
    IF model # NoModel /\ modelMatchesProvider(model, id) THEN model ELSE NoModel

\* The label of a process: what the badges show and the enrichment cache is keyed by.
resolveProcessLabel(cfg, proc) ==
    LET id == ProviderOf(cfg, proc)
        own == processModelForProvider(cfg.model[proc], id)
    IN  [provider |-> id,
         model |-> IF own # NoModel THEN own ELSE resolveModelLabelForProvider(cfg, id)]

CannotBuild == [provider |-> "none", model |-> NoModel]

\* Only extraction runs on the statement model, and only when it runs locally.
constructLocal(cfg, proc, own) ==
    [provider |-> "local",
     model |-> CASE cfg.engine = "statement-model" /\ proc = "extraction" -> cfg.statementModel
                 [] own # NoModel -> own
                 [] OTHER -> resolveModelLabelForProvider(cfg, "local")]

constructAnthropic(cfg, own) ==
    IF ~cfg.key THEN CannotBuild
    ELSE [provider |-> "anthropic",
          model |-> IF own # NoModel THEN own ELSE resolveModelLabelForProvider(cfg, "anthropic")]

\* The router picks its own model.
RouterProvider == [provider |-> "vibe_router", model |-> NoModel]

\* The environment may ask for a router it has no address or token of.
constructRouter(cfg) == IF cfg.routerConfigured THEN RouterProvider ELSE CannotBuild

buildProviderForProcess(cfg, proc) ==
    LET id == ProviderOf(cfg, proc)
        own == processModelForProvider(cfg.model[proc], id)
    IN  CASE resolveAiMode(cfg) = "router" -> constructRouter(cfg)
          [] resolveAiMode(cfg) # "router" /\ id = "local" -> constructLocal(cfg, proc, own)
          [] OTHER -> constructAnthropic(cfg, own)

=============================================================================
