----------------------------- MODULE MCEnrichment -----------------------------
(***************************************************************************)
(* Enrichment with two rows, one of them a check, three settings and two   *)
(* runs that may overlap.                                                  *)
(***************************************************************************)
EXTENDS Enrichment

Base == [mode |-> Unset, envMode |-> Unset, routerConfigured |-> TRUE, policy |-> Unset,
         provider |-> [p \in Process |-> "default"], model |-> [p \in Process |-> NoModel],
         localModel |-> Unset, anthropicModel |-> Unset,
         defaultLocal |-> "qwen-7b", defaultClaude |-> "claude-sonnet",
         key |-> TRUE, engine |-> "statement-model", statementModel |-> "qwen-stmt"]

\* Everything local; cleansing on Anthropic with a model of the other family set
\* for it; everything on the router.
MCConfigs ==
    {[llm |-> Base, enabled |-> EnrichProc, prompt |-> 0],
     [llm |-> [Base EXCEPT !.policy = "anthropic-first", !.localModel = "qwen-14b",
                           !.model["cleanse"] = "qwen-7b", !.provider["category"] = "local"],
      enabled |-> EnrichProc, prompt |-> 1],
     [llm |-> [Base EXCEPT !.mode = "router", !.key = FALSE], enabled |-> {"cleanse"},
      prompt |-> 0]}

MCClaude == {"claude-sonnet"}
MCTags == {"qwen-7b", "qwen-14b", "qwen-stmt"}
MCWishes == {{}, {"cleanse"}, {"cleanse", "category"}}

=============================================================================
