--------------------------- MODULE MCAdminSettings ---------------------------
(* One tab on each page, or two operators on the LLM page.                 *)
EXTENDS AdminSettings

OneEach == [t \in {"l", "e"} |-> IF t = "l" THEN "llm" ELSE "engines"]
TwoOnLlm == [t \in {"l", "m"} |-> "llm"]

===============================================================================
