---------------------------- MODULE LlmRouting ----------------------------
(***************************************************************************)
(* The routing table of agents/llm_router.py: which models a task asks, in *)
(* which order.                                                            *)
(***************************************************************************)
EXTENDS Sequences

CONSTANT Override  \* Override[t]: a model of the settings, or NoModel

Model(p, name) == [provider |-> p, name |-> name]
NoModel == Model("", "")

Haiku == Model("anthropic", "haiku")
Sonnet == Model("anthropic", "sonnet")
Gpt == Model("openai", "gpt-4o")
GptMini == Model("openai", "gpt-4o-mini")
Flash == Model("gemini", "flash")
Pro == Model("gemini", "pro")
Llama70 == Model("groq", "70b")
Llama8 == Model("groq", "8b")

TaskModelRouting ==
  [ intent_parsing    |-> <<Llama70, Llama8, Flash, Haiku>>,
    quote_parsing     |-> <<Sonnet, Gpt, Pro, Llama70>>,
    option_ranking    |-> <<Llama70, Flash, Haiku, GptMini>>,
    orchestration     |-> <<Sonnet, Gpt, Pro>>,
    rfq_generation    |-> <<Llama8, Flash, Haiku>>,
    goal_refinement   |-> <<Llama70, GptMini, Haiku>>,
    anomaly_detection |-> <<Flash, Haiku, GptMini>> ]

Tasks == DOMAIN TaskModelRouting

\* An override becomes the primary model of its task.
ResolvedChain(t) ==
  LET default == TaskModelRouting[t]
      others(m) == m # Override[t]
  IN  IF Override[t] = NoModel THEN default
      ELSE <<Override[t]>> \o SelectSeq(default, others)
============================================================================
