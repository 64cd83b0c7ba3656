----------------------------- MODULE MCSimulation -----------------------------
(***************************************************************************)
(* A small instance of Simulation for TLC.                                 *)
(***************************************************************************)
EXTENDS Simulation

CONSTANTS local, cloud, backup, native

MCAdapter == local :> "openai" @@ cloud :> "anthropic" @@ backup :> "openai"
               @@ native :> "responses"
MCDeclared == backup :> {"text"}
MCPosition == local :> 1 @@ cloud :> 2 @@ backup :> 3 @@ native :> 4
MCModels == local :> <<"small">> @@ cloud :> <<"small", "large">>
              @@ backup :> <<"small">> @@ native :> <<"large">>

MCQuotaLimit == local :> 2 @@ cloud :> 1
MCQuotaWindow == local :> 2 @@ cloud :> 1

MCCostHint == local :> 0 @@ cloud :> 500 @@ backup :> 700 @@ native :> 1500
MCQualityHint == local :> 600 @@ cloud :> 800 @@ backup :> 500 @@ native :> 900
MCWeight == local :> 100 @@ cloud :> 200 @@ backup :> 0 @@ native :> 100
MCInputPrice == local :> None @@ cloud :> 2 @@ backup :> 1 @@ native :> 3
MCOutputPrice == local :> None @@ cloud :> 10 @@ backup :> None @@ native :> 15

\* The cloud's large model was scored for text; nothing else was.
MCProfile ==
  [key \in Provider \X {"small", "large"} \X Route!TaskClass |->
     IF key = <<cloud, "large", "text">> THEN 950 ELSE None]

\* 0.15 * sqrt(ln(n + 2) / (k + 1)), in hundredths of thousandths.
MCBonus ==
  [n \in 0 .. 3 |->
     CASE n = 0 -> (0 :> 12488)
       [] n = 1 -> (0 :> 15722 @@ 1 :> 11117)
       [] n = 2 -> (0 :> 17661 @@ 1 :> 12488 @@ 2 :> 10196)
       [] n = 3 -> (0 :> 19029 @@ 1 :> 13455 @@ 2 :> 10986 @@ 3 :> 9514)]

Without(kind) == [kind |-> kind, latency |-> 0, input |-> None, output |-> None,
                  quality |-> None]

\* A quick answer with its usage, a slow one without the output count that has
\* a quality, and one that is past the worst latency and reports nothing.
MCOutcome ==
  {Without("missing"), Without("failure"), Without("invalid"),
   [Without("success") EXCEPT !.latency = 400, !.input = 1000, !.output = 200],
   [Without("success") EXCEPT !.latency = 4000, !.input = 500, !.quality = 900],
   [Without("success") EXCEPT !.latency = 12000]}

Text      == [model |-> "auto", requirements |-> {"text"}]
Large     == [model |-> "large", requirements |-> {"text"}]
ToolCall  == [model |-> "small", requirements |-> {"text", "tools"}]
Reasoning == [model |-> "auto", requirements |-> {"text", "tools", "reasoning"}]
WebSearch == [model |-> "auto", requirements |-> {"native_responses_tools"}]

Compared(p, q, requests) ==
  [policies |-> <<p, q, p>>, requests |-> requests, length |-> 2]

Single(p, requests, n) == [policies |-> <<p>>, requests |-> requests, length |-> n]

\* Policies before and after one that keeps nothing, one that reads the store
\* and one that learns, over two requests; and those that depend on what happened
\* before over four requests of one kind.
MCSimulations ==
  {Compared(p, q, {Text, Large}) :
     p \in {"ordered", "latency", "balanced", "adaptive_balanced", "constrained_ucb"},
     q \in {"ordered", "adaptive_balanced", "constrained_ucb"}}
    \cup {Compared(p, "ordered", {ToolCall, Reasoning, WebSearch}) :
             p \in {"cost", "quality", "constrained_ucb"}}
    \cup {Single(p, {Text}, 4) : p \in {"ordered", "latency", "adaptive_balanced",
                                        "constrained_ucb"}}

=============================================================================
