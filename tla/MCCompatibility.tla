--------------------------- MODULE MCCompatibility ---------------------------
(***************************************************************************)
(* Small instances of Compatibility for TLC.                               *)
(***************************************************************************)
EXTENDS Compatibility, TLC

CONSTANTS openai, anthropic, responses, restricted

MCAdapter == openai :> "openai" @@ anthropic :> "anthropic"
               @@ responses :> "responses" @@ restricted :> "responses"

MCDeclared == restricted :> {"text", "tools"}

Pairs(S) == {{}} \cup {{a, b} : a, b \in S}

Made(ingress, S) == [ingress : {ingress}, features : Pairs(S)]

\* One or two features at a time: every gate looks at features one by one.
PromisedRequests == UNION {Made(ingress, Promised(ingress)) : ingress \in Ingress}

UnmarkedRequests == Made("responses", Portable \cup {"tools"} \cup Unmarked)

MessagesToolRequests == Made("messages", Portable \cup {"tools"})

=============================================================================
