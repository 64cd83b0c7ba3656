----------------------------- MODULE Capabilities -----------------------------
(***************************************************************************)
(* What a request asks for and which providers can be given it: the        *)
(* capability sets and the protocol check of routing/router.py, and the    *)
(* task class by which quality.py looks up scores.  A request is the       *)
(* ingress protocol it came by, and its features.                          *)
(*                                                                         *)
(* A feature is one thing a payload can say; its value is left out.        *)
(***************************************************************************)
EXTENDS FiniteSets

CONSTANTS
  Provider,  \* the configured providers
  Adapter,   \* adapter of each
  Explicit,  \* providers with a capabilities field
  Declared   \* what it says

Ingress    == {"chat", "messages", "responses"}
Adapters   == {"openai", "anthropic", "responses"}
Capability == {"text", "tools", "reasoning", "native_responses_tools"}

\* What all three ingress parsers read and all three adapters write.
Portable == {"instructions", "max_output_tokens", "temperature", "calls"}

\* Controls of the Responses protocol, and its items and tools.
Controls == {"reasoning", "include_reasoning", "include_other", "prompt_cache_key",
             "service_tier", "text", "stream_options", "client_metadata",
             "tool_choice", "parallel_tool_calls", "store"}
Native   == Controls \cup {"reasoning_item", "native_tool"}

\* What nothing in the gateway marks, although some adapter drops it: strict
\* function tools, messages of the developer role, images in the output of a
\* function, metadata and previous_response_id.
Unmarked == {"strict", "developer", "image_output", "metadata", "previous_response_id"}

\* What the Responses route refuses: content parts and tools it does not know.
Unknown == {"image_part", "unknown_tool"}

Feature == Portable \cup {"tools"} \cup Native \cup Unmarked \cup Unknown

ASSUME CapabilitiesAssumption ==
  /\ Adapter \in [Provider -> Adapters]
  /\ Explicit \subseteq Provider
  /\ Declared \in [Explicit -> SUBSET Capability]

Asks(r, F) == r.features \cap F # {}

-----------------------------------------------------------------------------
RequiresNative_NoStore(r) == r.ingress = "responses" /\ Asks(r, Native \ {"store"})
RequiresNative_AnyTool(r) == r.ingress = "responses" /\ Asks(r, Native \cup {"tools"})

\* controls.requires_native, of the controls only a Responses request has.
RequiresNative(r) == r.ingress = "responses" /\ Asks(r, Native)

RequiredCapabilities(r) ==
  {"text"}
    \cup {c \in {"tools"} : Asks(r, {"tools", "strict", "native_tool", "unknown_tool",
                                  "calls", "image_output"})}
    \cup {c \in {"reasoning"} :
            /\ r.ingress = "responses"
            /\ Asks(r, {"reasoning", "reasoning_item", "include_reasoning"})}
    \cup {c \in {"native_responses_tools"} :
            r.ingress = "responses" /\ Asks(r, {"native_tool"})}

\* The adapter can be given the request without a loss, as the router sees it.
ProtocolSupported(adapter, r) ==
  IF r.ingress # "responses"
    THEN adapter # "responses"
    ELSE /\ RequiresNative(r) => adapter = "responses"
         /\ ~(/\ adapter = "anthropic"
              /\ Asks(r, {"prompt_cache_key", "service_tier", "tool_choice",
                          "parallel_tool_calls", "store"}))

EffectiveCapabilities_ChatForAll(p) ==
  IF p \in Explicit THEN Declared[p] ELSE {"text", "tools"}

EffectiveCapabilities(p) ==
  IF p \in Explicit THEN Declared[p]
  ELSE IF Adapter[p] = "responses" THEN Capability
  ELSE {"text", "tools"}

SupportsRequest(p, r) ==
  /\ ProtocolSupported(Adapter[p], r)
  /\ RequiredCapabilities(r) \subseteq EffectiveCapabilities(p)

-----------------------------------------------------------------------------
(***************************************************************************)
(* Task classes.                                                           *)
(***************************************************************************)
TaskClass == {"text", "tool", "reasoning", "native_tool"}

ClassifyTask_AnyControls(r) ==
  IF r.ingress = "responses" /\ Asks(r, {"native_tool"}) THEN "native_tool"
  ELSE IF r.ingress = "responses" /\ Asks(r, Controls) THEN "reasoning"
  ELSE IF Asks(r, {"tools", "strict", "native_tool", "unknown_tool", "calls", "image_output"})
    THEN "tool"
  ELSE "text"

\* Reasoning that is only asked for by include is not looked at.
ClassifyTask(r) ==
  IF r.ingress = "responses" /\ Asks(r, {"native_tool"}) THEN "native_tool"
  ELSE IF r.ingress = "responses" /\ Asks(r, {"reasoning", "reasoning_item"}) THEN "reasoning"
  ELSE IF Asks(r, {"tools", "strict", "native_tool", "unknown_tool", "calls", "image_output"})
    THEN "tool"
  ELSE "text"

\* What a provider must be capable of to be scored for a class.
CapabilityFor(class) ==
  CASE class = "text"        -> "text"
    [] class = "tool"        -> "tools"
    [] class = "reasoning"   -> "reasoning"
    [] class = "native_tool" -> "native_responses_tools"

=============================================================================
