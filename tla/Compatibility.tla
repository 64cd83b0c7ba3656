---------------------------- MODULE Compatibility ----------------------------
(***************************************************************************)
(* The protocol boundary: which providers a request may be routed to, and  *)
(* what of it reaches them.  A request comes in by one of three ingress    *)
(* protocols and asks for features: controls, tools, kinds of input.  The  *)
(* Responses route validates it and marks what only a native provider can  *)
(* take (protocols/responses_validation.py, responses_native.py); the      *)
(* router matches protocol and capabilities (routing/router.py); the       *)
(* adapter of each provider that is tried builds an upstream payload       *)
(* (providers/).  The three were written apart and must agree.             *)
(*                                                                         *)
(* The model a request names, circuits and quotas decide which providers   *)
(* are available here; Gateway models the last two.                        *)
(***************************************************************************)
EXTENDS Capabilities

CONSTANT Requests  \* the requests clients make

\* What docs/product-specs/compatibility.md lists as supported (of Anthropic
\* Messages clients text conversations, so no tools), or the code refuses.
Promised(ingress) ==
  Portable \cup {f \in {"tools"} : ingress # "messages"}
           \cup {f \in Native \cup Unknown : ingress = "responses"}

ASSUME CompatibilityAssumption ==
  Requests \subseteq [ingress : Ingress, features : SUBSET Feature]

VARIABLES
  request,     \* the request a route handles
  stage,       \* "received", "normalized", "sending"; "invalid" (400),
               \* "refused" (503) or "over"
  available,   \* providers that have the model, a closed circuit and quota left
  candidates,  \* ranked and not tried yet
  tried,       \* history: the providers the request was sent to
  sent         \* history: the features in the payloads they got

vars == <<request, stage, available, candidates, tried, sent>>

TypeOK ==
  /\ request \in Requests
  /\ stage \in {"received", "normalized", "sending", "invalid", "refused", "over"}
  /\ available \in SUBSET Provider
  /\ candidates \in SUBSET available
  /\ tried \in SUBSET available
  /\ sent \in [Provider -> SUBSET request.features]

Init ==
  /\ request \in Requests
  /\ stage = "received"
  /\ available = {}
  /\ candidates = {}
  /\ tried = {}
  /\ sent = [p \in Provider |-> {}]

-----------------------------------------------------------------------------
(***************************************************************************)
(* What the payload of each adapter can say, whatever the router thinks of *)
(* it.                                                                     *)
(***************************************************************************)

\* Tool definitions are converted if their type is "function": those of an
\* Anthropic client have none, so the upstream gets them as they are, which
\* is no function tool to it.
ChatPayload(ingress) ==
  Portable \cup {f \in {"tools", "strict"} : ingress # "messages"}

\* Tools are converted, or are in this form already.  There is no place in it
\* for strict.
MessagesPayload == Portable \cup {"tools"}

\* The raw input and every control of the request.
ResponsesPayload == Feature \ {"previous_response_id"}

CanSay(adapter, ingress) ==
  CASE adapter = "openai"    -> ChatPayload(ingress)
    [] adapter = "anthropic" -> MessagesPayload
    [] adapter = "responses" -> ResponsesPayload

Payload_Everything(p, r) == CanSay(Adapter[p], r.ingress)

Payload(p, r) == r.features \cap CanSay(Adapter[p], r.ingress)

-----------------------------------------------------------------------------
\* Parsing; the Responses route validates first.
Normalize ==
  /\ stage = "received"
  /\ stage' = IF request.ingress = "responses" /\ Asks(request, Unknown)
                THEN "invalid" ELSE "normalized"
  /\ UNCHANGED <<request, available, candidates, tried, sent>>

\* Router.rank, for a request and the providers that are available.
Rank(A) ==
  /\ stage = "normalized"
  /\ available' = A
  /\ candidates' = {p \in A : SupportsRequest(p, request)}
  /\ stage' = IF candidates' = {} THEN "refused" ELSE "sending"
  /\ UNCHANGED <<request, tried, sent>>

\* The next provider is tried, the first or after a failure of the last.
Try(p) ==
  /\ stage = "sending"
  /\ p \in candidates
  /\ candidates' = candidates \ {p}
  /\ tried' = tried \cup {p}
  /\ sent' = [sent EXCEPT ![p] = Payload(p, request)]
  /\ UNCHANGED <<request, stage, available>>

\* The last provider tried answers, or failover ends.
End ==
  /\ stage = "sending"
  /\ tried # {}
  /\ stage' = "over"
  /\ UNCHANGED <<request, available, candidates, tried, sent>>

Next ==
  \/ Normalize
  \/ \E A \in SUBSET Provider : Rank(A)
  \/ \E p \in Provider : Try(p)
  \/ End

Spec == Init /\ [][Next]_vars

-----------------------------------------------------------------------------
\* "Rather than silently sending a downgraded request": every provider a
\* request is sent to gets all of it, the fallbacks as well as the first.
NothingLost == \A p \in tried : sent[p] = request.features

\* A Responses request is not refused for want of a provider while one with
\* the default capabilities could have been sent all of it: what makes a
\* request native-only is no more than what the translating adapters lose.
RefusalJustified ==
  stage = "refused" /\ request.ingress = "responses" =>
    \A p \in available \ Explicit : Payload(p, request) # request.features

\* Capabilities are a restriction only where they are declared: those derived
\* from the adapter exclude no provider that the protocol allows.
DefaultsRefuseNothing ==
  stage # "received" /\ stage # "invalid" =>
    \A p \in Provider \ Explicit :
      ProtocolSupported(Adapter[p], request) => SupportsRequest(p, request)

\* The task class a request is scored under is one that every provider it is
\* sent to is capable of: classify_task (quality.py) never claims more of a
\* request than required_capabilities (router.py) asked of the provider.
ClassWithinCapabilities ==
  \A p \in tried : CapabilityFor(ClassifyTask(request)) \in EffectiveCapabilities(p)

=============================================================================
