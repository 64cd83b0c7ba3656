------------------------- MODULE CompatibilityProofs -------------------------
(***************************************************************************)
(* Proofs about Compatibility, for any configured providers and requests.  *)
(***************************************************************************)
EXTENDS Compatibility, TLAPS

\* A request that is past validation asks for nothing the route refuses, and
\* the router lets only providers that support it through.
RoutedInv ==
  /\ stage \notin {"received", "invalid"} /\ request.ingress = "responses" =>
       ~Asks(request, Unknown)
  /\ stage \in {"received", "normalized", "invalid"} => candidates = {} /\ tried = {}
  /\ stage = "refused" => candidates = {} /\ tried = {}
                            /\ \A p \in available : ~SupportsRequest(p, request)
  /\ \A p \in candidates \cup tried : SupportsRequest(p, request)
  /\ \A p \in tried : sent[p] = Payload(p, request)

CompatibilityInv == TypeOK /\ RoutedInv

\* A request starts with nothing ranked and nothing sent.
LEMMA InitInv == Init => CompatibilityInv
  BY DEF Init, CompatibilityInv, TypeOK, RoutedInv

\* Every step keeps the invariant: only ranked providers are sent anything.
LEMMA StepInv == CompatibilityInv /\ [Next]_vars => CompatibilityInv'
  <1> SUFFICES ASSUME CompatibilityInv, [Next]_vars PROVE CompatibilityInv'
    OBVIOUS
  <1> USE DEF CompatibilityInv
  <1>1. CASE Normalize
    BY <1>1 DEF Normalize, TypeOK, RoutedInv
  <1>2. ASSUME NEW A \in SUBSET Provider, Rank(A) PROVE CompatibilityInv'
    BY <1>2 DEF Rank, TypeOK, RoutedInv
  <1>3. ASSUME NEW p \in Provider, Try(p) PROVE CompatibilityInv'
    <2>1. /\ p \in candidates /\ p \in available
          /\ tried' = tried \cup {p}
          /\ candidates' = candidates \ {p}
          /\ sent' = [sent EXCEPT ![p] = Payload(p, request)]
          /\ stage = "sending"
          /\ UNCHANGED <<request, stage, available>>
      BY <1>3 DEF Try, TypeOK
    <2>2. Payload(p, request) \in SUBSET request.features
      BY DEF Payload
    <2>3. TypeOK'
      BY <2>1, <2>2 DEF TypeOK
    <2>4. \A q \in tried' : sent'[q] = Payload(q, request)
      BY <2>1 DEF TypeOK, RoutedInv
    <2>5. RoutedInv'
      BY <2>1, <2>4 DEF RoutedInv
    <2> QED
      BY <2>3, <2>5
  <1>4. CASE End
    BY <1>4 DEF End, TypeOK, RoutedInv
  <1>5. CASE UNCHANGED vars
    BY <1>5 DEF vars, TypeOK, RoutedInv
  <1> QED
    BY <1>1, <1>2, <1>3, <1>4, <1>5 DEF Next

\* The invariant holds throughout.
LEMMA InvAlways == Spec => []CompatibilityInv
  BY InitInv, StepInv, PTL DEF Spec

\* The variables keep to their types, and a payload says nothing the client
\* did not ask for.
THEOREM CompatibilityTypeCorrect == Spec => []TypeOK
  BY InvAlways, PTL DEF CompatibilityInv

-----------------------------------------------------------------------------
\* What a provider that supports a valid request of promised features is sent
\* is the whole request.
LEMMA SupportedIsLossless ==
  ASSUME NEW p \in Provider, NEW r \in Requests,
         r.features \subseteq Promised(r.ingress),
         r.ingress = "responses" => ~Asks(r, Unknown),
         SupportsRequest(p, r)
  PROVE  Payload(p, r) = r.features
  <1>1. Adapter[p] \in Adapters /\ r.ingress \in Ingress
    BY CapabilitiesAssumption, CompatibilityAssumption
  <1>2. ProtocolSupported(Adapter[p], r)
    BY DEF SupportsRequest
  <1>3. CASE r.ingress # "responses"
    <2>1. Adapter[p] \in {"openai", "anthropic"}
      BY <1>1, <1>2, <1>3 DEF ProtocolSupported, Adapters
    <2>2. r.features \subseteq Portable \cup {f \in {"tools"} : r.ingress # "messages"}
      BY <1>3 DEF Promised
    <2> QED
      BY <2>1, <2>2 DEF Payload, CanSay, ChatPayload, MessagesPayload, ResponsesPayload
  <1>4. CASE r.ingress = "responses" /\ Adapter[p] = "responses"
    <2>1. r.features \subseteq Feature \ {"previous_response_id"}
      BY <1>4 DEF Promised, Feature, Portable, Native, Controls, Unknown
    <2> QED
      BY <1>4, <2>1 DEF Payload, CanSay, ChatPayload, MessagesPayload, ResponsesPayload
  <1>5. CASE r.ingress = "responses" /\ Adapter[p] # "responses"
    <2>1. r.features \cap Native = {}
      BY <1>2, <1>5 DEF ProtocolSupported, RequiresNative, Asks
    <2>2. r.features \subseteq Portable \cup {"tools"}
      BY <1>5, <2>1 DEF Promised, Asks
    <2> QED
      BY <1>1, <1>5, <2>2 DEF Payload, CanSay, ChatPayload, MessagesPayload, ResponsesPayload, Adapters
  <1> QED
    BY <1>3, <1>4, <1>5

\* No promised feature is lost on the way to any provider a request is sent
\* to (NothingLost).
THEOREM LosslessRouting ==
  ASSUME \A r \in Requests : r.features \subseteq Promised(r.ingress)
  PROVE  Spec => []NothingLost
  <1>1. CompatibilityInv => NothingLost
    <2> SUFFICES ASSUME CompatibilityInv, NEW p \in tried
                 PROVE  sent[p] = request.features
      BY DEF NothingLost
    <2> USE DEF CompatibilityInv
    <2>1. /\ p \in Provider /\ request \in Requests
          /\ SupportsRequest(p, request)
          /\ sent[p] = Payload(p, request)
          /\ stage \notin {"received", "invalid"}
      BY DEF TypeOK, RoutedInv
    <2>2. request.ingress = "responses" => ~Asks(request, Unknown)
      BY <2>1 DEF RoutedInv
    <2>3. request.features \subseteq Promised(request.ingress)
      BY <2>1
    <2> QED
      BY <2>1, <2>2, <2>3, SupportedIsLossless
  <1> QED
    BY <1>1, InvAlways, PTL

\* Capabilities that were not declared exclude no provider that the protocol
\* of the request allows (DefaultsRefuseNothing).
LEMMA DefaultsSuffice ==
  ASSUME NEW p \in Provider \ Explicit, NEW r \in Requests,
         r.ingress # "responses" => ~Asks(r, {"native_tool"}),
         ProtocolSupported(Adapter[p], r)
  PROVE  SupportsRequest(p, r)
  <1>1. CASE Adapter[p] = "responses"
    BY <1>1 DEF SupportsRequest, EffectiveCapabilities, RequiredCapabilities, Capability
  <1>2. CASE Adapter[p] # "responses"
    <2>1. ~RequiresNative(r)
      BY <1>2 DEF ProtocolSupported, RequiresNative
    <2>2. RequiredCapabilities(r) \subseteq {"text", "tools"}
      BY <2>1 DEF RequiredCapabilities, RequiresNative, Asks, Native, Controls
    <2>3. EffectiveCapabilities(p) = {"text", "tools"}
      BY <1>2 DEF EffectiveCapabilities
    <2> QED
      BY <2>2, <2>3 DEF SupportsRequest
  <1> QED
    BY <1>1, <1>2

\* The capabilities derived from an adapter (effective_capabilities) exclude no
\* provider that _supports_request allows by protocol.
THEOREM DefaultsAreNoRestriction ==
  ASSUME \A r \in Requests : r.features \subseteq Promised(r.ingress)
  PROVE  Spec => []DefaultsRefuseNothing
  <1>1. CompatibilityInv => DefaultsRefuseNothing
    <2> SUFFICES ASSUME CompatibilityInv, NEW p \in Provider \ Explicit,
                        ProtocolSupported(Adapter[p], request)
                 PROVE  SupportsRequest(p, request)
      BY DEF DefaultsRefuseNothing
    <2>1. request \in Requests
      BY DEF CompatibilityInv, TypeOK
    <2>2. request.features \subseteq Promised(request.ingress)
      BY <2>1
    <2>3. request.ingress # "responses" => ~Asks(request, {"native_tool"})
      BY <2>2 DEF Promised, Portable, Asks
    <2> QED
      BY <2>1, <2>3, DefaultsSuffice
  <1> QED
    BY <1>1, InvAlways, PTL

-----------------------------------------------------------------------------
\* A provider with default capabilities is passed over only if it would lose
\* some of a Responses request.
LEMMA PassedOverLoses ==
  ASSUME NEW p \in Provider \ Explicit, NEW r \in Requests,
         r.ingress = "responses", ~SupportsRequest(p, r)
  PROVE  Payload(p, r) # r.features
  <1>1. Adapter[p] \in Adapters
    BY CapabilitiesAssumption, CompatibilityAssumption
  <1>2. ~ProtocolSupported(Adapter[p], r)
    BY DefaultsSuffice
  <1>3. Adapter[p] # "responses" /\ Asks(r, Native)
    BY <1>2 DEF ProtocolSupported, RequiresNative, Asks, Native, Controls
  <1>4. PICK f \in Native : f \in r.features
    BY <1>3 DEF Asks
  <1>5. f \notin CanSay(Adapter[p], r.ingress)
    BY <1>1, <1>3 DEF CanSay, ChatPayload, MessagesPayload, Adapters, Portable, Native, Controls
  <1> QED
    BY <1>4, <1>5 DEF Payload

\* A Responses request is refused only if every available provider with the
\* default capabilities would have lost some of it (RefusalJustified).
THEOREM RefusalsAreJustified == Spec => []RefusalJustified
  <1>1. CompatibilityInv => RefusalJustified
    <2> SUFFICES ASSUME CompatibilityInv, stage = "refused",
                        request.ingress = "responses", NEW p \in available \ Explicit
                 PROVE  Payload(p, request) # request.features
      BY DEF RefusalJustified
    <2>1. p \in Provider \ Explicit /\ request \in Requests /\ ~SupportsRequest(p, request)
      BY DEF CompatibilityInv, TypeOK, RoutedInv
    <2> QED
      BY <2>1, PassedOverLoses
  <1> QED
    BY <1>1, InvAlways, PTL

-----------------------------------------------------------------------------
\* classify_task claims no more of a request than required_capabilities asks
\* of a provider.
LEMMA ClassIsRequired ==
  ASSUME NEW r \in Requests
  PROVE  CapabilityFor(ClassifyTask(r)) \in RequiredCapabilities(r)
  <1>1. CASE ClassifyTask(r) = "native_tool"
    BY <1>1 DEF ClassifyTask, CapabilityFor, RequiredCapabilities
  <1>2. CASE ClassifyTask(r) = "reasoning"
    BY <1>2 DEF ClassifyTask, CapabilityFor, RequiredCapabilities, Asks
  <1>3. CASE ClassifyTask(r) = "tool"
    BY <1>3 DEF ClassifyTask, CapabilityFor, RequiredCapabilities
  <1>4. CASE ClassifyTask(r) = "text"
    BY <1>4 DEF ClassifyTask, CapabilityFor, RequiredCapabilities
  <1> QED
    BY <1>1, <1>2, <1>3, <1>4 DEF ClassifyTask

\* Every provider a request is sent to is capable of the task class its quality
\* would be looked up under (ClassWithinCapabilities).
THEOREM ClassesAreServed == Spec => []ClassWithinCapabilities
  <1>1. CompatibilityInv => ClassWithinCapabilities
    BY ClassIsRequired
       DEF CompatibilityInv, TypeOK, RoutedInv, SupportsRequest, ClassWithinCapabilities
  <1> QED
    BY <1>1, InvAlways, PTL

=============================================================================
