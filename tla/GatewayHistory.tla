---------------------------- MODULE GatewayHistory ----------------------------
(***************************************************************************)
(* Gateway with a record of what other requests do to a request that waits *)
(* or holds a ranking.  The history variables are written beside every     *)
(* step and never read by one: they say how far the two promises of the    *)
(* documentation that concurrent requests break (an open circuit is not    *)
(* called; a stream that got its header finds a provider) can be broken.   *)
(***************************************************************************)
EXTENDS Gateway

VARIABLES
  open_calls,  \* calls of each provider since its circuit was last closed
  promised,    \* what ensure_eligible found for an admitted stream
  touched      \* providers called or failed by others since it was admitted

historyVars == <<vars, open_calls, promised, touched>>

HistoryInit ==
  /\ Init
  /\ open_calls = [p \in Provider |-> 0]
  /\ promised = [s \in Slot |-> {}]
  /\ touched = [s \in Slot |-> {}]

\* In this step a request is sent to p.
Called(p) == \E s \in Slot : current'[s] = p /\ current[s] # p

\* In this step a failure opens the circuit of p or keeps it open longer.
Tripped(p) == circuit_left'[p] > circuit_left[p]

RecordOpenCalls ==
  open_calls' =
    [p \in Provider |->
       IF circuit_left'[p] = 0 THEN 0
       ELSE IF Called(p) /\ ~Available(p) THEN open_calls[p] + 1
                                         ELSE open_calls[p]]

Waits(s) == phase[s] = "admitted" /\ phase'[s] = "admitted"

RecordPromises ==
  /\ promised' =
       [s \in Slot |->
          IF phase'[s] # "admitted" THEN {}
          ELSE IF Waits(s) THEN promised[s] ELSE Ranked(compatible'[s])]
  /\ touched' =
       [s \in Slot |->
          IF Waits(s) THEN touched[s] \cup {p \in Provider : Called(p) \/ Tripped(p)}
                      ELSE {}]

HistoryNext == Next /\ RecordOpenCalls /\ RecordPromises

HistorySpec == HistoryInit /\ [][HistoryNext]_historyVars

HistoryTypeOK ==
  /\ TypeOK
  /\ open_calls \in [Provider -> Nat]
  /\ promised \in [Slot -> SUBSET Provider]
  /\ touched \in [Slot -> SUBSET Provider]

-----------------------------------------------------------------------------
\* ADR 0002 excludes a provider whose circuit is open until the cooldown
\* expires.  A fallback on a ranking made before an await does call a provider
\* whose circuit has opened in the meantime, but, however often late failures
\* restart the cooldown, less often than there are requests in progress
\* until the circuit is available again.
OpenCallsBounded ==
  \A p \in Provider : open_calls[p] <= Cardinality(Slot) - 1

\* The request whose failure opens a circuit does not hold that provider any
\* more, and none begins to while the circuit is open.
OpenCallsHeld ==
  \A p \in Provider :
    ~Available(p) => open_calls[p] + Cardinality(Holders(p)) <= Cardinality(Slot) - 1

\* ARCHITECTURE.md: eligibility is checked before the streaming header, but
\* stream() ranks again.
\* A stream that is turned away after its 200 header was promised at least
\* one provider, and other requests have called or failed every provider it
\* was promised since then: neither time nor its own profile, nor a check
\* weaker than the ranking, takes a promised provider away.
DropIsExplained ==
  [][\A s \in Slot :
       phase[s] = "admitted" /\ phase'[s] = "dropped" =>
         promised[s] # {} /\ promised[s] \subseteq touched[s]]_historyVars

\* What carries it: a promised provider nobody has touched is still feasible.
PromiseKept ==
  \A s \in Slot :
    phase[s] = "admitted" =>
      /\ promised[s] # {}
      /\ promised[s] \subseteq compatible[s]
      /\ \A p \in promised[s] \ touched[s] : Feasible(p)

=============================================================================
