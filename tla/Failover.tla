------------------------------ MODULE Failover ------------------------------
(***************************************************************************)
(* What the gateway promises one client about failover, with no circuits,  *)
(* quotas, ranking or clock in it (ARCHITECTURE.md, "Failure policy" and   *)
(* "Streaming"): the providers a request is sent to all support it, none   *)
(* is tried twice and at most MaxAttempts are tried, and once the client   *)
(* has read content from one of them no other is tried.                    *)
(*                                                                         *)
(* Gateway implements this specification (Gateway!Contract).               *)
(***************************************************************************)
EXTENDS Naturals, FiniteSets

CONSTANTS Slot, Provider, MaxAttempts, NoProvider

VARIABLES
  open,        \* slots whose request has not been answered yet
  compatible,  \* providers that support the slot's request
  current,     \* provider the slot's request is waiting for
  tried,       \* providers the slot's request has been sent to
  voices       \* providers whose content the slot's client has read

vars == <<open, compatible, current, tried, voices>>

Init ==
  /\ open = {}
  /\ compatible = [s \in Slot |-> {}]
  /\ current = [s \in Slot |-> NoProvider]
  /\ tried = [s \in Slot |-> {}]
  /\ voices = [s \in Slot |-> {}]

\* A new request is accepted and not sent anywhere yet.
Accept(s) ==
  /\ s \notin open
  /\ open' = open \cup {s}
  /\ \E C \in SUBSET Provider : compatible' = [compatible EXCEPT ![s] = C]
  /\ UNCHANGED <<current, tried, voices>>

\* The request, new or accepted earlier, is sent to p.
Attempt(s, p) ==
  /\ open' = open \cup {s}
  /\ IF s \in open
       THEN UNCHANGED compatible
       ELSE \E C \in SUBSET Provider : compatible' = [compatible EXCEPT ![s] = C]
  /\ p \in compatible'[s] \ tried[s]
  /\ Cardinality(tried[s]) < MaxAttempts
  /\ voices[s] = {}
  /\ current' = [current EXCEPT ![s] = p]
  /\ tried' = [tried EXCEPT ![s] = @ \cup {p}]
  /\ UNCHANGED voices

\* The client reads content of the provider the request is waiting for.
Speak(s) ==
  /\ s \in open
  /\ current[s] # NoProvider
  /\ voices' = [voices EXCEPT ![s] = {current[s]}]
  /\ UNCHANGED <<open, compatible, current, tried>>

\* The request is answered, refused or abandoned.
Settle(s) ==
  /\ s \in open
  /\ open' = open \ {s}
  /\ compatible' = [compatible EXCEPT ![s] = {}]
  /\ current' = [current EXCEPT ![s] = NoProvider]
  /\ tried' = [tried EXCEPT ![s] = {}]
  /\ voices' = [voices EXCEPT ![s] = {}]

Next ==
  \E s \in Slot :
    \/ Accept(s)
    \/ \E p \in Provider : Attempt(s, p)
    \/ Speak(s)
    \/ Settle(s)

Spec == Init /\ [][Next]_vars

=============================================================================
