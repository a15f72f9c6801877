------------------------------ MODULE LaneGate ------------------------------
(***************************************************************************)
(* What a run budget promises about counts, without a ledger: each lane    *)
(* admits calls while fewer than Limit are in flight or done; a call that  *)
(* fails gives its place back, a call that is done never does.             *)
(***************************************************************************)
EXTENDS Naturals, FiniteSets

CONSTANTS
    Lanes,
    Calls,    \* identities of calls, each used once
    Limit     \* lane -> how many calls it may make

VARIABLES
    inFlight, \* lane -> calls admitted and not ended
    done      \* lane -> calls that count against the limit for good

gate == <<inFlight, done>>

Init ==
    /\ inFlight = [l \in Lanes |-> {}]
    /\ done = [l \in Lanes |-> {}]

Admit(l, c) ==
    /\ \A m \in Lanes : c \notin inFlight[m] \cup done[m]
    /\ Cardinality(inFlight[l]) + Cardinality(done[l]) < Limit[l]
    /\ inFlight' = [inFlight EXCEPT ![l] = @ \cup {c}]
    /\ UNCHANGED done

GiveBack(l, c) ==
    /\ c \in inFlight[l]
    /\ inFlight' = [inFlight EXCEPT ![l] = @ \ {c}]
    /\ UNCHANGED done

Complete(l, c) ==
    /\ c \in inFlight[l]
    /\ inFlight' = [inFlight EXCEPT ![l] = @ \ {c}]
    /\ done' = [done EXCEPT ![l] = @ \cup {c}]

Next == \E l \in Lanes, c \in Calls : Admit(l, c) \/ GiveBack(l, c) \/ Complete(l, c)

Spec == Init /\ [][Next]_gate
=============================================================================
