--------------------------- MODULE RequestChannel ---------------------------
(***************************************************************************)
(* What the adapter's request() relies on, and what Layoutd assumes of a   *)
(* request: the requests of a session run one after the other, in the      *)
(* order they were sent, each at most once, and an answered one has run.   *)
(* An abandoned request may still run, but never after a newer one.        *)
(***************************************************************************)
EXTENDS Naturals

CONSTANT Requests   \* how many requests are sent, a natural number

VARIABLES
  sent,      \* the newest request
  outcome,   \* what became of it: "idle", "waiting", "answered" or "failed"
  ran        \* the newest request that ran

vars == <<sent, outcome, ran>>

Init == sent = 0 /\ outcome = "idle" /\ ran = 0

Send == /\ outcome # "waiting" /\ sent < Requests
        /\ sent' = sent + 1 /\ outcome' = "waiting"
        /\ UNCHANGED ran

Run == /\ ran' \in (ran + 1)..sent
       /\ UNCHANGED <<sent, outcome>>

Answer == /\ outcome = "waiting" /\ ran = sent
          /\ outcome' = "answered"
          /\ UNCHANGED <<sent, ran>>

Fail == /\ outcome = "waiting"
        /\ outcome' = "failed"
        /\ UNCHANGED <<sent, ran>>

Next == Send \/ Run \/ Answer \/ Fail

Spec == Init /\ [][Next]_vars
=============================================================================
