-------------------------- MODULE FirstAcceptable --------------------------
(***************************************************************************)
(* What a fixed-time prover promises: asked for a response, it eventually  *)
(* leaves the first acceptable candidate in the caller's buffer, or        *)
(* nothing at all there and an error.  What the buffer held before does    *)
(* not matter, and nobody relies on it while the call runs.                *)
(***************************************************************************)
EXTENDS Integers

CONSTANTS
  Requests,           \* [s, tau]
  Ceiling,
  Candidate(_, _),    \* the proof of a request at an iteration
  Acceptable(_),
  Nothing,            \* the wiped buffer
  InUse, NoCall

VARIABLES
  request,   \* the last one, or NoCall
  buffer,
  outcome    \* "running" or what the call returned

absvars == <<request, buffer, outcome>>

Good(r) == {i \in 0 .. Ceiling - 1 : Acceptable(Candidate(r, i))}

Least(S) == CHOOSE i \in S : \A j \in S : i <= j

Init == request = NoCall /\ buffer = Nothing /\ outcome = "none"

Ask ==
  /\ outcome # "running"
  /\ request' \in Requests
  /\ buffer' = InUse
  /\ outcome' = "running"

Answer ==
  /\ outcome = "running"
  /\ LET good == Good(request)
     IN  IF good = {}
         THEN buffer' = Nothing /\ outcome' = "AllIterationsRejected"
         ELSE buffer' = Candidate(request, Least(good)) /\ outcome' = "Ok"
  /\ UNCHANGED request

Next == Ask \/ Answer

Answered == outcome = "running" ~> outcome # "running"

Spec == Init /\ [][Next]_absvars /\ Answered
=============================================================================
