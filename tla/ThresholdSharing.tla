-------------------------- MODULE ThresholdSharing --------------------------
(***************************************************************************)
(* What threshold sharing promises the party that collects shares.  A      *)
(* share is either one of a deal, known by its index, or foreign: altered  *)
(* or never dealt.  Asked under the root of a deal, the collector gets the *)
(* secret of exactly that deal if the tray holds at least THRESHOLD_K      *)
(* shares of it and nothing else, none of them twice; in every other case  *)
(* it gets an error and no bytes, ThresholdNotMet exactly when there are   *)
(* too few shares.                                                         *)
(***************************************************************************)
EXTENDS Integers, SequencesExt

CONSTANTS
  Deals,         \* [secret, nonce] of every call of the dealer
  Splittable,    \* the deals whose secret has an acceptable length
  THRESHOLD_K, TOTAL_SHARES,
  Foreign,       \* a share of no deal
  NoAnswer

VARIABLES
  dealt,   \* deals that were split
  tray,    \* shares collected, in order
  answer   \* what the last call returned

absvars == <<dealt, tray, answer>>

Tokens == [deal : Deals, index : 1 .. TOTAL_SHARES]

AllOf(d) ==
  /\ Len(tray) >= THRESHOLD_K
  /\ \A i \in DOMAIN tray : tray[i] \in Tokens /\ tray[i].deal = d
  /\ \A i, j \in DOMAIN tray : i # j => tray[i] # tray[j]

Split ==
  \E d \in Deals :
    /\ IF d \in Splittable
       THEN dealt' = dealt \cup {d} /\ answer' = NoAnswer
       ELSE dealt' = dealt /\ answer' = [of |-> d, result |-> [error |-> "InvalidInputLength"]]
    /\ UNCHANGED tray

Collect ==
  /\ tray' # <<>>
  /\ Front(tray') = tray
  /\ Last(tray') \in Tokens \cup {Foreign}
  /\ answer' = NoAnswer
  /\ UNCHANGED dealt

Discard == tray' = <<>> /\ answer' = NoAnswer /\ UNCHANGED dealt

Reconstruct ==
  \E d \in dealt :
    /\ \/ AllOf(d) /\ answer' = [of |-> d, result |-> [ok |-> d.secret]]
       \/ /\ ~ AllOf(d)
          /\ \E error \in {"ThresholdNotMet", "InvalidShareSet", "SerializationError"} :
               /\ error = "ThresholdNotMet" <=> Len(tray) < THRESHOLD_K
               /\ answer' = [of |-> d, result |-> [error |-> error]]
    /\ UNCHANGED <<dealt, tray>>

Init == dealt = {} /\ tray = <<>> /\ answer = NoAnswer

Next == Collect \/ Discard \/ Reconstruct \/ Split

Spec == Init /\ [][Next]_absvars
=============================================================================
