------------------------------ MODULE Outcome ------------------------------
(***************************************************************************)
(* What a call of the library returns: a value, or one of a closed set of  *)
(* errors (src/src/identity_error.rs), and what becomes of an error on its *)
(* way out (the From impls there and in src/src/component.rs).             *)
(***************************************************************************)

Ok(value)   == [ok |-> value]
Err(error)  == [error |-> error]
IsOk(r)     == "ok" \in DOMAIN r

(* Errors the envelopes distinguish, which the component does not export.  *)
WireErrors == {"WireBadMagic", "WireBadVersion", "WireLengthMismatch", "CoefficientOutOfRange"}

SaapValidationErrors == {"NormBoundViolation", "ChallengeMismatch", "InvalidAttributeCommitment"}

WitErrors ==
  {"InvalidInputLength", "SerializationError", "RejectionSamplingFailed",
   "ThresholdNotMet", "InvalidShareSet"} \cup SaapValidationErrors

IdentityErrors == WitErrors \cup WireErrors

(* map_err(Into::into) at the component boundary.                          *)
ToWit(r) ==
  IF IsOk(r) \/ r.error \notin WireErrors THEN r ELSE Err("SerializationError")
=============================================================================
