---------------------------- MODULE MCCredential ----------------------------
(***************************************************************************)
(* Credential over the instance of CredentialInstance, with a bound on the *)
(* calls: every single way to be wrong, and every pair of calls with one   *)
(* difference.                                                             *)
(***************************************************************************)
EXTENDS Credential, CredentialInstance

(* In how many of its arguments a call is not what the credential asks for. *)
Slips(in) ==
  Cardinality({x \in {<<1, in.issuer = credential.by_issuer>>, <<2, in.by = in.proj.by>>,
                      <<3, in.by = credential.to>>, <<4, in.ctx = in.proj.ctx>>,
                      <<5, in.rho = in.proj.rho>>} : ~ x[2]})

Fields == {"issuer", "blinded", "by", "proj", "ctx", "rho", "disclosed", "rand"}

(* A first call has at most one slip.  A second one follows a call without *)
(* slips and differs from it in one argument.                              *)
MCCallWithin(in, earlier) ==
  /\ Slips(in) <= 1
  /\ Cardinality(earlier) <= 1
  /\ \A other \in earlier :
       Slips(other) = 0 /\ Cardinality({f \in Fields : in[f] # other[f]}) <= 1
=============================================================================
