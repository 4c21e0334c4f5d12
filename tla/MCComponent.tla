---------------------------- MODULE MCComponent ----------------------------
(***************************************************************************)
(* Component over the instance of CredentialInstance, with two handles.    *)
(* Two entropy strings give two identities; a third secret, known only to  *)
(* the host, shares its first component with one of them.                  *)
(***************************************************************************)
EXTENDS Component, CredentialInstance

(* "short" stands in every kind of input for one that is not long enough.  *)
MCLength(bytes) ==
  CASE bytes = "short" -> 31
    [] bytes = "long purpose" -> 256
    [] bytes = "" -> 0
    [] OTHER -> 32

MCPlpSeed(entropy)  == IF entropy = "entropy1" THEN "alice" ELSE "bob"
MCPublicSeed(seed)  == IF seed = "seed1" THEN "issuer1" ELSE "issuer2"

MCVecWords(v)  == v
MCVecOf(words) == words
MCWords(a)     == <<a>>
MCOf(words)    == words[1]

(* A projection and a proof of one secret, or that differ in one argument. *)
Comparable(a, b) ==
  Cardinality({f \in {"by", "ctx", "rho"} : a[f] # b[f]}) <= 1

(* No property relates more than two returned values, nor values of other  *)
(* kinds than these; and only presentations depend on a credential.        *)
MCWithin(cred, calls) ==
  LET ops == {call.op : call \in calls}
  IN  \/ Cardinality(calls) <= 1 /\ (cred # None => ops \subseteq {"present"})
      \/ /\ Cardinality(calls) = 2 /\ cred = None
         /\ \/ ops = {"seal"}
            \/ ops = {"project", "prove"} /\ \A a, b \in calls : Comparable(a, b)

HandleSymmetry == Permutations(Handle)
=============================================================================
