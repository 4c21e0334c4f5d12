----------------------------- MODULE Hypercube -----------------------------
(***************************************************************************)
(* Routing of share packets over a hypercube (HypercubeNetwork in          *)
(* src/src/htss.rs).  One call of route_payload_shares moves its packets   *)
(* to the destination one after the other; packet i follows the rotation   *)
(* of the dimensions that starts at i mod DIM and stops when it arrives.   *)
(* A node is the set of the dimensions in which its address has a one.     *)
(***************************************************************************)
EXTENDS Integers, SequencesExt, FiniteSets

CONSTANTS
  HYPERCUBE_DIM,
  MaxShares       \* bound: shares of one call

(* Nobody routes without dimensions; the code's has five.                  *)
ASSUME HypercubeAssumption == HYPERCUBE_DIM \in Nat \ {0} /\ MaxShares \in Nat

Dims  == 0 .. HYPERCUBE_DIM - 1
Nodes == SUBSET Dims

VARIABLES
  src, dst, count,  \* the arguments: endpoints, and how many shares
  pkt,              \* the packet being moved, 1 .. count
  route_index,      \* the next hop of its route
  trails,           \* the nodes each packet has visited, from the source on
  pc                \* "routing", "done" or "panicked"

vars == <<src, dst, count, pkt, route_index, trails, pc>>

(* A mutation: the bit above the dimension is flipped.                   *)
neighbor_OffByOne(node, dim) ==
  IF dim + 1 \in node THEN node \ {dim + 1} ELSE node \cup {dim + 1}

neighbor(node, dim) == IF dim \in node THEN node \ {dim} ELSE node \cup {dim}

(* A mutation: every route takes the dimensions in the same order.         *)
Route_Fixed(d_start) == [i \in 1 .. HYPERCUBE_DIM |-> i - 1]

Route(d_start) == [i \in 1 .. HYPERCUBE_DIM |-> (d_start + i - 1) % HYPERCUBE_DIM]

RouteOf(p) == Route((p - 1) % HYPERCUBE_DIM)

current_node == Last(trails[pkt])

(* A mutation: the walk never stops early, only at the end of the route.   *)
Arrived_AtEnd == route_index = HYPERCUBE_DIM

Arrived == current_node = dst

Init ==
  /\ src \in Nodes /\ dst \in Nodes /\ count \in 0 .. MaxShares
  /\ pkt = 1 /\ route_index = 0
  /\ trails = [p \in 1 .. count |-> <<src>>]
  /\ pc = "routing"

Hop ==
  /\ pc = "routing" /\ pkt <= count
  /\ ~ Arrived
  /\ route_index < HYPERCUBE_DIM
  /\ trails' = [trails EXCEPT ![pkt] =
                  Append(@, neighbor(current_node, RouteOf(pkt)[route_index + 1]))]
  /\ route_index' = route_index + 1
  /\ UNCHANGED <<src, dst, count, pkt, pc>>

(* The route has no next hop: indexing it ends the call in a panic.        *)
OffRoute ==
  /\ pc = "routing" /\ pkt <= count
  /\ ~ Arrived
  /\ route_index = HYPERCUBE_DIM
  /\ pc' = "panicked"
  /\ UNCHANGED <<src, dst, count, pkt, route_index, trails>>

(* A mutation: the outer loop does not advance to the next share.        *)
Deliver_SamePacket ==
  /\ pc = "routing" /\ pkt <= count
  /\ Arrived
  /\ route_index' = 0
  /\ UNCHANGED <<src, dst, count, pkt, trails, pc>>

Deliver ==
  /\ pc = "routing" /\ pkt <= count
  /\ Arrived
  /\ pkt' = pkt + 1 /\ route_index' = 0
  /\ UNCHANGED <<src, dst, count, trails, pc>>

Return ==
  /\ pc = "routing" /\ pkt = count + 1
  /\ pc' = "done"
  /\ UNCHANGED <<src, dst, count, pkt, route_index, trails>>

Next == Hop \/ OffRoute \/ Deliver \/ Return

(* The call is a loop of its caller's thread: it runs until it ends.       *)
Spec == Init /\ [][Next]_vars /\ WF_vars(Next)
-----------------------------------------------------------------------------
(***************************************************************************)
(* Properties.                                                             *)
(***************************************************************************)
TypeOK ==
  /\ src \in Nodes /\ dst \in Nodes /\ count \in 0 .. MaxShares
  /\ pkt \in 1 .. count + 1 /\ route_index \in 0 .. HYPERCUBE_DIM
  /\ DOMAIN trails = 1 .. count
  /\ \A p \in 1 .. count : Len(trails[p]) \in 1 .. HYPERCUBE_DIM + 1 /\ ToSet(trails[p]) \subseteq Nodes
  /\ pc \in {"routing", "done", "panicked"}

Between(p) == ToSet(trails[p]) \ {src, dst}

(* Packets on different routes meet at no node between the endpoints,      *)
(* whether or not they arrive.                                             *)
RoutesDisjoint ==
  \A p1, p2 \in 1 .. count :
    p1 # p2 /\ p1 <= HYPERCUBE_DIM /\ p2 <= HYPERCUBE_DIM => Between(p1) \cap Between(p2) = {}

Differing == (src \ dst) \cup (dst \ src)

(* The first n dimensions of the route of packet p.                        *)
Window(p, n) == {RouteOf(p)[i] : i \in 1 .. n}

Reachable(p) == \E n \in 0 .. HYPERCUBE_DIM : Differing = Window(p, n)

(* Exactly when a call returns: the dimensions in which the endpoints      *)
(* differ must be a prefix of every route used; then each packet takes one *)
(* hop per differing dimension.                                            *)
ReturnsExactly ==
  /\ pc = "done" => \A p \in 1 .. count :
       Reachable(p) /\ Len(trails[p]) = Cardinality(Differing) + 1 /\ Last(trails[p]) = dst
  /\ pc = "panicked" => \E p \in 1 .. count : ~ Reachable(p)

(* No call runs for ever.                                                  *)
Terminates == <>(pc # "routing")

(* docs/HTSS-TOPOLOGY.md:133 and 284: every path has the length of the     *)
(* Hamming distance, and the packets are delivered, for every source and   *)
(* destination.                                                            *)
NeverOffRoute == pc # "panicked"
=============================================================================
