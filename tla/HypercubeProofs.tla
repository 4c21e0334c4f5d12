-------------------------- MODULE HypercubeProofs --------------------------
(***************************************************************************)
(* Proofs about Hypercube for every dimension, every pair of endpoints and *)
(* every number of shares.                                                 *)
(***************************************************************************)
EXTENDS Hypercube, FiniteSetTheorems, TLAPS

(* The node whose address differs from src in the dimensions W.            *)
Flipped(W) == (src \ W) \cup (W \ src)

-----------------------------------------------------------------------------
(* Routes: rotations of the dimensions.                                    *)

(* The only remainder the routes take, without division.                   *)
LEMMA Remainder ==
  ASSUME NEW a \in Nat, a < 2 * HYPERCUBE_DIM
  PROVE  a % HYPERCUBE_DIM = IF a < HYPERCUBE_DIM THEN a ELSE a - HYPERCUBE_DIM
<1>1. HYPERCUBE_DIM \in Nat /\ HYPERCUBE_DIM > 0
  BY HypercubeAssumption
<1>2. \A d \in Nat : \A x \in Nat : x < d => x % d = x
  OBVIOUS
<1>3. \A d \in Nat : \A x \in Nat : d > 0 /\ d <= x /\ x < 2 * d => x % d = x - d
  OBVIOUS
<1> QED
  BY <1>1, <1>2, <1>3

LEMMA RouteCell ==
  ASSUME NEW s \in Dims, NEW i \in 1 .. HYPERCUBE_DIM
  PROVE  /\ Route(s)[i] = IF s + i - 1 < HYPERCUBE_DIM THEN s + i - 1 ELSE s + i - 1 - HYPERCUBE_DIM
         /\ Route(s)[i] \in Dims
<1>1. s + i - 1 \in Nat /\ s + i - 1 < 2 * HYPERCUBE_DIM
  BY HypercubeAssumption DEF Dims
<1>2. Route(s)[i] = (s + i - 1) % HYPERCUBE_DIM
  BY DEF Route
<1> QED
  BY <1>1, <1>2, Remainder, HypercubeAssumption DEF Dims

LEMMA RouteInjective ==
  ASSUME NEW s \in Dims, NEW i \in 1 .. HYPERCUBE_DIM, NEW j \in 1 .. HYPERCUBE_DIM,
         Route(s)[i] = Route(s)[j]
  PROVE  i = j
  BY RouteCell, HypercubeAssumption DEF Dims

LEMMA StartIsDim == \A p \in Nat \ {0} : (p - 1) % HYPERCUBE_DIM \in Dims
  BY HypercubeAssumption DEF Dims

(* Each of the first routes starts at a dimension of its own.              *)
LEMMA FirstStarts == \A p \in 1 .. HYPERCUBE_DIM : (p - 1) % HYPERCUBE_DIM = p - 1
  BY Remainder, HypercubeAssumption

(* One hop of a route adds one new dimension.                              *)
LEMMA WindowGrows ==
  ASSUME NEW p \in Nat \ {0}, NEW n \in 0 .. HYPERCUBE_DIM - 1
  PROVE  /\ Window(p, n + 1) = Window(p, n) \cup {RouteOf(p)[n + 1]}
         /\ RouteOf(p)[n + 1] \in Dims \ Window(p, n)
<1> DEFINE s == (p - 1) % HYPERCUBE_DIM
<1>1. s \in Dims
  BY StartIsDim
<1>2. n + 1 \in 1 .. HYPERCUBE_DIM /\ 1 .. n + 1 = (1 .. n) \cup {n + 1}
      /\ \A i \in 1 .. n : i \in 1 .. HYPERCUBE_DIM /\ i # n + 1
  BY HypercubeAssumption
<1> HIDE DEF s
<1>3. Route(s)[n + 1] \in Dims /\ \A i \in 1 .. n : Route(s)[i] # Route(s)[n + 1]
  BY <1>1, <1>2, RouteCell, RouteInjective
<1>4. RouteOf(p) = Route(s)
  BY DEF RouteOf, s
<1> QED
  BY <1>2, <1>3, <1>4 DEF Window

LEMMA WindowInDims ==
  ASSUME NEW p \in Nat \ {0}, NEW n \in 0 .. HYPERCUBE_DIM
  PROVE  Window(p, n) \subseteq Dims
<1>1. \A i \in 1 .. n : i \in 1 .. HYPERCUBE_DIM
  BY HypercubeAssumption
<1> QED
  BY <1>1, StartIsDim, RouteCell DEF Window, RouteOf

LEMMA WindowSize ==
  ASSUME NEW p \in Nat \ {0}, NEW n \in 0 .. HYPERCUBE_DIM
  PROVE  Cardinality(Window(p, n)) = n
<1> DEFINE s == (p - 1) % HYPERCUBE_DIM
           f == [i \in 1 .. n |-> RouteOf(p)[i]]
<1>1. s \in Dims /\ RouteOf(p) = Route(s)
  BY StartIsDim DEF RouteOf
<1>2. \A i \in 1 .. n : i \in 1 .. HYPERCUBE_DIM
  BY HypercubeAssumption
<1> HIDE DEF s
<1>3. \A i, j \in 1 .. n : f[i] = f[j] => i = j
  BY <1>1, <1>2, RouteInjective
<1>4. f \in Bijection(1 .. n, Window(p, n))
  BY <1>3 DEF Bijection, Injection, Surjection, IsInjective, Window
<1>5. ExistsBijection(1 .. n, Window(p, n))
  BY <1>4 DEF ExistsBijection
<1> QED
  BY <1>5, FS_CountingElements

(* A dimension is in the window if it comes soon enough after the start.   *)
LEMMA WindowMember ==
  ASSUME NEW p \in 1 .. HYPERCUBE_DIM, NEW n \in 0 .. HYPERCUBE_DIM, NEW d \in Dims
  PROVE  d \in Window(p, n) <=> (IF d >= p - 1 THEN d - (p - 1) ELSE d - (p - 1) + HYPERCUBE_DIM) < n
<1> DEFINE s == p - 1
           k == IF d >= s THEN d - s ELSE d - s + HYPERCUBE_DIM
<1>1. s \in Dims /\ RouteOf(p) = Route(s)
  BY FirstStarts, HypercubeAssumption DEF RouteOf, Dims
<1>2. k \in 0 .. HYPERCUBE_DIM - 1 /\ Route(s)[k + 1] = d
  BY <1>1, RouteCell, HypercubeAssumption DEF Dims
<1>3. \A i \in 1 .. n : i \in 1 .. HYPERCUBE_DIM
  BY HypercubeAssumption
<1>4. \A i \in 1 .. n : Route(s)[i] = d => i = k + 1
  BY <1>1, <1>2, <1>3, RouteInjective, HypercubeAssumption
<1> HIDE DEF s, k
<1>5. d \in Window(p, n) <=> k + 1 \in 1 .. n
  BY <1>1, <1>2, <1>4 DEF Window
<1>6. k + 1 \in 1 .. n <=> k < n
  BY <1>2
<1> QED
  BY <1>5, <1>6 DEF k, s

(* Different rotations agree on no proper part of the dimensions: the      *)
(* dimension before the start is in one of the windows and not the other.  *)
LEMMA WindowsDiffer ==
  ASSUME NEW p1 \in 1 .. HYPERCUBE_DIM, NEW p2 \in 1 .. HYPERCUBE_DIM, p1 # p2,
         NEW i \in 1 .. HYPERCUBE_DIM - 1, NEW j \in 1 .. HYPERCUBE_DIM
  PROVE  Window(p1, i) # Window(p2, j)
<1> DEFINE Before(p) == IF p = 1 THEN HYPERCUBE_DIM - 1 ELSE p - 2
<1>1. SUFFICES ASSUME Window(p1, i) = Window(p2, j) PROVE FALSE
  OBVIOUS
<1>2. /\ p1 - 1 \in Dims /\ p2 - 1 \in Dims /\ Before(p1) \in Dims /\ Before(p2) \in Dims
      /\ i \in 0 .. HYPERCUBE_DIM /\ j \in 0 .. HYPERCUBE_DIM
  BY HypercubeAssumption DEF Dims
<1>3. Before(p1) \notin Window(p1, i)
  BY <1>2, WindowMember, HypercubeAssumption
<1>4. CASE j = HYPERCUBE_DIM
  <2>1. Before(p1) \in Window(p2, j)
    BY <1>2, <1>4, WindowMember, HypercubeAssumption DEF Dims
  <2> QED
    BY <1>1, <1>3, <2>1
<1>5. CASE j # HYPERCUBE_DIM
  <2>1. Before(p2) \notin Window(p2, j)
    BY <1>2, <1>5, WindowMember, HypercubeAssumption
  <2>2. p2 - 1 \in Window(p2, j)
    BY <1>2, WindowMember, HypercubeAssumption
  <2>3. p2 - 1 \in Window(p1, i)
    BY <1>1, <2>2
  <2>4. Before(p2) \in Window(p1, i)
    BY <1>2, <2>3, WindowMember, HypercubeAssumption DEF Dims
  <2> QED
    BY <1>1, <2>1, <2>4
<1> QED
  BY <1>4, <1>5

-----------------------------------------------------------------------------
(* Flipping.                                                               *)

LEMMA FlippedInjective ==
  ASSUME NEW V, NEW W, Flipped(V) = Flipped(W)
  PROVE  V = W
  BY DEF Flipped

LEMMA FlipsToDst == ASSUME NEW W PROVE Flipped(W) = dst <=> Differing = W
  BY DEF Flipped, Differing

LEMMA NeighborFlips ==
  ASSUME NEW W, NEW d, d \notin W
  PROVE  neighbor(Flipped(W), d) = Flipped(W \cup {d})
  BY DEF neighbor, Flipped

LEMMA FlippedIsNode ==
  ASSUME src \in Nodes, NEW W \in SUBSET Dims
  PROVE  Flipped(W) \in Nodes
  BY DEF Flipped, Nodes

-----------------------------------------------------------------------------
(* The inductive invariant.  Every packet has walked a prefix of its own   *)
(* route, and met the destination nowhere before its last node.            *)
Typed ==
  /\ src \in Nodes /\ dst \in Nodes /\ count \in 0 .. MaxShares
  /\ pkt \in 1 .. count + 1 /\ route_index \in 0 .. HYPERCUBE_DIM
  /\ trails \in [1 .. count -> Seq(Nodes)]
  /\ pc \in {"routing", "done", "panicked"}

OnRoute ==
  \A p \in 1 .. count :
    /\ Len(trails[p]) \in 1 .. HYPERCUBE_DIM + 1
    /\ \A i \in 1 .. Len(trails[p]) : trails[p][i] = Flipped(Window(p, i - 1))

StopsAtDst ==
  \A p \in 1 .. count : \A i \in 1 .. Len(trails[p]) - 1 : trails[p][i] # dst

(* Those before the current packet have arrived, those after it have not   *)
(* left.                                                                   *)
InOrder ==
  /\ \A p \in 1 .. count : p < pkt => Last(trails[p]) = dst
  /\ \A p \in 1 .. count : p = pkt => Len(trails[p]) = route_index + 1
  /\ \A p \in 1 .. count : p > pkt => Len(trails[p]) = 1

Ended ==
  /\ pkt = count + 1 => route_index = 0
  /\ pc = "done" => pkt = count + 1
  /\ pc = "panicked" => pkt <= count /\ route_index = HYPERCUBE_DIM /\ Last(trails[pkt]) # dst

IInv == Typed /\ OnRoute /\ StopsAtDst /\ InOrder /\ Ended

LEMMA InitHolds == Init => IInv
<1> SUFFICES ASSUME Init PROVE IInv
  OBVIOUS
<1>1. \A p \in 1 .. count : trails[p] = <<src>>
  BY DEF Init
<1>2. Typed
  <2>1. trails \in [1 .. count -> Seq(Nodes)]
    BY DEF Init
  <2> QED
    BY <2>1, HypercubeAssumption DEF Init, Typed
<1>3. OnRoute
  <2>1. ASSUME NEW p \in 1 .. count PROVE Flipped(Window(p, 0)) = src
    BY DEF Flipped, Window
  <2>2. \A p \in 1 .. count : Len(trails[p]) = 1 /\ trails[p][1] = src
    BY <1>1
  <2>3. ASSUME NEW p \in 1 .. count, NEW i \in 1 .. Len(trails[p])
        PROVE  trails[p][i] = Flipped(Window(p, i - 1))
    <3>1. i \in 1 .. 1
      BY <2>2, Zenon
    <3>2. i = 1 /\ i - 1 = 0
      BY <3>1
    <3> QED
      BY <2>1, <2>2, <3>2, Zenon
  <2>4. 1 \in 1 .. HYPERCUBE_DIM + 1
    BY HypercubeAssumption
  <2> QED
    BY <2>2, <2>3, <2>4 DEF OnRoute
<1>4. StopsAtDst /\ InOrder /\ Ended
  BY <1>1, <1>2 DEF Init, Typed, StopsAtDst, InOrder, Ended
<1> QED
  BY <1>2, <1>3, <1>4 DEF IInv

(* What a hop appends, and where it stands then.                           *)
LEMMA HopExtends ==
  ASSUME IInv, Hop
  PROVE  LET trail == trails[pkt]
             node  == Flipped(Window(pkt, route_index + 1))
         IN  /\ pkt \in 1 .. count /\ trail \in Seq(Nodes) /\ node \in Nodes
             /\ Len(trail) = route_index + 1 /\ route_index < HYPERCUBE_DIM
             /\ trail[Len(trail)] # dst
             /\ trails' = [trails EXCEPT ![pkt] = Append(trail, node)]
<1>1. /\ pkt \in 1 .. count /\ pkt \in Nat \ {0} /\ trails[pkt] \in Seq(Nodes)
      /\ route_index \in 0 .. HYPERCUBE_DIM - 1
  BY HypercubeAssumption DEF IInv, Typed, Hop
<1>2. Len(trails[pkt]) = route_index + 1
  BY <1>1 DEF IInv, InOrder
<1>3. current_node = Flipped(Window(pkt, route_index)) /\ current_node # dst
  BY <1>1, <1>2 DEF IInv, OnRoute, Hop, Arrived, current_node, Last
<1>4. neighbor(current_node, RouteOf(pkt)[route_index + 1]) = Flipped(Window(pkt, route_index + 1))
  BY <1>1, <1>3, WindowGrows, NeighborFlips
<1>5. Flipped(Window(pkt, route_index + 1)) \in Nodes
  <2>1. route_index + 1 \in 0 .. HYPERCUBE_DIM
    BY <1>1, HypercubeAssumption
  <2>2. Window(pkt, route_index + 1) \in SUBSET Dims
    BY <1>1, <2>1, WindowInDims
  <2> QED
    BY <2>2, FlippedIsNode DEF IInv, Typed
<1>6. trails[pkt][Len(trails[pkt])] # dst
  BY <1>3 DEF current_node, Last
<1> QED
  BY <1>1, <1>2, <1>4, <1>5, <1>6 DEF Hop

LEMMA HopKeeps == ASSUME IInv, Hop PROVE IInv'
<1> DEFINE node == Flipped(Window(pkt, route_index + 1))
<1>1. /\ pkt \in 1 .. count /\ trails[pkt] \in Seq(Nodes) /\ node \in Nodes
      /\ Len(trails[pkt]) = route_index + 1 /\ route_index < HYPERCUBE_DIM
      /\ trails[pkt][Len(trails[pkt])] # dst
      /\ trails' = [trails EXCEPT ![pkt] = Append(trails[pkt], node)]
  BY HopExtends
<1>2. UNCHANGED <<src, dst, count, pkt, pc>> /\ route_index' = route_index + 1 /\ pc = "routing"
  BY DEF Hop
<1> HIDE DEF node
<1>4. Typed'
  BY <1>1, <1>2, HypercubeAssumption DEF IInv, Typed
<1>5. /\ trails'[pkt] = Append(trails[pkt], node)
      /\ \A p \in 1 .. count : p # pkt => trails'[p] = trails[p]
  BY <1>1 DEF IInv, Typed
<1>6. /\ Len(trails'[pkt]) = route_index + 2
      /\ trails'[pkt][route_index + 2] = node
      /\ \A i \in 1 .. route_index + 1 : trails'[pkt][i] = trails[pkt][i]
  <2>1. \A n \in Nat, s \in Seq(Nodes) : \A e \in Nodes : Len(s) = n + 1 =>
          /\ Len(Append(s, e)) = n + 2 /\ Append(s, e)[n + 2] = e
          /\ \A i \in 1 .. n + 1 : Append(s, e)[i] = s[i]
    OBVIOUS
  <2>2. route_index \in Nat
    BY HypercubeAssumption DEF IInv, Typed
  <2> QED
    BY <1>1, <1>5, <2>1, <2>2
<1>7. OnRoute'
  <2> SUFFICES ASSUME NEW p \in 1 .. count
               PROVE  /\ Len(trails'[p]) \in 1 .. HYPERCUBE_DIM + 1
                      /\ \A i \in 1 .. Len(trails'[p]) : trails'[p][i] = Flipped(Window(p, i - 1))'
    BY <1>2 DEF OnRoute
  <2>1. \A i : Flipped(Window(p, i))' = Flipped(Window(p, i))
    BY <1>2 DEF Flipped, Window, RouteOf, Route
  <2>2. CASE p # pkt
    BY <1>5, <2>1, <2>2 DEF IInv, OnRoute
  <2>3. CASE p = pkt
    <3>1. Len(trails'[p]) \in 1 .. HYPERCUBE_DIM + 1
      BY <1>1, <1>2, <1>6, <2>3, HypercubeAssumption DEF IInv, Typed
    <3>2. \A i \in 1 .. route_index + 1 : trails'[p][i] = Flipped(Window(p, i - 1))
      BY <1>1, <1>6, <2>3 DEF IInv, OnRoute
    <3>3. trails'[p][route_index + 2] = Flipped(Window(p, route_index + 1))
      BY <1>6, <2>3 DEF node
    <3>4. \A i \in 1 .. Len(trails'[p]) : i \in 1 .. route_index + 1 \/ i = route_index + 2
      BY <1>1, <1>6, <2>3 DEF IInv, Typed
    <3>5. ASSUME NEW i \in 1 .. Len(trails'[p])
          PROVE  trails'[p][i] = Flipped(Window(p, i - 1))
      <4>1. CASE i \in 1 .. route_index + 1
        BY <3>2, <4>1
      <4>2. CASE i = route_index + 2
        <5>1. i - 1 = route_index + 1
          BY <4>2, HypercubeAssumption DEF IInv, Typed
        <5> QED
          BY <3>3, <4>2, <5>1, Zenon
      <4> QED
        BY <3>4, <4>1, <4>2
    <3>6. \A i : Flipped(Window(p, i - 1))' = Flipped(Window(p, i - 1))
      BY <1>2 DEF Flipped, Window, RouteOf, Route
    <3> QED
      BY <3>1, <3>5, <3>6
  <2> QED
    BY <2>2, <2>3
<1>8. StopsAtDst'
  <2> SUFFICES ASSUME NEW p \in 1 .. count, NEW i \in 1 .. Len(trails'[p]) - 1
               PROVE  trails'[p][i] # dst
    BY <1>2 DEF StopsAtDst
  <2>1. CASE p # pkt
    BY <1>5, <2>1 DEF IInv, StopsAtDst
  <2>2. CASE p = pkt
    <3>1. trails'[p][i] = trails[pkt][i] /\ i \in 1 .. Len(trails[pkt])
      BY <1>1, <1>6, <2>2 DEF IInv, Typed
    <3> QED
      BY <1>1, <3>1 DEF IInv, StopsAtDst
  <2> QED
    BY <2>1, <2>2
<1>9. InOrder'
  BY <1>1, <1>2, <1>5, <1>6 DEF IInv, Typed, InOrder, Last
<1>10. Ended'
  BY <1>1, <1>2 DEF Ended, IInv, Typed
<1> QED
  BY <1>4, <1>7, <1>8, <1>9, <1>10 DEF IInv

(* The other steps move no packet.                                         *)
LEMMA TrailsStay ==
  ASSUME IInv, UNCHANGED <<src, dst, count, trails>>
  PROVE  OnRoute' /\ StopsAtDst'
<1>1. \A p, i : Flipped(Window(p, i))' = Flipped(Window(p, i))
  BY DEF Flipped, Window, RouteOf, Route
<1> QED
  BY <1>1 DEF IInv, OnRoute, StopsAtDst

LEMMA OffRouteKeeps == ASSUME IInv, OffRoute PROVE IInv'
<1>1. OnRoute' /\ StopsAtDst'
  BY TrailsStay DEF OffRoute
<1>2. Typed' /\ InOrder' /\ Ended'
  BY DEF IInv, OffRoute, Typed, InOrder, Ended, Arrived, current_node
<1> QED
  BY <1>1, <1>2 DEF IInv

LEMMA DeliverKeeps == ASSUME IInv, Deliver PROVE IInv'
<1>1. OnRoute' /\ StopsAtDst'
  BY TrailsStay DEF Deliver
<1>2. Typed'
  BY HypercubeAssumption DEF IInv, Deliver, Typed
<1>3. InOrder'
  BY DEF IInv, Typed, Deliver, InOrder, Arrived, current_node
<1>4. Ended'
  BY DEF IInv, Typed, Deliver, Ended
<1> QED
  BY <1>1, <1>2, <1>3, <1>4 DEF IInv

LEMMA ReturnKeeps == ASSUME IInv, Return PROVE IInv'
<1>1. OnRoute' /\ StopsAtDst'
  BY TrailsStay DEF Return
<1>2. Typed' /\ InOrder' /\ Ended'
  BY DEF IInv, Return, Typed, InOrder, Ended
<1> QED
  BY <1>1, <1>2 DEF IInv

(* The invariant holds in every reachable state.                           *)
THEOREM Inductive == Spec => []IInv
<1>1. Init => IInv
  BY InitHolds
<1>2. IInv /\ [Next]_vars => IInv'
  <2> SUFFICES ASSUME IInv, [Next]_vars PROVE IInv'
    OBVIOUS
  <2>1. CASE UNCHANGED vars
    <3>1. OnRoute' /\ StopsAtDst'
      BY <2>1, TrailsStay DEF vars
    <3>2. Typed' /\ InOrder' /\ Ended'
      BY <2>1 DEF vars, IInv, Typed, InOrder, Ended
    <3> QED
      BY <3>1, <3>2 DEF IInv
  <2> QED
    BY <2>1, HopKeeps, OffRouteKeeps, DeliverKeeps, ReturnKeeps DEF Next
<1> QED
  BY <1>1, <1>2, PTL DEF Spec

-----------------------------------------------------------------------------
(* Every reachable state has its type (the definition the run checks).     *)
THEOREM Typing == Spec => []TypeOK
<1>1. IInv => TypeOK
  <2> SUFFICES ASSUME IInv PROVE TypeOK
    OBVIOUS
  <2>1. ASSUME NEW p \in 1 .. count PROVE ToSet(trails[p]) \subseteq Nodes
    BY DEF IInv, Typed, ToSet
  <2> QED
    BY <2>1 DEF IInv, Typed, OnRoute, TypeOK
<1> QED
  BY <1>1, Inductive, PTL

(* A node between the endpoints is reached by a nonempty window, and by a  *)
(* full one only as the last node of the current packet.                   *)
LEMMA BetweenIsWindow ==
  ASSUME IInv, NEW p \in 1 .. count, NEW node \in Between(p)
  PROVE  \E i \in 1 .. HYPERCUBE_DIM :
           /\ node = Flipped(Window(p, i))
           /\ i = HYPERCUBE_DIM => p = pkt
<1>1. /\ trails[p] \in Seq(Nodes) /\ Len(trails[p]) \in 1 .. HYPERCUBE_DIM + 1
      /\ \A i \in 1 .. Len(trails[p]) : trails[p][i] = Flipped(Window(p, i - 1))
  BY DEF IInv, Typed, OnRoute
<1>2. PICK k \in 1 .. Len(trails[p]) : trails[p][k] = node
  BY DEF Between, ToSet
<1>3. node # src /\ node # dst
  BY DEF Between
<1>4. k # 1
  <2>1. Flipped(Window(p, 0)) = src
    BY DEF Flipped, Window
  <2>2. 1 - 1 = 0
    OBVIOUS
  <2> QED
    BY <1>1, <1>2, <1>3, <2>1, <2>2, Zenon
<1>5. k - 1 \in 1 .. HYPERCUBE_DIM /\ node = Flipped(Window(p, k - 1))
  BY <1>1, <1>2, <1>4, HypercubeAssumption
<1>6. ASSUME k - 1 = HYPERCUBE_DIM PROVE p = pkt
  <2>1. k = Len(trails[p]) /\ Len(trails[p]) # 1
    BY <1>1, <1>4, <1>6, HypercubeAssumption
  <2>2. Last(trails[p]) # dst
    BY <1>2, <1>3, <2>1 DEF Last
  <2> QED
    <3>1. ~ (p < pkt) /\ ~ (p > pkt)
      BY <2>1, <2>2, Zenon DEF IInv, InOrder
    <3>2. p \in Int /\ pkt \in Int
      BY HypercubeAssumption DEF IInv, Typed
    <3> QED
      BY <3>1, <3>2
<1> QED
  BY <1>5, <1>6

(* Packets on different routes meet at no node between the endpoints, for  *)
(* every dimension and whether or not they arrive (the loop over the route *)
(* in route_payload_shares).                                               *)
THEOREM Disjointness == Spec => []RoutesDisjoint
<1>1. IInv => RoutesDisjoint
  <2> SUFFICES ASSUME IInv,
                      NEW p1 \in 1 .. count, NEW p2 \in 1 .. count, p1 # p2,
                      p1 <= HYPERCUBE_DIM, p2 <= HYPERCUBE_DIM,
                      NEW node \in Between(p1), node \in Between(p2)
               PROVE  FALSE
    BY DEF RoutesDisjoint
  <2>1. p1 \in 1 .. HYPERCUBE_DIM /\ p2 \in 1 .. HYPERCUBE_DIM
    BY HypercubeAssumption DEF IInv, Typed
  <2>2. PICK i \in 1 .. HYPERCUBE_DIM :
          node = Flipped(Window(p1, i)) /\ (i = HYPERCUBE_DIM => p1 = pkt)
    BY BetweenIsWindow
  <2>3. PICK j \in 1 .. HYPERCUBE_DIM :
          node = Flipped(Window(p2, j)) /\ (j = HYPERCUBE_DIM => p2 = pkt)
    BY BetweenIsWindow
  <2>4. Window(p1, i) = Window(p2, j)
    BY <2>2, <2>3, FlippedInjective
  <2>5. i \in 1 .. HYPERCUBE_DIM - 1 \/ j \in 1 .. HYPERCUBE_DIM - 1
    BY <2>2, <2>3, HypercubeAssumption
  <2> QED
    BY <2>1, <2>4, <2>5, WindowsDiffer
<1> QED
  BY <1>1, Inductive, PTL

(* A packet that has arrived took one hop per dimension in which the       *)
(* endpoints differ, and these are a prefix of its route.                  *)
LEMMA ArrivedExactly ==
  ASSUME IInv, NEW p \in 1 .. count, Last(trails[p]) = dst
  PROVE  Reachable(p) /\ Len(trails[p]) = Cardinality(Differing) + 1
<1> DEFINE n == Len(trails[p]) - 1
<1>1. n \in 0 .. HYPERCUBE_DIM /\ n + 1 = Len(trails[p]) /\ p \in Nat \ {0}
  BY HypercubeAssumption DEF IInv, OnRoute, Typed
<1>2. Flipped(Window(p, n)) = dst
  BY <1>1 DEF IInv, OnRoute, Last
<1> HIDE DEF n
<1>3. Differing = Window(p, n)
  BY <1>2, FlipsToDst
<1> QED
  BY <1>1, <1>3, WindowSize DEF Reachable

(* A packet off the end of its route had no prefix of it to take.          *)
LEMMA PanickedUnreachable ==
  ASSUME IInv, pc = "panicked"
  PROVE  \E p \in 1 .. count : ~ Reachable(p)
<1>1. pkt \in 1 .. count /\ route_index = HYPERCUBE_DIM /\ Last(trails[pkt]) # dst
  BY DEF IInv, Typed, Ended
<1>2. Len(trails[pkt]) = HYPERCUBE_DIM + 1
  BY <1>1 DEF IInv, InOrder
<1>3. ASSUME NEW n \in 0 .. HYPERCUBE_DIM PROVE Differing # Window(pkt, n)
  <2>1. n + 1 \in 1 .. Len(trails[pkt]) /\ n + 1 - 1 = n
    BY <1>2, HypercubeAssumption
  <2>2. trails[pkt][n + 1] = Flipped(Window(pkt, n))
    BY <1>1, <2>1 DEF IInv, OnRoute
  <2>3. trails[pkt][n + 1] # dst
    <3>1. CASE n = HYPERCUBE_DIM
      BY <1>1, <1>2, <3>1 DEF Last
    <3>2. CASE n # HYPERCUBE_DIM
      <4>1. n + 1 \in 1 .. Len(trails[pkt]) - 1
        BY <1>2, <3>2, HypercubeAssumption
      <4> QED
        BY <1>1, <4>1 DEF IInv, StopsAtDst
    <3> QED
      BY <3>1, <3>2
  <2> QED
    BY <2>2, <2>3, FlipsToDst
<1> QED
  BY <1>1, <1>3 DEF Reachable

(* When a call returns and when it panics, for every dimension, endpoints  *)
(* and number of shares: it returns only if the differing dimensions are a *)
(* prefix of every route used, after one hop per differing dimension; it   *)
(* panics only on a packet for which they are not.                         *)
THEOREM ExactReturn == Spec => []ReturnsExactly
<1>1. IInv => ReturnsExactly
  <2> SUFFICES ASSUME IInv PROVE ReturnsExactly
    OBVIOUS
  <2>1. ASSUME pc = "done", NEW p \in 1 .. count PROVE Last(trails[p]) = dst
    BY <2>1 DEF IInv, Typed, InOrder, Ended
  <2> QED
    BY <2>1, ArrivedExactly, PanickedUnreachable DEF ReturnsExactly
<1> QED
  BY <1>1, Inductive, PTL
=============================================================================
