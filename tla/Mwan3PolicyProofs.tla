------------------------- MODULE Mwan3PolicyProofs -------------------------
(***************************************************************************)
(* Mwan3Policy for any interfaces, metrics and weights: every variable has *)
(* its type, when the lock is free the chain routes over the online        *)
(* members of the lowest metric, whatever the order of the list and        *)
(* whatever handlers ran before, the traffic is shared out by their        *)
(* weights, and what was announced of them is so.                          *)
(***************************************************************************)
EXTENDS Mwan3Policy, FiniteSetTheorems, WellFoundedInduction, TLAPS

----------------------------------------------------------------------------
(* The part of the type invariant that the argument needs.                 *)

RuleTypes == Ifaces \union {"last_resort", "out"}

ChainType ==
    /\ members \in Policies
    /\ ifaceState \in [Ifaces -> {"online", "offline"}]
    /\ next \in 0..(Len(members) + 1)
    /\ lowest \in 1..DEFAULT_LOWEST_METRIC
    /\ total \in Nat
    /\ chain \in Seq([to : RuleTypes, prob : 0..1000])

\* The list of members is a sequence of members.
LEMMA MembersSeq ==
  ASSUME members \in Policies
  PROVE  /\ members \in Seq(Member) /\ Len(members) \in Nat
         /\ \A k \in DOMAIN members :
              /\ members[k].iface \in Ifaces
              /\ members[k].metric \in 1..DEFAULT_LOWEST_METRIC
              /\ members[k].weight \in Nat \ {0}
<1>1. Cardinality(Ifaces) \in Nat
  BY FS_CardinalityType, MembersAssumption
<1>2. members \in [1..Cardinality(Ifaces) -> Member]
  BY DEF Policies
<1>3. members \in Seq(Member) /\ Len(members) \in Nat
  BY <1>1, <1>2
<1>4. ASSUME NEW k \in DOMAIN members PROVE members[k] \in Member
  BY <1>2, <1>4
<1> QED BY <1>3, <1>4, MembersAssumption DEF Member

\* What a rule in front, a rule alone and the last resort serve.
LEMMA ServedInFront ==
  ASSUME NEW R, NEW c \in Seq(R), NEW r \in R
  PROVE  Served(<<r>> \o c) = ({r.to} \intersect Ifaces) \union Served(c)
<1>1. Len(<<r>> \o c) = Len(c) + 1 /\ (<<r>> \o c)[1] = r
  OBVIOUS
<1>2. \A k \in 1..Len(c) : (<<r>> \o c)[k + 1] = c[k]
  OBVIOUS
<1>3. \A k \in 2..(Len(c) + 1) : k - 1 \in 1..Len(c) /\ (<<r>> \o c)[k] = c[k - 1]
  OBVIOUS
<1>4. DOMAIN (<<r>> \o c) = 1..(Len(c) + 1) /\ DOMAIN c = 1..Len(c)
  BY <1>1
<1>5. ASSUME NEW x \in Served(<<r>> \o c) PROVE x \in ({r.to} \intersect Ifaces) \union Served(c)
  <2>1. PICK k \in 1..(Len(c) + 1) : x = (<<r>> \o c)[k].to
    BY <1>4, <1>5 DEF Served
  <2>2. CASE k = 1
    BY <1>1, <1>5, <2>1, <2>2 DEF Served
  <2>3. CASE k # 1
    BY <1>3, <1>4, <1>5, <2>1, <2>3 DEF Served
  <2> QED BY <2>2, <2>3
<1>6. ASSUME NEW x \in ({r.to} \intersect Ifaces) \union Served(c) PROVE x \in Served(<<r>> \o c)
  <2>1. CASE x \in {r.to} \intersect Ifaces
    BY <1>1, <1>4, <2>1 DEF Served
  <2>2. CASE x \in Served(c)
    <3>1. PICK k \in 1..Len(c) : x = c[k].to /\ x \in Ifaces
      BY <1>4, <2>2 DEF Served
    <3>2. k + 1 \in DOMAIN (<<r>> \o c) /\ (<<r>> \o c)[k + 1].to = x
      BY <1>2, <1>4, <3>1
    <3> QED BY <3>1, <3>2 DEF Served
  <2> QED BY <1>6, <2>1, <2>2
<1> QED BY <1>5, <1>6

LEMMA ServedAlone ==
  ASSUME NEW r
  PROVE  Served(<<r>>) = {r.to} \intersect Ifaces
BY DEF Served

\* The share of a weight w in the sum of it and t, in 1/1000.
ShareOf(w, t) == (w * 1000) \div (t + w)

Thousandths == 0..1000

\* The share of a weight in a sum it is part of is a probability: what
\* mwan3_set_policy computes with integer division stays within 0..1000.
LEMMA ShareBound ==
  \A w \in Nat \ {0}, t \in Nat : ShareOf(w, t) \in Thousandths
<1> TAKE w \in Nat \ {0}, t \in Nat
<1> DEFINE b == t + w
           a == w * 1000
           q == a \div b
<1>1. b \in Nat /\ b > 0 /\ a \in Nat /\ a <= 1000 * b
  OBVIOUS
<1> HIDE DEF a, b
<1>2. q \in Int /\ b * q <= a /\ a < b * (q + 1)
  BY <1>1
<1> HIDE DEF q
<1>3. q >= 0
  BY <1>1, <1>2
<1>4. q <= 1000
  BY <1>1, <1>2
<1> QED BY <1>2, <1>3, <1>4 DEF Thousandths, ShareOf, q, a, b

\* The rule of a member whose metric is already served.
SharedRule(i, w, t) == [to |-> i, prob |-> ShareOf(w, t)]

ShareRules == [to : RuleTypes, prob : 0..1000]

LEMMA SharedRuleType ==
  \A i \in Ifaces, w \in Nat \ {0}, t \in Nat : SharedRule(i, w, t) \in ShareRules
<1> TAKE i \in Ifaces, w \in Nat \ {0}, t \in Nat
<1> DEFINE p == ShareOf(w, t)
<1>1. p \in Thousandths
  BY ShareBound, Zenon
<1> HIDE DEF p
<1>2. [to |-> i, prob |-> p] \in [to : RuleTypes, prob : 0..1000]
  BY <1>1 DEF RuleTypes, Thousandths
<1> QED BY <1>2, Zenon DEF SharedRule, ShareRules, p

----------------------------------------------------------------------------
(* The members before the next one are in the chain, or rightly left out.  *)

Seen == {k \in 1..(next - 1) : ifaceState[members[k].iface] = "online"}

ChainInv ==
    /\ Idle => Built
    /\ next >= 1 =>
         /\ \A k \in Seen : lowest <= members[k].metric
         /\ lowest # DEFAULT_LOWEST_METRIC => \E k \in Seen : members[k].metric = lowest
         /\ Served(chain) = {members[k].iface : k \in {l \in Seen : members[l].metric = lowest}}

Inv == ChainType /\ ChainInv

LEMMA InvInit == Init => Inv
<1> SUFFICES ASSUME Init PROVE Inv
  OBVIOUS
<1>1. members \in Policies /\ Len(members) \in Nat
  BY MembersSeq DEF Init
<1>2. 256 \in 1..256 /\ 0 \in 0..(Len(members) + 1) /\ 0 \in Nat
  BY <1>1
<1>3. ChainType
  <2>1. ifaceState \in [Ifaces -> {"online", "offline"}]
    BY Zenon DEF Init
  <2>2. next = 0 /\ lowest = 256 /\ total = 0 /\ chain = <<>>
    BY Zenon DEF Init, DEFAULT_LOWEST_METRIC
  <2>3. chain \in Seq([to : RuleTypes, prob : 0..1000])
    BY <2>2
  <2>4. next \in 0..(Len(members) + 1) /\ lowest \in 1..256 /\ total \in Nat
    BY <1>2, <2>2
  <2> QED BY <1>1, <2>1, <2>3, <2>4 DEF ChainType, DEFAULT_LOWEST_METRIC
<1>4. ChainInv
  <2>1. ~Idle
    BY DEF Init, Idle
  <2>2. next = 0
    BY Zenon DEF Init
  <2>3. ~(next >= 1)
    BY <2>2
  <2> QED BY <2>1, <2>3 DEF ChainInv
<1> QED BY <1>3, <1>4 DEF Inv

LEMMA InvHandle ==
  ASSUME Inv, NEW i \in Ifaces,
         NEW act \in {"connected", "disconnected", "ifup", "ifdown"}, Handle(act, i)
  PROVE  Inv'
<1>1. Len(members) \in Nat
  BY MembersSeq DEF Inv, ChainType
<1>2. ChainType'
  <2>1. 0 \in 0..(Len(members) + 1)
    BY <1>1
  <2>2. ifaceState' \in [Ifaces -> {"online", "offline"}]
    BY DEF Handle, Inv, ChainType
  <2> QED BY <2>1, <2>2 DEF Handle, Inv, ChainType
<1>3. ChainInv'
  <2>1. ~Idle'
    BY DEF Handle, Idle
  <2>2. next' = 0
    BY Zenon DEF Handle
  <2>3. ~(next' >= 1)
    BY <2>2
  <2> QED BY <2>1, <2>3 DEF ChainInv
<1> QED BY <1>2, <1>3 DEF Inv

LEMMA InvFlush ==
  ASSUME Inv, Flush
  PROVE  Inv'
<1>1. Len(members) \in Nat
  BY MembersSeq DEF Inv, ChainType
<1>2. LastResort \in [to : RuleTypes, prob : 0..1000]
  BY DEF LastResort, RuleTypes
<1>3. ChainType'
  BY <1>1, <1>2 DEF Flush, Inv, ChainType, DEFAULT_LOWEST_METRIC
<1>4. Served(chain') = {}
  <2>1. LastResort.to = "last_resort" /\ "last_resort" \notin Ifaces
    BY MembersAssumption DEF LastResort
  <2>2. Served(<<LastResort>>) = {LastResort.to} \intersect Ifaces
    BY ServedAlone
  <2> QED BY <2>1, <2>2 DEF Flush
<1>5. Seen' = {}
  BY DEF Flush, Seen
<1>6. lowest' = DEFAULT_LOWEST_METRIC /\ ~Idle'
  BY DEF Flush, Idle
<1>7. Served(chain)' = Served(chain')
  BY DEF Served
<1>8. ChainInv'
  BY <1>4, <1>5, <1>6, <1>7 DEF ChainInv
<1> QED BY <1>3, <1>8 DEF Inv

LEMMA InvSetPolicy ==
  ASSUME Inv, SetPolicy
  PROVE  Inv'
<1> DEFINE m == members[next]
           R == [to : RuleTypes, prob : 0..1000]
<1>1. /\ members \in Seq(Member) /\ Len(members) \in Nat
      /\ next \in 1..Len(members) /\ next' = next + 1
      /\ members' = members /\ ifaceState' = ifaceState /\ ~Idle'
  BY MembersSeq DEF Inv, ChainType, SetPolicy, Idle
<1>2. /\ m.iface \in Ifaces /\ m.metric \in 1..DEFAULT_LOWEST_METRIC
      /\ m.weight \in Nat \ {0}
  BY <1>1, MembersSeq DEF Inv, ChainType
<1>3. /\ chain \in Seq(R) /\ total \in Nat /\ lowest \in 1..DEFAULT_LOWEST_METRIC
      /\ DEFAULT_LOWEST_METRIC \in Nat
  BY DEF Inv, ChainType, DEFAULT_LOWEST_METRIC
<1>4. \A k \in 1..Len(members) : members[k].metric \in 1..DEFAULT_LOWEST_METRIC
  BY <1>1, MembersSeq DEF Inv, ChainType
<1>5. Seen' = IF ifaceState[m.iface] = "online" THEN Seen \union {next} ELSE Seen
  BY <1>1 DEF Seen
<1>6. Seen \subseteq 1..Len(members) /\ next \notin Seen
  BY <1>1 DEF Seen
<1>7. /\ \A k \in Seen : lowest <= members[k].metric
      /\ lowest # DEFAULT_LOWEST_METRIC => \E k \in Seen : members[k].metric = lowest
      /\ Served(chain) = {members[k].iface : k \in {l \in Seen : members[l].metric = lowest}}
  BY <1>1 DEF Inv, ChainInv
<1>8. SUFFICES
        /\ chain' \in Seq(R) /\ total' \in Nat /\ lowest' \in 1..DEFAULT_LOWEST_METRIC
        /\ \A k \in Seen' : lowest' <= members[k].metric
        /\ lowest' # DEFAULT_LOWEST_METRIC => \E k \in Seen' : members[k].metric = lowest'
        /\ Served(chain') =
             {members[k].iface : k \in {l \in Seen' : members[l].metric = lowest'}}
  <2>1. ChainType'
    BY <1>1, <1>8 DEF Inv, ChainType
  <2>2. Served(chain)' = Served(chain')
    BY DEF Served
  <2>3. ChainInv'
    BY <1>1, <1>8, <2>2 DEF ChainInv
  <2> QED BY <2>1, <2>3 DEF Inv
<1> HIDE DEF m
<1>9. CASE ifaceState[m.iface] = "online" /\ AddLowest(m)
  <2> DEFINE r == [to |-> m.iface, prob |-> 1000]
  <2>1. chain' = <<r>> /\ lowest' = m.metric /\ m.metric < lowest /\ total' = m.weight
    BY <1>9 DEF AddLowest
  <2>2. r \in R
    BY <1>2 DEF RuleTypes
  <2>3. Served(chain') = {m.iface}
    BY <1>2, <2>1, ServedAlone
  <2>4. Seen' = Seen \union {next}
    BY <1>5, <1>9
  <2>5. {l \in Seen' : members[l].metric = lowest'} = {next}
    <3>1. \A k \in Seen : members[k].metric # lowest'
      BY <1>2, <1>3, <1>4, <1>6, <1>7, <2>1
    <3>2. members[next].metric = lowest'
      BY <2>1 DEF m
    <3> QED BY <2>4, <3>1, <3>2
  <2>6. \A k \in Seen' : lowest' <= members[k].metric
    BY <1>2, <1>3, <1>4, <1>6, <1>7, <2>1, <2>4 DEF m
  <2>7. \E k \in Seen' : members[k].metric = lowest'
    BY <2>1, <2>4 DEF m
  <2> HIDE DEF r
  <2> QED BY <1>2, <2>1, <2>2, <2>3, <2>5, <2>6, <2>7 DEF m
<1>10. CASE ifaceState[m.iface] = "online" /\ AddEqual(m)
  <2> DEFINE x == (m.weight * 1000) \div total'
             r == [to |-> m.iface, prob |-> x]
  <2>1. /\ chain' = <<r>> \o chain /\ lowest' = lowest /\ m.metric = lowest
        /\ total' = total + m.weight
    BY <1>10 DEF AddEqual
  <2>2. r \in R
    <3>1. m.iface \in Ifaces /\ m.weight \in Nat \ {0} /\ total \in Nat
      BY <1>2, <1>3
    <3>2. SharedRule(m.iface, m.weight, total) \in ShareRules
      BY <3>1, SharedRuleType, Zenon
    <3>3. R = ShareRules
      BY Zenon DEF ShareRules
    <3>4. total' = total + m.weight
      BY <2>1
    <3>5. r = SharedRule(m.iface, m.weight, total)
      <4>1. x = ShareOf(m.weight, total)
        BY <3>4, Zenon DEF ShareOf
      <4> HIDE DEF x
      <4> QED BY <4>1, Zenon DEF SharedRule
    <3> HIDE DEF r, R
    <3> QED BY <3>2, <3>3, <3>5, Zenon
  <2>3. r.to = m.iface
    OBVIOUS
  <2> HIDE DEF r
  <2>4. Served(chain') = {m.iface} \union Served(chain)
    <3> HIDE DEF R
    <3>1. Served(<<r>> \o chain) = ({r.to} \intersect Ifaces) \union Served(chain)
      BY <1>3, <2>2, ServedInFront
    <3> QED BY <1>2, <2>1, <2>3, <3>1
  <2>5. chain' \in Seq(R)
    BY <1>3, <2>1, <2>2
  <2>6. Seen' = Seen \union {next}
    BY <1>5, <1>10
  <2>7. {l \in Seen' : members[l].metric = lowest'} =
          {l \in Seen : members[l].metric = lowest} \union {next}
    BY <2>1, <2>6 DEF m
  <2>8. \A k \in Seen' : lowest' <= members[k].metric
    BY <1>3, <1>7, <2>1, <2>6 DEF m
  <2>9. \E k \in Seen' : members[k].metric = lowest'
    BY <2>1, <2>6 DEF m
  <2>10. members[next].iface = m.iface /\ total' \in Nat
    BY <1>2, <1>3, <2>1 DEF m
  <2>11. Served(chain') = {members[k].iface : k \in {l \in Seen' : members[l].metric = lowest'}}
    BY <1>7, <2>4, <2>7, <2>10
  <2> QED BY <1>3, <2>1, <2>5, <2>8, <2>9, <2>10, <2>11
<1>11. CASE ifaceState[m.iface] = "online" /\ SkipHigher(m)
  <2>1. chain' = chain /\ lowest' = lowest /\ m.metric > lowest /\ total' = total
    BY <1>11 DEF SkipHigher
  <2>2. Seen' = Seen \union {next}
    BY <1>5, <1>11
  <2>3. {l \in Seen' : members[l].metric = lowest'} = {l \in Seen : members[l].metric = lowest}
    BY <1>2, <1>3, <2>1, <2>2 DEF m
  <2>4. \A k \in Seen' : lowest' <= members[k].metric
    BY <1>2, <1>3, <1>7, <2>1, <2>2 DEF m
  <2> QED BY <1>3, <1>7, <2>1, <2>2, <2>3, <2>4
<1>12. CASE ifaceState[m.iface] = "offline" /\ AddOffline(m)
  <2> DEFINE r == [to |-> "out", prob |-> 0]
  <2>1. lowest' = lowest /\ total' = total /\ (chain' = chain \/ chain' = <<r>> \o chain)
    BY <1>12 DEF AddOffline
  <2>2. r \in R
    BY DEF RuleTypes
  <2>3. {r.to} \intersect Ifaces = {}
    BY MembersAssumption
  <2> HIDE DEF r
  <2>4. chain' \in Seq(R) /\ Served(chain') = Served(chain)
    <3> HIDE DEF R
    <3>1. Served(<<r>> \o chain) = ({r.to} \intersect Ifaces) \union Served(chain)
      BY <1>3, <2>2, ServedInFront
    <3>2. <<r>> \o chain \in Seq(R)
      BY <1>3, <2>2
    <3> QED BY <1>3, <2>1, <2>3, <3>1, <3>2
  <2>5. Seen' = Seen
    BY <1>5, <1>12
  <2> QED BY <1>3, <1>7, <2>1, <2>4, <2>5
<1> QED BY <1>9, <1>10, <1>11, <1>12 DEF SetPolicy, m

LEMMA InvFinish ==
  ASSUME Inv, Finish
  PROVE  Inv'
<1>1. UNCHANGED <<members, ifaceState, next, lowest, total, chain>> /\ Built
  BY DEF Finish
<1>2. ChainType'
  BY <1>1 DEF Inv, ChainType
<1>3. ChainInv'
  BY <1>1 DEF Inv, ChainInv, Built, Seen, Served
<1> QED BY <1>2, <1>3 DEF Inv

LEMMA InvStep == Inv /\ [Next]_vars => Inv'
<1> SUFFICES ASSUME Inv, [Next]_vars PROVE Inv'
  OBVIOUS
<1>1. CASE UNCHANGED vars
  BY <1>1 DEF vars, Inv, ChainType, ChainInv, Idle, Built, Seen, Served
<1> QED BY <1>1, InvHandle, InvFlush, InvSetPolicy, InvFinish DEF Next

\* Built to the end, the chain serves the best members.
LEMMA InvRoutes == Inv => RoutesBest
<1> SUFFICES ASSUME Inv, Idle PROVE Served(chain) = BestIfaces
  BY DEF RoutesBest
<1>1. members \in Seq(Member) /\ next = Len(members) + 1 /\ Len(members) \in Nat
  BY MembersSeq DEF Inv, ChainType, ChainInv, Built
<1>2. Seen = OnlineMembers
  BY <1>1 DEF Seen, OnlineMembers
<1>3. /\ lowest \in 1..DEFAULT_LOWEST_METRIC /\ DEFAULT_LOWEST_METRIC \in Nat
      /\ \A k \in Seen : members[k].metric \in 1..DEFAULT_LOWEST_METRIC
  <2>1. \A k \in Seen : k \in DOMAIN members
    BY <1>2 DEF OnlineMembers
  <2>2. \A k \in DOMAIN members : members[k].metric \in 1..DEFAULT_LOWEST_METRIC
    BY MembersSeq DEF Inv, ChainType
  <2> QED BY <2>1, <2>2 DEF Inv, ChainType, DEFAULT_LOWEST_METRIC
<1>4. /\ \A k \in Seen : lowest <= members[k].metric
      /\ lowest # DEFAULT_LOWEST_METRIC => \E k \in Seen : members[k].metric = lowest
      /\ Served(chain) = {members[k].iface : k \in {l \in Seen : members[l].metric = lowest}}
  BY <1>1 DEF Inv, ChainInv
<1>5. {l \in Seen : members[l].metric = lowest} = Best
  BY <1>2, <1>3, <1>4 DEF Best
<1> QED BY <1>4, <1>5 DEF BestIfaces

\* After every handler mwan3_set_policies_iptables (mwan3.sh:536-693) has left
\* a chain that gives traffic to the online members of the lowest metric and
\* to no other, for any list of members in any order.
THEOREM PolicyRoutesBest == Spec => []RoutesBest
<1>1. Init => Inv
  BY InvInit
<1>2. Inv /\ [Next]_vars => Inv'
  BY InvStep
<1>3. Inv => RoutesBest
  BY InvRoutes
<1> QED BY <1>1, <1>2, <1>3, PTL DEF Spec


----------------------------------------------------------------------------
(* ACTIVE_WAN and the failover log                                         *)

TellType ==
    /\ action \in {"start", "connected", "disconnected", "ifup", "ifdown", "none"}
                  \X (Ifaces \union {"all"})
    /\ activeWan \in Ifaces \union {""}
    /\ said \in Entries \X (Ifaces \union {""}) \union {<<"", "">>}

\* The interfaces of the lowest metric among the members committed so far.
Front == {members[k].iface : k \in {l \in Seen : members[l].metric = lowest}}

\* A handler logs at its end only, knows the state of its interface, and keeps
\* ACTIVE_WAN in front as it commits the members.
TellInv ==
    /\ ~Idle => said = <<"", "">>
    /\ action[1] \in {"connected", "disconnected"} => action[2] \in Ifaces
    /\ action[1] = "connected" => ifaceState[action[2]] = "online"
    /\ next >= 1 /\ lowest # DEFAULT_LOWEST_METRIC => activeWan \in Front

\* Each enabled interface has one member, whose metric mwan3_set_event reads.
LEMMA MetricOf ==
  ASSUME members \in Policies
  PROVE  /\ \A k \in DOMAIN members : Metric(members[k].iface) = members[k].metric
         /\ \A i \in Ifaces : \E k \in DOMAIN members : members[k].iface = i
         /\ \A i \in Ifaces : Metric(i) \in Nat
         /\ \A k, l \in DOMAIN members : members[k].iface = members[l].iface => k = l
<1> DEFINE N == Cardinality(Ifaces)
           f == [k \in 1..N |-> members[k].iface]
<1>1. N \in Nat /\ IsFiniteSet(Ifaces)
  BY FS_CardinalityType, MembersAssumption
<1>2. /\ members \in [1..N -> Member] /\ DOMAIN members = 1..N
      /\ {members[k].iface : k \in DOMAIN members} = Ifaces
  BY DEF Policies
<1>3. IsFiniteSet(1..N) /\ Cardinality(1..N) = N
  <2>1. /\ IsFiniteSet(1..N)
        /\ Cardinality(1..N) = IF 1 > N THEN 0 ELSE N - 1 + 1
    BY <1>1, FS_Interval
  <2> QED BY <1>1, <2>1
<1>4. f \in Surjection(1..N, Ifaces)
  <2>1. \A k \in 1..N : members[k].iface \in Ifaces
    BY <1>2
  <2>2. \A i \in Ifaces : \E k \in 1..N : members[k].iface = i
    BY <1>2
  <2> QED BY <2>1, <2>2 DEF Surjection
<1>5. f \in Injection(1..N, Ifaces)
  <2> HIDE DEF f
  <2> QED BY <1>3, <1>4, FS_SurjSameCardinalityImpliesInj
<1>6. \A k, l \in 1..N : members[k].iface = members[l].iface => k = l
  BY <1>5 DEF Injection, IsInjective
<1>7. ASSUME NEW k \in DOMAIN members
      PROVE  Metric(members[k].iface) = members[k].metric
  <2> DEFINE i == members[k].iface
             P(m) == \E l \in DOMAIN members : m = members[l] /\ m.iface = i
  <2>1. members[k] \in Member /\ P(members[k])
    BY <1>2, <1>7
  <2>2. \A m \in Member : P(m) => m = members[k]
    BY <1>2, <1>6, <1>7
  <2>3. (CHOOSE m \in Member : P(m)) = members[k]
    <3> HIDE DEF P
    <3> QED BY <2>1, <2>2
  <2> QED BY <2>3 DEF Metric
<1>8. \A i \in Ifaces : \E k \in DOMAIN members : members[k].iface = i
  BY <1>2
<1>9. \A i \in Ifaces : Metric(i) \in Nat
  <2>0. 1..DEFAULT_LOWEST_METRIC \subseteq Nat
    BY DEF DEFAULT_LOWEST_METRIC
  <2>1. \A k \in DOMAIN members : members[k].metric \in Nat
    BY <2>0, MembersSeq
  <2> QED BY <1>7, <1>8, <2>1
<1> QED BY <1>2, <1>6, <1>7, <1>8, <1>9

\* When all members are committed, the members in front are the best ones.
LEMMA FrontIsBest ==
  ASSUME Inv, Built
  PROVE  /\ Seen = OnlineMembers /\ Front = BestIfaces
         /\ \A k \in OnlineMembers : /\ k \in DOMAIN members
                                     /\ lowest <= members[k].metric
                                     /\ members[k].metric \in 1..DEFAULT_LOWEST_METRIC
         /\ lowest \in 1..DEFAULT_LOWEST_METRIC
         /\ \A k \in OnlineMembers : members[k].metric = lowest => members[k].iface \in BestIfaces
         /\ BelowDefault => lowest # DEFAULT_LOWEST_METRIC
<1>1. members \in Seq(Member) /\ next = Len(members) + 1 /\ Len(members) \in Nat
  BY MembersSeq DEF Inv, ChainType, Built
<1>2. Seen = OnlineMembers
  BY <1>1 DEF Seen, OnlineMembers
<1>3. /\ lowest \in 1..DEFAULT_LOWEST_METRIC /\ DEFAULT_LOWEST_METRIC \in Nat
      /\ \A k \in Seen : members[k].metric \in 1..DEFAULT_LOWEST_METRIC /\ k \in DOMAIN members
  <2>1. \A k \in Seen : k \in DOMAIN members
    BY <1>2 DEF OnlineMembers
  <2>2. \A k \in DOMAIN members : members[k].metric \in 1..DEFAULT_LOWEST_METRIC
    BY MembersSeq DEF Inv, ChainType
  <2> QED BY <2>1, <2>2 DEF Inv, ChainType, DEFAULT_LOWEST_METRIC
<1>4. /\ \A k \in Seen : lowest <= members[k].metric
      /\ lowest # DEFAULT_LOWEST_METRIC => \E k \in Seen : members[k].metric = lowest
  BY <1>1 DEF Inv, ChainInv
<1>5. {l \in Seen : members[l].metric = lowest} = Best
  BY <1>2, <1>3, <1>4 DEF Best
<1>6. BelowDefault => lowest # DEFAULT_LOWEST_METRIC
  BY <1>2, <1>3, <1>4 DEF BelowDefault, Best
<1>7. Front = BestIfaces
  BY <1>5 DEF Front, BestIfaces
<1> QED BY <1>2, <1>3, <1>4, <1>6, <1>7 DEF Front

\* An online interface that is announced as the main WAN or as the backup has
\* the lowest metric of all that are online.
LEMMA AnnouncedServes ==
  ASSUME Inv, TellType, TellInv, Finish, action[1] = "connected"
  PROVE  \/ UNCHANGED <<activeWan, said>>
         \/ /\ activeWan' = action[2] /\ action[2] \in BestIfaces
            /\ \E e \in {"main", "backup"} : said' = <<e, action[2]>>
<1> DEFINE i == action[2]
<1>1. Built /\ SetEvent(i)
  BY DEF Finish
<1>2. i \in Ifaces /\ ifaceState[i] = "online" /\ members \in Policies
  BY DEF TellInv, Inv, ChainType
<1> HIDE DEF i
<1>3. PICK k \in DOMAIN members : members[k].iface = i
  BY <1>2, MetricOf
<1>4. k \in OnlineMembers /\ Metric(i) = members[k].metric
  BY <1>2, <1>3, MetricOf DEF OnlineMembers
<1>5. /\ lowest \in 1..DEFAULT_LOWEST_METRIC /\ Front = BestIfaces
      /\ \A l \in OnlineMembers : /\ l \in DOMAIN members
                                  /\ lowest <= members[l].metric
                                  /\ members[l].metric \in 1..DEFAULT_LOWEST_METRIC
      /\ \A l \in OnlineMembers : members[l].metric = lowest => members[l].iface \in BestIfaces
  BY <1>1, FrontIsBest
<1>6. DEFAULT_LOWEST_METRIC = 256
  BY DEF DEFAULT_LOWEST_METRIC
<1>7. lowest # DEFAULT_LOWEST_METRIC =>
        /\ activeWan \in Front
        /\ \E l \in OnlineMembers : members[l].metric = lowest /\ activeWan = members[l].iface
  <2>1. next >= 1
    BY <1>1, MembersSeq DEF Built, Inv, ChainType
  <2>2. Seen = OnlineMembers
    BY <1>1, FrontIsBest
  <2> QED BY <2>1, <2>2 DEF TellInv, Front
<1>8. CASE \A j \in Ifaces : Metric(i) <= Metric(j)
  <2>1. members[k].metric = lowest
    <3>1. CASE lowest = DEFAULT_LOWEST_METRIC
      BY <1>4, <1>5, <1>6, <3>1
    <3>2. CASE lowest # DEFAULT_LOWEST_METRIC
      <4>1. PICK l \in OnlineMembers : members[l].metric = lowest
        BY <1>7, <3>2
      <4>2. members[l].iface \in Ifaces /\ Metric(members[l].iface) = lowest
        BY <1>2, <1>5, <4>1, MetricOf, MembersSeq
      <4>3. Metric(i) <= lowest
        BY <1>8, <4>2
      <4> QED BY <1>4, <1>5, <1>6, <4>3
    <3> QED BY <3>1, <3>2
  <2>2. i \in BestIfaces
    BY <1>3, <1>4, <1>5, <2>1
  <2>3. ~\E j \in Ifaces : Metric(j) < Metric(i)
    <3>1. ASSUME NEW j \in Ifaces
          PROVE  ~(Metric(j) < Metric(i))
      <4>1. Metric(i) \in Nat /\ Metric(j) \in Nat /\ Metric(i) <= Metric(j)
        BY <1>2, <1>8, MetricOf
      <4> QED BY <4>1
    <3> QED BY <3>1
  <2>4. activeWan' = i /\ said' = <<"main", i>>
    BY <1>1, <2>3 DEF SetEvent, Say
  <2> QED BY <2>2, <2>4 DEF i
<1>9. CASE /\ ~(activeWan # "" /\ Metric(activeWan) < Metric(i))
           /\ activeWan' = i /\ Say("backup", i)
  <2>1. members[k].metric = lowest
    <3>1. CASE lowest = DEFAULT_LOWEST_METRIC
      BY <1>4, <1>5, <1>6, <3>1
    <3>2. CASE lowest # DEFAULT_LOWEST_METRIC
      <4>1. PICK l \in OnlineMembers : members[l].metric = lowest /\ activeWan = members[l].iface
        BY <1>7, <3>2
      <4>2. activeWan \in Ifaces /\ Metric(activeWan) = lowest
        BY <1>2, <1>5, <4>1, MetricOf, MembersSeq
      <4>3. activeWan # ""
        BY <4>2, MembersAssumption
      <4>4. ~(lowest < members[k].metric)
        BY <1>4, <1>9, <4>2, <4>3
      <4>5. /\ lowest \in Nat /\ members[k].metric \in Nat
            /\ lowest <= members[k].metric
        BY <1>4, <1>5, <1>6
      <4> QED BY <4>4, <4>5
    <3> QED BY <3>1, <3>2
  <2>2. i \in BestIfaces
    BY <1>3, <1>4, <1>5, <2>1
  <2> QED BY <1>9, <2>2 DEF Say, i
<1> QED BY <1>1, <1>8, <1>9 DEF SetEvent


\* Before the first member, ACTIVE_WAN and the log are as they were left.
LEMMA TellInit == Init => TellType /\ TellInv /\ AnnouncementsTrue
<1> SUFFICES ASSUME Init PROVE TellType /\ TellInv /\ AnnouncementsTrue
  OBVIOUS
<1>1. action = <<"start", "all">> /\ said = <<"", "">> /\ activeWan = ""
  BY Zenon DEF Init
<1>2. next = 0
  BY Zenon DEF Init
<1>3. TellType
  BY <1>1 DEF TellType
<1>4. ~(next >= 1)
  BY <1>2
<1>5. action[1] = "start" /\ said[1] = ""
  BY <1>1
<1>6. ~Idle
  BY <1>5 DEF Idle
<1>7. TellInv
  BY <1>1, <1>4, <1>5 DEF TellInv
<1>8. AnnouncementsTrue
  BY <1>5, <1>6 DEF AnnouncementsTrue
<1> QED BY <1>3, <1>7, <1>8

\* A handler starts: the log it will write is empty, and the state it noted is
\* that of its own interface.
LEMMA TellHandle ==
  ASSUME Inv, TellType, TellInv, NEW i \in Ifaces,
         NEW act \in {"connected", "disconnected", "ifup", "ifdown"}, Handle(act, i)
  PROVE  TellType' /\ TellInv'
<1>0. next' = 0
  BY Zenon DEF Handle
<1>1. action' = <<act, i>> /\ said' = <<"", "">> /\ activeWan' = activeWan
  BY Zenon DEF Handle
<1>2. ifaceState' = [ifaceState EXCEPT ![i] =
        IF act \in {"connected", "ifup"} THEN "online" ELSE "offline"]
  BY Zenon DEF Handle
<1>3. TellType'
  <2>1. action' \in {"start", "connected", "disconnected", "ifup", "ifdown", "none"}
                    \X (Ifaces \union {"all"})
    BY <1>1
  <2>2. said' \in Entries \X (Ifaces \union {""}) \union {<<"", "">>}
    BY <1>1
  <2> QED BY <1>1, <2>1, <2>2 DEF TellType
<1>4. act = "connected" => ifaceState'[i] = "online"
  BY <1>2 DEF Inv, ChainType
<1>5. ~(next' >= 1)
  BY <1>0
<1> QED BY <1>1, <1>3, <1>4, <1>5 DEF TellInv

\* The chain is flushed: nothing is in front.
LEMMA TellFlush ==
  ASSUME TellType, TellInv, Flush
  PROVE  TellType' /\ TellInv'
<1>1. /\ lowest' = DEFAULT_LOWEST_METRIC /\ ~Idle
      /\ UNCHANGED <<ifaceState, action, activeWan, said>>
  BY DEF Flush
<1> QED BY <1>1 DEF TellType, TellInv, Idle

\* A member is committed: one of a lower metric becomes ACTIVE_WAN as it takes
\* the chain over.
LEMMA TellSetPolicy ==
  ASSUME Inv, TellType, TellInv, SetPolicy
  PROVE  TellType' /\ TellInv'
<1> DEFINE m == members[next]
<1>1. /\ members \in Seq(Member) /\ Len(members) \in Nat
      /\ next \in 1..Len(members) /\ next' = next + 1
      /\ UNCHANGED <<members, ifaceState, action, said>> /\ ~Idle
  BY MembersSeq DEF Inv, ChainType, SetPolicy
<1>2. m.iface \in Ifaces
  BY <1>1, MembersSeq DEF Inv, ChainType
<1>3. Seen' = IF ifaceState[m.iface] = "online" THEN Seen \union {next} ELSE Seen
  BY <1>1 DEF Seen
<1>4. lowest # DEFAULT_LOWEST_METRIC => activeWan \in Front
  <2>1. next \in 1..Len(members) /\ Len(members) \in Nat
    BY <1>1
  <2>2. next >= 1
    BY <2>1
  <2> QED BY <2>2 DEF TellInv
<1>5. /\ activeWan' \in Ifaces \union {""}
      /\ lowest' # DEFAULT_LOWEST_METRIC => activeWan' \in Front'
  <2>1. CASE ifaceState[m.iface] = "online" /\ AddLowest(m)
    <3>1. activeWan' = m.iface /\ lowest' = m.metric /\ next \in Seen'
      BY <1>3, <2>1 DEF AddLowest
    <3> QED BY <1>1, <1>2, <3>1 DEF Front
  <2>2. CASE UNCHANGED <<lowest, activeWan>>
    <3>1. Front \subseteq Front'
      BY <1>1, <1>3, <2>2 DEF Front
    <3> QED BY <1>4, <2>2, <3>1 DEF TellType
  <2> QED BY <2>1, <2>2 DEF SetPolicy, AddEqual, SkipHigher, AddOffline
<1>6. TellType'
  BY <1>1, <1>5 DEF TellType
<1> QED BY <1>1, <1>5, <1>6 DEF TellInv, Idle

\* A handler ends: what mwan3_set_event and mwan3_set_fail_event log is true.
LEMMA TellFinish ==
  ASSUME Inv, TellType, TellInv, Finish
  PROVE  TellType' /\ TellInv' /\ AnnouncementsTrue'
<1>1. /\ Built /\ ~Idle /\ action' = <<"none", "all">>
      /\ UNCHANGED <<members, ifaceState, next, lowest, total, chain>>
  BY DEF Finish
<1>2. next >= 1
  BY <1>1, MembersSeq DEF Built, Inv, ChainType
<1>3. /\ Front = BestIfaces
      /\ BelowDefault => lowest # DEFAULT_LOWEST_METRIC
  BY <1>1, FrontIsBest
<1>4. lowest # DEFAULT_LOWEST_METRIC => activeWan \in BestIfaces
  BY <1>2, <1>3 DEF TellInv
<1>5. said = <<"", "">>
  BY <1>1 DEF TellInv
<1>6. /\ OnlineMembers' = OnlineMembers /\ BestIfaces' = BestIfaces
      /\ (BelowDefault' <=> BelowDefault) /\ Front' = Front
  <2>1. OnlineMembers' = OnlineMembers
    BY <1>1 DEF OnlineMembers
  <2>2. Best' = Best
    BY <1>1, <2>1 DEF Best
  <2>3. Seen' = Seen
    BY <1>1 DEF Seen
  <2> QED BY <1>1, <2>1, <2>2, <2>3 DEF BestIfaces, BelowDefault, Front
<1>7. BestIfaces \subseteq Ifaces
  <2>1. \A k \in DOMAIN members : members[k].iface \in Ifaces
    BY MembersSeq DEF Inv, ChainType
  <2> QED BY <2>1 DEF BestIfaces, Best, OnlineMembers
<1>8. SUFFICES /\ activeWan' \in Ifaces \union {""}
               /\ said' \in Entries \X (Ifaces \union {""}) \union {<<"", "">>}
               /\ lowest # DEFAULT_LOWEST_METRIC => activeWan' \in BestIfaces
               /\ said'[1] \in {"main", "backup"} => said'[2] \in BestIfaces
               /\ said'[1] = "switching" =>
                    OnlineMembers # {} /\ (BelowDefault => said'[2] \in BestIfaces)
               /\ said'[1] = "no backups" => OnlineMembers = {}
  <2>1. TellType'
    BY <1>1, <1>8 DEF TellType
  <2>2. TellInv'
    BY <1>1, <1>3, <1>6, <1>8 DEF TellInv, Idle
  <2>3. AnnouncementsTrue'
    BY <1>1, <1>3, <1>6, <1>8 DEF AnnouncementsTrue
  <2> QED BY <2>1, <2>2, <2>3
<1>9. CASE UNCHANGED <<activeWan, said>>
  BY <1>4, <1>5, <1>9 DEF TellType
<1>10. CASE action[1] = "connected" /\ ~UNCHANGED <<activeWan, said>>
  <2>1. /\ activeWan' = action[2] /\ action[2] \in BestIfaces
        /\ \E e \in {"main", "backup"} : said' = <<e, action[2]>>
    BY <1>10, AnnouncedServes
  <2>2. PICK e \in {"main", "backup"} : said' = <<e, action[2]>>
    BY <2>1
  <2>3. said' \in Entries \X (Ifaces \union {""})
    BY <1>7, <2>1, <2>2 DEF Entries
  <2> QED BY <1>7, <2>1, <2>2, <2>3
<1>11. CASE action[1] = "disconnected" /\ SetFailEvent(action[2])
  <2>1. action[2] \in Ifaces /\ activeWan' = activeWan
    BY <1>11 DEF TellInv, SetFailEvent
  <2>2. \/ said' = said
        \/ said' = <<"switching", activeWan>> /\ \E j \in Ifaces : ifaceState[j] = "online"
        \/ said' = <<"no backups", action[2]>> /\ \A j \in Ifaces : ifaceState[j] = "offline"
    BY <1>11 DEF SetFailEvent, Say
  <2>3. /\ \A j \in Ifaces : \E k \in DOMAIN members : members[k].iface = j
        /\ \A k \in DOMAIN members : members[k].iface \in Ifaces
    BY MetricOf, MembersSeq DEF Inv, ChainType
  <2>4. CASE said' = said
    BY <1>9, <2>1, <2>4
  <2>5. CASE said' = <<"switching", activeWan>> /\ \E j \in Ifaces : ifaceState[j] = "online"
    <3>1. OnlineMembers # {}
      BY <2>3, <2>5 DEF OnlineMembers
    <3>2. said' \in Entries \X (Ifaces \union {""})
      BY <2>5 DEF TellType, Entries
    <3> QED BY <1>3, <1>4, <2>1, <2>5, <3>1, <3>2 DEF TellType
  <2>6. CASE said' = <<"no backups", action[2]>> /\ \A j \in Ifaces : ifaceState[j] = "offline"
    <3>1. OnlineMembers = {}
      BY <2>3, <2>6 DEF OnlineMembers
    <3>2. said' \in Entries \X (Ifaces \union {""})
      BY <2>1, <2>6 DEF Entries
    <3> QED BY <1>4, <2>1, <2>6, <3>1, <3>2 DEF TellType
  <2> QED BY <2>2, <2>4, <2>5, <2>6
<1> QED BY <1>9, <1>10, <1>11 DEF Finish

\* What is logged stays true until the next handler takes the lock.
LEMMA TellStep ==
  Inv /\ TellType /\ TellInv /\ AnnouncementsTrue /\ [Next]_vars
    => TellType' /\ TellInv' /\ AnnouncementsTrue'
<1> SUFFICES ASSUME Inv, TellType, TellInv, AnnouncementsTrue, [Next]_vars
             PROVE  TellType' /\ TellInv' /\ AnnouncementsTrue'
  OBVIOUS
<1>1. ~Idle' /\ TellInv' => AnnouncementsTrue'
  <2> SUFFICES ASSUME ~Idle', TellInv' PROVE AnnouncementsTrue'
    OBVIOUS
  <2>1. said' = <<"", "">>
    BY DEF TellInv
  <2>2. said'[1] = ""
    BY <2>1
  <2> QED BY <2>2 DEF AnnouncementsTrue
<1>2. ASSUME NEW i \in Ifaces,
             NEW act \in {"connected", "disconnected", "ifup", "ifdown"}, Handle(act, i)
      PROVE  TellType' /\ TellInv' /\ AnnouncementsTrue'
  <2>1. ~Idle'
    BY <1>2 DEF Handle, Idle
  <2> QED BY <1>1, <1>2, <2>1, TellHandle
<1>3. CASE Flush
  <2>1. ~Idle'
    BY <1>3 DEF Flush, Idle
  <2> QED BY <1>1, <1>3, <2>1, TellFlush
<1>4. CASE SetPolicy
  <2>1. ~Idle'
    BY <1>4 DEF SetPolicy, Idle
  <2> QED BY <1>1, <1>4, <2>1, TellSetPolicy
<1>5. CASE Finish
  BY <1>5, TellFinish
<1>6. CASE UNCHANGED vars
  <2>1. UNCHANGED <<members, ifaceState, action, next, lowest, total, chain, activeWan, said>>
    BY <1>6 DEF vars
  <2>2. Seen' = Seen /\ (Idle' <=> Idle) /\ OnlineMembers' = OnlineMembers
    BY <2>1 DEF Seen, Idle, OnlineMembers
  <2>3. Best' = Best /\ BestIfaces' = BestIfaces
    BY <2>1, <2>2 DEF Best, BestIfaces
  <2>4. TellType'
    BY <2>1 DEF TellType
  <2>5. AnnouncementsTrue'
    BY <2>1, <2>2, <2>3 DEF AnnouncementsTrue, BelowDefault
  <2>6. TellInv'
    BY <2>1, <2>2, <2>3 DEF TellInv, Front, BelowDefault
  <2> QED BY <2>4, <2>5, <2>6
<1> QED BY <1>2, <1>3, <1>4, <1>5, <1>6 DEF Next

\* The whole inductive invariant of a policy.
LEMMA TellInvariance == Spec => [](Inv /\ TellType /\ TellInv /\ AnnouncementsTrue)
<1>1. Init => Inv /\ TellType /\ TellInv /\ AnnouncementsTrue
  BY InvInit, TellInit
<1>2. Inv /\ TellType /\ TellInv /\ AnnouncementsTrue /\ [Next]_vars
        => Inv' /\ TellType' /\ TellInv' /\ AnnouncementsTrue'
  BY InvStep, TellStep
<1> QED BY <1>1, <1>2, PTL DEF Spec

\* Everything mwan3_set_policy computes has its type; in particular no rule is
\* given to iptables with a probability above 1, however the weights add up.
THEOREM PolicyTypes == Spec => []TypeOK
<1>1. Inv /\ TellType => TypeOK
  BY DEF Inv, ChainType, TellType, TypeOK, Rule, RuleTypes
<1> QED BY <1>1, TellInvariance, PTL

\* After every handler ACTIVE_WAN and the failover log name WANs that carry
\* traffic (mwan3_set_event, mwan3_set_fail_event), for any list of members.
THEOREM AnnouncedWansServe == Spec => []AnnouncementsTrue
BY TellInvariance, PTL


----------------------------------------------------------------------------
(* What recursive functions along a list compute.  Induction over the      *)
(* numbers is by their least element.                                      *)

\* A set of numbers that holds 0 and, with m, m + 1 holds all up to n.
LEMMA CountUp ==
  ASSUME NEW n \in Nat, NEW S, 0 \in S, \A m \in 0..(n - 1) : m \in S => m + 1 \in S
  PROVE  \A m \in 0..n : m \in S
<1> DEFINE T == {m \in 0..n : m \notin S}
           R == {p \in Nat \X Nat : p[1] < p[2]}
<1> SUFFICES ASSUME T # {} PROVE FALSE
  OBVIOUS
<1>1. T \subseteq Nat
  OBVIOUS
<1>2. IsWellFoundedOn(R, Nat)
  BY NatLessThanWellFounded, Zenon DEF OpToRel
<1>3. PICK x \in T : \A y \in T : <<y, x>> \notin R
  <2> HIDE DEF T, R
  <2> QED BY <1>1, <1>2, WFMin
<1>4. x \in 0..n /\ x \notin S /\ x # 0
  OBVIOUS
<1>5. x - 1 \in 0..(n - 1) /\ x - 1 \in 0..n /\ (x - 1) + 1 = x /\ <<x - 1, x>> \in R
  BY <1>4
<1>6. x - 1 \notin T
  BY <1>3, <1>5
<1>7. x - 1 \in S
  BY <1>5, <1>6
<1> QED BY <1>4, <1>5, <1>7

\* What a rule adds to the share of an interface, given that of the rules after it.
Takes(r, i, rest) ==
  (IF r.to = i THEN 1000 * r.prob ELSE 0) + (rest * (1000 - r.prob)) \div 1000

\* The recursion of ShareFrom has a solution: it is built from the last rule on.
LEMMA ShareFromDef ==
  ASSUME NEW c, NEW i, Len(c) \in Nat
  PROVE  /\ ShareFrom(c, i)[Len(c) + 1] = 0
         /\ \A k \in 1..Len(c) :
              ShareFrom(c, i)[k] = Takes(c[k], i, ShareFrom(c, i)[k + 1])
<1> DEFINE n == Len(c)
           Body(f, k) == IF k = n + 1 THEN 0 ELSE Takes(c[k], i, f[k + 1])
           D(m) == (n + 1 - m)..(n + 1)
           Good(f, m) == f = [k \in D(m) |-> Body(f, k)]
           S == {m \in Nat : \E f : Good(f, m)}
<1>1. 0 \in S
  <2> DEFINE f == [k \in D(0) |-> 0]
  <2>1. D(0) = {n + 1}
    OBVIOUS
  <2>2. Good(f, 0)
    BY <2>1
  <2> QED BY <2>2
<1>2. ASSUME NEW m \in 0..(n - 1), m \in S PROVE m + 1 \in S
  <2>1. PICK f : Good(f, m)
    BY <1>2
  <2> DEFINE g == [k \in D(m + 1) |-> IF k = n - m THEN Takes(c[k], i, f[k + 1]) ELSE f[k]]
  <2>2. \A k \in D(m + 1) : k = n - m \/ k \in D(m)
    OBVIOUS
  <2>3. \A k \in D(m) : k \in D(m + 1) /\ k # n - m /\ g[k] = f[k]
    OBVIOUS
  <2>4. \A k \in D(m) : f[k] = Body(f, k)
    BY <2>1
  <2>5. \A k \in D(m) : k # n + 1 => k + 1 \in D(m)
    OBVIOUS
  <2>6. ASSUME NEW k \in D(m + 1) PROVE g[k] = Body(g, k)
    <3>1. CASE k = n - m
      <4>1. k + 1 \in D(m) /\ k # n + 1
        BY <3>1
      <4>2. g[k] = Takes(c[k], i, f[k + 1])
        BY <3>1
      <4> HIDE DEF g
      <4> QED BY <2>3, <4>1, <4>2
    <3>2. CASE k \in D(m)
      <4> HIDE DEF g, D
      <4> QED BY <2>3, <2>4, <2>5, <3>2
    <3> QED BY <2>2, <3>1, <3>2
  <2>7. Good(g, m + 1)
    <3>1. g = [k \in D(m + 1) |-> g[k]]
      OBVIOUS
    <3> HIDE DEF g, D, Body
    <3> QED BY <2>6, <3>1
  <2>8. m + 1 \in Nat
    OBVIOUS
  <2> HIDE DEF g, Good
  <2> QED BY <2>7, <2>8
<1>3. n \in S
  <2> HIDE DEF S
  <2>1. \A m \in 0..n : m \in S
    BY <1>1, <1>2, CountUp
  <2> QED BY <2>1
<1>4. D(n) = 1..(n + 1)
  OBVIOUS
<1>5. PICK f : Good(f, n)
  BY <1>3
<1> DEFINE P(h) == h = [k \in 1..(n + 1) |-> Body(h, k)]
<1>6. P(f)
  BY <1>4, <1>5, Zenon
<1>7. ShareFrom(c, i) = CHOOSE h : P(h)
  BY Zenon DEF ShareFrom, Takes
<1>8. P(ShareFrom(c, i))
  <2> HIDE DEF P
  <2> QED BY <1>6, <1>7, Zenon
<1> DEFINE s == ShareFrom(c, i)
<1>9. \A k \in 1..(n + 1) : s[k] = Body(s, k)
  <2> HIDE DEF s
  <2> QED BY <1>8 DEF s
<1>10. /\ n + 1 \in 1..(n + 1)
       /\ \A k \in 1..n : k \in 1..(n + 1) /\ k # n + 1
  OBVIOUS
<1> HIDE DEF s
<1> QED BY <1>9, <1>10 DEF s

\* A rule in front moves the others by one and takes its part of what they had.
LEMMA ShareInFront ==
  ASSUME NEW R, NEW c \in Seq(R), NEW r \in R, NEW i
  PROVE  Share(<<r>> \o c, i) = Takes(r, i, Share(c, i))
<1> DEFINE d == <<r>> \o c
           n == Len(c)
           S == {m \in Nat : ShareFrom(d, i)[n + 2 - m] = ShareFrom(c, i)[n + 1 - m]}
<1>1. n \in Nat /\ Len(d) = n + 1 /\ d[1] = r /\ \A k \in 1..n : d[k + 1] = c[k]
  OBVIOUS
<1> HIDE DEF d, n
<1>2. /\ ShareFrom(c, i)[n + 1] = 0
      /\ \A k \in 1..n : ShareFrom(c, i)[k] = Takes(c[k], i, ShareFrom(c, i)[k + 1])
  BY <1>1, ShareFromDef DEF n
<1>3. /\ ShareFrom(d, i)[n + 2] = 0
      /\ \A k \in 1..(n + 1) : ShareFrom(d, i)[k] = Takes(d[k], i, ShareFrom(d, i)[k + 1])
  <2>1. Len(d) \in Nat /\ Len(d) + 1 = n + 2
    BY <1>1
  <2>2. /\ ShareFrom(d, i)[Len(d) + 1] = 0
        /\ \A k \in 1..Len(d) : ShareFrom(d, i)[k] = Takes(d[k], i, ShareFrom(d, i)[k + 1])
    BY <2>1, ShareFromDef, Zenon
  <2> QED BY <1>1, <2>1, <2>2
<1>4. 0 \in S
  BY <1>1, <1>2, <1>3
<1>5. ASSUME NEW m \in 0..(n - 1), m \in S PROVE m + 1 \in S
  <2> DEFINE k == n - m
  <2>1. /\ k \in 1..n /\ k + 1 \in 1..(n + 1) /\ n + 2 - m = (k + 1) + 1 /\ n + 1 - m = k + 1
        /\ n + 2 - (m + 1) = k + 1 /\ n + 1 - (m + 1) = k /\ m + 1 \in Nat
    BY <1>1
  <2>2. ShareFrom(d, i)[(k + 1) + 1] = ShareFrom(c, i)[k + 1]
    BY <1>5, <2>1
  <2> HIDE DEF k
  <2>3. ShareFrom(d, i)[k + 1] = Takes(d[k + 1], i, ShareFrom(d, i)[(k + 1) + 1])
    BY <1>3, <2>1
  <2>4. ShareFrom(c, i)[k] = Takes(d[k + 1], i, ShareFrom(c, i)[k + 1])
    BY <1>1, <1>2, <2>1
  <2>5. ShareFrom(d, i)[k + 1] = ShareFrom(c, i)[k]
    BY <2>2, <2>3, <2>4, Zenon
  <2> QED BY <2>1, <2>5
<1>6. n \in S
  <2> HIDE DEF S
  <2>1. \A m \in 0..n : m \in S
    BY <1>1, <1>4, <1>5, CountUp
  <2> QED BY <1>1, <2>1
<1>7. ShareFrom(d, i)[2] = ShareFrom(c, i)[1]
  <2>1. n + 2 - n = 2 /\ n + 1 - n = 1
    BY <1>1
  <2> QED BY <1>6, <2>1
<1>8. ShareFrom(d, i)[1] = Takes(d[1], i, ShareFrom(d, i)[2])
  <2>1. 1 \in 1..(n + 1) /\ 1 + 1 = 2
    BY <1>1
  <2> QED BY <1>3, <2>1
<1> QED BY <1>1, <1>7, <1>8, Zenon DEF Share, d

\* The share that a single rule gives.
LEMMA ShareAlone ==
  ASSUME NEW r, NEW i
  PROVE  Share(<<r>>, i) = Takes(r, i, 0)
<1>1. Len(<<r>>) = 1 /\ Len(<<r>>) \in Nat /\ <<r>>[1] = r /\ 1 \in 1..1 /\ 1 + 1 = 2
  OBVIOUS
<1>2. /\ ShareFrom(<<r>>, i)[Len(<<r>>) + 1] = 0
      /\ \A k \in 1..Len(<<r>>) :
           ShareFrom(<<r>>, i)[k] = Takes(<<r>>[k], i, ShareFrom(<<r>>, i)[k + 1])
  BY <1>1, ShareFromDef, Zenon
<1>3. ShareFrom(<<r>>, i)[2] = 0 /\ ShareFrom(<<r>>, i)[1] = Takes(<<r>>[1], i, ShareFrom(<<r>>, i)[2])
  <2> HIDE DEF Takes
  <2> QED BY <1>1, <1>2
<1> QED BY <1>1, <1>3, Zenon DEF Share

\* Additions along a list.
Adds(list, K, k) == IF k \in K THEN list[k].weight ELSE 0

LEMMA WeightUpToDef ==
  ASSUME NEW list, NEW K, Len(list) \in Nat
  PROVE  /\ WeightUpTo(list, K)[0] = 0
         /\ \A k \in 1..Len(list) :
              WeightUpTo(list, K)[k] = WeightUpTo(list, K)[k - 1] + Adds(list, K, k)
<1> DEFINE n == Len(list)
           Body(f, k) == IF k = 0 THEN 0 ELSE f[k - 1] + Adds(list, K, k)
           Good(f, m) == f = [k \in 0..m |-> Body(f, k)]
           S == {m \in Nat : \E f : Good(f, m)}
<1>1. 0 \in S
  <2> DEFINE f == [k \in 0..0 |-> 0]
  <2>1. 0..0 = {0}
    OBVIOUS
  <2>2. Good(f, 0)
    BY <2>1
  <2> QED BY <2>2
<1>2. ASSUME NEW m \in 0..(n - 1), m \in S PROVE m + 1 \in S
  <2>1. PICK f : Good(f, m)
    BY <1>2
  <2> DEFINE g == [k \in 0..(m + 1) |-> IF k = m + 1 THEN f[k - 1] + Adds(list, K, k) ELSE f[k]]
  <2>2. \A k \in 0..(m + 1) : k = m + 1 \/ k \in 0..m
    OBVIOUS
  <2>3. \A k \in 0..m : k \in 0..(m + 1) /\ k # m + 1 /\ g[k] = f[k]
    OBVIOUS
  <2>4. \A k \in 0..m : f[k] = Body(f, k)
    BY <2>1
  <2>5. \A k \in 0..m : k # 0 => k - 1 \in 0..m
    OBVIOUS
  <2>6. ASSUME NEW k \in 0..(m + 1) PROVE g[k] = Body(g, k)
    <3>1. CASE k = m + 1
      <4>1. k - 1 \in 0..m /\ k # 0
        BY <3>1
      <4>2. g[k] = f[k - 1] + Adds(list, K, k)
        BY <3>1
      <4> HIDE DEF g
      <4> QED BY <2>3, <4>1, <4>2
    <3>2. CASE k \in 0..m
      <4>1. k # 0 => g[k - 1] = f[k - 1]
        BY <2>3, <2>5, <3>2
      <4>2. g[k] = f[k] /\ f[k] = Body(f, k)
        BY <2>3, <2>4, <3>2
      <4> HIDE DEF g
      <4> QED BY <4>1, <4>2
    <3> QED BY <2>2, <3>1, <3>2
  <2>7. Good(g, m + 1)
    <3>1. g = [k \in 0..(m + 1) |-> g[k]]
      OBVIOUS
    <3> HIDE DEF g, Body
    <3> QED BY <2>6, <3>1
  <2>8. m + 1 \in Nat
    OBVIOUS
  <2> HIDE DEF g, Good
  <2> QED BY <2>7, <2>8
<1>3. n \in S
  <2> HIDE DEF S
  <2>1. \A m \in 0..n : m \in S
    BY <1>1, <1>2, CountUp
  <2> QED BY <2>1
<1>4. PICK f : Good(f, n)
  BY <1>3
<1>5. WeightUpTo(list, K) = CHOOSE h : Good(h, n)
  BY Zenon DEF WeightUpTo, Adds
<1>6. Good(WeightUpTo(list, K), n)
  <2> HIDE DEF Good
  <2> QED BY <1>4, <1>5, Zenon
<1> DEFINE s == WeightUpTo(list, K)
<1>7. \A k \in 0..n : s[k] = Body(s, k)
  <2> HIDE DEF s
  <2> QED BY <1>6 DEF s
<1>8. /\ 0 \in 0..n
      /\ \A k \in 1..n : k \in 0..n /\ k # 0
  OBVIOUS
<1> HIDE DEF s
<1> QED BY <1>7, <1>8 DEF s


\* Weights add up to a number; no members weigh nothing.
LEMMA WeightType ==
  ASSUME NEW list, NEW K, Len(list) \in Nat, \A k \in 1..Len(list) : list[k].weight \in Nat
  PROVE  /\ \A m \in 0..Len(list) : WeightUpTo(list, K)[m] \in Nat
         /\ WeightOf(list, K) \in Nat
         /\ K = {} => WeightOf(list, K) = 0
<1> DEFINE n == Len(list)
           s == WeightUpTo(list, K)
           S == {m \in Nat : s[m] \in Nat /\ (K = {} => s[m] = 0)}
<1>1. s[0] = 0 /\ \A k \in 1..n : s[k] = s[k - 1] + Adds(list, K, k)
  BY WeightUpToDef
<1>2. \A k \in 1..n : Adds(list, K, k) \in Nat /\ (K = {} => Adds(list, K, k) = 0)
  BY DEF Adds
<1> HIDE DEF s
<1>3. 0 \in S
  BY <1>1
<1>4. ASSUME NEW m \in 0..(n - 1), m \in S PROVE m + 1 \in S
  <2>1. m + 1 \in 1..n /\ (m + 1) - 1 = m /\ m + 1 \in Nat
    OBVIOUS
  <2>2. s[m + 1] = s[m] + Adds(list, K, m + 1)
    BY <1>1, <2>1
  <2> QED BY <1>2, <1>4, <2>1, <2>2
<1>5. \A m \in 0..n : m \in S
  <2> HIDE DEF S
  <2> QED BY <1>3, <1>4, CountUp
<1>6. n \in 0..n
  OBVIOUS
<1> QED BY <1>5, <1>6 DEF WeightOf, s

\* One more member adds its weight.
LEMMA WeightOfOneMore ==
  ASSUME NEW list, NEW K, Len(list) \in Nat, \A k \in 1..Len(list) : list[k].weight \in Nat,
         NEW a \in 1..Len(list), a \notin K
  PROVE  WeightOf(list, K \union {a}) = WeightOf(list, K) + list[a].weight
<1> DEFINE n == Len(list)
           s == WeightUpTo(list, K)
           t == WeightUpTo(list, K \union {a})
           w == list[a].weight
           S == {m \in Nat : t[m] = s[m] + (IF a <= m THEN w ELSE 0)}
<1>1. s[0] = 0 /\ \A k \in 1..n : s[k] = s[k - 1] + Adds(list, K, k)
  BY WeightUpToDef
<1>2. t[0] = 0 /\ \A k \in 1..n : t[k] = t[k - 1] + Adds(list, K \union {a}, k)
  BY WeightUpToDef
<1>3. \A m \in 0..n : s[m] \in Nat /\ t[m] \in Nat
  BY WeightType
<1>4. \A k \in 1..n : /\ Adds(list, K, k) \in Nat
                      /\ Adds(list, K \union {a}, k) = Adds(list, K, k) + (IF k = a THEN w ELSE 0)
  BY DEF Adds
<1>5. w \in Nat
  OBVIOUS
<1> HIDE DEF s, t, w
<1>6. 0 \in S
  BY <1>1, <1>2
<1>7. ASSUME NEW m \in 0..(n - 1), m \in S PROVE m + 1 \in S
  <2>1. m + 1 \in 1..n /\ (m + 1) - 1 = m /\ m + 1 \in Nat /\ m \in 0..n
    OBVIOUS
  <2>2. s[m + 1] = s[m] + Adds(list, K, m + 1)
    BY <1>1, <2>1
  <2>3. t[m + 1] = t[m] + Adds(list, K, m + 1) + (IF m + 1 = a THEN w ELSE 0)
    <3>1. t[m + 1] = t[m] + Adds(list, K \union {a}, m + 1)
      BY <1>2, <2>1
    <3>2. /\ Adds(list, K, m + 1) \in Nat
          /\ Adds(list, K \union {a}, m + 1) = Adds(list, K, m + 1) + (IF m + 1 = a THEN w ELSE 0)
      BY <1>4, <2>1
    <3>3. t[m] \in Nat
      BY <1>3, <2>1
    <3> QED BY <1>5, <3>1, <3>2, <3>3
  <2>4. t[m] = s[m] + (IF a <= m THEN w ELSE 0)
    BY <1>7
  <2>5. t[m + 1] = s[m + 1] + (IF a <= m + 1 THEN w ELSE 0)
    BY <1>3, <1>4, <1>5, <2>1, <2>2, <2>3, <2>4, SMTT(60)
  <2> QED BY <2>1, <2>5
<1>8. \A m \in 0..n : m \in S
  <2> HIDE DEF S
  <2> QED BY <1>6, <1>7, CountUp
<1>9. n \in 0..n /\ a <= n
  OBVIOUS
<1> QED BY <1>8, <1>9 DEF WeightOf, s, t, w

----------------------------------------------------------------------------
(* How far a share can be from the part that its weight has in the sum.    *)

\* Shares are counted in millionths.
Millionths == {s \in Nat : s <= 1000000}

\* The share s, in millionths, of a weight w in the sum t, with an error of at
\* most e thousandths.
Near(s, w, t, e) == Abs(s * t - 1000000 * w) <= 1000 * e * t

\* What a rule of probability p takes of all the traffic, and what it leaves of
\* a share s.
Own(p) == 1000 * p
Rest(s, p) == (s * (1000 - p)) \div 1000

\* Integer division is off by less than one.
LEMMA Quotient ==
  \A a \in Nat, b \in Nat \ {0} :
     a \div b \in Nat /\ b * (a \div b) <= a /\ a < b * (a \div b) + b
<1> TAKE a \in Nat, b \in Nat \ {0}
<1> DEFINE q == a \div b
<1>1. q \in Int /\ b * q <= a /\ a < b * (q + 1)
  OBVIOUS
<1> HIDE DEF q
<1>2. q >= 0
  BY <1>1
<1> QED BY <1>1, <1>2 DEF q

\* A new member in front of a sum t: its own share.
LEMMA NearFirst ==
  \A w \in Nat \ {0}, t \in Nat, e \in Nat :
     (t = 0 \/ e >= 1) => Near(Own(ShareOf(w, t)), w, t + w, e)
<1> SUFFICES ASSUME NEW w \in Nat \ {0}, NEW t \in Nat, NEW e \in Nat, t = 0 \/ e >= 1
             PROVE  Near(Own(ShareOf(w, t)), w, t + w, e)
  OBVIOUS
<1> DEFINE a == w * 1000
           b == t + w
           p == ShareOf(w, t)
<1>1. a \in Nat /\ b \in Nat \ {0}
  BY SMTT(30)
<1>2. p = a \div b
  BY Zenon DEF ShareOf
<1>3. p \in Nat /\ b * p <= a /\ a < b * p + b
  <2> HIDE DEF a, b, p
  <2> QED BY <1>1, <1>2, Quotient, Zenon
<1> DEFINE d == a - b * p
           x == b * p
<1>4. x \in Int /\ d \in Int /\ 0 <= d /\ d < b /\ x = a - d
  BY <1>1, <1>3, SMTT(30)
<1>5. (1000 * p) * b - 1000000 * w = -1000 * d
  <2>1. (1000 * p) * b = 1000 * x
    BY <1>1, <1>3, SMTT(30)
  <2> HIDE DEF x, p, b, d
  <2>2. a = w * 1000 /\ w \in Nat
    BY SMTT(30)
  <2> HIDE DEF a
  <2> QED BY <1>1, <1>4, <2>1, <2>2, SMTT(30)
<1>6. Abs((1000 * p) * b - 1000000 * w) = 1000 * d
  <2> HIDE DEF d, p, b
  <2> QED BY <1>4, <1>5, SMTT(30) DEF Abs
<1>7. 1000 * d <= 1000 * e * b
  <2>1. CASE e >= 1
    <3> HIDE DEF d, b
    <3> DEFINE y == e * b
    <3>1. y >= b /\ y \in Nat
      BY <1>1, <2>1, SMTT(30)
    <3>2. 1000 * e * b = 1000 * y
      BY <1>1, SMTT(30)
    <3> HIDE DEF y
    <3> QED BY <1>1, <1>4, <3>1, <3>2, SMTT(30)
  <2>2. CASE t = 0
    <3>1. d = 0
      <4>1. b = w /\ a = 1000 * b
        BY <2>2, SMTT(30)
      <4> HIDE DEF a, b, p
      <4>2. d = b * (1000 - p)
        BY <1>1, <1>3, <4>1, SMTT(30)
      <4>3. 1000 - p < 1 /\ 1000 - p >= 0
        <5>1. ~(1000 - p >= 1)
          <6> SUFFICES ASSUME 1000 - p >= 1 PROVE FALSE
            OBVIOUS
          <6>1. b * (1000 - p) >= b
            BY <1>1, <1>3, SMTT(30)
          <6> QED BY <1>1, <1>3, <4>1, <6>1, SMTT(30)
        <5>2. ~(1000 - p < 0)
          <6> SUFFICES ASSUME p - 1000 >= 1 PROVE FALSE
            BY <1>3, SMTT(30)
          <6>1. b * (p - 1000) >= b
            BY <1>1, <1>3, SMTT(30)
          <6> QED BY <1>1, <1>3, <4>1, <6>1, SMTT(30)
        <5> QED BY <1>3, <5>1, <5>2, SMTT(30)
      <4>4. 1000 - p = 0
        BY <1>3, <4>3, SMTT(30)
      <4> QED BY <1>1, <4>2, <4>4, SMTT(30)
    <3> HIDE DEF d, b
    <3>2. e * b \in Nat
      BY <1>1, SMTT(30)
    <3> QED BY <1>1, <3>1, <3>2, SMTT(30)
  <2> QED BY <2>1, <2>2, SMTT(30)
<1> HIDE DEF a, p, d
<1> QED BY <1>6, <1>7, SMTT(30) DEF Near, Own, p


\* The others behind a new member: each keeps its part of what is left.
LEMMA NearRest ==
  \A s \in Millionths, v \in Nat, w \in Nat \ {0}, t \in Nat, e \in Nat :
     Near(s, v, t, e) =>
       Near(Rest(s, ShareOf(w, t)), v, t + w, e + 1)
<1> SUFFICES ASSUME NEW s \in Millionths, NEW v \in Nat, NEW w \in Nat \ {0}, NEW t \in Nat,
                    NEW e \in Nat, Near(s, v, t, e)
             PROVE  Near(Rest(s, ShareOf(w, t)), v, t + w, e + 1)
  OBVIOUS
<1> DEFINE b == t + w
           p == ShareOf(w, t)
           z == s * (1000 - p)
           u == Rest(s, p)
<1>0. s \in Nat /\ s <= 1000000
  <2>1. s \in Millionths
    OBVIOUS
  <2> QED BY <2>1, SMTT(30) DEF Millionths
<1>1. b \in Nat \ {0} /\ b >= t /\ w * 1000 \in Nat
  BY <1>0, SMTT(30)
<1>2. p \in 0..1000
  <2> HIDE DEF p
  <2>1. p \in Thousandths
    BY ShareBound, Zenon DEF p
  <2> QED BY <2>1, SMTT(30) DEF Thousandths
<1>3. b * p <= w * 1000 /\ w * 1000 < b * p + b
  <2> DEFINE a == w * 1000
  <2>1. p = a \div b
    BY Zenon DEF ShareOf
  <2>2. a \in Nat
    BY <1>1, SMTT(30)
  <2> HIDE DEF a, b, p
  <2>3. p \in Nat /\ b * p <= a /\ a < b * p + b
    BY <1>1, <2>1, <2>2, Quotient, Zenon
  <2> QED BY <2>3, SMTT(30) DEF a
<1>4. z \in Nat
  <2> HIDE DEF p
  <2> QED BY <1>0, <1>2, SMTT(30)
<1>5. u \in Nat /\ 1000 * u <= z /\ z < 1000 * u + 1000
  <2> HIDE DEF p
  <2> DEFINE n == 1000
  <2>1. n \in Nat \ {0}
    BY SMTT(30)
  <2>2. u = z \div n
    BY SMTT(30) DEF Rest
  <2> HIDE DEF n, u, z
  <2>3. u \in Nat /\ n * u <= z /\ z < n * u + n
    BY <1>4, <2>1, <2>2, Quotient, Zenon
  <2> QED BY <2>3, SMTT(30) DEF n
<1> HIDE DEF p, u, b
<1> DEFINE d == w * 1000 - b * p
           c == z - 1000 * u
<1>6. d \in Nat /\ d < b /\ c \in Nat /\ c < 1000
  BY <1>0, <1>1, <1>2, <1>3, <1>4, <1>5, SMTT(30)
<1>7. (1000 - p) * b = 1000 * t + d
  BY <1>0, <1>1, <1>2, SMTT(30) DEF b
<1> DEFINE st == s * t
           sd == s * d
           cb == c * b
           ub == u * b
           et == e * t
           eb == e * b
<1>8. /\ st \in Nat /\ sd \in Nat /\ cb \in Nat /\ ub \in Nat /\ et \in Nat /\ eb \in Nat
      /\ et <= eb
  <2> HIDE DEF d, c
  <2> QED BY <1>0, <1>1, <1>5, <1>6, SMTT(30)
<1>9. 1000 * ub = 1000 * st + sd - cb
  <2> DEFINE whole == z * b
             part == (z - c) * b
  <2>1. 1000 * ub = part
    <3>1. z - c = 1000 * u
      BY <1>0, <1>4, <1>5, SMTT(30)
    <3> HIDE DEF z, c
    <3> QED BY <1>0, <1>1, <1>5, <3>1, SMTT(30)
  <2>2. whole = 1000 * st + sd
    <3>1. z * b = s * ((1000 - p) * b)
      BY <1>0, <1>1, <1>2, SMTT(30)
    <3> HIDE DEF z, d
    <3>2. z * b = s * (1000 * t + d)
      BY <1>0, <1>7, <3>1, SMTT(30)
    <3>3. s * (1000 * t + d) = 1000 * (s * t) + s * d
      BY <1>0, <1>6, SMTT(30)
    <3> QED BY <3>2, <3>3, SMTT(30)
  <2>3. part = whole - cb
    <3> HIDE DEF z, c
    <3> QED BY <1>0, <1>1, <1>4, <1>6, SMTT(30)
  <2> HIDE DEF whole, part, st, sd, ub, cb
  <2> QED BY <1>8, <2>1, <2>2, <2>3, SMTT(30)
<1>10. sd <= 1000000 * b /\ cb <= 1000 * b
  <2> HIDE DEF d, c
  <2>1. sd <= s * b /\ s * b <= 1000000 * b
    BY <1>0, <1>1, <1>6, SMTT(30)
  <2>2. s * b \in Nat
    BY <1>0, <1>1, SMTT(30)
  <2> QED BY <1>0, <1>1, <1>6, <1>8, <2>1, <2>2, SMTT(30)
<1>11. st - 1000000 * v <= 1000 * et /\ 1000000 * v - st <= 1000 * et
  <2>1. Abs(s * t - 1000000 * v) <= 1000 * e * t /\ 1000 * e * t = 1000 * et
    BY <1>0, SMTT(30) DEF Near
  <2>2. Abs(st - 1000000 * v) <= 1000 * et
    BY <1>0, <2>1, SMTT(30)
  <2> HIDE DEF st, et
  <2> QED BY <1>0, <1>8, <2>2, SMTT(30) DEF Abs
<1>12. 1000 * (e + 1) * b = 1000 * eb + 1000 * b
  BY <1>0, <1>1, SMTT(30)
<1>13. /\ ub - 1000000 * v <= 1000 * eb + 1000 * b
       /\ 1000000 * v - ub <= 1000 * eb + 1000 * b
  <2> HIDE DEF st, sd, cb, ub, et, eb
  <2> QED BY <1>0, <1>1, <1>9, <1>8, <1>10, <1>11, SMTT(30)
<1>14. Abs(ub - 1000000 * v) <= 1000 * eb + 1000 * b
  <2> HIDE DEF ub, eb
  <2> QED BY <1>0, <1>1, <1>8, <1>13, SMTT(30) DEF Abs
<1>15. Near(u, v, b, e + 1)
  BY <1>0, <1>12, <1>14, SMTT(30) DEF Near
<1> QED BY <1>15, Zenon DEF u, p, b

\* Of a share what a rule leaves, and what it takes of the whole, is a share.
LEMMA RestShare ==
  \A s \in Millionths, p \in Thousandths : Rest(s, p) \in Millionths
<1> TAKE s \in Millionths, p \in Thousandths
<1> DEFINE z == s * (1000 - p)
           u == Rest(s, p)
<1>1. s \in Nat /\ s <= 1000000 /\ p \in Nat /\ p <= 1000
  <2>1. s \in Millionths /\ p \in Thousandths
    OBVIOUS
  <2> QED BY <2>1, SMTT(30) DEF Millionths, Thousandths
<1>2. z \in Nat /\ z <= 1000 * s
  BY <1>1, SMTT(30)
<1>3. u \in Nat /\ 1000 * u <= z
  <2> DEFINE n == 1000
  <2>1. n \in Nat \ {0}
    BY SMTT(30)
  <2>2. u = z \div n
    BY SMTT(30) DEF Rest
  <2> HIDE DEF n, u, z
  <2>3. u \in Nat /\ n * u <= z
    BY <1>2, <2>1, <2>2, Quotient, Zenon
  <2> QED BY <2>3, SMTT(30) DEF n
<1> HIDE DEF u, z
<1>4. u \in Millionths
  BY <1>1, <1>2, <1>3, SMTT(30) DEF Millionths
<1> QED BY <1>4, Zenon DEF u

LEMMA OwnShare ==
  \A p \in Thousandths : Own(p) \in Millionths
BY SMTT(30) DEF Own, Thousandths, Millionths

\* Nothing of nothing is left.
LEMMA RestOfNothing ==
  0 \in Millionths /\ \A p \in Thousandths : Rest(0, p) = 0
<1>1. 0 \in Millionths
  BY SMTT(30) DEF Millionths
<1>2. ASSUME NEW p \in Thousandths PROVE Rest(0, p) = 0
  <2>1. 0 * (1000 - p) = 0 /\ 0 \div 1000 = 0
    <3>1. p \in Nat
      <4>1. p \in Thousandths
        OBVIOUS
      <4> QED BY <4>1, SMTT(30) DEF Thousandths
    <3> QED BY <3>1, SMTT(30)
  <2> QED BY <2>1, SMTT(30) DEF Rest
<1> QED BY <1>1, <1>2

\* A rule takes its part for its own member, and leaves of the shares of others.
LEMMA TakesCases ==
  ASSUME NEW r, r.prob \in Thousandths, NEW i, NEW x \in Millionths
  PROVE  /\ r.to # i => Takes(r, i, x) = Rest(x, r.prob)
         /\ r.to = i /\ x = 0 => Takes(r, i, x) = Own(r.prob)
<1> DEFINE p == r.prob
           u == Rest(x, p)
           v == Own(p)
<1>1. u \in Millionths /\ v \in Millionths
  BY RestShare, OwnShare, Zenon
<1>2. u \in Nat /\ v \in Nat
  <2> HIDE DEF u, v
  <2> QED BY <1>1, SMTT(30) DEF Millionths
<1>3. Takes(r, i, x) = (IF r.to = i THEN v ELSE 0) + u
  BY Zenon DEF Takes, Rest, Own
<1>4. x = 0 => u = 0
  BY RestOfNothing, Zenon
<1> HIDE DEF u, v
<1>5. r.to # i => Takes(r, i, x) = u
  BY <1>2, <1>3, SMTT(30)
<1>6. r.to = i /\ x = 0 => Takes(r, i, x) = v
  BY <1>2, <1>3, <1>4, SMTT(30)
<1> QED BY <1>5, <1>6, Zenon DEF u, v, p

\* The first member of a metric takes everything.
LEMMA ShareOfAll ==
  \A w \in Nat \ {0} : ShareOf(w, 0) = 1000
<1> TAKE w \in Nat \ {0}
<1>1. (w * 1000) \div (0 + w) = 1000
  <2> DEFINE q == (w * 1000) \div w
             a == w * 1000
  <2>1. a \in Nat /\ w \in Nat \ {0}
    BY SMTT(30)
  <2>2. q \in Nat /\ w * q <= a /\ a < w * q + w
    <3>1. q = a \div w
      BY Zenon
    <3> HIDE DEF q, a
    <3> QED BY <2>1, <3>1, Quotient, Zenon
  <2> HIDE DEF q
  <2>3. w * (q - 1000) <= 0 /\ 0 < w * ((q - 1000) + 1)
    BY <2>2, SMTT(30)
  <2>4. ~(q - 1000 >= 1)
    BY <2>2, <2>3, SMTT(30)
  <2>5. ~(q - 1000 <= -1)
    BY <2>2, <2>3, SMTT(30)
  <2>6. q = 1000
    BY <2>2, <2>4, <2>5, SMTT(30)
  <2> QED BY <2>6, SMTT(30) DEF q
<1> QED BY <1>1, SMTT(30) DEF ShareOf

----------------------------------------------------------------------------
(* The chain shares the traffic out fairly while it is built.              *)

\* What the argument needs of a list of members: one for each interface.
Listed(list) ==
    /\ Len(list) \in Nat
    /\ \A k \in 1..Len(list) : list[k].iface \in Ifaces /\ list[k].weight \in Nat \ {0}
    /\ \A k, l \in 1..Len(list) : list[k].iface = list[l].iface => k = l

\* A rule that is not for a member comes after one that takes everything.
Covered(c) ==
    \A n \in DOMAIN c : c[n].to \notin Ifaces => \E j \in 1..(n - 1) : c[j].prob = 1000

\* The rule of a member alone.
TakesAll(i) == [to |-> i, prob |-> 1000]

\* The members K of a list share a chain in which t is the sum of their weights.
Fair(list, K, t, c) ==
    /\ t = WeightOf(list, K)
    /\ \A i \in Ifaces : Share(c, i) \in Millionths /\ (i \notin Served(c) => Share(c, i) = 0)
    /\ \A k \in K : Near(Share(c, list[k].iface), list[k].weight, t, Cardinality(K) - 1)
    /\ K # {} => Covered(c)

\* The flushed chain gives nothing to anyone.
LEMMA FairFlushed ==
  ASSUME NEW list, Listed(list)
  PROVE  Fair(list, {}, 0, <<LastResort>>)
<1>1. WeightOf(list, {}) = 0
  BY WeightType DEF Listed
<1>2. LastResort.prob \in Thousandths /\ \A i \in Ifaces : LastResort.to # i
  <2>1. LastResort.prob = 1000
    BY DEF LastResort
  <2>2. LastResort.prob \in Thousandths
    BY <2>1, SMTT(30) DEF Thousandths
  <2>3. LastResort.to = "last_resort"
    BY DEF LastResort
  <2>4. \A i \in Ifaces : i # "last_resort"
    BY MembersAssumption, Zenon
  <2> QED BY <2>2, <2>3, <2>4, Zenon
<1>3. ASSUME NEW i \in Ifaces PROVE Share(<<LastResort>>, i) = 0
  <2>1. Share(<<LastResort>>, i) = Takes(LastResort, i, 0)
    BY ShareAlone, Zenon
  <2>2. Takes(LastResort, i, 0) = Rest(0, LastResort.prob)
    BY <1>2, RestOfNothing, TakesCases, Zenon
  <2> QED BY <1>2, <2>1, <2>2, RestOfNothing, Zenon
<1>4. \A i \in Ifaces : Share(<<LastResort>>, i) \in Millionths
  BY <1>3, RestOfNothing, Zenon
<1> QED BY <1>1, <1>3, <1>4, Zenon DEF Fair

\* A member alone in the chain gets everything.
LEMMA FairAlone ==
  ASSUME NEW list, Listed(list), NEW a \in 1..Len(list)
  PROVE  Fair(list, {a}, list[a].weight, <<TakesAll(list[a].iface)>>)
<1> DEFINE r == TakesAll(list[a].iface)
           w == list[a].weight
           q == Own(r.prob)
<1>1. w \in Nat \ {0} /\ list[a].iface \in Ifaces
  BY DEF Listed
<1>2. WeightOf(list, {a}) = w
  <2>1. /\ Len(list) \in Nat /\ \A k \in 1..Len(list) : list[k].weight \in Nat
    BY DEF Listed
  <2>2. WeightOf(list, {}) = 0 /\ a \notin {}
    BY <2>1, WeightType
  <2>3. WeightOf(list, {} \union {a}) = WeightOf(list, {}) + w
    BY <2>1, <2>2, WeightOfOneMore
  <2>4. {} \union {a} = {a}
    OBVIOUS
  <2> HIDE DEF w
  <2> QED BY <1>1, <2>2, <2>3, <2>4
<1>3a. r.prob = 1000
  BY DEF TakesAll
<1>3. r.to = list[a].iface /\ r.prob \in Thousandths
  <2>1. r.to = list[a].iface
    BY DEF TakesAll
  <2> HIDE DEF r
  <2>2. r.prob \in Thousandths
    BY <1>3a, SMTT(30) DEF Thousandths
  <2> QED BY <2>1, <2>2
<1>4. q \in Millionths /\ Near(q, w, w, 0)
  <2>1. q \in Millionths
    BY <1>3, OwnShare, Zenon
  <2>2. Near(q, w, w, 0)
    BY <1>1, <1>3a, SMTT(30) DEF Near, Abs, Own
  <2> QED BY <2>1, <2>2
<1> HIDE DEF r, w, q
<1>5. ASSUME NEW i \in Ifaces
      PROVE  Share(<<r>>, i) = IF i = list[a].iface THEN q ELSE 0
  <2>1. Share(<<r>>, i) = Takes(r, i, 0)
    BY ShareAlone, Zenon
  <2>2. CASE i = list[a].iface
    <3>1. Takes(r, i, 0) = Own(r.prob)
      BY <1>3, <2>2, RestOfNothing, TakesCases, Zenon
    <3> QED BY <2>1, <2>2, <3>1, Zenon DEF q
  <2>3. CASE i # list[a].iface
    <3>1. Takes(r, i, 0) = Rest(0, r.prob)
      BY <1>3, <2>3, RestOfNothing, TakesCases, Zenon
    <3> QED BY <1>3, <2>1, <2>3, <3>1, RestOfNothing, Zenon
  <2> QED BY <2>2, <2>3
<1>6. Served(<<r>>) = {list[a].iface}
  BY <1>1, <1>3, ServedAlone
<1>7. \A i \in Ifaces : Share(<<r>>, i) \in Millionths /\ (i \notin Served(<<r>>) => Share(<<r>>, i) = 0)
  BY <1>4, <1>5, <1>6, RestOfNothing, Zenon
<1>8. Cardinality({a}) - 1 = 0
  <2>1. Cardinality({a}) = 1
    BY FS_Singleton, Zenon
  <2> QED BY <2>1
<1>9. Near(Share(<<r>>, list[a].iface), w, w, Cardinality({a}) - 1)
  BY <1>1, <1>4, <1>5, <1>8, Zenon
<1>10. Covered(<<r>>)
  <2>1. \A n \in DOMAIN <<r>> : n = 1 /\ (<<r>>)[n] = r
    OBVIOUS
  <2> QED BY <1>1, <1>3, <2>1 DEF Covered
<1> QED BY <1>2, <1>7, <1>9, <1>10 DEF Fair, r, w

\* One rule in front of a chain: the rules not for members stay covered, and
\* become so when the rule takes everything.
LEMMA CoveredInFront ==
  ASSUME NEW R, NEW c \in Seq(R), NEW r \in R, r.to \in Ifaces, r.prob = 1000 \/ Covered(c)
  PROVE  Covered(<<r>> \o c)
<1> DEFINE d == <<r>> \o c
<1>1. Len(d) = Len(c) + 1 /\ d[1] = r /\ DOMAIN d = 1..(Len(c) + 1) /\ Len(c) \in Nat
  OBVIOUS
<1>2. \A k \in 2..(Len(c) + 1) : k - 1 \in DOMAIN c /\ d[k] = c[k - 1]
  OBVIOUS
<1>3. \A k \in 1..Len(c) : d[k + 1] = c[k]
  OBVIOUS
<1> HIDE DEF d
<1>4. ASSUME NEW n \in DOMAIN d, d[n].to \notin Ifaces
      PROVE  \E j \in 1..(n - 1) : d[j].prob = 1000
  <2>1. n # 1 /\ n \in 2..(Len(c) + 1)
    BY <1>1, <1>4
  <2>2. CASE r.prob = 1000
    <3>1. 1 \in 1..(n - 1) /\ d[1].prob = 1000
      BY <1>1, <2>1, <2>2
    <3> QED BY <3>1
  <2>3. CASE Covered(c)
    <3>1. n - 1 \in DOMAIN c /\ c[n - 1].to \notin Ifaces
      BY <1>2, <1>4, <2>1
    <3>2. PICK j \in 1..((n - 1) - 1) : c[j].prob = 1000
      BY <2>3, <3>1 DEF Covered
    <3>3. j + 1 \in 1..(n - 1) /\ j \in 1..Len(c)
      BY <1>1, <2>1
    <3>4. d[j + 1].prob = 1000
      BY <1>3, <3>2, <3>3
    <3> QED BY <3>3, <3>4
  <2> QED BY <2>2, <2>3
<1> QED BY <1>4 DEF Covered, d


\* A member in front of its equals: it gets its share, and the others theirs of
\* the rest.
LEMMA FairOneMore ==
  ASSUME NEW list, Listed(list), NEW K, K \subseteq 1..Len(list),
         NEW a \in 1..Len(list), a \notin K,
         NEW t \in Nat, NEW R, NEW c \in Seq(R), Fair(list, K, t, c),
         Served(c) = {list[k].iface : k \in K},
         NEW r \in R, r = SharedRule(list[a].iface, list[a].weight, t)
  PROVE  Fair(list, K \union {a}, t + list[a].weight, <<r>> \o c)
<1> DEFINE w == list[a].weight
           p == ShareOf(w, t)
           d == <<r>> \o c
           L == K \union {a}
<1>1. w \in Nat \ {0} /\ list[a].iface \in Ifaces
  BY DEF Listed
<1>2. p \in Thousandths
  <2> HIDE DEF w
  <2> QED BY <1>1, ShareBound, Zenon
<1>3. r.to = list[a].iface /\ r.prob = p
  BY DEF SharedRule
<1>4. list[a].iface \notin Served(c)
  <2>1. \A k \in K : list[k].iface # list[a].iface
    BY DEF Listed
  <2> QED BY <2>1
<1> HIDE DEF w, p, d
<1>5. ASSUME NEW i \in Ifaces
      PROVE  Share(d, i) = Takes(r, i, Share(c, i)) /\ Share(c, i) \in Millionths
  <2>1. Share(d, i) = Takes(r, i, Share(c, i))
    BY ShareInFront, Zenon DEF d
  <2>2. Share(c, i) \in Millionths
    BY Zenon DEF Fair
  <2> QED BY <2>1, <2>2
<1>6. ASSUME NEW i \in Ifaces, i # list[a].iface
      PROVE  Share(d, i) = Rest(Share(c, i), p)
  BY <1>2, <1>3, <1>5, <1>6, TakesCases, Zenon
<1>7. Share(d, list[a].iface) = Own(p)
  <2>1. Share(c, list[a].iface) = 0
    BY <1>1, <1>4, Zenon DEF Fair
  <2> QED BY <1>1, <1>2, <1>3, <1>5, <2>1, TakesCases, Zenon
<1>8. IsFiniteSet(K) /\ Cardinality(K) \in Nat /\ Cardinality(L) = Cardinality(K) + 1
      /\ (K # {} => Cardinality(K) >= 1)
  <2>1. IsFiniteSet(1..Len(list))
    BY FS_Interval DEF Listed
  <2>2. IsFiniteSet(K)
    BY <2>1, FS_Subset
  <2>3. Cardinality(K) \in Nat /\ (Cardinality(K) = 0 <=> K = {})
    BY <2>2, FS_CardinalityType, FS_EmptySet
  <2>4. Cardinality(L) = Cardinality(K) + 1
    BY <2>2, FS_AddElement
  <2> DEFINE m == Cardinality(K)
  <2>5. ASSUME K # {} PROVE m >= 1
    <3>1. m \in Nat /\ m # 0
      BY <2>3, <2>5
    <3> HIDE DEF m
    <3> QED BY <3>1, SMTT(30)
  <2> QED BY <2>2, <2>3, <2>4, <2>5
<1>9. /\ t = WeightOf(list, K) /\ WeightOf(list, L) = t + w
      /\ (K = {} => t = 0)
  <2>1. Len(list) \in Nat /\ \A k \in 1..Len(list) : list[k].weight \in Nat
    BY DEF Listed
  <2>2. WeightOf(list, L) = WeightOf(list, K) + w
    BY <2>1, WeightOfOneMore DEF w
  <2>3. t = WeightOf(list, K)
    BY DEF Fair
  <2>4. K = {} => WeightOf(list, K) = 0
    BY <2>1, WeightType
  <2> QED BY <2>2, <2>3, <2>4
<1>10. ASSUME NEW i \in Ifaces PROVE Share(d, i) \in Millionths
  <2>1. Share(c, i) \in Millionths
    BY <1>5
  <2>2. Rest(Share(c, i), p) \in Millionths /\ Own(p) \in Millionths
    BY <1>2, <2>1, RestShare, OwnShare, Zenon
  <2>3. CASE i = list[a].iface
    BY <1>7, <2>2, <2>3, Zenon
  <2>4. CASE i # list[a].iface
    BY <1>6, <2>2, <2>4, Zenon
  <2> QED BY <2>3, <2>4
<1>11. ASSUME NEW i \in Ifaces, i \notin Served(d) PROVE Share(d, i) = 0
  <2>1. Served(d) = ({r.to} \intersect Ifaces) \union Served(c)
    BY ServedInFront DEF d
  <2>2. i # list[a].iface /\ i \notin Served(c)
    BY <1>3, <1>11, <2>1
  <2>3. Share(c, i) = 0
    BY <2>2, Zenon DEF Fair
  <2>4. Share(d, i) = Rest(Share(c, i), p)
    BY <1>6, <2>2
  <2>5. Share(d, i) = Rest(0, p)
    BY <2>3, <2>4, Zenon
  <2> QED BY <1>2, <2>5, RestOfNothing, Zenon
<1>12. Near(Share(d, list[a].iface), w, t + w, Cardinality(K))
  <2>1. t = 0 \/ Cardinality(K) >= 1
    BY <1>8, <1>9
  <2>2. Near(Own(ShareOf(w, t)), w, t + w, Cardinality(K))
    BY <1>1, <1>8, <2>1, NearFirst, Zenon
  <2> QED BY <1>7, <2>2, Zenon DEF p
<1>13. ASSUME NEW k \in K
       PROVE  Near(Share(d, list[k].iface), list[k].weight, t + w, Cardinality(K))
  <2>1. list[k].iface \in Ifaces /\ list[k].weight \in Nat /\ list[k].iface # list[a].iface
    BY DEF Listed
  <2>2. Near(Share(c, list[k].iface), list[k].weight, t, Cardinality(K) - 1)
    BY DEF Fair
  <2>3. Share(c, list[k].iface) \in Millionths
    BY <1>5, <2>1
  <2>4. Cardinality(K) - 1 \in Nat /\ (Cardinality(K) - 1) + 1 = Cardinality(K)
    BY <1>8
  <2>5. Near(Rest(Share(c, list[k].iface), ShareOf(w, t)),
             list[k].weight, t + w, (Cardinality(K) - 1) + 1)
    BY <1>1, <2>1, <2>2, <2>3, <2>4, NearRest, Zenon
  <2>6. Share(d, list[k].iface) = Rest(Share(c, list[k].iface), ShareOf(w, t))
    BY <1>6, <2>1, Zenon DEF p
  <2> QED BY <2>4, <2>5, <2>6, Zenon
<1>14. Covered(d)
  <2>1. r.prob = 1000 \/ Covered(c)
    <3>1. CASE K = {}
      <4>1. t = 0
        BY <1>9, <3>1
      <4>2. p = ShareOf(w, 0)
        BY <4>1, Zenon DEF p
      <4>3. p = 1000
        BY <1>1, <4>2, ShareOfAll, SMTT(30)
      <4> QED BY <1>3, <4>3
    <3>2. CASE K # {}
      BY <3>2 DEF Fair
    <3> QED BY <3>1, <3>2
  <2> QED BY <1>1, <1>3, <2>1, CoveredInFront DEF d
<1>15. Cardinality(L) - 1 = Cardinality(K)
  BY <1>8
<1>16. \A k \in L : Near(Share(d, list[k].iface), list[k].weight, t + w, Cardinality(L) - 1)
  <2>1. list[a].weight = w
    BY DEF w
  <2> QED BY <1>12, <1>13, <1>15, <2>1
<1> QED BY <1>9, <1>10, <1>11, <1>14, <1>16 DEF Fair, d, w

\* A rule of an offline member, in front of a chain that serves nobody.
LEMMA FairOut ==
  ASSUME NEW list, NEW t, NEW R, NEW c \in Seq(R), Fair(list, {}, t, c), Served(c) = {},
         NEW r \in R, r = [to |-> "out", prob |-> 0]
  PROVE  Fair(list, {}, t, <<r>> \o c)
<1>1. r.to = "out" /\ r.prob = 0 /\ "out" \notin Ifaces
  BY MembersAssumption
<1>2. r.prob \in Thousandths
  BY <1>1, SMTT(30) DEF Thousandths
<1>3. ASSUME NEW i \in Ifaces PROVE Share(<<r>> \o c, i) = 0
  <2>1. Share(<<r>> \o c, i) = Takes(r, i, Share(c, i))
    BY ShareInFront, Zenon
  <2>2. Share(c, i) = 0 /\ r.to # i
    BY <1>1 DEF Fair
  <2>3. Takes(r, i, 0) = Rest(0, r.prob)
    BY <1>2, <2>2, RestOfNothing, TakesCases, Zenon
  <2> QED BY <1>2, <2>1, <2>2, <2>3, RestOfNothing, Zenon
<1>4. \A i \in Ifaces : Share(<<r>> \o c, i) \in Millionths
  BY <1>3, RestOfNothing, Zenon
<1> QED BY <1>3, <1>4, Zenon DEF Fair


\* The members the chain serves so far.
Serving == {l \in Seen : members[l].metric = lowest}

ShareInv == next >= 1 => Fair(members, Serving, total, chain)

LEMMA MembersListed ==
  ASSUME members \in Policies
  PROVE  Listed(members)
<1>1. members \in Seq(Member) /\ Len(members) \in Nat /\ DOMAIN members = 1..Len(members)
  BY MembersSeq
<1>2. \A k \in DOMAIN members : members[k].iface \in Ifaces /\ members[k].weight \in Nat \ {0}
  BY MembersSeq
<1>3. \A k, l \in DOMAIN members : members[k].iface = members[l].iface => k = l
  BY MetricOf
<1> QED BY <1>1, <1>2, <1>3 DEF Listed

LEMMA ShareSetPolicy ==
  ASSUME Inv, ShareInv, SetPolicy
  PROVE  ShareInv'
<1> DEFINE m == members[next]
           R == [to : RuleTypes, prob : 0..1000]
<1>1. /\ Len(members) \in Nat
      /\ next \in 1..Len(members) /\ next' = next + 1
      /\ members' = members /\ ifaceState' = ifaceState
  BY MembersSeq DEF Inv, ChainType, SetPolicy
<1>2. Listed(members) /\ m.iface \in Ifaces /\ m.metric \in Nat /\ m.weight \in Nat \ {0}
  <2>1. m.metric \in 1..DEFAULT_LOWEST_METRIC /\ m.iface \in Ifaces /\ m.weight \in Nat \ {0}
    BY <1>1, MembersSeq DEF Inv, ChainType
  <2>2. Listed(members)
    BY MembersListed DEF Inv, ChainType
  <2> QED BY <2>1, <2>2 DEF DEFAULT_LOWEST_METRIC
<1>3. chain \in Seq(R) /\ total \in Nat /\ lowest \in Nat
  BY DEF Inv, ChainType, DEFAULT_LOWEST_METRIC
<1>4. /\ Seen' = IF ifaceState[m.iface] = "online" THEN Seen \union {next} ELSE Seen
      /\ Seen \subseteq 1..Len(members) /\ next \notin Seen
  BY <1>1 DEF Seen
<1>5. \A k \in Seen : members[k].metric \in Nat /\ lowest <= members[k].metric
  <2>1. \A k \in 1..Len(members) : members[k].metric \in 1..DEFAULT_LOWEST_METRIC
    BY <1>1, MembersSeq DEF Inv, ChainType
  <2>2. \A k \in Seen : lowest <= members[k].metric
    BY <1>1 DEF Inv, ChainInv
  <2>3. \A k \in 1..Len(members) : members[k].metric \in Nat
    <3>1. 1..DEFAULT_LOWEST_METRIC \subseteq Nat
      BY DEF DEFAULT_LOWEST_METRIC
    <3> QED BY <2>1, <3>1, Zenon
  <2>4. Seen \subseteq 1..Len(members)
    BY <1>4
  <2> QED BY <2>2, <2>3, <2>4, Zenon
<1>6. Served(chain) = {members[k].iface : k \in Serving}
  BY <1>1 DEF Inv, ChainInv, Serving
<1>7. Fair(members, Serving, total, chain)
  BY <1>1 DEF ShareInv
<1>8. Serving \subseteq 1..Len(members) /\ next \notin Serving
  BY <1>4 DEF Serving
<1>9. SUFFICES Fair(members, Serving', total', chain')
  BY <1>1, <1>9 DEF ShareInv, Fair, Served, Covered
<1> HIDE DEF m
<1>10. CASE ifaceState[m.iface] = "online" /\ AddLowest(m)
  <2>1. /\ chain' = <<[to |-> m.iface, prob |-> 1000]>>
        /\ lowest' = m.metric /\ m.metric < lowest /\ total' = m.weight
    BY <1>10 DEF AddLowest
  <2>2. Serving' = {next}
    <3>1. \A k \in Seen : members[k].metric # lowest'
      BY <1>2, <1>3, <1>5, <2>1
    <3>2. members[next].metric = lowest'
      BY <2>1 DEF m
    <3>3. Seen' = Seen \union {next}
      BY <1>4, <1>10
    <3> QED BY <1>1, <3>1, <3>2, <3>3 DEF Serving
  <2>3. chain' = <<TakesAll(members[next].iface)>>
    BY <2>1, Zenon DEF TakesAll, m
  <2>4. Fair(members, {next}, members[next].weight, <<TakesAll(members[next].iface)>>)
    BY <1>1, <1>2, FairAlone, Zenon
  <2>5. total' = members[next].weight
    BY <2>1, Zenon DEF m
  <2> QED BY <2>2, <2>3, <2>4, <2>5, Zenon
<1>11. CASE ifaceState[m.iface] = "online" /\ AddEqual(m)
  <2> DEFINE r == SharedRule(m.iface, m.weight, total)
  <2>1. lowest' = lowest /\ m.metric = lowest /\ total' = total + m.weight
    BY <1>11 DEF AddEqual
  <2>2. chain' = <<r>> \o chain
    <3>1. chain' = <<[to |-> m.iface, prob |-> (m.weight * 1000) \div total']>> \o chain
      BY <1>11, Zenon DEF AddEqual
    <3> QED BY <2>1, <3>1, Zenon DEF SharedRule, ShareOf
  <2>3. r \in R
    <3>1. r \in ShareRules
      BY <1>2, <1>3, SharedRuleType, Zenon
    <3> QED BY <3>1, Zenon DEF ShareRules
  <2>4. Serving' = Serving \union {next}
    <3>1. Seen' = Seen \union {next} /\ members[next].metric = lowest'
      BY <1>4, <1>11, <2>1 DEF m
    <3> QED BY <1>1, <2>1, <3>1 DEF Serving
  <2>5. r = SharedRule(members[next].iface, members[next].weight, total)
    BY Zenon DEF m
  <2> HIDE DEF r, R
  <2>6. Fair(members, Serving \union {next}, total + members[next].weight, <<r>> \o chain)
    BY <1>1, <1>2, <1>3, <1>6, <1>7, <1>8, <2>3, <2>5, FairOneMore, Zenon
  <2> QED BY <2>1, <2>2, <2>4, <2>6, Zenon DEF m
<1>12. CASE ifaceState[m.iface] = "online" /\ SkipHigher(m)
  <2>1. chain' = chain /\ lowest' = lowest /\ m.metric > lowest /\ total' = total
    BY <1>12 DEF SkipHigher
  <2>2. Serving' = Serving
    <3>1. Seen' = Seen \union {next} /\ members[next].metric # lowest'
      BY <1>2, <1>3, <1>4, <1>12, <2>1 DEF m
    <3> QED BY <1>1, <2>1, <3>1 DEF Serving
  <2> QED BY <1>7, <2>1, <2>2
<1>13. CASE ifaceState[m.iface] = "offline" /\ AddOffline(m)
  <2> DEFINE r == [to |-> "out", prob |-> 0]
  <2>1. /\ lowest' = lowest /\ total' = total
        /\ chain' = chain \/ (~HasMember(chain) /\ chain' = <<r>> \o chain)
    BY <1>13 DEF AddOffline
  <2>2. Serving' = Serving
    <3>1. Seen' = Seen
      BY <1>4, <1>13
    <3> QED BY <1>1, <2>1, <3>1 DEF Serving
  <2>3. CASE chain' = chain
    BY <1>7, <2>1, <2>2, <2>3
  <2>4. CASE ~HasMember(chain) /\ chain' = <<r>> \o chain
    <3>1. Served(chain) = {}
      BY <2>4 DEF HasMember, Served
    <3>2. Serving = {}
      BY <1>6, <3>1
    <3>3. r \in R
      BY DEF RuleTypes
    <3>4. r = [to |-> "out", prob |-> 0]
      OBVIOUS
    <3> HIDE DEF r, R
    <3>5. Fair(members, {}, total, chain)
      BY <1>7, <3>2
    <3>6. Fair(members, {}, total, <<r>> \o chain)
      BY <1>3, <3>1, <3>3, <3>4, <3>5, FairOut, Zenon
    <3> QED BY <2>1, <2>2, <2>4, <3>2, <3>6, Zenon
  <2> QED BY <2>1, <2>3, <2>4
<1> QED BY <1>10, <1>11, <1>12, <1>13 DEF SetPolicy, m

LEMMA ShareStep == Inv /\ ShareInv /\ [Next]_vars => ShareInv'
<1> SUFFICES ASSUME Inv, ShareInv, [Next]_vars PROVE ShareInv'
  OBVIOUS
<1>1. ASSUME NEW i \in Ifaces,
             NEW act \in {"connected", "disconnected", "ifup", "ifdown"}, Handle(act, i)
      PROVE  ShareInv'
  <2>1. next' = 0
    BY <1>1, Zenon DEF Handle
  <2>2. ~(next' >= 1)
    BY <2>1
  <2> QED BY <2>2 DEF ShareInv
<1>2. CASE Flush
  <2>1. chain' = <<LastResort>> /\ total' = 0 /\ next' = 1 /\ members' = members
    BY <1>2 DEF Flush
  <2>2. Serving' = {}
    BY <2>1 DEF Serving, Seen
  <2>3. Fair(members, {}, 0, <<LastResort>>)
    BY FairFlushed, MembersListed DEF Inv, ChainType
  <2>4. Fair(members', Serving', total', chain')
    BY <2>1, <2>2, <2>3, Zenon
  <2> QED BY <2>4 DEF ShareInv, Fair, Served, Covered
<1>3. CASE Finish \/ UNCHANGED vars
  <2>1. UNCHANGED <<members, ifaceState, next, lowest, total, chain>>
    BY <1>3 DEF Finish, vars
  <2>2. Serving' = Serving
    BY <2>1 DEF Serving, Seen
  <2> QED BY <2>1, <2>2 DEF ShareInv, Fair, Served, Covered
<1> QED BY <1>1, <1>2, <1>3, ShareSetPolicy DEF Next

\* Built to the end, the chain shares the traffic out by weight.
LEMMA InvShares == Inv /\ ShareInv => SharesFollowWeights
<1> SUFFICES ASSUME Inv, ShareInv, Idle, Best # {}
             PROVE  /\ \A k \in Best :
                         Abs(Share(chain, members[k].iface) * WeightOf(members, Best)
                             - 1000000 * members[k].weight)
                           <= 1000 * (Cardinality(Best) - 1) * WeightOf(members, Best)
                    /\ Covered(chain)
  BY DEF SharesFollowWeights, Covered
<1>1. Built /\ next >= 1
  BY MembersSeq DEF Inv, ChainType, ChainInv, Built
<1>2. /\ Seen = OnlineMembers /\ lowest \in Nat
      /\ \A k \in OnlineMembers : lowest <= members[k].metric /\ members[k].metric \in Nat
      /\ lowest # DEFAULT_LOWEST_METRIC => \E k \in Seen : members[k].metric = lowest
      /\ \A k \in OnlineMembers : members[k].metric <= DEFAULT_LOWEST_METRIC
  BY <1>1, FrontIsBest DEF Inv, ChainInv, DEFAULT_LOWEST_METRIC
<1>3. Serving = Best
  BY <1>2 DEF Serving, Best, DEFAULT_LOWEST_METRIC
<1>4. Fair(members, Best, total, chain)
  BY <1>1, <1>3 DEF ShareInv
<1> QED BY <1>4 DEF Fair, Near

\* mwan3_set_policy (mwan3.sh:536-628) computes each probability by an integer
\* division from the weights met so far, and prepends the rule to those before.
\* For any number of members, any weights and any order of the list, what every
\* serving member gets of the traffic is the part its weight has in the sum, up
\* to a thousandth for each other one, and no rule for the last resort or an
\* offline member is reached.
THEOREM TrafficFollowsWeights == Spec => []SharesFollowWeights
<1>1. Init => Inv /\ ShareInv
  <2>1. Init => ShareInv
    <3> SUFFICES ASSUME Init PROVE ShareInv
      OBVIOUS
    <3>1. next = 0
      BY Zenon DEF Init
    <3>2. ~(next >= 1)
      BY <3>1
    <3> QED BY <3>2 DEF ShareInv
  <2> QED BY <2>1, InvInit
<1>2. Inv /\ ShareInv /\ [Next]_vars => Inv' /\ ShareInv'
  BY InvStep, ShareStep
<1>3. Inv /\ ShareInv => SharesFollowWeights
  BY InvShares
<1> QED BY <1>1, <1>2, <1>3, PTL DEF Spec
============================================================================
