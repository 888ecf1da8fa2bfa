---------------------------- MODULE Mwan3Policy ----------------------------
(***************************************************************************)
(* mwan3: how the handler rebuilds a policy, the iptables chain that gives *)
(* new connections to the members that are online, and what it then tells  *)
(* the user about failover (patches/912).                                  *)
(*                                                                         *)
(* Every member is committed by an iptables-restore of its own, and        *)
(* traffic passes between two commits, so each commit is a step.  The      *)
(* service lock keeps all other handlers out until the last one.  The      *)
(* chain is the one of the family ipv4 and of the policy mwan_default;     *)
(* initial_state is "online", so every handler that runs rebuilds it.      *)
(***************************************************************************)
EXTENDS Integers, Sequences, FiniteSets

CONSTANTS
    Ifaces,      \* the enabled interfaces; each has a member <iface>_member_mwan
    Metrics,     \* option metric of a member
    Weights      \* option weight of a member

DEFAULT_LOWEST_METRIC == 256

ASSUME MembersAssumption ==
    /\ IsFiniteSet(Ifaces)
    /\ Ifaces \intersect {"last_resort", "out", ""} = {}
    /\ Metrics \subseteq 1..DEFAULT_LOWEST_METRIC
    /\ Weights \subseteq Nat \ {0}

VARIABLES
    members,     \* the list use_member of the policy, in its order
    ifaceState,  \* /var/run/mwan3/iface_state/<interface>
    action,      \* what the handler was called with: <<action, interface>>
    next,        \* the member to be committed next; 0 before the flush
    lowest,      \* lowest_metric_v4
    total,       \* total_weight_v4
    chain,       \* the rules of mwan3_policy_<policy>, first to last
    activeWan,   \* /var/run/mwan3/active_wan
    said         \* what this handler wrote to the failover log

vars == <<members, ifaceState, action, next, lowest, total, chain, activeWan,
          said>>

Member  == [iface : Ifaces, metric : Metrics, weight : Weights]
Policies == {m \in [1..Cardinality(Ifaces) -> Member] :
               {m[k].iface : k \in DOMAIN m} = Ifaces}

Entries == {"main", "backup", "switching", "no backups"}

\* A rule marks what it matches for an interface, for the last resort, or
\* ("out") what leaves by the device of an offline member; prob in 1/1000.
Rule == [to : Ifaces \union {"last_resort", "out"}, prob : 0..1000]

LastResort == [to |-> "last_resort", prob |-> 1000]

\* No handler is running.
Idle == action[1] = "none"
Built == next = Len(members) + 1

\* Every variable has its type; the probability of a rule, a quotient of sums
\* of weights, stays within 0..1000 as iptables demands.
TypeOK ==
    /\ members \in Policies
    /\ ifaceState \in [Ifaces -> {"online", "offline"}]
    /\ action \in {"start", "connected", "disconnected", "ifup", "ifdown", "none"}
                  \X (Ifaces \union {"all"})
    /\ next \in 0..(Len(members) + 1)
    /\ lowest \in 1..DEFAULT_LOWEST_METRIC
    /\ total \in Nat
    /\ chain \in Seq(Rule)
    /\ activeWan \in Ifaces \union {""}
    /\ said \in Entries \X (Ifaces \union {""}) \union {<<"", "">>}

Metric(i) == (CHOOSE m \in Member : \E k \in DOMAIN members :
                 m = members[k] /\ m.iface = i).metric

-----------------------------------------------------------------------------

\* A handler takes the lock and notes the state of its interface.
Handle(act, i) ==
    /\ Idle
    /\ ifaceState' = [ifaceState EXCEPT ![i] =
          IF act \in {"connected", "ifup"} THEN "online" ELSE "offline"]
    /\ action' = <<act, i>>
    /\ next' = 0
    /\ said' = <<"", "">>
    /\ UNCHANGED <<members, lowest, total, chain, activeWan>>

\* mwan3_create_policies_iptables: the chain without its members.
Flush ==
    /\ ~Idle
    /\ next = 0
    /\ chain' = <<LastResort>>
    /\ lowest' = DEFAULT_LOWEST_METRIC
    /\ total' = 0
    /\ next' = 1
    /\ UNCHANGED <<members, ifaceState, action, activeWan, said>>

HasMember(c) == \E k \in DOMAIN c : c[k].to \in Ifaces

\* Seeded fault: the weights of members with a higher metric stay in the sum.
AddLowest_bug(m) ==
    /\ m.metric < lowest
    /\ lowest' = m.metric
    /\ total' = total + m.weight
    /\ chain' = <<[to |-> m.iface, prob |-> 1000]>>
    /\ activeWan' = m.iface

\* An online member of a lower metric than those before replaces them all.
AddLowest(m) ==
    /\ m.metric < lowest
    /\ lowest' = m.metric
    /\ total' = m.weight
    /\ chain' = <<[to |-> m.iface, prob |-> 1000]>>
    /\ activeWan' = m.iface

\* Seeded fault: the share is taken of the sum of the others.
AddEqual_bug(m) ==
    /\ m.metric = lowest
    /\ total' = total + m.weight
    /\ chain' = <<[to |-> m.iface,
                   prob |-> (m.weight * 1000) \div (IF total = 0 THEN m.weight ELSE total)]>> \o chain
    /\ UNCHANGED <<lowest, activeWan>>

\* One of the same metric gets its share in front of them.
AddEqual(m) ==
    /\ m.metric = lowest
    /\ total' = total + m.weight
    /\ chain' = <<[to |-> m.iface, prob |-> (m.weight * 1000) \div total']>> \o chain
    /\ UNCHANGED <<lowest, activeWan>>

\* Seeded fault: a member of a higher metric takes what the others leave.
SkipHigher_bug(m) ==
    /\ m.metric > lowest
    /\ chain' = chain \o <<[to |-> m.iface, prob |-> 1000]>>
    /\ UNCHANGED <<lowest, total, activeWan>>

\* One of a higher metric is left out.
SkipHigher(m) ==
    /\ m.metric > lowest
    /\ UNCHANGED <<lowest, total, chain, activeWan>>

\* An offline one with a device keeps what is bound to that device out of the
\* policy, unless a member is there already.
AddOffline(m) ==
    /\ chain' \in {chain, IF HasMember(chain) THEN chain
                          ELSE <<[to |-> "out", prob |-> 0]>> \o chain}
    /\ UNCHANGED <<lowest, total, activeWan>>

\* mwan3_set_policy
SetPolicy ==
    /\ ~Idle
    /\ next \in DOMAIN members
    /\ LET m == members[next] IN
       \/ /\ ifaceState[m.iface] = "online"
          /\ AddLowest(m) \/ AddEqual(m) \/ SkipHigher(m)
       \/ /\ ifaceState[m.iface] = "offline"
          /\ AddOffline(m)
    /\ next' = next + 1
    /\ UNCHANGED <<members, ifaceState, action, said>>

Say(entry, i) == said' = <<entry, i>>

\* Seeded fault: whoever connects while the main WAN is away is the backup.
SetEvent_bug(i) ==
    \/ /\ \A j \in Ifaces : Metric(i) <= Metric(j)
       /\ activeWan' = i
       /\ Say("main", i)
    \/ /\ \E j \in Ifaces : Metric(j) < Metric(i)
       /\ \/ UNCHANGED <<activeWan, said>>
          \/ /\ activeWan' = i
             /\ Say("backup", i)

\* mwan3_set_event: a WAN of the lowest metric is the main one; another is
\* the backup unless the tracker of a main WAN says online or the active WAN
\* is better.
SetEvent(i) ==
    \/ /\ \A j \in Ifaces : Metric(i) <= Metric(j)
       /\ activeWan' = i
       /\ Say("main", i)
    \/ /\ \E j \in Ifaces : Metric(j) < Metric(i)
       /\ \/ UNCHANGED <<activeWan, said>>
          \/ /\ ~(activeWan # "" /\ Metric(activeWan) < Metric(i))
             /\ activeWan' = i
             /\ Say("backup", i)

\* mwan3_set_fail_event
SetFailEvent(i) ==
    /\ \/ /\ \E j \in Ifaces : ifaceState[j] = "online"
          /\ IF activeWan # "" /\ Metric(activeWan) < Metric(i)
             THEN UNCHANGED said
             ELSE Say("switching", activeWan)
       \/ /\ \A j \in Ifaces : ifaceState[j] = "offline"
          /\ Say("no backups", i)
    /\ UNCHANGED activeWan

\* The end of the handler, which gives the lock back.
Finish ==
    /\ ~Idle
    /\ Built
    /\ \/ action[1] = "connected" /\ SetEvent(action[2])
       \/ action[1] = "disconnected" /\ SetFailEvent(action[2])
       \/ action[1] \in {"start", "ifup", "ifdown"} /\ UNCHANGED <<activeWan, said>>
    /\ action' = <<"none", "all">>
    /\ UNCHANGED <<members, ifaceState, next, lowest, total, chain>>

-----------------------------------------------------------------------------

\* start_service, before mwan3_set_policies_iptables.
Init ==
    /\ members \in Policies
    /\ ifaceState \in [Ifaces -> {"online", "offline"}]
    /\ action = <<"start", "all">>
    /\ next = 0
    /\ lowest = DEFAULT_LOWEST_METRIC
    /\ total = 0
    /\ chain = <<>>
    /\ activeWan = ""
    /\ said = <<"", "">>

Next ==
    \/ \E i \in Ifaces, act \in {"connected", "disconnected", "ifup", "ifdown"} :
          Handle(act, i)
    \/ Flush
    \/ SetPolicy
    \/ Finish

Spec == Init /\ [][Next]_vars

-----------------------------------------------------------------------------
(* Properties                                                              *)

OnlineMembers == {k \in DOMAIN members : ifaceState[members[k].iface] = "online"}

\* The members that should serve: the online ones of the lowest metric.
Best == {k \in OnlineMembers :
           \A l \in OnlineMembers : members[k].metric <= members[l].metric}

BestIfaces == {members[k].iface : k \in Best}

Served(c) == {c[k].to : k \in DOMAIN c} \intersect Ifaces

\* When the lock is free, the chain routes over the online members of the
\* lowest metric and no others, whatever their order in the list.
RoutesBest == Idle => Served(chain) = BestIfaces

\* In millionths: what of the traffic that reaches the k-th rule of a chain
\* goes to interface i.  A rule takes its probability and leaves the rest to
\* the rules after it.  Exact up to three members.
ShareFrom(c, i) ==
    LET from[k \in 1..(Len(c) + 1)] ==
          IF k = Len(c) + 1 THEN 0
          ELSE (IF c[k].to = i THEN 1000 * c[k].prob ELSE 0)
               + (from[k + 1] * (1000 - c[k].prob)) \div 1000
    IN  from

Share(c, i) == ShareFrom(c, i)[1]

\* The weights of the members K of a list, added up along the list.
WeightUpTo(list, K) ==
    LET sum[k \in 0..Len(list)] ==
          IF k = 0 THEN 0
          ELSE sum[k - 1] + (IF k \in K THEN list[k].weight ELSE 0)
    IN  sum

WeightOf(list, K) == WeightUpTo(list, K)[Len(list)]

Abs(n) == IF n < 0 THEN -n ELSE n

\* A member gets the share of its weight in the sum of the weights, up to one
\* thousandth for each of the other members that serve; nothing reaches the
\* last resort or the rules of offline members.
SharesFollowWeights ==
    Idle /\ Best # {} =>
      /\ \A k \in Best :
           LET all == WeightOf(members, Best) IN
           Abs(Share(chain, members[k].iface) * all - 1000000 * members[k].weight)
             <= 1000 * (Cardinality(Best) - 1) * all
      /\ \A n \in DOMAIN chain :
           chain[n].to \notin Ifaces => \E j \in 1..(n - 1) : chain[j].prob = 1000

\* No member of the default metric serves alone: the code takes it for an
\* equal of nothing and does not write ACTIVE_WAN.
BelowDefault == \E k \in Best : members[k].metric < DEFAULT_LOWEST_METRIC

\* After every handler ACTIVE_WAN names a WAN that serves, and the failover
\* log tells the truth: the WAN it says traffic was switched to serves, and
\* there is no backup left only when none is online.
AnnouncementsTrue ==
    /\ Idle /\ BelowDefault => activeWan \in BestIfaces
    /\ said[1] \in {"main", "backup"} => said[2] \in BestIfaces
    /\ said[1] = "switching" =>
         OnlineMembers # {} /\ (BelowDefault => said[2] \in BestIfaces)
    /\ said[1] = "no backups" => OnlineMembers = {}
============================================================================
