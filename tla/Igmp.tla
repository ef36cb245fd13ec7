-------------------------------- MODULE Igmp --------------------------------
(***************************************************************************)
(* Multicast membership (core/ipv4/igmp.c) on the interfaces of the        *)
(* device: igmp_group_list as a function from interfaces and groups to the *)
(* fields of struct igmp_group.  The wire is one step: a message is sent   *)
(* or heard whole.                                                         *)
(***************************************************************************)
EXTENDS Integers, Sequences, FiniteSets

CONSTANTS
  Netifs,       \* the interfaces, in the order of netif_list
  Groups,       \* multicast addresses applications join
  AllSystems,   \* 224.0.0.1, joined by igmp_start
  JoinDelay,    \* IGMP_JOIN_DELAYING_MEMBER_TMR, in calls of igmp_tmr
  V1Delay,      \* IGMP_V1_DELAYING_MEMBER_TMR
  MaxResps,     \* the response times a query may give, 0 is version 1
  MaxUse        \* bound: joins of one group

IgmpAssumption ==
  /\ AllSystems \notin Groups
  /\ JoinDelay \in Nat \ {0} /\ V1Delay \in Nat \ {0} /\ MaxResps \subseteq Nat

Ifs == {Netifs[k] : k \in DOMAIN Netifs}
All == Groups \union {AllSystems}

VARIABLES
  started,   \* interfaces that are on netif_list, after igmp_start
  group,     \* [interface, group] -> its struct igmp_group
  filter,    \* what igmp_mac_filter let through, per interface
  reporter,  \* history: who reported the group last, since it was made
  due,       \* history: calls of igmp_tmr until a query must be answered, or -1
  left       \* the groups the last step sent a leave for

igmpVars == <<started, group, filter, reporter, due, left>>

\* No such group on the list.
Absent == [listed |-> FALSE, timer |-> 0, state |-> "NON", last |-> FALSE, use |-> 0]
New == [Absent EXCEPT !.listed = TRUE]

IgmpInit ==
  /\ started = {}
  /\ group = [k \in Ifs \X All |-> Absent]
  /\ filter = [n \in Ifs |-> {}]
  /\ reporter = [k \in Ifs \X All |-> "nobody"]
  /\ due = [k \in Ifs \X All |-> -1]
  /\ left = {}

\* The values igmp_start_timer may draw: never 0, and below max unless max
\* is at most 1.
Timers(max) == IF max <= 1 THEN {1} ELSE 1 .. max - 1

\* A member whose timer has run out once is not asked again.
DelayedOnce(e, maxresp, t) ==
  IF \/ e.state = "IDLE"
     \/ e.state = "DELAYING" /\ maxresp < e.timer
    THEN [e EXCEPT !.timer = t, !.state = "DELAYING"] ELSE e

\* igmp_delaying_member: the group's timer, restarted unless it runs out
\* early enough already.
Delayed(e, maxresp, t) ==
  IF \/ e.state = "IDLE"
     \/ e.state = "DELAYING" /\ (e.timer = 0 \/ maxresp < e.timer)
    THEN [e EXCEPT !.timer = t, !.state = "DELAYING"] ELSE e

\* igmp_send of a report, with the memory for it or without.
Reported(e, mem) == [e EXCEPT !.last = e.last \/ mem]

\* igmp_start, from netif_add, which ignores that there may be no memory.
igmp_start(n, mem) ==
  /\ n \notin started
  /\ started' = started \union {n}
  /\ group' = [group EXCEPT ![<<n, AllSystems>>] =
                 IF mem THEN [New EXCEPT !.state = "IDLE", !.use = 1] ELSE @]
  /\ filter' = [filter EXCEPT ![n] = IF mem THEN {AllSystems} ELSE {}]
  /\ reporter' = [reporter EXCEPT ![<<n, AllSystems>>] = "nobody"]
  /\ left' = {}
  /\ UNCHANGED due

\* igmp_stop, from netif_remove: every group of the interface goes.
igmp_stop(n) ==
  /\ n \in started
  /\ started' = started \ {n}
  /\ group' = [k \in Ifs \X All |-> IF k[1] = n THEN Absent ELSE group[k]]
  /\ filter' = [filter EXCEPT ![n] = {}]
  /\ due' = [k \in Ifs \X All |-> IF k[1] = n THEN -1 ELSE due[k]]
  /\ left' = {}
  /\ UNCHANGED reporter

\* Ask the groups of K to report within maxresp, each with its own timer.
DelayingMembers(K, maxresp) ==
  \E t \in [K -> Timers(maxresp)] :
    group' = [k \in Ifs \X All |->
                IF k \in K THEN Delayed(group[k], maxresp, t[k]) ELSE group[k]]

Listed(n) == {k \in {n} \X All : group[k].listed}

\* igmp_report_groups, when the interface or its link comes up: all groups,
\* the all-systems group too.
igmp_report_groups(n) ==
  /\ n \in started
  /\ DelayingMembers(Listed(n), JoinDelay)
  /\ left' = {}
  /\ UNCHANGED <<started, filter, reporter, due>>

Sooner(a, b) == IF a = -1 \/ b < a THEN b ELSE a

\* The groups of K were asked to answer within maxresp.
Asked(K, maxresp) ==
  due' = [k \in Ifs \X All |->
            IF k \in K THEN Sooner(due[k], IF maxresp = 0 THEN 1 ELSE maxresp) ELSE due[k]]

\* igmp_input: a query for every group, to the all-systems address.
GeneralQuery(n, maxresp) ==
  LET max == IF maxresp = 0 THEN V1Delay ELSE maxresp
      K == {k \in Listed(n) : k[2] # AllSystems}
  IN  /\ group[<<n, AllSystems>>].listed
      /\ DelayingMembers(K, max)
      /\ Asked(K, max)
      /\ left' = {}
      /\ UNCHANGED <<started, filter, reporter>>

\* igmp_input: a query for one group.
GroupQuery(n, g, maxresp) ==
  /\ n \in started /\ group[<<n, g>>].listed
  /\ DelayingMembers({<<n, g>>}, maxresp)
  /\ Asked({<<n, g>>}, maxresp)
  /\ left' = {}
  /\ UNCHANGED <<started, filter, reporter>>

\* igmp_input: a report of another host.
HeardReport(e) ==
  IF e.state = "DELAYING" THEN [e EXCEPT !.timer = 0, !.state = "IDLE", !.last = FALSE]
  ELSE e

igmp_report(n, g) ==
  /\ n \in started /\ group[<<n, g>>].listed
  /\ group' = [group EXCEPT ![<<n, g>>] = HeardReport(@)]
  /\ reporter' = [reporter EXCEPT ![<<n, g>>] = "other"]
  /\ due' = [due EXCEPT ![<<n, g>>] = -1]
  /\ left' = {}
  /\ UNCHANGED <<started, filter>>

\* igmp_joingroup on the interfaces of the list up to the first whose group
\* cannot be allocated.
JoinedOn(got) ==
  {Netifs[k] : k \in {j \in DOMAIN Netifs :
                        /\ Netifs[j] \in started
                        /\ \A i \in 1 .. j : Netifs[i] \in started => Netifs[i] \in got}}

igmp_joingroup(g, got, mem) ==
  LET K == {<<n, g>> : n \in JoinedOn(got \union {n \in started : group[<<n, g>>].listed})}
      fresh == {k \in K : group[k].state = "NON"}
  IN  /\ \A k \in K : group[k].use < MaxUse
      /\ \E t \in [fresh -> Timers(JoinDelay)] :
           group' = [k \in Ifs \X All |->
                       IF k \in fresh
                         THEN Reported([New EXCEPT !.timer = t[k], !.state = "DELAYING",
                                                   !.use = 1], mem)
                       ELSE IF k \in K THEN [group[k] EXCEPT !.use = @ + 1]
                       ELSE group[k]]
      /\ filter' = [n \in Ifs |-> IF <<n, g>> \in fresh THEN filter[n] \union {g} ELSE filter[n]]
      /\ reporter' = [k \in Ifs \X All |->
                        IF k \in fresh THEN IF mem THEN "us" ELSE "nobody" ELSE reporter[k]]
      /\ left' = {}
      /\ UNCHANGED <<started, due>>

\* igmp_leavegroup on every interface: the last user removes the group, and
\* tells the routers when this host reported last.
igmp_leavegroup(g, mem) ==
  LET K == {<<n, g>> : n \in started} \intersect {k \in Ifs \X All : group[k].listed}
      gone == {k \in K : group[k].use <= 1}
  IN  /\ group' = [k \in Ifs \X All |->
                     IF k \in gone THEN Absent
                     ELSE IF k \in K THEN [group[k] EXCEPT !.use = @ - 1]
                     ELSE group[k]]
      /\ filter' = [n \in Ifs |-> IF <<n, g>> \in gone THEN filter[n] \ {g} ELSE filter[n]]
      /\ left' = IF mem THEN {k \in gone : group[k].last} ELSE {}
      /\ due' = [k \in Ifs \X All |-> IF k \in gone THEN -1 ELSE due[k]]
      /\ UNCHANGED <<started, reporter>>

\* igmp_tmr with igmp_timeout: the state stays DELAYING after the report.
igmp_tmr(mem) ==
  LET fires == {k \in Ifs \X All : group[k].timer = 1}
      sends == {k \in fires : group[k].state = "DELAYING"}
  IN  /\ group' = [k \in Ifs \X All |->
                     LET e == [group[k] EXCEPT !.timer = IF @ > 0 THEN @ - 1 ELSE 0]
                     IN  IF k \in sends THEN Reported(e, mem) ELSE e]
      /\ reporter' = [k \in Ifs \X All |-> IF k \in sends /\ mem THEN "us" ELSE reporter[k]]
      /\ due' = [k \in Ifs \X All |->
                   IF k \in sends \/ due[k] = -1 THEN -1 ELSE due[k] - 1]
      /\ left' = {}
      /\ UNCHANGED <<started, filter>>

IgmpNext ==
  \/ \E n \in Ifs :
       \/ \E mem \in BOOLEAN : igmp_start(n, mem)
       \/ igmp_stop(n)
       \/ igmp_report_groups(n)
       \/ \E r \in MaxResps : GeneralQuery(n, r) \/ \E g \in Groups : GroupQuery(n, g, r)
       \/ \E g \in Groups : igmp_report(n, g)
  \/ \E g \in Groups, mem \in BOOLEAN :
       \/ \E got \in SUBSET Ifs : igmp_joingroup(g, got, mem)
       \/ igmp_leavegroup(g, mem)
  \/ \E mem \in BOOLEAN : igmp_tmr(mem)

IgmpSpec == IgmpInit /\ [][IgmpNext]_igmpVars

-----------------------------------------------------------------------------
\* igmp_delaying_member and igmp_tmr: a query is answered, by this host or
\* another, before its response time is over (a report that found no memory
\* counts as answered); and what leaves the MAC filter and who told the
\* routers last (last_reporter_flag) agree with the list at every moment.
MembershipSound ==
  /\ \A k \in Ifs \X All :
       /\ due[k] # 0
       /\ group[k].listed => (group[k].last <=> reporter[k] = "us")
       /\ group[k].listed => group[k].use > 0
  /\ \A n \in Ifs : filter[n] = {g \in All : group[<<n, g>>].listed}
=============================================================================
