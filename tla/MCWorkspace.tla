---------------------------- MODULE MCWorkspace -----------------------------
(* Instance of WorkspaceRecords for TLC.                                   *)
EXTENDS WorkspaceViews, TLC

CONSTANTS
  s1, s2, s3, m1, m2, p, q, i1, i2, o1, o2, a, b, c, g1, g2, here, there,
  k1, k2, p1, p2, x1, x2, x3, core,
  MaxRecords      \* bound on the records of the structure there are at once

MCTeamSeason == p1 :> k1 @@ p2 :> k2
MCProjectOf == core :> p1
MCCalendarSeason == x1 :> k1 @@ x2 :> k1 @@ x3 :> k2

\* bounds on how many records each facet holds at once
FewPlaces ==
  /\ Cardinality(Present \ Cores) + Cardinality(Mounted) + Cardinality(Instances)
       + Cardinality(Open) + Cardinality(Bought)
       <= IF Mounted = Mechanisms /\ defined = {} THEN MaxRecords + 1 ELSE MaxRecords
  /\ Cardinality(Bought) <= 1
FewPurchases ==
  /\ Cardinality(Buying!Requested) + Cardinality(Buying!Stocked) + Cardinality(Buying!Known) <= 3
  /\ Cardinality(Buying!Requested) = 2 =>
       \A i \in Purchases : item[i].material # None /\ item[i].definition = None /\ ~item[i].service
  /\ \A m \in Buying!Stocked : material[m].onHand <= MaxQuantity + 1
Staffed == {s \in TeamSubsystems : staff[s] # [engineer |-> None, mentors |-> {}]}
FewPeople == facet = "people" =>
  LET all == Cardinality(People!People) + Len(teams)
      work == Cardinality(People!Assigned) + Cardinality(Staffed)
  IN  /\ all + work <= 4 /\ work <= 2
      /\ \/ /\ work = 0 /\ Cardinality(People!People) <= 2
            /\ \A n \in DOMAIN teams : teams[n].projects = {}
         \/ /\ Len(teams) <= 1 /\ all <= 3
            /\ \A n \in People!People : member[n].active = {k1}
FewDates ==
  Cardinality(Dates!Planned) + Cardinality(Dates!Held) + Cardinality(Dates!Scheduled)
    + Cardinality({w \in Workstreams : workstream[w] # None})
    + Cardinality({r \in Results : result[r] # None}) <= 3

\* Ids are interchangeable: a permutation of one facet's acts on another's too.
Member == s1 :> a @@ s2 :> b @@ s3 :> c
Named(x, names) == CHOOSE s \in DOMAIN names : names[s] = x
Along(f, names) == [x \in {names[s] : s \in DOMAIN names} |-> names[f[Named(x, names)]]]
Threes == {f @@ Along(f, Member) : f \in Permutations({s1, s2, s3})}
Twos == {f @@ Along(f, m1 :> i1 @@ m2 :> i2) @@ Along(f, m1 :> g1 @@ m2 :> g2) : f \in Permutations({m1, m2})}
Others == {f @@ Along(f, p :> o1 @@ q :> o2) : f \in Permutations({p, q})}
Interchangeable == {f @@ g @@ h : f \in Threes, g \in Twos, h \in Others}
=============================================================================
