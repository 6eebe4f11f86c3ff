---------------------------- MODULE PullingProofs ----------------------------
(***************************************************************************)
(* The receivers' pulls are single, their claims pursued, and their         *)
(* acknowledgements true and final: for every set of receivers and keys,    *)
(* any number of pullers, attempts, requests and faults.                    *)
(***************************************************************************)
EXTENDS Pulling, FiniteSetTheorems, WellFoundedInduction, NaturalsInduction, TLAPS

-----------------------------------------------------------------------------
(* Facts about finite sets of numbers.                                       *)

LEMMA LeastOf ==
  ASSUME NEW S \in SUBSET Nat, S # {}
  PROVE  \E m \in S : \A x \in S : ~(x < m)
  <1> DEFINE R == OpToRel(<, Nat)
  <1>1. IsWellFoundedOn(R, Nat)
    BY NatLessThanWellFounded
  <1>2. PICK m \in S : \A x \in S : ~(<<x, m>> \in R)
    BY <1>1, WFMin
  <1>3. \A x \in S : <<x, m>> \in R <=> x < m
    BY DEF OpToRel
  <1> QED
    BY <1>2, <1>3

HasGreatest(S) == \E m \in S : \A x \in S : x <= m

\* By the least size of a set without a greatest element.
LEMMA GreatestOf ==
  ASSUME NEW S \in SUBSET Nat, IsFiniteSet(S), S # {}
  PROVE  HasGreatest(S)
  <1> DEFINE Without(c) == \E T \in SUBSET Nat : /\ IsFiniteSet(T) /\ T # {} /\ Cardinality(T) = c
                                                 /\ ~HasGreatest(T)
             Bad == {c \in Nat : Without(c)}
  <1>1. Bad \subseteq Nat
    OBVIOUS
  <1>2. ASSUME Bad # {} PROVE FALSE
    <2> HIDE DEF Bad
    <2>1. PICK c \in Bad : \A b \in Bad : ~(b < c)
      BY <1>1, <1>2, LeastOf
    <2>2. PICK T \in SUBSET Nat : IsFiniteSet(T) /\ T # {} /\ Cardinality(T) = c /\ ~HasGreatest(T)
      BY <2>1 DEF Bad
    <2>3. PICK x \in T : TRUE
      BY <2>2
    <2>4. IsFiniteSet(T \ {x}) /\ Cardinality(T \ {x}) = c - 1
      BY <2>2, <2>3, FS_RemoveElement
    <2>5. c - 1 \in Nat /\ c \in Nat
      BY <1>1, <2>1, <2>4, FS_CardinalityType
    <2>6. T \ {x} # {}
      BY <2>2, <2>3 DEF HasGreatest
    <2>7. HasGreatest(T \ {x})
      <3>1. c - 1 \notin Bad
        BY <2>1, <2>5
      <3> QED
        BY <2>2, <2>4, <2>5, <2>6, <3>1 DEF Bad
    <2>8. PICK m \in T \ {x} : \A y \in T \ {x} : y <= m
      BY <2>7 DEF HasGreatest
    <2>9. CASE m <= x
      <3>1. \A y \in T : y <= x
        BY <2>2, <2>3, <2>8, <2>9
      <3> QED
        BY <2>2, <2>3, <3>1 DEF HasGreatest
    <2>10. CASE ~(m <= x)
      <3>1. \A y \in T : y <= m
        BY <2>2, <2>3, <2>8, <2>10
      <3> QED
        BY <2>2, <2>8, <3>1 DEF HasGreatest
    <2> QED
      BY <2>9, <2>10
  <1>3. Cardinality(S) \in Nat
    BY FS_CardinalityType
  <1> QED
    BY <1>2, <1>3

\* Of a finite set, at most n elements have fewer than n below them.
LEMMA LowestFew ==
  ASSUME NEW R \in SUBSET Nat, IsFiniteSet(R), NEW n \in Nat,
         NEW T, T = {k \in R : Cardinality({j \in R : j < k}) < n}
  PROVE  IsFiniteSet(T) /\ Cardinality(T) \in Nat /\ Cardinality(T) <= n
  <1>1. T \in SUBSET R /\ IsFiniteSet(T) /\ Cardinality(T) \in Nat
    <2>1. T \in SUBSET R
      OBVIOUS
    <2> QED
      BY <2>1, FS_Subset, FS_CardinalityType
  <1>2. CASE T = {}
    <2>1. Cardinality(T) = 0
      BY <1>1, <1>2, FS_EmptySet
    <2> QED
      BY <1>1, <2>1
  <1>3. CASE T # {}
    <2>1. PICK m \in T : \A x \in T : x <= m
      BY <1>1, <1>3, GreatestOf DEF HasGreatest
    <2> DEFINE Below == {j \in R : j < m}
    <2>2. T \ {m} \in SUBSET Below
      <3>1. ASSUME NEW k \in T \ {m} PROVE k \in R /\ k < m
        <4>1. k \in R /\ m \in R /\ k <= m /\ k # m
          BY <1>1, <2>1
        <4> QED
          BY <4>1
      <3> QED
        BY <3>1
    <2>3. IsFiniteSet(Below) /\ Cardinality(Below) \in Nat
      <3>1. Below \in SUBSET R
        OBVIOUS
      <3> QED
        BY <3>1, FS_Subset, FS_CardinalityType
    <2>4. Cardinality(Below) < n
      BY <2>1
    <2> HIDE DEF Below
    <2>5. Cardinality(T \ {m}) <= Cardinality(Below)
      BY <2>2, <2>3, FS_Subset
    <2>6. Cardinality(T \ {m}) = Cardinality(T) - 1
      BY <1>1, <2>1, FS_RemoveElement
    <2> QED
      BY <1>1, <2>3, <2>4, <2>5, <2>6
  <1> QED
    BY <1>2, <1>3

LEMMA ImageOf ==
  ASSUME NEW S, IsFiniteSet(S), NEW f, DOMAIN f = S
  PROVE  /\ IsFiniteSet({f[x] : x \in S}) /\ Cardinality({f[x] : x \in S}) \in Nat
         /\ Cardinality({f[x] : x \in S}) <= Cardinality(S)
  <1> DEFINE T == {f[x] : x \in S}
             g == [x \in S |-> f[x]]
  <1>1. g \in Surjection(S, T)
    BY DEF Surjection
  <1> QED
    BY <1>1, FS_Surjection, FS_CardinalityType

-----------------------------------------------------------------------------
(* What a process has in hand.                                               *)

\* One pull each, one item for a key in a reply, and room for everything.
Tidy(p) ==
  /\ ~p.up => p = Down
  /\ \A i, j \in p.offered : i.key = j.key => i = j
  /\ IsFiniteSet(p.offered) /\ IsFiniteSet(p.queued) /\ IsFiniteSet(p.pulling)
  /\ \A i, j \in InFlight(p) : SameObject(i, j) => i = j
  /\ p.queued \cap Handled(p) = {}
  /\ Cardinality(InFlight(p)) + Cardinality(p.offered) <= Room

SameHand(p, q) == q.offered = p.offered /\ q.queued = p.queued /\ q.pulling = p.pulling
Same(p, q) == SameHand(p, q) /\ q.acks = p.acks

LEMMA ReportOf ==
  ASSUME NEW p \in Procs, NEW n \in DOMAIN p.acks
  PROVE  p.acks[n].item \in Items
  <1>1. ASSUME NEW T, NEW s \in Seq(T), NEW m \in DOMAIN s PROVE s[m] \in T
    OBVIOUS
  <1>2. p.acks \in Seq([item : Items, ok : BOOLEAN])
    BY DEF Procs
  <1>3. p.acks[n] \in [item : Items, ok : BOOLEAN]
    BY <1>1, <1>2
  <1> QED
    BY <1>3

LEMMA InFlightFinite ==
  ASSUME NEW p, IsFiniteSet(p.queued), IsFiniteSet(p.pulling)
  PROVE  IsFiniteSet(InFlight(p)) /\ Cardinality(InFlight(p)) \in Nat
  <1>1. IsFiniteSet(Handled(p))
    <2> DEFINE f == [x \in p.pulling |-> x.item]
    <2>1. {f[x] : x \in p.pulling} = Handled(p)
      BY DEF Handled
    <2>2. DOMAIN f = p.pulling
      OBVIOUS
    <2> HIDE DEF f
    <2> QED
      BY <2>1, <2>2, ImageOf
  <1> QED
    BY <1>1, FS_Union, FS_CardinalityType DEF InFlight

LEMMA DownTidy == Down \in Procs /\ Tidy(Down) /\ [Down EXCEPT !.up = TRUE] \in Procs
                    /\ Tidy([Down EXCEPT !.up = TRUE]) /\ Same(Down, [Down EXCEPT !.up = TRUE])
  <1>1. ASSUME NEW p, p.offered = {}, p.queued = {}, p.pulling = {}, p.up \/ p = Down
        PROVE  Tidy(p)
    <2>1. InFlight(p) = {} /\ Handled(p) = {}
      BY <1>1 DEF InFlight, Handled
    <2>2. Cardinality(InFlight(p)) = 0 /\ Cardinality(p.offered) = 0
      BY <1>1, <2>1, FS_EmptySet
    <2> QED
      BY <1>1, <2>1, <2>2, FS_EmptySet, BoundsAssumption DEF Tidy, Room
  <1>2. Down.offered = {} /\ Down.queued = {} /\ Down.pulling = {} /\ Down \in Procs
    BY DEF Down, Procs
  <1>3. /\ [Down EXCEPT !.up = TRUE].up /\ [Down EXCEPT !.up = TRUE] \in Procs
        /\ Same(Down, [Down EXCEPT !.up = TRUE])
    BY <1>2 DEF Procs, Same, SameHand
  <1> QED
    BY <1>1, <1>2, <1>3 DEF Same, SameHand

\* Neither the drain flag nor the reports matter.
LEMMA SameTidy ==
  ASSUME NEW p, NEW q, Tidy(p), SameHand(p, q), q.up
  PROVE  Tidy(q)
  <1>1. InFlight(q) = InFlight(p) /\ Handled(q) = Handled(p)
    BY DEF SameHand, InFlight, Handled
  <1> QED
    BY <1>1 DEF Tidy, SameHand

LEMMA QueueingTidy ==
  ASSUME NEW p \in Procs, Tidy(p), p.offered # {}
  PROVE  LET q == Queueing(p)
         IN /\ q \in Procs /\ Tidy(q) /\ q.up = p.up
            /\ InFlight(q) = InFlight(p) \cup Fresh(p) /\ q.offered = {}
            /\ q.acks = p.acks /\ q.pulling = p.pulling
  <1> DEFINE q == Queueing(p)
  <1>1. /\ q \in Procs /\ q.up = p.up /\ q.offered = {} /\ q.acks = p.acks /\ q.pulling = p.pulling
        /\ q.queued = p.queued \cup Fresh(p)
    BY DEF Procs, Queueing, Fresh
  <1>2. Fresh(p) \in SUBSET p.offered /\ \A i \in Fresh(p), j \in InFlight(p) : ~SameObject(i, j)
    BY DEF Fresh
  <1> HIDE DEF q
  <1>3. InFlight(q) = InFlight(p) \cup Fresh(p) /\ Handled(q) = Handled(p)
    BY <1>1 DEF InFlight, Handled
  <1>4. p.up
    BY DEF Tidy, Down
  <1>5. \A i, j \in InFlight(q) : SameObject(i, j) => i = j
    BY <1>2, <1>3 DEF Tidy, SameObject
  <1>6. q.queued \cap Handled(q) = {}
    <2>1. Handled(p) \subseteq InFlight(p)
      BY DEF InFlight
    <2> QED
      BY <1>1, <1>2, <1>3, <2>1 DEF Tidy, SameObject
  <1>7. /\ IsFiniteSet(Fresh(p)) /\ Cardinality(Fresh(p)) \in Nat /\ Cardinality(p.offered) \in Nat
        /\ Cardinality(Fresh(p)) <= Cardinality(p.offered)
    BY <1>2, FS_Subset, FS_CardinalityType DEF Tidy
  <1>8. IsFiniteSet(InFlight(p)) /\ Cardinality(InFlight(p)) \in Nat
    BY InFlightFinite DEF Tidy
  <1>9. IsFiniteSet(q.queued)
    <2>1. IsFiniteSet(p.queued)
      BY DEF Tidy
    <2> QED
      BY <1>1, <1>7, <2>1, FS_Union
  <1>10. /\ IsFiniteSet(InFlight(q)) /\ Cardinality(InFlight(q)) \in Nat
         /\ Cardinality(InFlight(q)) <= Cardinality(InFlight(p)) + Cardinality(Fresh(p))
    <2>1. Cardinality(InFlight(p) \cap Fresh(p)) \in Nat
      BY <1>8, FS_Intersection, FS_CardinalityType
    <2>2. /\ IsFiniteSet(InFlight(p) \cup Fresh(p))
          /\ Cardinality(InFlight(p) \cup Fresh(p))
               = Cardinality(InFlight(p)) + Cardinality(Fresh(p)) - Cardinality(InFlight(p) \cap Fresh(p))
      BY <1>7, <1>8, FS_Union
    <2>3. Cardinality(InFlight(p) \cup Fresh(p)) \in Nat
      BY <2>2, FS_CardinalityType
    <2> QED
      BY <1>3, <1>7, <1>8, <2>1, <2>2, <2>3
  <1>11. Cardinality(q.offered) = 0 /\ IsFiniteSet(q.offered)
    BY <1>1, FS_EmptySet
  <1>12. Cardinality(InFlight(q)) + Cardinality(q.offered) <= Room
    BY <1>7, <1>8, <1>10, <1>11, BoundsAssumption DEF Tidy, Room
  <1>13. Tidy(q)
    BY <1>1, <1>4, <1>5, <1>6, <1>9, <1>11, <1>12 DEF Tidy
  <1> QED
    BY <1>1, <1>3, <1>13 DEF q

LEMMA OpeningTidy ==
  ASSUME NEW p \in Procs, Tidy(p), NEW i \in p.queued, NEW got \in Bytes, PullerFree(p)
  PROVE  LET q == Opening(p, i, got)
         IN /\ q \in Procs /\ Tidy(q) /\ q.up = p.up
            /\ InFlight(q) = InFlight(p) /\ q.offered = p.offered /\ q.acks = p.acks
            /\ q.pulling = p.pulling \cup {[item |-> i, got |-> got]}
            /\ Cardinality(q.pulling) <= Pullers
  <1> DEFINE q == Opening(p, i, got)
             x == [item |-> i, got |-> got]
  <1>1. i \in Items /\ x \in [item : Items, got : Bytes] /\ x.item = i
    BY DEF Procs
  <1> HIDE DEF x
  <1>2. /\ q \in Procs /\ q.up = p.up /\ q.offered = p.offered /\ q.acks = p.acks
        /\ q.queued = p.queued \ {i} /\ q.pulling = p.pulling \cup {x}
    BY <1>1 DEF Procs, Opening, x
  <1> HIDE DEF q
  <1>3. Handled(q) = Handled(p) \cup {i}
    BY <1>1, <1>2 DEF Handled
  <1>4. InFlight(q) = InFlight(p)
    BY <1>2, <1>3 DEF InFlight
  <1>5. q.queued \cap Handled(q) = {}
    BY <1>2, <1>3 DEF Tidy
  <1>6. IsFiniteSet(q.queued)
    BY <1>2, FS_RemoveElement DEF Tidy
  <1>7. IsFiniteSet(q.pulling) /\ Cardinality(q.pulling) <= Pullers
    <2>1. /\ IsFiniteSet(p.pulling \cup {x})
          /\ Cardinality(p.pulling \cup {x})
               = IF x \in p.pulling THEN Cardinality(p.pulling) ELSE Cardinality(p.pulling) + 1
      BY FS_AddElement DEF Tidy
    <2>2. Cardinality(p.pulling) \in Nat
      BY FS_CardinalityType DEF Tidy
    <2> QED
      BY <1>2, <2>1, <2>2, BoundsAssumption DEF PullerFree
  <1>8. p.up
    BY DEF Tidy, Down
  <1>9. Tidy(q)
    BY <1>2, <1>4, <1>5, <1>6, <1>7, <1>8 DEF Tidy
  <1> QED
    BY <1>2, <1>4, <1>7, <1>9 DEF q, x

LEMMA ReportingTidy ==
  ASSUME NEW p \in Procs, Tidy(p), NEW x \in p.pulling, NEW ok \in BOOLEAN
  PROVE  LET q == Reporting(p, x, ok)
         IN /\ q \in Procs /\ Tidy(q) /\ q.up = p.up /\ q.offered = p.offered
            /\ q.queued = p.queued /\ q.pulling = p.pulling \ {x}
            /\ InFlight(p) \ {x.item} \subseteq InFlight(q) /\ InFlight(q) \subseteq InFlight(p)
            /\ q.acks = Append(p.acks, [item |-> x.item, ok |-> ok])
            /\ IsFiniteSet(p.pulling)
  <1> DEFINE q == Reporting(p, x, ok)
             rep == [item |-> x.item, ok |-> ok]
  <1>1. rep \in [item : Items, ok : BOOLEAN]
    BY DEF Procs
  <1> HIDE DEF rep
  <1> DEFINE more == Append(p.acks, rep)
  <1>a. more \in Seq([item : Items, ok : BOOLEAN])
    BY <1>1 DEF Procs
  <1> HIDE DEF more
  <1>b. q = [p EXCEPT !.pulling = @ \ {x}, !.acks = more]
    BY DEF Reporting, more, rep
  <1>2. /\ q \in Procs /\ q.up = p.up /\ q.offered = p.offered /\ q.acks = more
        /\ q.queued = p.queued /\ q.pulling = p.pulling \ {x}
    BY <1>a, <1>b DEF Procs
  <1> HIDE DEF q
  <1>3. Handled(q) \subseteq Handled(p) /\ Handled(p) \ {x.item} \subseteq Handled(q)
    BY <1>2 DEF Handled
  <1>4. InFlight(q) \subseteq InFlight(p) /\ InFlight(p) \ {x.item} \subseteq InFlight(q)
    BY <1>2, <1>3 DEF InFlight
  <1>5. \A i, j \in InFlight(q) : SameObject(i, j) => i = j
    BY <1>4 DEF Tidy
  <1>6. q.queued \cap Handled(q) = {}
    BY <1>2, <1>3 DEF Tidy
  <1>7. IsFiniteSet(q.pulling) /\ IsFiniteSet(q.queued) /\ IsFiniteSet(q.offered) /\ IsFiniteSet(p.pulling)
    BY <1>2, FS_RemoveElement DEF Tidy
  <1>8. p.up
    BY DEF Tidy, Down
  <1>9. IsFiniteSet(InFlight(p)) /\ Cardinality(InFlight(p)) \in Nat
    BY InFlightFinite DEF Tidy
  <1>10. Cardinality(InFlight(q)) \in Nat /\ Cardinality(InFlight(q)) <= Cardinality(InFlight(p))
    BY <1>4, <1>9, FS_Subset, FS_CardinalityType
  <1>11. Cardinality(p.offered) \in Nat
    BY FS_CardinalityType DEF Tidy
  <1>12. Cardinality(InFlight(q)) + Cardinality(q.offered) <= Room
    BY <1>2, <1>9, <1>10, <1>11, BoundsAssumption DEF Tidy, Room
  <1>13. Tidy(q)
    BY <1>2, <1>5, <1>6, <1>7, <1>8, <1>12 DEF Tidy
  <1> QED
    BY <1>2, <1>4, <1>7, <1>13 DEF q, rep, more

LEMMA DroppingTidy ==
  ASSUME NEW p \in Procs, Tidy(p), p.up
  PROVE  LET q == [p EXCEPT !.offered = {}]
         IN q \in Procs /\ Tidy(q) /\ q.up = p.up /\ InFlight(q) = InFlight(p) /\ q.acks = p.acks
              /\ q.offered = {} /\ q.pulling = p.pulling
  <1> DEFINE q == [p EXCEPT !.offered = {}]
  <1>1. /\ q \in Procs /\ q.up = p.up /\ q.acks = p.acks /\ q.offered = {}
        /\ q.queued = p.queued /\ q.pulling = p.pulling
    BY DEF Procs
  <1> HIDE DEF q
  <1>2. InFlight(q) = InFlight(p) /\ Handled(q) = Handled(p)
    BY <1>1 DEF InFlight, Handled
  <1>3. Cardinality(q.offered) = 0 /\ IsFiniteSet(q.offered)
    BY <1>1, FS_EmptySet
  <1>4. Cardinality(p.offered) \in Nat /\ Cardinality(InFlight(p)) \in Nat
    BY InFlightFinite, FS_CardinalityType DEF Tidy
  <1>5. Cardinality(InFlight(q)) + Cardinality(q.offered) <= Room
    BY <1>2, <1>3, <1>4, BoundsAssumption DEF Tidy, Room
  <1>6. Tidy(q)
    BY <1>1, <1>2, <1>3, <1>5 DEF Tidy
  <1> QED
    BY <1>1, <1>2, <1>6 DEF q

LEMMA OfferingTidy ==
  ASSUME NEW p \in Procs, Tidy(p), p.up, p.offered = {},
         NEW S \in SUBSET Items, \A i, j \in S : i.key = j.key => i = j,
         IsFiniteSet(S), Cardinality(S) <= Free(p)
  PROVE  LET q == [p EXCEPT !.offered = S]
         IN q \in Procs /\ Tidy(q) /\ q.up = p.up /\ InFlight(q) = InFlight(p) /\ q.acks = p.acks
              /\ q.offered = S /\ q.pulling = p.pulling
  <1> DEFINE q == [p EXCEPT !.offered = S]
  <1>1. /\ q \in Procs /\ q.up = p.up /\ q.acks = p.acks /\ q.offered = S
        /\ q.queued = p.queued /\ q.pulling = p.pulling
    BY DEF Procs
  <1> HIDE DEF q
  <1>2. InFlight(q) = InFlight(p) /\ Handled(q) = Handled(p)
    BY <1>1 DEF InFlight, Handled
  <1>3. Cardinality(S) \in Nat /\ Cardinality(InFlight(p)) \in Nat
    BY InFlightFinite, FS_CardinalityType DEF Tidy
  <1>4. Cardinality(InFlight(q)) + Cardinality(q.offered) <= Room
    BY <1>1, <1>2, <1>3, BoundsAssumption DEF Free, Room
  <1>5. Tidy(q)
    BY <1>1, <1>2, <1>4 DEF Tidy
  <1> QED
    BY <1>1, <1>2, <1>5 DEF q

-----------------------------------------------------------------------------
(* What a batch of reports leaves of the rows.                               *)

Reports == [item : Items, ok : BOOLEAN]

\* f has the rows after none, one, ... n of the reports.
Stepwise(f, r, reports, n) ==
  f = [m \in 0..n |-> IF m = 0 THEN row ELSE Applied(r, f[m - 1], reports[m])]

\* By the least length for which there is no such function.
LEMMA StepwiseExists ==
  ASSUME NEW r, NEW reports, NEW n \in Nat
  PROVE  \E f : Stepwise(f, r, reports, n)
  <1> DEFINE Bad == {m \in Nat : ~\E f : Stepwise(f, r, reports, m)}
  <1>1. Bad \subseteq Nat
    OBVIOUS
  <1>2. ASSUME Bad # {} PROVE FALSE
    <2> HIDE DEF Bad
    <2>1. PICK m \in Bad : \A b \in Bad : ~(b < m)
      BY <1>1, <1>2, LeastOf
    <2>2. m \in Nat /\ ~\E f : Stepwise(f, r, reports, m)
      BY <2>1 DEF Bad
    <2>3. CASE m = 0
      <3> DEFINE g == [k \in 0..0 |-> row]
      <3>1. g = [k \in 0..0 |-> IF k = 0 THEN row ELSE Applied(r, g[k - 1], reports[k])]
        OBVIOUS
      <3> QED
        BY <2>2, <2>3, <3>1 DEF Stepwise
    <2>4. CASE m # 0
      <3>1. m - 1 \in Nat /\ m - 1 < m
        BY <2>2, <2>4
      <3>2. m - 1 \notin Bad
        BY <2>1, <3>1
      <3>3. PICK f : Stepwise(f, r, reports, m - 1)
        BY <3>1, <3>2 DEF Bad
      <3> DEFINE g == [k \in 0..m |-> IF k = m THEN Applied(r, f[m - 1], reports[m]) ELSE f[k]]
                 h == [k \in 0..m |-> IF k = 0 THEN row ELSE Applied(r, g[k - 1], reports[k])]
      <3>4. ASSUME NEW k \in 0..m PROVE g[k] = h[k]
        <4>1. CASE k = m
          <5>1. g[m - 1] = f[m - 1]
            BY <3>1, <2>2
          <5> QED
            BY <4>1, <5>1, <2>4
        <4>2. CASE k # m
          <5>1. k \in 0..(m - 1)
            BY <4>2, <2>2
          <5>2. f[k] = IF k = 0 THEN row ELSE Applied(r, f[k - 1], reports[k])
            BY <3>3, <5>1 DEF Stepwise
          <5>3. CASE k = 0
            BY <4>2, <5>2, <5>3
          <5>4. CASE k # 0
            <6>1. k - 1 \in 0..m /\ k - 1 # m
              BY <5>1, <5>4, <2>2
            <6>2. g[k - 1] = f[k - 1]
              BY <6>1
            <6> QED
              BY <4>2, <5>2, <5>4, <6>2
          <5> QED
            BY <5>3, <5>4
        <4> QED
          BY <4>1, <4>2
      <3>5. g = h
        BY <3>4
      <3>6. Stepwise(g, r, reports, m)
        BY <3>5 DEF Stepwise
      <3> QED
        BY <2>2, <3>6
    <2> QED
      BY <2>3, <2>4
  <1> QED
    BY <1>2

LEMMA RowsAfterSteps ==
  ASSUME NEW r, NEW reports, Len(reports) \in Nat
  PROVE  Stepwise(RowsAfter(r, reports), r, reports, Len(reports))
  BY StepwiseExists DEF RowsAfter, Stepwise

\* One row o, after the first n of the reports of r.
Follows(q, o, r, k, reports, n) ==
  /\ q \in Rows /\ q.id = o.id
  /\ q = o \/ (q.by = NoReceiver /\ o.acked = NoReceiver)
  /\ q.acked # o.acked =>
       /\ q.acked = r
       /\ \E m \in 1..n : /\ reports[m].ok /\ reports[m].item.key = k
                          /\ reports[m].item.bytes = attempt
  /\ \A m \in 1..n :
       reports[m].item = [key |-> k, id |-> o.id, bytes |-> attempt] =>
         q.by = NoReceiver \/ q.acked # NoReceiver

LEMMA OneReport ==
  ASSUME NEW o \in Rows, NEW r \in Receivers, NEW rep \in Reports
  PROVE  LET q == Reported(r, o, rep)
         IN /\ q \in Rows /\ q.id = o.id
            /\ q = o \/ (q.by = NoReceiver /\ o.acked = NoReceiver)
            /\ q.acked # o.acked => q.acked = r /\ rep.ok /\ rep.item.bytes = attempt
            /\ rep.item.id = o.id /\ rep.item.bytes = attempt =>
                 q.by = NoReceiver \/ q.acked # NoReceiver
  <1> DEFINE q == Reported(r, o, rep)
  <1>1. /\ Freed(o) \in Rows /\ Freed(o).id = o.id /\ Freed(o).by = NoReceiver
        /\ Freed(o).acked = o.acked /\ Freed(o).failed = o.failed
    BY DEF Rows, Freed
  <1>2. CASE q = o /\ ~(rep.item.id = o.id /\ rep.item.bytes = attempt /\ o.acked = NoReceiver)
    BY <1>2
  <1>3. CASE rep.item.id = o.id /\ ~rep.ok /\ o.acked = NoReceiver
    <2>1. q = Bumped(o)
      BY <1>3 DEF Reported, Failed
    <2> DEFINE n == IF Freed(o).failed < MaxFailures THEN Freed(o).failed + 1 ELSE Freed(o).failed
    <2>2. n \in 0..MaxFailures
      BY <1>1, BoundsAssumption DEF Rows
    <2>3. Bumped(o) = [Freed(o) EXCEPT !.failed = n]
      BY DEF Bumped
    <2> HIDE DEF n
    <2>4. /\ Bumped(o) \in Rows /\ Bumped(o).id = o.id /\ Bumped(o).by = NoReceiver
          /\ Bumped(o).acked = o.acked
      BY <1>1, <2>2, <2>3 DEF Rows
    <2> QED
      BY <1>3, <2>1, <2>4
  <1>4. CASE rep.item.id = o.id /\ rep.ok /\ rep.item.bytes = attempt /\ o.acked = NoReceiver
    <2>1. q = [Freed(o) EXCEPT !.acked = r]
      BY <1>4 DEF Reported
    <2>2. q \in Rows /\ q.id = o.id /\ q.by = NoReceiver /\ q.acked = r
      BY <1>1, <2>1 DEF Rows
    <2> QED
      BY <1>4, <2>2
  <1>5. rep.ok \in BOOLEAN
    BY DEF Reports
  <1> HIDE DEF q
  <1>6. \/ q = o /\ ~(rep.item.id = o.id /\ rep.item.bytes = attempt /\ o.acked = NoReceiver)
        \/ rep.item.id = o.id /\ ~rep.ok /\ o.acked = NoReceiver
        \/ rep.item.id = o.id /\ rep.ok /\ rep.item.bytes = attempt /\ o.acked = NoReceiver
    BY <1>5 DEF q, Reported, Failed
  <1> QED
    BY <1>2, <1>3, <1>4, <1>6 DEF q

\* The next report, on whichever row.
LEMMA NextReport ==
  ASSUME NEW o \in Rows, NEW r \in Receivers, NEW k \in Keys, NEW reports, NEW n \in Nat \ {0},
         reports[n] \in Reports, NEW q, Follows(q, o, r, k, reports, n - 1),
         NEW z, z = IF reports[n].item.key = k THEN Reported(r, q, reports[n]) ELSE q
  PROVE  Follows(z, o, r, k, reports, n)
  <1>1. \A m \in 1..n : m = n \/ m \in 1..(n - 1)
    OBVIOUS
  <1>2. n \in 1..n /\ 1..(n - 1) \subseteq 1..n
    OBVIOUS
  <1>3. CASE reports[n].item.key # k
    <2>1. z = q
      BY <1>3
    <2>2. reports[n].item # [key |-> k, id |-> o.id, bytes |-> attempt]
      BY <1>3
    <2> QED
      BY <1>1, <1>2, <2>1, <2>2 DEF Follows
  <1>4. CASE reports[n].item.key = k
    <2>1. q \in Rows
      BY DEF Follows
    <2>2. /\ z \in Rows /\ z.id = q.id
          /\ z = q \/ (z.by = NoReceiver /\ q.acked = NoReceiver)
          /\ z.acked # q.acked => z.acked = r /\ reports[n].ok /\ reports[n].item.bytes = attempt
          /\ reports[n].item.id = q.id /\ reports[n].item.bytes = attempt =>
               z.by = NoReceiver \/ z.acked # NoReceiver
      BY <1>4, <2>1, OneReport
    <2>3. z \in Rows /\ z.id = o.id
      BY <2>2 DEF Follows
    <2>4. z = o \/ (z.by = NoReceiver /\ o.acked = NoReceiver)
      BY <2>2 DEF Follows
    <2>5. z.acked # o.acked =>
            /\ z.acked = r
            /\ \E m \in 1..n : /\ reports[m].ok /\ reports[m].item.key = k
                               /\ reports[m].item.bytes = attempt
      BY <1>2, <1>4, <2>2 DEF Follows
    <2>6. ASSUME NEW m \in 1..n, reports[m].item = [key |-> k, id |-> o.id, bytes |-> attempt]
          PROVE  z.by = NoReceiver \/ z.acked # NoReceiver
      <3>1. CASE m = n
        BY <2>2, <2>6, <3>1 DEF Follows
      <3>2. CASE m \in 1..(n - 1)
        <4>1. q.by = NoReceiver \/ q.acked # NoReceiver
          BY <2>6, <3>2 DEF Follows
        <4> QED
          BY <2>2, <4>1
      <3> QED
        BY <1>1, <3>1, <3>2
    <2> QED
      BY <2>3, <2>4, <2>5, <2>6 DEF Follows
  <1> QED
    BY <1>3, <1>4

LEMMA RowsFollow ==
  ASSUME row \in [Keys -> Rows], NEW r \in Receivers, NEW reports \in Seq(Reports),
         NEW t, t = RowsAfter(r, reports)[Len(reports)]
  PROVE  /\ t \in [Keys -> Rows]
         /\ \A k \in Keys : Follows(t[k], row[k], r, k, reports, Len(reports))
  <1> DEFINE L == Len(reports)
  <1>0. L \in Nat /\ \A m \in 1..L : reports[m] \in Reports
    OBVIOUS
  <1> HIDE DEF L
  <1>1. PICK f : f = RowsAfter(r, reports)
    OBVIOUS
  <1>2. Stepwise(f, r, reports, L)
    BY <1>0, <1>1, RowsAfterSteps DEF L
  <1> DEFINE Right(m) == /\ f[m] \in [Keys -> Rows]
                         /\ \A k \in Keys : Follows(f[m][k], row[k], r, k, reports, m)
             Wrong == {m \in 0..L : ~Right(m)}
  <1>3. Right(0)
    <2>1. f[0] = row
      BY <1>0, <1>2 DEF Stepwise
    <2>2. \A k \in Keys : Follows(row[k], row[k], r, k, reports, 0)
      BY DEF Follows
    <2> QED
      BY <2>1, <2>2
  <1>4. ASSUME NEW m \in 1..L, Right(m - 1) PROVE Right(m)
    <2>1. f[m] = Applied(r, f[m - 1], reports[m])
      BY <1>0, <1>2 DEF Stepwise
    <2>2. reports[m] \in Reports /\ reports[m].item.key \in Keys
      BY <1>0 DEF Reports, Items
    <2> DEFINE u == f[m - 1]
               c == reports[m].item.key
    <2>3. u \in [Keys -> Rows] /\ \A k \in Keys : Follows(u[k], row[k], r, k, reports, m - 1)
      BY <1>4
    <2>4. f[m] = [u EXCEPT ![c] = Reported(r, u[c], reports[m])]
      BY <2>1 DEF Applied
    <2> HIDE DEF u
    <2>5. \A k \in Keys : f[m][k] = IF c = k THEN Reported(r, u[k], reports[m]) ELSE u[k]
      BY <2>2, <2>3, <2>4
    <2>6. ASSUME NEW k \in Keys PROVE Follows(f[m][k], row[k], r, k, reports, m)
      <3>1. m \in Nat \ {0}
        BY <1>0
      <3> QED
        BY <2>2, <2>3, <2>5, <3>1, NextReport
    <2>7. f[m] \in [Keys -> Rows]
      <3>1. \A k \in Keys : f[m][k] \in Rows
        BY <2>6 DEF Follows
      <3> QED
        BY <2>2, <2>3, <2>4, <3>1
    <2> QED
      BY <2>6, <2>7
  <1> HIDE DEF Right
  <1>5. ASSUME Wrong # {} PROVE FALSE
    <2>1. Wrong \subseteq Nat
      BY <1>0
    <2>a. Wrong = {m \in 0..L : ~Right(m)}
      OBVIOUS
    <2> HIDE DEF Wrong
    <2>2. PICK m \in Wrong : \A b \in Wrong : ~(b < m)
      BY <1>5, <2>1, LeastOf
    <2>3. m \in 0..L /\ ~Right(m)
      BY <2>2, <2>a
    <2>4. m # 0
      BY <1>3, <2>3
    <2>5. m \in 1..L /\ m - 1 \in 0..L /\ m - 1 < m
      BY <1>0, <2>3, <2>4
    <2>6. Right(m - 1)
      BY <2>2, <2>5, <2>a
    <2> QED
      BY <1>4, <2>3, <2>5, <2>6
  <1>6. Right(L)
    BY <1>0, <1>5
  <1>7. t = f[L]
    BY <1>1 DEF L
  <1> QED
    BY <1>6, <1>7 DEF Right, L

-----------------------------------------------------------------------------
(* The invariant.                                                            *)

IInv == TypeOK /\ PullInv

TypedProcs ==
  /\ proc \in [Receivers -> Procs]
  /\ \A r \in Receivers : Cardinality(proc[r].pulling) <= Pullers /\ Len(proc[r].acks) <= MaxReports

TypedRest ==
  /\ granule \in {"uploaded", "acked", "pending"}
  /\ attempt \in 1..MaxAttempts
  /\ row \in [Keys -> Rows]
  /\ host \in [Keys -> Bytes]
  /\ receiver \in [Receivers -> {"absent", "enabled", "disabled"}]
  /\ restart \subseteq Receivers
  /\ disk \in [Receivers -> [Keys -> Bytes]]
  /\ overtaken \subseteq Receivers \X Keys
  /\ trouble \in 0..MaxTrouble

LEMMA TypeParts == TypeOK <=> TypedProcs /\ TypedRest
  BY Zenon DEF TypeOK, TypedProcs, TypedRest

LEMMA AllTidy == OnePullEach /\ DownIsEmpty /\ OffersFit <=> \A r \in Receivers : Tidy(proc[r])
  <1>1. ASSUME OnePullEach, DownIsEmpty, OffersFit, NEW r \in Receivers PROVE Tidy(proc[r])
    BY <1>1 DEF OnePullEach, DownIsEmpty, OffersFit, Tidy
  <1>2. ASSUME \A r \in Receivers : Tidy(proc[r]) PROVE DownIsEmpty /\ OffersFit
    BY <1>2 DEF DownIsEmpty, OffersFit, Tidy
  <1>3. ASSUME \A r \in Receivers : Tidy(proc[r]) PROVE OnePullEach
    <2> SUFFICES ASSUME NEW r \in Receivers
                 PROVE  /\ \A i, j \in InFlight(proc[r]) : SameObject(i, j) => i = j
                        /\ proc[r].queued \cap Handled(proc[r]) = {}
                        /\ Cardinality(InFlight(proc[r])) <= Room
      BY DEF OnePullEach
    <2> DEFINE p == proc[r]
    <2>1. Tidy(p)
      BY <1>3
    <2>2. Cardinality(p.offered) \in Nat /\ Cardinality(InFlight(p)) \in Nat
      BY <2>1, InFlightFinite, FS_CardinalityType DEF Tidy
    <2>3. Cardinality(InFlight(p)) <= Room
      BY <2>1, <2>2, BoundsAssumption DEF Tidy, Room
    <2> QED
      BY <2>1, <2>3 DEF Tidy
  <1> QED
    BY <1>1, <1>2, <1>3

\* What is known of the items of p, when p is the process of r.
Knows(r, p) ==
  /\ \A i \in OnHand(p) \cup InReports(p) : i.bytes <= attempt
  /\ \A i \in OnHand(p) : i.bytes = attempt \/ <<r, i.key>> \in overtaken
  /\ \A x \in p.pulling : x.item.bytes = attempt => x.got \in {0, attempt}

ReportsTruly(r, p) ==
  \A n \in DOMAIN p.acks :
    p.acks[n].ok /\ p.acks[n].item.bytes = attempt /\ <<r, p.acks[n].item.key>> \notin overtaken
      => disk[r][p.acks[n].item.key] = attempt

HostsKnown == \A k \in Keys : host[k] \in {0, attempt}

LEMMA AllKnown ==
  /\ AttemptsKnown <=> HostsKnown /\ \A r \in Receivers : Knows(r, proc[r])
  /\ ReportsAreTrue <=> \A r \in Receivers : ReportsTruly(r, proc[r])
  BY DEF AttemptsKnown, Knows, HostsKnown, ReportsAreTrue, ReportsTruly

\* The parts of the invariant that are about one process each.
ProcsInv == /\ HostsKnown
            /\ \A r \in Receivers : Tidy(proc[r]) /\ Knows(r, proc[r]) /\ ReportsTruly(r, proc[r])
\* The parts about the rows.
RowsInv == AckedIsHeld /\ ClaimsAreOpen /\ ClaimsPursued

LEMMA InvParts == PullInv <=> ProcsInv /\ RowsInv
  BY AllTidy, AllKnown DEF PullInv, ProcsInv, RowsInv

LEMMA PartsSuffice == TypedProcs' /\ TypedRest' /\ ProcsInv' /\ RowsInv' => IInv'
  <1>1. TypedProcs /\ TypedRest /\ ProcsInv /\ RowsInv => IInv
    BY TypeParts, InvParts DEF IInv
  <1> QED
    BY <1>1, PTL

\* The process of r alone changes.
LEMMA ProcsKept ==
  ASSUME TypeOK, ProcsInv, NEW r \in Receivers, NEW q, proc' = [proc EXCEPT ![r] = q],
         UNCHANGED <<attempt, overtaken, disk, host>>,
         Tidy(q), Knows(r, q), ReportsTruly(r, q)
  PROVE  ProcsInv'
  <1>1. HostsKnown'
    BY DEF ProcsInv, HostsKnown
  <1>2. ASSUME NEW s \in Receivers
        PROVE  Tidy(proc'[s]) /\ Knows(s, proc'[s]) /\ ReportsTruly(s, proc'[s])
    <2>1. CASE s = r
      BY <2>1 DEF TypeOK
    <2>2. CASE s # r
      BY <2>2 DEF TypeOK, ProcsInv
    <2> QED
      BY <2>1, <2>2
  <1>3. ASSUME NEW s \in Receivers PROVE Knows(s, proc[s])' /\ ReportsTruly(s, proc[s])'
    BY <1>2 DEF Knows, ReportsTruly
  <1> QED
    BY <1>1, <1>2, <1>3 DEF ProcsInv

LEMMA ProcsTyped ==
  ASSUME TypeOK, NEW r \in Receivers, NEW q \in Procs, proc' = [proc EXCEPT ![r] = q],
         Cardinality(q.pulling) <= Pullers, Len(q.acks) <= MaxReports
  PROVE  TypedProcs'
  <1>1. proc' \in [Receivers -> Procs]
    BY DEF TypeOK
  <1>2. ASSUME NEW s \in Receivers
        PROVE  Cardinality(proc'[s].pulling) <= Pullers /\ Len(proc'[s].acks) <= MaxReports
    <2>1. CASE s = r
      <3>1. proc'[s] = q
        BY <2>1 DEF TypeOK
      <3> QED
        BY <3>1
    <2>2. CASE s # r
      <3>1. proc'[s] = proc[s]
        BY <2>2 DEF TypeOK
      <3> QED
        BY <3>1 DEF TypeOK
    <2> QED
      BY <2>1, <2>2
  <1> QED
    BY <1>1, <1>2 DEF TypedProcs

LEMMA SameKnown ==
  ASSUME NEW r, NEW p, NEW q, Same(p, q), Knows(r, p), ReportsTruly(r, p)
  PROVE  Knows(r, q) /\ ReportsTruly(r, q) /\ OnHand(q) = OnHand(p) /\ InReports(q) = InReports(p)
  <1>1. OnHand(q) = OnHand(p) /\ InReports(q) = InReports(p)
    BY DEF Same, SameHand, OnHand, InFlight, Handled, InReports
  <1> QED
    BY <1>1 DEF Knows, ReportsTruly, Same, SameHand

\* A step that leaves the rows, and after which every receiver has what it had.
LEMMA RowsKept ==
  ASSUME TypeOK, RowsInv,
         UNCHANGED <<granule, attempt, row, overtaken, disk>>,
         \A r \in Receivers : OnHand(proc[r]) \cup InReports(proc[r])
                                \subseteq OnHand(proc'[r]) \cup InReports(proc'[r])
  PROVE  RowsInv'
  <1>1. AckedIsHeld' /\ ClaimsAreOpen'
    BY DEF RowsInv, AckedIsHeld, ClaimsAreOpen, Pullable
  <1>2. ClaimsPursued'
    <2> SUFFICES ASSUME NEW k \in Keys, row[k].by # NoReceiver, ~row[k].orphan
                 PROVE  [key |-> k, id |-> row[k].id, bytes |-> attempt]
                          \in OnHand(proc'[row[k].by]) \cup InReports(proc'[row[k].by])
      BY DEF ClaimsPursued
    <2>1. row[k].by \in Receivers
      BY DEF TypeOK, Rows
    <2> QED
      BY <2>1 DEF RowsInv, ClaimsPursued
  <1> QED
    BY <1>1, <1>2 DEF RowsInv

LEMMA InitInv == Init => IInv
  <1> SUFFICES ASSUME Init PROVE IInv
    OBVIOUS
  <1>1. NewRow(1) \in Rows
    BY BoundsAssumption DEF NewRow, Rows, Ids
  <1>2. \A r \in Receivers : proc[r] = Down
    BY DEF Init
  <1>3. Down.acks = <<>> /\ Down.pulling = {} /\ Down.offered = {} /\ Down.queued = {}
    BY DEF Down
  <1>4. TypeOK
    <2>1. Cardinality({}) = 0 /\ Len(<<>>) = 0
      BY FS_EmptySet
    <2>2. ASSUME NEW r \in Receivers
          PROVE  Cardinality(proc[r].pulling) <= Pullers /\ Len(proc[r].acks) <= MaxReports
      <3>1. Cardinality(proc[r].pulling) = 0
        BY <1>2, <1>3, <2>1
      <3>2. Len(proc[r].acks) = 0
        BY <1>2, <1>3, <2>1
      <3> QED
        BY <3>1, <3>2, BoundsAssumption
    <2>3. proc \in [Receivers -> Procs]
      BY DownTidy DEF Init
    <2> QED
      BY <1>1, <2>2, <2>3, BoundsAssumption DEF Init, TypeOK, Bytes
  <1>5. OnHand(Down) = {} /\ InReports(Down) = {}
    BY <1>3 DEF OnHand, InFlight, Handled, InReports
  <1>6. \A r \in Receivers : Knows(r, Down) /\ ReportsTruly(r, Down)
    BY <1>3, <1>5 DEF Knows, ReportsTruly
  <1>7. ProcsInv
    <2>1. HostsKnown
      BY DEF Init, HostsKnown
    <2>2. ASSUME NEW r \in Receivers PROVE Tidy(proc[r]) /\ Knows(r, proc[r]) /\ ReportsTruly(r, proc[r])
      BY <1>2, <1>6, DownTidy
    <2> QED
      BY <2>1, <2>2 DEF ProcsInv
  <1>8. \A k \in Keys : row[k].by = NoReceiver /\ row[k].acked = NoReceiver
    BY DEF Init, NewRow
  <1>9. RowsInv
    BY <1>8 DEF Init, RowsInv, AckedIsHeld, ClaimsAreOpen, ClaimsPursued
  <1> QED
    BY <1>4, <1>7, <1>9, InvParts DEF IInv

-----------------------------------------------------------------------------
(* Steps of a process.                                                       *)

\* A process with the same items: started, told to drain.
LEMMA SameStep ==
  ASSUME IInv, NEW r \in Receivers, NEW q \in Procs, proc' = [proc EXCEPT ![r] = q],
         Same(proc[r], q), q.up, UNCHANGED <<tables, host, disk, overtaken>>,
         receiver' \in [Receivers -> {"absent", "enabled", "disabled"}],
         restart' \subseteq restart, trouble' \in 0..MaxTrouble
  PROVE  IInv'
  <1> USE DEF tables
  <1>1. ProcsInv /\ RowsInv /\ TypeOK
    BY InvParts DEF IInv
  <1>2. Tidy(proc[r]) /\ Knows(r, proc[r]) /\ ReportsTruly(r, proc[r])
    BY <1>1 DEF ProcsInv
  <1>3. Tidy(q) /\ Knows(r, q) /\ ReportsTruly(r, q) /\ OnHand(q) = OnHand(proc[r])
          /\ InReports(q) = InReports(proc[r])
    BY <1>2, SameTidy, SameKnown DEF Same
  <1>4. ProcsInv'
    BY <1>1, <1>3, ProcsKept
  <1>5. \A s \in Receivers : proc'[s] = IF s = r THEN q ELSE proc[s]
    BY <1>1 DEF TypeOK
  <1>6. RowsInv'
    BY <1>1, <1>3, <1>5, RowsKept
  <1>7. TypedProcs'
    <2>1. Cardinality(q.pulling) <= Pullers /\ Len(q.acks) <= MaxReports
      BY <1>1 DEF TypeOK, Same, SameHand
    <2> QED
      BY <1>1, <2>1, ProcsTyped
  <1>8. TypedRest'
    BY <1>1 DEF TypeOK, TypedRest
  <1> QED
    BY <1>4, <1>6, <1>7, <1>8, PartsSuffice

LEMMA BootStep ==
  ASSUME IInv, NEW r \in Receivers, Boot(r)
  PROVE  IInv'
  <1>1. proc[r] = Down /\ TypeOK
    BY AllTidy DEF IInv, PullInv, Boot, Tidy
  <1> DEFINE q == [Down EXCEPT !.up = TRUE]
  <1>2. q \in Procs /\ Same(Down, q)
    BY DownTidy
  <1>3. q.up
    BY DEF Down
  <1>4. proc' = [proc EXCEPT ![r] = q]
    BY DEF Boot
  <1> HIDE DEF q
  <1>5. receiver' \in [Receivers -> {"absent", "enabled", "disabled"}]
    BY <1>1 DEF Boot, TypeOK
  <1> QED
    BY <1>1, <1>2, <1>3, <1>4, <1>5, SameStep DEF Boot, TypeOK

LEMMA DrainStep ==
  ASSUME IInv, NEW r \in Receivers, Heartbeat(r) \/ Terminated(r)
  PROVE  IInv'
  <1>1. TypeOK
    BY DEF IInv
  <1>2. PICK drain \in BOOLEAN : proc' = [proc EXCEPT ![r].draining = drain]
    BY <1>1 DEF TypeOK, Procs, Heartbeat, Terminated
  <1> DEFINE q == [proc[r] EXCEPT !.draining = drain]
  <1>3. proc' = [proc EXCEPT ![r] = q]
    BY <1>1, <1>2 DEF TypeOK
  <1>4. proc[r] \in Procs /\ proc[r].up
    BY <1>1 DEF TypeOK, Heartbeat, Terminated
  <1>5. q \in Procs /\ Same(proc[r], q) /\ q.up
    BY <1>4 DEF Procs, Same, SameHand
  <1> HIDE DEF q
  <1>6. trouble' \in 0..MaxTrouble
    BY <1>1, BoundsAssumption DEF Heartbeat, Terminated, Trouble, TypeOK
  <1> QED
    BY <1>1, <1>3, <1>5, <1>6, SameStep DEF Heartbeat, Terminated, TypeOK

LEMMA StartStep ==
  ASSUME IInv, NEW r \in Receivers, NEW i \in proc[r].queued, StartPull(r, i)
  PROVE  IInv'
  <1> USE DEF tables
  <1>1. ProcsInv /\ RowsInv /\ TypeOK
    BY InvParts DEF IInv
  <1>2. proc[r] \in Procs /\ Tidy(proc[r]) /\ Knows(r, proc[r]) /\ ReportsTruly(r, proc[r])
    BY <1>1 DEF ProcsInv, TypeOK
  <1>3. i \in OnHand(proc[r]) /\ i.key \in Keys /\ i.bytes \in Bytes
    BY <1>2 DEF Procs, Items, OnHand, InFlight
  <1>4. PICK got \in Served(i) : proc' = [proc EXCEPT ![r] = Opening(proc[r], i, got)]
    BY DEF StartPull
  <1>5. got \in Bytes /\ (i.bytes = attempt => got \in {0, attempt})
    BY <1>1, <1>3, <1>4 DEF Served, TypeOK, ProcsInv, HostsKnown
  <1>6. PICK q : q = Opening(proc[r], i, got)
    OBVIOUS
  <1>7. /\ q \in Procs /\ Tidy(q) /\ q.up = proc[r].up
        /\ InFlight(q) = InFlight(proc[r]) /\ q.offered = proc[r].offered /\ q.acks = proc[r].acks
        /\ q.pulling = proc[r].pulling \cup {[item |-> i, got |-> got]}
        /\ Cardinality(q.pulling) <= Pullers
    BY <1>2, <1>5, <1>6, OpeningTidy DEF StartPull
  <1>8. OnHand(q) = OnHand(proc[r]) /\ InReports(q) = InReports(proc[r])
    BY <1>7 DEF OnHand, InReports
  <1>9. Knows(r, q) /\ ReportsTruly(r, q)
    BY <1>2, <1>5, <1>7, <1>8 DEF Knows, ReportsTruly
  <1>10. ProcsInv'
    BY <1>1, <1>4, <1>6, <1>7, <1>9, ProcsKept DEF StartPull
  <1>11. \A s \in Receivers : proc'[s] = IF s = r THEN q ELSE proc[s]
    BY <1>1, <1>4, <1>6 DEF TypeOK
  <1>12. RowsInv'
    BY <1>1, <1>8, <1>11, RowsKept DEF StartPull
  <1>13. TypedProcs'
    <2>1. Len(q.acks) <= MaxReports
      BY <1>1, <1>7 DEF TypeOK
    <2> QED
      BY <1>1, <1>4, <1>6, <1>7, <2>1, ProcsTyped
  <1>14. TypedRest'
    BY <1>1 DEF TypeOK, TypedRest, StartPull
  <1> QED
    BY <1>10, <1>12, <1>13, <1>14, PartsSuffice

\* The rows are other claims only; each running claim is pursued by the items of a process.
LEMMA ClaimsChanged ==
  ASSUME TypeOK, RowsInv, UNCHANGED <<granule, attempt, overtaken, disk>>,
         row' \in [Keys -> Rows],
         \A k \in Keys : /\ row'[k].id = row[k].id /\ row'[k].acked = row[k].acked
                         /\ row'[k].failed = row[k].failed
                         /\ row'[k].by # NoReceiver => Pullable(k),
         granule = "pending" => row' = row,
         ClaimsPursued'
  PROVE  RowsInv'
  <1>1. AckedIsHeld'
    BY DEF RowsInv, AckedIsHeld
  <1>2. ClaimsAreOpen'
    BY DEF RowsInv, ClaimsAreOpen, Pullable
  <1> QED
    BY <1>1, <1>2 DEF RowsInv

LEMMA OrphanedRows ==
  ASSUME NEW t \in [Keys -> Rows], NEW r, NEW keys, NEW u, u = Orphaned(t, r, keys)
  PROVE  /\ u \in [Keys -> Rows]
         /\ \A k \in Keys : /\ u[k].id = t[k].id /\ u[k].acked = t[k].acked
                            /\ u[k].failed = t[k].failed /\ u[k].by = t[k].by
                            /\ u[k] # t[k] => t[k].by # NoReceiver \/ r = NoReceiver
                            /\ ~u[k].orphan => u[k] = t[k] /\ ~(k \in keys /\ t[k].by = r)
  <1>1. ASSUME NEW k \in Keys
        PROVE  /\ u[k] \in Rows
               /\ u[k].id = t[k].id /\ u[k].acked = t[k].acked
               /\ u[k].failed = t[k].failed /\ u[k].by = t[k].by
               /\ u[k] # t[k] => t[k].by # NoReceiver \/ r = NoReceiver
               /\ ~u[k].orphan => u[k] = t[k] /\ ~(k \in keys /\ t[k].by = r)
    <2>1. t[k] \in Rows
      OBVIOUS
    <2>2. CASE k \in keys /\ t[k].by = r
      <3>1. u[k] = [t[k] EXCEPT !.orphan = TRUE]
        BY <2>2 DEF Orphaned
      <3> QED
        BY <2>1, <2>2, <3>1 DEF Rows
    <2>3. CASE ~(k \in keys /\ t[k].by = r)
      <3>1. u[k] = t[k]
        BY <2>3 DEF Orphaned
      <3> QED
        BY <2>1, <2>3, <3>1
    <2> QED
      BY <2>2, <2>3
  <1>2. u = [k \in Keys |-> u[k]]
    BY DEF Orphaned
  <1> QED
    BY <1>1, <1>2

LEMMA PendingRows ==
  ASSUME RowsInv, granule = "pending", NEW k \in Keys
  PROVE  row[k].by = NoReceiver /\ row[k].acked = NoReceiver
  <1>1. PICK id : row[k] = NewRow(id)
    BY DEF RowsInv, ClaimsAreOpen
  <1> QED
    BY <1>1 DEF NewRow

LEMMA PullStep ==
  ASSUME IInv, NEW r \in Receivers, Pull(r)
  PROVE  IInv'
  <1>1. ProcsInv /\ RowsInv /\ TypeOK
    BY InvParts DEF IInv
  <1> DEFINE p == proc[r]
  <1>2. p \in Procs /\ Tidy(p) /\ Knows(r, p) /\ ReportsTruly(r, p) /\ p.up /\ p.offered = {}
    BY <1>1 DEF ProcsInv, TypeOK, Pull
  <1>3. PICK limit \in 1..Free(p) :
          /\ row' = [k \in Keys |->
                       IF k \in Taken(limit) THEN [row[k] EXCEPT !.by = r, !.orphan = FALSE] ELSE row[k]]
          /\ proc' = [proc EXCEPT ![r].offered =
                        {[key |-> k, id |-> row[k].id, bytes |-> attempt] : k \in Taken(limit)}]
    BY DEF Pull
  <1>4. PICK taken : taken = Taken(limit)
    OBVIOUS
  <1> DEFINE item(k) == [key |-> k, id |-> row[k].id, bytes |-> attempt]
  <1>5. PICK S : S = {item(k) : k \in taken}
    OBVIOUS
  <1>6. taken \in SUBSET Keys /\ \A k \in taken : Claimable(k)
    BY <1>4 DEF Taken
  <1>7. /\ IsFiniteSet(taken) /\ Cardinality(taken) \in Nat /\ Cardinality(taken) <= limit
        /\ limit \in Nat /\ limit <= Free(p) /\ Free(p) \in Int
    <2>1. Free(p) \in Int
      BY <1>2, InFlightFinite, BoundsAssumption DEF Tidy, Free, Room
    <2>2. limit \in Nat /\ limit <= Free(p)
      BY <2>1
    <2> DEFINE R == {k \in Keys : Claimable(k)}
    <2>3. R \in SUBSET Nat /\ R \in SUBSET Keys
      BY KeysAssumption
    <2>4. IsFiniteSet(R)
      BY <2>3, KeysAssumption, FS_Subset
    <2>5. taken = {k \in R : Cardinality({j \in R : j < k}) < limit}
      BY <1>4 DEF Taken
    <2> HIDE DEF R
    <2> QED
      BY <2>1, <2>2, <2>3, <2>4, <2>5, LowestFew
  <1>8. S \in SUBSET Items /\ (\A i, j \in S : i.key = j.key => i = j) /\ \A i \in S : i.bytes = attempt
    BY <1>1, <1>5, <1>6, BoundsAssumption DEF TypeOK, Rows, Items, Ids, Bytes
  <1>9. IsFiniteSet(S) /\ Cardinality(S) <= Free(p)
    <2> DEFINE f == [k \in taken |-> item(k)]
    <2>1. {f[k] : k \in taken} = S /\ DOMAIN f = taken
      BY <1>5
    <2> HIDE DEF f
    <2>2. IsFiniteSet(S) /\ Cardinality(S) \in Nat /\ Cardinality(S) <= Cardinality(taken)
      BY <1>7, <2>1, ImageOf
    <2> QED
      BY <1>7, <2>2
  <1>10. PICK q : q = [p EXCEPT !.offered = S]
    OBVIOUS
  <1>11. /\ q \in Procs /\ Tidy(q) /\ q.up = p.up /\ InFlight(q) = InFlight(p) /\ q.acks = p.acks
         /\ q.offered = S /\ q.pulling = p.pulling
    BY <1>2, <1>8, <1>9, <1>10, OfferingTidy
  <1>12. proc' = [proc EXCEPT ![r] = q]
    BY <1>1, <1>3, <1>4, <1>5, <1>10 DEF TypeOK
  <1>13. OnHand(q) = OnHand(p) \cup S /\ InReports(q) = InReports(p)
    BY <1>2, <1>11 DEF OnHand, InReports
  <1>14. Knows(r, q) /\ ReportsTruly(r, q)
    BY <1>1, <1>2, <1>8, <1>11, <1>13 DEF Knows, ReportsTruly, TypeOK
  <1>15. ProcsInv'
    BY <1>1, <1>11, <1>12, <1>14, ProcsKept DEF Pull
  <1>16. \A s \in Receivers : proc'[s] = IF s = r THEN q ELSE proc[s]
    BY <1>1, <1>12 DEF TypeOK
  <1>17. ASSUME NEW k \in Keys
         PROVE  /\ row'[k] \in Rows
                /\ row'[k].id = row[k].id /\ row'[k].acked = row[k].acked
                /\ row'[k].failed = row[k].failed
                /\ k \in taken => row'[k].by = r
                /\ k \notin taken => row'[k] = row[k]
    <2>1. row[k] \in Rows /\ row'[k] = IF k \in taken THEN [row[k] EXCEPT !.by = r, !.orphan = FALSE]
                                                      ELSE row[k]
      BY <1>1, <1>3, <1>4 DEF TypeOK
    <2> QED
      BY <2>1 DEF Rows
  <1>18. row' \in [Keys -> Rows]
    BY <1>3, <1>17
  <1>19. ClaimsPursued'
    <2> SUFFICES ASSUME NEW k \in Keys, row'[k].by # NoReceiver, ~row'[k].orphan
                 PROVE  [key |-> k, id |-> row'[k].id, bytes |-> attempt']
                          \in OnHand(proc'[row'[k].by]) \cup InReports(proc'[row'[k].by])
      BY DEF ClaimsPursued
    <2>1. attempt' = attempt /\ row'[k].id = row[k].id
      BY <1>17 DEF Pull
    <2>2. CASE k \in taken
      BY <1>5, <1>13, <1>16, <1>17, <2>1, <2>2
    <2>3. CASE k \notin taken
      <3>1. item(k) \in OnHand(proc[row[k].by]) \cup InReports(proc[row[k].by])
        BY <1>1, <1>17, <2>3 DEF RowsInv, ClaimsPursued
      <3>2. row[k].by \in Receivers /\ row'[k] = row[k]
        BY <1>1, <1>17, <2>3 DEF TypeOK, Rows
      <3> QED
        BY <1>13, <1>16, <2>1, <3>1, <3>2
    <2> QED
      BY <2>2, <2>3
  <1>20. \A k \in Keys : row'[k].by # NoReceiver => Pullable(k)
    BY <1>1, <1>6, <1>17 DEF Claimable, RowsInv, ClaimsAreOpen
  <1>21. granule = "pending" => row' = row
    <2>1. granule = "uploaded" \/ taken = {}
      BY <1>6 DEF Claimable
    <2> QED
      BY <1>1, <1>3, <1>4, <2>1 DEF TypeOK
  <1>22. RowsInv'
    BY <1>1, <1>17, <1>18, <1>19, <1>20, <1>21, ClaimsChanged DEF Pull
  <1>23. TypedProcs'
    <2>1. Cardinality(q.pulling) <= Pullers /\ Len(q.acks) <= MaxReports
      BY <1>1, <1>11 DEF TypeOK
    <2> QED
      BY <1>1, <1>11, <1>12, <2>1, ProcsTyped
  <1>24. TypedRest'
    BY <1>1, <1>18 DEF TypeOK, TypedRest, Pull
  <1> QED
    BY <1>15, <1>22, <1>23, <1>24, PartsSuffice

LEMMA ReceiveStep ==
  ASSUME IInv, NEW r \in Receivers, Receive(r)
  PROVE  IInv'
  <1>1. ProcsInv /\ RowsInv /\ TypeOK
    BY InvParts DEF IInv
  <1>2. PICK p : p = proc[r]
    OBVIOUS
  <1>3. p \in Procs /\ Tidy(p) /\ Knows(r, p) /\ ReportsTruly(r, p) /\ p.offered # {}
    BY <1>1, <1>2 DEF ProcsInv, TypeOK, Receive
  <1>4. PICK q : q = Queueing(p)
    OBVIOUS
  <1>5. /\ q \in Procs /\ Tidy(q) /\ q.up = p.up
        /\ InFlight(q) = InFlight(p) \cup Fresh(p) /\ q.offered = {}
        /\ q.acks = p.acks /\ q.pulling = p.pulling
    BY <1>3, <1>4, QueueingTidy
  <1>6. OnHand(q) \subseteq OnHand(p) /\ InReports(q) = InReports(p)
    BY <1>5 DEF OnHand, InReports, Fresh
  <1>7. Knows(r, q) /\ ReportsTruly(r, q)
    BY <1>3, <1>5, <1>6 DEF Knows, ReportsTruly
  <1>8. proc' = [proc EXCEPT ![r] = q]
    BY <1>2, <1>4 DEF Receive
  <1>9. ProcsInv'
    BY <1>1, <1>5, <1>7, <1>8, ProcsKept DEF Receive
  <1>10. PICK keys : /\ row' = Orphaned(row, r, keys)
                     /\ keys = {i.key : i \in {j \in p.offered : \E l \in InFlight(p) : SameObject(j, l) /\ j # l}}
    BY <1>2 DEF Receive
  <1>11. /\ row' \in [Keys -> Rows]
         /\ \A k \in Keys : /\ row'[k].id = row[k].id /\ row'[k].acked = row[k].acked
                            /\ row'[k].failed = row[k].failed /\ row'[k].by = row[k].by
                            /\ row'[k] # row[k] => row[k].by # NoReceiver \/ r = NoReceiver
                            /\ ~row'[k].orphan => row'[k] = row[k] /\ ~(k \in keys /\ row[k].by = r)
    BY <1>1, <1>10, OrphanedRows DEF TypeOK
  <1>12. \A s \in Receivers : proc'[s] = IF s = r THEN q ELSE proc[s]
    BY <1>1, <1>8 DEF TypeOK
  <1>13. ClaimsPursued'
    <2> SUFFICES ASSUME NEW k \in Keys, row'[k].by # NoReceiver, ~row'[k].orphan
                 PROVE  [key |-> k, id |-> row'[k].id, bytes |-> attempt']
                          \in OnHand(proc'[row'[k].by]) \cup InReports(proc'[row'[k].by])
      BY DEF ClaimsPursued
    <2>1. PICK i : i = [key |-> k, id |-> row[k].id, bytes |-> attempt]
      OBVIOUS
    <2>2. attempt' = attempt /\ row'[k] = row[k] /\ ~(k \in keys /\ row[k].by = r)
      BY <1>11 DEF Receive
    <2>3. i \in OnHand(proc[row[k].by]) \cup InReports(proc[row[k].by])
      BY <1>1, <2>1, <2>2 DEF RowsInv, ClaimsPursued
    <2>4. row[k].by \in Receivers
      BY <1>1, <2>2 DEF TypeOK, Rows
    <2>5. i \in OnHand(proc'[row[k].by]) \cup InReports(proc'[row[k].by])
      <3>1. CASE row[k].by # r
        BY <1>12, <2>3, <2>4, <3>1
      <3>2. CASE row[k].by = r
        <4>1. k \notin keys /\ i.key = k
          BY <2>1, <2>2, <3>2
        <4>2. i \in OnHand(p) \cup InReports(p)
          BY <1>2, <2>3, <3>2
        <4>3. CASE i \in p.offered
          <5>1. CASE i \in Fresh(p)
            BY <1>5, <1>12, <3>2, <5>1 DEF OnHand
          <5>2. CASE i \notin Fresh(p)
            <6>1. PICK j \in InFlight(p) : SameObject(i, j)
              BY <4>3, <5>2 DEF Fresh
            <6>2. i = j
              BY <1>10, <4>1, <4>3, <6>1
            <6> QED
              BY <1>5, <1>12, <3>2, <6>2 DEF OnHand
          <5> QED
            BY <5>1, <5>2
        <4>4. CASE i \notin p.offered
          BY <1>5, <1>6, <1>12, <3>2, <4>2, <4>4 DEF OnHand
        <4> QED
          BY <4>3, <4>4
      <3> QED
        BY <3>1, <3>2
    <2> QED
      BY <2>1, <2>2, <2>5
  <1>14. \A k \in Keys : row'[k].by # NoReceiver => Pullable(k)
    BY <1>1, <1>11 DEF RowsInv, ClaimsAreOpen
  <1>15. granule = "pending" => row' = row
    <2>1. r # NoReceiver
      BY ReceiversAssumption
    <2>2. granule = "pending" => \A k \in Keys : row[k].by = NoReceiver
      BY <1>1, PendingRows
    <2> QED
      BY <1>1, <1>11, <2>1, <2>2 DEF TypeOK
  <1>16. RowsInv'
    BY <1>1, <1>11, <1>13, <1>14, <1>15, ClaimsChanged DEF Receive
  <1>17. TypedProcs'
    <2>1. Cardinality(q.pulling) <= Pullers /\ Len(q.acks) <= MaxReports
      BY <1>1, <1>2, <1>5 DEF TypeOK
    <2> QED
      BY <1>1, <1>5, <1>8, <2>1, ProcsTyped
  <1>18. TypedRest'
    BY <1>1, <1>11 DEF TypeOK, TypedRest, Receive
  <1> QED
    BY <1>9, <1>16, <1>17, <1>18, PartsSuffice

LEMMA PullLostStep ==
  ASSUME IInv, NEW r \in Receivers, PullLost(r)
  PROVE  IInv'
  <1>1. ProcsInv /\ RowsInv /\ TypeOK
    BY InvParts DEF IInv
  <1>2. PICK p : p = proc[r]
    OBVIOUS
  <1>3. /\ p \in Procs /\ Tidy(p) /\ Knows(r, p) /\ ReportsTruly(r, p) /\ p.offered # {}
        /\ p.up
    BY <1>1, <1>2 DEF ProcsInv, TypeOK, PullLost, Tidy, Down
  <1>4. PICK q : q = [p EXCEPT !.offered = {}]
    OBVIOUS
  <1>5. /\ q \in Procs /\ Tidy(q) /\ q.up = p.up /\ InFlight(q) = InFlight(p) /\ q.acks = p.acks
        /\ q.offered = {} /\ q.pulling = p.pulling
    BY <1>3, <1>4, DroppingTidy
  <1>6. OnHand(q) \subseteq OnHand(p) /\ InReports(q) = InReports(p)
    BY <1>5 DEF OnHand, InReports
  <1>7. Knows(r, q) /\ ReportsTruly(r, q)
    BY <1>3, <1>5, <1>6 DEF Knows, ReportsTruly
  <1>8. proc' = [proc EXCEPT ![r] = q]
    BY <1>1, <1>2, <1>4 DEF PullLost, TypeOK
  <1>9. ProcsInv'
    BY <1>1, <1>5, <1>7, <1>8, ProcsKept DEF PullLost
  <1>10. PICK keys : row' = Orphaned(row, r, keys) /\ keys = {i.key : i \in p.offered}
    BY <1>2 DEF PullLost
  <1>11. /\ row' \in [Keys -> Rows]
         /\ \A k \in Keys : /\ row'[k].id = row[k].id /\ row'[k].acked = row[k].acked
                            /\ row'[k].failed = row[k].failed /\ row'[k].by = row[k].by
                            /\ row'[k] # row[k] => row[k].by # NoReceiver \/ r = NoReceiver
                            /\ ~row'[k].orphan => row'[k] = row[k] /\ ~(k \in keys /\ row[k].by = r)
    BY <1>1, <1>10, OrphanedRows DEF TypeOK
  <1>12. \A s \in Receivers : proc'[s] = IF s = r THEN q ELSE proc[s]
    BY <1>1, <1>8 DEF TypeOK
  <1>13. ClaimsPursued'
    <2> SUFFICES ASSUME NEW k \in Keys, row'[k].by # NoReceiver, ~row'[k].orphan
                 PROVE  [key |-> k, id |-> row'[k].id, bytes |-> attempt']
                          \in OnHand(proc'[row'[k].by]) \cup InReports(proc'[row'[k].by])
      BY DEF ClaimsPursued
    <2>1. PICK i : i = [key |-> k, id |-> row[k].id, bytes |-> attempt]
      OBVIOUS
    <2>2. attempt' = attempt /\ row'[k] = row[k] /\ ~(k \in keys /\ row[k].by = r)
      BY <1>11 DEF PullLost
    <2>3. i \in OnHand(proc[row[k].by]) \cup InReports(proc[row[k].by])
      BY <1>1, <2>1, <2>2 DEF RowsInv, ClaimsPursued
    <2>4. row[k].by \in Receivers
      BY <1>1, <2>2 DEF TypeOK, Rows
    <2>5. i \in OnHand(proc'[row[k].by]) \cup InReports(proc'[row[k].by])
      <3>1. CASE row[k].by # r
        BY <1>12, <2>3, <2>4, <3>1
      <3>2. CASE row[k].by = r
        <4>1. i \notin p.offered
          BY <1>10, <2>1, <2>2, <3>2
        <4> QED
          BY <1>2, <1>5, <1>6, <1>12, <2>3, <3>2, <4>1 DEF OnHand
      <3> QED
        BY <3>1, <3>2
    <2> QED
      BY <2>1, <2>2, <2>5
  <1>14. \A k \in Keys : row'[k].by # NoReceiver => Pullable(k)
    BY <1>1, <1>11 DEF RowsInv, ClaimsAreOpen
  <1>15. granule = "pending" => row' = row
    <2>1. r # NoReceiver
      BY ReceiversAssumption
    <2>2. granule = "pending" => \A k \in Keys : row[k].by = NoReceiver
      BY <1>1, PendingRows
    <2> QED
      BY <1>1, <1>11, <2>1, <2>2 DEF TypeOK
  <1>16. RowsInv'
    BY <1>1, <1>11, <1>13, <1>14, <1>15, ClaimsChanged DEF PullLost
  <1>17. TypedProcs'
    <2>1. Cardinality(q.pulling) <= Pullers /\ Len(q.acks) <= MaxReports
      BY <1>1, <1>2, <1>5 DEF TypeOK
    <2> QED
      BY <1>1, <1>5, <1>8, <2>1, ProcsTyped
  <1>18. TypedRest'
    BY <1>1, <1>11, BoundsAssumption DEF TypeOK, TypedRest, PullLost, Trouble
  <1> QED
    BY <1>9, <1>16, <1>17, <1>18, PartsSuffice

LEMMA PullEndsStep ==
  ASSUME IInv, NEW r \in Receivers, NEW x \in proc[r].pulling, NEW transported \in BOOLEAN,
         PullEnds(r, x, transported)
  PROVE  IInv'
  <1>1. ProcsInv /\ RowsInv /\ TypeOK
    BY InvParts DEF IInv
  <1>2. PICK p : p = proc[r]
    OBVIOUS
  <1>3. p \in Procs /\ Tidy(p) /\ Knows(r, p) /\ ReportsTruly(r, p) /\ x \in p.pulling
    BY <1>1, <1>2 DEF ProcsInv, TypeOK
  <1>4. PICK i : i = x.item
    OBVIOUS
  <1>5. /\ i \in OnHand(p) /\ i \in Items /\ i.key \in Keys /\ x.got \in Bytes /\ i.bytes \in Bytes
        /\ attempt \in Bytes
    BY <1>1, <1>3, <1>4, BoundsAssumption DEF OnHand, InFlight, Handled, Procs, Items, TypeOK, Bytes
  <1>6. PICK ok \in BOOLEAN : ok = Succeeded(x, transported)
    BY DEF Succeeded
  <1>7. PICK q : q = Reporting(p, x, ok)
    OBVIOUS
  <1>8. /\ q \in Procs /\ Tidy(q) /\ q.up = p.up /\ q.offered = p.offered
        /\ q.queued = p.queued /\ q.pulling = p.pulling \ {x}
        /\ InFlight(p) \ {i} \subseteq InFlight(q) /\ InFlight(q) \subseteq InFlight(p)
        /\ q.acks = Append(p.acks, [item |-> i, ok |-> ok])
        /\ IsFiniteSet(p.pulling)
    BY <1>3, <1>4, <1>6, <1>7, ReportingTidy
  <1>9. proc' = [proc EXCEPT ![r] = q]
    BY <1>2, <1>6, <1>7 DEF PullEnds
  \* The reports: one more.
  <1>10. /\ Len(p.acks) \in Nat /\ Len(q.acks) = Len(p.acks) + 1
         /\ DOMAIN p.acks = 1..Len(p.acks) /\ DOMAIN q.acks = 1..Len(q.acks)
         /\ \A n \in DOMAIN p.acks : q.acks[n] = p.acks[n]
         /\ q.acks[Len(q.acks)] = [item |-> i, ok |-> ok]
    <2>1. p.acks \in Seq([item : Items, ok : BOOLEAN])
      BY <1>3 DEF Procs
    <2>2. [item |-> i, ok |-> ok] \in [item : Items, ok : BOOLEAN]
      BY <1>5
    <2> QED
      BY <1>8, <2>1, <2>2
  <1>11. \A n \in DOMAIN q.acks : n \in DOMAIN p.acks \/ n = Len(q.acks)
    BY <1>10
  <1>12. InReports(q) = InReports(p) \cup {i}
    <2>1. InReports(q) \subseteq InReports(p) \cup {i}
      BY <1>10, <1>11 DEF InReports
    <2>2. InReports(p) \subseteq InReports(q) /\ i \in InReports(q)
      <3>1. Len(q.acks) \in DOMAIN q.acks /\ q.acks[Len(q.acks)].item = i
        BY <1>10
      <3>2. \A n \in DOMAIN p.acks : n \in DOMAIN q.acks /\ q.acks[n].item = p.acks[n].item
        BY <1>10
      <3> QED
        BY <3>1, <3>2 DEF InReports
    <2> QED
      BY <2>1, <2>2
  <1>13. OnHand(q) \subseteq OnHand(p) /\ OnHand(p) \cup InReports(p) \subseteq OnHand(q) \cup InReports(q)
    BY <1>8, <1>12 DEF OnHand
  \* The disk: what is not of an earlier attempt stays, or becomes what it should be.
  <1>14. ASSUME NEW s \in Receivers, NEW k \in Keys, <<s, k>> \notin overtaken
         PROVE  disk'[s][k] = disk[s][k] \/ disk'[s][k] = attempt
    <2>1. CASE ~transported \/ s # r \/ k # i.key
      BY <1>1, <1>4, <1>5, <2>1 DEF PullEnds, TypeOK
    <2>2. CASE transported /\ s = r /\ k = i.key
      <3>1. i.bytes = attempt
        BY <1>3, <1>5, <1>14, <2>2 DEF Knows
      <3>2. x.got = attempt
        BY <1>3, <1>4, <2>2, <3>1 DEF Knows, PullEnds
      <3>3. disk'[r][i.key] = Landed(x)
        BY <1>1, <1>4, <1>5, <2>2 DEF PullEnds, TypeOK
      <3> QED
        BY <1>4, <2>2, <3>1, <3>2, <3>3 DEF Landed
    <2> QED
      BY <2>1, <2>2
  <1>15. ok /\ i.bytes = attempt => disk'[r][i.key] = attempt
    <2>1. ASSUME ok, i.bytes = attempt PROVE disk'[r][i.key] = attempt
      <3>1. transported /\ x.got = attempt
        BY <1>4, <1>6, <2>1 DEF Succeeded
      <3>2. disk'[r][i.key] = Landed(x)
        BY <1>1, <1>4, <1>5, <3>1 DEF PullEnds, TypeOK
      <3> QED
        BY <1>4, <2>1, <3>1, <3>2 DEF Landed
    <2> QED
      BY <2>1
  <1>16. \A s \in Receivers : proc'[s] = IF s = r THEN q ELSE proc[s]
    BY <1>1, <1>9 DEF TypeOK
  <1>17. UNCHANGED <<granule, attempt, row, host, receiver, restart, overtaken, trouble>>
    BY DEF PullEnds, tables
  <1>18. ProcsInv'
    <2>1. HostsKnown'
      BY <1>1, <1>17 DEF ProcsInv, HostsKnown
    <2>2. ASSUME NEW s \in Receivers
          PROVE  Tidy(proc[s])' /\ Knows(s, proc[s])' /\ ReportsTruly(s, proc[s])'
      <3>1. CASE s # r
        <4>1. proc'[s] = proc[s]
          BY <1>16, <3>1
        <4>2. Tidy(proc[s]) /\ Knows(s, proc[s]) /\ ReportsTruly(s, proc[s])
          BY <1>1 DEF ProcsInv
        <4>3. disk'[s] = disk[s]
          BY <1>1, <3>1 DEF PullEnds, TypeOK
        <4> QED
          BY <1>17, <4>1, <4>2, <4>3 DEF Knows, ReportsTruly
      <3>2. CASE s = r
        <4>1. proc'[s] = q
          BY <1>16, <3>2
        <4>2. Knows(r, q)
          BY <1>3, <1>5, <1>8, <1>12, <1>13 DEF Knows
        <4>3. Knows(s, proc[s])'
          BY <1>17, <3>2, <4>1, <4>2 DEF Knows
        <4>4. ASSUME NEW n \in DOMAIN q.acks, q.acks[n].ok, q.acks[n].item.bytes = attempt,
                     <<r, q.acks[n].item.key>> \notin overtaken
              PROVE  disk'[r][q.acks[n].item.key] = attempt
          <5>1. CASE n \in DOMAIN p.acks
            <6>1. q.acks[n] = p.acks[n]
              BY <1>10, <5>1
            <6>2. p.acks[n].item.key \in Keys
              BY <1>3, <5>1, ReportOf DEF Items
            <6>3. disk[r][p.acks[n].item.key] = attempt
              BY <1>3, <4>4, <5>1, <6>1 DEF ReportsTruly
            <6> QED
              BY <1>14, <4>4, <6>1, <6>2, <6>3
          <5>2. CASE n = Len(q.acks)
            BY <1>10, <1>15, <4>4, <5>2
          <5> QED
            BY <1>11, <5>1, <5>2
        <4>5. ReportsTruly(s, proc[s])'
          BY <1>17, <3>2, <4>1, <4>4 DEF ReportsTruly
        <4>6. Tidy(proc'[s])
          BY <1>8, <4>1
        <4> QED
          BY <4>3, <4>5, <4>6
      <3> QED
        BY <3>1, <3>2
    <2> QED
      BY <2>1, <2>2 DEF ProcsInv
  <1>19. RowsInv'
    <2>1. AckedIsHeld'
      <3> SUFFICES ASSUME NEW k \in Keys, granule # "pending", row[k].acked # NoReceiver,
                          <<row[k].acked, k>> \notin overtaken
                   PROVE  disk'[row[k].acked][k] = attempt
        BY <1>17 DEF AckedIsHeld
      <3>1. row[k].acked \in Receivers
        BY <1>1 DEF TypeOK, Rows
      <3> QED
        BY <1>1, <1>14, <3>1 DEF RowsInv, AckedIsHeld
    <2>2. ClaimsAreOpen'
      BY <1>1, <1>17 DEF RowsInv, ClaimsAreOpen, Pullable
    <2>3. ClaimsPursued'
      <3> SUFFICES ASSUME NEW k \in Keys, row[k].by # NoReceiver, ~row[k].orphan
                   PROVE  [key |-> k, id |-> row[k].id, bytes |-> attempt]
                            \in OnHand(proc'[row[k].by]) \cup InReports(proc'[row[k].by])
        BY <1>17 DEF ClaimsPursued
      <3>1. row[k].by \in Receivers
        BY <1>1 DEF TypeOK, Rows
      <3> QED
        BY <1>1, <1>2, <1>13, <1>16, <3>1 DEF RowsInv, ClaimsPursued
    <2> QED
      BY <2>1, <2>2, <2>3 DEF RowsInv
  <1>20. TypedProcs'
    <2>1. Cardinality(q.pulling) <= Pullers
      <3>1. Cardinality(p.pulling) <= Pullers /\ Cardinality(p.pulling) \in Nat
        BY <1>1, <1>2, <1>8, FS_CardinalityType DEF TypeOK
      <3>2. Cardinality(q.pulling) = Cardinality(p.pulling) - 1
        BY <1>3, <1>8, FS_RemoveElement
      <3> QED
        BY <3>1, <3>2, BoundsAssumption
    <2>2. Len(q.acks) <= MaxReports
      BY <1>2, <1>10, BoundsAssumption DEF PullEnds
    <2> QED
      BY <1>1, <1>8, <1>9, <2>1, <2>2, ProcsTyped
  <1>21. TypedRest'
    <2>1. disk' \in [Receivers -> [Keys -> Bytes]]
      <3>1. Landed(x) \in Bytes
        BY <1>5, BoundsAssumption DEF Landed, Bytes
      <3> QED
        BY <1>1, <3>1 DEF PullEnds, TypeOK
    <2> QED
      BY <1>1, <1>17, <2>1 DEF TypeOK, TypedRest
  <1> QED
    BY <1>18, <1>19, <1>20, <1>21, PartsSuffice

-----------------------------------------------------------------------------
(* Reports applied.                                                          *)

\* What a batch of r's reports, or none, leaves of the granule and its rows.
Leaves(after) ==
  /\ after.row \in [Keys -> Rows] /\ after.granule \in {"uploaded", "acked", "pending"}
  /\ after.granule = "pending" => granule = "pending"
  /\ granule = "pending" => after.row = row
  /\ \A k \in Keys :
       /\ after.row[k].id = row[k].id
       /\ after.row[k] = row[k] \/ (after.row[k].by = NoReceiver /\ row[k].acked = NoReceiver)
       /\ after.row[k].acked # NoReceiver /\ <<after.row[k].acked, k>> \notin overtaken =>
            disk[after.row[k].acked][k] = attempt

LEMMA NothingLeaves ==
  ASSUME TypeOK, RowsInv, NEW after, after = [granule |-> granule, row |-> row]
  PROVE  Leaves(after)
  <1>1. \A k \in Keys : granule = "pending" => row[k].acked = NoReceiver
    BY PendingRows
  <1> QED
    BY <1>1 DEF Leaves, TypeOK, RowsInv, AckedIsHeld

LEMMA BatchLeaves ==
  ASSUME TypeOK, RowsInv, ProcsInv, NEW r \in Receivers, NEW after, after = AckBatch(r)
  PROVE  /\ Leaves(after)
         /\ \A k \in Keys : [key |-> k, id |-> row[k].id, bytes |-> attempt] \in InReports(proc[r]) =>
              after.row[k].by = NoReceiver
  <1>1. PICK acks : acks = proc[r].acks
    OBVIOUS
  <1>2. acks \in Seq(Reports) /\ ReportsTruly(r, proc[r])
    BY <1>1 DEF TypeOK, Procs, Reports, ProcsInv
  <1>3. PICK t : t = IF granule = "pending" THEN row ELSE RowsAfter(r, acks)[Len(acks)]
    OBVIOUS
  <1>4. after = [row |-> t, granule |-> IF \A k \in Keys : t[k].acked # NoReceiver
                                         THEN "acked" ELSE granule]
    BY <1>1, <1>3 DEF AckBatch
  <1>5. after.row = t /\ after.granule \in {granule, "acked"}
    BY <1>4
  <1>6. granule \in {"uploaded", "acked", "pending"} /\ row \in [Keys -> Rows]
    BY DEF TypeOK
  <1>7. CASE granule = "pending"
    <2>1. t = row /\ \A k \in Keys : row[k].acked = NoReceiver /\ row[k].by = NoReceiver
      BY <1>3, <1>7, PendingRows
    <2> QED
      BY <1>5, <1>6, <1>7, <2>1 DEF Leaves
  <1>8. CASE granule # "pending"
    <2>1. t = RowsAfter(r, acks)[Len(acks)]
      BY <1>3, <1>8
    <2>2. /\ t \in [Keys -> Rows]
          /\ \A k \in Keys : Follows(t[k], row[k], r, k, acks, Len(acks))
      BY <1>2, <1>6, <2>1, RowsFollow
    <2>3. ASSUME NEW k \in Keys
          PROVE  /\ t[k].id = row[k].id
                 /\ t[k] = row[k] \/ (t[k].by = NoReceiver /\ row[k].acked = NoReceiver)
      BY <2>2 DEF Follows
    <2>4. ASSUME NEW k \in Keys, t[k].acked # NoReceiver, <<t[k].acked, k>> \notin overtaken
          PROVE  disk[t[k].acked][k] = attempt
      <3>1. CASE t[k].acked = row[k].acked
        BY <1>8, <2>4, <3>1 DEF RowsInv, AckedIsHeld
      <3>2. CASE t[k].acked # row[k].acked
        <4>1. t[k].acked = r
          BY <2>2, <3>2 DEF Follows
        <4>2. PICK m \in 1..Len(acks) : /\ acks[m].ok /\ acks[m].item.key = k
                                        /\ acks[m].item.bytes = attempt
          BY <2>2, <3>2 DEF Follows
        <4>3. m \in DOMAIN acks
          BY <1>2, <4>2
        <4> QED
          BY <1>1, <1>2, <2>4, <4>1, <4>2, <4>3 DEF ReportsTruly
      <3> QED
        BY <3>1, <3>2
    <2>5. ASSUME NEW k \in Keys,
                 [key |-> k, id |-> row[k].id, bytes |-> attempt] \in InReports(proc[r])
          PROVE  t[k].by = NoReceiver
      <3>1. PICK m \in DOMAIN acks : acks[m].item = [key |-> k, id |-> row[k].id, bytes |-> attempt]
        BY <1>1, <2>5 DEF InReports
      <3>2. m \in 1..Len(acks)
        BY <1>2, <3>1
      <3>3. t[k].by = NoReceiver \/ t[k].acked # NoReceiver
        BY <2>2, <3>1, <3>2 DEF Follows
      <3>4. t[k] = row[k] => t[k].by = NoReceiver \/ t[k].acked = NoReceiver
        BY DEF RowsInv, ClaimsAreOpen, Pullable
      <3> QED
        BY <2>3, <3>3, <3>4
    <2>6. Leaves(after)
      BY <1>5, <1>6, <1>8, <2>2, <2>3, <2>4 DEF Leaves
    <2> QED
      BY <1>5, <2>5, <2>6
  <1> QED
    BY <1>7, <1>8

\* The rows as a batch leaves them, the claims of one receiver perhaps orphaned besides.
LEMMA LeftRows ==
  ASSUME TypeOK, RowsInv, NEW after, Leaves(after), NEW r \in Receivers, NEW keys,
         row' = Orphaned(after.row, r, keys), granule' = after.granule,
         UNCHANGED <<attempt, overtaken, disk>>, ClaimsPursued'
  PROVE  RowsInv' /\ row' \in [Keys -> Rows] /\ granule' \in {"uploaded", "acked", "pending"}
  <1>1. PICK t : t = after.row
    OBVIOUS
  <1>2. t \in [Keys -> Rows] /\ row' = Orphaned(t, r, keys)
    BY <1>1 DEF Leaves
  <1>3. /\ row' \in [Keys -> Rows]
        /\ \A k \in Keys : /\ row'[k].id = t[k].id /\ row'[k].acked = t[k].acked
                           /\ row'[k].failed = t[k].failed /\ row'[k].by = t[k].by
                           /\ row'[k] # t[k] => t[k].by # NoReceiver \/ r = NoReceiver
                           /\ ~row'[k].orphan => row'[k] = t[k] /\ ~(k \in keys /\ t[k].by = r)
    BY <1>2, OrphanedRows
  <1>4. \A k \in Keys : t[k].by # NoReceiver => t[k] = row[k] /\ Pullable(k)
    BY <1>1 DEF Leaves, RowsInv, ClaimsAreOpen
  <1>5. AckedIsHeld'
    BY <1>1, <1>3 DEF Leaves, AckedIsHeld
  <1>6. ClaimsAreOpen'
    <2>1. \A k \in Keys : row'[k].by # NoReceiver => Pullable(k)'
      BY <1>3, <1>4 DEF Pullable
    <2>2. ASSUME granule' = "pending", NEW k \in Keys PROVE row'[k] = NewRow(row'[k].id)
      <3>1. granule = "pending" /\ t = row
        BY <1>1, <2>2 DEF Leaves
      <3>2. row[k].by = NoReceiver /\ r # NoReceiver
        BY <3>1, PendingRows, ReceiversAssumption
      <3>3. row'[k] = row[k]
        BY <1>3, <3>1, <3>2
      <3>4. row[k] = NewRow(row[k].id)
        BY <3>1 DEF RowsInv, ClaimsAreOpen
      <3> QED
        BY <3>3, <3>4
    <2> QED
      BY <2>1, <2>2 DEF ClaimsAreOpen
  <1> QED
    BY <1>3, <1>5, <1>6 DEF RowsInv, Leaves

LEMMA PostAcksStep ==
  ASSUME IInv, NEW r \in Receivers, NEW answered \in BOOLEAN, PostAcks(r, answered)
  PROVE  IInv'
  <1>1. ProcsInv /\ RowsInv /\ TypeOK
    BY InvParts DEF IInv
  <1>2. PICK p : p = proc[r]
    OBVIOUS
  <1>3. /\ p \in Procs /\ Tidy(p) /\ Knows(r, p) /\ ReportsTruly(r, p) /\ p.acks # <<>>
        /\ p.up
    BY <1>1, <1>2 DEF ProcsInv, TypeOK, PostAcks, Tidy, Down
  <1>4. PICK after : after = AckBatch(r)
    OBVIOUS
  <1>5. /\ Leaves(after)
        /\ \A k \in Keys : [key |-> k, id |-> row[k].id, bytes |-> attempt] \in InReports(p) =>
             after.row[k].by = NoReceiver
    BY <1>1, <1>2, <1>4, BatchLeaves
  <1>6. PICK q : q = IF answered THEN [p EXCEPT !.acks = <<>>] ELSE p
    OBVIOUS
  <1>7. q \in Procs /\ SameHand(p, q) /\ q.up /\ q.acks \in {<<>>, p.acks}
    <2>1. <<>> \in Seq([item : Items, ok : BOOLEAN])
      OBVIOUS
    <2> QED
      BY <1>3, <1>6, <2>1 DEF Procs, SameHand
  <1>8. proc' = [proc EXCEPT ![r] = q]
    BY <1>1, <1>2, <1>6 DEF PostAcks, TypeOK
  <1>9. OnHand(q) = OnHand(p) /\ InReports(q) \subseteq InReports(p)
    BY <1>7 DEF SameHand, OnHand, InFlight, Handled, InReports
  <1>10. Tidy(q)
    BY <1>3, <1>7, SameTidy
  <1>11. Knows(r, q) /\ ReportsTruly(r, q)
    <2>1. Knows(r, q)
      BY <1>3, <1>7, <1>9 DEF Knows, SameHand
    <2>2. ReportsTruly(r, q)
      BY <1>3, <1>7 DEF ReportsTruly
    <2> QED
      BY <2>1, <2>2
  <1>12. ProcsInv'
    BY <1>1, <1>8, <1>10, <1>11, ProcsKept DEF PostAcks
  <1>13. \A s \in Receivers : proc'[s] = IF s = r THEN q ELSE proc[s]
    BY <1>1, <1>8 DEF TypeOK
  <1>14. row' = after.row /\ granule' = after.granule /\ UNCHANGED <<attempt, overtaken, disk>>
    BY <1>4 DEF PostAcks
  <1>15. ClaimsPursued'
    <2> SUFFICES ASSUME NEW k \in Keys, row'[k].by # NoReceiver, ~row'[k].orphan
                 PROVE  [key |-> k, id |-> row'[k].id, bytes |-> attempt']
                          \in OnHand(proc'[row'[k].by]) \cup InReports(proc'[row'[k].by])
      BY DEF ClaimsPursued
    <2>1. row'[k] = row[k] /\ attempt' = attempt
      BY <1>5, <1>14 DEF Leaves
    <2>2. PICK i : i = [key |-> k, id |-> row[k].id, bytes |-> attempt]
      OBVIOUS
    <2>3. i \in OnHand(proc[row[k].by]) \cup InReports(proc[row[k].by])
      BY <1>1, <2>1, <2>2 DEF RowsInv, ClaimsPursued
    <2>4. row[k].by \in Receivers
      BY <1>1, <2>1 DEF TypeOK, Rows
    <2>5. i \in OnHand(proc'[row[k].by]) \cup InReports(proc'[row[k].by])
      <3>1. CASE row[k].by # r
        BY <1>13, <2>3, <2>4, <3>1
      <3>2. CASE row[k].by = r
        <4>1. i \notin InReports(p)
          BY <1>5, <1>14, <2>1, <2>2
        <4> QED
          BY <1>2, <1>9, <1>13, <2>3, <3>2, <4>1
      <3> QED
        BY <3>1, <3>2
    <2> QED
      BY <2>1, <2>2, <2>5
  <1>16. row' = Orphaned(after.row, r, {})
    BY <1>5, <1>14 DEF Leaves, Orphaned
  <1>17. RowsInv' /\ row' \in [Keys -> Rows] /\ granule' \in {"uploaded", "acked", "pending"}
    BY <1>1, <1>5, <1>14, <1>15, <1>16, LeftRows
  <1>18. TypedProcs'
    <2>1. Cardinality(q.pulling) <= Pullers
      BY <1>1, <1>2, <1>7 DEF TypeOK, SameHand
    <2>2. Len(q.acks) <= MaxReports
      <3>1. Len(p.acks) <= MaxReports
        BY <1>1, <1>2 DEF TypeOK
      <3>2. Len(<<>>) = 0
        OBVIOUS
      <3> QED
        BY <1>7, <3>1, <3>2, BoundsAssumption
    <2> QED
      BY <1>1, <1>7, <1>8, <2>1, <2>2, ProcsTyped
  <1>19. TypedRest'
    <2>1. trouble' \in 0..MaxTrouble
      BY <1>1, BoundsAssumption DEF TypeOK, PostAcks, Trouble
    <2> QED
      BY <1>1, <1>17, <2>1 DEF TypeOK, TypedRest, PostAcks
  <1> QED
    BY <1>12, <1>17, <1>18, <1>19, PartsSuffice

LEMMA ExitStep ==
  ASSUME IInv, NEW r \in Receivers, Exit(r)
  PROVE  IInv'
  <1>1. ProcsInv /\ RowsInv /\ TypeOK
    BY InvParts DEF IInv
  <1>2. PICK after \in {AckBatch(r), [granule |-> granule, row |-> row]} :
          granule' = after.granule /\ row' = Orphaned(after.row, r, Keys)
    BY DEF Exit
  <1>3. Leaves(after)
    BY <1>1, <1>2, BatchLeaves, NothingLeaves
  <1>4. Down.acks = <<>> /\ Down.pulling = {} /\ Down.offered = {} /\ Down.queued = {}
    BY DEF Down
  <1>5. OnHand(Down) = {} /\ InReports(Down) = {}
    BY <1>4 DEF OnHand, InFlight, Handled, InReports
  <1>6. Knows(r, Down) /\ ReportsTruly(r, Down)
    BY <1>4, <1>5 DEF Knows, ReportsTruly
  <1>7. Down \in Procs /\ Tidy(Down)
    BY DownTidy
  <1>8. proc' = [proc EXCEPT ![r] = Down]
    BY DEF Exit
  <1>9. ProcsInv'
    BY <1>1, <1>6, <1>7, <1>8, ProcsKept DEF Exit
  <1>10. \A s \in Receivers : s # r => proc'[s] = proc[s]
    BY <1>1, <1>8 DEF TypeOK
  <1>11. PICK t \in [Keys -> Rows] : t = after.row
    BY <1>3 DEF Leaves
  <1>12. \A k \in Keys : /\ row'[k].id = t[k].id /\ row'[k].acked = t[k].acked
                         /\ row'[k].failed = t[k].failed /\ row'[k].by = t[k].by
                         /\ row'[k] # t[k] => t[k].by # NoReceiver \/ r = NoReceiver
                         /\ ~row'[k].orphan => row'[k] = t[k] /\ ~(k \in Keys /\ t[k].by = r)
    BY <1>2, <1>11, OrphanedRows
  <1>13. ClaimsPursued'
    <2> SUFFICES ASSUME NEW k \in Keys, row'[k].by # NoReceiver, ~row'[k].orphan
                 PROVE  [key |-> k, id |-> row'[k].id, bytes |-> attempt']
                          \in OnHand(proc'[row'[k].by]) \cup InReports(proc'[row'[k].by])
      BY DEF ClaimsPursued
    <2>1. row'[k] = t[k] /\ t[k].by # r /\ attempt' = attempt
      BY <1>12 DEF Exit
    <2>2. t[k] = row[k]
      BY <1>3, <1>11, <2>1 DEF Leaves
    <2>3. row[k].by \in Receivers
      BY <1>1, <2>1, <2>2 DEF TypeOK, Rows
    <2> QED
      BY <1>1, <1>10, <2>1, <2>2, <2>3 DEF RowsInv, ClaimsPursued
  <1>14. RowsInv' /\ row' \in [Keys -> Rows] /\ granule' \in {"uploaded", "acked", "pending"}
    BY <1>1, <1>2, <1>3, <1>13, LeftRows DEF Exit
  <1>15. TypedProcs'
    <2>1. Cardinality(Down.pulling) <= Pullers /\ Len(Down.acks) <= MaxReports
      <3>1. Cardinality(Down.pulling) = 0 /\ Len(Down.acks) = 0
        BY <1>4, FS_EmptySet
      <3> QED
        BY <3>1, BoundsAssumption
    <2> QED
      BY <1>1, <1>7, <1>8, <2>1, ProcsTyped
  <1>16. TypedRest'
    BY <1>1, <1>14 DEF TypeOK, TypedRest, Exit
  <1> QED
    BY <1>9, <1>14, <1>15, <1>16, PartsSuffice

-----------------------------------------------------------------------------
(* Steps of the orchestrator, the operator and the worker.                   *)

\* No process moves and no granule either.
LEMMA ProcsStay ==
  ASSUME TypeOK, ProcsInv, UNCHANGED <<attempt, proc, disk, overtaken>>,
         \A k \in Keys : host'[k] \in {host[k], 0}
  PROVE  ProcsInv'
  <1>1. HostsKnown'
    BY DEF ProcsInv, HostsKnown
  <1>2. ASSUME NEW r \in Receivers
        PROVE  Tidy(proc[r])' /\ Knows(r, proc[r])' /\ ReportsTruly(r, proc[r])'
    BY DEF ProcsInv, Knows, ReportsTruly
  <1> QED
    BY <1>1, <1>2 DEF ProcsInv

LEMMA ExpireStep ==
  ASSUME IInv, NEW k \in Keys, ClaimExpires(k)
  PROVE  IInv'
  <1>1. ProcsInv /\ RowsInv /\ TypeOK
    BY InvParts DEF IInv
  <1>2. /\ row' = [row EXCEPT ![k] = Freed(row[k])] /\ row[k].by # NoReceiver
        /\ UNCHANGED <<granule, attempt, host, receiver, restart, proc, disk, overtaken>>
    BY DEF ClaimExpires, Lapsed
  <1>3. ProcsInv'
    BY <1>1, <1>2, ProcsStay
  <1>4. ASSUME NEW j \in Keys
        PROVE  /\ row'[j] \in Rows
               /\ row'[j].id = row[j].id /\ row'[j].acked = row[j].acked
               /\ row'[j].failed = row[j].failed
               /\ row'[j].by = NoReceiver \/ row'[j] = row[j]
    <2>1. row[j] \in Rows /\ row'[j] = IF j = k THEN Freed(row[j]) ELSE row[j]
      BY <1>1, <1>2 DEF TypeOK
    <2> QED
      BY <2>1 DEF Rows, Freed
  <1>5. row' \in [Keys -> Rows]
    BY <1>1, <1>2, <1>4 DEF TypeOK
  <1>6. ClaimsPursued'
    <2> SUFFICES ASSUME NEW j \in Keys, row'[j].by # NoReceiver, ~row'[j].orphan
                 PROVE  [key |-> j, id |-> row'[j].id, bytes |-> attempt']
                          \in OnHand(proc'[row'[j].by]) \cup InReports(proc'[row'[j].by])
      BY DEF ClaimsPursued
    <2>1. row'[j] = row[j]
      BY <1>4
    <2> QED
      BY <1>1, <1>2, <2>1 DEF RowsInv, ClaimsPursued
  <1>7. \A j \in Keys : row'[j].by # NoReceiver => Pullable(j)
    BY <1>1, <1>4 DEF RowsInv, ClaimsAreOpen
  <1>8. granule # "pending"
    BY <1>1, <1>2, PendingRows
  <1>9. RowsInv'
    BY <1>1, <1>2, <1>4, <1>5, <1>6, <1>7, <1>8, ClaimsChanged
  <1>10. TypedProcs'
    BY <1>1, <1>2, TypeParts DEF TypedProcs
  <1>11. TypedRest'
    <2>1. trouble' \in 0..MaxTrouble
      BY <1>1, BoundsAssumption DEF TypeOK, ClaimExpires, Trouble
    <2> QED
      BY <1>1, <1>2, <1>5, <2>1 DEF TypeOK, TypedRest
  <1> QED
    BY <1>3, <1>9, <1>10, <1>11, PartsSuffice

LEMMA ResetStep ==
  ASSUME IInv, ResetPullFailures
  PROVE  IInv'
  <1>1. ProcsInv /\ RowsInv /\ TypeOK
    BY InvParts DEF IInv
  <1>2. /\ row' = [k \in Keys |-> IF Exhausted(k) THEN [row[k] EXCEPT !.failed = 0] ELSE row[k]]
        /\ UNCHANGED <<granule, attempt, host, receiver, restart, proc, disk, overtaken>>
        /\ granule # "pending"
    BY DEF ResetPullFailures
  <1>3. ProcsInv'
    BY <1>1, <1>2, ProcsStay
  <1>4. ASSUME NEW k \in Keys
        PROVE  /\ row'[k] \in Rows
               /\ row'[k].id = row[k].id /\ row'[k].acked = row[k].acked
               /\ row'[k].by = row[k].by
               /\ row'[k].by = NoReceiver \/ row'[k] = row[k]
    <2>1. row[k] \in Rows /\ row'[k] = IF Exhausted(k) THEN [row[k] EXCEPT !.failed = 0] ELSE row[k]
      BY <1>1, <1>2 DEF TypeOK
    <2>2. row[k].by # NoReceiver => Pullable(k) /\ row[k].failed \in Nat
      BY <1>1, <2>1 DEF RowsInv, ClaimsAreOpen, Rows
    <2>3. row[k].by # NoReceiver => ~Exhausted(k)
      BY <2>2, BoundsAssumption DEF Pullable, Exhausted
    <2>4. 0 \in 0..MaxFailures
      BY BoundsAssumption
    <2> QED
      BY <2>1, <2>3, <2>4 DEF Rows
  <1>5. row' \in [Keys -> Rows]
    BY <1>2, <1>4
  <1>6. RowsInv'
    <2>1. AckedIsHeld'
      BY <1>1, <1>2, <1>4 DEF RowsInv, AckedIsHeld
    <2>2. ClaimsAreOpen'
      BY <1>1, <1>2, <1>4 DEF RowsInv, ClaimsAreOpen, Pullable
    <2>3. ClaimsPursued'
      <3> SUFFICES ASSUME NEW j \in Keys, row'[j].by # NoReceiver, ~row'[j].orphan
                   PROVE  [key |-> j, id |-> row'[j].id, bytes |-> attempt']
                            \in OnHand(proc'[row'[j].by]) \cup InReports(proc'[row'[j].by])
        BY DEF ClaimsPursued
      <3>1. row'[j] = row[j]
        BY <1>4
      <3> QED
        BY <1>1, <1>2, <3>1 DEF RowsInv, ClaimsPursued
    <2> QED
      BY <2>1, <2>2, <2>3 DEF RowsInv
  <1>7. TypedProcs'
    BY <1>1, <1>2, TypeParts DEF TypedProcs
  <1>8. TypedRest'
    <2>1. trouble' \in 0..MaxTrouble
      BY <1>1, BoundsAssumption DEF TypeOK, ResetPullFailures, Trouble
    <2> QED
      BY <1>1, <1>2, <1>5, <2>1 DEF TypeOK, TypedRest
  <1> QED
    BY <1>3, <1>6, <1>7, <1>8, PartsSuffice

\* Rows as new: nothing is claimed or acknowledged.
LEMMA NewRows ==
  ASSUME NEW ids \in [Keys -> Ids], row' = [k \in Keys |-> NewRow(ids[k])]
  PROVE  row' \in [Keys -> Rows] /\ RowsInv'
  <1>1. ASSUME NEW k \in Keys
        PROVE  /\ row'[k] \in Rows /\ row'[k] = NewRow(row'[k].id)
               /\ row'[k].by = NoReceiver /\ row'[k].acked = NoReceiver
    <2>1. row'[k] = NewRow(ids[k]) /\ ids[k] \in Ids
      OBVIOUS
    <2>2. row'[k].id = ids[k] /\ row'[k].by = NoReceiver /\ row'[k].acked = NoReceiver
      BY <2>1 DEF NewRow
    <2>3. NewRow(ids[k]) \in Rows
      BY <2>1, BoundsAssumption DEF NewRow, Rows
    <2> QED
      BY <2>1, <2>2, <2>3
  <1> QED
    BY <1>1 DEF RowsInv, AckedIsHeld, ClaimsAreOpen, ClaimsPursued

LEMMA RequeueStep ==
  ASSUME IInv, RequeueUndeliverable
  PROVE  IInv'
  <1>1. ProcsInv /\ RowsInv /\ TypeOK
    BY InvParts DEF IInv
  <1>2. /\ granule' = "pending" /\ row' = [k \in Keys |-> NewRow(row[k].id)]
        /\ UNCHANGED <<attempt, host, receiver, restart, proc, disk, overtaken>>
    BY DEF RequeueUndeliverable
  <1>3. ProcsInv'
    BY <1>1, <1>2, ProcsStay
  <1> DEFINE ids == [k \in Keys |-> row[k].id]
  <1>4. ids \in [Keys -> Ids] /\ row' = [k \in Keys |-> NewRow(ids[k])]
    BY <1>1, <1>2 DEF TypeOK, Rows
  <1> HIDE DEF ids
  <1>5. row' \in [Keys -> Rows] /\ RowsInv'
    BY <1>4, NewRows
  <1>6. TypedProcs'
    BY <1>1, <1>2, TypeParts DEF TypedProcs
  <1>7. TypedRest'
    <2>1. trouble' \in 0..MaxTrouble
      BY <1>1, BoundsAssumption DEF TypeOK, RequeueUndeliverable, Trouble
    <2> QED
      BY <1>1, <1>2, <1>5, <2>1 DEF TypeOK, TypedRest
  <1> QED
    BY <1>3, <1>5, <1>6, <1>7, PartsSuffice

LEMMA UploadedStep ==
  ASSUME IInv, Uploaded
  PROVE  IInv'
  <1>1. ProcsInv /\ RowsInv /\ TypeOK
    BY InvParts DEF IInv
  <1>2. attempt \in 1..MaxAttempts /\ attempt + 1 \in 1..MaxAttempts /\ attempt' = attempt + 1
    BY <1>1, BoundsAssumption DEF TypeOK, Uploaded
  <1>3. PICK reused \in BOOLEAN :
          row' = [k \in Keys |-> NewRow(IF reused THEN row[k].id ELSE attempt + 1)]
    BY DEF Uploaded
  <1> DEFINE ids == [k \in Keys |-> IF reused THEN row[k].id ELSE attempt + 1]
  <1>4. ids \in [Keys -> Ids] /\ row' = [k \in Keys |-> NewRow(ids[k])]
    BY <1>1, <1>2, <1>3 DEF TypeOK, Rows, Ids
  <1> HIDE DEF ids
  <1>5. row' \in [Keys -> Rows] /\ RowsInv'
    BY <1>4, NewRows
  <1>6. /\ granule' = "uploaded" /\ host' = [k \in Keys |-> attempt + 1]
        /\ overtaken' = overtaken \cup
             {x \in Receivers \X Keys : \E i \in OnHand(proc[x[1]]) : i.key = x[2]}
        /\ UNCHANGED <<receiver, restart, proc, disk, trouble>>
    BY DEF Uploaded
  <1>7. ProcsInv'
    <2>1. HostsKnown'
      BY <1>2, <1>6 DEF HostsKnown
    <2>2. ASSUME NEW r \in Receivers
          PROVE  Tidy(proc'[r]) /\ Knows(r, proc[r])' /\ ReportsTruly(r, proc[r])'
      <3>1. PICK p : p = proc[r]
        OBVIOUS
      <3>2. p \in Procs /\ Tidy(p) /\ Knows(r, p) /\ proc'[r] = p
        BY <1>1, <1>6, <3>1 DEF ProcsInv, TypeOK
      <3>3. ASSUME NEW i \in OnHand(p) \cup InReports(p)
            PROVE  i.bytes \in Nat /\ i.bytes <= attempt
        <4>1. i \in Items
          <5>1. OnHand(p) \subseteq Items
            BY <3>2 DEF OnHand, InFlight, Handled, Procs
          <5>2. InReports(p) \subseteq Items
            BY <3>2, ReportOf DEF InReports
          <5> QED
            BY <5>1, <5>2
        <4> QED
          BY <3>2, <4>1, BoundsAssumption DEF Knows, Items, Bytes
      <3>4. ASSUME NEW i \in OnHand(p) PROVE <<r, i.key>> \in overtaken'
        <4>1. i.key \in Keys
          BY <3>2 DEF OnHand, InFlight, Handled, Procs, Items
        <4> QED
          BY <1>6, <3>1, <4>1
      <3>5. \A x \in p.pulling : x.item \in OnHand(p)
        BY DEF OnHand, InFlight, Handled
      <3>6. Knows(r, proc[r])'
        <4>1. \A i \in OnHand(p) \cup InReports(p) : i.bytes <= attempt' /\ i.bytes # attempt'
          BY <1>2, <3>3
        <4> QED
          BY <3>2, <3>4, <3>5, <4>1 DEF Knows
      <3>7. ReportsTruly(r, proc[r])'
        <4>1. \A n \in DOMAIN p.acks : p.acks[n].item.bytes # attempt'
          <5>1. \A n \in DOMAIN p.acks : p.acks[n].item \in InReports(p)
            BY DEF InReports
          <5> QED
            BY <1>2, <3>3, <5>1
        <4> QED
          BY <3>2, <4>1 DEF ReportsTruly
      <3> QED
        BY <3>2, <3>6, <3>7
    <2> QED
      BY <2>1, <2>2 DEF ProcsInv
  <1>8. TypedProcs'
    BY <1>1, <1>6, TypeParts DEF TypedProcs
  <1>9. TypedRest'
    <2>1. overtaken' \subseteq Receivers \X Keys
      BY <1>1, <1>6 DEF TypeOK
    <2>2. host' \in [Keys -> Bytes]
      BY <1>2, <1>6 DEF Bytes
    <2> QED
      BY <1>1, <1>2, <1>5, <1>6, <2>1, <2>2 DEF TypeOK, TypedRest
  <1> QED
    BY <1>5, <1>7, <1>8, <1>9, PartsSuffice

\* A step that touches neither rows nor processes: requests, losses on the worker, stuttering.
LEMMA AsideStep ==
  ASSUME IInv,
         \/ \E r \in Receivers :
              RequestRestart(r) \/ ForgetReceiver(r) \/ \E enabled \in BOOLEAN : SetEnabled(r, enabled)
         \/ \E k \in Keys : FileLost(k)
         \/ UNCHANGED vars
  PROVE  IInv'
  <1>1. ProcsInv /\ RowsInv /\ TypeOK
    BY InvParts DEF IInv
  <1>2. UNCHANGED <<granule, attempt, row, proc, disk, overtaken>>
    BY DEF RequestRestart, ForgetReceiver, SetEnabled, FileLost, tables, vars
  <1>3. host' \in [Keys -> Bytes] /\ \A k \in Keys : host'[k] \in {host[k], 0}
    <2>1. 0 \in Bytes
      BY BoundsAssumption DEF Bytes
    <2>2. CASE \E k \in Keys : FileLost(k)
      BY <1>1, <2>1, <2>2 DEF FileLost, TypeOK
    <2>3. CASE host' = host
      BY <1>1, <2>3 DEF TypeOK
    <2> QED
      BY <2>2, <2>3 DEF RequestRestart, ForgetReceiver, SetEnabled, vars
  <1>4. ProcsInv'
    BY <1>1, <1>2, <1>3, ProcsStay
  <1>5. RowsInv'
    BY <1>1, <1>2, RowsKept
  <1>6. TypedProcs'
    BY <1>1, <1>2, TypeParts DEF TypedProcs
  <1>7. /\ receiver' \in [Receivers -> {"absent", "enabled", "disabled"}]
        /\ restart' \subseteq Receivers
    BY <1>1 DEF TypeOK, RequestRestart, ForgetReceiver, SetEnabled, FileLost, vars
  <1>8. trouble' \in 0..MaxTrouble
    BY <1>1, BoundsAssumption
       DEF TypeOK, RequestRestart, ForgetReceiver, SetEnabled, FileLost, vars, Trouble
  <1>9. TypedRest'
    BY <1>1, <1>2, <1>3, <1>7, <1>8 DEF TypeOK, TypedRest
  <1> QED
    BY <1>4, <1>5, <1>6, <1>9, PartsSuffice

LEMMA StepInv == IInv /\ [Next]_vars => IInv'
  <1> SUFFICES ASSUME IInv, [Next]_vars PROVE IInv'
    OBVIOUS
  <1>1. CASE Operator
    BY <1>1, ResetStep, RequeueStep, AsideStep DEF Operator
  <1>2. ASSUME NEW r \in Receivers, Process(r) PROVE IInv'
    <2>1. CASE Boot(r)
      BY <2>1, BootStep
    <2>2. CASE Pull(r) \/ Receive(r) \/ PullLost(r)
      BY <2>2, PullStep, ReceiveStep, PullLostStep
    <2>3. CASE \E i \in proc[r].queued : StartPull(r, i)
      BY <2>3, StartStep
    <2>4. CASE \E x \in proc[r].pulling : \E transported \in BOOLEAN : PullEnds(r, x, transported)
      BY <2>4, PullEndsStep
    <2>5. CASE \E answered \in BOOLEAN : PostAcks(r, answered)
      BY <2>5, PostAcksStep
    <2>6. CASE Heartbeat(r) \/ Terminated(r)
      BY <2>6, DrainStep
    <2>7. CASE Exit(r)
      BY <2>7, ExitStep
    <2> QED
      BY <1>2, <2>1, <2>2, <2>3, <2>4, <2>5, <2>6, <2>7 DEF Process
  <1>3. CASE Uploaded
    BY <1>3, UploadedStep
  <1>4. CASE \E k \in Keys : ClaimExpires(k) \/ FileLost(k)
    BY <1>4, ExpireStep, AsideStep
  <1>5. CASE UNCHANGED vars
    BY <1>5, AsideStep
  <1> QED
    BY <1>1, <1>2, <1>3, <1>4, <1>5 DEF Next

-----------------------------------------------------------------------------
(* The theorems.                                                             *)

\* The inductive invariant: types, single pulls, true reports and acknowledgements, pursued
\* claims, and what is known of items of earlier attempts (Pulling.tla).
THEOREM PullInvariant == Spec => [](TypeOK /\ PullInv)
  <1>1. Init => IInv
    BY InitInv
  <1>2. IInv /\ [Next]_vars => IInv'
    BY StepInv
  <1>3. IInv => TypeOK /\ PullInv
    BY DEF IInv
  <1> QED
    BY <1>1, <1>2, <1>3, PTL DEF Spec

\* runtime.py, _producer_loop and _pull_one: no receiver fetches one object twice at a time,
\* and what is in flight fits the queue.
THEOREM OnePull == Spec => []OnePullEach
  <1>1. TypeOK /\ PullInv => OnePullEach
    BY DEF PullInv
  <1> QED
    BY <1>1, PullInvariant, PTL

\* api/receivers.py, pull, and runtime.py: a running claim is pursued by its receiver, unless
\* a reply or a process was lost.
THEOREM ClaimsFollowed == Spec => []ClaimIsPursued
  <1>1. TypeOK /\ PullInv => ClaimIsPursued
    <2> SUFFICES ASSUME PullInv, NEW k \in Keys, row[k].by # NoReceiver, ~row[k].orphan
                 PROVE  \E i \in OnHand(proc[row[k].by]) \cup InReports(proc[row[k].by]) :
                          i.key = k /\ i.id = row[k].id
      BY DEF ClaimIsPursued
    <2>1. [key |-> k, id |-> row[k].id, bytes |-> attempt]
            \in OnHand(proc[row[k].by]) \cup InReports(proc[row[k].by])
      BY DEF PullInv, ClaimsPursued
    <2> QED
      BY <2>1
  <1> QED
    BY <1>1, PullInvariant, PTL

\* api/receivers.py, ack_batch: an acknowledged object is on the disk of the receiver that
\* acknowledged it, unless an item of an earlier attempt was still on hand there.
THEOREM AcksHeld == Spec => []AckedIsHeld
  <1>1. TypeOK /\ PullInv => AckedIsHeld
    BY DEF PullInv
  <1> QED
    BY <1>1, PullInvariant, PTL

\* api/receivers.py, _apply_ack: nothing changes the row of an acknowledged object, short of
\* a requeue of its granule.
THEOREM AcksFinal == Spec => AckIsFinal
  <1>1. ASSUME TypeOK, PullInv, [Next]_vars, NEW k \in Keys, row[k].acked # NoReceiver,
               granule' # "pending"
        PROVE  row'[k] = row[k]
    <2>1. RowsInv /\ ProcsInv /\ row[k].by = NoReceiver /\ ~Pullable(k) /\ row \in [Keys -> Rows]
      BY <1>1, InvParts DEF RowsInv, ClaimsAreOpen, Pullable, TypeOK
    <2>2. granule # "pending"
      BY <1>1, <2>1, PendingRows
    <2>3. ASSUME NEW after, Leaves(after) PROVE after.row[k] = row[k]
      BY <1>1, <2>3 DEF Leaves
    <2>4. ASSUME NEW r \in Receivers, NEW t, NEW keys, t \in [Keys -> Rows], t[k] = row[k]
          PROVE  Orphaned(t, r, keys)[k] = row[k]
      BY <2>1, <2>4, ReceiversAssumption DEF Orphaned
    <2>5. ASSUME NEW r \in Receivers, Process(r) PROVE row'[k] = row[k]
      <3>1. CASE Pull(r)
        <4>1. PICK limit : row' = [j \in Keys |-> IF j \in Taken(limit)
                                     THEN [row[j] EXCEPT !.by = r, !.orphan = FALSE] ELSE row[j]]
          BY <3>1 DEF Pull
        <4>2. k \notin Taken(limit)
          BY <2>1 DEF Taken, Claimable
        <4> QED
          BY <4>1, <4>2
      <3>2. CASE Receive(r) \/ PullLost(r)
        BY <2>1, <2>4, <3>2 DEF Receive, PullLost
      <3>3. CASE \E answered \in BOOLEAN : PostAcks(r, answered)
        <4>1. PICK after : after = AckBatch(r) /\ row' = after.row
          BY <3>3 DEF PostAcks
        <4> QED
          BY <1>1, <2>1, <2>3, <4>1, BatchLeaves
      <3>4. CASE Exit(r)
        <4>1. PICK after \in {AckBatch(r), [granule |-> granule, row |-> row]} :
                row' = Orphaned(after.row, r, Keys)
          BY <3>4 DEF Exit
        <4>2. Leaves(after)
          BY <1>1, <2>1, <4>1, BatchLeaves, NothingLeaves
        <4>3. after.row \in [Keys -> Rows] /\ after.row[k] = row[k]
          BY <2>3, <4>2 DEF Leaves
        <4> QED
          BY <2>4, <4>1, <4>3
      <3>5. CASE row' = row
        BY <3>5
      <3> QED
        BY <2>5, <3>1, <3>2, <3>3, <3>4, <3>5
           DEF Process, Boot, StartPull, PullEnds, Heartbeat, Terminated, tables
    <2>6. CASE Operator
      <3>1. CASE ResetPullFailures
        BY <1>1, <3>1 DEF ResetPullFailures, Exhausted
      <3>2. CASE RequeueUndeliverable
        BY <1>1, <3>2 DEF RequeueUndeliverable
      <3>3. CASE row' = row
        BY <3>3
      <3> QED
        BY <2>6, <3>1, <3>2, <3>3 DEF Operator, RequestRestart, ForgetReceiver, SetEnabled, tables
    <2>7. CASE Uploaded
      BY <2>2, <2>7 DEF Uploaded
    <2>8. CASE \E j \in Keys : ClaimExpires(j) \/ FileLost(j)
      BY <2>1, <2>8 DEF ClaimExpires, FileLost, tables
    <2>9. CASE UNCHANGED vars
      BY <2>9 DEF vars, tables
    <2> QED
      BY <1>1, <2>5, <2>6, <2>7, <2>8, <2>9 DEF Next
  <1>2. TypeOK /\ PullInv /\ [Next]_vars =>
          [\A k \in Keys : row[k].acked # NoReceiver /\ granule' # "pending" => row'[k] = row[k]]_vars
    BY <1>1
  <1> QED
    BY <1>2, PullInvariant, PTL DEF Spec, AckIsFinal
=============================================================================
