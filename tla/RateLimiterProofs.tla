-------------------------- MODULE RateLimiterProofs --------------------------
(***************************************************************************)
(* Proofs about RateLimiter for any clients, limiters, requests and burst: *)
(* the gauge follows the map, and no client gets more than twice the burst *)
(* beyond the refill rate.                                                 *)
(***************************************************************************)
EXTENDS RateLimiter, FiniteSetTheorems, TLAPS

(***************************************************************************)
(* Types                                                                   *)
(***************************************************************************)
LEMMA FlightType ==
    ASSUME TypeOK, NEW r \in Request, rq[r].at # "free"
    PROVE  rq[r] \in InFlight
  BY DEF TypeOK, Free

LEMMA SweepType ==
    ASSUME TypeOK, sweep.at = "range"
    PROVE  sweep \in Running
  BY DEF TypeOK, Waiting

LEMMA ArriveType ==
    ASSUME TypeOK, NEW r \in Request, NEW c \in Client, NEW l \in Limiter,
           NEW loaded \in BOOLEAN, Arrive(r, c, l, loaded)
    PROVE  rq' \in [Request -> {Free} \cup InFlight]
  <1>1. [at |-> "touch", client |-> c, limiter |-> l, loaded |-> loaded] \in InFlight
    BY DEF InFlight
  <1>. QED BY <1>1 DEF Arrive, TypeOK

LEMMA RequestType ==
    ASSUME TypeOK, NEW r \in Request, RequestStep(r)
    PROVE  TypeOK'
  <1>1. ASSUME NEW c \in Client, Load(r, c) PROVE TypeOK'
    <2>1. limiters[c] \in Limiter
      BY <1>1 DEF Load, Mapped, TypeOK
    <2>2. rq' \in [Request -> {Free} \cup InFlight]
      BY <1>1, <2>1, ArriveType DEF Load
    <2>. QED BY <1>1, <2>2 DEF Load, TypeOK
  <1>2. ASSUME NEW c \in Client, Store(r, c) PROVE TypeOK'
    <2>1. PICK l \in Limiter :
             /\ Arrive(r, c, l, FALSE)
             /\ limiters' = [limiters EXCEPT ![c] = l]
             /\ tokens' = [tokens EXCEPT ![l] = Burst]
             /\ stale' = stale \ {l}
      BY <1>2 DEF Store
    <2>2. rq' \in [Request -> {Free} \cup InFlight]
      BY <2>1, ArriveType
    <2>. QED BY <1>2, <2>1, <2>2, BurstAssumption DEF Store, TypeOK
  <1>3. ASSUME Touch(r) PROVE TypeOK'
    <2>1. rq[r] \in InFlight
      BY <1>3, FlightType DEF Touch
    <2>2. [rq[r] EXCEPT !.at = IF rq[r].loaded THEN "allow" ELSE "count"] \in InFlight
      BY <2>1 DEF InFlight
    <2>3. rq' \in [Request -> {Free} \cup InFlight]
      BY <1>3, <2>2 DEF Touch, TypeOK
    <2>. QED BY <1>3, <2>3 DEF Touch, TypeOK
  <1>4. ASSUME Count(r) PROVE TypeOK'
    <2>1. rq[r] \in InFlight
      BY <1>4, FlightType DEF Count
    <2>2. [rq[r] EXCEPT !.at = "allow"] \in InFlight
      BY <2>1 DEF InFlight
    <2>3. rq' \in [Request -> {Free} \cup InFlight]
      BY <1>4, <2>2 DEF Count, TypeOK
    <2>. QED BY <1>4, <2>3 DEF Count, TypeOK
  <1>5. ASSUME Allow(r) PROVE TypeOK'
    <2>1. rq[r].limiter \in Limiter /\ rq[r].client \in Client
      BY <1>5, FlightType DEF Allow, InFlight
    <2>2. rq' \in [Request -> {Free} \cup InFlight]
      BY <1>5 DEF Allow, TypeOK
    <2>3. tokens' \in [Limiter -> 0..Burst] /\ excess' \in [Client -> Int]
      BY <1>5, <2>1, BurstAssumption DEF Allow, TypeOK
    <2>. QED BY <1>5, <2>2, <2>3 DEF Allow, TypeOK
  <1>. QED BY <1>1, <1>2, <1>3, <1>4, <1>5 DEF RequestStep

LEMMA SweeperType ==
    ASSUME TypeOK, Sweeper
    PROVE  TypeOK'
  <1>1. ASSUME SweepStart PROVE TypeOK'
    <2>1. sweep' \in Running
      BY <1>1 DEF SweepStart, Running, Mapped
    <2>. QED BY <1>1, <2>1 DEF SweepStart, TypeOK
  <1>2. ASSUME NEW c \in Client, SweepVisit(c) PROVE TypeOK'
    <2>1. sweep' \in Running
      BY <1>2, SweepType DEF SweepVisit, Running
    <2>. QED BY <1>2, <2>1 DEF SweepVisit, TypeOK
  <1>3. ASSUME SweepDelete PROVE TypeOK'
    <2>1. sweep \in Running
      BY <1>3, SweepType DEF SweepDelete
    <2>2. sweep.victim \in Client /\ sweep.removed + 1 \in Nat
      BY <1>3, <2>1 DEF SweepDelete, Running
    <2>3. [sweep EXCEPT !.victim = None, !.removed = sweep.removed + 1] \in Running
      <3>. DEFINE ended == [sweep EXCEPT !.victim = None]
      <3>1. ended \in Running
        BY <2>1 DEF Running
      <3>2. [ended EXCEPT !.removed = sweep.removed + 1] \in Running
        BY <2>2, <3>1 DEF Running
      <3>. QED BY <3>2
    <2>. QED BY <1>3, <2>2, <2>3 DEF SweepDelete, TypeOK
  <1>4. ASSUME SweepEnd PROVE TypeOK'
    <2>1. sweep.removed \in Nat
      BY <1>4, SweepType DEF SweepEnd, Running
    <2>. QED BY <1>4, <2>1 DEF SweepEnd, TypeOK
  <1>. QED BY <1>1, <1>2, <1>3, <1>4 DEF Sweeper

LEMMA TimeType ==
    ASSUME TypeOK, NEW c \in Client, Refill(c) \/ FallIdle(c)
    PROVE  TypeOK'
  <1>1. CASE Refill(c)
    <2>1. PICK l \in Buckets(c) :
             tokens[l] < Burst /\ tokens' = [tokens EXCEPT ![l] = @ + 1]
      BY <1>1 DEF Refill
    <2>2. l \in Limiter
      BY DEF Buckets
    <2>3. tokens[l] + 1 \in 0..Burst /\ excess[c] - 1 \in Int
      BY <2>1, <2>2, BurstAssumption DEF TypeOK
    <2>4. tokens' \in [Limiter -> 0..Burst] /\ excess' \in [Client -> Int]
      BY <1>1, <2>1, <2>2, <2>3 DEF Refill, TypeOK
    <2>. QED BY <1>1, <2>4 DEF Refill, TypeOK
  <1>2. CASE FallIdle(c)
    BY <1>2 DEF FallIdle, TypeOK, Mapped
  <1>. QED BY <1>1, <1>2

LEMMA NextType == ASSUME TypeOK, [Next]_vars PROVE TypeOK'
  <1>1. CASE UNCHANGED vars
    BY <1>1 DEF vars, TypeOK
  <1>2. CASE Next
    BY <1>2, RequestType, SweeperType, TimeType DEF Next
  <1>. QED BY <1>1, <1>2

LEMMA InitType == Init => TypeOK
  BY BurstAssumption DEF Init, TypeOK

\* Map, buckets, requests, sweep and gauge keep their types: no bucket is overdrawn,
\* and a sweep's count of removals is a natural number.
THEOREM LimiterTypes == Spec => []TypeOK
  BY InitType, NextType, PTL DEF Spec

(***************************************************************************)
(* The gauge                                                               *)
(***************************************************************************)
\* What GaugeFollowsMap needs to be inductive: both sets it counts are finite, only
\* the request that stored increments, the key about to be deleted is in the map.
GaugeInv ==
    /\ IsFiniteSet(Mapped)
    /\ IsFiniteSet(Uncounted)
    /\ \A r \in Request : rq[r].at = "count" => ~rq[r].loaded
    /\ sweep # Waiting /\ sweep.victim # None => sweep.victim \in Mapped
    /\ GaugeFollowsMap

\* A step that leaves both sets and both counters alone.
LEMMA GaugeStays ==
    ASSUME GaugeInv, Mapped' = Mapped, Uncounted' = Uncounted, gauge' = gauge,
           Unsubtracted' = Unsubtracted
    PROVE  IsFiniteSet(Mapped)' /\ IsFiniteSet(Uncounted)' /\ GaugeFollowsMap'
  BY DEF GaugeInv, GaugeFollowsMap

LEMMA RequestGauge ==
    ASSUME TypeOK, GaugeInv, NEW r \in Request, RequestStep(r)
    PROVE  GaugeInv'
  <1>1. ASSUME NEW c \in Client, Load(r, c) PROVE GaugeInv'
    <2>1. Mapped' = Mapped /\ Unsubtracted' = Unsubtracted /\ gauge' = gauge
      BY <1>1 DEF Load, Mapped, Unsubtracted
    <2>2. Uncounted' = Uncounted
      BY <1>1 DEF Load, Arrive, Uncounted, TypeOK, Free
    <2>3. \A s \in Request : (rq[s].at = "count" => ~rq[s].loaded)'
      BY <1>1 DEF Load, Arrive, TypeOK, GaugeInv
    <2>. QED BY <1>1, <2>1, <2>2, <2>3, GaugeStays DEF Load, GaugeInv
  <1>2. ASSUME NEW c \in Client, Store(r, c) PROVE GaugeInv'
    <2>1. PICK l \in Limiter :
             Arrive(r, c, l, FALSE) /\ limiters' = [limiters EXCEPT ![c] = l]
      BY <1>2 DEF Store
    <2>2. c \notin Mapped /\ Mapped' = Mapped \cup {c}
      BY <1>2, <2>1, NoneAssumption DEF Store, Mapped, TypeOK
    <2>3. r \notin Uncounted /\ Uncounted' = Uncounted \cup {r}
      BY <1>2, <2>1 DEF Store, Arrive, Uncounted, TypeOK, Free
    <2>4. /\ IsFiniteSet(Mapped') /\ Cardinality(Mapped') = Cardinality(Mapped) + 1
          /\ IsFiniteSet(Uncounted')
          /\ Cardinality(Uncounted') = Cardinality(Uncounted) + 1
      BY <2>2, <2>3, FS_AddElement DEF GaugeInv
    <2>5. Cardinality(Mapped) \in Nat /\ Cardinality(Uncounted) \in Nat
      BY FS_CardinalityType DEF GaugeInv
    <2>6. Unsubtracted \in Nat /\ Unsubtracted' = Unsubtracted
      BY <1>2 DEF Store, Unsubtracted, TypeOK, Running, Waiting
    <2>7. GaugeFollowsMap'
      BY <1>2, <2>4, <2>5, <2>6 DEF Store, GaugeInv, GaugeFollowsMap, TypeOK
    <2>8. \A s \in Request : (rq[s].at = "count" => ~rq[s].loaded)'
      BY <2>1 DEF Arrive, TypeOK, GaugeInv
    <2>. QED BY <1>2, <2>2, <2>4, <2>7, <2>8 DEF Store, GaugeInv
  <1>3. ASSUME Touch(r) PROVE GaugeInv'
    <2>1. rq[r] \in InFlight
      BY <1>3, FlightType DEF Touch
    <2>2. Mapped' = Mapped /\ Unsubtracted' = Unsubtracted /\ gauge' = gauge
      BY <1>3 DEF Touch, Mapped, Unsubtracted
    <2>3. /\ rq'[r].loaded = rq[r].loaded
          /\ rq'[r].at = IF rq[r].loaded THEN "allow" ELSE "count"
          /\ \A s \in Request \ {r} : rq'[s] = rq[s]
      BY <1>3, <2>1 DEF Touch, TypeOK, InFlight
    <2>4. Uncounted' = Uncounted
      BY <1>3, <2>1, <2>3 DEF Touch, Uncounted, InFlight
    <2>5. \A s \in Request : (rq[s].at = "count" => ~rq[s].loaded)'
      BY <2>1, <2>3 DEF GaugeInv, InFlight
    <2>. QED BY <1>3, <2>2, <2>4, <2>5, GaugeStays DEF Touch, GaugeInv
  <1>4. ASSUME Count(r) PROVE GaugeInv'
    <2>1. rq[r] \in InFlight
      BY <1>4, FlightType DEF Count
    <2>2. rq'[r].at = "allow" /\ \A s \in Request \ {r} : rq'[s] = rq[s]
      BY <1>4, <2>1 DEF Count, TypeOK, InFlight
    <2>3. r \in Uncounted /\ Uncounted' = Uncounted \ {r}
      BY <1>4, <2>2 DEF Count, Uncounted, GaugeInv
    <2>4. IsFiniteSet(Uncounted') /\ Cardinality(Uncounted') = Cardinality(Uncounted) - 1
      BY <2>3, FS_RemoveElement DEF GaugeInv
    <2>5. Cardinality(Mapped) \in Nat /\ Cardinality(Uncounted) \in Nat
      BY FS_CardinalityType DEF GaugeInv
    <2>6. Unsubtracted \in Nat /\ Unsubtracted' = Unsubtracted /\ Mapped' = Mapped
      BY <1>4 DEF Count, Unsubtracted, TypeOK, Running, Waiting, Mapped
    <2>7. GaugeFollowsMap'
      BY <1>4, <2>4, <2>5, <2>6 DEF Count, GaugeInv, GaugeFollowsMap, TypeOK
    <2>8. \A s \in Request : (rq[s].at = "count" => ~rq[s].loaded)'
      BY <2>2 DEF GaugeInv
    <2>. QED BY <1>4, <2>4, <2>6, <2>7, <2>8 DEF Count, GaugeInv
  <1>5. ASSUME Allow(r) PROVE GaugeInv'
    <2>1. Mapped' = Mapped /\ Unsubtracted' = Unsubtracted /\ gauge' = gauge
      BY <1>5 DEF Allow, Mapped, Unsubtracted
    <2>2. rq'[r].at = "free" /\ \A s \in Request \ {r} : rq'[s] = rq[s]
      BY <1>5 DEF Allow, TypeOK, Free
    <2>3. Uncounted' = Uncounted
      BY <1>5, <2>2 DEF Allow, Uncounted
    <2>4. \A s \in Request : (rq[s].at = "count" => ~rq[s].loaded)'
      BY <2>2 DEF GaugeInv
    <2>. QED BY <1>5, <2>1, <2>3, <2>4, GaugeStays DEF Allow, GaugeInv
  <1>. QED BY <1>1, <1>2, <1>3, <1>4, <1>5 DEF RequestStep

LEMMA SweeperGauge ==
    ASSUME TypeOK, GaugeInv, Sweeper
    PROVE  GaugeInv'
  <1>1. ASSUME UNCHANGED <<limiters, rq, gauge>>
        PROVE  Mapped' = Mapped /\ Uncounted' = Uncounted
    BY <1>1 DEF Mapped, Uncounted
  <1>2. ASSUME SweepStart PROVE GaugeInv'
    <2>1. Unsubtracted' = Unsubtracted
      BY <1>2 DEF SweepStart, Unsubtracted, Waiting
    <2>. QED BY <1>1, <1>2, <2>1, GaugeStays DEF SweepStart, GaugeInv
  <1>3. ASSUME NEW c \in Client, SweepVisit(c) PROVE GaugeInv'
    <2>1. sweep \in Running
      BY <1>3, SweepType DEF SweepVisit
    <2>2. /\ sweep'.removed = sweep.removed /\ sweep'.at = "range"
          /\ sweep'.victim = IF Expired(c) THEN c ELSE None
      BY <1>3, <2>1 DEF SweepVisit, Running
    <2>3. Unsubtracted' = Unsubtracted
      BY <2>1, <2>2 DEF Unsubtracted, Waiting, Running
    <2>4. Expired(c) => c \in Mapped
      BY NoneAssumption DEF Expired, Mapped, TypeOK
    <2>. QED BY <1>1, <1>3, <2>2, <2>3, <2>4, GaugeStays DEF SweepVisit, GaugeInv
  <1>4. ASSUME SweepDelete PROVE GaugeInv'
    <2>1. sweep \in Running /\ sweep # Waiting
      BY <1>4, SweepType DEF SweepDelete, Waiting
    <2>2. sweep.victim \in Mapped
      BY <1>4, <2>1 DEF SweepDelete, GaugeInv
    <2>3. Mapped' = Mapped \ {sweep.victim}
      BY <1>4, <2>2 DEF SweepDelete, Mapped, TypeOK
    <2>4. IsFiniteSet(Mapped') /\ Cardinality(Mapped') = Cardinality(Mapped) - 1
      BY <2>2, <2>3, FS_RemoveElement DEF GaugeInv
    <2>5. sweep'.removed = sweep.removed + 1 /\ sweep'.at = "range" /\ sweep'.victim = None
      <3>. DEFINE ended == [sweep EXCEPT !.victim = None]
      <3>1. ended \in Running /\ ended.removed = sweep.removed /\ ended.victim = None
        BY <2>1 DEF Running
      <3>2. sweep' = [ended EXCEPT !.removed = sweep.removed + 1]
        BY <1>4 DEF SweepDelete
      <3>. QED BY <3>1, <3>2 DEF Running
    <2>6. Unsubtracted \in Nat /\ Unsubtracted' = Unsubtracted + 1
      BY <2>1, <2>5 DEF Unsubtracted, Running, Waiting
    <2>7. Cardinality(Mapped) \in Nat /\ Cardinality(Uncounted) \in Nat
      BY FS_CardinalityType DEF GaugeInv
    <2>8. Uncounted' = Uncounted
      BY <1>4 DEF SweepDelete, Uncounted
    <2>9. GaugeFollowsMap'
      BY <1>4, <2>4, <2>6, <2>7, <2>8 DEF SweepDelete, GaugeInv, GaugeFollowsMap, TypeOK
    <2>. QED BY <1>4, <2>4, <2>5, <2>8, <2>9 DEF SweepDelete, GaugeInv
  <1>5. ASSUME SweepEnd PROVE GaugeInv'
    <2>1. sweep.removed \in Nat /\ sweep # Waiting
      BY <1>5, SweepType DEF SweepEnd, Running, Waiting
    <2>2. Unsubtracted = sweep.removed /\ Unsubtracted' = 0
      BY <1>5, <2>1 DEF SweepEnd, Unsubtracted
    <2>3. Cardinality(Mapped) \in Nat /\ Cardinality(Uncounted) \in Nat
      BY FS_CardinalityType DEF GaugeInv
    <2>4. Mapped' = Mapped /\ Uncounted' = Uncounted
      BY <1>5 DEF SweepEnd, Mapped, Uncounted
    <2>5. GaugeFollowsMap'
      BY <1>5, <2>1, <2>2, <2>3, <2>4 DEF SweepEnd, GaugeInv, GaugeFollowsMap, TypeOK
    <2>. QED BY <1>5, <2>4, <2>5 DEF SweepEnd, GaugeInv
  <1>. QED BY <1>2, <1>3, <1>4, <1>5 DEF Sweeper

LEMMA TimeGauge ==
    ASSUME GaugeInv, UNCHANGED <<limiters, rq, sweep, gauge>>
    PROVE  GaugeInv'
  BY DEF GaugeInv, GaugeFollowsMap, Mapped, Uncounted, Unsubtracted

LEMMA NextGauge == ASSUME TypeOK, GaugeInv, [Next]_vars PROVE GaugeInv'
  <1>1. CASE UNCHANGED vars
    BY <1>1, TimeGauge DEF vars
  <1>2. CASE \E c \in Client : Refill(c) \/ FallIdle(c)
    BY <1>2, TimeGauge DEF Refill, FallIdle
  <1>. QED BY <1>1, <1>2, RequestGauge, SweeperGauge DEF Next

LEMMA InitGauge == Init => GaugeInv
  <1>. SUFFICES ASSUME Init PROVE GaugeInv
    OBVIOUS
  <1>1. Mapped = {} /\ Uncounted = {} /\ Unsubtracted = 0
    BY DEF Init, Mapped, Uncounted, Unsubtracted, Free
  <1>2. \A r \in Request : rq[r].at # "count"
    BY DEF Init, Free
  <1>. QED BY <1>1, <1>2, FS_EmptySet DEF Init, GaugeInv, GaugeFollowsMap

\* Whatever the order of requests and sweeps, the gauge of active clients follows
\* the size of the map: it cannot drift.
THEOREM GaugeExact == Spec => []GaugeFollowsMap
  <1>1. Init => TypeOK /\ GaugeInv
    BY InitType, InitGauge
  <1>2. TypeOK /\ GaugeInv /\ [Next]_vars => (TypeOK /\ GaugeInv)'
    BY NextType, NextGauge
  <1>3. GaugeInv => GaugeFollowsMap
    BY DEF GaugeInv
  <1>. QED BY <1>1, <1>2, <1>3, PTL DEF Spec

(***************************************************************************)
(* The burst                                                               *)
(***************************************************************************)
\* The tokens client c can still draw from bucket l.
Level(c, l) == IF l \in Buckets(c) THEN tokens[l] ELSE 0

\* A client may spend one burst, and a second one once it has a new bucket.
Allowance(c) == IF c \in Mapped THEN 2 * Burst ELSE Burst

\* Besides the bucket in the map, c's requests draw on at most one more, d, and both
\* together hold no more than what is left of its allowance.
Bounded(c) ==
    \E d \in Limiter \cup {None} :
        /\ d = None \/ d # limiters[c]
        /\ \A r \in Of(c) : rq[r].limiter \in {d, limiters[c]}
        /\ excess[c] + Level(c, limiters[c]) + Level(c, d) <= Allowance(c)

\* The sweeper may delete c's entry without looking at it again.
Condemned(c) ==
    c \in Mapped /\ (limiters[c] \in stale \/ (sweep # Waiting /\ sweep.victim = c))

\* The client has one bucket only and has not overdrawn it.
Thrifty(c) ==
    /\ \A r \in Of(c) : rq[r].limiter = limiters[c]
    /\ excess[c] + tokens[limiters[c]] <= Burst

\* The strengthening: nobody shares a bucket, everybody stays within the allowance,
\* and who may lose its entry has not had a second bucket since it was idle.
BurstInv ==
    /\ \A c, e \in Client : c # e => Buckets(c) \cap Buckets(e) = {}
    /\ \A c \in Client : Bounded(c)
    /\ \A c \in Client : Condemned(c) => Thrifty(c)

\* A step that leaves client e, its requests and its buckets alone.
SameFor(e) ==
    /\ limiters'[e] = limiters[e]
    /\ excess'[e] = excess[e]
    /\ Of(e)' = Of(e)
    /\ \A r \in Of(e) : rq'[r].limiter = rq[r].limiter
    /\ \A l \in Buckets(e) : tokens'[l] = tokens[l]

LEMMA SameKeeps ==
    ASSUME TypeOK, NEW e \in Client, SameFor(e)
    PROVE  /\ Buckets(e)' = Buckets(e)
           /\ Bounded(e) => Bounded(e)'
           /\ e \in Mapped => (Thrifty(e) => Thrifty(e)')
  <1>1. Buckets(e)' = Buckets(e)
    BY DEF SameFor, Buckets
  <1>2. \A l : Level(e, l)' = Level(e, l)
    BY <1>1 DEF SameFor, Level
  <1>3. Allowance(e)' = Allowance(e)
    BY DEF SameFor, Allowance, Mapped
  <1>4. Bounded(e) => Bounded(e)'
    BY <1>2, <1>3 DEF SameFor, Bounded
  <1>5. e \in Mapped => limiters[e] \in Buckets(e)
    BY DEF Mapped, Buckets, TypeOK
  <1>6. e \in Mapped => (Thrifty(e) => Thrifty(e)')
    BY <1>5 DEF SameFor, Thrifty
  <1>. QED BY <1>1, <1>4, <1>6

\* A step of one client keeps BurstInv if it does so for that client.
LEMMA OneClient ==
    ASSUME TypeOK, BurstInv, NEW c \in Client,
           \A e \in Client \ {c} : SameFor(e) /\ (Condemned(e)' => Condemned(e)),
           \A l \in Buckets(c)' : l \in Buckets(c) \/ Fresh(l),
           Bounded(c)',
           Condemned(c)' => Thrifty(c)'
    PROVE  BurstInv'
  <1>1. \A e \in Client \ {c} : Buckets(e)' = Buckets(e) /\ Bounded(e)'
    BY SameKeeps DEF BurstInv
  <1>2. ASSUME NEW e \in Client \ {c}, Condemned(e)' PROVE Thrifty(e)'
    BY <1>2, SameKeeps DEF BurstInv, Condemned
  <1>3. ASSUME NEW e \in Client \ {c} PROVE Buckets(c)' \cap Buckets(e)' = {}
    BY <1>1 DEF BurstInv, Fresh
  <1>4. \A e, f \in Client : e # f => (Buckets(e) \cap Buckets(f) = {})'
    <2>. SUFFICES ASSUME NEW e \in Client, NEW f \in Client, e # f
                  PROVE  Buckets(e)' \cap Buckets(f)' = {}
      OBVIOUS
    <2>1. CASE e = c
      BY <2>1, <1>3
    <2>2. CASE f = c
      BY <2>2, <1>3
    <2>3. CASE e # c /\ f # c
      BY <2>3, <1>1 DEF BurstInv
    <2>. QED BY <2>1, <2>2, <2>3
  <1>. QED BY <1>1, <1>2, <1>4 DEF BurstInv

\* A step that only moves a request or the sweeper on.
LEMMA Nobody ==
    ASSUME TypeOK, BurstInv, \A e \in Client : SameFor(e),
           \A e \in Client : Condemned(e)' => Condemned(e) \/ limiters[e] \in stale
    PROVE  BurstInv'
  <1>1. ASSUME NEW e \in Client, Condemned(e)' PROVE Condemned(e)
    BY <1>1, NoneAssumption DEF Condemned, Mapped, TypeOK
  <1>2. \A e \in Client : Buckets(e)' = Buckets(e) /\ Bounded(e)'
    BY SameKeeps DEF BurstInv
  <1>3. ASSUME NEW e \in Client, Condemned(e)' PROVE Thrifty(e)'
    BY <1>1, <1>3, SameKeeps DEF BurstInv, Condemned
  <1>. QED BY <1>2, <1>3 DEF BurstInv

LEMMA LevelType ==
    ASSUME TypeOK, NEW c \in Client, NEW l
    PROVE  Level(c, l) \in 0..Burst
  BY BurstAssumption DEF Level, Buckets, TypeOK

\* Spending or regaining a token moves it between the bucket and the excess.
LEMMA TokenMoves ==
    ASSUME TypeOK, BurstInv, NEW c \in Client, NEW l \in Buckets(c), NEW n \in {-1, 1},
           tokens[l] + n \in 0..Burst,
           limiters' = limiters, stale' = stale, sweep' = sweep,
           tokens' = [tokens EXCEPT ![l] = @ + n],
           excess' = [excess EXCEPT ![c] = @ - n],
           \A e \in Client \ {c} : Of(e)' = Of(e),
           Of(c)' \subseteq Of(c),
           \A e \in Client : \A r \in Of(e)' : rq'[r].limiter = rq[r].limiter
    PROVE  BurstInv'
  <1>. l \in Limiter
    BY DEF Buckets
  <1>1. tokens'[l] = tokens[l] + n /\ excess'[c] = excess[c] - n
    BY DEF TypeOK
  <1>2. \A k \in Limiter \ {l} : tokens'[k] = tokens[k]
    BY DEF TypeOK
  <1>3. Buckets(c)' \subseteq Buckets(c)
    BY DEF Buckets
  <1>4. ASSUME NEW e \in Client \ {c} PROVE SameFor(e) /\ (Condemned(e)' => Condemned(e))
    <2>1. l \notin Buckets(e)
      BY DEF BurstInv
    <2>2. \A k \in Buckets(e) : tokens'[k] = tokens[k]
      BY <1>2, <2>1 DEF Buckets
    <2>3. excess'[e] = excess[e]
      BY DEF TypeOK
    <2>. QED BY <2>2, <2>3 DEF SameFor, Condemned, Mapped
  <1>5. Bounded(c)'
    <2>1. PICK d \in Limiter \cup {None} :
             /\ d = None \/ d # limiters[c]
             /\ \A r \in Of(c) : rq[r].limiter \in {d, limiters[c]}
             /\ excess[c] + Level(c, limiters[c]) + Level(c, d) <= Allowance(c)
      BY DEF BurstInv, Bounded
    <2>2. l \in {d, limiters[c]}
      BY <2>1 DEF Buckets
    <2>3. d = limiters[c] => d = None
      BY <2>1
    <2>4. ASSUME NEW k, k # l PROVE Level(c, k)' <= Level(c, k)
      <3>1. CASE k \in Buckets(c)'
        BY <3>1, <2>4, <1>2, <1>3 DEF Level, Buckets, TypeOK
      <3>2. CASE k \notin Buckets(c)'
        BY <3>2, LevelType DEF Level
      <3>. QED BY <3>1, <3>2
    <2>5. Level(c, l)' <= Level(c, l) + n
      BY <1>1, <1>3 DEF Level, TypeOK
    <2>6. /\ Level(c, limiters[c]) \in Int /\ Level(c, d) \in Int
          /\ Level(c, limiters[c])' \in Int /\ Level(c, d)' \in Int
      <3>1. tokens' \in [Limiter -> 0..Burst]
        BY DEF TypeOK
      <3>. QED BY <3>1, LevelType, BurstAssumption DEF Level, Buckets
    <2>7. Level(c, limiters[c])' + Level(c, d)' <= Level(c, limiters[c]) + Level(c, d) + n
      <3>. DEFINE m == limiters[c]
      <3>1. m # d
        BY <2>2, <2>3, NoneAssumption
      <3>2. CASE l = m
        BY <2>6, <3>1, <3>2, <2>4, <2>5
      <3>3. CASE l = d
        BY <2>6, <3>1, <3>3, <2>4, <2>5
      <3>. QED BY <2>2, <3>2, <3>3
    <2>8. excess'[c] + Level(c, limiters[c])' + Level(c, d)' <= Allowance(c)'
      <3>1. Allowance(c)' = Allowance(c) /\ Allowance(c) \in Int
        BY BurstAssumption DEF Allowance, Mapped
      <3>2. excess[c] \in Int
        BY DEF TypeOK
      <3>. QED BY <1>1, <2>1, <2>6, <2>7, <3>1, <3>2
    <2>. QED BY <2>1, <2>8 DEF Bounded
  <1>6. ASSUME Condemned(c)' PROVE Thrifty(c)'
    <2>1. Thrifty(c) /\ c \in Mapped
      BY <1>6 DEF BurstInv, Condemned, Mapped
    <2>2. l = limiters[c]
      BY <2>1 DEF Thrifty, Buckets
    <2>. QED BY <1>1, <2>1, <2>2 DEF Thrifty, TypeOK
  <1>. QED BY <1>3, <1>4, <1>5, <1>6, OneClient

LEMMA RequestBurst ==
    ASSUME TypeOK, GaugeInv, BurstInv, NEW r \in Request, RequestStep(r)
    PROVE  BurstInv'
  <1>1. ASSUME NEW c \in Client, Load(r, c) PROVE BurstInv'
    <2>1. rq[r] = Free /\ rq'[r].client = c /\ rq'[r].limiter = limiters[c]
      BY <1>1 DEF Load, Arrive, TypeOK
    <2>2. \A s \in Request \ {r} : rq'[s] = rq[s]
      BY <1>1 DEF Load, Arrive, TypeOK
    <2>3. rq'[r].at = "touch" /\ r \notin Of(c)
      BY <1>1 DEF Load, Arrive, TypeOK, Of, Free
    <2>4. Of(c)' = Of(c) \cup {r}
      BY <2>1, <2>2, <2>3 DEF Of
    <2>5. ASSUME NEW e \in Client \ {c} PROVE SameFor(e) /\ (Condemned(e)' => Condemned(e))
      <3>1. Of(e)' = Of(e)
        BY <2>1, <2>2 DEF Of, Free
      <3>2. r \notin Of(e)
        BY <2>1 DEF Of, Free
      <3>. QED BY <1>1, <2>2, <3>1, <3>2 DEF Load, SameFor, Condemned, Mapped, Of
    <2>6. Buckets(c)' = Buckets(c)
      <3>1. \A s \in Of(c) : rq'[s].limiter = rq[s].limiter
        BY <2>2, <2>3 DEF Of
      <3>2. limiters'[c] = limiters[c]
        BY <1>1 DEF Load
      <3>. QED BY <2>1, <2>4, <3>1, <3>2 DEF Buckets
    <2>7. Bounded(c)'
      <3>1. \A l : Level(c, l)' = Level(c, l)
        BY <1>1, <2>6 DEF Load, Level
      <3>2. Allowance(c)' = Allowance(c)
        BY <1>1 DEF Load, Allowance, Mapped
      <3>. QED BY <1>1, <2>1, <2>2, <2>4, <3>1, <3>2 DEF Load, BurstInv, Bounded, Of
    <2>8. Condemned(c)' => Thrifty(c)'
      BY <1>1, <2>1, <2>2, <2>4 DEF Load, BurstInv, Condemned, Thrifty, Mapped, Of
    <2>. QED BY <2>5, <2>6, <2>7, <2>8, OneClient
  <1>2. ASSUME NEW c \in Client, Store(r, c) PROVE BurstInv'
    <2>1. PICK l \in Limiter :
             /\ Fresh(l)
             /\ Arrive(r, c, l, FALSE)
             /\ limiters' = [limiters EXCEPT ![c] = l]
             /\ tokens' = [tokens EXCEPT ![l] = Burst]
             /\ stale' = stale \ {l}
      BY <1>2 DEF Store
    <2>2. rq[r] = Free /\ rq'[r].client = c /\ rq'[r].limiter = l
      BY <1>2, <2>1 DEF Store, Arrive, TypeOK
    <2>3. \A s \in Request \ {r} : rq'[s] = rq[s]
      BY <2>1 DEF Arrive, TypeOK
    <2>4. Of(c)' = Of(c) \cup {r} /\ r \notin Of(c)
      BY <2>1, <2>2, <2>3 DEF Arrive, TypeOK, Of, Free
    <2>5. limiters[c] = None /\ limiters'[c] = l /\ tokens'[l] = Burst
      BY <1>2, <2>1 DEF Store, Mapped, TypeOK
    <2>6. \A k \in Limiter \ {l} : tokens'[k] = tokens[k]
      BY <2>1 DEF TypeOK
    <2>7. ASSUME NEW e \in Client \ {c} PROVE SameFor(e) /\ (Condemned(e)' => Condemned(e))
      <3>1. Of(e)' = Of(e) /\ r \notin Of(e)
        BY <2>2, <2>3 DEF Of, Free
      <3>2. l \notin Buckets(e)
        BY <2>1 DEF Fresh
      <3>3. \A k \in Buckets(e) : tokens'[k] = tokens[k]
        BY <2>6, <3>2 DEF Buckets
      <3>4. limiters'[e] = limiters[e]
        BY <2>1 DEF TypeOK
      <3>. QED BY <1>2, <2>1, <2>3, <3>1, <3>3, <3>4
               DEF Store, SameFor, Condemned, Mapped, Of
    <2>8. ASSUME NEW k \in Buckets(c)' PROVE k \in Buckets(c) \/ Fresh(k)
      <3>1. CASE k = l
        BY <2>1, <3>1
      <3>2. CASE k # l
        BY <2>2, <2>3, <2>4, <2>5, <3>2 DEF Buckets, Of
      <3>. QED BY <3>1, <3>2
    <2>9. Bounded(c)'
      <3>1. PICK d \in Limiter \cup {None} :
               /\ \A s \in Of(c) : rq[s].limiter \in {d, None}
               /\ excess[c] + Level(c, None) + Level(c, d) <= Burst
        BY <2>5 DEF BurstInv, Bounded, Allowance, Mapped
      <3>. PICK b \in Limiter \cup {None} : b = IF d \in Buckets(c) THEN d ELSE None
        OBVIOUS
      <3>2. l \notin Buckets(c) /\ None \notin Buckets(c) /\ l # None
        BY <2>1, NoneAssumption DEF Fresh, Buckets
      <3>3. Level(c, None) = 0 /\ Level(c, b) = Level(c, d)
        BY <3>2 DEF Level
      <3>4. \A s \in Of(c)' : rq'[s].limiter \in {b, l}
        <4>1. ASSUME NEW s \in Of(c) PROVE rq'[s].limiter \in {b, l}
          <5>1. rq[s].limiter \in Limiter
            BY <4>1, FlightType DEF Of, InFlight
          <5>2. rq[s].limiter \in Buckets(c)
            BY <4>1, <5>1 DEF Buckets
          <5>. QED BY <2>3, <2>4, <3>1, <3>2, <4>1, <5>2 DEF Of
        <4>. QED BY <2>2, <2>4, <4>1
      <3>5. Level(c, b)' <= Level(c, b) /\ Level(c, b)' \in Int
        <4>1. CASE d \in Buckets(c)
          <5>1. d \in Limiter /\ d # l
            BY <3>2, <4>1 DEF Buckets
          <5>2. tokens'[d] = tokens[d] /\ tokens[d] \in 0..Burst
            BY <2>6, <5>1 DEF TypeOK
          <5>. QED BY <4>1, <5>2, BurstAssumption DEF Level
        <4>2. CASE d \notin Buckets(c)
          <5>1. None \notin Buckets(c)'
            BY NoneAssumption DEF Buckets
          <5>. QED BY <4>2, <3>2, <5>1 DEF Level
        <4>. QED BY <4>1, <4>2
      <3>6. Level(c, l)' = Burst
        BY <2>5 DEF Level, Buckets
      <3>7. excess'[c] = excess[c] /\ excess[c] \in Int /\ Level(c, b) \in Int
        BY <1>2, LevelType DEF Store, TypeOK
      <3>8. Allowance(c)' = 2 * Burst
        BY <2>5, <3>2 DEF Allowance, Mapped
      <3>9. excess'[c] + Level(c, l)' + Level(c, b)' <= Allowance(c)'
        BY <3>1, <3>3, <3>5, <3>6, <3>7, <3>8, BurstAssumption
      <3>10. b \in Limiter \cup {None} /\ (b = None \/ b # l)
        BY <3>2
      <3>. QED BY <2>5, <3>4, <3>9, <3>10 DEF Bounded
    <2>10. ~Condemned(c)'
      <3>1. c \notin Mapped /\ limiters'[c] \notin stale' /\ sweep' = sweep
        BY <1>2, <2>1, <2>5 DEF Store
      <3>2. sweep # Waiting => sweep.victim # c
        BY <3>1, NoneAssumption DEF GaugeInv
      <3>. QED BY <3>1, <3>2 DEF Condemned
    <2>. QED BY <2>7, <2>8, <2>9, <2>10, OneClient
  <1>3. ASSUME Touch(r) PROVE BurstInv'
    <2>1. rq[r] \in InFlight
      BY <1>3, FlightType DEF Touch
    <2>2. /\ rq'[r].client = rq[r].client /\ rq'[r].limiter = rq[r].limiter
          /\ rq'[r].at # "free" /\ rq[r].at # "free"
          /\ \A s \in Request \ {r} : rq'[s] = rq[s]
      BY <1>3, <2>1 DEF Touch, TypeOK, InFlight
    <2>3. \A e \in Client : SameFor(e)
      BY <1>3, <2>2 DEF Touch, SameFor, Of
    <2>4. \A e \in Client : Condemned(e)' => Condemned(e)
      BY <1>3 DEF Touch, Condemned, Mapped
    <2>. QED BY <2>3, <2>4, Nobody
  <1>4. ASSUME Count(r) PROVE BurstInv'
    <2>1. rq[r] \in InFlight
      BY <1>4, FlightType DEF Count
    <2>2. /\ rq'[r].client = rq[r].client /\ rq'[r].limiter = rq[r].limiter
          /\ rq'[r].at # "free" /\ rq[r].at # "free"
          /\ \A s \in Request \ {r} : rq'[s] = rq[s]
      BY <1>4, <2>1 DEF Count, TypeOK, InFlight
    <2>3. \A e \in Client : SameFor(e)
      BY <1>4, <2>2 DEF Count, SameFor, Of
    <2>4. \A e \in Client : Condemned(e)' => Condemned(e)
      BY <1>4 DEF Count, Condemned, Mapped
    <2>. QED BY <2>3, <2>4, Nobody
  <1>5. ASSUME Allow(r) PROVE BurstInv'
    <2>1. PICK c \in Client, l \in Limiter : c = rq[r].client /\ l = rq[r].limiter
      BY <1>5, FlightType DEF Allow, InFlight
    <2>2. r \in Of(c) /\ l \in Buckets(c)
      BY <1>5, <2>1 DEF Allow, Of, Buckets
    <2>3. rq'[r].at = "free" /\ \A s \in Request \ {r} : rq'[s] = rq[s]
      BY <1>5 DEF Allow, TypeOK, Free
    <2>4. \A e \in Client : Of(e)' = Of(e) \ {r}
      BY <2>3 DEF Of
    <2>5. \A e \in Client : \A s \in Of(e)' : rq'[s].limiter = rq[s].limiter
      BY <2>3, <2>4 DEF Of
    <2>6. \A e \in Client \ {c} : Of(e)' = Of(e)
      <3>1. \A e \in Client \ {c} : r \notin Of(e)
        BY <2>1 DEF Of
      <3>. QED BY <2>4, <3>1
    <2>7. CASE tokens[l] > 0
      <3>1. tokens[l] + (-1) \in 0..Burst
        BY <2>2, <2>7, BurstAssumption DEF TypeOK
      <3>2. tokens' = [tokens EXCEPT ![l] = @ + (-1)]
        BY <1>5, <2>1, <2>7 DEF Allow, TypeOK
      <3>3. excess' = [excess EXCEPT ![c] = @ - (-1)]
        BY <1>5, <2>1, <2>7 DEF Allow, TypeOK
      <3>. QED BY <1>5, <2>2, <2>4, <2>5, <2>6, <3>1, <3>2, <3>3, TokenMoves DEF Allow
    <2>8. CASE ~(tokens[l] > 0)
      <3>1. UNCHANGED <<limiters, tokens, stale, sweep, excess>>
        BY <1>5, <2>1, <2>8 DEF Allow
      <3>2. \A e \in Client \ {c} : SameFor(e) /\ (Condemned(e)' => Condemned(e))
        BY <2>5, <2>6, <3>1 DEF SameFor, Condemned, Mapped
      <3>3. Buckets(c)' \subseteq Buckets(c)
        BY <2>2, <2>4, <2>5, <3>1 DEF Buckets
      <3>4. \A k : Level(c, k)' <= Level(c, k) /\ Level(c, k)' \in Int /\ Level(c, k) \in Int
        BY <2>2, <3>1, <3>3, LevelType, BurstAssumption DEF Level, Buckets, TypeOK
      <3>5. /\ Level(c, limiters[c])' <= Level(c, limiters[c])
            /\ Level(c, limiters[c])' \in Int
            /\ \A k : Level(c, k)' <= Level(c, k) /\ Level(c, k)' \in Int
            /\ \A k : Level(c, k) \in Int
        BY <3>1, <3>4
      <3>6. Bounded(c)'
        <4>1. PICK d \in Limiter \cup {None} :
                 /\ d = None \/ d # limiters[c]
                 /\ \A s \in Of(c) : rq[s].limiter \in {d, limiters[c]}
                 /\ excess[c] + Level(c, limiters[c]) + Level(c, d) <= Allowance(c)
          BY <2>2 DEF BurstInv, Bounded
        <4>2. Allowance(c)' = Allowance(c) /\ Allowance(c) \in Int
          BY <3>1, BurstAssumption DEF Allowance, Mapped
        <4>3. excess'[c] = excess[c] /\ excess[c] \in Int
          BY <2>2, <3>1 DEF TypeOK
        <4>4. excess'[c] + Level(c, limiters[c])' + Level(c, d)' <= Allowance(c)'
          <5>. DEFINE m == limiters[c]
          <5>1. /\ Level(c, m)' <= Level(c, m) /\ Level(c, m)' \in Int
                /\ Level(c, d)' <= Level(c, d) /\ Level(c, d)' \in Int
                /\ Level(c, m) \in Int /\ Level(c, d) \in Int
            BY <3>5
          <5>. QED BY <4>1, <4>2, <4>3, <5>1
        <4>5. limiters' = limiters /\ Of(c)' \subseteq Of(c)
          BY <2>2, <2>4, <3>1
        <4>. QED BY <2>2, <2>5, <4>1, <4>4, <4>5 DEF Bounded
      <3>7. Condemned(c)' => Thrifty(c)'
        BY <2>2, <2>4, <2>5, <3>1 DEF BurstInv, Condemned, Thrifty, Mapped
      <3>. QED BY <2>2, <3>2, <3>3, <3>6, <3>7, OneClient
    <2>. QED BY <2>7, <2>8
  <1>. QED BY <1>1, <1>2, <1>3, <1>4, <1>5 DEF RequestStep

LEMMA SweeperBurst ==
    ASSUME TypeOK, GaugeInv, BurstInv, Sweeper
    PROVE  BurstInv'
  <1>1. ASSUME UNCHANGED <<limiters, tokens, rq, excess>> PROVE \A e \in Client : SameFor(e)
    BY <1>1 DEF SameFor, Of
  <1>2. ASSUME SweepStart PROVE BurstInv'
    <2>1. \A e \in Client : Condemned(e)' => Condemned(e)
      BY <1>2, NoneAssumption DEF SweepStart, Condemned, Mapped
    <2>. QED BY <1>1, <1>2, <2>1, Nobody DEF SweepStart
  <1>3. ASSUME NEW c \in Client, SweepVisit(c) PROVE BurstInv'
    <2>1. sweep'.victim = IF Expired(c) THEN c ELSE None
      BY <1>3, SweepType DEF SweepVisit, Running
    <2>2. \A e \in Client : Condemned(e)' => Condemned(e) \/ limiters[e] \in stale
      BY <1>3, <2>1, NoneAssumption DEF SweepVisit, Condemned, Mapped, Expired
    <2>. QED BY <1>1, <1>3, <2>2, Nobody DEF SweepVisit
  <1>4. ASSUME SweepDelete PROVE BurstInv'
    <2>. PICK c \in Client, m \in Limiter : c = sweep.victim /\ m = limiters[c]
      BY <1>4 DEF SweepDelete, GaugeInv, Mapped, Waiting, TypeOK
    <2>1. c \in Mapped /\ sweep # Waiting
      BY <1>4 DEF SweepDelete, GaugeInv, Waiting
    <2>2. limiters'[c] = None /\ \A e \in Client \ {c} : limiters'[e] = limiters[e]
      BY <1>4, <2>1 DEF SweepDelete, TypeOK
    <2>3. sweep'.victim = None
      <3>1. sweep \in Running
        BY <1>4, SweepType DEF SweepDelete
      <3>. DEFINE ended == [sweep EXCEPT !.victim = None]
      <3>2. ended \in Running /\ ended.victim = None
        BY <3>1 DEF Running
      <3>3. sweep' = [ended EXCEPT !.removed = sweep.removed + 1]
        BY <1>4 DEF SweepDelete
      <3>. QED BY <3>2, <3>3 DEF Running
    <2>4. \A e \in Client \ {c} : SameFor(e) /\ (Condemned(e)' => Condemned(e))
      BY <1>4, <2>2, <2>3, NoneAssumption DEF SweepDelete, SameFor, Of, Condemned, Mapped
    <2>5. Thrifty(c)
      BY <2>1 DEF BurstInv, Condemned
    <2>6. Buckets(c)' \subseteq Buckets(c) /\ Buckets(c)' \subseteq {m}
      BY <1>4, <2>1, <2>2, <2>5, NoneAssumption DEF SweepDelete, Buckets, Of, Thrifty
    <2>7. Bounded(c)'
      <3>1. Level(c, None)' = 0 /\ Level(c, m)' <= tokens[m] /\ Level(c, m)' \in Int
        BY <1>4, <2>1, <2>6, NoneAssumption, BurstAssumption
           DEF SweepDelete, Level, Buckets, TypeOK
      <3>2. excess'[c] = excess[c] /\ excess[c] \in Int /\ tokens[m] \in Int
        BY <1>4, <2>1 DEF SweepDelete, TypeOK
      <3>3. Allowance(c)' = Burst
        BY <2>2 DEF Allowance, Mapped
      <3>4. excess'[c] + Level(c, None)' + Level(c, m)' <= Allowance(c)'
        BY <2>5, <3>1, <3>2, <3>3, BurstAssumption DEF Thrifty
      <3>5. \A s \in Of(c)' : rq'[s].limiter = m
        BY <1>4, <2>5 DEF SweepDelete, Of, Thrifty
      <3>6. m # None
        BY <2>1, NoneAssumption
      <3>. QED BY <2>1, <2>2, <3>4, <3>5, <3>6 DEF Bounded
    <2>8. ~Condemned(c)'
      BY <2>2 DEF Condemned, Mapped
    <2>. QED BY <2>1, <2>4, <2>6, <2>7, <2>8, OneClient
  <1>5. ASSUME SweepEnd PROVE BurstInv'
    <2>1. \A e \in Client : Condemned(e)' => Condemned(e)
      BY <1>5 DEF SweepEnd, Condemned, Mapped
    <2>. QED BY <1>1, <1>5, <2>1, Nobody DEF SweepEnd
  <1>. QED BY <1>2, <1>3, <1>4, <1>5 DEF Sweeper

LEMMA TimeBurst ==
    ASSUME TypeOK, BurstInv, NEW c \in Client, Refill(c) \/ FallIdle(c)
    PROVE  BurstInv'
  <1>1. CASE Refill(c)
    <2>1. PICK l \in Buckets(c) :
             tokens[l] < Burst /\ tokens' = [tokens EXCEPT ![l] = @ + 1]
      BY <1>1 DEF Refill
    <2>2. tokens[l] + 1 \in 0..Burst
      BY <2>1, BurstAssumption DEF Buckets, TypeOK
    <2>3. \A e \in Client : Of(e)' = Of(e)
      BY <1>1 DEF Refill, Of
    <2>. QED BY <1>1, <2>1, <2>2, <2>3, TokenMoves DEF Refill
  <1>2. CASE FallIdle(c)
    <2>1. /\ limiters[c] \in Limiter /\ limiters[c] \in Buckets(c)
          /\ excess'[c] = 0 /\ tokens[limiters[c]] \in 0 .. Burst
      BY <1>2 DEF FallIdle, Mapped, Buckets, TypeOK
    <2>2. \A e \in Client \ {c} : SameFor(e)
      BY <1>2 DEF FallIdle, SameFor, Of, TypeOK
    <2>3. ASSUME NEW e \in Client \ {c}, Condemned(e)' PROVE Condemned(e)
      <3>1. e \in Mapped
        BY <1>2, <2>3 DEF FallIdle, Condemned, Mapped
      <3>2. limiters[e] \in Buckets(e)
        BY <3>1 DEF Mapped, Buckets, TypeOK
      <3>3. limiters[e] # limiters[c]
        BY <2>1, <3>2 DEF BurstInv
      <3>. QED BY <1>2, <2>3, <3>3 DEF FallIdle, Condemned, Mapped
    <2>4. Buckets(c)' = Buckets(c)
      BY <1>2 DEF FallIdle, Buckets, Of
    <2>5. Thrifty(c)'
      BY <1>2, <2>1, BurstAssumption DEF FallIdle, Thrifty, Of
    <2>6. Bounded(c)'
      <3>1. Level(c, limiters[c])' = tokens[limiters[c]] /\ Level(c, None)' = 0
        BY <1>2, <2>1, <2>4, NoneAssumption DEF FallIdle, Level, Buckets
      <3>2. Allowance(c)' = 2 * Burst
        BY <1>2 DEF FallIdle, Allowance, Mapped
      <3>3. excess'[c] + Level(c, limiters[c])' + Level(c, None)' <= Allowance(c)'
        BY <2>1, <3>1, <3>2, BurstAssumption
      <3>. QED BY <1>2, <2>5, <3>3 DEF FallIdle, Bounded, Thrifty
    <2>. QED BY <2>2, <2>3, <2>4, <2>5, <2>6, OneClient
  <1>. QED BY <1>1, <1>2

LEMMA NextBurst == ASSUME TypeOK, GaugeInv, BurstInv, [Next]_vars PROVE BurstInv'
  <1>1. CASE UNCHANGED vars
    <2>1. \A e \in Client : SameFor(e) /\ (Condemned(e)' => Condemned(e))
      BY <1>1 DEF vars, SameFor, Of, Condemned, Mapped
    <2>. QED BY <2>1, Nobody
  <1>. QED BY <1>1, RequestBurst, SweeperBurst, TimeBurst DEF Next

LEMMA InitBurst == Init => BurstInv
  <1>. SUFFICES ASSUME Init PROVE BurstInv
    OBVIOUS
  <1>1. \A c \in Client : Of(c) = {} /\ Buckets(c) = {} /\ c \notin Mapped
    BY NoneAssumption DEF Init, Of, Buckets, Mapped, Free
  <1>2. ASSUME NEW c \in Client PROVE Bounded(c)
    <2>1. limiters[c] = None /\ excess[c] = 0
      BY DEF Init
    <2>2. excess[c] + Level(c, limiters[c]) + Level(c, None) <= Allowance(c)
      BY <1>1, <2>1, BurstAssumption DEF Level, Allowance
    <2>. QED BY <1>1, <2>2 DEF Bounded
  <1>. QED BY <1>1, <1>2 DEF BurstInv, Condemned

\* No interleaving of requests with the sweeper gives a client more than twice the
\* burst beyond the refill rate between two idle periods.
THEOREM BurstBound == Spec => []AtMostTwiceTheBurst
  <1>1. Init => TypeOK /\ GaugeInv /\ BurstInv
    BY InitType, InitGauge, InitBurst
  <1>2. TypeOK /\ GaugeInv /\ BurstInv /\ [Next]_vars => (TypeOK /\ GaugeInv /\ BurstInv)'
    BY NextType, NextGauge, NextBurst
  <1>3. TypeOK /\ BurstInv => AtMostTwiceTheBurst
    <2>. SUFFICES ASSUME TypeOK, BurstInv, NEW c \in Client PROVE excess[c] <= 2 * Burst
      BY DEF AtMostTwiceTheBurst
    <2>1. PICK d : excess[c] + Level(c, limiters[c]) + Level(c, d) <= Allowance(c)
      BY DEF BurstInv, Bounded
    <2>2. Level(c, limiters[c]) \in Nat /\ Level(c, d) \in Nat /\ excess[c] \in Int
      BY LevelType, BurstAssumption DEF TypeOK
    <2>. QED BY <2>1, <2>2, BurstAssumption DEF Allowance
  <1>. QED BY <1>1, <1>2, <1>3, PTL DEF Spec

=============================================================================
