----------------------------- MODULE RateLimiter -----------------------------
(***************************************************************************)
(* internal/middleware/ratelimit.go: one token bucket per client address   *)
(* in a sync.Map, used by requests and thinned out by one background       *)
(* sweeper.  Nothing locks the map and its gauge together, so a step is    *)
(* one atomic access to shared memory: LoadOrStore, the store and the load *)
(* of lastSeenNano, Allow, Delete, an update of the gauge.                 *)
(*                                                                         *)
(* Time is modelled by two of its effects.  A bucket regains tokens        *)
(* (Refill), and a client that sends nothing for evictThreshold becomes    *)
(* idle (FallIdle).  A request is short compared with evictThreshold.      *)
(***************************************************************************)
EXTENDS Integers, FiniteSets

CONSTANTS
    Client,     \* addresses, the keys of the map
    Limiter,    \* ipLimiter objects
    Request,    \* slots for requests in the middleware
    Burst,      \* cfg.RateLimitBurst
    None

ASSUME BurstAssumption == Burst \in Nat \ {0}
ASSUME NoneAssumption == None \notin Limiter /\ None \notin Client

VARIABLES
    limiters,   \* the sync.Map
    tokens,     \* what each bucket still grants
    stale,      \* limiters whose lastSeenNano lies before the next sweep's cutoff
    rq,         \* what each request does next, and its locals
    sweep,      \* keys Range has yet to visit, the key about to be deleted, removed
    gauge,      \* RateLimitActiveClients
    excess      \* history: requests let through since the client was last idle,
                \* less the tokens its buckets regained

vars == <<limiters, tokens, stale, rq, sweep, gauge, excess>>

Free == [at |-> "free"]
InFlight == [at : {"touch", "count", "allow"}, client : Client, limiter : Limiter,
             loaded : BOOLEAN]
Waiting == [at |-> "waiting"]
Running == [at : {"range"}, todo : SUBSET Client, victim : Client \cup {None},
            removed : Nat]

\* Every variable keeps its type; the sweeper removes at most what it visits.
TypeOK ==
    /\ limiters \in [Client -> Limiter \cup {None}]
    /\ tokens \in [Limiter -> 0..Burst]
    /\ stale \subseteq Limiter
    /\ rq \in [Request -> {Free} \cup InFlight]
    /\ sweep \in {Waiting} \cup Running
    /\ gauge \in Int
    /\ excess \in [Client -> Int]

Init ==
    /\ limiters = [c \in Client |-> None]
    /\ tokens = [l \in Limiter |-> Burst]
    /\ stale = {}
    /\ rq = [r \in Request |-> Free]
    /\ sweep = Waiting
    /\ gauge = 0
    /\ excess = [c \in Client |-> 0]

Mapped == {c \in Client : limiters[c] # None}

Of(c) == {r \in Request : rq[r].at # "free" /\ rq[r].client = c}

\* The buckets client c still draws on: the one in the map, and those its requests
\* in flight hold although the sweeper deleted them.
Buckets(c) == {l \in Limiter : l = limiters[c] \/ \E r \in Of(c) : rq[r].limiter = l}

(***************************************************************************)
(* A request in the middleware                                             *)
(***************************************************************************)
\* A limiter the program just allocated: nobody refers to it.
Fresh(l) == \A c \in Client : l \notin Buckets(c)

Arrive(r, c, l, loaded) ==
    rq' = [rq EXCEPT ![r] =
             [at |-> "touch", client |-> c, limiter |-> l, loaded |-> loaded]]

\* LoadOrStore finds the client's limiter.
Load(r, c) ==
    /\ rq[r] = Free
    /\ c \in Mapped
    /\ Arrive(r, c, limiters[c], TRUE)
    /\ UNCHANGED <<limiters, tokens, stale, sweep, gauge, excess>>

StoreAlways(r, c) ==                                \* mutant: Store, no LoadOrStore
    /\ rq[r] = Free
    /\ \E l \in Limiter :
          /\ Fresh(l)
          /\ Arrive(r, c, l, FALSE)
          /\ limiters' = [limiters EXCEPT ![c] = l]
          /\ tokens' = [tokens EXCEPT ![l] = Burst]
          /\ stale' = stale \ {l}
    /\ UNCHANGED <<sweep, gauge, excess>>

\* LoadOrStore stores the new one, whose bucket is full.
Store(r, c) ==
    /\ rq[r] = Free
    /\ c \notin Mapped
    /\ \E l \in Limiter :
          /\ Fresh(l)
          /\ Arrive(r, c, l, FALSE)
          /\ limiters' = [limiters EXCEPT ![c] = l]
          /\ tokens' = [tokens EXCEPT ![l] = Burst]
          /\ stale' = stale \ {l}
    /\ UNCHANGED <<sweep, gauge, excess>>

TouchThenCount(r) ==                                \* mutant: Inc without if !loaded
    /\ rq[r].at = "touch"
    /\ stale' = stale \ {rq[r].limiter}
    /\ rq' = [rq EXCEPT ![r].at = "count"]
    /\ UNCHANGED <<limiters, tokens, sweep, gauge, excess>>

\* touchAndGetNano, on whatever limiter LoadOrStore returned.
Touch(r) ==
    /\ rq[r].at = "touch"
    /\ stale' = stale \ {rq[r].limiter}
    /\ rq' = [rq EXCEPT ![r].at = IF rq[r].loaded THEN "allow" ELSE "count"]
    /\ UNCHANGED <<limiters, tokens, sweep, gauge, excess>>

\* Inc, only by the request that stored.
Count(r) ==
    /\ rq[r].at = "count"
    /\ gauge' = gauge + 1
    /\ rq' = [rq EXCEPT ![r].at = "allow"]
    /\ UNCHANGED <<limiters, tokens, stale, sweep, excess>>

AllowUnchecked(r) ==                                \* mutant: takes a token it has not
    /\ rq[r].at = "allow"
    /\ tokens' = [tokens EXCEPT ![rq[r].limiter] = @ - 1]
    /\ excess' = [excess EXCEPT ![rq[r].client] = @ + 1]
    /\ rq' = [rq EXCEPT ![r] = Free]
    /\ UNCHANGED <<limiters, stale, sweep, gauge>>

\* Allow takes a token and the handler runs, or the answer is 429.
Allow(r) ==
    /\ rq[r].at = "allow"
    /\ IF tokens[rq[r].limiter] > 0
       THEN /\ tokens' = [tokens EXCEPT ![rq[r].limiter] = @ - 1]
            /\ excess' = [excess EXCEPT ![rq[r].client] = @ + 1]
       ELSE UNCHANGED <<tokens, excess>>
    /\ rq' = [rq EXCEPT ![r] = Free]
    /\ UNCHANGED <<limiters, stale, sweep, gauge>>

(***************************************************************************)
(* The sweeper: sweepOnce, at every tick                                   *)
(***************************************************************************)
SweepStart ==
    /\ sweep = Waiting
    /\ sweep' = [at |-> "range", todo |-> Mapped, victim |-> None, removed |-> 0]
    /\ UNCHANGED <<limiters, tokens, stale, rq, gauge, excess>>

ExpiredIsRecent(c) == limiters[c] \notin stale      \* mutant: comparison turned round
Expired(c) == limiters[c] \in stale

\* Range reaches key c: the load of lastSeenNano and its comparison.
SweepVisit(c) ==
    /\ sweep.at = "range"
    /\ sweep.victim = None
    /\ c \in sweep.todo
    /\ sweep' = [sweep EXCEPT !.todo = @ \ {c},
                              !.victim = IF Expired(c) THEN c ELSE None]
    /\ UNCHANGED <<limiters, tokens, stale, rq, gauge, excess>>

\* The deletion of a key found expired, whatever happened to it since.
SweepDelete ==
    /\ sweep.at = "range"
    /\ sweep.victim # None
    /\ limiters' = [limiters EXCEPT ![sweep.victim] = None]
    /\ sweep' = [sweep EXCEPT !.victim = None, !.removed = @ + 1]
    /\ UNCHANGED <<tokens, stale, rq, gauge, excess>>

\* Sub, for all removed keys at once.
SweepEnd ==
    /\ sweep.at = "range"
    /\ sweep.todo = {}
    /\ sweep.victim = None
    /\ gauge' = gauge - sweep.removed
    /\ sweep' = Waiting
    /\ UNCHANGED <<limiters, tokens, stale, rq, excess>>

Sweeper == SweepStart \/ (\E c \in Client : SweepVisit(c)) \/ SweepDelete \/ SweepEnd

(***************************************************************************)
(* Time                                                                    *)
(***************************************************************************)
\* One of c's buckets regains a token, up to its capacity.
Refill(c) ==
    /\ \E l \in Buckets(c) :
          /\ tokens[l] < Burst
          /\ tokens' = [tokens EXCEPT ![l] = @ + 1]
    /\ excess' = [excess EXCEPT ![c] = @ - 1]
    /\ UNCHANGED <<limiters, stale, rq, sweep, gauge>>

\* evictThreshold has passed since c's last request; whether its bucket is full again
\* depends on rate and burst.  A request of c that is in flight has just read the
\* limiter and not touched it.  A sweep that already runs has an earlier cutoff.
FallIdle(c) ==
    /\ sweep = Waiting
    /\ c \in Mapped
    /\ \A r \in Of(c) : rq[r].at = "touch" /\ rq[r].loaded /\ rq[r].limiter = limiters[c]
    /\ stale' = stale \cup {limiters[c]}
    /\ excess' = [excess EXCEPT ![c] = 0]
    /\ UNCHANGED <<limiters, tokens, rq, sweep, gauge>>

RequestStep(r) ==
    \/ \E c \in Client : Load(r, c) \/ Store(r, c)
    \/ Touch(r)
    \/ Count(r)
    \/ Allow(r)

Next ==
    \/ \E r \in Request : RequestStep(r)
    \/ Sweeper
    \/ \E c \in Client : Refill(c) \/ FallIdle(c)

Spec == Init /\ [][Next]_vars

\* The sweeper's goroutine lives as long as the process and its ticker fires.
FairSpec == Spec /\ WF_vars(Sweeper)

(***************************************************************************)
(* Properties                                                              *)
(***************************************************************************)
Uncounted == {r \in Request : rq[r].at \in {"touch", "count"} /\ ~rq[r].loaded}
Unsubtracted == IF sweep = Waiting THEN 0 ELSE sweep.removed

\* The gauge equals the size of the map, but for clients stored and not counted yet
\* and keys the running sweep has deleted: no client is ever counted twice or never.
GaugeFollowsMap == gauge = Cardinality(Mapped) + Unsubtracted - Cardinality(Uncounted)

\* What a client gets beyond the refill rate between two idle periods: never more
\* than twice the burst, although an eviction may hand it a second, full bucket
\* while its requests still hold the first.
AtMostTwiceTheBurst == \A c \in Client : excess[c] <= 2 * Burst

\* The map does not grow with addresses seen once: an idle client's entry is
\* removed unless the client comes back.
IdleClientsLeave == \A c \in Client : limiters[c] \in stale ~> limiters[c] \notin stale

=============================================================================
