--------------------------- MODULE ShutdownProofs ---------------------------
(***************************************************************************)
(* What gracefulShutdown guarantees for any number of requests and any     *)
(* size of the pool, whatever statements and handlers do.  The argument    *)
(* follows main: each stage it leaves without its timeout leaves behind    *)
(* goroutines that are gone, and nothing starts them again.                *)
(***************************************************************************)
EXTENDS Shutdown, TLAPS

(***************************************************************************)
(* The inductive invariant                                                 *)
(***************************************************************************)
\* Only what is running has a statement.
StatementsHaveOwners ==
    /\ \A r \in Request : stmt[r] # "none" => r \in active
    /\ stmt[Worker] # "none" => worker \in {"find", "cancel"}

\* Past a stage without its timeout, what the stage waited for is gone.
StagesWereWaitedFor ==
    /\ main \notin {"serving", "drainWorker"} /\ "worker" \notin late =>
          worker = "stopped"
    /\ main \in {"stopMetrics", "flushTraces", "closePool", "return", "exited"}
       /\ "http" \notin late => active = {}

ShutdownInv ==
    /\ TypeOK
    /\ StatementsHaveOwners
    /\ StagesWereWaitedFor
    /\ RequestsAreDrained

LEMMA ShutdownInvInit == Init => ShutdownInv
BY ShutdownAssumption DEF Init, ShutdownInv, TypeOK, StatementsHaveOwners,
   StagesWereWaitedFor, RequestsAreDrained, Stage, WorkerState, Agent

\* main()'s own steps: each stage is left when it is drained or its time is over.
LEMMA MainStep == ShutdownInv /\ MainNext => ShutdownInv'
<1>. SUFFICES ASSUME ShutdownInv, MainNext PROVE ShutdownInv'
  OBVIOUS
<1>. USE DEF ShutdownInv, TypeOK, StatementsHaveOwners, StagesWereWaitedFor,
             RequestsAreDrained, Stage, WorkerState, Agent
<1>1. CASE Signal
  BY <1>1 DEF Signal, Go
<1>2. CASE WorkerDrained
  BY <1>2 DEF WorkerDrained, Go
<1>3. CASE WorkerAbandoned
  BY <1>3 DEF WorkerAbandoned
<1>4. CASE StopListening
  BY <1>4 DEF StopListening, Go
<1>5. CASE HttpTimeout
  BY <1>5 DEF HttpTimeout
<1>6. CASE HttpDrained
  BY <1>6 DEF HttpDrained, Go
<1>7. CASE MetricsStopped
  BY <1>7 DEF MetricsStopped, Go
<1>8. CASE TracesFlushed
  BY <1>8 DEF TracesFlushed, Go
<1>9. CASE ClosePool
  BY <1>9, ShutdownAssumption DEF ClosePool
<1>10. CASE Exit
  BY <1>10 DEF Exit
<1>. QED
  BY <1>1, <1>2, <1>3, <1>4, <1>5, <1>6, <1>7, <1>8, <1>9, <1>10 DEF MainNext

\* A request is refused by the pool only if main did not wait for it.
LEMMA RequestStep ==
  ASSUME NEW r \in Request, ShutdownInv, RequestNext(r)
  PROVE  ShutdownInv'
<1>. USE ShutdownAssumption DEF ShutdownInv, TypeOK, StatementsHaveOwners,
         StagesWereWaitedFor, RequestsAreDrained, Stage, WorkerState, Agent
<1>1. CASE Arrive(r)
  BY <1>1 DEF Arrive, Listening
<1>2. CASE Query(r)
  BY <1>2 DEF Query, PoolClosed
<1>3. CASE QueryEnds(r)
  BY <1>3 DEF QueryEnds
<1>4. CASE Answer(r)
  BY <1>4 DEF Answer
<1>. QED
  BY <1>1, <1>2, <1>3, <1>4 DEF RequestNext

\* The worker's loop, once stopped, does not move again.
LEMMA WorkerStep == ShutdownInv /\ WorkerNext => ShutdownInv'
<1>. SUFFICES ASSUME ShutdownInv, WorkerNext PROVE ShutdownInv'
  OBVIOUS
<1>. USE ShutdownAssumption DEF ShutdownInv, TypeOK, StatementsHaveOwners,
         StagesWereWaitedFor, RequestsAreDrained, Stage, WorkerState, Agent, WorkerAt
<1>1. CASE Tick
  BY <1>1 DEF Tick
<1>2. CASE WorkerStops
  BY <1>2 DEF WorkerStops
<1>3. CASE WorkerQuery
  BY <1>3 DEF WorkerQuery
<1>4. CASE Found
  BY <1>4 DEF Found
<1>5. CASE CycleEnds
  BY <1>5 DEF CycleEnds
<1>6. CASE Interrupted
  BY <1>6 DEF Interrupted
<1>. QED
  BY <1>1, <1>2, <1>3, <1>4, <1>5, <1>6 DEF WorkerNext

LEMMA ConnectionStep ==
  ASSUME NEW a \in Agent, ShutdownInv, GetConnection(a)
  PROVE  ShutdownInv'
BY DEF GetConnection, ShutdownInv, TypeOK, StatementsHaveOwners, StagesWereWaitedFor,
       RequestsAreDrained, Stage, WorkerState, Agent

LEMMA ShutdownInvAlways == Spec => []ShutdownInv
<1>1. ShutdownInv /\ [Next]_shutdownVars => ShutdownInv'
  <2>. SUFFICES ASSUME ShutdownInv, [Next]_shutdownVars PROVE ShutdownInv'
    OBVIOUS
  <2>1. CASE UNCHANGED shutdownVars
    BY <2>1 DEF shutdownVars, ShutdownInv, TypeOK, StatementsHaveOwners,
       StagesWereWaitedFor, RequestsAreDrained, Stage, WorkerState, Agent
  <2>. QED
    BY <2>1, MainStep, RequestStep, WorkerStep, ConnectionStep DEF Next
<1>. QED
  BY <1>1, ShutdownInvInit, PTL DEF Spec

(***************************************************************************)
(* The theorems                                                            *)
(***************************************************************************)
\* Unless HTTPShutdownTimeout expires, no request, not even one that arrived after
\* the signal, is refused by the closed pool or killed by the exit.
THEOREM RequestsDrained == Spec => []RequestsAreDrained
<1>1. ShutdownInv => RequestsAreDrained
  BY DEF ShutdownInv
<1>. QED
  BY <1>1, ShutdownInvAlways, PTL

\* db.Close meets a statement only when a timeout expired, and one of the worker's
\* only when the worker was abandoned.
THEOREM NothingUnderWayAtClose == Spec => []PoolClosesIdle
<1>1. ShutdownInv => PoolClosesIdle
  BY DEF ShutdownInv, PoolClosesIdle, PoolClosed, StagesWereWaitedFor,
     StatementsHaveOwners
<1>. QED
  BY <1>1, ShutdownInvAlways, PTL

\* Every variable keeps its type, for any number of requests and connections.
THEOREM ShutdownTypes == Spec => []TypeOK
<1>1. ShutdownInv => TypeOK
  BY DEF ShutdownInv
<1>. QED
  BY <1>1, ShutdownInvAlways, PTL

(***************************************************************************)
(* What the deployment guide promises, and when it is true                 *)
(***************************************************************************)
\* The shutdown finds a cycle of the canceler between its two statements, or in the
\* second one.
CycleIsOpen == Stopping /\ worker = "cancel"

\* As long as it does not, no step cuts a cycle.
LEMMA NothingIsCut ==
  ASSUME ShutdownInv, ~cut, ~CycleIsOpen, [Next]_shutdownVars
  PROVE  ~cut'
<1>. USE DEF CycleIsOpen, Stopping
<1>1. CASE UNCHANGED cut
  BY <1>1
<1>2. CASE ClosePool \/ Exit
  BY <1>2 DEF ClosePool, Exit
<1>3. CASE WorkerQuery \/ Interrupted
  BY <1>3 DEF WorkerQuery, Interrupted
<1>. QED
  BY <1>1, <1>2, <1>3
     DEF Next, MainNext, RequestNext, WorkerNext, Signal, WorkerDrained, WorkerAbandoned,
         StopListening, HttpTimeout, HttpDrained, MetricsStopped, TracesFlushed, Go, Arrive,
         Query, QueryEnds, Answer, Tick, WorkerStops, Found, CycleEnds, GetConnection,
         shutdownVars

\* docs/deployment.md:71 is wrong about a clean shutdown in one case only, a canceler
\* cycle that has selected its pickups and not yet canceled them: requests are never
\* dropped without a timeout, and any other job is finished.
THEOREM OnlyOpenCyclesAreCut == Spec /\ []~CycleIsOpen => []DrainsInFlightWork
<1>1. Init => ~cut
  BY DEF Init
<1>2. ShutdownInv /\ ~cut /\ ~CycleIsOpen /\ [Next]_shutdownVars => ~cut'
  BY NothingIsCut
<1>3. ShutdownInv /\ ~cut => DrainsInFlightWork
  BY DEF ShutdownInv, RequestsAreDrained, DrainsInFlightWork
<1>. QED
  BY <1>1, <1>2, <1>3, ShutdownInvAlways, PTL DEF Spec

=============================================================================
