------------------------------ MODULE Shutdown ------------------------------
(***************************************************************************)
(* The life of the process from the start of serving to its exit: the main *)
(* goroutine of cmd/api/main.go, the worker goroutine with the two         *)
(* statements of its cycle, the requests the HTTP server is handling, and  *)
(* the connection pool they share.  What the statements do to the tables   *)
(* is OrganicCanceler's and the services' matter; here it only counts      *)
(* whether they are still under way when the pool closes and the process   *)
(* exits.                                                                  *)
(***************************************************************************)
EXTENDS Integers, FiniteSets

CONSTANTS
    Request,        \* slots for requests in their handlers
    Worker,         \* the goroutine of startBackgroundWorker
    MaxOpenConns    \* DB_MAX_OPEN_CONNS

ASSUME ShutdownAssumption == Worker \notin Request /\ MaxOpenConns \in Nat \ {0}

VARIABLES
    main,       \* where main() is
    late,       \* the shutdown timeouts that have expired
    active,     \* requests in their handlers
    worker,     \* where the canceler's loop is
    stmt,       \* whose statement waits for a connection, or has one
    dropped,    \* requests refused by the closed pool or killed by the exit
    cut         \* a cycle that had found expired pickups was ended by the shutdown

shutdownVars == <<main, late, active, worker, stmt, dropped, cut>>

Stage == {"serving", "drainWorker", "stopHttp", "drainHttp", "stopMetrics",
          "flushTraces", "closePool", "return", "exited"}

WorkerState == {"waiting", "find", "cancel", "stopped", "killed"}

Agent == Request \cup {Worker}

Init ==
    /\ main = "serving"
    /\ late = {}
    /\ active = {}
    /\ worker = "waiting"
    /\ stmt = [a \in Agent |-> "none"]
    /\ dropped = {}
    /\ cut = FALSE

\* workerCancel was called: the context of the worker's loop, and so that of its
\* statements, is done.
Stopping == main # "serving"

PoolClosed == main \in {"return", "exited"}

\* The API's listener is open until e.Shutdown closes it.
Listening == main \in {"serving", "drainWorker", "stopHttp"}

InUse == {a \in Agent : stmt[a] = "running"}

Go(stage) == main' = stage /\ UNCHANGED <<late, active, worker, stmt, dropped, cut>>

(***************************************************************************)
(* main(): awaitShutdown, then gracefulShutdown                            *)
(***************************************************************************)
\* SIGINT or SIGTERM, at any time: workerCancel().
Signal == main = "serving" /\ Go("drainWorker")

DrainedAtOnce == main = "drainWorker" /\ Go("stopHttp")  \* mutant: wg.Add in the goroutine

\* wg.Wait() returned.
WorkerDrained == main = "drainWorker" /\ worker = "stopped" /\ Go("stopHttp")

NeverAbandoned == FALSE                             \* mutant: a plain wg.Wait()

\* time.After(cfg.WorkerShutdownTimeout); the select may take it though the worker
\* has just stopped.
WorkerAbandoned ==
    /\ main = "drainWorker"
    /\ main' = "stopHttp"
    /\ late' = late \cup {"worker"}
    /\ UNCHANGED <<active, worker, stmt, dropped, cut>>

\* e.Shutdown(httpShutdownCtx): no more connections, wait for the handlers.
StopListening == main = "stopHttp" /\ Go("drainHttp")

\* HTTPShutdownTimeout: one deadline for the API, the metrics server and the tracer.
HttpTimeout ==
    /\ main \in {"drainHttp", "stopMetrics", "flushTraces"}
    /\ late' = late \cup {"http"}
    /\ UNCHANGED <<main, active, worker, stmt, dropped, cut>>

ShutdownReturnsAtOnce == main = "drainHttp" /\ Go("stopMetrics")  \* mutant: e.Close()

HttpDrained ==
    /\ main = "drainHttp"
    /\ active = {} \/ "http" \in late
    /\ Go("stopMetrics")

\* metricsSrv.Shutdown, shutdownTracer: how long a scrape or the exporter takes is
\* not ours to know.
MetricsStopped == main = "stopMetrics" /\ Go("flushTraces")

TracesFlushed == main = "flushTraces" /\ Go("closePool")

ClosePoolDropsAll ==                                \* mutant: the worker counted as a request
    /\ main = "closePool"
    /\ main' = "return"
    /\ dropped' = dropped \cup {a \in Agent : stmt[a] = "queued"}
    /\ UNCHANGED <<late, active, worker, stmt, cut>>

\* db.Close() refuses the statements that wait for a connection and those yet to
\* come.  It does not wait for those that have one.
ClosePool ==
    /\ main = "closePool"
    /\ main' = "return"
    /\ LET refused == {a \in Agent : stmt[a] = "queued"} IN
       /\ stmt' = [a \in Agent |-> IF a \in refused THEN "none" ELSE stmt[a]]
       /\ dropped' = dropped \cup (refused \cap Request)
       /\ active' = active \ refused
       /\ IF Worker \in refused
          THEN worker' = "waiting" /\ cut' = (cut \/ worker = "cancel")
          ELSE UNCHANGED <<worker, cut>>
    /\ UNCHANGED late

\* main returns, and takes every goroutine along.
Exit ==
    /\ main = "return"
    /\ main' = "exited"
    /\ active' = {}
    /\ dropped' = dropped \cup active
    /\ worker' = IF worker = "stopped" THEN "stopped" ELSE "killed"
    /\ cut' = (cut \/ worker = "cancel")
    /\ stmt' = [a \in Agent |-> "none"]
    /\ UNCHANGED late

(***************************************************************************)
(* Statements: a connection is taken for one statement or a transaction    *)
(***************************************************************************)
GetConnection(a) ==
    /\ stmt[a] = "queued"
    /\ Cardinality(InUse) < MaxOpenConns
    /\ stmt' = [stmt EXCEPT ![a] = "running"]
    /\ UNCHANGED <<main, late, active, worker, dropped, cut>>

(***************************************************************************)
(* Requests                                                                *)
(***************************************************************************)
Arrive(r) ==
    /\ Listening
    /\ r \notin active
    /\ active' = active \cup {r}
    /\ UNCHANGED <<main, late, worker, stmt, dropped, cut>>

Query(r) ==
    /\ r \in active
    /\ stmt[r] = "none"
    /\ IF PoolClosed
       THEN /\ dropped' = dropped \cup {r}
            /\ active' = active \ {r}
            /\ UNCHANGED stmt
       ELSE /\ stmt' = [stmt EXCEPT ![r] = "queued"]
            /\ UNCHANGED <<active, dropped>>
    /\ UNCHANGED <<main, late, worker, cut>>

\* The statement is answered, fails, or its client has gone.
QueryEnds(r) ==
    /\ r \in active
    /\ stmt[r] # "none"
    /\ stmt' = [stmt EXCEPT ![r] = "none"]
    /\ UNCHANGED <<main, late, active, worker, dropped, cut>>

Answer(r) ==
    /\ r \in active
    /\ stmt[r] = "none"
    /\ active' = active \ {r}
    /\ UNCHANGED <<main, late, worker, stmt, dropped, cut>>

(***************************************************************************)
(* The worker: Start's select, and the two statements of run               *)
(***************************************************************************)
WorkerAt(w) == worker' = w /\ UNCHANGED <<main, late, active, dropped>>

\* When a tick and ctx.Done() are both ready, select takes either.
Tick == worker = "waiting" /\ WorkerAt("find") /\ UNCHANGED <<stmt, cut>>

WorkerStops ==
    /\ worker = "waiting"
    /\ Stopping
    /\ WorkerAt("stopped")
    /\ UNCHANGED <<stmt, cut>>

\* A statement whose context is already done is refused before it begins.
WorkerQuery ==
    /\ worker \in {"find", "cancel"}
    /\ stmt[Worker] = "none"
    /\ IF Stopping
       THEN /\ WorkerAt("waiting")
            /\ cut' = (cut \/ worker = "cancel")
            /\ UNCHANGED stmt
       ELSE /\ stmt' = [stmt EXCEPT ![Worker] = "queued"]
            /\ UNCHANGED <<main, late, active, worker, dropped, cut>>

\* FindExpiredOrganic found some, and its goroutine goes on to BulkCancel.
Found ==
    /\ worker = "find"
    /\ stmt[Worker] = "running"
    /\ stmt' = [stmt EXCEPT ![Worker] = "none"]
    /\ WorkerAt("cancel")
    /\ UNCHANGED cut

\* FindExpiredOrganic found none, BulkCancel is through, one of them failed, or
\* WorkerQueryTimeout expired.
CycleEnds ==
    /\ stmt[Worker] # "none"
    /\ stmt' = [stmt EXCEPT ![Worker] = "none"]
    /\ WorkerAt("waiting")
    /\ UNCHANGED cut

\* The context is canceled under a statement; whether the server had already
\* committed it the worker cannot tell.
Interrupted ==
    /\ Stopping
    /\ stmt[Worker] # "none"
    /\ stmt' = [stmt EXCEPT ![Worker] = "none"]
    /\ WorkerAt("waiting")
    /\ cut' \in {cut, cut \/ worker = "cancel"}

MainNext ==
    \/ Signal \/ WorkerDrained \/ WorkerAbandoned
    \/ StopListening \/ HttpTimeout \/ HttpDrained
    \/ MetricsStopped \/ TracesFlushed \/ ClosePool \/ Exit

RequestNext(r) == Arrive(r) \/ Query(r) \/ QueryEnds(r) \/ Answer(r)

WorkerNext == Tick \/ WorkerStops \/ WorkerQuery \/ Found \/ CycleEnds \/ Interrupted

Next ==
    \/ MainNext
    \/ \E r \in Request : RequestNext(r)
    \/ WorkerNext
    \/ \E a \in Agent : GetConnection(a)

Spec == Init /\ [][Next]_shutdownVars

\* Clocks run, and main() runs: what it does not wait for, and what it waits for
\* once a deadline is over.  Nothing is assumed of statements, handlers, scrapes,
\* the exporter or the worker.
Fairness ==
    /\ WF_shutdownVars(WorkerAbandoned)
    /\ WF_shutdownVars(StopListening \/ ClosePool \/ Exit)
    /\ WF_shutdownVars(HttpTimeout)
    /\ WF_shutdownVars("http" \in late /\ (HttpDrained \/ MetricsStopped \/ TracesFlushed))

FairSpec == Spec /\ Fairness

(***************************************************************************)
(* Properties                                                              *)
(***************************************************************************)
TypeOK ==
    /\ main \in Stage
    /\ late \subseteq {"worker", "http"}
    /\ active \subseteq Request
    /\ worker \in WorkerState
    /\ stmt \in [Agent -> {"none", "queued", "running"}]
    /\ dropped \subseteq Request
    /\ cut \in BOOLEAN

\* gracefulShutdown closes the pool last: as long as HTTPShutdownTimeout has not
\* expired, no request is refused by the closed pool or killed by the exit, also
\* none that arrived after the signal, while the worker was drained.
RequestsAreDrained == dropped # {} => "http" \in late

\* The pool never closes under a statement unless a timeout expired: not under a
\* request's, not under one of the worker's, abandoned or begun after the signal.
PoolClosesIdle ==
    PoolClosed =>
        /\ "http" \notin late => \A r \in Request : stmt[r] = "none"
        /\ "worker" \notin late => worker = "stopped" /\ stmt[Worker] = "none"

\* Whatever hangs, a statement, a handler or the worker, the process exits.
ShutdownEnds == main = "drainWorker" ~> main = "exited"

\* docs/deployment.md:71: "drains all in-flight work before exiting.  No request or
\* background job is dropped on a clean shutdown": one without a timeout.
DrainsInFlightWork == main = "exited" /\ late = {} => dropped = {} /\ ~cut

=============================================================================
