--------------------------- MODULE MCLivenessSuite ---------------------------
(***************************************************************************)
(* Four components that share nothing - the rate limiter, the job worker,   *)
(* the log sinks and the http client - checked in one run: component says   *)
(* which of them acts, the others stay where they begin.  An action that    *)
(* stays disabled is fair, so the fairness of the four is that of one.      *)
(***************************************************************************)
EXTENDS RateLimiter

CONSTANTS
  Ticks, Stops, MaxConcurrency,                          \* of the job worker
  Trees, MaxRecords, ErrorLines, MaxLines, MaxFailures,  \* of the log sinks
  Requests, Attempts                                     \* of the http client

VARIABLES
  component,
  workerOptions, running, intervals, signalled, timed, phase, next, task, stop, waits,
  tree, async, logged, chunks, flights, out, closed, ended, crashed, failures, disturbed,
  options, place, attempt, aborted, wire, sent, reached, cache, result

JW == INSTANCE JobWorker WITH options <- workerOptions, aborted <- signalled
LS == INSTANCE LogSink
HC == INSTANCE HttpClient WITH pc <- place

ASSUME SuiteAssumption == JW!WorkerAssumption /\ LS!SinkAssumption /\ HC!HttpAssumption

workerVars ==
  <<workerOptions, running, intervals, signalled, timed, phase, next, task, stop, waits>>
sinkVars == <<tree, async, logged, chunks, flights, out, closed, ended, crashed, failures, disturbed>>
clientVars == <<options, place, attempt, aborted, wire, sent, reached, cache, result>>

suiteVars == <<component, vars, workerVars, sinkVars, clientVars>>

SuiteInit ==
  /\ component \in {"limiter", "worker", "sink", "client"}
  /\ Init /\ JW!Init /\ LS!Init /\ HC!Init
  /\ component # "limiter" => limiter = "window"
  /\ component # "worker" => workerOptions = [concurrency |-> 1, stopOnError |-> FALSE]
  /\ component # "sink" => tree = "plain" /\ ~async
  /\ component # "client" =>
       /\ options = [r \in Requests |->
            [method |-> "GET", timeout |-> FALSE, expectOk |-> FALSE, cached |-> FALSE]]
       /\ cache = None

LimiterActs == component = "limiter" /\ Next /\ UNCHANGED <<component, workerVars, sinkVars, clientVars>>
WorkerActs == component = "worker" /\ JW!Next /\ UNCHANGED <<component, vars, sinkVars, clientVars>>
SinkActs == component = "sink" /\ LS!Next /\ UNCHANGED <<component, vars, workerVars, clientVars>>
ClientActs == component = "client" /\ HC!Next /\ UNCHANGED <<component, vars, workerVars, sinkVars>>

SuiteNext == LimiterActs \/ WorkerActs \/ SinkActs \/ ClientActs

SuiteSpec ==
  /\ SuiteInit /\ [][SuiteNext]_suiteVars
  /\ \A c \in Calls : WF_vars(Progress(c))
  /\ JW!Fairness /\ LS!Fairness /\ HC!Fairness

-----------------------------------------------------------------------------
(* Counters, levels, buffers, tasks and attempts stay what they are declared *)
(* to be in all four components, at every bound and with every failure.     *)
TypesOK == TypeOK /\ JW!TypeOK /\ LS!TypeOK /\ HC!TypeOK

(* Nothing goes beyond what it was granted: neither the units a limiter     *)
(* gives within a time, nor the requests that a call with retries sends and *)
(* the server gets of one that is not idempotent.                           *)
BudgetsAreKept == WithinBudget /\ HC!SentWithinBudget /\ HC!ExhaustedMeansTried

(* stop() of the job worker waits for the jobs of the ticks it found.       *)
StopIsGraceful == JW!StopIsGraceful

(* A job worker that was stopped begins no tick.                            *)
StoppedMeansQuiet == JW!StoppedMeansQuiet

(* No line the buffered sink took is dropped, whatever fails, and a single  *)
(* sink gets the lines in order until batches overlap and fail.            *)
LinesAreKept == LS!NoLineLost /\ LS!InOrder

(* Whatever was begun ends: limiter calls behind a failed one, ticks and    *)
(* stop() of a worker, buffered lines under an interval, requests that are  *)
(* aborted or have a timeout, but for one that reads the body of a failure. *)
EverythingSettles ==
  /\ EveryCallSettles
  /\ JW!EverythingSettles
  /\ LS!EveryLineWritten
  /\ HC!EveryRequestSettles
=============================================================================
