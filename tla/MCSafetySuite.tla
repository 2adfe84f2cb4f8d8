---------------------------- MODULE MCSafetySuite ----------------------------
(***************************************************************************)
(* Components that share nothing, checked in one run: the sessions, the     *)
(* object stores and the job listing of MCStateSuite, and - input by input  *)
(* - the algorithms.                                                        *)
(***************************************************************************)
EXTENDS MCStateSuite, TLC

VARIABLE input   \* <<>>, then <<topic>>, then <<topic, value>>

JC == INSTANCE JobCases
StC == INSTANCE StateCases
WC == INSTANCE WebCases
DC == INSTANCE DataCases

AnyOrder == Permutations(Requests) \cup Permutations(Callers)

SuiteInit == StateInit /\ input = <<>>

StateActs == StateNext /\ UNCHANGED input

PickTopic ==
  /\ component = "algorithms" /\ input = <<>>
  /\ \E topic \in JC!JobTopics \cup StC!StateTopics \cup WC!WebTopics \cup DC!DataTopics :
       input' = <<topic>>
  /\ UNCHANGED stateVars

Inputs(topic) ==
  CASE topic \in JC!JobTopics -> JC!JobInputsOf(topic)
    [] topic \in StC!StateTopics -> StC!StateInputsOf(topic)
    [] topic \in WC!WebTopics -> WC!WebInputsOf(topic)
    [] topic \in DC!DataTopics -> DC!DataInputsOf(topic)

PickInput ==
  /\ Len(input) = 1
  /\ \E value \in Inputs(input[1]) : input' = <<input[1], value>>
  /\ UNCHANGED stateVars

SuiteNext == StateActs \/ PickTopic \/ PickInput

SuiteSpec == SuiteInit /\ [][SuiteNext]_<<stateVars, input>>

-----------------------------------------------------------------------------
Checked == Len(input) = 2

(* What goes in comes out: schedules, records, cookies, objects, requests,  *)
(* log lines, snapshots, plans, migrations and queries say what they were   *)
(* given, after every conversion there is on the way.                       *)
NothingLostOnTheWay ==
  Checked => /\ JC!JobsLoseNothing(input[1], input[2])
             /\ StC!StateLosesNothing(input[1], input[2])
             /\ WC!WebLosesNothing(input[1], input[2])
             /\ input[1] \in DC!DataTopics => DC!DataLosesNothing(input[1], input[2])

(* Backoffs, retry delays, response bodies, uploads and signed links stay   *)
(* within what they are allowed, whatever the options.                      *)
LimitsAreKept ==
  Checked => /\ JC!JobsKeepLimits(input[1], input[2])
             /\ StC!StateKeepsLimits(input[1], input[2])
             /\ WC!WebKeepsLimits(input[1], input[2])

(* What must not be shown is not: not in reported URLs and JSON, records,   *)
(* errors, examples or environments; tokens and signatures hold for what    *)
(* they were made for, and for nothing else.                                *)
SecretsStayInside ==
  Checked => /\ StC!StateKeepsSecrets(input[1], input[2])
             /\ WC!WebKeepsSecrets(input[1], input[2])
=============================================================================
