---------------------------- MODULE CallContract ----------------------------
(***************************************************************************)
(* What a Runtime promises its callers, with no thread, queue or latch in  *)
(* sight: every call is answered at most once and its answer never         *)
(* changes, a call is answered "terminated" or "force-killed" only once a  *)
(* termination is under way, and the lifecycle only moves forward.         *)
(***************************************************************************)
CONSTANTS Calls, Answers, TerminationAnswers

VARIABLES
  lifecycle,  \* "running", "requested", "terminated"
  answer      \* per call: "none" before it is made, "waiting", or its answer

contractVars == << lifecycle, answer >>

ContractInit ==
  /\ lifecycle = "running"
  /\ answer = [c \in Calls |-> "none"]

RequestTermination ==
  /\ lifecycle = "running"
  /\ lifecycle' = "requested"
  /\ UNCHANGED answer

Make(c) ==
  /\ answer[c] = "none"
  /\ answer' = [answer EXCEPT ![c] = "waiting"]
  /\ UNCHANGED lifecycle

\* The calls in S are answered together; the termination that answers them
\* may take effect in the same step.
Answer(S) ==
  /\ S # {} /\ \A c \in S : answer[c] = "waiting"
  /\ \A c \in Calls \ S : answer'[c] = answer[c]
  /\ answer' \in [Calls -> {"none", "waiting"} \cup Answers]
  /\ \A c \in S : answer'[c] \in Answers
  /\ lifecycle' \in {lifecycle, "terminated"}
  /\ (\E c \in S : answer'[c] \in TerminationAnswers) => lifecycle' # "running"

Terminate ==
  /\ lifecycle # "terminated"
  /\ lifecycle' = "terminated"
  /\ UNCHANGED answer

ContractNext ==
  \/ RequestTermination \/ Terminate
  \/ \E c \in Calls : Make(c)
  \/ \E S \in SUBSET Calls : Answer(S)

Contract == ContractInit /\ [][ContractNext]_contractVars
=============================================================================
