---------------------------- MODULE PoolContract ----------------------------
(***************************************************************************)
(* What an IsolatePool promises, with no queue, channel or lock in sight:  *)
(* an isolate of one's own from checkout to release, on which one script   *)
(* at a time runs, for the thread that asked, in a heap without contexts   *)
(* of another user; and an isolate that was stopped stays so.              *)
(***************************************************************************)
CONSTANTS Isolates, Checkouts, Threads, Nobody

VARIABLES
  made,      \* the checkouts that have been made
  isolate,   \* per checkout: its isolate, from when it is made to its return
  script,    \* per thread: what it has asked for, and whether that runs
  contexts,  \* per isolate: checkouts whose contexts it may still have
  stopped    \* the isolates that are gone

contractVars == << made, isolate, script, contexts, stopped >>

NoScript == [at |-> "none", of |-> Nobody]

InUse == {w \in Isolates : \E h \in Checkouts : isolate[h] = w}
Scripts(h) == {t \in Threads : script[t].at # "none" /\ script[t].of = h}
IsRunning(w) ==
  \E t \in Threads, h \in Checkouts :
    isolate[h] = w /\ script[t] = [at |-> "runs", of |-> h]

ContractInit ==
  /\ made = {} /\ isolate = [h \in Checkouts |-> Nobody]
  /\ script = [t \in Threads |-> NoScript]
  /\ contexts = [w \in Isolates |-> {}]
  /\ stopped = {}

Take(h, w) ==
  /\ h \notin made /\ w \notin InUse \cup stopped
  /\ made' = made \cup {h}
  /\ isolate' = [isolate EXCEPT ![h] = w]
  /\ UNCHANGED << script, contexts, stopped >>

\* Not while a script of the checkout is asked for, or runs.
GiveBack(h) ==
  /\ isolate[h] \in Isolates /\ Scripts(h) = {}
  /\ isolate' = [isolate EXCEPT ![h] = Nobody]
  /\ UNCHANGED << made, script, contexts, stopped >>

Ask(t, h) ==
  /\ script[t] = NoScript /\ isolate[h] \in Isolates /\ Scripts(h) = {}
  /\ script' = [script EXCEPT ![t] = [at |-> "asked", of |-> h]]
  /\ UNCHANGED << made, isolate, contexts, stopped >>

Start(t, h) ==
  /\ script[t] = [at |-> "asked", of |-> h]
  /\ script' = [script EXCEPT ![t] = [at |-> "runs", of |-> h]]
  /\ contexts[isolate[h]] \subseteq {h}
  /\ contexts' = [contexts EXCEPT ![isolate[h]] = {h}]
  /\ UNCHANGED << made, isolate, stopped >>

Answer(t) ==
  /\ script[t].at = "runs"
  /\ script' = [script EXCEPT ![t] = NoScript]
  /\ UNCHANGED << made, isolate, contexts, stopped >>

Collect(w) ==
  /\ ~IsRunning(w)
  /\ contexts' = [contexts EXCEPT ![w] = {}]
  /\ UNCHANGED << made, isolate, script, stopped >>

Stop(w) ==
  /\ w \notin InUse \cup stopped
  /\ stopped' = stopped \cup {w}
  /\ UNCHANGED << made, isolate, script, contexts >>

ContractNext ==
  \/ \E h \in Checkouts : \/ GiveBack(h)
                          \/ \E w \in Isolates : Take(h, w)
                          \/ \E t \in Threads : Ask(t, h) \/ Start(t, h)
  \/ \E t \in Threads : Answer(t)
  \/ \E w \in Isolates : Collect(w) \/ Stop(w)

Contract == ContractInit /\ [][ContractNext]_contractVars
=============================================================================
