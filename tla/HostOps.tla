------------------------------- MODULE HostOps -------------------------------
(***************************************************************************)
(* Host operations: Python callables that the host program registers and   *)
(* binds into the global scope of runtimes, which JavaScript then calls.   *)
(*                                                                         *)
(* A registered callable has a token; JavaScript that knows the token can  *)
(* call it once the token is exposed.  Every registry operation is a       *)
(* command that the runtime's thread handles between two steps of the      *)
(* JavaScript it runs, so a binding of several commands is interleaved     *)
(* with it, and may fail between any two.  The host waits for a command    *)
(* holding the interpreter lock, except for the script of bind_function.   *)
(* A ToolBridge binds its tools, under one budget of calls, and revokes    *)
(* them all when it is detached.                                           *)
(*                                                                         *)
(* Tokens are drawn from 2^53 numbers: the model never draws one twice,    *)
(* and JavaScript calls only those it was given.                           *)
(***************************************************************************)
EXTENDS Integers, Sequences, FiniteSets

CONSTANTS Runtimes, Slots,  \* a slot is a global, or a property of one
          BridgeTools, HostTools, AsyncTools,  \* callables of the bridge, of
                                               \* the host; the coroutine ones
          Tokens, MaxCalls, NoTool, NoToken,
          Value,            \* what a dict holds that is not callable
          Dicts             \* what bind_object may be given

CONSTANTS BridgeBindings    \* the bridge's tools (there are some), in order,
                            \* and their slots

Tools == BridgeTools \cup HostTools

ASSUME HostOpsAssumption ==
  /\ Runtimes # {}
  /\ NoTool \notin Tools /\ Value \notin Tools /\ NoToken \notin Tokens
  /\ BridgeTools \cap HostTools = {}
  /\ MaxCalls \in Nat
  /\ BridgeBindings \in Seq([slot : Slots, tool : BridgeTools]) \ {<<>>}
  /\ Dicts \subseteq Seq([slot : Slots, tool : HostTools \cup {Value}])

VARIABLES
  handlers, exposed, drawn,  \* PythonOpRegistry of each runtime; tokens used
  terminated,                \* runtimes that reject new work
  scope, held, sealed,       \* the function in each slot, the tokens that
                             \* JavaScript has seen, the slots it locked
  thread,                    \* the token whose callable the thread calls
  coroutines,                \* tokens with a coroutine yet to start
  host,                      \* the host's call
  namespaced, tokens, calls, \* the bridge: its mode, tokens and counter
  forgotten,                 \* (history) tokens that the bridge forgot when they
                             \* were exposed
  failed, revoked,           \* (history) tokens of calls that raised, and
                             \* those that were revoked
  bound, detached            \* (history) what the host put into each slot,
                             \* unless JavaScript has replaced it since, and
                             \* runtimes the bridge was detached from

registryVars == <<handlers, exposed, drawn>>
guestVars == <<scope, held, sealed>>
callVars == <<thread, coroutines>>
bridgeVars == <<namespaced, tokens, calls, forgotten>>
historyVars == <<failed, revoked, bound, detached>>
vars == <<registryVars, terminated, guestVars, callVars, host, bridgeVars,
          historyVars>>

-----------------------------------------------------------------------------
(* The host's call: who made it, on which runtime, the command it waits    *)
(* for, the bindings (or the tokens) still to go through, and those that   *)
(* this call has registered.                                               *)

Operations == {"none", "register_op", "bind_function", "bind_object",
               "revoke_op"}
Commands == {"none", "register", "script", "expose", "install", "convert",
             "revoke"}
Idle == [by |-> "host", op |-> "none", rt |-> CHOOSE r \in Runtimes : TRUE,
         cmd |-> "none", todo |-> <<>>, entries |-> <<>>, revoking |-> {}]

\* The lock that the host holds while it waits (bind_function's script is
\* evaluated without it).
HostHoldsLock == host.cmd \notin {"none", "script"}

\* The command that bind_object issues for the next entries.
NextOf(todo) == IF todo = <<>> THEN "install"
                ELSE IF Head(todo).tool = Value THEN "convert" ELSE "register"

Init ==
  /\ handlers = [r \in Runtimes |-> [t \in Tokens |-> NoTool]]
  /\ exposed = [r \in Runtimes |-> {}] /\ drawn = {}
  /\ terminated = {}
  /\ scope = [r \in Runtimes |-> [s \in Slots |-> NoToken]]
  /\ held = [r \in Runtimes |-> {}] /\ sealed = [r \in Runtimes |-> {}]
  /\ thread = [r \in Runtimes |-> NoToken]
  /\ coroutines = [r \in Runtimes |-> {}]
  /\ host = Idle
  /\ namespaced \in BOOLEAN /\ tokens = {} /\ calls = 0
  /\ forgotten = {} /\ failed = {} /\ revoked = {}
  /\ bound = [r \in Runtimes |-> [s \in Slots |-> NoToken]]
  /\ detached = {}

-----------------------------------------------------------------------------
(* The registry.                                                           *)

\* Seeded fault: what is registered is exposed at once.
RegisterExposing(r, t, tool) ==
  /\ t \notin drawn /\ drawn' = drawn \cup {t}
  /\ handlers' = [handlers EXCEPT ![r][t] = tool]
  /\ exposed' = [exposed EXCEPT ![r] = @ \cup {t}]

Register(r, t, tool) ==
  /\ t \notin drawn /\ drawn' = drawn \cup {t}
  /\ handlers' = [handlers EXCEPT ![r][t] = tool]
  /\ UNCHANGED exposed

\* Exposes those of the tokens that are registered.
Expose(r, ts) ==
  /\ exposed' = [exposed EXCEPT ![r] =
       @ \cup {t \in ts : handlers[r][t] # NoTool}]
  /\ UNCHANGED <<handlers, drawn>>

Revoke(r, t) ==
  /\ exposed' = [exposed EXCEPT ![r] = @ \ {t}]
  /\ handlers' = [handlers EXCEPT ![r][t] = NoTool]
  /\ UNCHANGED drawn

\* What a token given to the bridge function resolves to.
GetExposed(r, t) == IF t \in exposed[r] THEN handlers[r][t] ELSE NoTool

-----------------------------------------------------------------------------
(* The host starts a call.                                                 *)

Calls(by, op, r, cmd, todo, revoking) ==
  /\ host.cmd = "none"
  /\ host' = [by |-> by, op |-> op, rt |-> r, cmd |-> cmd, todo |-> todo,
              entries |-> <<>>, revoking |-> revoking]
  /\ UNCHANGED <<registryVars, terminated, guestVars, callVars, bridgeVars,
                 failed, revoked, bound>>

RegisterOp(r, s, f) ==
  /\ Calls("host", "register_op", r, "register", <<[slot |-> s, tool |-> f]>>, {})
  /\ UNCHANGED detached

BindFunction(r, s, f) ==
  /\ Calls("host", "bind_function", r, "register", <<[slot |-> s, tool |-> f]>>, {})
  /\ UNCHANGED detached

BindObject(r, dict) ==
  /\ Calls("host", "bind_object", r, NextOf(dict), dict, {})
  /\ UNCHANGED detached

RevokeOp(r, t) ==
  /\ t \in drawn \ tokens
  /\ Calls("host", "revoke_op", r, "revoke", <<>>, {t})
  /\ UNCHANGED detached

\* ToolBridge.attach: one bind_object, or a bind_function for each tool.
Attach(r) ==
  /\ Calls("bridge", IF namespaced THEN "bind_object" ELSE "bind_function", r,
           "register", BridgeBindings, {})
  /\ detached' = detached \ {r}

\* ToolBridge.detach: revokes each of the bridge's tokens, of any runtime, in
\* this one.
Detach(r) ==
  /\ tokens # {}
  /\ Calls("bridge", "revoke_op", r, "revoke", <<>>, tokens)
  /\ UNCHANGED detached

\* The same when the bridge has no token.
DetachNothing(r) ==
  /\ host.cmd = "none" /\ tokens = {}
  /\ detached' = detached \cup {r}
  /\ UNCHANGED <<registryVars, terminated, guestVars, callVars, host,
                 bridgeVars, failed, revoked, bound>>

ResetBudget ==
  /\ host.cmd = "none" /\ calls' = 0
  /\ UNCHANGED <<registryVars, terminated, guestVars, callVars, host,
                 namespaced, tokens, forgotten, historyVars>>

-----------------------------------------------------------------------------
(* The runtime's thread handles the command that the host waits for.       *)

\* Seeded fault: only the last token of a binding is exposed.
LastTokenIn(entries) ==
  {entries[i].token : i \in {Len(entries)} \cap DOMAIN entries} \ {NoToken}

TokensIn(entries) == {entries[i].token : i \in DOMAIN entries} \ {NoToken}

\* The call raises.
Raise ==
  /\ host' = Idle
  /\ failed' = failed \cup TokensIn(host.entries)
  /\ UNCHANGED <<tokens, forgotten, detached>>

\* Seeded fault: the bridge keeps the tokens of its last binding only.
BoundForgetting(ts) ==
  /\ tokens' = IF host.by = "bridge" THEN ts ELSE tokens
  /\ host' = IF host.todo = <<>> THEN Idle
             ELSE [host EXCEPT !.cmd = "register", !.entries = <<>>]
  /\ UNCHANGED <<failed, forgotten, detached>>

\* A binding is done: the bridge remembers its tokens, and goes on to its next
\* function.
Bound(ts) ==
  /\ tokens' = IF host.by = "bridge" THEN tokens \cup ts ELSE tokens
  /\ host' = IF host.todo = <<>> THEN Idle
             ELSE [host EXCEPT !.cmd = "register", !.entries = <<>>]
  /\ UNCHANGED <<failed, forgotten, detached>>

Handles(r, cmd) ==
  /\ host.cmd = cmd /\ host.rt = r /\ r \notin terminated
  /\ thread[r] = NoToken

HandleRegister(r) ==
  /\ Handles(r, "register")
  /\ \E t \in Tokens :
       /\ Register(r, t, Head(host.todo).tool)
       /\ host' = [host EXCEPT
            !.todo = Tail(@),
            !.entries = Append(@, [slot |-> Head(host.todo).slot, token |-> t]),
            !.cmd = CASE host.op = "register_op" -> "expose"
                      [] host.op = "bind_function" -> "script"
                      [] OTHER -> NextOf(Tail(host.todo))]
  /\ UNCHANGED <<terminated, guestVars, callVars, bridgeVars, historyVars>>

\* bind_object converts a plain value of the dict, on the host's own thread:
\* one that cannot be converted leaves the callables before it registered.
ConvertValue ==
  /\ host.cmd = "convert"
  /\ \/ /\ host' = [host EXCEPT
             !.todo = Tail(@),
             !.entries = Append(@, [slot |-> Head(host.todo).slot, token |-> NoToken]),
             !.cmd = NextOf(Tail(host.todo))]
        /\ UNCHANGED <<failed, detached, tokens, forgotten>>
     \/ Raise
  /\ UNCHANGED <<registryVars, terminated, guestVars, callVars, namespaced,
                 calls, revoked, bound>>

\* `globalThis.name = (...args) => bridge(token, ...args)`.  To a slot that
\* JavaScript locked the assignment is lost, or its setter throws.
HandleScript(r) ==
  /\ Handles(r, "script")
  /\ LET entry == host.entries[1] IN
     /\ bound' = [bound EXCEPT ![r][entry.slot] =
          IF entry.slot \in sealed[r] THEN NoToken ELSE entry.token]
     /\ \/ /\ entry.slot \notin sealed[r]
           /\ scope' = [scope EXCEPT ![r][entry.slot] = entry.token]
           /\ held' = [held EXCEPT ![r] = @ \cup {entry.token}]
           /\ host' = [host EXCEPT !.cmd = "expose"]
           /\ UNCHANGED <<failed, detached, tokens, forgotten>>
        \/ /\ entry.slot \in sealed[r]
           /\ host' = [host EXCEPT !.cmd = "expose"]
           /\ UNCHANGED <<scope, held, failed, detached, tokens, forgotten>>
        \/ /\ entry.slot \in sealed[r]
           /\ Raise
           /\ UNCHANGED <<scope, held>>
  /\ UNCHANGED <<registryVars, terminated, sealed, callVars, namespaced,
                 calls, revoked>>

\* register_op hands the token out; a function's name has it already.
HandleExpose(r) ==
  /\ Handles(r, "expose")
  /\ LET entry == host.entries[1] IN
     /\ Expose(r, {entry.token})
     /\ IF host.op = "register_op"
        THEN held' = [held EXCEPT ![r] = @ \cup {entry.token}]
        ELSE UNCHANGED held
     /\ Bound({entry.token})
  /\ UNCHANGED <<terminated, scope, sealed, callVars, namespaced, calls,
                 revoked, bound>>

\* __peno_bind_object defines the properties in order and throws at one that
\* JavaScript locked; the tokens are exposed when it has returned.
HandleInstall(r) ==
  /\ Handles(r, "install")
  /\ LET entries == host.entries
         Defined == {i \in DOMAIN entries :
                       \A j \in 1..i : entries[j].slot \notin sealed[r]}
         In(s) == {i \in Defined : entries[i].slot = s}
         Named(s) == {i \in DOMAIN entries : entries[i].slot = s}
         done == Defined = DOMAIN entries
     IN
     /\ scope' = [scope EXCEPT ![r] = [s \in Slots |->
          IF In(s) = {} THEN @[s] ELSE entries[CHOOSE i \in In(s) : TRUE].token]]
     /\ held' = [held EXCEPT ![r] =
          @ \cup ({entries[i].token : i \in Defined} \ {NoToken})]
     /\ bound' = [bound EXCEPT ![r] = [s \in Slots |->
          IF Named(s) = {} THEN @[s]
          ELSE IF done THEN entries[CHOOSE i \in Named(s) : TRUE].token
          ELSE NoToken]]
     /\ IF done THEN Expose(r, TokensIn(entries)) /\ Bound(TokensIn(entries))
        ELSE Raise /\ UNCHANGED registryVars
  /\ UNCHANGED <<terminated, sealed, callVars, namespaced, calls, revoked>>

\* The bridge's tokens that are exposed in other runtimes than r.
ExposedBesides(r) == {t \in tokens : \E q \in Runtimes \ {r} : t \in exposed[q]}

\* The bridge forgets its tokens, of every runtime, when all have been revoked
\* in this one.
HandleRevoke(r) ==
  /\ Handles(r, "revoke")
  /\ \E t \in host.revoking :
       /\ Revoke(r, t)
       /\ revoked' = IF handlers[r][t] # NoTool THEN revoked \cup {t} ELSE revoked
       /\ IF host.revoking # {t}
          THEN /\ host' = [host EXCEPT !.revoking = @ \ {t}]
               /\ UNCHANGED <<tokens, forgotten, detached>>
          ELSE /\ host' = Idle
               /\ IF host.by = "bridge"
                  THEN /\ tokens' = {} /\ detached' = detached \cup {r}
                       /\ forgotten' = forgotten \cup ExposedBesides(r)
                  ELSE UNCHANGED <<tokens, forgotten, detached>>
  /\ UNCHANGED <<terminated, guestVars, callVars, namespaced, calls, failed, bound>>

\* A terminated runtime refuses every command.
Reject(r) ==
  /\ host.cmd \notin {"none", "convert"} /\ host.rt = r /\ r \in terminated
  /\ thread[r] = NoToken
  /\ Raise
  /\ UNCHANGED <<registryVars, terminated, guestVars, callVars, namespaced,
                 calls, revoked, bound>>

Terminate(r) ==
  /\ terminated' = terminated \cup {r}
  /\ UNCHANGED <<registryVars, guestVars, callVars, host, bridgeVars, historyVars>>

-----------------------------------------------------------------------------
(* JavaScript.                                                             *)

\* Locks a name for good: no binding can set it again.
Seal(r, s) ==
  /\ r \notin terminated /\ thread[r] = NoToken /\ s \notin sealed[r]
  /\ sealed' = [sealed EXCEPT ![r] = @ \cup {s}]
  /\ UNCHANGED <<registryVars, terminated, scope, held, callVars, host,
                 bridgeVars, historyVars>>

\* Assigns to a name or deletes it, which a binding leaves writable and
\* configurable: it no longer leads to what the host put there.
Replace(r, s) ==
  /\ r \notin terminated /\ thread[r] = NoToken
  /\ s \notin sealed[r] /\ scope[r][s] # NoToken
  /\ scope' = [scope EXCEPT ![r][s] = NoToken]
  /\ bound' = [bound EXCEPT ![r][s] = NoToken]
  /\ UNCHANGED <<registryVars, terminated, held, sealed, callVars, host,
                 bridgeVars, failed, revoked, detached>>

\* Calls a token that it has seen, in the mode that the callable has.
GuestCalls(r, t) ==
  /\ r \notin terminated /\ thread[r] = NoToken
  /\ t \in held[r] /\ GetExposed(r, t) # NoTool
  /\ thread' = [thread EXCEPT ![r] = t]
  /\ UNCHANGED <<registryVars, terminated, guestVars, coroutines, host,
                 bridgeVars, historyVars>>

\* Seeded fault: the budget is compared off by one.
SpendOneMore(f) ==
  calls' = IF f \in BridgeTools /\ calls <= MaxCalls THEN calls + 1 ELSE calls

\* The budget of the bridge: an exhausted one refuses.
Spend(f) ==
  calls' = IF f \in BridgeTools /\ calls < MaxCalls THEN calls + 1 ELSE calls

\* The thread has the lock and calls the callable; the shim of a coroutine
\* function spends when it first runs.
RunCallable(r) ==
  /\ thread[r] # NoToken /\ ~HostHoldsLock
  /\ thread' = [thread EXCEPT ![r] = NoToken]
  /\ LET f == handlers[r][thread[r]] IN
       IF f \in AsyncTools
       THEN coroutines' = [coroutines EXCEPT ![r] = @ \cup {f}] /\ UNCHANGED calls
       ELSE Spend(f) /\ UNCHANGED coroutines
  /\ UNCHANGED <<registryVars, terminated, guestVars, host, namespaced, tokens,
                 forgotten, historyVars>>

\* The event loop of the host's thread starts a coroutine.
RunCoroutine(r, f) ==
  /\ host.cmd = "none" /\ f \in coroutines[r]
  /\ coroutines' = [coroutines EXCEPT ![r] = @ \ {f}]
  /\ Spend(f)
  /\ UNCHANGED <<registryVars, terminated, guestVars, thread, host, namespaced,
                 tokens, forgotten, historyVars>>

-----------------------------------------------------------------------------
HostStep ==
  \/ \E r \in Runtimes : \/ Attach(r) \/ Detach(r) \/ DetachNothing(r)
                         \/ \E dict \in Dicts : BindObject(r, dict)
                         \/ \E t \in Tokens : RevokeOp(r, t)
                         \/ \E s \in Slots, f \in HostTools :
                              RegisterOp(r, s, f) \/ BindFunction(r, s, f)
  \/ ResetBudget \/ ConvertValue

ThreadStep ==
  \E r \in Runtimes :
    \/ HandleRegister(r) \/ HandleScript(r) \/ HandleExpose(r)
    \/ HandleInstall(r) \/ HandleRevoke(r) \/ Reject(r) \/ Terminate(r)
    \/ RunCallable(r)
    \/ \E s \in Slots : Seal(r, s) \/ Replace(r, s)
    \/ \E t \in Tokens : GuestCalls(r, t)
    \/ \E f \in AsyncTools : RunCoroutine(r, f)

Next == HostStep \/ ThreadStep

Spec == Init /\ [][Next]_vars

-----------------------------------------------------------------------------
(* Properties.                                                             *)

\* Every variable has its type; the calls charged to the bridge never exceed
\* its budget, however runtimes and coroutines share it.
TypeOK ==
  /\ handlers \in [Runtimes -> [Tokens -> Tools \cup {NoTool}]]
  /\ exposed \in [Runtimes -> SUBSET Tokens] /\ drawn \subseteq Tokens
  /\ terminated \subseteq Runtimes
  /\ scope \in [Runtimes -> [Slots -> Tokens \cup {NoToken}]]
  /\ held \in [Runtimes -> SUBSET Tokens]
  /\ sealed \in [Runtimes -> SUBSET Slots]
  /\ thread \in [Runtimes -> Tokens \cup {NoToken}]
  /\ coroutines \in [Runtimes -> SUBSET AsyncTools]
  /\ host \in [by : {"host", "bridge"}, op : Operations, rt : Runtimes,
               cmd : Commands,
               todo : Seq([slot : Slots, tool : Tools \cup {Value}]),
               entries : Seq([slot : Slots, token : Tokens \cup {NoToken}]),
               revoking : SUBSET Tokens]
  /\ namespaced \in BOOLEAN /\ tokens \subseteq Tokens
  /\ calls \in 0..MaxCalls
  /\ forgotten \subseteq Tokens /\ failed \subseteq Tokens /\ revoked \subseteq Tokens
  /\ bound \in [Runtimes -> [Slots -> Tokens \cup {NoToken}]]
  /\ detached \subseteq Runtimes

\* What JavaScript can call, through any function it ever saw, or is calling,
\* was bound by a host call that succeeded and has not been revoked: a binding
\* that fails half-way leaves nothing callable behind, at whichever command it
\* fails, and a revocation reaches functions that JavaScript has captured
\* (PythonOpRegistry::expose and revoke, the bind paths).
CallableIsBound ==
  \A r \in Runtimes :
    LET live == (held[r] \cap exposed[r]) \cup ({thread[r]} \ {NoToken})
    IN  live \cap (failed \cup revoked) = {}

\* The name of a binding that succeeded leads to the callable it was last bound
\* to, until that is revoked, the host binds the name again or JavaScript assigns
\* or deletes it; only a name that JavaScript had locked beforehand is excused.
\* Whatever JavaScript does to names before a binding and between its commands,
\* and whichever other bindings fail, changes nothing (bind_function,
\* bind_object).
BoundNameWorks ==
  \A r \in Runtimes : \A s \in Slots :
    LET t == bound[r][s] IN
      t \notin {NoToken} \cup TokensIn(host.entries) \cup failed \cup revoked
        => scope[r][s] = t /\ GetExposed(r, t) # NoTool

\* After detach has returned, none of the bridge's tools is callable in that
\* runtime until it is attached again, also when an attach failed half-way; but
\* for those that the bridge forgot when it was detached from another runtime
\* (ToolBridge.detach).
DetachRevokes ==
  \A r \in detached : \A t \in exposed[r] \ forgotten : handlers[r][t] \notin BridgeTools
=============================================================================
