--------------------------- MODULE HostOpsProofs ---------------------------
(***************************************************************************)
(* Theorems about HostOps, for all runtimes, callables, slots and tokens.  *)
(***************************************************************************)
EXTENDS HostOps, SequenceTheorems, TLAPS

\* A registered token, and one in a binding of the host's call.
Registered(r, t) == handlers[r][t] # NoTool
Binding == {"register_op", "bind_function"}
ToolBindings == Seq([slot : Slots, tool : Tools])

\* The host's call waits for a command that its operation issues, and has what
\* that command needs.
HostShape ==
  /\ host.op \in Binding =>
       /\ host.todo \in ToolBindings
       /\ host.cmd \in {"register", "script", "expose"}
       /\ host.cmd = "register" => host.entries = <<>>
  /\ host.cmd \in {"script", "expose"} =>
       /\ host.op \in Binding
       /\ Len(host.entries) = 1 /\ host.entries[1].token \in Tokens
  /\ host.cmd = "register" => host.todo # <<>> /\ Head(host.todo).tool \in Tools
  /\ host.cmd = "convert" => host.todo # <<>>
  /\ host.cmd = "install" => host.todo = <<>>
  /\ host.cmd \in {"none", "revoke"} => host.entries = <<>>

\* A token is registered in one runtime, after it was drawn; only registered
\* ones are exposed.
RegistrySound ==
  /\ \A r \in Runtimes, t \in Tokens : Registered(r, t) => t \in drawn
  /\ \A q, r \in Runtimes, t \in Tokens :
       Registered(q, t) /\ Registered(r, t) => q = r
  /\ \A r \in Runtimes : \A t \in exposed[r] : Registered(r, t)

\* The tokens of a binding in progress are registered in its runtime, not yet
\* exposed, and have no history.
EntriesFresh ==
  \A t \in TokensIn(host.entries) :
    /\ Registered(host.rt, t) /\ t \notin failed \cup revoked
    /\ \A r \in Runtimes : t \notin exposed[r]

\* What failed or was revoked had been drawn, and is not exposed.
HistorySound ==
  /\ failed \cup revoked \subseteq drawn
  /\ \A r \in Runtimes : exposed[r] \cap (failed \cup revoked) = {}

\* The thread calls only what is exposed.
ThreadCallsExposed ==
  \A r \in Runtimes : thread[r] # NoToken => thread[r] \in exposed[r]

\* Under a name there is what the host put there last; a token of the binding in
\* progress has a name in its runtime only.
NamesPlaced ==
  \A r \in Runtimes, s \in Slots :
    bound[r][s] # NoToken =>
      /\ scope[r][s] = bound[r][s] /\ bound[r][s] \in drawn
      /\ bound[r][s] \in TokensIn(host.entries) => r = host.rt

\* The rest of BoundNameWorks: what a binding that is done has left under a name
\* is exposed.
Current(r, s) ==
  bound[r][s] \notin {NoToken} \cup TokensIn(host.entries) \cup failed \cup revoked
NamesLead ==
  \A r \in Runtimes, s \in Slots : Current(r, s) => bound[r][s] \in exposed[r]

HostInv ==
  /\ TypeOK /\ HostShape /\ RegistrySound /\ EntriesFresh /\ HistorySound
  /\ ThreadCallsExposed /\ NamesPlaced /\ NamesLead

-----------------------------------------------------------------------------
(* Types.                                                                  *)

Todos == Seq([slot : Slots, tool : Tools \cup {Value}])
Entries == Seq([slot : Slots, token : Tokens \cup {NoToken}])
HostType == [by : {"host", "bridge"}, op : Operations, rt : Runtimes, cmd : Commands,
             todo : Todos, entries : Entries, revoking : SUBSET Tokens]

\* The command that bind_object issues next has what it needs.
LEMMA NextOfIsReady ==
  ASSUME NEW todo \in Todos
  PROVE  /\ NextOf(todo) \in {"register", "convert", "install"}
         /\ NextOf(todo) = "register" => todo # <<>> /\ Head(todo).tool \in Tools
         /\ NextOf(todo) = "convert" => todo # <<>>
         /\ NextOf(todo) = "install" => todo = <<>>
<1>1. todo # <<>> => Head(todo) \in [slot : Slots, tool : Tools \cup {Value}]
  BY HeadTailProperties DEF Todos
<1>2. QED
  BY <1>1 DEF NextOf

\* An idle host.
LEMMA IdleShape ==
  /\ Idle \in HostType /\ Idle.cmd = "none" /\ Idle.op = "none"
  /\ Idle.entries = <<>> /\ Idle.todo = <<>>
<1>1. (CHOOSE r \in Runtimes : TRUE) \in Runtimes
  BY HostOpsAssumption
<1>2. <<>> \in Todos /\ <<>> \in Entries
  BY EmptySeq DEF Todos, Entries
<1>3. QED
  BY <1>1, <1>2 DEF Idle, HostType, Operations, Commands

\* A step that changes what the host waits for keeps the types if it keeps that
\* of `host` and leaves the other variables in theirs.
TypeButHost ==
  /\ handlers \in [Runtimes -> [Tokens -> Tools \cup {NoTool}]]
  /\ exposed \in [Runtimes -> SUBSET Tokens] /\ drawn \subseteq Tokens
  /\ terminated \subseteq Runtimes
  /\ scope \in [Runtimes -> [Slots -> Tokens \cup {NoToken}]]
  /\ held \in [Runtimes -> SUBSET Tokens]
  /\ sealed \in [Runtimes -> SUBSET Slots]
  /\ thread \in [Runtimes -> Tokens \cup {NoToken}]
  /\ coroutines \in [Runtimes -> SUBSET AsyncTools]
  /\ namespaced \in BOOLEAN /\ tokens \subseteq Tokens
  /\ calls \in 0..MaxCalls
  /\ forgotten \subseteq Tokens /\ failed \subseteq Tokens /\ revoked \subseteq Tokens
  /\ bound \in [Runtimes -> [Slots -> Tokens \cup {NoToken}]]
  /\ detached \subseteq Runtimes

LEMMA TypeSplits == TypeOK <=> TypeButHost /\ host \in HostType
BY DEF TypeOK, TypeButHost, HostType, Todos, Entries

\* The types of the entries and of what is still to be bound.
LEMMA HostFields ==
  ASSUME TypeOK
  PROVE  /\ host.by \in {"host", "bridge"} /\ host.op \in Operations
         /\ host.rt \in Runtimes /\ host.cmd \in Commands
         /\ host.todo \in Todos /\ host.entries \in Entries
         /\ host.revoking \in SUBSET Tokens
         /\ TokensIn(host.entries) \subseteq Tokens
<1>1. host.todo \in Todos /\ host.entries \in Entries /\ host.rt \in Runtimes
  BY TypeSplits DEF HostType
<1>2. TokensIn(host.entries) \subseteq Tokens
  <2> SUFFICES ASSUME NEW i \in DOMAIN host.entries
               PROVE  host.entries[i] \in [slot : Slots, token : Tokens \cup {NoToken}]
    BY DEF TokensIn
  <2>1. QED
    BY <1>1, LenProperties, ElementOfSeq DEF Entries
<1>3. QED
  BY <1>1, <1>2, TypeSplits DEF HostType

-----------------------------------------------------------------------------
(* The host's calls.                                                       *)

\* What every step of the host or of the thread must keep besides the types.
Accounts ==
  RegistrySound /\ EntriesFresh /\ HistorySound /\ ThreadCallsExposed
  /\ NamesPlaced /\ NamesLead

\* An idle host calls, and waits for the first command of its operation.
LEMMA CallsKeepInv ==
  ASSUME HostInv,
         NEW by \in {"host", "bridge"}, NEW op \in Operations, NEW r \in Runtimes,
         NEW cmd \in {"register", "convert", "install", "revoke"},
         NEW todo \in Todos, NEW revoking \in SUBSET Tokens,
         Calls(by, op, r, cmd, todo, revoking), detached' \subseteq Runtimes,
         op \in Binding => todo \in ToolBindings /\ cmd = "register",
         cmd = "register" => todo # <<>> /\ Head(todo).tool \in Tools,
         cmd = "convert" => todo # <<>>,
         cmd = "install" => todo = <<>>
  PROVE  HostInv'
<1> USE DEF registryVars, guestVars, callVars, bridgeVars
<1>1. host' = [by |-> by, op |-> op, rt |-> r, cmd |-> cmd, todo |-> todo,
               entries |-> <<>>, revoking |-> revoking]
  BY DEF Calls
<1>2. <<>> \in Entries
  BY EmptySeq DEF Entries
<1>3. host' \in HostType
  BY <1>1, <1>2 DEF HostType, Commands
<1>4. TypeOK'
  <2>1. TypeButHost'
    BY TypeSplits DEF HostInv, TypeButHost, Calls
  <2>2. QED
    BY <1>3, <2>1, TypeSplits DEF TypeOK, TypeButHost, HostType, Todos, Entries
<1>5. HostShape'
  BY <1>1 DEF HostShape
<1>6. TokensIn(host'.entries) = {}
  BY <1>1 DEF TokensIn
<1>7. Accounts'
  <2>1. RegistrySound' /\ HistorySound' /\ ThreadCallsExposed'
    BY DEF Calls, HostInv, RegistrySound, HistorySound, ThreadCallsExposed, Registered
  <2>2. EntriesFresh'
    BY <1>6 DEF EntriesFresh
  <2>3. TokensIn(host.entries) = {}
    BY DEF Calls, HostInv, HostShape, TokensIn
  <2>4. NamesPlaced' /\ NamesLead'
    BY <1>6, <2>3 DEF Calls, HostInv, NamesPlaced, NamesLead, Current
  <2>5. QED
    BY <2>1, <2>2, <2>4 DEF Accounts
<1>8. QED
  BY <1>4, <1>5, <1>7 DEF HostInv, Accounts

\* What a single binding has to go through.
LEMMA SingleBinding ==
  ASSUME NEW s \in Slots, NEW f \in HostTools
  PROVE  LET todo == <<[slot |-> s, tool |-> f]>> IN
           /\ todo \in ToolBindings /\ todo \in Todos /\ todo # <<>>
           /\ Head(todo).tool \in Tools
BY DEF ToolBindings, Todos, Tools

\* The bridge's bindings, and those of a dict.
LEMMA GivenBindings ==
  /\ BridgeBindings \in ToolBindings /\ BridgeBindings \in Todos
  /\ BridgeBindings # <<>> /\ Head(BridgeBindings).tool \in Tools
  /\ Dicts \subseteq Todos
<1>1. /\ [slot : Slots, tool : BridgeTools] \subseteq [slot : Slots, tool : Tools]
      /\ [slot : Slots, tool : BridgeTools]
           \subseteq [slot : Slots, tool : Tools \cup {Value}]
      /\ [slot : Slots, tool : HostTools \cup {Value}]
           \subseteq [slot : Slots, tool : Tools \cup {Value}]
  BY DEF Tools
<1>2. BridgeBindings \in ToolBindings /\ BridgeBindings \in Todos
  <2>1. BridgeBindings \in Seq([slot : Slots, tool : BridgeTools])
    BY HostOpsAssumption
  <2>2. BridgeBindings \in ToolBindings
    BY <1>1, <2>1, SeqMonotonic DEF ToolBindings
  <2>3. BridgeBindings \in Todos
    BY <1>1, <2>1, SeqMonotonic DEF Todos
  <2>4. QED
    BY <2>2, <2>3
<1>3. Head(BridgeBindings).tool \in Tools
  <2>1. Head(BridgeBindings) \in [slot : Slots, tool : Tools]
    BY <1>2, HeadTailProperties, HostOpsAssumption DEF ToolBindings
  <2>2. QED
    BY <2>1
<1>4. Dicts \subseteq Todos
  BY <1>1, SeqMonotonic, HostOpsAssumption DEF Todos
<1>5. QED
  BY <1>2, <1>3, <1>4, HostOpsAssumption

\* Every call that the host can make.
LEMMA HostCallsKeepInv ==
  ASSUME HostInv, NEW r \in Runtimes,
         \/ Attach(r) \/ Detach(r)
         \/ \E dict \in Dicts : BindObject(r, dict)
         \/ \E t \in Tokens : RevokeOp(r, t)
         \/ \E s \in Slots, f \in HostTools : RegisterOp(r, s, f) \/ BindFunction(r, s, f)
  PROVE  HostInv'
<1> USE DEF Operations, Binding
<1>1. detached \subseteq Runtimes /\ tokens \subseteq Tokens /\ <<>> \in Todos
  BY EmptySeq DEF HostInv, TypeOK, Todos
<1>2. CASE Attach(r)
  <2>1. namespaced \in BOOLEAN
    BY DEF HostInv, TypeOK
  <2>2. QED
    BY <1>1, <1>2, <2>1, GivenBindings, CallsKeepInv DEF Attach
<1>3. CASE Detach(r)
  BY <1>1, <1>3, CallsKeepInv DEF Detach
<1>4. ASSUME NEW dict \in Dicts, BindObject(r, dict) PROVE HostInv'
  BY <1>1, <1>4, GivenBindings, NextOfIsReady, CallsKeepInv DEF BindObject
<1>5. ASSUME NEW t \in Tokens, RevokeOp(r, t) PROVE HostInv'
  BY <1>1, <1>5, CallsKeepInv DEF RevokeOp
<1>6. ASSUME NEW s \in Slots, NEW f \in HostTools, RegisterOp(r, s, f) PROVE HostInv'
  BY <1>1, <1>6, SingleBinding, CallsKeepInv DEF RegisterOp
<1>7. ASSUME NEW s \in Slots, NEW f \in HostTools, BindFunction(r, s, f) PROVE HostInv'
  BY <1>1, <1>7, SingleBinding, CallsKeepInv DEF BindFunction
<1>8. QED
  BY <1>2, <1>3, <1>4, <1>5, <1>6, <1>7

-----------------------------------------------------------------------------
(* The ways in which a command ends.                                       *)

\* A call that raises leaves the tokens it registered unexposed.
LEMMA RaiseKeepsAccounts ==
  ASSUME HostInv, Raise, UNCHANGED <<handlers, exposed, drawn, thread, revoked>>
  PROVE  /\ host' \in HostType /\ failed' \subseteq Tokens
         /\ tokens' = tokens /\ detached' = detached /\ forgotten' = forgotten
         /\ HostShape' /\ RegistrySound' /\ EntriesFresh' /\ HistorySound'
         /\ ThreadCallsExposed'
         /\ TokensIn(host'.entries) = {} /\ failed' = failed \cup TokensIn(host.entries)
<1>1. /\ host' = Idle /\ failed' = failed \cup TokensIn(host.entries)
      /\ tokens' = tokens /\ detached' = detached /\ forgotten' = forgotten
  BY DEF Raise
<1>2. TokensIn(host.entries) \subseteq Tokens /\ failed \subseteq Tokens
  BY HostFields DEF HostInv, TypeOK
<1>3. host.rt \in Runtimes
  BY HostFields DEF HostInv
<1>4. host' \in HostType /\ HostShape' /\ EntriesFresh' /\ TokensIn(host'.entries) = {}
  BY <1>1, IdleShape DEF HostShape, Binding, EntriesFresh, TokensIn
<1>5. HistorySound'
  <2>1. \A t \in TokensIn(host.entries) :
          t \in drawn /\ \A r \in Runtimes : t \notin exposed[r]
    BY <1>2, <1>3 DEF HostInv, EntriesFresh, RegistrySound
  <2>2. QED
    BY <1>1, <2>1 DEF HostInv, HistorySound
<1>6. RegistrySound' /\ ThreadCallsExposed'
  BY DEF HostInv, RegistrySound, ThreadCallsExposed, Registered
<1>7. QED
  BY <1>1, <1>2, <1>4, <1>5, <1>6

\* A binding that is done leaves nothing unexposed, and the next one is ready.
LEMMA BoundIsReady ==
  ASSUME HostInv, NEW ts \in SUBSET Tokens, Bound(ts),
         host.todo = <<>> \/ host.op \in Binding
  PROVE  /\ host' \in HostType /\ HostShape' /\ TokensIn(host'.entries) = {}
         /\ tokens' \subseteq Tokens /\ failed' = failed /\ detached' = detached
         /\ forgotten' = forgotten
<1>1. host \in HostType /\ tokens \subseteq Tokens
  BY TypeSplits DEF HostInv, TypeButHost
<1>2. /\ tokens' \subseteq Tokens /\ failed' = failed /\ detached' = detached
      /\ forgotten' = forgotten
  BY <1>1 DEF Bound
<1>3. CASE host.todo = <<>>
  <2>1. host' = Idle
    BY <1>3 DEF Bound
  <2>2. QED
    BY <1>2, <2>1, IdleShape DEF HostShape, Binding, TokensIn
<1>4. CASE host.todo # <<>>
  <2>1. host' = [host EXCEPT !.cmd = "register", !.entries = <<>>]
    BY <1>4 DEF Bound
  <2>2. <<>> \in Entries
    BY EmptySeq DEF Entries
  <2>3. host' \in HostType
    BY <1>1, <2>1, <2>2 DEF HostType, Commands
  <2>4. host.op \in Binding /\ host.todo \in ToolBindings
    BY <1>4 DEF HostInv, HostShape
  <2>5. Head(host.todo) \in [slot : Slots, tool : Tools]
    BY <1>4, <2>4, HeadTailProperties DEF ToolBindings
  <2>6. /\ host'.op = host.op /\ host'.todo = host.todo /\ host'.cmd = "register"
        /\ host'.entries = <<>>
    BY <1>1, <2>1 DEF HostType
  <2>7. HostShape' /\ TokensIn(host'.entries) = {}
    BY <1>4, <2>4, <2>5, <2>6 DEF HostShape, TokensIn
  <2>8. QED
    BY <1>2, <2>3, <2>7
<1>5. QED
  BY <1>3, <1>4

\* Exposing tokens of the binding in progress, which then is done.
LEMMA ExposeKeepsAccounts ==
  ASSUME HostInv, NEW r \in Runtimes, NEW ts \in SUBSET TokensIn(host.entries),
         Expose(r, ts), TokensIn(host'.entries) = {},
         UNCHANGED <<thread, failed, revoked>>
  PROVE  /\ exposed' \in [Runtimes -> SUBSET Tokens]
         /\ RegistrySound' /\ EntriesFresh' /\ HistorySound' /\ ThreadCallsExposed'
         /\ \A q \in Runtimes : exposed[q] \subseteq exposed'[q]
         /\ \A t \in ts : Registered(r, t) => t \in exposed'[r]
<1>1. ts \subseteq Tokens /\ exposed \in [Runtimes -> SUBSET Tokens]
  BY HostFields DEF HostInv, TypeOK
<1>2. /\ exposed' = [exposed EXCEPT ![r] = @ \cup {t \in ts : Registered(r, t)}]
      /\ handlers' = handlers /\ drawn' = drawn
  BY DEF Expose, Registered
<1>3. \A q \in Runtimes : exposed'[q] =
        IF q = r THEN exposed[q] \cup {t \in ts : Registered(r, t)} ELSE exposed[q]
  BY <1>1, <1>2
<1>4. exposed' \in [Runtimes -> SUBSET Tokens]
  BY <1>1, <1>2
<1>5. RegistrySound'
  BY <1>2, <1>3 DEF HostInv, RegistrySound, Registered
<1>6. HistorySound'
  BY <1>2, <1>3 DEF HostInv, HistorySound, EntriesFresh
<1>7. EntriesFresh' /\ ThreadCallsExposed'
  BY <1>2, <1>3 DEF HostInv, EntriesFresh, ThreadCallsExposed
<1>8. QED
  BY <1>3, <1>4, <1>5, <1>6, <1>7

-----------------------------------------------------------------------------
(* The commands.                                                           *)

\* One more entry.
LEMMA AppendedTokens ==
  ASSUME NEW entries \in Entries, NEW e \in [slot : Slots, token : Tokens \cup {NoToken}]
  PROVE  /\ Append(entries, e) \in Entries
         /\ TokensIn(Append(entries, e)) = TokensIn(entries) \cup ({e.token} \ {NoToken})
<1>1. /\ Append(entries, e) \in Entries /\ Len(entries) \in Nat
      /\ DOMAIN entries = 1..Len(entries)
      /\ DOMAIN Append(entries, e) = 1..(Len(entries) + 1)
      /\ \A i \in 1..Len(entries) : Append(entries, e)[i] = entries[i]
      /\ Append(entries, e)[Len(entries) + 1] = e
  BY AppendProperties, LenProperties DEF Entries
<1>2. QED
  BY <1>1 DEF TokensIn

\* The next entry of a binding is registered.
LEMMA RegisterKeepsInv ==
  ASSUME HostInv, NEW r \in Runtimes, HandleRegister(r)
  PROVE  HostInv'
<1> USE DEF guestVars, callVars, bridgeVars, historyVars
<1> DEFINE next == Head(host.todo)
<1>1. PICK t \in Tokens :
        /\ Register(r, t, next.tool)
        /\ host' = [host EXCEPT
             !.todo = Tail(@),
             !.entries = Append(@, [slot |-> next.slot, token |-> t]),
             !.cmd = CASE host.op = "register_op" -> "expose"
                       [] host.op = "bind_function" -> "script"
                       [] OTHER -> NextOf(Tail(host.todo))]
  BY DEF HandleRegister
<1>2. /\ host \in HostType /\ host.rt = r /\ host.cmd = "register"
      /\ host.todo # <<>> /\ next.tool \in Tools
  BY TypeSplits DEF HandleRegister, Handles, HostInv, HostShape
<1>3. /\ Tail(host.todo) \in Todos
      /\ next \in [slot : Slots, tool : Tools \cup {Value}]
      /\ host.op \in Binding => Tail(host.todo) \in ToolBindings
  BY <1>2, HeadTailProperties DEF HostType, Todos, ToolBindings, HostInv, HostShape
<1>4. /\ t \notin drawn /\ drawn' = drawn \cup {t} /\ exposed' = exposed
      /\ \A q \in Runtimes, u \in Tokens :
           handlers'[q][u] = IF q = r /\ u = t THEN next.tool ELSE handlers[q][u]
  BY <1>1 DEF Register, HostInv, TypeOK
<1>5. next.tool # NoTool /\ next.slot \in Slots /\ t # NoToken
  BY <1>2, <1>3, HostOpsAssumption
<1> DEFINE entry == [slot |-> next.slot, token |-> t]
<1>6. entry \in [slot : Slots, token : Tokens \cup {NoToken}] /\ entry.token = t
  BY <1>5
<1>7. /\ Append(host.entries, entry) \in Entries
      /\ TokensIn(Append(host.entries, entry)) = TokensIn(host.entries) \cup {t}
  BY <1>2, <1>5, <1>6, AppendedTokens DEF HostType
<1>8. /\ host'.op = host.op /\ host'.rt = r /\ host'.todo = Tail(host.todo)
      /\ host'.entries = Append(host.entries, entry)
      /\ host.op = "register_op" => host'.cmd = "expose"
      /\ host.op = "bind_function" => host'.cmd = "script"
      /\ host.op \notin Binding => host'.cmd = NextOf(Tail(host.todo))
  BY <1>1, <1>2 DEF HostType, Binding
<1>9. host' \in HostType
  <2>1. host'.cmd \in Commands
    BY <1>3, <1>8, NextOfIsReady DEF Commands, Binding
  <2>2. QED
    BY <1>1, <1>2, <1>3, <1>7, <1>8, <2>1 DEF HostType
<1>10. TypeOK'
  <2>1. TypeButHost'
    BY <1>1, <1>2, <1>4, TypeSplits
    DEF HandleRegister, Register, HostInv, TypeButHost
  <2>2. QED
    BY <1>9, <2>1, TypeSplits DEF TypeOK, TypeButHost, HostType, Todos, Entries
<1>11. HostShape'
  <2>1. CASE host.op \in Binding
    <3>1. host.entries = <<>>
      BY <1>2, <2>1 DEF HostInv, HostShape
    <3>2. host'.entries = <<entry>>
      BY <1>8, <3>1
    <3>3. host'.cmd \in {"script", "expose"}
      BY <1>8, <2>1 DEF Binding
    <3>4. QED
      BY <1>3, <1>8, <2>1, <3>2, <3>3 DEF HostShape
  <2>2. CASE host.op \notin Binding
    BY <1>3, <1>8, <2>2, NextOfIsReady DEF HostShape
  <2>3. QED
    BY <2>1, <2>2
<1>12. RegistrySound'
  <2>1. \A q \in Runtimes : ~Registered(q, t)
    BY <1>4 DEF HostInv, RegistrySound
  <2>2. \A q \in Runtimes, u \in Tokens :
          Registered(q, u)' <=> Registered(q, u) \/ (q = r /\ u = t)
    BY <1>4, <1>5, <2>1 DEF Registered
  <2>3. \A q \in Runtimes : exposed[q] \subseteq Tokens
    BY DEF HostInv, TypeOK
  <2>4. QED
    BY <1>4, <2>1, <2>2, <2>3 DEF HostInv, RegistrySound
<1>13. \A q \in Runtimes : t \notin exposed[q] \cup failed \cup revoked
  BY <1>4 DEF HostInv, RegistrySound, HistorySound
<1>14. EntriesFresh'
  BY <1>2, <1>4, <1>5, <1>7, <1>8, <1>13, HostFields
  DEF HandleRegister, HostInv, EntriesFresh, Registered
<1>15. HistorySound' /\ ThreadCallsExposed'
  BY <1>4 DEF HandleRegister, HostInv, HistorySound, ThreadCallsExposed
<1>16. NamesPlaced'
  BY <1>2, <1>4, <1>7, <1>8 DEF HandleRegister, HostInv, NamesPlaced
<1>17. NamesLead'
  BY <1>4, <1>7, <1>8 DEF HandleRegister, HostInv, NamesLead, Current
<1>18. QED
  BY <1>10, <1>11, <1>12, <1>14, <1>15, <1>16, <1>17 DEF HostInv

\* A step that leaves the registry and the names alone, and at which no token
\* leaves the binding in progress but by failing.
LEMMA NamesStay ==
  ASSUME HostInv, UNCHANGED <<exposed, drawn, scope, bound, revoked>>,
         TokensIn(host'.entries) \subseteq TokensIn(host.entries),
         TokensIn(host'.entries) # {} => host'.rt = host.rt,
         TokensIn(host.entries) \cup failed = TokensIn(host'.entries) \cup failed'
  PROVE  NamesPlaced' /\ NamesLead'
<1>1. NamesPlaced'
  BY DEF HostInv, NamesPlaced
<1>2. NamesLead'
  BY DEF HostInv, NamesLead, Current
<1>3. QED
  BY <1>1, <1>2

\* A value is converted, or the call raises.
LEMMA ConvertKeepsInv ==
  ASSUME HostInv, ConvertValue
  PROVE  HostInv'
<1> USE DEF registryVars, guestVars, callVars
<1>1. ASSUME host' \in HostType, failed' \subseteq Tokens, tokens' = tokens,
             detached' = detached, forgotten' = forgotten
      PROVE  TypeOK'
  <2>1. TypeButHost'
    BY <1>1, TypeSplits DEF ConvertValue, HostInv, TypeButHost
  <2>2. QED
    BY <1>1, <2>1, TypeSplits DEF TypeOK, TypeButHost, HostType, Todos, Entries
<1>2. CASE Raise
  <2>1. /\ host' \in HostType /\ failed' \subseteq Tokens
        /\ tokens' = tokens /\ detached' = detached /\ forgotten' = forgotten
        /\ HostShape' /\ RegistrySound' /\ EntriesFresh' /\ HistorySound'
        /\ ThreadCallsExposed'
        /\ TokensIn(host'.entries) = {} /\ failed' = failed \cup TokensIn(host.entries)
    BY <1>2, RaiseKeepsAccounts DEF ConvertValue
  <2>2. NamesPlaced' /\ NamesLead'
    BY <2>1, NamesStay DEF ConvertValue
  <2>3. QED
    BY <1>1, <2>1, <2>2 DEF HostInv
<1>3. CASE ~Raise
  <2> DEFINE entry == [slot |-> Head(host.todo).slot, token |-> NoToken]
  <2>1. /\ host \in HostType /\ host.cmd = "convert" /\ host.todo # <<>>
        /\ host' = [host EXCEPT !.todo = Tail(@), !.entries = Append(@, entry),
                                !.cmd = NextOf(Tail(host.todo))]
        /\ UNCHANGED <<failed, detached, tokens, forgotten>>
    BY <1>3, TypeSplits DEF ConvertValue, HostInv, HostShape
  <2>2. /\ Tail(host.todo) \in Todos
        /\ Head(host.todo) \in [slot : Slots, tool : Tools \cup {Value}]
    BY <2>1, HeadTailProperties DEF HostType, Todos
  <2>3. /\ Append(host.entries, entry) \in Entries
        /\ TokensIn(Append(host.entries, entry)) = TokensIn(host.entries)
    <3>1. /\ entry \in [slot : Slots, token : Tokens \cup {NoToken}]
          /\ entry.token = NoToken /\ host.entries \in Entries
      BY <2>1, <2>2 DEF HostType
    <3>2. /\ Append(host.entries, entry) \in Entries
          /\ TokensIn(Append(host.entries, entry))
               = TokensIn(host.entries) \cup ({entry.token} \ {NoToken})
      BY <3>1, AppendedTokens
    <3>3. {entry.token} \ {NoToken} = {}
      BY <3>1
    <3>4. QED
      BY <3>2, <3>3
  <2>4. /\ host'.op = host.op /\ host'.rt = host.rt /\ host'.todo = Tail(host.todo)
        /\ host'.entries = Append(host.entries, entry)
        /\ host'.cmd = NextOf(Tail(host.todo))
    BY <2>1 DEF HostType
  <2>5. host' \in HostType
    BY <2>1, <2>2, <2>3, <2>4, NextOfIsReady DEF HostType, Commands
  <2>6. host.op \notin Binding
    BY <2>1 DEF HostInv, HostShape
  <2>7. HostShape'
    BY <2>2, <2>4, <2>6, NextOfIsReady DEF HostShape
  <2>8. EntriesFresh'
    BY <2>1, <2>3, <2>4 DEF ConvertValue, HostInv, EntriesFresh, Registered
  <2>9. RegistrySound' /\ HistorySound' /\ ThreadCallsExposed'
    BY <2>1 DEF ConvertValue, HostInv, RegistrySound, HistorySound,
                ThreadCallsExposed, Registered
  <2>10. NamesPlaced' /\ NamesLead'
    BY <2>1, <2>3, <2>4, NamesStay DEF ConvertValue
  <2>11. failed' \subseteq Tokens
    BY <2>1 DEF HostInv, TypeOK
  <2>12. QED
    BY <1>1, <2>1, <2>5, <2>7, <2>8, <2>9, <2>10, <2>11 DEF HostInv
<1>4. QED
  BY <1>2, <1>3

\* The entry of a single binding.
LEMMA SingleEntry ==
  ASSUME HostInv, host.cmd \in {"script", "expose"}
  PROVE  /\ host.entries[1].token \in Tokens /\ host.entries[1].slot \in Slots
         /\ host.entries[1].token # NoToken
         /\ TokensIn(host.entries) = {host.entries[1].token}
<1>1. Len(host.entries) = 1 /\ host.entries[1].token \in Tokens
  BY DEF HostInv, HostShape
<1>2. host.entries \in Entries
  BY HostFields DEF HostInv
<1>3. DOMAIN host.entries = {1}
  BY <1>1, <1>2, LenProperties DEF Entries
<1>4. host.entries[1] \in [slot : Slots, token : Tokens \cup {NoToken}]
  <2>1. 1 \in 1..Len(host.entries)
    BY <1>1
  <2>2. QED
    BY <1>2, <2>1, ElementOfSeq DEF Entries
<1>5. QED
  BY <1>1, <1>3, <1>4, HostOpsAssumption DEF TokensIn

\* The script of bind_function is evaluated.
LEMMA ScriptKeepsInv ==
  ASSUME HostInv, NEW r \in Runtimes, HandleScript(r)
  PROVE  HostInv'
<1> USE DEF registryVars, callVars
<1> DEFINE entry == host.entries[1]
           lands == IF entry.slot \in sealed[r] THEN NoToken ELSE entry.token
<1>1. /\ host \in HostType /\ host.cmd = "script" /\ host.rt = r
      /\ host.op \in Binding
      /\ entry.token \in Tokens /\ entry.token # NoToken /\ entry.slot \in Slots
  BY TypeSplits, SingleEntry DEF HandleScript, Handles, HostInv, HostShape
<1>2. /\ UNCHANGED <<registryVars, terminated, sealed, callVars, namespaced, calls,
                     revoked>>
      /\ bound' = [bound EXCEPT ![r][entry.slot] = lands]
  BY DEF HandleScript
<1>3. /\ bound' \in [Runtimes -> [Slots -> Tokens \cup {NoToken}]]
      /\ \A q \in Runtimes, s \in Slots :
           bound'[q][s] = IF q = r /\ s = entry.slot THEN lands ELSE bound[q][s]
  <2>1. bound \in [Runtimes -> [Slots -> Tokens \cup {NoToken}]]
    BY DEF HostInv, TypeOK
  <2>2. [bound[r] EXCEPT ![entry.slot] = lands] \in [Slots -> Tokens \cup {NoToken}]
    BY <1>1, <2>1
  <2>3. QED
    BY <1>1, <1>2, <2>1, <2>2
<1>4. \/ /\ entry.slot \notin sealed[r]
         /\ scope' = [scope EXCEPT ![r][entry.slot] = entry.token]
         /\ held' = [held EXCEPT ![r] = @ \cup {entry.token}]
      \/ entry.slot \in sealed[r] /\ UNCHANGED <<scope, held>>
  BY DEF HandleScript
<1>5. /\ scope' \in [Runtimes -> [Slots -> Tokens \cup {NoToken}]]
      /\ held' \in [Runtimes -> SUBSET Tokens]
      /\ \A q \in Runtimes, s \in Slots :
           scope'[q][s] = IF q = r /\ s = entry.slot /\ entry.slot \notin sealed[r]
                          THEN entry.token ELSE scope[q][s]
  <2>1. /\ scope \in [Runtimes -> [Slots -> Tokens \cup {NoToken}]]
        /\ held \in [Runtimes -> SUBSET Tokens]
    BY DEF HostInv, TypeOK
  <2>2. [scope[r] EXCEPT ![entry.slot] = entry.token] \in [Slots -> Tokens \cup {NoToken}]
    BY <1>1, <2>1
  <2>3. CASE entry.slot \in sealed[r]
    BY <1>4, <2>1, <2>3
  <2>4. CASE entry.slot \notin sealed[r]
    <3>1. /\ scope' = [scope EXCEPT ![r] = [scope[r] EXCEPT ![entry.slot] = entry.token]]
          /\ held' = [held EXCEPT ![r] = @ \cup {entry.token}]
      BY <1>4, <2>4
    <3>2. held' \in [Runtimes -> SUBSET Tokens]
      BY <1>1, <2>1, <3>1
    <3>3. QED
      BY <1>1, <2>1, <2>2, <2>4, <3>1, <3>2
  <2>5. QED
    BY <2>3, <2>4
<1>6. ASSUME host' \in HostType, failed' \subseteq Tokens, tokens' = tokens,
             detached' = detached, forgotten' = forgotten
      PROVE  TypeOK'
  <2>1. TypeButHost'
    BY <1>2, <1>3, <1>5, <1>6, TypeSplits DEF HostInv, TypeButHost
  <2>2. QED
    BY <1>6, <2>1, TypeSplits DEF TypeOK, TypeButHost, HostType, Todos, Entries
<1>7. ASSUME TokensIn(host'.entries) \subseteq TokensIn(host.entries),
             TokensIn(host'.entries) # {} => host'.rt = r,
             TokensIn(host.entries) \cup failed = TokensIn(host'.entries) \cup failed'
      PROVE  NamesPlaced' /\ NamesLead'
  <2>1. entry.token \in TokensIn(host.entries) /\ entry.token \in drawn
    BY <1>1, SingleEntry DEF HostInv, EntriesFresh, RegistrySound
  <2>2. NamesPlaced'
    <3> SUFFICES ASSUME NEW q \in Runtimes, NEW s \in Slots, bound'[q][s] # NoToken
                 PROVE  /\ scope'[q][s] = bound'[q][s] /\ bound'[q][s] \in drawn
                        /\ bound'[q][s] \in TokensIn(host'.entries) => q = host'.rt
      BY <1>2 DEF NamesPlaced
    <3>1. CASE q = r /\ s = entry.slot
      BY <1>3, <1>5, <1>7, <2>1, <3>1
    <3>2. CASE ~(q = r /\ s = entry.slot)
      <4>1. bound'[q][s] = bound[q][s] /\ scope'[q][s] = scope[q][s]
        BY <1>3, <1>5, <3>2
      <4>2. /\ scope[q][s] = bound[q][s] /\ bound[q][s] \in drawn
            /\ bound[q][s] \in TokensIn(host.entries) => q = r
        BY <1>1, <4>1 DEF HostInv, NamesPlaced
      <4>3. QED
        BY <1>7, <4>1, <4>2
    <3>3. QED
      BY <3>1, <3>2
  <2>3. NamesLead'
    BY <1>2, <1>3, <1>7, <2>1 DEF HostInv, NamesLead, Current
  <2>4. QED
    BY <2>2, <2>3
<1>8. CASE Raise
  <2>1. /\ host' \in HostType /\ failed' \subseteq Tokens
        /\ tokens' = tokens /\ detached' = detached /\ forgotten' = forgotten
        /\ HostShape' /\ RegistrySound' /\ EntriesFresh' /\ HistorySound'
        /\ ThreadCallsExposed'
        /\ TokensIn(host'.entries) = {} /\ failed' = failed \cup TokensIn(host.entries)
    BY <1>2, <1>8, RaiseKeepsAccounts
  <2>2. NamesPlaced' /\ NamesLead'
    BY <1>7, <2>1
  <2>3. QED
    BY <1>6, <2>1, <2>2 DEF HostInv
<1>9. CASE ~Raise
  <2>1. /\ host' = [host EXCEPT !.cmd = "expose"]
        /\ UNCHANGED <<failed, detached, tokens, forgotten>>
    BY <1>9 DEF HandleScript
  <2>2. /\ host' \in HostType /\ host'.op = host.op /\ host'.rt = r
        /\ host'.cmd = "expose" /\ host'.entries = host.entries
        /\ host'.todo = host.todo
    BY <1>1, <2>1 DEF HostType, Commands
  <2>3. HostShape'
    BY <1>1, <2>2 DEF HostInv, HostShape
  <2>4. RegistrySound' /\ EntriesFresh' /\ HistorySound' /\ ThreadCallsExposed'
    BY <1>1, <1>2, <2>1, <2>2
    DEF HostInv, RegistrySound, EntriesFresh, HistorySound, ThreadCallsExposed, Registered
  <2>5. NamesPlaced' /\ NamesLead'
    BY <1>7, <2>1, <2>2
  <2>6. failed \subseteq Tokens
    BY DEF HostInv, TypeOK
  <2>7. QED
    BY <1>6, <2>1, <2>2, <2>3, <2>4, <2>5, <2>6 DEF HostInv
<1>10. QED
  BY <1>8, <1>9

\* The token of a single binding is exposed.
LEMMA ExposeKeepsInv ==
  ASSUME HostInv, NEW r \in Runtimes, HandleExpose(r)
  PROVE  HostInv'
<1> USE DEF callVars
<1> DEFINE entry == host.entries[1]
<1>1. /\ host.cmd = "expose" /\ host.rt = r /\ host.op \in Binding
      /\ entry.token \in Tokens /\ entry.token # NoToken /\ entry.slot \in Slots
      /\ TokensIn(host.entries) = {entry.token}
  BY SingleEntry DEF HandleExpose, Handles, HostInv, HostShape
<1>2. /\ Expose(r, {entry.token}) /\ Bound({entry.token})
      /\ UNCHANGED <<terminated, scope, sealed, callVars, namespaced, calls, revoked,
                     bound>>
  BY DEF HandleExpose
<1>3. /\ host' \in HostType /\ HostShape' /\ TokensIn(host'.entries) = {}
      /\ tokens' \subseteq Tokens /\ failed' = failed /\ detached' = detached
      /\ forgotten' = forgotten
  BY <1>1, <1>2, BoundIsReady
<1>4. /\ exposed' \in [Runtimes -> SUBSET Tokens]
      /\ RegistrySound' /\ EntriesFresh' /\ HistorySound' /\ ThreadCallsExposed'
      /\ \A q \in Runtimes : exposed[q] \subseteq exposed'[q]
      /\ Registered(r, entry.token) => entry.token \in exposed'[r]
  BY <1>1, <1>2, <1>3, ExposeKeepsAccounts
<1>5. handlers' = handlers /\ drawn' = drawn
  BY <1>2 DEF Expose
<1>6. held' \in [Runtimes -> SUBSET Tokens]
  <2>1. held \in [Runtimes -> SUBSET Tokens]
    BY DEF HostInv, TypeOK
  <2>2. held' = held \/ held' = [held EXCEPT ![r] = @ \cup {entry.token}]
    BY DEF HandleExpose
  <2>3. QED
    BY <1>1, <2>1, <2>2
<1>7. TypeOK'
  <2>1. TypeButHost'
    BY <1>2, <1>3, <1>4, <1>5, <1>6, TypeSplits DEF HostInv, TypeButHost
  <2>2. QED
    BY <1>3, <2>1, TypeSplits DEF TypeOK, TypeButHost, HostType, Todos, Entries
<1>8. NamesPlaced' /\ NamesLead'
  <2>1. NamesPlaced'
    BY <1>2, <1>3, <1>5 DEF HostInv, NamesPlaced
  <2>2. entry.token \in exposed'[r]
    BY <1>1, <1>4 DEF HostInv, EntriesFresh
  <2>3. NamesLead'
    BY <1>1, <1>2, <1>3, <1>4, <2>2 DEF HostInv, NamesPlaced, NamesLead, Current
  <2>4. QED
    BY <2>1, <2>3
<1>9. QED
  BY <1>3, <1>4, <1>7, <1>8 DEF HostInv

\* The properties of an object are defined, up to one that is locked.
LEMMA InstallKeepsInv ==
  ASSUME HostInv, NEW r \in Runtimes, HandleInstall(r)
  PROVE  HostInv'
<1> USE DEF callVars
<1> DEFINE entries == host.entries
           Defined == {i \in DOMAIN entries :
                         \A j \in 1..i : entries[j].slot \notin sealed[r]}
           In(s) == {i \in Defined : entries[i].slot = s}
           Named(s) == {i \in DOMAIN entries : entries[i].slot = s}
           done == Defined = DOMAIN entries
           Last(S) == entries[CHOOSE i \in S : TRUE].token
<1>1. /\ host.cmd = "install" /\ host.rt = r /\ host.todo = <<>>
      /\ entries \in Entries /\ TokensIn(entries) \subseteq Tokens
  BY HostFields DEF HandleInstall, Handles, HostInv, HostShape
<1>2. \A i \in DOMAIN entries :
        entries[i] \in [slot : Slots, token : Tokens \cup {NoToken}]
  <2>1. DOMAIN entries = 1..Len(entries)
    BY <1>1, LenProperties DEF Entries
  <2>2. QED
    BY <1>1, <2>1, ElementOfSeq DEF Entries
<1>3. /\ scope' = [scope EXCEPT ![r] = [s \in Slots |->
           IF In(s) = {} THEN @[s] ELSE Last(In(s))]]
      /\ held' = [held EXCEPT ![r] =
           @ \cup ({entries[i].token : i \in Defined} \ {NoToken})]
      /\ bound' = [bound EXCEPT ![r] = [s \in Slots |->
           IF Named(s) = {} THEN @[s]
           ELSE IF done THEN Last(Named(s)) ELSE NoToken]]
      /\ IF done THEN Expose(r, TokensIn(entries)) /\ Bound(TokensIn(entries))
         ELSE Raise /\ UNCHANGED registryVars
      /\ UNCHANGED <<terminated, sealed, callVars, namespaced, calls, revoked>>
  BY DEF HandleInstall
<1>4. \A s \in Slots :
        /\ In(s) \subseteq Named(s)
        /\ Named(s) # {} => /\ Last(Named(s)) \in Tokens \cup {NoToken}
                            /\ Last(Named(s)) \in TokensIn(entries) \cup {NoToken}
        /\ In(s) # {} => Last(In(s)) \in Tokens \cup {NoToken}
        /\ done => In(s) = Named(s)
  <2> SUFFICES ASSUME NEW s \in Slots
               PROVE  /\ In(s) \subseteq Named(s)
                      /\ Named(s) # {} =>
                           /\ Last(Named(s)) \in Tokens \cup {NoToken}
                           /\ Last(Named(s)) \in TokensIn(entries) \cup {NoToken}
                      /\ In(s) # {} => Last(In(s)) \in Tokens \cup {NoToken}
                      /\ done => In(s) = Named(s)
    OBVIOUS
  <2>1. In(s) \subseteq Named(s) /\ (done => In(s) = Named(s))
    OBVIOUS
  <2>2. ASSUME NEW S \in SUBSET DOMAIN entries, S # {}
        PROVE  /\ Last(S) \in Tokens \cup {NoToken}
               /\ Last(S) \in TokensIn(entries) \cup {NoToken}
    <3>1. (CHOOSE i \in S : TRUE) \in DOMAIN entries
      BY <2>2
    <3>2. QED
      BY <1>2, <3>1 DEF TokensIn
  <2>3. Named(s) \subseteq DOMAIN entries /\ In(s) \subseteq DOMAIN entries
    OBVIOUS
  <2>4. QED
    BY <2>1, <2>2, <2>3
<1>5. /\ scope \in [Runtimes -> [Slots -> Tokens \cup {NoToken}]]
      /\ held \in [Runtimes -> SUBSET Tokens]
      /\ bound \in [Runtimes -> [Slots -> Tokens \cup {NoToken}]]
  BY DEF HostInv, TypeOK
<1> HIDE DEF In, Named, Last, done
<1>6. /\ scope' \in [Runtimes -> [Slots -> Tokens \cup {NoToken}]]
      /\ \A q \in Runtimes, s \in Slots :
           scope'[q][s] = IF q = r /\ In(s) # {} THEN Last(In(s)) ELSE scope[q][s]
  <2>1. [s \in Slots |-> IF In(s) = {} THEN scope[r][s] ELSE Last(In(s))]
          \in [Slots -> Tokens \cup {NoToken}]
    BY <1>4, <1>5
  <2>2. QED
    BY <1>3, <1>5, <2>1
<1>7. /\ bound' \in [Runtimes -> [Slots -> Tokens \cup {NoToken}]]
      /\ \A q \in Runtimes, s \in Slots :
           bound'[q][s] = IF q = r /\ Named(s) # {}
                          THEN (IF done THEN Last(Named(s)) ELSE NoToken)
                          ELSE bound[q][s]
  <2>1. [s \in Slots |-> IF Named(s) = {} THEN bound[r][s]
                         ELSE IF done THEN Last(Named(s)) ELSE NoToken]
          \in [Slots -> Tokens \cup {NoToken}]
    BY <1>4, <1>5
  <2>2. QED
    BY <1>3, <1>5, <2>1
<1>8. held' \in [Runtimes -> SUBSET Tokens]
  <2>1. {entries[i].token : i \in Defined} \ {NoToken} \subseteq Tokens
    BY <1>2
  <2>2. QED
    BY <1>3, <1>5, <2>1
<1>9. ASSUME host' \in HostType, failed' \subseteq Tokens, tokens' \subseteq Tokens,
             detached' = detached, forgotten' = forgotten, handlers' = handlers,
             drawn' = drawn,
             exposed' \in [Runtimes -> SUBSET Tokens]
      PROVE  TypeOK'
  <2>1. TypeButHost'
    BY <1>3, <1>6, <1>7, <1>8, <1>9, TypeSplits DEF HostInv, TypeButHost
  <2>2. QED
    BY <1>9, <2>1, TypeSplits DEF TypeOK, TypeButHost, HostType, Todos, Entries
<1>10. CASE ~done
  <2>1. Raise /\ UNCHANGED registryVars
    BY <1>3, <1>10
  <2>2. /\ host' \in HostType /\ failed' \subseteq Tokens
        /\ tokens' = tokens /\ detached' = detached /\ forgotten' = forgotten
        /\ HostShape' /\ RegistrySound' /\ EntriesFresh' /\ HistorySound'
        /\ ThreadCallsExposed'
        /\ TokensIn(host'.entries) = {} /\ failed' = failed \cup TokensIn(entries)
    BY <1>3, <2>1, RaiseKeepsAccounts DEF registryVars
  <2>3. NamesPlaced' /\ NamesLead'
    <3>1. \A q \in Runtimes, s \in Slots :
            bound'[q][s] # NoToken =>
              bound'[q][s] = bound[q][s] /\ scope'[q][s] = scope[q][s]
      BY <1>4, <1>6, <1>7, <1>10
    <3>2. NamesPlaced'
      BY <2>1, <2>2, <3>1 DEF HostInv, NamesPlaced, registryVars
    <3>3. NamesLead'
      BY <1>3, <2>1, <2>2, <3>1 DEF HostInv, NamesLead, Current, registryVars
    <3>4. QED
      BY <3>2, <3>3
  <2>4. TypeOK'
    BY <1>9, <2>1, <2>2 DEF registryVars, HostInv, TypeOK
  <2>5. QED
    BY <2>2, <2>3, <2>4 DEF HostInv
<1>11. CASE done
  <2>1. Expose(r, TokensIn(entries)) /\ Bound(TokensIn(entries))
    BY <1>3, <1>11
  <2>2. /\ host' \in HostType /\ HostShape' /\ TokensIn(host'.entries) = {}
        /\ tokens' \subseteq Tokens /\ failed' = failed /\ detached' = detached
        /\ forgotten' = forgotten
    BY <1>1, <2>1, BoundIsReady
  <2>3. /\ exposed' \in [Runtimes -> SUBSET Tokens]
        /\ RegistrySound' /\ EntriesFresh' /\ HistorySound' /\ ThreadCallsExposed'
        /\ \A q \in Runtimes : exposed[q] \subseteq exposed'[q]
        /\ \A t \in TokensIn(entries) : Registered(r, t) => t \in exposed'[r]
    BY <1>3, <2>1, <2>2, ExposeKeepsAccounts
  <2>4. handlers' = handlers /\ drawn' = drawn
    BY <2>1 DEF Expose
  <2>5. NamesPlaced' /\ NamesLead'
    <3>1. \A t \in TokensIn(entries) : t \in exposed'[r] /\ t \in drawn
      BY <1>1, <2>3 DEF HostInv, EntriesFresh, RegistrySound
    <3>2. ASSUME NEW q \in Runtimes, NEW s \in Slots, bound'[q][s] # NoToken
          PROVE  /\ scope'[q][s] = bound'[q][s] /\ bound'[q][s] \in drawn
                 /\ \/ bound'[q][s] \in exposed'[q]
                    \/ bound'[q][s] = bound[q][s] /\ bound[q][s] \notin TokensIn(entries)
      <4>1. CASE q = r /\ Named(s) # {}
        <5>1. /\ bound'[q][s] = Last(Named(s)) /\ scope'[q][s] = Last(Named(s))
              /\ Last(Named(s)) \in TokensIn(entries)
          BY <1>4, <1>6, <1>7, <1>11, <3>2, <4>1
        <5>2. QED
          BY <3>1, <4>1, <5>1
      <4>2. CASE ~(q = r /\ Named(s) # {})
        <5>1. bound'[q][s] = bound[q][s] /\ scope'[q][s] = scope[q][s]
          BY <1>4, <1>6, <1>7, <4>2
        <5>2. /\ scope[q][s] = bound[q][s] /\ bound[q][s] \in drawn
              /\ bound[q][s] \in TokensIn(entries) => q = r
          BY <1>1, <3>2, <5>1 DEF HostInv, NamesPlaced
        <5>3. QED
          BY <3>1, <5>1, <5>2
      <4>3. QED
        BY <4>1, <4>2
    <3>3. NamesPlaced'
      BY <2>2, <2>4, <3>2 DEF NamesPlaced
    <3>4. NamesLead'
      BY <1>3, <2>2, <2>3, <3>2 DEF HostInv, NamesLead, Current
    <3>5. QED
      BY <3>3, <3>4
  <2>6. TypeOK'
    BY <1>9, <2>2, <2>3, <2>4 DEF HostInv, TypeOK
  <2>7. QED
    BY <2>2, <2>3, <2>5, <2>6 DEF HostInv
<1>12. QED
  BY <1>10, <1>11

\* A token is revoked; with the last one the call ends.
LEMMA RevokeKeepsInv ==
  ASSUME HostInv, NEW r \in Runtimes, HandleRevoke(r)
  PROVE  HostInv'
<1> USE DEF guestVars, callVars
<1>1. PICK t \in host.revoking :
        /\ Revoke(r, t)
        /\ revoked' = IF handlers[r][t] # NoTool THEN revoked \cup {t} ELSE revoked
        /\ IF host.revoking # {t}
           THEN /\ host' = [host EXCEPT !.revoking = @ \ {t}]
                /\ UNCHANGED <<tokens, forgotten, detached>>
           ELSE /\ host' = Idle
                /\ IF host.by = "bridge"
                   THEN /\ tokens' = {} /\ detached' = detached \cup {r}
                        /\ forgotten' = forgotten \cup ExposedBesides(r)
                   ELSE UNCHANGED <<tokens, forgotten, detached>>
  BY DEF HandleRevoke
<1>2. /\ host \in HostType /\ host.cmd = "revoke" /\ host.rt = r
      /\ host.entries = <<>> /\ t \in Tokens /\ thread[r] = NoToken
      /\ UNCHANGED <<terminated, guestVars, callVars, namespaced, calls, failed, bound>>
  BY TypeSplits, HostFields DEF HandleRevoke, Handles, HostInv, HostShape
<1>3. /\ exposed \in [Runtimes -> SUBSET Tokens]
      /\ handlers \in [Runtimes -> [Tokens -> Tools \cup {NoTool}]]
      /\ revoked \subseteq Tokens /\ tokens \subseteq Tokens /\ detached \subseteq Runtimes
      /\ forgotten \cup ExposedBesides(r) \subseteq Tokens
  BY DEF HostInv, TypeOK, ExposedBesides
<1>4. /\ drawn' = drawn
      /\ exposed' \in [Runtimes -> SUBSET Tokens]
      /\ handlers' \in [Runtimes -> [Tokens -> Tools \cup {NoTool}]]
      /\ \A q \in Runtimes : exposed'[q] = IF q = r THEN exposed[q] \ {t} ELSE exposed[q]
      /\ \A q \in Runtimes, u \in Tokens :
           handlers'[q][u] = IF q = r /\ u = t THEN NoTool ELSE handlers[q][u]
  <2>1. [handlers[r] EXCEPT ![t] = NoTool] \in [Tokens -> Tools \cup {NoTool}]
    BY <1>2, <1>3
  <2>2. QED
    BY <1>1, <1>2, <1>3, <2>1 DEF Revoke
<1>5. host' \in HostType /\ HostShape' /\ TokensIn(host'.entries) = {}
  <2>1. CASE host.revoking = {t}
    BY <1>1, <2>1, IdleShape DEF HostShape, Binding, TokensIn
  <2>2. CASE host.revoking # {t}
    <3>1. /\ host' \in HostType /\ host'.cmd = "revoke" /\ host'.op = host.op
          /\ host'.entries = <<>>
      BY <1>1, <1>2, <2>2 DEF HostType
    <3>2. QED
      BY <1>2, <3>1 DEF HostInv, HostShape, TokensIn
  <2>3. QED
    BY <2>1, <2>2
<1>6. TypeOK'
  <2>1. TypeButHost'
    BY <1>1, <1>2, <1>3, <1>4, TypeSplits DEF HostInv, TypeButHost
  <2>2. QED
    BY <1>5, <2>1, TypeSplits DEF TypeOK, TypeButHost, HostType, Todos, Entries
<1>7. RegistrySound'
  <2>1. \A q \in Runtimes, u \in Tokens :
          Registered(q, u)' => Registered(q, u) /\ ~(q = r /\ u = t)
    BY <1>4 DEF Registered
  <2>2. \A q \in Runtimes, u \in Tokens : Registered(q, u)' => u \in drawn'
    BY <1>4, <2>1 DEF HostInv, RegistrySound
  <2>3. \A p, q \in Runtimes, u \in Tokens :
          Registered(p, u)' /\ Registered(q, u)' => p = q
    BY <2>1 DEF HostInv, RegistrySound
  <2>4. ASSUME NEW q \in Runtimes, NEW u \in exposed'[q]
        PROVE  Registered(q, u)'
    <3>1. exposed'[q] = IF q = r THEN exposed[q] \ {t} ELSE exposed[q]
      BY <1>4
    <3>2. u \in exposed[q] /\ ~(q = r /\ u = t)
      BY <3>1
    <3>3. u \in Tokens /\ handlers[q][u] # NoTool
      BY <1>3, <3>2 DEF HostInv, RegistrySound, Registered
    <3>4. handlers'[q][u] = IF q = r /\ u = t THEN NoTool ELSE handlers[q][u]
      BY <1>4, <3>3
    <3>5. QED
      BY <3>2, <3>3, <3>4 DEF Registered
  <2>5. QED
    BY <2>2, <2>3, <2>4 DEF RegistrySound
<1>8. Registered(r, t) => \A q \in Runtimes : t \in exposed[q] => q = r
  BY <1>2 DEF HostInv, RegistrySound
<1>9. HistorySound'
  <2>1. failed' \cup revoked' \subseteq drawn'
    BY <1>1, <1>2, <1>4 DEF HostInv, HistorySound, RegistrySound, Registered
  <2>2. \A q \in Runtimes : exposed'[q] \cap (failed' \cup revoked') = {}
    BY <1>1, <1>2, <1>4, <1>8 DEF HostInv, HistorySound, Registered
  <2>3. QED
    BY <2>1, <2>2 DEF HistorySound
<1>10. ThreadCallsExposed'
  BY <1>2, <1>4 DEF HostInv, ThreadCallsExposed
<1>11. EntriesFresh'
  BY <1>5 DEF EntriesFresh
<1>12. NamesPlaced' /\ NamesLead'
  <2>1. TokensIn(host.entries) = {}
    BY <1>2 DEF TokensIn
  <2>2. NamesPlaced'
    BY <1>2, <1>4, <1>5 DEF HostInv, NamesPlaced
  <2>3. NamesLead'
    <3> SUFFICES ASSUME NEW q \in Runtimes, NEW s \in Slots, Current(q, s)'
                 PROVE  bound'[q][s] \in exposed'[q]
      BY DEF NamesLead
    <3>1. bound'[q][s] = bound[q][s] /\ bound[q][s] \in exposed[q]
      BY <1>1, <1>2, <1>5, <2>1 DEF HostInv, NamesLead, Current
    <3>2. ~(q = r /\ bound[q][s] = t)
      <4>1. q = r /\ bound[q][s] = t => handlers[r][t] # NoTool
        BY <3>1 DEF HostInv, RegistrySound, Registered
      <4>2. handlers[r][t] # NoTool => t \in revoked'
        BY <1>1
      <4>3. bound'[q][s] \notin revoked'
        BY DEF Current
      <4>4. QED
        BY <3>1, <4>1, <4>2, <4>3
    <3>3. QED
      BY <1>4, <3>1, <3>2
  <2>4. QED
    BY <2>2, <2>3
<1>13. QED
  BY <1>5, <1>6, <1>7, <1>9, <1>10, <1>11, <1>12 DEF HostInv

\* A terminated runtime refuses.
LEMMA RejectKeepsInv ==
  ASSUME HostInv, NEW r \in Runtimes, Reject(r)
  PROVE  HostInv'
<1> USE DEF registryVars, guestVars, callVars
<1>1. /\ host' \in HostType /\ failed' \subseteq Tokens
      /\ tokens' = tokens /\ detached' = detached /\ forgotten' = forgotten
      /\ HostShape' /\ RegistrySound' /\ EntriesFresh' /\ HistorySound'
      /\ ThreadCallsExposed'
      /\ TokensIn(host'.entries) = {} /\ failed' = failed \cup TokensIn(host.entries)
  BY RaiseKeepsAccounts DEF Reject
<1>2. NamesPlaced' /\ NamesLead'
  BY <1>1, NamesStay DEF Reject
<1>3. TypeOK'
  <2>1. TypeButHost'
    BY <1>1, TypeSplits DEF Reject, HostInv, TypeButHost
  <2>2. QED
    BY <1>1, <2>1, TypeSplits DEF TypeOK, TypeButHost, HostType, Todos, Entries
<1>4. QED
  BY <1>1, <1>2, <1>3 DEF HostInv

-----------------------------------------------------------------------------
(* Steps beside the host's call.                                           *)

\* A step that leaves the registry and the host's call alone, and changes a name
\* only by taking it from the host.
LEMMA BesidesKeepsInv ==
  ASSUME HostInv, TypeOK', ThreadCallsExposed',
         UNCHANGED <<handlers, exposed, drawn, host, failed, revoked>>,
         \A r \in Runtimes, s \in Slots :
           bound'[r][s] # NoToken => bound'[r][s] = bound[r][s] /\ scope'[r][s] = scope[r][s]
  PROVE  HostInv'
<1>1. HostShape' /\ RegistrySound' /\ EntriesFresh' /\ HistorySound'
  BY DEF HostInv, HostShape, RegistrySound, EntriesFresh, HistorySound, Registered
<1>2. NamesPlaced'
  BY DEF HostInv, NamesPlaced
<1>3. NamesLead'
  BY DEF HostInv, NamesLead, Current
<1>4. QED
  BY <1>1, <1>2, <1>3 DEF HostInv

\* JavaScript, coroutines, a termination, the budget.
LEMMA OthersKeepInv ==
  ASSUME HostInv, NEW r \in Runtimes,
         \/ DetachNothing(r) \/ ResetBudget \/ Terminate(r) \/ RunCallable(r)
         \/ \E s \in Slots : Seal(r, s) \/ Replace(r, s)
         \/ \E t \in Tokens : GuestCalls(r, t)
         \/ \E f \in AsyncTools : RunCoroutine(r, f)
  PROVE  HostInv'
<1> USE DEF registryVars, guestVars, callVars, bridgeVars, historyVars
<1>1. TypeOK /\ ThreadCallsExposed /\ calls \in 0..MaxCalls /\ MaxCalls \in Nat
  BY HostOpsAssumption DEF HostInv, TypeOK
<1>2. \A f : Spend(f) => calls' \in 0..MaxCalls
  BY <1>1 DEF Spend
<1>3. CASE DetachNothing(r)
  <2>1. TypeOK'
    BY <1>1, <1>3 DEF DetachNothing, TypeOK
  <2>2. QED
    BY <1>1, <1>3, <2>1, BesidesKeepsInv DEF DetachNothing, ThreadCallsExposed
<1>4. CASE ResetBudget
  <2>1. TypeOK'
    BY <1>1, <1>4 DEF ResetBudget, TypeOK
  <2>2. QED
    BY <1>1, <1>4, <2>1, BesidesKeepsInv DEF ResetBudget, ThreadCallsExposed
<1>5. CASE Terminate(r)
  <2>1. TypeOK'
    BY <1>1, <1>5 DEF Terminate, TypeOK
  <2>2. QED
    BY <1>1, <1>5, <2>1, BesidesKeepsInv DEF Terminate, ThreadCallsExposed
<1>6. CASE RunCallable(r)
  <2>1. TypeOK'
    <3>1. coroutines' \in [Runtimes -> SUBSET AsyncTools]
      <4> DEFINE f == handlers[r][thread[r]]
      <4>1. \/ f \in AsyncTools /\ coroutines' = [coroutines EXCEPT ![r] = @ \cup {f}]
            \/ coroutines' = coroutines
        BY <1>6 DEF RunCallable
      <4>2. coroutines \in [Runtimes -> SUBSET AsyncTools]
        BY <1>1 DEF TypeOK
      <4>3. f \in AsyncTools => coroutines[r] \cup {f} \in SUBSET AsyncTools
        BY <4>2
      <4> HIDE DEF f
      <4>4. QED
        BY <4>1, <4>2, <4>3
    <3>2. calls' \in 0..MaxCalls
      BY <1>1, <1>2, <1>6 DEF RunCallable
    <3>3. thread' \in [Runtimes -> Tokens \cup {NoToken}]
      BY <1>1, <1>6 DEF RunCallable, TypeOK
    <3>4. QED
      BY <1>1, <1>6, <3>1, <3>2, <3>3 DEF RunCallable, TypeOK
  <2>2. ThreadCallsExposed'
    BY <1>1, <1>6 DEF RunCallable, ThreadCallsExposed, TypeOK
  <2>3. QED
    BY <1>6, <2>1, <2>2, BesidesKeepsInv DEF RunCallable
<1>7. ASSUME NEW s \in Slots, Seal(r, s) PROVE HostInv'
  <2>1. TypeOK'
    BY <1>1, <1>7 DEF Seal, TypeOK
  <2>2. QED
    BY <1>1, <1>7, <2>1, BesidesKeepsInv DEF Seal, ThreadCallsExposed
<1>8. ASSUME NEW t \in Tokens, GuestCalls(r, t) PROVE HostInv'
  <2>1. TypeOK'
    BY <1>1, <1>8 DEF GuestCalls, TypeOK
  <2>2. ThreadCallsExposed'
    BY <1>1, <1>8 DEF GuestCalls, GetExposed, ThreadCallsExposed, TypeOK
  <2>3. QED
    BY <1>8, <2>1, <2>2, BesidesKeepsInv DEF GuestCalls
<1>9. ASSUME NEW f \in AsyncTools, RunCoroutine(r, f) PROVE HostInv'
  <2>1. TypeOK'
    BY <1>1, <1>2, <1>9 DEF RunCoroutine, TypeOK
  <2>2. QED
    BY <1>1, <1>9, <2>1, BesidesKeepsInv DEF RunCoroutine, ThreadCallsExposed
<1>10. ASSUME NEW s \in Slots, Replace(r, s) PROVE HostInv'
  <2>1. /\ scope \in [Runtimes -> [Slots -> Tokens \cup {NoToken}]]
        /\ bound \in [Runtimes -> [Slots -> Tokens \cup {NoToken}]]
        /\ scope' = [scope EXCEPT ![r][s] = NoToken]
        /\ bound' = [bound EXCEPT ![r][s] = NoToken]
    BY <1>1, <1>10 DEF Replace, TypeOK
  <2>2. /\ scope' \in [Runtimes -> [Slots -> Tokens \cup {NoToken}]]
        /\ bound' \in [Runtimes -> [Slots -> Tokens \cup {NoToken}]]
        /\ \A q \in Runtimes, u \in Slots :
             bound'[q][u] # NoToken =>
               bound'[q][u] = bound[q][u] /\ scope'[q][u] = scope[q][u]
    <3>1. /\ [scope[r] EXCEPT ![s] = NoToken] \in [Slots -> Tokens \cup {NoToken}]
          /\ [bound[r] EXCEPT ![s] = NoToken] \in [Slots -> Tokens \cup {NoToken}]
      BY <2>1
    <3>2. QED
      BY <2>1, <3>1
  <2>3. TypeOK'
    BY <1>1, <1>10, <2>2 DEF Replace, TypeOK
  <2>4. QED
    BY <1>1, <1>10, <2>2, <2>3, BesidesKeepsInv DEF Replace, ThreadCallsExposed
<1>11. QED
  BY <1>3, <1>4, <1>5, <1>6, <1>7, <1>8, <1>9, <1>10

-----------------------------------------------------------------------------
(* The theorems.                                                           *)

\* Nothing is registered and the host is idle.
LEMMA InvInit == Init => HostInv
<1> SUFFICES ASSUME Init PROVE HostInv
  OBVIOUS
<1>1. host \in HostType /\ host.entries = <<>> /\ host.cmd = "none" /\ host.op = "none"
  BY IdleShape DEF Init
<1>2. TypeOK
  BY <1>1, HostOpsAssumption DEF Init, TypeOK, HostType, Todos, Entries
<1>3. HostShape /\ EntriesFresh
  BY <1>1 DEF HostShape, Binding, EntriesFresh, TokensIn
<1>4. /\ RegistrySound /\ HistorySound /\ ThreadCallsExposed
      /\ NamesPlaced /\ NamesLead
  BY DEF Init, RegistrySound, HistorySound, ThreadCallsExposed, NamesPlaced,
         NamesLead, Current, Registered
<1>5. QED
  BY <1>2, <1>3, <1>4 DEF HostInv

\* Every step keeps the invariant.
LEMMA InvStep == HostInv /\ [Next]_vars => HostInv'
<1> SUFFICES ASSUME HostInv, [Next]_vars PROVE HostInv'
  OBVIOUS
<1>1. CASE HostStep
  BY <1>1, HostCallsKeepInv, OthersKeepInv, ConvertKeepsInv, HostOpsAssumption
  DEF HostStep
<1>2. CASE ThreadStep
  BY <1>2, RegisterKeepsInv, ScriptKeepsInv, ExposeKeepsInv, InstallKeepsInv,
     RevokeKeepsInv, RejectKeepsInv, OthersKeepInv DEF ThreadStep
<1>3. CASE UNCHANGED vars
  <2>1. TypeOK' /\ ThreadCallsExposed'
    BY <1>3 DEF vars, registryVars, guestVars, callVars, bridgeVars, historyVars,
                HostInv, TypeOK, ThreadCallsExposed
  <2>2. QED
    BY <1>3, <2>1, BesidesKeepsInv DEF vars, registryVars, guestVars, callVars,
                                       bridgeVars, historyVars
<1>4. QED
  BY <1>1, <1>2, <1>3 DEF Next

\* What the host waits for fits what it called; a token is registered in one
\* runtime only; nothing with a failed or revoked past is exposed; and a name that
\* JavaScript has not assigned or deleted since holds what the host put there,
\* which is exposed once the binding is done (PythonOpRegistry, the bind paths).
THEOREM HostInvariant == Spec => []HostInv
<1>1. Init => HostInv
  BY InvInit
<1>2. HostInv /\ [Next]_vars => HostInv'
  BY InvStep
<1>3. QED
  BY <1>1, <1>2, PTL DEF Spec

\* Every variable keeps its type, and no more calls are charged than the budget
\* allows (ToolBridge._spend).
THEOREM TypeCorrect == Spec => []TypeOK
<1>1. HostInv => TypeOK
  BY DEF HostInv
<1>2. QED
  BY <1>1, HostInvariant, PTL

\* What JavaScript can call was bound by a call that succeeded, and has not been
\* revoked (PythonOpRegistry::expose, revoke).
THEOREM OnlyBoundIsCallable == Spec => []CallableIsBound
<1>1. HostInv => CallableIsBound
  BY DEF HostInv, HistorySound, ThreadCallsExposed, CallableIsBound
<1>2. QED
  BY <1>1, HostInvariant, PTL

\* A bound name leads to the callable that it was last bound to, and that is
\* callable, until it is revoked or JavaScript assigns or deletes the name; only a
\* name that JavaScript had locked beforehand is excused (bind_function,
\* bind_object).
THEOREM NamesWork == Spec => []BoundNameWorks
<1>1. HostInv => BoundNameWorks
  BY DEF HostInv, NamesPlaced, NamesLead, Current, RegistrySound, BoundNameWorks,
         GetExposed, Registered
<1>2. QED
  BY <1>1, HostInvariant, PTL

-----------------------------------------------------------------------------
(* A bridge and its runtimes.  The bridge forgets the tokens of all of them *)
(* when it is detached from one (python/peno/_tools.py:328).                *)

\* A callable of the bridge; what the host has to bind.
Bridged(r, t) == handlers[r][t] \in BridgeTools
HostTodos == Seq([slot : Slots, tool : HostTools \cup {Value}])

\* The bridge's tokens that are exposed are those that it remembers or forgot.
Remembered ==
  \A r \in Runtimes : \A t \in exposed[r] : Bridged(r, t) => t \in tokens \cup forgotten

\* DetachRevokes, with Bridged.
DetachedHasNone ==
  \A r \in detached : \A t \in exposed[r] : Bridged(r, t) => t \in forgotten

\* A bridge that is binding is not detached from that runtime.
BinderAttached ==
  host.by = "bridge" /\ host.cmd # "revoke" => host.rt \notin detached

\* The host binds no callable of the bridge.
HostBindsOwn ==
  host.by = "host" =>
    host.todo \in HostTodos /\ \A t \in TokensIn(host.entries) : ~Bridged(host.rt, t)

\* What a detach has gone through is not exposed any more.
DetachGoesThrough ==
  host.by = "bridge" /\ host.cmd = "revoke" =>
    \A t \in exposed[host.rt] : Bridged(host.rt, t) => t \in host.revoking \cup forgotten

\* A bridge whose call is done waits for nothing.
IdleIsHost == host.cmd = "none" => host.by = "host"

BridgeInv ==
  /\ Remembered /\ DetachedHasNone /\ BinderAttached /\ HostBindsOwn
  /\ DetachGoesThrough /\ IdleIsHost

\* An idle host is no bridge.
LEMMA IdleBinds ==
  /\ Idle.by = "host" /\ Idle.todo \in HostTodos /\ TokensIn(Idle.entries) = {}
<1>1. <<>> \in HostTodos
  BY EmptySeq DEF HostTodos
<1>2. QED
  BY <1>1 DEF Idle, TokensIn

\* A step that leaves the registry, the bridge and the host's call alone.
LEMMA BridgeKept ==
  ASSUME BridgeInv, UNCHANGED <<handlers, exposed, tokens, forgotten, detached, host>>
  PROVE  BridgeInv'
BY DEF BridgeInv, Remembered, DetachedHasNone, BinderAttached, HostBindsOwn,
      DetachGoesThrough, IdleIsHost, Bridged

\* A call that raises.
LEMMA BridgeRaised ==
  ASSUME BridgeInv, Raise, UNCHANGED <<handlers, exposed>>
  PROVE  BridgeInv'
<1>1. /\ host' = Idle /\ UNCHANGED <<tokens, forgotten, detached>>
      /\ host'.by = "host" /\ host'.todo \in HostTodos /\ TokensIn(host'.entries) = {}
  BY IdleBinds DEF Raise
<1>2. QED
  BY <1>1
  DEF BridgeInv, Remembered, DetachedHasNone, BinderAttached, HostBindsOwn,
      DetachGoesThrough, IdleIsHost, Bridged

\* What the host may ask for, and what it does to the bridge.
LEMMA BridgeCalls ==
  ASSUME HostInv, BridgeInv, NEW r \in Runtimes,
         \/ Attach(r) \/ Detach(r)
         \/ \E dict \in Dicts : BindObject(r, dict)
         \/ \E t \in Tokens : RevokeOp(r, t)
         \/ \E s \in Slots, f \in HostTools : RegisterOp(r, s, f) \/ BindFunction(r, s, f)
  PROVE  BridgeInv'
<1> USE DEF registryVars, bridgeVars
<1>1. ASSUME NEW op, NEW cmd, NEW todo \in HostTodos, NEW revoking,
             Calls("host", op, r, cmd, todo, revoking), detached' = detached
      PROVE  BridgeInv'
  <2>1. /\ host'.by = "host" /\ host'.todo = todo /\ TokensIn(host'.entries) = {}
        /\ UNCHANGED <<handlers, exposed, tokens, forgotten>>
    BY <1>1 DEF Calls, TokensIn
  <2>2. QED
    BY <1>1, <2>1
    DEF BridgeInv, Remembered, DetachedHasNone, BinderAttached, HostBindsOwn,
      DetachGoesThrough, IdleIsHost, Bridged
<1>2. CASE Attach(r)
  <2>1. /\ host'.by = "bridge" /\ host'.cmd = "register" /\ host'.rt = r
        /\ detached' = detached \ {r}
        /\ UNCHANGED <<handlers, exposed, tokens, forgotten>>
    BY <1>2 DEF Attach, Calls
  <2>2. QED
    BY <2>1
    DEF BridgeInv, Remembered, DetachedHasNone, BinderAttached, HostBindsOwn,
      DetachGoesThrough, IdleIsHost, Bridged
<1>3. CASE Detach(r)
  <2>1. /\ host'.by = "bridge" /\ host'.cmd = "revoke" /\ host'.rt = r
        /\ host'.revoking = tokens
        /\ UNCHANGED <<handlers, exposed, tokens, forgotten, detached>>
    BY <1>3 DEF Detach, Calls
  <2>2. QED
    BY <2>1
    DEF BridgeInv, Remembered, DetachedHasNone, BinderAttached, HostBindsOwn,
      DetachGoesThrough, IdleIsHost, Bridged
<1>4. ASSUME NEW dict \in Dicts, BindObject(r, dict) PROVE BridgeInv'
  <2>1. dict \in HostTodos
    BY HostOpsAssumption DEF HostTodos
  <2>2. QED
    BY <1>1, <1>4, <2>1 DEF BindObject
<1>5. ASSUME NEW t \in Tokens, RevokeOp(r, t) PROVE BridgeInv'
  <2>1. <<>> \in HostTodos
    BY EmptySeq DEF HostTodos
  <2>2. QED
    BY <1>1, <1>5, <2>1 DEF RevokeOp
<1>6. ASSUME NEW s \in Slots, NEW f \in HostTools, RegisterOp(r, s, f) \/ BindFunction(r, s, f)
      PROVE  BridgeInv'
  <2>1. <<[slot |-> s, tool |-> f]>> \in HostTodos
    BY DEF HostTodos
  <2>2. QED
    BY <1>1, <1>6, <2>1 DEF RegisterOp, BindFunction
<1>7. QED
  BY <1>2, <1>3, <1>4, <1>5, <1>6

\* What is registered was not exposed, and is the caller's own.
LEMMA BridgeRegisters ==
  ASSUME HostInv, BridgeInv, NEW r \in Runtimes, HandleRegister(r)
  PROVE  BridgeInv'
<1> USE DEF bridgeVars, historyVars
<1> DEFINE next == Head(host.todo)
<1>1. PICK t \in Tokens :
        /\ Register(r, t, next.tool)
        /\ host' = [host EXCEPT
             !.todo = Tail(@),
             !.entries = Append(@, [slot |-> next.slot, token |-> t]),
             !.cmd = CASE host.op = "register_op" -> "expose"
                       [] host.op = "bind_function" -> "script"
                       [] OTHER -> NextOf(Tail(host.todo))]
  BY DEF HandleRegister
<1>2. /\ host \in HostType /\ host.rt = r /\ host.todo # <<>>
  BY TypeSplits DEF HandleRegister, Handles, HostInv, HostShape
<1>3. /\ t \notin drawn /\ exposed' = exposed
      /\ \A q \in Runtimes, u \in Tokens :
           handlers'[q][u] = IF q = r /\ u = t THEN next.tool ELSE handlers[q][u]
      /\ UNCHANGED <<tokens, forgotten, detached>>
  BY <1>1 DEF Register, HostInv, TypeOK, HandleRegister
<1>4. /\ \A q \in Runtimes : t \notin exposed[q] /\ exposed[q] \subseteq Tokens
      /\ TokensIn(host.entries) \subseteq Tokens \ {t}
  BY <1>2, <1>3, HostFields DEF HostInv, RegistrySound, EntriesFresh, TypeOK
<1>5. \A q \in Runtimes : \A u \in exposed[q] : Bridged(q, u)' <=> Bridged(q, u)
  BY <1>3, <1>4 DEF Bridged
<1>6. /\ next.slot \in Slots /\ t # NoToken /\ Tail(host.todo) \in Todos
  <2>1. /\ Tail(host.todo) \in Todos
        /\ next \in [slot : Slots, tool : Tools \cup {Value}]
    BY <1>2, HeadTailProperties DEF HostType, Todos
  <2>2. QED
    BY <2>1, HostOpsAssumption
<1> DEFINE entry == [slot |-> next.slot, token |-> t]
<1>7. /\ Append(host.entries, entry) \in Entries
      /\ TokensIn(Append(host.entries, entry)) = TokensIn(host.entries) \cup {t}
  <2>1. entry \in [slot : Slots, token : Tokens \cup {NoToken}] /\ entry.token = t
    BY <1>6
  <2>2. QED
    BY <1>2, <1>6, <2>1, AppendedTokens DEF HostType
<1>8. /\ host'.by = host.by /\ host'.rt = r /\ host'.todo = Tail(host.todo)
      /\ TokensIn(host'.entries) = TokensIn(host.entries) \cup {t}
      /\ host'.cmd \notin {"none", "revoke"}
  <2>1. NextOf(Tail(host.todo)) \notin {"none", "revoke"}
    BY <1>6, NextOfIsReady
  <2>2. QED
    BY <1>1, <1>2, <1>7, <2>1 DEF HostType
<1>9. Remembered' /\ DetachedHasNone'
  <2>1. detached \subseteq Runtimes
    BY DEF HostInv, TypeOK
  <2>2. QED
    BY <1>3, <1>5, <2>1 DEF BridgeInv, Remembered, DetachedHasNone
<1>10. BinderAttached'
  <2>1. host.cmd # "revoke"
    BY DEF HandleRegister, Handles
  <2>2. QED
    BY <1>2, <1>3, <1>8, <2>1 DEF BridgeInv, BinderAttached
<1>11. HostBindsOwn'
  <2> SUFFICES ASSUME host.by = "host"
               PROVE  /\ host'.todo \in HostTodos
                      /\ \A u \in TokensIn(host'.entries) : ~Bridged(r, u)'
    BY <1>8 DEF HostBindsOwn
  <2>1. /\ Tail(host.todo) \in HostTodos /\ next \in [slot : Slots, tool : HostTools \cup {Value}]
    BY <1>2, HeadTailProperties DEF BridgeInv, HostBindsOwn, HostTodos
  <2>2. next.tool \notin BridgeTools
    BY <2>1, HostOpsAssumption DEF Tools
  <2>3. \A u \in TokensIn(host.entries) : handlers[r][u] \notin BridgeTools
    BY <1>2 DEF BridgeInv, HostBindsOwn, Bridged
  <2>4. \A u \in TokensIn(host.entries) \cup {t} : handlers'[r][u] \notin BridgeTools
    BY <1>3, <1>4, <2>2, <2>3
  <2>5. QED
    BY <1>8, <2>1, <2>4 DEF Bridged
<1>12. DetachGoesThrough' /\ IdleIsHost'
  BY <1>8 DEF DetachGoesThrough, IdleIsHost
<1>13. QED
  BY <1>9, <1>10, <1>11, <1>12 DEF BridgeInv

\* A value of a dict is converted, or the call raises.
LEMMA BridgeConverts ==
  ASSUME HostInv, BridgeInv, ConvertValue
  PROVE  BridgeInv'
<1> USE DEF registryVars
<1>1. CASE Raise
  BY <1>1, BridgeRaised DEF ConvertValue
<1>2. CASE ~Raise
  <2> DEFINE entry == [slot |-> Head(host.todo).slot, token |-> NoToken]
  <2>1. /\ host \in HostType /\ host.cmd = "convert" /\ host.todo # <<>>
        /\ host' = [host EXCEPT !.todo = Tail(@), !.entries = Append(@, entry),
                                !.cmd = NextOf(Tail(host.todo))]
        /\ UNCHANGED <<handlers, exposed, tokens, forgotten, detached>>
    BY <1>2, TypeSplits DEF ConvertValue, HostInv, HostShape
  <2>2. /\ Tail(host.todo) \in Todos
        /\ Head(host.todo) \in [slot : Slots, tool : Tools \cup {Value}]
        /\ host.todo \in HostTodos => Tail(host.todo) \in HostTodos
    BY <2>1, HeadTailProperties DEF HostType, Todos, HostTodos
  <2>3. TokensIn(Append(host.entries, entry)) = TokensIn(host.entries)
    <3>1. /\ entry \in [slot : Slots, token : Tokens \cup {NoToken}]
          /\ entry.token = NoToken /\ host.entries \in Entries
      BY <2>1, <2>2 DEF HostType
    <3>2. TokensIn(Append(host.entries, entry))
            = TokensIn(host.entries) \cup ({entry.token} \ {NoToken})
      BY <3>1, AppendedTokens
    <3>3. QED
      BY <3>1, <3>2
  <2>4. /\ host'.by = host.by /\ host'.rt = host.rt /\ host'.todo = Tail(host.todo)
        /\ TokensIn(host'.entries) = TokensIn(host.entries)
        /\ host'.cmd \notin {"none", "revoke"}
    <3>1. NextOf(Tail(host.todo)) \notin {"none", "revoke"}
      BY <2>2, NextOfIsReady
    <3>2. QED
      BY <2>1, <2>3, <3>1 DEF HostType
  <2>5. QED
    BY <2>1, <2>2, <2>4
    DEF BridgeInv, Remembered, DetachedHasNone, BinderAttached, HostBindsOwn,
      DetachGoesThrough, IdleIsHost, Bridged
<1>3. QED
  BY <1>1, <1>2

\* The tokens of a binding are exposed, and the bridge remembers its own.
LEMMA BridgeExposes ==
  ASSUME HostInv, BridgeInv, NEW r \in Runtimes, host.rt = r,
         host.cmd \notin {"none", "revoke"},
         Expose(r, TokensIn(host.entries)), Bound(TokensIn(host.entries))
  PROVE  BridgeInv'
<1> DEFINE ts == TokensIn(host.entries)
<1>1. /\ UNCHANGED <<handlers, forgotten, detached>> /\ detached \subseteq Runtimes
      /\ tokens' = IF host.by = "bridge" THEN tokens \cup ts ELSE tokens
      /\ \A q \in Runtimes : exposed'[q] \subseteq exposed[q] \cup (IF q = r THEN ts ELSE {})
  BY DEF Expose, Bound, HostInv, TypeOK
<1>2. ASSUME NEW q \in Runtimes, NEW t \in exposed'[q], Bridged(q, t), t \notin exposed[q]
      PROVE  q = r /\ t \in ts /\ host.by = "bridge"
  <2>1. q = r /\ t \in ts
    BY <1>1, <1>2
  <2>2. host.by # "host"
    BY <1>2, <2>1 DEF BridgeInv, HostBindsOwn
  <2>3. QED
    BY <2>1, <2>2, HostFields DEF HostInv
<1>3. \A q \in Runtimes : \A t \in exposed'[q] : Bridged(q, t) => t \in tokens' \cup forgotten
  BY <1>1, <1>2 DEF BridgeInv, Remembered
<1>4. Remembered'
  BY <1>1, <1>3 DEF Remembered, Bridged
<1>5. \A q \in detached : \A t \in exposed'[q] : Bridged(q, t) => t \in forgotten
  BY <1>1, <1>2 DEF BridgeInv, DetachedHasNone, BinderAttached
<1>6. DetachedHasNone'
  BY <1>1, <1>5 DEF DetachedHasNone, Bridged
<1>7. CASE host.todo = <<>>
  <2>1. /\ host' = Idle /\ host'.by = "host" /\ host'.todo \in HostTodos
        /\ TokensIn(host'.entries) = {}
    BY <1>7, IdleBinds DEF Bound
  <2>2. QED
    BY <1>4, <1>6, <2>1
    DEF BridgeInv, BinderAttached, HostBindsOwn, DetachGoesThrough, IdleIsHost
<1>8. CASE host.todo # <<>>
  <2>1. host \in HostType /\ host' = [host EXCEPT !.cmd = "register", !.entries = <<>>]
    BY <1>8, TypeSplits DEF Bound, HostInv
  <2>2. /\ host'.by = host.by /\ host'.cmd = "register" /\ host'.todo = host.todo
        /\ host'.rt = host.rt /\ TokensIn(host'.entries) = {}
    BY <2>1 DEF HostType, TokensIn
  <2>3. QED
    BY <1>1, <1>4, <1>6, <2>2
    DEF BridgeInv, BinderAttached, HostBindsOwn, DetachGoesThrough, IdleIsHost
<1>9. QED
  BY <1>7, <1>8

\* A token is revoked; the last one of a detach ends it, and the bridge forgets
\* what it has elsewhere.
LEMMA BridgeRevokes ==
  ASSUME HostInv, BridgeInv, NEW r \in Runtimes, HandleRevoke(r)
  PROVE  BridgeInv'
<1>1. PICK t \in host.revoking :
        /\ Revoke(r, t)
        /\ IF host.revoking # {t}
           THEN /\ host' = [host EXCEPT !.revoking = @ \ {t}]
                /\ UNCHANGED <<tokens, forgotten, detached>>
           ELSE /\ host' = Idle
                /\ IF host.by = "bridge"
                   THEN /\ tokens' = {} /\ detached' = detached \cup {r}
                        /\ forgotten' = forgotten \cup ExposedBesides(r)
                   ELSE UNCHANGED <<tokens, forgotten, detached>>
  BY DEF HandleRevoke
<1>2. /\ host \in HostType /\ host.rt = r /\ host.cmd = "revoke" /\ t \in Tokens
      /\ detached \subseteq Runtimes
  BY <1>1, TypeSplits, HostFields DEF HandleRevoke, Handles, HostInv, TypeOK
<1>3. /\ \A q \in Runtimes : exposed'[q] = IF q = r THEN exposed[q] \ {t} ELSE exposed[q]
      /\ \A q \in Runtimes, u \in Tokens :
           handlers'[q][u] = IF q = r /\ u = t THEN NoTool ELSE handlers[q][u]
  BY <1>1, <1>2 DEF Revoke, HostInv, TypeOK
<1>4. \A q \in Runtimes : \A u \in exposed'[q] :
        u \in exposed[q] /\ u \in Tokens /\ (Bridged(q, u)' <=> Bridged(q, u))
        /\ (q = r => u # t)
  <2>1. \A q \in Runtimes : \A u \in exposed'[q] :
          u \in exposed[q] /\ u \in Tokens /\ (q = r => u # t)
    <3>1. \A q \in Runtimes : exposed[q] \subseteq Tokens
      BY DEF HostInv, TypeOK
    <3>2. QED
      BY <1>3, <3>1
  <2>2. \A q \in Runtimes : \A u \in exposed'[q] : handlers'[q][u] = handlers[q][u]
    BY <1>3, <2>1
  <2>3. QED
    BY <2>1, <2>2 DEF Bridged
<1>5. /\ host.by \in {"host", "bridge"} /\ TokensIn(host.entries) = {}
  BY <1>2, HostFields DEF HostInv, HostShape, TokensIn
<1>6. CASE host.revoking # {t}
  <2>1. /\ host'.by = host.by /\ host'.cmd = "revoke" /\ host'.rt = r
        /\ host'.todo = host.todo /\ host'.revoking = host.revoking \ {t}
        /\ host'.entries = host.entries /\ UNCHANGED <<tokens, forgotten, detached>>
    BY <1>1, <1>2, <1>6 DEF HostType
  <2>2. Remembered' /\ DetachedHasNone' /\ BinderAttached'
    BY <1>2, <1>4, <2>1 DEF BridgeInv, Remembered, DetachedHasNone, BinderAttached
  <2>3. HostBindsOwn'
    BY <1>5, <2>1 DEF BridgeInv, HostBindsOwn
  <2>4. DetachGoesThrough' /\ IdleIsHost'
    BY <1>2, <1>4, <2>1 DEF BridgeInv, DetachGoesThrough, IdleIsHost
  <2>5. QED
    BY <2>2, <2>3, <2>4 DEF BridgeInv
<1>7. CASE host.revoking = {t}
  <2>1. /\ host' = Idle /\ host'.by = "host" /\ host'.todo \in HostTodos
        /\ TokensIn(host'.entries) = {}
    BY <1>1, <1>7, IdleBinds
  <2>2. BinderAttached' /\ HostBindsOwn' /\ DetachGoesThrough' /\ IdleIsHost'
    BY <2>1 DEF BinderAttached, HostBindsOwn, DetachGoesThrough, IdleIsHost
  <2>3. CASE host.by = "bridge"
    <3>1. /\ tokens' = {} /\ detached' = detached \cup {r}
          /\ forgotten' = forgotten \cup ExposedBesides(r)
      BY <1>1, <1>7, <2>3
    <3>2. \A q \in Runtimes : \A u \in exposed'[q] : Bridged(q, u)' => u \in forgotten'
      <4> SUFFICES ASSUME NEW q \in Runtimes, NEW u \in exposed'[q], Bridged(q, u)'
                   PROVE  u \in forgotten'
        OBVIOUS
      <4>1. u \in exposed[q] /\ Bridged(q, u)
        BY <1>4
      <4>2. CASE q = r
        BY <1>2, <1>4, <1>7, <2>3, <3>1, <4>1, <4>2 DEF BridgeInv, DetachGoesThrough
      <4>3. CASE q # r
        BY <3>1, <4>1, <4>3 DEF BridgeInv, Remembered, ExposedBesides
      <4>4. QED
        BY <4>2, <4>3
    <3>3. QED
      BY <1>2, <2>2, <3>1, <3>2 DEF BridgeInv, Remembered, DetachedHasNone
  <2>4. CASE host.by = "host"
    <3>1. UNCHANGED <<tokens, forgotten, detached>>
      BY <1>1, <1>7, <2>4
    <3>2. QED
      BY <1>2, <1>4, <2>2, <3>1 DEF BridgeInv, Remembered, DetachedHasNone
  <2>5. QED
    BY <1>5, <2>3, <2>4
<1>8. QED
  BY <1>6, <1>7

\* The script, the install and the single exposure of a binding.
LEMMA BindingKeepsBridge ==
  ASSUME HostInv, BridgeInv, NEW r \in Runtimes,
         HandleScript(r) \/ HandleExpose(r) \/ HandleInstall(r)
  PROVE  BridgeInv'
<1> USE DEF registryVars
<1>1. CASE HandleScript(r)
  <2>1. UNCHANGED <<handlers, exposed>>
    BY <1>1 DEF HandleScript
  <2>2. CASE Raise
    BY <2>1, <2>2, BridgeRaised
  <2>3. CASE ~Raise
    <3>1. /\ host \in HostType /\ host.cmd = "script"
          /\ host' = [host EXCEPT !.cmd = "expose"]
          /\ UNCHANGED <<tokens, forgotten, detached>>
      BY <1>1, <2>3, TypeSplits DEF HandleScript, Handles, HostInv
    <3>2. /\ host'.by = host.by /\ host'.cmd = "expose" /\ host'.rt = host.rt
          /\ host'.todo = host.todo /\ host'.entries = host.entries
      BY <3>1 DEF HostType
    <3>3. QED
      BY <2>1, <3>1, <3>2
      DEF BridgeInv, Remembered, DetachedHasNone, BinderAttached, HostBindsOwn,
      DetachGoesThrough, IdleIsHost, Bridged
  <2>4. QED
    BY <2>2, <2>3
<1>2. CASE HandleExpose(r)
  <2>1. host.cmd = "expose" /\ host.rt = r
    BY <1>2 DEF HandleExpose, Handles
  <2>2. TokensIn(host.entries) = {host.entries[1].token}
    BY <2>1, SingleEntry
  <2>3. Expose(r, {host.entries[1].token}) /\ Bound({host.entries[1].token})
    BY <1>2 DEF HandleExpose
  <2>4. Expose(r, TokensIn(host.entries)) /\ Bound(TokensIn(host.entries))
    BY <2>2, <2>3
  <2>5. QED
    BY <2>1, <2>4, BridgeExposes
<1>3. CASE HandleInstall(r)
  <2>1. host.cmd = "install" /\ host.rt = r
    BY <1>3 DEF HandleInstall, Handles
  <2>2. \/ Expose(r, TokensIn(host.entries)) /\ Bound(TokensIn(host.entries))
        \/ Raise /\ UNCHANGED <<handlers, exposed>>
    BY <1>3 DEF HandleInstall
  <2>3. QED
    BY <2>1, <2>2, BridgeExposes, BridgeRaised
<1>4. QED
  BY <1>1, <1>2, <1>3

LEMMA BridgeInit == Init => BridgeInv
<1> SUFFICES ASSUME Init PROVE BridgeInv
  OBVIOUS
<1>1. /\ host = Idle /\ host.by = "host" /\ host.todo \in HostTodos
      /\ TokensIn(host.entries) = {}
  BY IdleBinds DEF Init
<1>2. QED
  BY <1>1
  DEF Init, BridgeInv, Remembered, DetachedHasNone, BinderAttached, HostBindsOwn,
      DetachGoesThrough, IdleIsHost

\* Every step keeps it.
LEMMA BridgeStep ==
  ASSUME HostInv, BridgeInv, [Next]_vars
  PROVE  BridgeInv'
<1> USE DEF registryVars, guestVars, callVars, bridgeVars, historyVars
<1>1. ASSUME NEW r \in Runtimes, DetachNothing(r) PROVE BridgeInv'
  <2>1. /\ host.cmd = "none" /\ tokens = {} /\ detached' = detached \cup {r}
        /\ UNCHANGED <<handlers, exposed, host, tokens, forgotten>>
    BY <1>1 DEF DetachNothing
  <2>2. host.by = "host"
    BY <2>1 DEF BridgeInv, IdleIsHost
  <2>3. QED
    BY <2>1, <2>2
    DEF BridgeInv, Remembered, DetachedHasNone, BinderAttached, HostBindsOwn,
      DetachGoesThrough, IdleIsHost, Bridged
<1>2. CASE HostStep
  BY <1>1, <1>2, BridgeCalls, BridgeConverts, BridgeKept DEF HostStep, ResetBudget
<1>3. CASE ThreadStep
  <2> SUFFICES ASSUME NEW r \in Runtimes,
                      \/ HandleRegister(r) \/ HandleScript(r) \/ HandleExpose(r)
                      \/ HandleInstall(r) \/ HandleRevoke(r) \/ Reject(r) \/ Terminate(r)
                      \/ RunCallable(r)
                      \/ \E s \in Slots : Seal(r, s) \/ Replace(r, s)
                      \/ \E t \in Tokens : GuestCalls(r, t)
                      \/ \E f \in AsyncTools : RunCoroutine(r, f)
               PROVE  BridgeInv'
    BY <1>3 DEF ThreadStep
  <2>1. CASE HandleRegister(r)
    BY <2>1, BridgeRegisters
  <2>2. CASE HandleScript(r) \/ HandleExpose(r) \/ HandleInstall(r)
    BY <2>2, BindingKeepsBridge
  <2>3. CASE HandleRevoke(r)
    BY <2>3, BridgeRevokes
  <2>4. CASE Reject(r)
    BY <2>4, BridgeRaised DEF Reject
  <2>5. ASSUME \/ Terminate(r) \/ RunCallable(r)
               \/ \E s \in Slots : Seal(r, s) \/ Replace(r, s)
               \/ \E t \in Tokens : GuestCalls(r, t)
               \/ \E f \in AsyncTools : RunCoroutine(r, f)
        PROVE  BridgeInv'
    BY <2>5, BridgeKept DEF Terminate, RunCallable, Seal, Replace, GuestCalls, RunCoroutine
  <2>6. QED
    BY <2>1, <2>2, <2>3, <2>4, <2>5
<1>4. CASE UNCHANGED vars
  BY <1>4, BridgeKept DEF vars
<1>5. QED
  BY <1>2, <1>3, <1>4 DEF Next

\* The bridge's tools that JavaScript can call are those whose tokens the bridge
\* remembers, and that a detach goes through, or that it forgot.
THEOREM BridgeInvariant == Spec => []BridgeInv
<1>1. Init => BridgeInv
  BY BridgeInit
<1>2. HostInv /\ BridgeInv /\ [Next]_vars => BridgeInv'
  BY BridgeStep
<1>3. QED
  BY <1>1, <1>2, HostInvariant, PTL DEF Spec

\* After detach has returned, none of the bridge's tools is callable in that
\* runtime until it is attached again, also when an attach failed half-way; but
\* for those that the bridge forgot when it was detached from another runtime
\* (ToolBridge.detach).
THEOREM DetachRevokesAll == Spec => []DetachRevokes
<1>1. BridgeInv => DetachRevokes
  BY DEF BridgeInv, DetachedHasNone, DetachRevokes, Bridged
<1>2. QED
  BY <1>1, BridgeInvariant, PTL
=============================================================================
