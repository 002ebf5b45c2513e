----------------------------- MODULE MCHostOps -----------------------------
(* HostOps on a small instance: a bridge of a synchronous and a coroutine   *)
(* tool, one callable of the host's own, bound over a name of the bridge or *)
(* in a dict together with a plain value.                                   *)
EXTENDS HostOps, TLC

CONSTANTS a, b, h, s1, s2

\* A dict of the callable and a plain value, in either order.
MCDicts == {<<[slot |-> s1, tool |-> h], [slot |-> s2, tool |-> Value]>>,
            <<[slot |-> s2, tool |-> Value], [slot |-> s1, tool |-> h]>>}
MCBridgeBindings == <<[slot |-> s1, tool |-> a], [slot |-> s2, tool |-> b]>>

\* Tokens are interchangeable.
Symmetry == Permutations(Tokens)
=============================================================================
