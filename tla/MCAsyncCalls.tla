---------------------------- MODULE MCAsyncCalls ----------------------------
(* AsyncCalls with two calls at a time.                                     *)
EXTENDS AsyncCalls, TLC

CONSTANTS a, b

MCMixes == {(a :> "module") @@ (b :> "function"),
            (a :> "promise") @@ (b :> "read")}
=============================================================================
