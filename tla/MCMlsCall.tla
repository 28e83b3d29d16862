----------------------------- MODULE MCMlsCall -----------------------------
EXTENDS MlsCall, TLC

CONSTANTS a1, a2, b1, g1, g2

\* Two devices of one user, one of another
MCUserOf == (a1 :> "a") @@ (a2 :> "a") @@ (b1 :> "b")

\* An admission; two devices of one user, which only fit when b1 goes; a removal
MCChanges == {[add |-> {a1}, rem |-> {}], [add |-> {a1, a2}, rem |-> {}],
              [add |-> {a1, a2}, rem |-> {b1}], [add |-> {a2}, rem |-> {b1}],
              [add |-> {}, rem |-> {b1}]}

MCMaxEpoch == (g1 :> 2) @@ (g2 :> 0)
MCJoins == {<<g1, a1>>, <<g1, b1>>}
Interchangeable == Permutations(Requests)
=============================================================================
