---------------------------- MODULE MCVoiceState ----------------------------
(* Two connections in one channel, one in another of the same server       *)
EXTENDS VoiceState, TLC
CONSTANTS a1, a2, b1, A, B
MCRoom == (a1 :> A) @@ (a2 :> A) @@ (b1 :> B)
Calmly(uses) == [uses |-> uses, janitor |-> FALSE, hurried |-> FALSE, torn |-> FALSE]

\* Three connections without removals; two in a channel or one in each with
\* the removal; readers and the sweep beside two in a channel, a torn pipeline
\* or a hurried user
MCCourses ==
    {Calmly(Conns), Calmly({a1, a2, A}), [Calmly({a1, a2, A}) EXCEPT !.janitor = TRUE]}
    \cup UNION {{Calmly({a, b1, A}),
                 [Calmly({a, A}) EXCEPT !.torn = TRUE, !.janitor = TRUE],
                 [Calmly({a, b1, A}) EXCEPT !.hurried = TRUE, !.janitor = TRUE]} : a \in {a1, a2}}
Interchangeable == Permutations({a1, a2})
=============================================================================
