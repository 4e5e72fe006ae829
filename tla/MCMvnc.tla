------------------------------- MODULE MCMvnc -------------------------------
(***************************************************************************)
(* Instances of Mvnc for TLC.  The configurations give every constant a    *)
(* set of model values; inferences are interchangeable.                    *)
(***************************************************************************)
EXTENDS Mvnc, TLC

TagSymmetry == Permutations(Tag)

\* Handles are interchangeable too.
HandleSymmetry ==
    {p @@ q @@ r : p \in Permutations(Device), q \in Permutations(Graph),
                   r \in Permutations(Tag)}

\* Bound: a GetResult that times out on the graph reallocated at the address
\* of its own, or next to another GetResult, takes one off a have_data of 0,
\* and nothing stops it from counting on.
HaveDataBound == \A g \in Graph : graph[g].have_data \in -1..2
=============================================================================
