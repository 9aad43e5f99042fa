------------------------------ MODULE MCFeature ------------------------------
(* Model-checking instance of Feature.                                      *)
EXTENDS Feature

CONSTANTS r1, r2

\* Requests for one rule come from outdated pages.
MCDeviation == (r1 :> 1) @@ (r2 :> 0) @@ ("default" :> 0)

\* Weights that sum to the total of 2, to less, to 2 with a negative one, and to
\* 12, which is 2 again when it wraps at 10.
MCWeightLists ==
    {<<0, 1, 1>>, <<0, 1>>, <<-1, 2, 1>>, <<4, 4, 4>>}
=============================================================================
