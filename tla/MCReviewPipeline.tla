-------------------------- MODULE MCReviewPipeline --------------------------
(* Small instances of ReviewPipeline.                                      *)
EXTENDS ReviewPipeline, TLC

CONSTANTS r1, r2, d1, t1, t2, c1, c2, w1, w2

MCKeySame == (r1 :> d1) @@ (r2 :> d1)

MCKeyOne == r1 :> d1

DeskSymmetry == Permutations(Client) \union Permutations(Teacher)

=============================================================================
