-------------------------- MODULE MCEquivalences --------------------------
(* Instances of Equivalences for TLC.                                      *)
EXTENDS Equivalences, TLC

CONSTANTS f1, f2, f3, k1, k2

\* One form.
One == f1 :> k1

\* Two spellings of one form, and a form that means something else.
Mixed == f1 :> k1 @@ f2 :> k1 @@ f3 :> k2

\* Two spellings collapse_written_form makes one of: «ELECTRICIDAD», «Electricidad».
Alike == f1 :> k1 @@ f2 :> k1

\* What the system comes with: nothing, or one form.
Nothing == <<>>
Third == <<f3>>

Interchangeable == Permutations(People) \cup Permutations(Products) \cup Permutations(Rubros)
==============================================================================
