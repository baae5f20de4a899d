----------------------------- MODULE MCAdoption -----------------------------
(* Two invocations whose recipes share a target, and a user.                *)
EXTENDS Adoption, TLC

CONSTANTS a1, a2, t1, t2, t3, d1, root, r1, v1, v2

MCAdopters == {a1, a2}
MCTargets  == {t1, t2, t3}
MCDirs     == {d1}
MCParent   == t1 :> d1 @@ t2 :> d1 @@ t3 :> root
MCRecipe   == a1 :> <<t1, t2>> @@ a2 :> <<t2, t3>>
MCOnePath  == a1 :> r1 @@ a2 :> r1
MCPayload  == a1 :> v1 @@ a2 :> v2
=============================================================================
