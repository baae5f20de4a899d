------------------------ MODULE MCOfficialActivation ------------------------
(* Two processes and two releases, over honest and faulty transitions      *)
(* between four roots: a late and an early hand-over, a fork, a wrong      *)
(* link, a wrong signer, an overlong successor.                            *)
EXTENDS OfficialActivation, TLC

CONSTANTS r0, r1, r2, r3

Key(id, from, until) == [id |-> id, from |-> from, until |-> until]

HandOver(seq, previous, digest, old, new, issued) ==
  [sequence |-> seq, previous |-> previous, digest |-> digest,
   previousKey |-> old, nextKey |-> new, issued |-> issued,
   effective |-> new.from, authorizedBy |-> old.id, acceptedBy |-> new.id]

First  == HandOver(1, NoDigest, 11, Key(r0, 0, 3), Key(r1, 2, 4), 0)
Later  == HandOver(1, NoDigest, 12, Key(r0, 0, 3), Key(r1, 3, 6), 1)
Second == HandOver(2, 11, 21, Key(r1, 2, 4), Key(r2, 4, 5), 2)
Early  == HandOver(2, 12, 22, Key(r1, 0, 6), Key(r2, 2, 6), 1)
Fork   == HandOver(2, 11, 23, Key(r1, 2, 4), Key(r3, 3, 6), 2)

MCPool ==
  {First, Later, Second, Early, Fork,
   [First EXCEPT !.authorizedBy = r2, !.digest = 13],
   [First EXCEPT !.nextKey = Key(r1, 3, 4), !.digest = 14],
   [Second EXCEPT !.previousKey = Key(r0, 0, 6), !.authorizedBy = r0, !.digest = 24],
   [Second EXCEPT !.previous = 12, !.digest = 25],
   [Second EXCEPT !.nextKey = Key(r2, 4, 11), !.digest = 26]}

Symmetry == Permutations(Processes)
=============================================================================
