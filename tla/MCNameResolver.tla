--------------------------- MODULE MCNameResolver ---------------------------
(* Instances of NameResolver: a few requests for a few names. *)
EXTENDS NameResolver, TLC

CONSTANTS r1, r2, r3, r4, hub, tracker, long

four == {r1, r2, r3, r4}
names == {hub, tracker, long}
longNames == {long}
\* Two requests for one name, one for another, one for a name that is too long.
asked == r1 :> hub @@ r2 :> hub @@ r3 :> tracker @@ r4 :> long
both == BOOLEAN
always == {TRUE}
=============================================================================
