----------------------------- MODULE MCZimUpdate -----------------------------
(* A series held from the start and one on the wanted list. *)
EXTENDS ZimUpdate

CONSTANTS held, wanted

MCSeries == {held, wanted}
MCAtFirst == {held}
MCWanted == {wanted}
MCMonth == [r \in 1..MaxRelease |-> IF r = 3 THEN 2 ELSE r]
MCLettered == {3} \cap (1..MaxRelease)
MCListed == [f \in MCSeries \X (1..MaxRelease) |->
                IF f[1] = wanted THEN 0 ELSE IF f[2] = 2 THEN 3 ELSE 2]
MCUnhashed == {<<held, 2>>, <<wanted, 1>>}


(* Every release in a month of its own. *)
MonthOfItsOwn == [r \in 1..MaxRelease |-> r]

ExactlyListed == [f \in MCAtFirst \X (1..MaxRelease) |-> Size]
=============================================================================
