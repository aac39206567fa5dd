----------------------------- MODULE MCDenseBuild -----------------------------
(***************************************************************************)
(* Eight entries: a redirect, articles with and without a lead passage,    *)
(* in an order that ends on an article without one.                        *)
(***************************************************************************)
EXTENDS DenseBuild

MCKind == <<"lead", "skip", "lead", "lead", "bare", "lead", "lead", "bare">>

MCBatching == {<<1, 2>>, <<2, 1>>, <<2, 2>>, <<3, 1>>}

=============================================================================
