----------------------------- MODULE MCTutorTurn -----------------------------
(***************************************************************************)
(* Instances of TutorTurn for TLC: few passages, short packets, and the    *)
(* settings that reach every way a turn can go.                            *)
(***************************************************************************)
EXTENDS TutorTurn

CONSTANTS p, q

Setting(writes, skip, followup, weak, reuse, clarify) ==
    [modelWrites |-> writes, maySkip |-> skip, onFollowup |-> followup,
     onWeak |-> weak, reuse |-> reuse, clarify |-> clarify]

\* The defaults of AppConfig, and the modes its switches fall back to.
Default == Setting(TRUE, TRUE, TRUE, TRUE, TRUE, TRUE)
RewriteOnWeak == Setting(FALSE, FALSE, FALSE, TRUE, TRUE, FALSE)
PlainNoReuse == Setting(FALSE, FALSE, FALSE, FALSE, FALSE, FALSE)

JustDefault == {Default}
HostSearching == {RewriteOnWeak, PlainNoReuse}

Symm == Permutations({p, q})

=============================================================================
