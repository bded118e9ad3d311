--------------------------- MODULE MCEngineService ---------------------------
(* Task and id values for checking EngineService on small instances. *)
EXTENDS EngineService, TLC
CONSTANTS g1, g2, d1, d2, a, b

MCOne == {g1}
MCTwo == {g1, g2}
MCOneDeleter == {d1}
MCTwoDeleters == {d1, d2}
MCOneId == {a}
MCTwoIds == {a, b}
MCValid == {"valid"}
MCAccepted == {"valid", "instant"}
MCAll == {"valid", "instant", "invalid"}
=============================================================================
