--------------------------- MODULE MCNotifyOutbox ---------------------------
(***************************************************************************)
(* Rows, limits and the malformed payload for TLC.  The tokens are those   *)
(* of the .cfg: one for each row and one for the other worker, whose claim *)
(* may be lost already.                                                    *)
(***************************************************************************)
EXTENDS NotifyOutbox

TwoEvents == {1, 2}
OneMalformed == {2}
LimitsOneOrTwo == {1, 2}
=============================================================================
