--------------------------- MODULE MCHidTransport ---------------------------
(* One message of two frames and an empty one to the board, three messages *)
(* from the board.                                                         *)
EXTENDS HidTransport

Lengths == <<3, 0>>
=============================================================================
