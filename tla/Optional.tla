-------------------------------- MODULE Optional --------------------------------
(* What an Option holds when it holds nothing. *)
CONSTANT None
=============================================================================
