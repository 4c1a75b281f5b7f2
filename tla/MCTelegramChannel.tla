------------------------- MODULE MCTelegramChannel -------------------------
(* Three updates, the second a button tap, and a live message of three texts. *)
EXTENDS TelegramChannel

MCTaps == {2}
=============================================================================
