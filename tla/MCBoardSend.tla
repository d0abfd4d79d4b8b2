----------------------------- MODULE MCBoardSend -----------------------------
(* BoardSend for TLC.                                                      *)
EXTENDS BoardSend
=============================================================================
