--------------------------- MODULE MCSerialBridge ---------------------------
(* SerialBridge for TLC: clients are interchangeable.                      *)
EXTENDS SerialBridge, TLC

ClientSymmetry == Permutations(Clients)
=============================================================================
