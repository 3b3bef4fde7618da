---------------------------- MODULE MCSerialPort ----------------------------
(***************************************************************************)
(* Values of the constants of SerialPort for TLC: the second byte of four  *)
(* is a '\0', and buffers shorter and longer than what arrives at once.    *)
(***************************************************************************)
EXTENDS SerialPort

MCNuls == {2}

=============================================================================
