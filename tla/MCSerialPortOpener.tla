------------------------- MODULE MCSerialPortOpener -------------------------
(* Instances of SerialPortOpener for TLC.                                    *)
EXTENDS SerialPortOpener
=============================================================================
