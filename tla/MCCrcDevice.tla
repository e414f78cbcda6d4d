---------------------------- MODULE MCCrcDevice ----------------------------
(* Bytes of two bits and x^8 + x^2 + x + 1, bytes of one and x^4 + x + 1.  *)
EXTENDS CrcDevice

MCPolynomial == <<0, 0, 0, 0, 0, 1, 1, 1>>
MCShort == <<0, 0, 1, 1>>
=============================================================================
