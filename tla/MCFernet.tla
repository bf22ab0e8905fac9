------------------------------ MODULE MCFernet ------------------------------
(* Small instance of Fernet: timestamps of two bits, so that a time may be   *)
(* too large for a token, and a skew of one second.                          *)
EXTENDS Fernet, TLC

MCKeys == {[sign |-> "s1", enc |-> "e1"], [sign |-> "s2", enc |-> "e2"]}
MCTimes == {-1, 1, 4}
MCTTLs == {Nil, 1}
=============================================================================
