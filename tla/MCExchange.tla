------------------------------ MODULE MCExchange ------------------------------
(* Three rounds of one remote identity: two rows of mail, one per answer.   *)
EXTENDS Exchange

=============================================================================
