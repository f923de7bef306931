---------------------------- MODULE MCReceiptWait ----------------------------
(***************************************************************************)
(* ReceiptWait for TLC: two confirmations, deadlines of two time units and *)
(* enough blocks for the transaction to be included late.                  *)
(***************************************************************************)
EXTENDS ReceiptWait

=============================================================================
