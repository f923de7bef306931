-------------------------- MODULE MCTransferHistory --------------------------
(***************************************************************************)
(* TransferHistory for TLC: up to four transfers, pages of one or two.   *)
(***************************************************************************)
EXTENDS TransferHistory

=============================================================================
