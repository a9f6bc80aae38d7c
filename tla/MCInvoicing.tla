------------------------------ MODULE MCInvoicing -----------------------------
(* Two wallets, a machine, a month. *)
EXTENDS Invoicing
=============================================================================
