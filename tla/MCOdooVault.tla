------------------------------ MODULE MCOdooVault ------------------------------
(***************************************************************************)
(* An instance of OdooVault for TLC: odoo_vault.cfg.                       *)
(***************************************************************************)
EXTENDS OdooVault
==============================================================================
