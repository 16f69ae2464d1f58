----------------------------- MODULE MCWebLists -----------------------------
(* List pages for TLC: one filter, three pages of two rows.                *)
EXTENDS WebLists
CONSTANT f
=============================================================================
