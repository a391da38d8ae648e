---------------------------- MODULE MCWebSession ----------------------------
(***************************************************************************)
(* One name, two terms, two flows that overlap and two transactions of the *)
(* wallet, so that each record can be overtaken by another one.            *)
(***************************************************************************)
EXTENDS WebSession

MCTerms == {1, 2}

=============================================================================
