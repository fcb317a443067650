--------------------------- MODULE MCTablePolicy ----------------------------
(* A small instance of TablePolicy: the statements of SqlGrammar. *)
EXTENDS TablePolicy, SqlGrammar
=============================================================================
