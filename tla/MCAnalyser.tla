----------------------------- MODULE MCAnalyser -----------------------------
(* A small instance of Analyser: short texts, and the statements of SqlGrammar. *)
EXTENDS Analyser, SqlGrammar

ScanChars == {"apos", "tick", ";", "-", "/", "*", "esc", "nl", "sp", "x"}
=============================================================================
