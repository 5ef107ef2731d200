--------------------------- MODULE MCParseSession ---------------------------
(* Sessions over a family of small grammars and all short words.            *)
EXTENDS ParseSession, MCSessions

=============================================================================
