---------------------------- MODULE MCExpansion ----------------------------
(* The expansion service for model checking: two ports, of which one is    *)
(* also the log's, and one worker; see MCExpansion.cfg.                    *)
EXTENDS Expansion
=============================================================================
