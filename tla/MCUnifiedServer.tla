---------------------------- MODULE MCUnifiedServer ----------------------------
(* UnifiedServer with two sources, one of them the database.               *)
EXTENDS UnifiedServer

TwoSources == <<Web, Database>>
=============================================================================
