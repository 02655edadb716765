---------------------------- MODULE MCHttpServer ----------------------------
(***************************************************************************)
(* Small servers for TLC.  Descriptors, stats and names are model values;  *)
(* liveness is checked, so they are not permuted.                          *)
(***************************************************************************)
EXTENDS HttpServer
=============================================================================
