-------------------------- MODULE MCRuntimeShutdown --------------------------
(* Streams and host jobs of one run while the runtime shuts down: the      *)
(* constants are model values of the cfg.                                  *)
EXTENDS RuntimeShutdown
=============================================================================
