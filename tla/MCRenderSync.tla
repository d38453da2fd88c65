---------------------------- MODULE MCRenderSync ----------------------------
(* RenderSync for TLC.                                                      *)
EXTENDS RenderSync
==============================================================================
