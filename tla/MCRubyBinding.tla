---------------------------- MODULE MCRubyBinding ----------------------------
(***************************************************************************)
(* RubyBinding and HstcpcliCalls with up to six requests and two           *)
(* reconnects: enough for a pipeline of three on each of two connections   *)
(* to overlap, and for batches of three with an exception in between.      *)
(***************************************************************************)
EXTENDS RubyBinding
=============================================================================
