-------------------------- MODULE MCChannelRunner --------------------------
(* The constants are numbers and strings: nothing to define.                *)
EXTENDS ChannelRunner
=============================================================================
