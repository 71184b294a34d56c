-------------------------- MODULE MCOutputSubscriber --------------------------
(* OutputSubscriber with chunks of one or two bytes and a window of three.   *)
EXTENDS OutputSubscriber

MCChunkSizes == {1, 2}
==============================================================================
