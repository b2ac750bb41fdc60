------------------------ MODULE MCEndpointInstructions ----------------------
(***************************************************************************)
(* Three instructions, and an agent that takes two of a listing: room for  *)
(* a listing that is old by its second file, and for one left waiting.     *)
(***************************************************************************)
EXTENDS EndpointInstructions

ThreeInstructions == 1..3
=============================================================================
