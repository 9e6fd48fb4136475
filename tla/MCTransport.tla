---------------------------- MODULE MCTransport -----------------------------
(* Eight messages: four carry descriptors, two fill the reassembly buffer,  *)
(* and the handler of the last one rejects it.                              *)
EXTENDS Transport

MCSize == <<1, 2, 3, 2, 2, 1, 3, 1>>
MCNFds == <<0, 1, 0, 2, 1, 0, 1, 0>>
=============================================================================
