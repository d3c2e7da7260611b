---------------------------- MODULE MCArchiveChain ----------------------------
(* Finite instances of ArchiveChain.                                         *)
EXTENDS ArchiveChain
=============================================================================
