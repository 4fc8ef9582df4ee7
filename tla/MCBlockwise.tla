---------------------------- MODULE MCBlockwise ----------------------------
(* Transfers of two and three blocks, and a resource that changes its size.*)
EXTENDS Blockwise

MCUploadSize == <<3, 2>>
MCVersionSize == <<3, 2>>
=============================================================================
