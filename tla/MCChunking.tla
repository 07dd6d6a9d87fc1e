----------------------------- MODULE MCChunking -----------------------------
(* An instance of Chunking for TLC: paragraphs below, at and above the     *)
(* size of a chunk, and short enough to be repeated whole.                 *)
EXTENDS Chunking

MCLengths == {1, 2, 4, 6, 7, 8, 15}
=============================================================================
