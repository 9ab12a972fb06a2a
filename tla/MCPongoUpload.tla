---------------------------- MODULE MCPongoUpload ----------------------------
(* Chunks of two bytes, uploads of up to four, files of up to five: two    *)
(* full chunks, a short last one, and a file over the limit all occur.     *)
EXTENDS PongoUpload
=============================================================================
