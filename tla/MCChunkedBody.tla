--------------------------- MODULE MCChunkedBody ---------------------------
(* ChunkedBody for TLC: the constants are in the .cfg files.                *)
EXTENDS ChunkedBody
=============================================================================
