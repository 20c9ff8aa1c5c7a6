---------------------------- MODULE MCMirrorReads ----------------------------
(* Four rows on pages of two: two full pages, then an empty last one.       *)
EXTENDS MirrorReads
=============================================================================
