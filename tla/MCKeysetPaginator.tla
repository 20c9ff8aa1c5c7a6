------------------------- MODULE MCKeysetPaginator --------------------------
(* Every listing over five keys, both orders, pages of one and two rows:   *)
(* at most five pages, full and short ones, and head and tail in reach.    *)
EXTENDS KeysetPaginator

MCKeys == 1..5
=============================================================================
