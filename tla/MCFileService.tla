--------------------------- MODULE MCFileService ----------------------------
(* Two calls, and the option records the code tells apart.  A transaction  *)
(* holds two bytes, a chunk one, an append two chunks: contents of two and *)
(* three bytes lie on either side of the split, the tail of four needs two *)
(* chunks, and that of five is more than the append takes.                 *)
EXTENDS FileService

CONSTANTS w1, w2, shared, nobody, alice

MCCallers == {w1, w2}

Asking(op, size, keys, payer, id) ==
    [op |-> op, size |-> size, keys |-> keys, payer |-> payer, id |-> id]

MCOptions == {Asking("create", 2, "operator", nobody, nobody),
              Asking("create", 4, "none", nobody, nobody),
              Asking("create", 4, "operator", nobody, alice),
              Asking("create", 5, "operator", alice, nobody),
              Asking("update", 0, "unchanged", nobody, nobody),
              Asking("update", 3, "unchanged", nobody, alice),
              Asking("update", 4, "none", nobody, nobody),
              Asking("update", 4, "unchanged", alice, nobody),
              Asking("update", 3, "unchanged", alice, alice),
              Asking("append", 2, "unchanged", nobody, nobody),
              Asking("delete", 0, "unchanged", nobody, nobody),
              Asking("scheduleUpdate", 2, "unchanged", nobody, nobody),
              Asking("scheduleUpdate", 3, "unchanged", nobody, nobody)}
=============================================================================
