--------------------------- MODULE MCAluPrograms ---------------------------
(***************************************************************************)
(* TLC instance of AluPrograms: two registers of four bits, so a word has  *)
(* two half words, a shift count is masked to two bits, and the most       *)
(* negative word exists.                                                   *)
(***************************************************************************)
EXTENDS AluPrograms

MCSpec == ProgSpec
=============================================================================
