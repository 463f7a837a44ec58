----------------------------- MODULE MCFlashLog -----------------------------
(***************************************************************************)
(* Small instances of FlashLog: two sectors of four data pages, which one  *)
(* build fills with two records of two pages and the other with one record *)
(* of four.                                                                *)
(***************************************************************************)
EXTENDS FlashLog

MCKinds == {2, 3}
MCWidth == [k \in MCKinds |-> IF k = 2 THEN 2 ELSE 4]
MCSlots == [k \in MCKinds |-> IF k = 2 THEN 2 ELSE 1]
==============================================================================
