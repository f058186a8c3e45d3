------------------------------ MODULE MCFlash ------------------------------
(***************************************************************************)
(* A chip of two sectors for FlashDriver: two pages to a sector, bursts    *)
(* that do not divide a page, and calls of do_flash_write that end inside  *)
(* one.                                                                    *)
(***************************************************************************)
EXTENDS FlashDriver

HeaderEnds == <<1, 3>>
=============================================================================
