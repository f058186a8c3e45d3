------------------------------- MODULE MCBoot -------------------------------
(***************************************************************************)
(* Small devices for Boot.  A slot has two erase sectors of three cells;   *)
(* the images are                                                          *)
(*    large  plain, fills the slot (codes_length at its limit)             *)
(*    aes    encrypted, whole AES blocks, its digest in mid-sector         *)
(*    odd    encrypted, not whole AES blocks, leaves room behind it        *)
(***************************************************************************)
EXTENDS Boot

CONSTANTS large, aes, odd

MCLen == [m \in Image |-> CASE m = large -> 3
                            [] m = aes   -> 2
                            [] m = odd   -> 1]
=============================================================================
