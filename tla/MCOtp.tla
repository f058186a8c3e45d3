------------------------------- MODULE MCOtp -------------------------------
(***************************************************************************)
(* An instance of Otp for TLC.                                             *)
(***************************************************************************)
EXTENDS Otp

\* The first byte, one across the end of the data area, and one behind it.
MCRequests == {<<0, 1, {0, 6}>>, <<15823, 2, {7, 9}>>, <<15824, 1, {0}>>}
=============================================================================
