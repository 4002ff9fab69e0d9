----------------------------- MODULE MCRtl8169 -----------------------------
(* Instances of Rtl8169 for TLC. *)
EXTENDS Rtl8169
=============================================================================
