----------------------------- MODULE MCToolchain -----------------------------
(* Small instances of the compiler wrapper for TLC.                          *)
EXTENDS Toolchain

CONSTANTS h1, r1, t1

FirstBuild == [hdr |-> h1, rs |-> r1, mode |-> "stubs", tool |-> t1]
=============================================================================
