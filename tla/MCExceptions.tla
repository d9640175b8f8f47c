----------------------------- MODULE MCExceptions -----------------------------
(* Small instances of the exception boundary for TLC.                        *)
EXTENDS Exceptions

(* range_error derives from runtime_error and both from std::exception, a    *)
(* number from nothing.  The base class is listed first in one shim and in   *)
(* one landing pad, as the emitter does not forbid; the other landing pad,   *)
(* which the GCC backend compiled, lists the base class alone.               *)
CONSTANTS runtime_error, range_error, number, lookup, make, pad, gccPad

MCBases == [e \in Exc |->
  IF e = range_error THEN {runtime_error, range_error} ELSE {e}]
MCCatches == [s \in Site |-> CASE s = lookup -> <<range_error, runtime_error>>
                             [] s = make -> <<runtime_error, range_error>>
                             [] s = pad -> <<runtime_error, range_error>>
                             [] s = gccPad -> <<runtime_error>>
                             [] OTHER -> <<>>]
MCRet == [s \in Site |-> CASE s = lookup -> "scalar" [] s = make -> "self" [] OTHER -> "void"]
MCMsg == 1 .. MaxRaise
=============================================================================
