--------------------------- MODULE MCExportCall ----------------------------
(* ExportCall for TLC: a function of two arguments. *)
EXTENDS ExportCall

CONSTANTS p1, p2, a1, a2

MCParam == <<p1, p2>>
MCArg   == <<a1, a2>>
=============================================================================
