----------------------------- MODULE MCMagicSet -----------------------------
(* Instances of MagicSet for TLC.                                          *)
EXTENDS MagicSet

SomeFlags == {{}, {"DEVICES"}, {"ERROR"}, {"SILENT"}}
PlainFlags == {{}, {"DEVICES"}}
=============================================================================
