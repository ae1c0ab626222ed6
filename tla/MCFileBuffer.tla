----------------------------- MODULE MCFileBuffer -----------------------------
(***************************************************************************)
(* Small instances of FileBuffer: which flags the caller sets.             *)
(***************************************************************************)
EXTENDS FileBuffer

\* Every combination of the flags that steer the output; all the detectors on
\* without decompression, one of each kind with it, or without ascmagic.
Small == {"json", "csv", "simh", "cdf"}
SomeConfigs == [compress : BOOLEAN, transp : BOOLEAN, cont : BOOLEAN,
                mime : {"no", "type", "enc", "full"}, off : {Small, {"zmagic"}, Small \cup {"text"}}]
=============================================================================
