------------------------------- MODULE MCReaders -------------------------------
(***************************************************************************)
(* The two readers of container formats, in the order file_buffer() calls   *)
(* them: file_tryelf() sees what file_trycdf() has not claimed.             *)
(***************************************************************************)
EXTENDS Cdf, ReadElf

MCDirEntries == {[name |-> "root", size |-> "long"], [name |-> "FileHeader", size |-> "short"],
                 [name |-> "Summary", size |-> "long"], [name |-> "DocSummary", size |-> "short"],
                 [name |-> "section", size |-> "zero"]}

readersVars == <<cdfVars, elfVars>>
Asked == [plain |-> "plain", mime |-> "mime", encoding |-> "mime", apple |-> "apple"]

ReadersInit == CdfInit /\ ElfInit /\ ask = Asked[opt]
ReadersNext == \/ CdfNext /\ UNCHANGED elfVars
               \/ cpc = "done" /\ cret = 0 /\ ElfNext /\ UNCHANGED cdfVars
ReadersSpec == ReadersInit /\ [][ReadersNext]_readersVars
=============================================================================
