------------------------------ MODULE MCDetectors ------------------------------
(***************************************************************************)
(* The detectors that read the data by themselves, over one file each time:  *)
(* a container goes to the two readers of container formats, anything else   *)
(* is text or one of the small formats.                                     *)
(***************************************************************************)
EXTENDS MCReaders, MCText

Container == kind = "container" /\ text = << >> /\ buf = << >>

Init == /\ ReadersInit /\ (TextInit \/ Container)
        /\ kind # "container" => opt = "plain"
Next == \/ kind = "container" /\ ReadersNext /\ UNCHANGED textVars
        \/ kind # "container" /\ TextNext /\ UNCHANGED readersVars
Spec == Init /\ [][Next]_<<readersVars, textVars>>
=============================================================================
