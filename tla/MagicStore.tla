------------------------------ MODULE MagicStore ------------------------------
(***************************************************************************)
(* What compiling and loading a magic database promise the programs that    *)
(* use it, without the files, the parser and the byte orders: the store     *)
(* holds one whole database or none, a compilation first takes the old one  *)
(* away and then publishes the new one at once, and a program works either  *)
(* with exactly what is stored or, only when nothing is or it could not get *)
(* at it, with a database made from source.                                *)
(***************************************************************************)
CONSTANT None    \* no database, or one without entries

VARIABLES
    store,       \* the compiled database
    building,    \* the database that was compiled last
    db,          \* the database of the running program
    reach        \* can the program get at the store?

vars == <<store, building, db, reach>>

Init == store \in {None, building} /\ db = None /\ reach = TRUE

\* A compilation begins.
Withdraw(d) == building' = d /\ store' = None /\ UNCHANGED <<db, reach>>

\* It ends well.
Publish == store = None /\ store' = building /\ UNCHANGED <<building, db, reach>>

\* The program fails to get at the store, before it has a database.
Miss == db = None /\ reach' = FALSE /\ UNCHANGED <<store, building, db>>

LoadStored == db = None /\ store # None /\ reach /\ db' = store /\ UNCHANGED <<store, building, reach>>
LoadSource(d) == db = None /\ (store = None \/ ~reach) /\ db' = d /\ UNCHANGED <<store, building, reach>>

\* The program ends.
Exit == db' = None /\ reach' = TRUE /\ UNCHANGED <<store, building>>

Next == \/ Withdraw(building') \/ Publish \/ Miss \/ LoadStored \/ LoadSource(db') \/ Exit

Spec == Init /\ [][Next]_vars
=============================================================================
