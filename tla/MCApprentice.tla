----------------------------- MODULE MCApprentice -----------------------------
(***************************************************************************)
(* Small instances of Apprentice: the lines of the magic files and the .mgc *)
(* files that may be there before.                                         *)
(***************************************************************************)
EXTENDS Apprentice

Plain == [kind |-> "entry", level |-> 0, cond |-> "none", type |-> "byte", reln |-> "=", vallen |-> 0,
          desc |-> TRUE, text |-> FALSE, defect |-> "none"]

\* Two entries of equal strength, one that sorts behind default, a default, a named
\* one; continuations with and without conditions, up to two levels deep.
SomeLines ==
    { Plain, [Plain EXCEPT !.type = "string", !.vallen = 1, !.desc = FALSE],
      [Plain EXCEPT !.type = "default", !.reln = "x"], [Plain EXCEPT !.type = "name"],
      [Plain EXCEPT !.type = "search", !.vallen = 1, !.text = TRUE, !.defect = "relative"],
      [Plain EXCEPT !.level = 1, !.cond = "if"], [Plain EXCEPT !.level = 1, !.cond = "else", !.defect = "relative"],
      [Plain EXCEPT !.level = 2, !.cond = "else"], [Plain EXCEPT !.level = 2, !.cond = "elif", !.defect = "value"],
      [kind |-> "bang", what |-> "mime", text |-> "odd"], [kind |-> "bang", what |-> "ext", text |-> "empty"],
      [kind |-> "strength", op |-> "+", factor |-> 1],
      [kind |-> "skip"] }

\* Bound: once a line has failed the load is lost; what follows is only explored
\* for the first lines.  A process that finds no usable .mgc file has two lines.
Bound == /\ errs => line <= 2
         /\ pc = "file" /\ action = "load" => line <= 2 \/ ~mgc.there

\* A database as the other kind of machine writes it.
Here == << [NewEntry([Plain EXCEPT !.type = "string", !.vallen = 1], 1) EXCEPT !.flag = "bin"],
           [NewEntry([Plain EXCEPT !.level = 1], 2) EXCEPT !.flag = "none"] >>
Named == << NewEntry([Plain EXCEPT !.type = "name"], 3) >>
There(s) == [i \in DOMAIN s |->
    [s[i] EXCEPT !.other = {"flag", "offset", "in_offset", "lineno"} \cup
        IF s[i].type = "byte" THEN {"value", "mask"} ELSE {"range", "flags"}]]
Foreign == [there |-> TRUE, head |-> TRUE, order |-> "other", version |-> TRUE, n |-> << 2, 1 >>,
            body |-> There(Here \o Named), torn |-> FALSE]
Db == [j \in Sets |-> IF j = 0 THEN Here ELSE Named]
SomeOldFiles == { [file |-> NoFile, image |-> EmptyMap], [file |-> Foreign, image |-> Db],
                  [file |-> [Foreign EXCEPT !.version = FALSE], image |-> Db] }
=============================================================================
