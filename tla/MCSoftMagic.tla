----------------------------- MODULE MCSoftMagic -----------------------------
(***************************************************************************)
(* Small databases for SoftMagic.                                          *)
(***************************************************************************)
EXTENDS SoftMagic

\* A plain test at level l.
T(l) == [lev |-> l, type |-> "test", not |-> FALSE, desc |-> FALSE, mime |-> FALSE,
         add |-> FALSE, from |-> "rel", nospace |-> FALSE, cond |-> "none", name |-> ""]
D(l) == [T(l) EXCEPT !.desc = TRUE]
Add(m) == [m EXCEPT !.add = TRUE]
Kind(m, k) == [m EXCEPT !.type = k]
UseOf(l, n) == [T(l) EXCEPT !.type = "use", !.name = n]
Mime(m) == [m EXCEPT !.mime = TRUE]
End(m) == [m EXCEPT !.from = "end"]
Cond(m, c) == [m EXCEPT !.cond = c]

NoNames == [n \in {} |-> << >>]

\* Nested continuations, "&" offsets, default and clear, a negated test.
Levels == [root |-> << D(0), [D(1) EXCEPT !.not = TRUE], Add(D(2)), Kind(D(2), "default"),
                       Kind(T(1), "clear"), Add(Kind(D(1), "default")), Mime(D(0)) >>,
           named |-> NoNames]

\* Conditions.
Conds == [root |-> << T(0), Cond(D(1), "if"), Cond(D(1), "else"), Kind(D(1), "default") >>,
          named |-> NoNames]

\* A named list that uses itself, used in the middle of a list.
Uses == [root |-> << D(0), T(1), [UseOf(2, "n") EXCEPT !.nospace = TRUE], Add(D(2)),
                     Kind(D(2), "default"), Mime(T(0)) >>,
         named |-> [n \in {"n"} |-> << Kind(D(0), "name"), D(1), Add(UseOf(2, "n")),
                                       Add(Mime(D(1))) >>]]

\* Offsets from the end of the file, and a use test between them.
Ends == [root |-> << End(D(0)), T(1), UseOf(1, "n"), D(1), End(Mime(D(1))), D(0) >>,
         named |-> [n \in {"n"} |-> << Kind(T(0), "name"), End(T(1)), [T(1) EXCEPT !.from = "start"] >>]]

\* Indirect tests, on the top level and below it.
Indirects == [root |-> << T(0), T(1), Kind(D(1), "indirect"), Add(D(1)), Kind(D(1), "default"),
                          Mime(D(0)) >>,
              named |-> NoNames]

\* Every pair of continuations below a top-level entry, and an entry after them.
Continuations(l) == {D(l), Add(D(l)), Kind(D(l), "default"), Kind(T(l), "clear"),
                     UseOf(l, "n"), Kind(D(l), "indirect"), End(D(l)), Cond(D(l), "else")}
Pairs == {[root |-> << D(0), a, b, Mime(D(0)) >>,
           named |-> [n \in {"n"} |-> << Kind(T(0), "name"), D(1), Add(T(1)) >>]] :
             a \in Continuations(1), b \in Continuations(1) \cup Continuations(2)}

\* Negated use and indirect tests with a description, which prints nothing.
Negated == [root |-> << D(0), [UseOf(1, "n") EXCEPT !.not = TRUE, !.desc = TRUE],
                        [Kind(D(0), "indirect") EXCEPT !.not = TRUE], D(0) >>,
            named |-> [n \in {"n"} |-> << Kind(T(0), "name"), T(1) >>]]

\* A continuation before any top-level entry, skipped levels, and a default below a
\* top-level entry that counts from the end of the file.
Skips == [root |-> << Add(D(1)), D(0), Add(D(2)), D(1), T(2), End(T(0)), D(1), Add(D(2)),
                     Kind(D(1), "default"), D(1) >>,
          named |-> NoNames]

AllDBs == {Skips, Levels, Conds, Uses, Ends, Indirects, Negated} \cup Pairs

\* An indirect test before a "&" offset.
IndirectThenAdd == {Indirects}
=============================================================================
