---------------------------- MODULE MCUncompress ----------------------------
(***************************************************************************)
(* Small instances of Uncompress: which calls the threads make.            *)
(***************************************************************************)
EXTENDS Uncompress, TLC

Job(fd, builtin, nofork, i, o, e) ==
    [fd |-> fd, builtin |-> builtin, nofork |-> nofork,
     size |-> [p \in Pipes |-> CASE p = "in" -> i [] p = "out" -> o [] p = "err" -> e]]

\* Calls that cannot fill two pipes at once (Cap = 2, BytesMax = 2): from a
\* descriptor with more output than bytes_max and a pipe together; from memory
\* with a large input or a large output but not both; with an error message
\* after some output, or as large as bytes_max; built in.
SafeJobs == {Job(TRUE, FALSE, FALSE, 0, 5, 0),
             Job(FALSE, FALSE, FALSE, 2, 5, 0),
             Job(FALSE, FALSE, FALSE, 4, 2, 0),
             Job(FALSE, FALSE, FALSE, 1, 1, 1),
             Job(TRUE, FALSE, FALSE, 0, 1, 2),
             Job(TRUE, TRUE, FALSE, 0, 0, 0),
             Job(TRUE, TRUE, TRUE, 0, 0, 0)}

\* Two calls at once (Cap = 1, BytesMax = 1).
PairJobs == {Job(TRUE, FALSE, FALSE, 0, 3, 0),
             Job(FALSE, FALSE, FALSE, 1, 2, 0)}

Perms == Permutations(Threads)

\* In memory, input larger than a pipe, output larger than bytes_max and a
\* pipe together (Cap = 1, BytesMax = 1).
LargeJobs == {Job(FALSE, FALSE, FALSE, 3, 3, 0)}
=============================================================================
