----------------------------- MODULE Uncompress -----------------------------
(***************************************************************************)
(* The external decompression path of libmagic: uncompressbuf() and the    *)
(* helpers it calls (src/compress.c), inside the SIGPIPE bracket of        *)
(* file_zmagic().  Several threads of one host process ("lib") may be in   *)
(* the call at once; they share one descriptor table.  Each call creates   *)
(* up to three pipes, spawns a filter (gzip, bzip2, ...) and, when the     *)
(* data is in memory (fd == -1), forks a writer that feeds the filter.     *)
(*                                                                         *)
(* A pipe is a bounded counter of units.  A read sees end of file when the *)
(* pipe is empty and no process holds its write end; a write fails with    *)
(* EPIPE when no process holds its read end, and blocks when it is full.   *)
(* Which process holds which end is the heart of the model: posix_spawn    *)
(* drops the O_CLOEXEC descriptors of the host, fork() copies them all.    *)
(***************************************************************************)
EXTENDS Naturals, FiniteSets

CONSTANTS
    Threads,    \* host threads, each making one call
    Cap,        \* capacity of a pipe, in units
    BytesMax,   \* ms->bytes_max, in units
    Jobs,       \* the calls a thread may make
    Faults      \* may a read() or waitpid() return -1?

Pipes == {"in", "out", "err"}

\* One call: does it pass a descriptor (fd # -1), is the method built in, is
\* MAGIC_NO_COMPRESS_FORK set, and how many units the filter is fed, and
\* would write to its stdout and its stderr.
JobType == [fd : BOOLEAN, builtin : BOOLEAN, nofork : BOOLEAN,
            size : [Pipes -> Nat]]

ASSUME CapAssumption == Cap \in Nat \ {0}
ASSUME BytesMaxAssumption == BytesMax \in Nat
ASSUME JobsAssumption == Jobs \subseteq JobType
ASSUME FaultsAssumption == Faults \in BOOLEAN

VARIABLES
    job,     \* the call each thread makes
    pc,      \* where each thread is in file_zmagic/uncompressbuf
    rv,      \* result of the call; "error" is ERRDATA or NODATA
    r, re,   \* units read from the filter's stdout and stderr
    libfd,   \* pipe ends open in the host process
    ffd,     \* pipe ends open in each filter
    wfd,     \* pipe ends open in each writer
    fst,     \* state of each filter, or the system call it is in
    fin,     \* the filter has seen the end of its input
    wst,     \* state of each writer
    buf,     \* units in each pipe
    sent,    \* units ever written to each pipe
    sig,     \* SIGPIPE disposition of the host
    saved    \* sig_act: disposition each call saved

vars == <<job, pc, rv, r, re, libfd, ffd, wfd, fst, fin, wst, buf, sent,
          sig, saved>>
procs == <<ffd, wfd, fst, fin, wst, buf, sent>>
sigs == <<sig, saved>>

\* Pipe ends: thread, pipe, side.
Ends == Threads \X Pipes \X {"r", "w"}
EndsOf(t) == {t} \X Pipes \X {"r", "w"}

\* Some process has this end of the pipe open.
Held(e) == \/ e \in libfd
           \/ \E u \in Threads : e \in ffd[u] \/ e \in wfd[u]

\* fdp[] after the file_pipe_closexec() calls: no stdin pipe with an fd.
PipeEnds(t) == IF job[t].fd THEN EndsOf(t) \ {<<t, "in", "r">>, <<t, "in", "w">>}
               ELSE EndsOf(t)

FilterEndsNoCloexec(t) ==
    (PipeEnds(t) \cup libfd) \ {<<t, "in", "w">>, <<t, "out", "r">>, <<t, "err", "r">>}

\* handledesc(): the filter's own 0, 1, 2; all else is O_CLOEXEC or closed.
FilterEnds(t) == PipeEnds(t) \ {<<t, "in", "w">>, <<t, "out", "r">>, <<t, "err", "r">>}

Init ==
    /\ job \in [Threads -> Jobs]
    /\ pc = [t \in Threads |-> "idle"]
    /\ rv = [t \in Threads |-> "none"]
    /\ r = [t \in Threads |-> 0]
    /\ re = [t \in Threads |-> 0]
    /\ libfd = {}
    /\ ffd = [t \in Threads |-> {}]
    /\ wfd = [t \in Threads |-> {}]
    /\ fst = [t \in Threads |-> "none"]
    /\ fin = [t \in Threads |-> FALSE]
    /\ wst = [t \in Threads |-> "none"]
    /\ buf = [p \in Threads \X Pipes |-> 0]
    /\ sent = [p \in Threads \X Pipes |-> 0]
    /\ sig = "host"
    /\ saved = [t \in Threads |-> "host"]

-----------------------------------------------------------------------------
(* The calling thread.                                                     *)

Goto(t, l) == pc' = [pc EXCEPT ![t] = l]

\* makeerror(): ERRDATA, or NODATA when there is no memory for the message.
Makeerror(t) == rv' = [rv EXCEPT ![t] = "error"]

\* file_zmagic(): ignore SIGPIPE, remember what it was.
Enter(t) ==
    /\ pc[t] = "idle"
    /\ saved' = [saved EXCEPT ![t] = sig]
    /\ sig' = "ign"
    /\ Goto(t, "start")
    /\ UNCHANGED <<job, rv, r, re, libfd, procs>>

\* malloc(bytes_max + 1) fails.
NoBuffer(t) ==
    /\ pc[t] = "start"
    /\ Makeerror(t)
    /\ Goto(t, "leave")
    /\ UNCHANGED <<job, r, re, libfd, procs, sigs>>

\* A method with a built-in decompressor never reaches the pipes.
Builtin(t) ==
    /\ pc[t] = "start"
    /\ job[t].builtin
    /\ \/ /\ job[t].nofork
          /\ Makeerror(t)
          /\ UNCHANGED r
       \/ /\ ~job[t].nofork
          /\ \/ \E k \in 0..BytesMax : /\ r' = [r EXCEPT ![t] = k]
                                       /\ rv' = [rv EXCEPT ![t] = "OKDATA"]
             \/ Makeerror(t) /\ UNCHANGED r
    /\ Goto(t, "leave")
    /\ UNCHANGED <<job, re, libfd, procs, sigs>>

CreatePipes(t) ==
    /\ pc[t] = "start"
    /\ ~job[t].builtin
    /\ libfd' = libfd \cup PipeEnds(t)
    /\ Goto(t, "spawn")
    /\ UNCHANGED <<job, rv, r, re, procs, sigs>>

\* pipe2() fails: the pipes made so far are closed again.
PipesFail(t) ==
    /\ pc[t] = "start"
    /\ ~job[t].builtin
    /\ Makeerror(t)
    /\ Goto(t, "leave")
    /\ UNCHANGED <<job, r, re, libfd, procs, sigs>>

Spawn(t) ==
    /\ pc[t] = "spawn"
    /\ ffd' = [ffd EXCEPT ![t] = FilterEnds(t)]
    /\ fst' = [fst EXCEPT ![t] = "think"]
    /\ Goto(t, "closechild")
    /\ UNCHANGED <<job, rv, r, re, libfd, wfd, fin, wst, buf, sent, sigs>>

\* posix_spawnp() fails (no such program): the call returns at once and the
\* descriptors in fdp[] stay open.
SpawnFail(t) ==
    /\ pc[t] = "spawn"
    /\ Makeerror(t)
    /\ Goto(t, "leave")
    /\ UNCHANGED <<job, r, re, libfd, procs, sigs>>

\* Close the filter's side of the pipes.
CloseChildEnds(t) ==
    /\ pc[t] = "closechild"
    /\ libfd' = libfd \ {<<t, "out", "w">>, <<t, "err", "w">>, <<t, "in", "r">>}
    /\ Goto(t, IF job[t].fd THEN "readout" ELSE "fork")
    /\ UNCHANGED <<job, rv, r, re, procs, sigs>>

\* writechild(): fork() without exec, so the writer gets every end the host
\* has open, those of the other threads included.
ForkWriter(t) ==
    /\ pc[t] = "fork"
    /\ wfd' = [wfd EXCEPT ![t] = libfd]
    /\ wst' = [wst EXCEPT ![t] = "run"]
    /\ Goto(t, "closestdin")
    /\ UNCHANGED <<job, rv, r, re, libfd, ffd, fst, fin, buf, sent, sigs>>

ForkFail(t) ==
    /\ pc[t] = "fork"
    /\ Makeerror(t)
    /\ Goto(t, "close")
    /\ UNCHANGED <<job, r, re, libfd, procs, sigs>>

CloseStdinForgotten(t) ==
    /\ pc[t] = "closestdin"
    /\ Goto(t, "readout")
    /\ UNCHANGED <<job, rv, r, re, libfd, procs, sigs>>

\* The host keeps no write end of its own to the filter's stdin.
CloseStdin(t) ==
    /\ pc[t] = "closestdin"
    /\ libfd' = libfd \ {<<t, "in", "w">>}
    /\ Goto(t, "readout")
    /\ UNCHANGED <<job, rv, r, re, procs, sigs>>

\* r = sread(stdout, bytes_max): one unit of it.
ReadOut(t) ==
    /\ pc[t] = "readout"
    /\ r[t] < BytesMax
    /\ buf[<<t, "out">>] > 0
    /\ buf' = [buf EXCEPT ![<<t, "out">>] = @ - 1]
    /\ r' = [r EXCEPT ![t] = @ + 1]
    /\ UNCHANGED <<job, pc, rv, re, libfd, ffd, wfd, fst, fin, wst, sent, sigs>>

AtEofShortRead(p) == buf[p] = 0

\* sread() returns short at end of file.
AtEof(p) == buf[p] = 0 /\ ~Held(<<p[1], p[2], "w">>)

ReadOutEof(t) ==
    /\ pc[t] = "readout"
    /\ r[t] < BytesMax
    /\ AtEof(<<t, "out">>)
    /\ Goto(t, "readerr")
    /\ UNCHANGED <<job, rv, r, re, libfd, procs, sigs>>

\* r == bytes_max: close stdout, so that the filter gets EPIPE.
ReadOutFull(t) ==
    /\ pc[t] = "readout"
    /\ r[t] = BytesMax
    /\ libfd' = libfd \ {<<t, "out", "r">>}
    /\ rv' = [rv EXCEPT ![t] = "OKDATA"]
    /\ Goto(t, "close")
    /\ UNCHANGED <<job, r, re, procs, sigs>>

\* read() of stdout fails: ERRDATA, with nothing put in the buffer.
ReadOutError(t) ==
    /\ pc[t] = "readout"
    /\ r[t] < BytesMax
    /\ rv' = [rv EXCEPT ![t] = "error"]
    /\ Goto(t, "close")
    /\ UNCHANGED <<job, r, re, libfd, procs, sigs>>

ReadErr(t) ==
    /\ pc[t] = "readerr"
    /\ re[t] < BytesMax
    /\ buf[<<t, "err">>] > 0
    /\ buf' = [buf EXCEPT ![<<t, "err">>] = @ - 1]
    /\ re' = [re EXCEPT ![t] = @ + 1]
    /\ UNCHANGED <<job, pc, rv, r, libfd, ffd, wfd, fst, fin, wst, sent, sigs>>

\* The stderr sread() is over: anything there makes the call an error.
ReadErrDone(t) ==
    /\ pc[t] = "readerr"
    /\ re[t] = BytesMax \/ AtEof(<<t, "err">>)
    /\ rv' = [rv EXCEPT ![t] = IF re[t] > 0 THEN "error" ELSE "OKDATA"]
    /\ Goto(t, "close")
    /\ UNCHANGED <<job, r, re, libfd, procs, sigs>>

ReadErrError(t) ==
    /\ pc[t] = "readerr"
    /\ re[t] < BytesMax
    /\ Makeerror(t)
    /\ Goto(t, "close")
    /\ UNCHANGED <<job, r, re, libfd, procs, sigs>>

CloseAllForgetsErr(t) ==
    /\ pc[t] = "close"
    /\ libfd' = libfd \ {<<t, "in", "w">>, <<t, "out", "r">>}
    /\ Goto(t, "waitfilter")
    /\ UNCHANGED <<job, rv, r, re, procs, sigs>>

\* err: close the host's side of the pipes.
CloseAll(t) ==
    /\ pc[t] = "close"
    /\ libfd' = libfd \ {<<t, "in", "w">>, <<t, "out", "r">>, <<t, "err", "r">>}
    /\ Goto(t, "waitfilter")
    /\ UNCHANGED <<job, rv, r, re, procs, sigs>>

AfterFilterWaitSkips(t) == "leave"

\* Is there a writer to wait for (writepid > 0)?
AfterFilterWait(t) == IF wst[t] = "none" THEN "leave" ELSE "waitwriter"

WaitFilter(t) ==
    /\ pc[t] = "waitfilter"
    /\ fst[t] = "exited"
    /\ fst' = [fst EXCEPT ![t] = "reaped"]
    /\ Goto(t, AfterFilterWait(t))
    /\ UNCHANGED <<job, rv, r, re, libfd, ffd, wfd, fin, wst, buf, sent, sigs>>

\* waitpid() returns -1: interrupted by a signal handler of the host.
WaitFilterFail(t) ==
    /\ pc[t] = "waitfilter"
    /\ Makeerror(t)
    /\ Goto(t, AfterFilterWait(t))
    /\ UNCHANGED <<job, r, re, libfd, procs, sigs>>

WaitWriter(t) ==
    /\ pc[t] = "waitwriter"
    /\ wst[t] = "exited"
    /\ wst' = [wst EXCEPT ![t] = "reaped"]
    /\ Goto(t, "leave")
    /\ UNCHANGED <<job, rv, r, re, libfd, ffd, wfd, fst, fin, buf, sent, sigs>>

WaitWriterFail(t) ==
    /\ pc[t] = "waitwriter"
    /\ Makeerror(t)
    /\ Goto(t, "leave")
    /\ UNCHANGED <<job, r, re, libfd, procs, sigs>>

LeaveAlwaysRestores(t) ==
    /\ pc[t] = "leave"
    /\ sig' = saved[t]
    /\ Goto(t, "done")
    /\ UNCHANGED <<job, rv, r, re, libfd, procs, saved>>

\* out: restore SIGPIPE unless it was already ignored on entry.
Leave(t) ==
    /\ pc[t] = "leave"
    /\ sig' = IF saved[t] # "ign" THEN saved[t] ELSE sig
    /\ Goto(t, "done")
    /\ UNCHANGED <<job, rv, r, re, libfd, procs, saved>>

\* What a scheduled thread goes on to do, unless it blocks.
ThreadStep(t) ==
    \/ Enter(t) \/ NoBuffer(t) \/ Builtin(t) \/ CreatePipes(t) \/ PipesFail(t)
    \/ Spawn(t) \/ SpawnFail(t) \/ CloseChildEnds(t) \/ ForkWriter(t)
    \/ ForkFail(t) \/ CloseStdin(t) \/ ReadOut(t) \/ ReadOutEof(t)
    \/ ReadOutFull(t) \/ ReadErr(t) \/ ReadErrDone(t) \/ CloseAll(t)
    \/ WaitFilter(t) \/ WaitWriter(t) \/ Leave(t)

\* A blocking call that returns -1: it may happen, nothing makes it happen.
ThreadFault(t) == Faults /\ (\/ ReadOutError(t) \/ ReadErrError(t)
                             \/ WaitFilterFail(t) \/ WaitWriterFail(t))

-----------------------------------------------------------------------------
(* The filter: an external program.  It commits to one blocking call at a  *)
(* time, in an order of its own, and may give up whenever it likes.        *)

lib == <<job, pc, rv, r, re, libfd, sig, saved>>

FilterChoose(t, p) ==
    /\ fst[t] = "think"
    /\ IF p = "in" THEN ~job[t].fd /\ ~fin[t]
       ELSE sent[<<t, p>>] < job[t].size[p]
    /\ fst' = [fst EXCEPT ![t] = p]
    /\ UNCHANGED <<lib, ffd, wfd, fin, wst, buf, sent>>

FilterRead(t) ==
    /\ fst[t] = "in"
    /\ buf[<<t, "in">>] > 0
    /\ buf' = [buf EXCEPT ![<<t, "in">>] = @ - 1]
    /\ fst' = [fst EXCEPT ![t] = "think"]
    /\ UNCHANGED <<lib, ffd, wfd, fin, wst, sent>>

FilterEof(t) ==
    /\ fst[t] = "in"
    /\ AtEof(<<t, "in">>)
    /\ fin' = [fin EXCEPT ![t] = TRUE]
    /\ fst' = [fst EXCEPT ![t] = "think"]
    /\ UNCHANGED <<lib, ffd, wfd, wst, buf, sent>>

\* A write(2) of one unit that finds room.
PutUnit(t, p) ==
    /\ Held(<<t, p, "r">>)
    /\ buf[<<t, p>>] < Cap
    /\ buf' = [buf EXCEPT ![<<t, p>>] = @ + 1]
    /\ sent' = [sent EXCEPT ![<<t, p>>] = @ + 1]

FilterWrite(t, p) ==
    /\ fst[t] = p
    /\ PutUnit(t, p)
    /\ fst' = [fst EXCEPT ![t] = "think"]
    /\ UNCHANGED <<lib, ffd, wfd, fin, wst>>

\* Exit, closing every descriptor: done, failed, or killed by EPIPE.
FilterExit(t) ==
    /\ \/ fst[t] = "think"
       \/ fst[t] \in {"out", "err"} /\ ~Held(<<t, fst[t], "r">>)
    /\ fst' = [fst EXCEPT ![t] = "exited"]
    /\ ffd' = [ffd EXCEPT ![t] = {}]
    /\ UNCHANGED <<lib, wfd, fin, wst, buf, sent>>

FilterStep(t) ==
    \/ \E p \in Pipes : FilterChoose(t, p)
    \/ FilterRead(t) \/ FilterEof(t)
    \/ \E p \in {"out", "err"} : FilterWrite(t, p)
    \/ FilterExit(t)

-----------------------------------------------------------------------------
(* The writer: swrite() of the whole buffer in a forked child, then exit.  *)

WriterWrite(t) ==
    /\ wst[t] = "run"
    /\ sent[<<t, "in">>] < job[t].size["in"]
    /\ PutUnit(t, "in")
    /\ UNCHANGED <<lib, ffd, wfd, fst, fin, wst>>

WriterExit(t) ==
    /\ wst[t] = "run"
    /\ \/ sent[<<t, "in">>] = job[t].size["in"]
       \/ ~Held(<<t, "in", "r">>)
    /\ wst' = [wst EXCEPT ![t] = "exited"]
    /\ wfd' = [wfd EXCEPT ![t] = {}]
    /\ UNCHANGED <<lib, ffd, fst, fin, buf, sent>>

WriterStep(t) == WriterWrite(t) \/ WriterExit(t)

-----------------------------------------------------------------------------

Done == \A t \in Threads : pc[t] = "done"

\* Every call has returned: the system may stop.
Finished == Done /\ UNCHANGED vars

Next == \/ \E t \in Threads : \/ ThreadStep(t) \/ ThreadFault(t)
                             \/ FilterStep(t) \/ WriterStep(t)
        \/ Finished

\* Each thread and each process is scheduled; nothing is assumed of the
\* order in which a filter reads and writes, and no fault has to happen.
Fairness == \A t \in Threads : /\ WF_vars(ThreadStep(t))
                               /\ WF_vars(FilterStep(t))
                               /\ WF_vars(WriterStep(t))

Spec == Init /\ [][Next]_vars /\ Fairness

-----------------------------------------------------------------------------
(* Properties.                                                             *)

Pcs == {"idle", "start", "spawn", "closechild", "fork", "closestdin", "readout",
        "readerr", "close", "waitfilter", "waitwriter", "leave", "done"}
Running == {"think"} \cup Pipes

\* The type of the state of uncompressbuf() and of the processes it starts.
TypeOK ==
    /\ job \in [Threads -> Jobs]
    /\ pc \in [Threads -> Pcs]
    /\ rv \in [Threads -> {"none", "OKDATA", "error"}]
    /\ r \in [Threads -> 0..BytesMax]
    /\ re \in [Threads -> 0..BytesMax]
    /\ libfd \subseteq Ends
    /\ ffd \in [Threads -> SUBSET Ends]
    /\ wfd \in [Threads -> SUBSET Ends]
    /\ fst \in [Threads -> Running \cup {"none", "exited", "reaped"}]
    /\ fin \in [Threads -> BOOLEAN]
    /\ wst \in [Threads -> {"none", "run", "exited", "reaped"}]
    /\ buf \in [Threads \X Pipes -> 0..Cap]
    /\ sent \in [Threads \X Pipes -> Nat]
    /\ sig \in {"host", "ign"}
    /\ saved \in [Threads -> {"host", "ign"}]

Returned(t) == pc[t] \in {"leave", "done"}

\* When uncompressbuf() spawned a filter and reports OKDATA with less than
\* bytes_max units, the caller has everything the filter ever wrote to its
\* stdout, and the filter wrote nothing to its stderr.
CompleteData ==
    \A t \in Threads :
        Returned(t) /\ rv[t] = "OKDATA" /\ ~job[t].builtin /\ r[t] < BytesMax
          => sent[<<t, "out">>] = r[t] /\ sent[<<t, "err">>] = 0

\* A call of uncompressbuf() that reports OKDATA leaves no zombie: the
\* filter, and the writer if the data was in memory, have been waited for.
ChildrenReaped ==
    \A t \in Threads :
        Returned(t) /\ rv[t] = "OKDATA" /\ ~job[t].builtin
          => fst[t] = "reaped" /\ (job[t].fd \/ wst[t] = "reaped")

\* Once it has spawned its filter, uncompressbuf() returns with every
\* descriptor it opened closed again in the host, on every path.
NoDescriptorLeft ==
    \A t \in Threads : Returned(t) /\ fst[t] # "none" => libfd \cap EndsOf(t) = {}

\* When no thread is in file_zmagic(), SIGPIPE is back to what the host had
\* set, in whatever order the threads came and went.
SigpipeRestored ==
    (\A t \in Threads : pc[t] \in {"idle", "done"}) => sig = "host"

\* The thread, the filter or the writer of a call is in a system call that
\* cannot return as things are: a read from an empty pipe that somebody could
\* still write to, a write to a full pipe that somebody could still read, or a
\* waitpid() for a process that has not exited.
ThreadWaits(t) ==
    \/ pc[t] = "readout" /\ r[t] < BytesMax
         /\ buf[<<t, "out">>] = 0 /\ ~AtEof(<<t, "out">>)
    \/ pc[t] = "readerr" /\ re[t] < BytesMax
         /\ buf[<<t, "err">>] = 0 /\ ~AtEof(<<t, "err">>)
    \/ pc[t] = "waitfilter" /\ fst[t] # "exited"
    \/ pc[t] = "waitwriter" /\ wst[t] # "exited"

FilterWaits(t) ==
    \/ fst[t] = "in" /\ buf[<<t, "in">>] = 0 /\ ~AtEof(<<t, "in">>)
    \/ fst[t] \in {"out", "err"} /\ Held(<<t, fst[t], "r">>)
         /\ buf[<<t, fst[t]>>] = Cap

WriterWaits(t) ==
    /\ sent[<<t, "in">>] # job[t].size["in"]
    /\ Held(<<t, "in", "r">>) /\ buf[<<t, "in">>] = Cap

\* As long as some call of uncompressbuf() has not returned, some thread,
\* filter or writer can move without the help of a fault: they never all wait
\* for one another, which is what O_CLOEXEC on the pipes is there for.
NobodyStuck ==
    Done \/ \E t \in Threads : \/ pc[t] # "done" /\ ~ThreadWaits(t)
                               \/ fst[t] \in Running /\ ~FilterWaits(t)
                               \/ wst[t] = "run" /\ ~WriterWaits(t)

\* Every call of uncompressbuf() returns, whatever the order in which the
\* filter reads and writes.
Termination == <>Done
=============================================================================
