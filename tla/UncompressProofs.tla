--------------------------- MODULE UncompressProofs ---------------------------
(***************************************************************************)
(* Safety of uncompressbuf() for any number of threads, any pipe capacity,  *)
(* any bytes_max and any set of calls, with and without faults.            *)
(***************************************************************************)
EXTENDS Uncompress, TLAPS

USE CapAssumption, BytesMaxAssumption, JobsAssumption

-----------------------------------------------------------------------------
(* The inductive invariant: what is known of thread t, its filter and its   *)
(* writer.                                                                 *)

Early == {"idle", "start", "spawn"}                    \* no filter yet
Reading == {"closechild", "fork", "closestdin", "readout", "readerr"}
Late == {"close", "waitfilter", "waitwriter", "leave", "done"}

HostSide(t) == {<<t, "in", "w">>, <<t, "out", "r">>, <<t, "err", "r">>}

\* The ends of t's pipes that the host still has open.
Descriptors(t) ==
    /\ pc[t] \in Early => fst[t] = "none"
    /\ pc[t] \in {"idle", "start", "waitfilter", "waitwriter"}
          => libfd \cap EndsOf(t) = {}
    /\ pc[t] \in (Reading \ {"closechild"}) \cup {"close"}
          => libfd \cap EndsOf(t) \subseteq HostSide(t)
    /\ Returned(t) /\ fst[t] # "none" => libfd \cap EndsOf(t) = {}

\* Which children there are, and which have been waited for.
Children(t) ==
    /\ pc[t] \in Early \cup Reading => rv[t] = "none"
    /\ pc[t] \in Early \cup {"closechild", "fork"} => wst[t] = "none"
    /\ pc[t] = "closestdin" => wst[t] # "none"
    /\ pc[t] \in {"readout", "readerr"} => job[t].fd \/ wst[t] # "none"
    /\ pc[t] \in {"close", "waitfilter"} /\ rv[t] = "OKDATA"
          => job[t].fd \/ wst[t] # "none"
    /\ pc[t] = "waitwriter" /\ rv[t] = "OKDATA" => fst[t] = "reaped"
    /\ job[t].builtin => pc[t] \in {"idle", "start", "leave", "done"}
    /\ Returned(t) /\ rv[t] = "OKDATA" /\ ~job[t].builtin
          => fst[t] = "reaped" /\ (job[t].fd \/ wst[t] = "reaped")

\* Nothing is left in a pipe and nobody can write to it any more.
Drained(t, p) == buf[<<t, p>>] = 0 /\ ~Held(<<t, p, "w">>)

\* Every unit the filter wrote is in the pipe or has been read.
Data(t) ==
    /\ fst[t] \in Running => ffd[t] = FilterEnds(t)
    /\ pc[t] \in Early \cup Reading
          => /\ sent[<<t, "out">>] = r[t] + buf[<<t, "out">>]
             /\ sent[<<t, "err">>] = re[t] + buf[<<t, "err">>]
    /\ pc[t] = "readerr" => Drained(t, "out")
    /\ pc[t] \in Late /\ rv[t] = "OKDATA" /\ ~job[t].builtin /\ r[t] < BytesMax
          => /\ Drained(t, "out") /\ sent[<<t, "out">>] = r[t]
             /\ Drained(t, "err") /\ sent[<<t, "err">>] = 0

-----------------------------------------------------------------------------

\* The state of uncompressbuf() is well typed; in particular no more than
\* bytes_max is ever read into the buffer.
THEOREM TypeInvariant == Spec => []TypeOK
<1>1. Init => TypeOK
  BY DEF Init, TypeOK, Pcs, Running, Pipes, Ends
<1>2. TypeOK /\ [Next]_vars => TypeOK'
  <2> SUFFICES ASSUME TypeOK, [Next]_vars PROVE TypeOK'
    OBVIOUS
  <2> USE DEF TypeOK, procs, sigs, lib, Goto, Makeerror
  <2>1. ASSUME NEW t \in Threads, ThreadStep(t) PROVE TypeOK'
    <3>1. CASE Enter(t)
      BY <3>1 DEF Enter, Pcs
    <3>2. CASE NoBuffer(t)
      BY <3>2 DEF NoBuffer, Pcs
    <3>3. CASE Builtin(t)
      <4>1. r' \in [Threads -> 0..BytesMax] /\ rv' \in [Threads -> {"none", "OKDATA", "error"}]
        BY <3>3 DEF Builtin
      <4>2. UNCHANGED <<job, re, libfd, procs, sigs>> /\ pc' \in [Threads -> Pcs]
        BY <3>3 DEF Builtin, Pcs
      <4> QED
        BY <4>1, <4>2
    <3>4. CASE CreatePipes(t)
      BY <3>4 DEF CreatePipes, Pcs, PipeEnds, EndsOf, Ends
    <3>5. CASE PipesFail(t)
      BY <3>5 DEF PipesFail, Pcs
    <3>6. CASE Spawn(t)
      BY <3>6 DEF Spawn, Pcs, FilterEnds, PipeEnds, EndsOf, Ends, Running
    <3>7. CASE SpawnFail(t)
      BY <3>7 DEF SpawnFail, Pcs
    <3>8. CASE CloseChildEnds(t)
      BY <3>8 DEF CloseChildEnds, Pcs
    <3>9. CASE ForkWriter(t)
      BY <3>9 DEF ForkWriter, Pcs
    <3>10. CASE ForkFail(t)
      BY <3>10 DEF ForkFail, Pcs
    <3>11. CASE CloseStdin(t)
      BY <3>11 DEF CloseStdin, Pcs
    <3>12. CASE ReadOut(t)
      BY <3>12 DEF ReadOut, Pipes
    <3>13. CASE ReadOutEof(t)
      BY <3>13 DEF ReadOutEof, Pcs
    <3>14. CASE ReadOutFull(t)
      BY <3>14 DEF ReadOutFull, Pcs
    <3>15. CASE ReadErr(t)
      BY <3>15 DEF ReadErr, Pipes
    <3>16. CASE ReadErrDone(t)
      BY <3>16 DEF ReadErrDone, Pcs
    <3>17. CASE CloseAll(t)
      BY <3>17 DEF CloseAll, Pcs
    <3>18. CASE WaitFilter(t)
      BY <3>18 DEF WaitFilter, AfterFilterWait, Pcs
    <3>19. CASE WaitWriter(t)
      BY <3>19 DEF WaitWriter, Pcs
    <3>20. CASE Leave(t)
      BY <3>20 DEF Leave, Pcs
    <3> QED
      BY <2>1, <3>1, <3>2, <3>3, <3>4, <3>5, <3>6, <3>7, <3>8, <3>9, <3>10,
         <3>11, <3>12, <3>13, <3>14, <3>15, <3>16, <3>17, <3>18, <3>19, <3>20
      DEF ThreadStep
  <2>2. ASSUME NEW t \in Threads, ThreadFault(t) PROVE TypeOK'
    BY <2>2 DEF ThreadFault, ReadOutError, ReadErrError, WaitFilterFail,
                WaitWriterFail, AfterFilterWait, Pcs
  <2>3. ASSUME NEW t \in Threads, FilterStep(t) PROVE TypeOK'
    <3>1. ASSUME NEW p \in Pipes, FilterChoose(t, p) PROVE TypeOK'
      BY <3>1 DEF FilterChoose, Running
    <3>2. CASE FilterRead(t)
      BY <3>2 DEF FilterRead, Running, Pipes
    <3>3. CASE FilterEof(t)
      BY <3>3 DEF FilterEof, Running
    <3>4. ASSUME NEW p \in {"out", "err"}, FilterWrite(t, p) PROVE TypeOK'
      BY <3>4 DEF FilterWrite, PutUnit, Running, Pipes
    <3>5. CASE FilterExit(t)
      BY <3>5 DEF FilterExit
    <3> QED
      BY <2>3, <3>1, <3>2, <3>3, <3>4, <3>5 DEF FilterStep
  <2>4. ASSUME NEW t \in Threads, WriterStep(t) PROVE TypeOK'
    <3>1. CASE WriterWrite(t)
      BY <3>1 DEF WriterWrite, PutUnit, Pipes
    <3>2. CASE WriterExit(t)
      BY <3>2 DEF WriterExit
    <3> QED
      BY <2>4, <3>1, <3>2 DEF WriterStep
  <2>5. CASE UNCHANGED vars
    BY <2>5 DEF vars
  <2> QED
    BY <2>1, <2>2, <2>3, <2>4, <2>5 DEF Next, Finished
<1> QED
  BY <1>1, <1>2, PTL DEF Spec

-----------------------------------------------------------------------------
(* A step of thread u, or of its children, leaves another thread's state   *)
(* alone, and opens no end of its pipes.                                   *)

StepOf(u) == ThreadStep(u) \/ ThreadFault(u) \/ FilterStep(u) \/ WriterStep(u)

Untouched(t) ==
    /\ job' = job /\ pc'[t] = pc[t] /\ rv'[t] = rv[t] /\ r'[t] = r[t] /\ re'[t] = re[t]
    /\ fst'[t] = fst[t] /\ wst'[t] = wst[t] /\ ffd'[t] = ffd[t]
    /\ \A p \in Pipes : /\ buf'[<<t, p>>] = buf[<<t, p>>]
                        /\ sent'[<<t, p>>] = sent[<<t, p>>]

\* Ends of t's pipes that are open nowhere stay so; none is added to the host.
NothingOpened(t) ==
    /\ libfd' \cap EndsOf(t) \subseteq libfd
    /\ \A p \in Pipes : ~Held(<<t, p, "w">>) => ~Held(<<t, p, "w">>)'

\* Every end a call creates or hands to its filter is one of its own.
LEMMA PipeEndsOwn ==
    ASSUME NEW u \in Threads
    PROVE  PipeEnds(u) \subseteq EndsOf(u) /\ FilterEnds(u) \subseteq EndsOf(u)
BY DEF PipeEnds, FilterEnds

\* Two calls have no pipe end in common.
LEMMA EndsDisjoint ==
    ASSUME NEW t, NEW u, t # u
    PROVE  EndsOf(t) \cap EndsOf(u) = {}
BY DEF EndsOf

\* A step of one call leaves the program counters, results, children and
\* pipes of every other call alone.
LEMMA OthersUntouched ==
    ASSUME TypeOK, NEW t \in Threads, NEW u \in Threads, t # u, StepOf(u)
    PROVE  Untouched(t)
<1> USE DEF TypeOK, Untouched, procs, sigs, lib, Goto, Makeerror
<1>1. CASE ThreadStep(u)
  BY <1>1 DEF ThreadStep, Enter, NoBuffer, Builtin, CreatePipes, PipesFail, Spawn,
     SpawnFail, CloseChildEnds, ForkWriter, ForkFail, CloseStdin, ReadOut,
     ReadOutEof, ReadOutFull, ReadErr, ReadErrDone, CloseAll, WaitFilter,
     WaitWriter, Leave
<1>2. CASE ThreadFault(u)
  BY <1>2 DEF ThreadFault, ReadOutError, ReadErrError, WaitFilterFail, WaitWriterFail
<1>3. CASE FilterStep(u)
  <2>1. ASSUME NEW p \in {"out", "err"}, FilterWrite(u, p) PROVE Untouched(t)
    BY <2>1 DEF FilterWrite, PutUnit, Pipes
  <2>2. ASSUME NEW p \in Pipes, FilterChoose(u, p) PROVE Untouched(t)
    BY <2>2 DEF FilterChoose
  <2>3. CASE FilterRead(u) \/ FilterEof(u) \/ FilterExit(u)
    BY <2>3 DEF FilterRead, FilterEof, FilterExit
  <2> QED
    BY <1>3, <2>1, <2>2, <2>3 DEF FilterStep
<1>4. CASE WriterStep(u)
  BY <1>4 DEF WriterStep, WriterWrite, WriterExit, PutUnit
<1> QED
  BY <1>1, <1>2, <1>3, <1>4 DEF StepOf

\* A step of one call gives nobody a descriptor of another call's pipes that
\* was closed everywhere.
LEMMA OthersOpenNothing ==
    ASSUME TypeOK, NEW t \in Threads, NEW u \in Threads, t # u, StepOf(u)
    PROVE  NothingOpened(t)
<1> USE DEF TypeOK, NothingOpened, procs, sigs, lib, Goto, Makeerror
<1>1. CASE CreatePipes(u)
  <2>1. PipeEnds(u) \cap EndsOf(t) = {}
    BY PipeEndsOwn, EndsDisjoint
  <2>2. \A p \in Pipes : <<t, p, "w">> \in EndsOf(t)
    BY DEF EndsOf
  <2> QED
    BY <1>1, <2>1, <2>2 DEF CreatePipes, Held
<1>2. CASE Spawn(u)
  <2>1. FilterEnds(u) \cap EndsOf(t) = {}
    BY PipeEndsOwn, EndsDisjoint
  <2>2. \A p \in Pipes : <<t, p, "w">> \in EndsOf(t)
    BY DEF EndsOf
  <2> QED
    BY <1>2, <2>1, <2>2 DEF Spawn, Held
<1>3. CASE ForkWriter(u)
  BY <1>3 DEF ForkWriter, Held
<1>4. CASE CloseChildEnds(u) \/ CloseStdin(u) \/ ReadOutFull(u) \/ CloseAll(u)
  BY <1>4 DEF CloseChildEnds, CloseStdin, ReadOutFull, CloseAll, Held
<1>5. CASE FilterExit(u)
  BY <1>5 DEF FilterExit, Held
<1>6. CASE WriterExit(u)
  BY <1>6 DEF WriterExit, Held
<1>7. CASE UNCHANGED <<libfd, ffd, wfd>>
  BY <1>7 DEF Held
<1>8. CASE ThreadStep(u)
  BY <1>1, <1>2, <1>3, <1>4, <1>7, <1>8 DEF ThreadStep, Enter, NoBuffer, Builtin,
     PipesFail, SpawnFail, ForkFail, ReadOut, ReadOutEof, ReadErr, ReadErrDone,
     WaitFilter, WaitWriter, Leave
<1>9. CASE ThreadFault(u)
  BY <1>7, <1>9 DEF ThreadFault, ReadOutError, ReadErrError, WaitFilterFail,
     WaitWriterFail
<1>10. CASE FilterStep(u)
  BY <1>5, <1>7, <1>10 DEF FilterStep, FilterChoose, FilterRead, FilterEof, FilterWrite
<1>11. CASE WriterStep(u)
  BY <1>6, <1>7, <1>11 DEF WriterStep, WriterWrite
<1> QED
  BY <1>8, <1>9, <1>10, <1>11 DEF StepOf

\* Next is a step of some thread or of its children, or nothing.
LEMMA NextIsStepOf ==
    ASSUME [Next]_vars
    PROVE  UNCHANGED vars \/ \E u \in Threads : StepOf(u)
BY DEF Next, StepOf, Finished

-----------------------------------------------------------------------------
(* Descriptors.                                                            *)

\* Descriptors(t) is kept by the steps of the other calls.
LEMMA DescriptorsOther ==
    ASSUME TypeOK, NEW t \in Threads, Descriptors(t), Untouched(t), NothingOpened(t)
    PROVE  Descriptors(t)'
BY DEF Descriptors, Untouched, NothingOpened, Returned

\* Descriptors(t) is kept by the call's own steps: spawn opens, close closes.
LEMMA DescriptorsOwn ==
    ASSUME TypeOK, NEW t \in Threads, Descriptors(t), StepOf(t)
    PROVE  Descriptors(t)'
<1> USE DEF TypeOK, Descriptors, Returned, Early, Reading, procs, sigs, lib,
            Goto, Makeerror
<1>1. CASE Enter(t) \/ NoBuffer(t) \/ Builtin(t) \/ PipesFail(t) \/ SpawnFail(t)
  BY <1>1 DEF Enter, NoBuffer, Builtin, PipesFail, SpawnFail
<1>2. CASE CreatePipes(t)
  BY <1>2 DEF CreatePipes
<1>3. CASE Spawn(t)
  BY <1>3 DEF Spawn
<1>4. CASE CloseChildEnds(t)
  BY <1>4 DEF CloseChildEnds, HostSide, EndsOf, Pipes
<1>5. CASE ForkWriter(t) \/ ForkFail(t) \/ CloseStdin(t)
  BY <1>5 DEF ForkWriter, ForkFail, CloseStdin
<1>6. CASE ReadOut(t) \/ ReadOutEof(t) \/ ReadOutFull(t) \/ ReadErr(t) \/ ReadErrDone(t)
  BY <1>6 DEF ReadOut, ReadOutEof, ReadOutFull, ReadErr, ReadErrDone
<1>7. CASE CloseAll(t)
  BY <1>7 DEF CloseAll, HostSide
<1>8. CASE WaitFilter(t) \/ WaitWriter(t) \/ Leave(t)
  BY <1>8 DEF WaitFilter, WaitWriter, Leave, AfterFilterWait
<1>9. CASE ThreadFault(t)
  BY <1>9 DEF ThreadFault, ReadOutError, ReadErrError, WaitFilterFail,
     WaitWriterFail, AfterFilterWait
<1>10. CASE FilterStep(t)
  <2>1. pc[t] \notin Early /\ pc'[t] = pc[t] /\ libfd' = libfd /\ fst[t] # "none"
    BY <1>10 DEF FilterStep, FilterChoose, FilterRead, FilterEof, FilterWrite,
       FilterExit, Pipes
  <2> QED
    BY <2>1
<1>11. CASE WriterStep(t)
  BY <1>11 DEF WriterStep, WriterWrite, WriterExit
<1> QED
  BY <1>1, <1>2, <1>3, <1>4, <1>5, <1>6, <1>7, <1>8, <1>9, <1>10, <1>11
  DEF StepOf, ThreadStep

\* uncompressbuf() leaves no descriptor of its pipes open in the host once it
\* has spawned its filter, in any thread and on every path, faults included.
THEOREM DescriptorsClosed == Spec => []NoDescriptorLeft
<1> DEFINE Inv == \A t \in Threads : Descriptors(t)
<1>1. Init => Inv
  BY DEF Init, Descriptors, Returned, Reading
<1>2. TypeOK /\ Inv /\ [Next]_vars => Inv'
  <2> SUFFICES ASSUME TypeOK, Inv, [Next]_vars, NEW t \in Threads
               PROVE  Descriptors(t)'
    OBVIOUS
  <2>1. CASE UNCHANGED vars
    BY <2>1 DEF vars, Descriptors, Returned
  <2>2. ASSUME NEW u \in Threads, StepOf(u) PROVE Descriptors(t)'
    BY <2>2, DescriptorsOwn, DescriptorsOther, OthersUntouched, OthersOpenNothing
  <2> QED
    BY <2>1, <2>2, NextIsStepOf
<1>3. Inv => NoDescriptorLeft
  BY DEF NoDescriptorLeft, Descriptors
<1> QED
  BY <1>1, <1>2, <1>3, TypeInvariant, PTL DEF Spec

-----------------------------------------------------------------------------
(* Children.                                                               *)

\* Children(t) is kept by the steps of the other calls.
LEMMA ChildrenOther ==
    ASSUME TypeOK, NEW t \in Threads, Children(t), Untouched(t)
    PROVE  Children(t)'
BY DEF Children, Untouched, Returned

\* Children(t) is kept by the call's own steps and those of its children.
LEMMA ChildrenOwn ==
    ASSUME TypeOK, NEW t \in Threads, Children(t), StepOf(t)
    PROVE  Children(t)'
<1> USE DEF TypeOK, Children, Returned, Early, Reading, procs, sigs, lib,
            Goto, Makeerror
<1>1. CASE Enter(t) \/ NoBuffer(t) \/ Builtin(t) \/ CreatePipes(t) \/ PipesFail(t)
  BY <1>1 DEF Enter, NoBuffer, Builtin, CreatePipes, PipesFail
<1>2. CASE Spawn(t) \/ SpawnFail(t) \/ CloseChildEnds(t)
  BY <1>2 DEF Spawn, SpawnFail, CloseChildEnds
<1>3. CASE ForkWriter(t) \/ ForkFail(t) \/ CloseStdin(t)
  BY <1>3 DEF ForkWriter, ForkFail, CloseStdin
<1>4. CASE ReadOut(t) \/ ReadOutEof(t) \/ ReadOutFull(t) \/ ReadErr(t) \/ ReadErrDone(t)
  BY <1>4 DEF ReadOut, ReadOutEof, ReadOutFull, ReadErr, ReadErrDone
<1>5. CASE CloseAll(t) \/ Leave(t)
  BY <1>5 DEF CloseAll, Leave
<1>6. CASE WaitFilter(t)
  BY <1>6 DEF WaitFilter, AfterFilterWait
<1>7. CASE WaitWriter(t)
  BY <1>7 DEF WaitWriter
<1>8. CASE ThreadFault(t)
  BY <1>8 DEF ThreadFault, ReadOutError, ReadErrError, WaitFilterFail,
     WaitWriterFail, AfterFilterWait
<1>9. CASE FilterStep(t)
  <2>1. /\ fst[t] # "reaped" /\ pc' = pc /\ rv' = rv /\ wst' = wst /\ job' = job
    BY <1>9 DEF FilterStep, FilterChoose, FilterRead, FilterEof, FilterWrite,
       FilterExit, Pipes
  <2> QED
    BY <2>1
<1>10. CASE WriterStep(t)
  BY <1>10 DEF WriterStep, WriterWrite, WriterExit
<1> QED
  BY <1>1, <1>2, <1>3, <1>4, <1>5, <1>6, <1>7, <1>8, <1>9, <1>10
  DEF StepOf, ThreadStep

\* Children(t) is kept by every step, for every call.
LEMMA ChildrenStep ==
    ASSUME TypeOK, \A t \in Threads : Children(t), [Next]_vars
    PROVE  \A t \in Threads : Children(t)'
<1> SUFFICES ASSUME NEW t \in Threads PROVE Children(t)'
  OBVIOUS
<1>1. CASE UNCHANGED vars
  BY <1>1 DEF vars, Children, Returned
<1>2. ASSUME NEW u \in Threads, StepOf(u) PROVE Children(t)'
  BY <1>2, ChildrenOwn, ChildrenOther, OthersUntouched
<1> QED
  BY <1>1, <1>2, NextIsStepOf

\* Children(t) holds at the start.
LEMMA ChildrenInit == ASSUME Init PROVE \A t \in Threads : Children(t)
BY DEF Init, Children, Returned, Early, Reading

\* A call that reports OKDATA has waited for its filter and its writer.
THEOREM NoZombies == Spec => []ChildrenReaped
<1> DEFINE Inv == \A t \in Threads : Children(t)
<1>1. Init => Inv
  BY ChildrenInit
<1>2. TypeOK /\ Inv /\ [Next]_vars => Inv'
  BY ChildrenStep
<1>3. Inv => ChildrenReaped
  BY DEF ChildrenReaped, Children
<1> QED
  BY <1>1, <1>2, <1>3, TypeInvariant, PTL DEF Spec

-----------------------------------------------------------------------------
(* Data.                                                                   *)

\* Data(t) is kept by the steps of the other calls, whose writers may hold
\* copies of this call's descriptors.
LEMMA DataOther ==
    ASSUME TypeOK, NEW t \in Threads, Data(t), Untouched(t), NothingOpened(t)
    PROVE  Data(t)'
<1>1. FilterEnds(t)' = FilterEnds(t)
  BY DEF Untouched, FilterEnds, PipeEnds
<1>2. \A p \in {"out", "err"} : Drained(t, p) => Drained(t, p)'
  BY DEF Untouched, NothingOpened, Drained, Pipes
<1> QED
  BY <1>1, <1>2 DEF Data, Untouched, Pipes

\* A running filter holds the write ends of its own stdout and stderr.
LEMMA RunningHolds ==
    ASSUME TypeOK, NEW t \in Threads, Data(t), fst[t] \in Running
    PROVE  Held(<<t, "out", "w">>) /\ Held(<<t, "err", "w">>)
<1>1. {<<t, "out", "w">>, <<t, "err", "w">>} \subseteq FilterEnds(t)
  BY DEF FilterEnds, PipeEnds, EndsOf, Pipes
<1> QED
  BY <1>1 DEF Data, Held

\* Drained(t, p) is kept when pipe p is left alone and nothing is opened.
LEMMA DrainedStays ==
    ASSUME NEW t \in Threads, NEW p \in Pipes, Drained(t, p),
           buf'[<<t, p>>] = buf[<<t, p>>], libfd' \subseteq libfd,
           \A u \in Threads : ffd'[u] \subseteq ffd[u] /\ wfd'[u] \subseteq wfd[u]
    PROVE  Drained(t, p)'
BY DEF Drained, Held

\* Data(t) is kept by the call's own steps and those of its children.
LEMMA DataOwn ==
    ASSUME TypeOK, NEW t \in Threads, Descriptors(t), Children(t), Data(t), StepOf(t)
    PROVE  Data(t)'
<1> USE DEF TypeOK, procs, sigs, lib, Goto, Makeerror, Early, Reading, Late
<1>0. /\ "in" \in Pipes /\ "out" \in Pipes /\ "err" \in Pipes
      /\ \A p \in Pipes : buf[<<t, p>>] \in Nat /\ sent[<<t, p>>] \in Nat
      /\ r[t] \in Nat /\ re[t] \in Nat
  BY DEF Pipes
<1>1. job' = job /\ FilterEnds(t)' = FilterEnds(t)
  <2>1. job' = job
    BY DEF StepOf, ThreadStep, Enter, NoBuffer, Builtin, CreatePipes, PipesFail,
       Spawn, SpawnFail, CloseChildEnds, ForkWriter, ForkFail, CloseStdin, ReadOut,
       ReadOutEof, ReadOutFull, ReadErr, ReadErrDone, CloseAll, WaitFilter,
       WaitWriter, Leave, ThreadFault, ReadOutError, ReadErrError, WaitFilterFail,
       WaitWriterFail, FilterStep, FilterChoose, FilterRead, FilterEof,
       FilterWrite, FilterExit, WriterStep, WriterWrite, WriterExit
  <2> QED
    BY <2>1 DEF FilterEnds, PipeEnds
<1>2. CASE Enter(t) \/ NoBuffer(t) \/ Builtin(t) \/ CreatePipes(t) \/ PipesFail(t)
           \/ SpawnFail(t)
  BY <1>1, <1>2 DEF Data, Descriptors, Children, Enter, NoBuffer, Builtin,
     CreatePipes, PipesFail, SpawnFail, Running, Pipes
<1>3. CASE Spawn(t)
  BY <1>1, <1>3 DEF Data, Spawn
<1>4. CASE CloseChildEnds(t) \/ ForkWriter(t) \/ ForkFail(t) \/ CloseStdin(t)
  BY <1>1, <1>4 DEF Data, Children, CloseChildEnds, ForkWriter, ForkFail, CloseStdin
<1>5. CASE ReadOut(t)
  BY <1>1, <1>5 DEF Data, ReadOut, Pipes
<1>6. CASE ReadOutEof(t)
  <2>1. Drained(t, "out")'
    BY <1>6, <1>0, DrainedStays DEF Drained, AtEof, ReadOutEof
  <2> QED
    BY <1>1, <1>6, <2>1 DEF Data, ReadOutEof
<1>7. CASE ReadOutFull(t)
  BY <1>1, <1>7 DEF Data, ReadOutFull
<1>8. CASE ReadErr(t)
  <2>1. /\ buf'[<<t, "out">>] = buf[<<t, "out">>]
        /\ buf'[<<t, "err">>] = buf[<<t, "err">>] - 1
        /\ re'[t] = re[t] + 1 /\ pc'[t] = "readerr"
    BY <1>8, <1>0 DEF ReadErr
  <2>2. Drained(t, "out")'
    BY <1>8, <1>0, <2>1, DrainedStays DEF Data, ReadErr
  <2> QED
    BY <1>0, <1>1, <1>8, <2>1, <2>2 DEF Data, ReadErr
<1>9. CASE ReadErrDone(t)
  <2>1. Drained(t, "out")'
    BY <1>9, <1>0, DrainedStays DEF Data, ReadErrDone
  <2>2. AtEof(<<t, "err">>) => Drained(t, "err")'
    BY <1>9, <1>0, DrainedStays DEF Drained, AtEof, ReadErrDone
  <2>3. rv'[t] = "OKDATA" /\ r[t] < BytesMax => re[t] = 0 /\ AtEof(<<t, "err">>)
    BY <1>9, <1>0 DEF ReadErrDone
  <2>4. buf[<<t, "out">>] = 0 /\ (AtEof(<<t, "err">>) => buf[<<t, "err">>] = 0)
    BY <1>9 DEF Data, Drained, AtEof, ReadErrDone
  <2> QED
    BY <1>0, <1>1, <1>9, <2>1, <2>2, <2>3, <2>4 DEF Data, ReadErrDone
<1>10. CASE CloseAll(t) \/ WaitFilter(t) \/ WaitWriter(t) \/ Leave(t)
  <2>1. /\ UNCHANGED <<rv, r, ffd, wfd, buf, sent>> /\ libfd' \subseteq libfd
        /\ pc[t] \in Late /\ pc'[t] \in Late
        /\ fst'[t] \in Running => fst'[t] = fst[t]
    BY <1>10 DEF CloseAll, WaitFilter, WaitWriter, Leave, AfterFilterWait, Running,
       Pipes
  <2>2. \A p \in {"out", "err"} : Drained(t, p) => Drained(t, p)'
    BY <1>0, <2>1, DrainedStays
  <2> QED
    BY <1>1, <2>1, <2>2 DEF Data
<1>11. CASE ThreadFault(t)
  BY <1>1, <1>11 DEF Data, ThreadFault, ReadOutError, ReadErrError,
     WaitFilterFail, WaitWriterFail, AfterFilterWait
<1>12. CASE FilterStep(t)
  <2>1. ASSUME NEW p \in Pipes, FilterChoose(t, p) PROVE Data(t)'
    BY <1>1, <2>1 DEF Data, Drained, Held, FilterChoose, Running
  <2>2. CASE FilterRead(t) \/ FilterEof(t)
    <3>1. /\ \A p \in {"out", "err"} : buf'[<<t, p>>] = buf[<<t, p>>]
          /\ UNCHANGED <<pc, rv, r, re, libfd, ffd, wfd, sent>>
          /\ fst[t] \in Running
      BY <1>0, <2>2 DEF FilterRead, FilterEof, Running
    <3>2. \A p \in {"out", "err"} : Drained(t, p) => Drained(t, p)'
      BY <1>0, <3>1, DrainedStays
    <3> QED
      BY <1>1, <3>1, <3>2 DEF Data
  <2>3. ASSUME NEW p \in {"out", "err"}, FilterWrite(t, p) PROVE Data(t)'
    <3>1. pc[t] \notin Early /\ Held(<<t, "out", "w">>) /\ Held(<<t, "err", "w">>)
      BY <2>3, RunningHolds DEF FilterWrite, Running, Pipes, Descriptors
    <3> QED
      <4>1. pc[t] # "readerr" /\ ~(/\ pc[t] \in Late /\ rv[t] = "OKDATA"
                                  /\ ~job[t].builtin /\ r[t] < BytesMax)
        BY <3>1 DEF Data, Drained
      <4>2. /\ UNCHANGED <<pc, rv, r, re, ffd>> /\ fst[t] \in Running
            /\ buf' = [buf EXCEPT ![<<t, p>>] = buf[<<t, p>>] + 1]
            /\ sent' = [sent EXCEPT ![<<t, p>>] = sent[<<t, p>>] + 1]
        BY <2>3 DEF FilterWrite, PutUnit, Running, Pipes
      <4>3. CASE p = "out"
        <5>1. /\ sent'[<<t, "out">>] = sent[<<t, "out">>] + 1
              /\ buf'[<<t, "out">>] = buf[<<t, "out">>] + 1
              /\ sent'[<<t, "err">>] = sent[<<t, "err">>]
              /\ buf'[<<t, "err">>] = buf[<<t, "err">>]
          BY <1>0, <4>2, <4>3
        <5> QED
          BY <1>0, <1>1, <4>1, <4>2, <5>1 DEF Data
      <4>4. CASE p = "err"
        <5>1. /\ sent'[<<t, "err">>] = sent[<<t, "err">>] + 1
              /\ buf'[<<t, "err">>] = buf[<<t, "err">>] + 1
              /\ sent'[<<t, "out">>] = sent[<<t, "out">>]
              /\ buf'[<<t, "out">>] = buf[<<t, "out">>]
          BY <1>0, <4>2, <4>4
        <5> QED
          BY <1>0, <1>1, <4>1, <4>2, <5>1 DEF Data
      <4> QED
        BY <4>3, <4>4
  <2>4. CASE FilterExit(t)
    BY <1>1, <2>4 DEF Data, Drained, Held, FilterExit, Running, Pipes
  <2> QED
    BY <1>12, <2>1, <2>2, <2>3, <2>4 DEF FilterStep
<1>13. CASE WriterStep(t)
  <2>1. /\ \A p \in {"out", "err"} : /\ buf'[<<t, p>>] = buf[<<t, p>>]
                                     /\ sent'[<<t, p>>] = sent[<<t, p>>]
        /\ UNCHANGED <<pc, rv, r, re, libfd, ffd, fst>>
        /\ \A u \in Threads : wfd'[u] \subseteq wfd[u]
    <3>1. CASE WriterWrite(t)
      BY <1>0, <3>1 DEF WriterWrite, PutUnit
    <3>2. CASE WriterExit(t)
      BY <3>2 DEF WriterExit
    <3> QED
      BY <1>13, <3>1, <3>2 DEF WriterStep
  <2>2. \A p \in {"out", "err"} : Drained(t, p) => Drained(t, p)'
    BY <1>0, <2>1, DrainedStays
  <2> QED
    BY <1>1, <2>1, <2>2 DEF Data
<1> QED
  BY <1>2, <1>3, <1>4, <1>5, <1>6, <1>7, <1>8, <1>9, <1>10, <1>11, <1>12, <1>13
  DEF StepOf, ThreadStep

\* When OKDATA comes with less than bytes_max, the caller has everything the
\* filter ever wrote, whatever the other threads and their children do.
THEOREM NothingLost == Spec => []CompleteData
<1> DEFINE Inv == \A t \in Threads : Descriptors(t) /\ Children(t) /\ Data(t)
<1>1. Init => Inv
  <2>1. Init => \A t \in Threads : Descriptors(t)
    BY DEF Init, Descriptors, Returned, Reading
  <2>2. Init => \A t \in Threads : Data(t)
    BY DEF Init, Data, Running, Pipes, Late
  <2> QED
    BY <2>1, <2>2, ChildrenInit
<1>2. TypeOK /\ Inv /\ [Next]_vars => Inv'
  <2> SUFFICES ASSUME TypeOK, Inv, [Next]_vars, NEW t \in Threads
               PROVE  Descriptors(t)' /\ Children(t)' /\ Data(t)'
    OBVIOUS
  <2>1. CASE UNCHANGED vars
    BY <2>1 DEF vars, Descriptors, Children, Data, Returned, Drained, Held,
       FilterEnds, PipeEnds
  <2>2. ASSUME NEW u \in Threads, StepOf(u)
        PROVE  Descriptors(t)' /\ Children(t)' /\ Data(t)'
    <3>1. CASE u = t
      BY <2>2, <3>1, DescriptorsOwn, ChildrenOwn, DataOwn
    <3>2. CASE u # t
      BY <2>2, <3>2, DescriptorsOther, ChildrenOther, DataOther, OthersUntouched,
         OthersOpenNothing
    <3> QED
      BY <3>1, <3>2
  <2> QED
    BY <2>1, <2>2, NextIsStepOf
<1>3. Inv => CompleteData
  BY DEF CompleteData, Data, Returned, Late
<1> QED
  BY <1>1, <1>2, <1>3, TypeInvariant, PTL DEF Spec

-----------------------------------------------------------------------------
(* SIGPIPE.                                                                *)

\* While SIGPIPE is ignored, the thread that must put it back is in the call.
SomebodyRestores ==
    sig = "ign" => \E t \in Threads : pc[t] \notin {"idle", "done"} /\ saved[t] = "host"

\* The host gets its SIGPIPE disposition back when the last call is over, in
\* whatever order the calls of file_zmagic() began and ended.
THEOREM SigpipeComesBack == Spec => []SigpipeRestored
<1>1. Init => SomebodyRestores
  BY DEF Init, SomebodyRestores
<1>2. TypeOK /\ SomebodyRestores /\ [Next]_vars => SomebodyRestores'
  <2> SUFFICES ASSUME TypeOK, SomebodyRestores, [Next]_vars PROVE SomebodyRestores'
    OBVIOUS
  <2> USE DEF TypeOK, SomebodyRestores, procs, sigs, lib, Goto, Makeerror
  <2>1. CASE UNCHANGED vars
    BY <2>1 DEF vars
  <2>2. ASSUME NEW u \in Threads, Enter(u) PROVE SomebodyRestores'
    <3>1. pc' = [pc EXCEPT ![u] = "start"] /\ saved' = [saved EXCEPT ![u] = sig]
          /\ pc[u] = "idle"
      BY <2>2 DEF Enter
    <3>2. CASE sig = "host"
      BY <3>1, <3>2
    <3>3. CASE sig = "ign"
      BY <3>1, <3>3
    <3> QED
      BY <3>2, <3>3
  <2>3. ASSUME NEW u \in Threads, Leave(u) PROVE SomebodyRestores'
    <3>1. CASE saved[u] = "ign"
      BY <2>3, <3>1 DEF Leave
    <3>2. CASE saved[u] = "host"
      BY <2>3, <3>2 DEF Leave
    <3> QED
      BY <3>1, <3>2
  <2>4. ASSUME NEW u \in Threads, UNCHANGED <<sig, saved>>,
               pc'[u] \notin {"idle", "done"},
               \A t \in Threads : t # u => pc'[t] = pc[t]
        PROVE  SomebodyRestores'
    BY <2>4
  <2>5. ASSUME NEW u \in Threads, StepOf(u) PROVE SomebodyRestores'
    <3>1. \/ Enter(u) \/ Leave(u) \/ UNCHANGED <<sig, saved, pc>>
          \/ UNCHANGED <<sig, saved>> /\ pc'[u] \notin {"idle", "done"}
      <4> USE DEF StepOf
      <4>1. CASE FilterStep(u) \/ WriterStep(u)
        BY <4>1 DEF FilterStep, FilterChoose, FilterRead, FilterEof, FilterWrite, FilterExit,
           WriterStep, WriterWrite, WriterExit
      <4>2. CASE ThreadFault(u)
        BY <4>2 DEF ThreadFault, ReadOutError, ReadErrError, WaitFilterFail, WaitWriterFail, AfterFilterWait
      <4>3. CASE ThreadStep(u)
        <5>1. CASE \/ NoBuffer(u) \/ Builtin(u) \/ CreatePipes(u) \/ PipesFail(u) \/ Spawn(u) \/ SpawnFail(u)
                   \/ CloseChildEnds(u) \/ ForkWriter(u) \/ ForkFail(u) \/ CloseStdin(u)
          BY <5>1 DEF NoBuffer, Builtin, CreatePipes, PipesFail, Spawn, SpawnFail, CloseChildEnds,
             ForkWriter, ForkFail, CloseStdin
        <5>2. CASE \/ ReadOut(u) \/ ReadOutEof(u) \/ ReadOutFull(u) \/ ReadErr(u) \/ ReadErrDone(u)
                   \/ CloseAll(u) \/ WaitFilter(u) \/ WaitWriter(u)
          BY <5>2 DEF ReadOut, ReadOutEof, ReadOutFull, ReadErr, ReadErrDone, CloseAll,
             WaitFilter, WaitWriter, AfterFilterWait
        <5> QED
          BY <4>3, <5>1, <5>2 DEF ThreadStep
      <4> QED
        BY <2>5, <4>1, <4>2, <4>3
    <3>2. \A t \in Threads : t # u => pc'[t] = pc[t]
      BY <2>5, OthersUntouched DEF Untouched
    <3> QED
      BY <2>2, <2>3, <2>4, <3>1, <3>2
  <2> QED
    BY <2>1, <2>5, NextIsStepOf
<1>3. TypeOK /\ SomebodyRestores => SigpipeRestored
  BY DEF TypeOK, SomebodyRestores, SigpipeRestored
<1> QED
  BY <1>1, <1>2, <1>3, TypeInvariant, PTL DEF Spec

-----------------------------------------------------------------------------
(* Nobody waits for everybody.                                             *)

\* What each process of a call has open, and where the others are meanwhile.
Waiting(t) ==
    /\ wst[t] # "run" => wfd[t] = {}
    /\ ffd[t] = IF fst[t] \in Running THEN FilterEnds(t) ELSE {}
    /\ \A p \in Pipes : buf[<<t, p>>] <= sent[<<t, p>>]
    /\ fst[t] = "err" => sent[<<t, "err">>] < job[t].size["err"]
    /\ wst[t] = "run" => sent[<<t, "in">>] <= job[t].size["in"]
    /\ pc[t] \in Early \cup {"closechild", "fork"} => sent[<<t, "in">>] = 0
    /\ job[t].fd \/ pc[t] = "readout" => <<t, "in", "w">> \notin libfd
    /\ pc[t] \in Early => fst[t] = "none"
    /\ pc[t] \in Reading \cup {"close", "waitfilter"}
          => fst[t] \in Running \cup {"exited"}
    /\ pc[t] = "readerr" => fst[t] \notin Running
    /\ pc[t] \in Early \cup {"closechild", "fork"} => wst[t] = "none"
    /\ ~Returned(t) => wst[t] # "reaped"
    /\ pc[t] = "waitwriter" => wst[t] # "none"

\* The input of every call, and what its filter says on stderr, fit into a pipe.
FitsIntoPipes == \A j \in Jobs : j.size["in"] <= Cap /\ j.size["err"] <= Cap

\* Only the call itself and its children touch what Waiting(t) is about; what
\* another call's writer does is told by the program counter alone.
LEMMA WaitingOther ==
    ASSUME TypeOK, NEW t \in Threads, NEW u \in Threads, t # u, StepOf(u), Waiting(t)
    PROVE  Waiting(t)'
<1>1. Untouched(t) /\ NothingOpened(t)
  BY OthersUntouched, OthersOpenNothing
<1>2. wfd'[t] = wfd[t]
  BY DEF StepOf, TypeOK, procs, sigs, lib, ThreadStep, Enter, NoBuffer, Builtin, CreatePipes,
     PipesFail, Spawn, SpawnFail, CloseChildEnds, ForkWriter, ForkFail, CloseStdin, ReadOut,
     ReadOutEof, ReadOutFull, ReadErr, ReadErrDone, CloseAll, WaitFilter, WaitWriter, Leave,
     ThreadFault, ReadOutError, ReadErrError, WaitFilterFail, WaitWriterFail,
     FilterStep, FilterChoose, FilterRead, FilterEof, FilterWrite, FilterExit,
     WriterStep, WriterWrite, WriterExit
<1>3. FilterEnds(t)' = FilterEnds(t)
  BY <1>1 DEF Untouched, FilterEnds, PipeEnds
<1>4. <<t, "in", "w">> \notin libfd => <<t, "in", "w">> \notin libfd'
  BY <1>1 DEF NothingOpened, EndsOf, Pipes
<1> QED
  BY <1>1, <1>2, <1>3, <1>4 DEF Waiting, Untouched, Returned, Pipes

\* Waiting(t) is kept by the call's own steps and those of its children.
LEMMA WaitingOwn ==
    ASSUME TypeOK, NEW t \in Threads, Waiting(t), StepOf(t)
    PROVE  Waiting(t)'
<1> USE DEF TypeOK, procs, sigs, lib, Goto, Makeerror, Early, Reading, Returned
<1>0. /\ "in" \in Pipes /\ "out" \in Pipes /\ "err" \in Pipes
      /\ job[t] \in JobType
  BY DEF Pipes
<1>1. job' = job /\ FilterEnds(t)' = FilterEnds(t) /\ PipeEnds(t)' = PipeEnds(t)
  <2>1. job' = job
    BY DEF StepOf, ThreadStep, Enter, NoBuffer, Builtin, CreatePipes,
     PipesFail, Spawn, SpawnFail, CloseChildEnds, ForkWriter, ForkFail, CloseStdin, ReadOut,
     ReadOutEof, ReadOutFull, ReadErr, ReadErrDone, CloseAll, WaitFilter, WaitWriter, Leave,
     ThreadFault, ReadOutError, ReadErrError, WaitFilterFail, WaitWriterFail,
     FilterStep, FilterChoose, FilterRead, FilterEof, FilterWrite, FilterExit,
     WriterStep, WriterWrite, WriterExit
  <2> QED
    BY <2>1 DEF FilterEnds, PipeEnds
<1> USE DEF Waiting, Running
<1>2. CASE Enter(t) \/ NoBuffer(t) \/ Builtin(t) \/ PipesFail(t) \/ SpawnFail(t)
  BY <1>0, <1>1, <1>2 DEF Enter, NoBuffer, Builtin, PipesFail, SpawnFail
<1>3. CASE CreatePipes(t)
  <2>1. job[t].fd => <<t, "in", "w">> \notin PipeEnds(t)
    BY DEF PipeEnds
  <2> QED
    BY <1>0, <1>1, <1>3, <2>1 DEF CreatePipes
<1>4. CASE Spawn(t)
  BY <1>0, <1>1, <1>4 DEF Spawn
<1>5. CASE CloseChildEnds(t)
  BY <1>0, <1>1, <1>5 DEF CloseChildEnds
<1>6. CASE ForkWriter(t) \/ ForkFail(t)
  <2>1. job[t].size["in"] \in Nat
    BY <1>0 DEF JobType
  <2>2. CASE ForkWriter(t)
    <3>1. sent'[<<t, "in">>] = 0 /\ 0 <= job[t].size["in"]
      BY <1>0, <2>1, <2>2 DEF ForkWriter
    <3> QED
      BY <1>0, <1>1, <2>2, <3>1 DEF ForkWriter
  <2>3. CASE ForkFail(t)
    BY <1>0, <1>1, <2>3 DEF ForkFail
  <2> QED
    BY <1>6, <2>2, <2>3
<1>7. CASE CloseStdin(t)
  BY <1>0, <1>1, <1>7 DEF CloseStdin
<1>8. CASE ReadOut(t) \/ ReadErr(t)
  <2>1. \A p \in Pipes : buf'[<<t, p>>] <= sent'[<<t, p>>]
    <3> SUFFICES ASSUME NEW p \in Pipes PROVE buf'[<<t, p>>] <= sent'[<<t, p>>]
      OBVIOUS
    <3>1. /\ buf[<<t, p>>] \in Nat /\ sent[<<t, p>>] \in Nat /\ sent' = sent
          /\ buf[<<t, p>>] <= sent[<<t, p>>]
      BY <1>8 DEF ReadOut, ReadErr
    <3>2. buf'[<<t, p>>] \in {buf[<<t, p>>], buf[<<t, p>>] - 1}
      <4>1. CASE ReadOut(t)
        BY <1>0, <4>1 DEF ReadOut
      <4>2. CASE ReadErr(t)
        BY <1>0, <4>2 DEF ReadErr
      <4> QED
        BY <1>8, <4>1, <4>2
    <3> QED
      BY <3>1, <3>2
  <2>2. UNCHANGED <<pc, fst, wst, wfd, ffd, sent, libfd>>
    BY <1>8 DEF ReadOut, ReadErr
  <2> QED
    BY <1>1, <2>1, <2>2
<1>9. CASE ReadOutEof(t)
  <2>1. fst[t] \notin Running
    <3>1. <<t, "out", "w">> \in FilterEnds(t)
      BY DEF FilterEnds, PipeEnds, EndsOf, Pipes
    <3> QED
      BY <1>9, <3>1 DEF ReadOutEof, AtEof, Held
  <2> QED
    BY <1>0, <1>1, <1>9, <2>1 DEF ReadOutEof
<1>10. CASE ReadOutFull(t) \/ ReadErrDone(t) \/ CloseAll(t)
  <2>1. CASE ReadOutFull(t)
    BY <1>0, <1>1, <2>1 DEF ReadOutFull
  <2>2. CASE ReadErrDone(t)
    BY <1>0, <1>1, <2>2 DEF ReadErrDone
  <2>3. CASE CloseAll(t)
    BY <1>0, <1>1, <2>3 DEF CloseAll
  <2> QED
    BY <1>10, <2>1, <2>2, <2>3
<1>11. CASE WaitFilter(t) \/ WaitWriter(t) \/ Leave(t)
  <2>1. CASE WaitFilter(t)
    BY <1>0, <1>1, <2>1 DEF WaitFilter, AfterFilterWait, Pipes
  <2>2. CASE WaitWriter(t)
    BY <1>0, <1>1, <2>2 DEF WaitWriter
  <2>3. CASE Leave(t)
    BY <1>0, <1>1, <2>3 DEF Leave
  <2> QED
    BY <1>11, <2>1, <2>2, <2>3
<1>12. CASE ThreadFault(t)
  <2>1. CASE ReadOutError(t)
    BY <1>0, <1>1, <2>1 DEF ReadOutError
  <2>2. CASE ReadErrError(t)
    BY <1>0, <1>1, <2>2 DEF ReadErrError
  <2>3. CASE WaitFilterFail(t)
    BY <1>0, <1>1, <2>3 DEF WaitFilterFail, AfterFilterWait
  <2>4. CASE WaitWriterFail(t)
    BY <1>0, <1>1, <2>4 DEF WaitWriterFail
  <2> QED
    BY <1>12, <2>1, <2>2, <2>3, <2>4 DEF ThreadFault
<1>13. CASE FilterStep(t)
  <2>1. CASE FilterRead(t)
    <3>1. \A p \in Pipes : buf'[<<t, p>>] <= sent'[<<t, p>>]
      <4> SUFFICES ASSUME NEW p \in Pipes PROVE buf'[<<t, p>>] <= sent'[<<t, p>>]
        OBVIOUS
      <4>1. /\ buf[<<t, p>>] \in Nat /\ sent[<<t, p>>] \in Nat /\ sent' = sent
            /\ buf[<<t, p>>] <= sent[<<t, p>>]
        BY <2>1 DEF FilterRead
      <4>2. buf'[<<t, p>>] \in {buf[<<t, p>>], buf[<<t, p>>] - 1}
        BY <1>0, <2>1 DEF FilterRead
      <4> QED
        BY <4>1, <4>2
    <3>2. UNCHANGED <<pc, wst, wfd, ffd, sent, libfd>>
      BY <2>1 DEF FilterRead
    <3>3. fst[t] = "in" /\ fst'[t] = "think"
      BY <2>1 DEF FilterRead
    <3> QED
      BY <1>1, <3>1, <3>2, <3>3
  <2>5. CASE FilterEof(t)
    BY <1>0, <1>1, <2>5 DEF FilterEof
  <2>2. CASE FilterExit(t)
    BY <1>0, <1>1, <2>2 DEF FilterExit, Pipes
  <2>3. ASSUME NEW p \in Pipes, FilterChoose(t, p) PROVE Waiting(t)'
    BY <1>0, <1>1, <2>3 DEF FilterChoose, Pipes
  <2>4. ASSUME NEW p \in {"out", "err"}, FilterWrite(t, p) PROVE Waiting(t)'
    <3>1. \A q \in Pipes : buf'[<<t, q>>] <= sent'[<<t, q>>]
      <4> SUFFICES ASSUME NEW q \in Pipes PROVE buf'[<<t, q>>] <= sent'[<<t, q>>]
        OBVIOUS
      <4>1. /\ buf[<<t, q>>] \in Nat /\ sent[<<t, q>>] \in Nat
            /\ buf[<<t, q>>] <= sent[<<t, q>>]
        OBVIOUS
      <4>2. \/ buf'[<<t, q>>] = buf[<<t, q>>] /\ sent'[<<t, q>>] = sent[<<t, q>>]
            \/ buf'[<<t, q>>] = buf[<<t, q>>] + 1 /\ sent'[<<t, q>>] = sent[<<t, q>>] + 1
        BY <1>0, <2>4 DEF FilterWrite, PutUnit
      <4> QED
        BY <4>1, <4>2
    <3>2. UNCHANGED <<pc, wst, wfd, ffd, libfd>> /\ sent'[<<t, "in">>] = sent[<<t, "in">>]
      BY <1>0, <2>4 DEF FilterWrite, PutUnit
    <3>3. fst[t] \in {"out", "err"} /\ fst[t] \in Running /\ fst'[t] = "think"
      BY <2>4 DEF FilterWrite, Pipes
    <3> QED
      BY <1>1, <3>1, <3>2, <3>3
  <2> QED
    BY <1>13, <2>1, <2>2, <2>3, <2>4, <2>5 DEF FilterStep
<1>14. CASE WriterStep(t)
  <2>1. job[t].size["in"] \in Nat
    BY <1>0 DEF JobType
  <2>2. CASE WriterWrite(t)
    <3>1. \A q \in Pipes : buf'[<<t, q>>] <= sent'[<<t, q>>]
      <4> SUFFICES ASSUME NEW q \in Pipes PROVE buf'[<<t, q>>] <= sent'[<<t, q>>]
        OBVIOUS
      <4>1. /\ buf[<<t, q>>] \in Nat /\ sent[<<t, q>>] \in Nat
            /\ buf[<<t, q>>] <= sent[<<t, q>>]
        OBVIOUS
      <4>2. \/ buf'[<<t, q>>] = buf[<<t, q>>] /\ sent'[<<t, q>>] = sent[<<t, q>>]
            \/ buf'[<<t, q>>] = buf[<<t, q>>] + 1 /\ sent'[<<t, q>>] = sent[<<t, q>>] + 1
        BY <1>0, <2>2 DEF WriterWrite, PutUnit
      <4> QED
        BY <4>1, <4>2
    <3>2. /\ UNCHANGED <<pc, fst, wst, wfd, ffd, libfd>>
          /\ sent'[<<t, "err">>] = sent[<<t, "err">>] /\ wst[t] = "run"
      BY <1>0, <2>2 DEF WriterWrite, PutUnit
    <3>3. sent'[<<t, "in">>] <= job[t].size["in"]
      <4>1. sent[<<t, "in">>] \in Nat /\ sent[<<t, "in">>] < job[t].size["in"]
        BY <1>0, <2>2 DEF WriterWrite
      <4>2. sent'[<<t, "in">>] = sent[<<t, "in">>] + 1
        BY <1>0, <2>2 DEF WriterWrite, PutUnit
      <4> QED
        BY <2>1, <4>1, <4>2
    <3> QED
      BY <1>1, <3>1, <3>2, <3>3
  <2>3. CASE WriterExit(t)
    BY <1>0, <1>1, <2>3 DEF WriterExit
  <2> QED
    BY <1>14, <2>2, <2>3 DEF WriterStep
<1> HIDE DEF Waiting
<1> QED
  BY <1>2, <1>3, <1>4, <1>5, <1>6, <1>7, <1>8, <1>9, <1>10, <1>11, <1>12, <1>13, <1>14
  DEF StepOf, ThreadStep

\* When no writer runs, an end of a call's pipes is held by the host or by the
\* call's own filter, and a filter holds the ends it was given and no other.
LEMMA HeldByOwn ==
    ASSUME TypeOK, \A u \in Threads : Waiting(u) /\ wst[u] # "run",
           NEW t \in Threads, NEW p \in Pipes, NEW s \in {"r", "w"}, Held(<<t, p, s>>)
    PROVE  \/ <<t, p, s>> \in libfd
           \/ fst[t] \in Running /\ <<t, p, s>> \in FilterEnds(t)
<1>1. \A u \in Threads : wfd[u] = {}
  BY DEF Waiting
<1>2. ASSUME NEW u \in Threads, <<t, p, s>> \in ffd[u]
      PROVE  fst[t] \in Running /\ <<t, p, s>> \in FilterEnds(t)
  <2>1. fst[u] \in Running /\ <<t, p, s>> \in FilterEnds(u)
    BY <1>2 DEF Waiting
  <2>2. <<t, p, s>> \in EndsOf(u)
    BY <2>1, PipeEndsOwn
  <2>3. u = t
    BY <2>2 DEF EndsOf
  <2> QED
    BY <2>1, <2>3
<1> QED
  BY <1>1, <1>2 DEF Held

\* A filter whose call is reading its stdout, or waits for it to exit, is not
\* kept waiting once no writer runs.
LEMMA FilterMoves ==
    ASSUME TypeOK, FitsIntoPipes, \A u \in Threads : Waiting(u) /\ wst[u] # "run",
           NEW t \in Threads, Descriptors(t), fst[t] \in Running,
           \/ pc[t] = "readout" /\ buf[<<t, "out">>] = 0
           \/ pc[t] = "waitfilter"
    PROVE  ~FilterWaits(t)
<1>0. /\ "in" \in Pipes /\ "out" \in Pipes /\ "err" \in Pipes
      /\ job[t] \in Jobs /\ job[t] \in JobType
  BY DEF Pipes, TypeOK
<1>1. /\ <<t, "in", "w">> \notin FilterEnds(t)
      /\ <<t, "out", "r">> \notin FilterEnds(t) /\ <<t, "err", "r">> \notin FilterEnds(t)
  BY DEF FilterEnds
<1>2. <<t, "in", "w">> \notin libfd
  <2>1. <<t, "in", "w">> \in EndsOf(t)
    BY DEF EndsOf, Pipes
  <2> QED
    BY <2>1 DEF Waiting, Descriptors
<1>3. ~Held(<<t, "in", "w">>)
  BY <1>0, <1>1, <1>2, HeldByOwn
<1>4. CASE fst[t] = "in"
  BY <1>3, <1>4 DEF FilterWaits, AtEof
<1>5. CASE fst[t] \in {"out", "err"} /\ pc[t] = "waitfilter"
  <2>1. <<t, "out", "r">> \in EndsOf(t) /\ <<t, "err", "r">> \in EndsOf(t)
    BY DEF EndsOf, Pipes
  <2>2. <<t, "out", "r">> \notin libfd /\ <<t, "err", "r">> \notin libfd
    BY <1>5, <2>1 DEF Descriptors
  <2>3. ~Held(<<t, "out", "r">>) /\ ~Held(<<t, "err", "r">>)
    BY <1>0, <1>1, <2>2, HeldByOwn
  <2> QED
    BY <1>5, <2>3 DEF FilterWaits
<1>6. CASE fst[t] = "out" /\ pc[t] = "readout"
  BY <1>6 DEF FilterWaits
<1>7. CASE fst[t] = "err"
  <2>1. job[t].size["err"] \in Nat /\ job[t].size["err"] <= Cap
    BY <1>0 DEF JobType, FitsIntoPipes
  <2>2. buf[<<t, "err">>] <= sent[<<t, "err">>] /\ sent[<<t, "err">>] < job[t].size["err"]
    BY <1>0, <1>7 DEF Waiting
  <2>3. buf[<<t, "err">>] \in Nat /\ sent[<<t, "err">>] \in Nat
    BY <1>0 DEF TypeOK
  <2>4. buf[<<t, "err">>] # Cap
    BY <2>1, <2>2, <2>3
  <2> QED
    BY <1>7, <2>4 DEF FilterWaits
<1>8. CASE fst[t] = "think"
  BY <1>8 DEF FilterWaits
<1> QED
  BY <1>4, <1>5, <1>6, <1>7, <1>8 DEF Running, Pipes

\* The invariant excludes that everybody waits.  A writer never does, for its
\* input fits into the pipe; and without writers each call stands alone.
LEMMA SomebodyMoves ==
    ASSUME TypeOK, FitsIntoPipes, \A u \in Threads : Waiting(u) /\ Descriptors(u)
    PROVE  NobodyStuck
<1> SUFFICES ASSUME ~NobodyStuck PROVE FALSE
  OBVIOUS
<1>0. /\ "in" \in Pipes /\ "out" \in Pipes /\ "err" \in Pipes
  BY DEF Pipes
<1>1. ASSUME NEW u \in Threads PROVE wst[u] # "run"
  <2> SUFFICES ASSUME wst[u] = "run" PROVE FALSE
    OBVIOUS
  <2>1. sent[<<u, "in">>] # job[u].size["in"] /\ buf[<<u, "in">>] = Cap
    BY DEF NobodyStuck, WriterWaits
  <2>2. job[u] \in Jobs /\ job[u] \in JobType
    BY DEF TypeOK
  <2>3. job[u].size["in"] \in Nat /\ job[u].size["in"] <= Cap
    BY <1>0, <2>2 DEF JobType, FitsIntoPipes
  <2>4. /\ buf[<<u, "in">>] <= sent[<<u, "in">>]
        /\ sent[<<u, "in">>] <= job[u].size["in"]
    BY <1>0 DEF Waiting
  <2>5. sent[<<u, "in">>] \in Nat
    BY <1>0 DEF TypeOK
  <2> QED
    BY <2>1, <2>3, <2>4, <2>5
<1>2. PICK t \in Threads : pc[t] # "done" /\ ThreadWaits(t)
  BY DEF NobodyStuck, Done
<1>3. \A u \in Threads : Waiting(u) /\ wst[u] # "run"
  BY <1>1
<1>4. fst[t] \in Running => FilterWaits(t)
  BY DEF NobodyStuck
<1>5. pc[t] \in {"readout", "readerr"}
        => <<t, "out", "w">> \notin libfd /\ <<t, "err", "w">> \notin libfd
  <2>1. <<t, "out", "w">> \in EndsOf(t) /\ <<t, "err", "w">> \in EndsOf(t)
    BY DEF EndsOf, Pipes
  <2>2. <<t, "out", "w">> \notin HostSide(t) /\ <<t, "err", "w">> \notin HostSide(t)
    BY DEF HostSide
  <2> QED
    BY <2>1, <2>2 DEF Descriptors, Reading
<1>6. CASE pc[t] = "readout"
  <2>1. buf[<<t, "out">>] = 0 /\ Held(<<t, "out", "w">>)
    BY <1>2, <1>6 DEF ThreadWaits, AtEof
  <2>2. fst[t] \in Running
    BY <1>0, <1>3, <1>5, <1>6, <2>1, HeldByOwn
  <2> QED
    BY <1>3, <1>4, <1>6, <2>1, <2>2, FilterMoves
<1>7. CASE pc[t] = "readerr"
  <2>1. Held(<<t, "err", "w">>)
    BY <1>2, <1>7 DEF ThreadWaits, AtEof
  <2>2. fst[t] \in Running
    BY <1>0, <1>3, <1>5, <1>7, <2>1, HeldByOwn
  <2> QED
    BY <1>3, <1>7, <2>2 DEF Waiting
<1>8. CASE pc[t] = "waitfilter"
  <2>1. fst[t] \in Running
    BY <1>2, <1>3, <1>8 DEF ThreadWaits, Waiting
  <2> QED
    BY <1>3, <1>4, <1>8, <2>1, FilterMoves
<1>9. CASE pc[t] = "waitwriter"
  BY <1>2, <1>3, <1>9 DEF ThreadWaits, Waiting, TypeOK, Returned
<1> QED
  BY <1>2, <1>6, <1>7, <1>8, <1>9 DEF ThreadWaits

\* However many calls of uncompressbuf() run at once, threads, filters and
\* writers never all wait for one another, provided that the data to feed and
\* the messages on stderr fit into a pipe.
THEOREM NeverAllWait == ASSUME FitsIntoPipes PROVE Spec => []NobodyStuck
<1> DEFINE Inv == \A t \in Threads : Waiting(t) /\ Descriptors(t)
<1>1. Init => Inv
  <2>1. Init => \A t \in Threads : Descriptors(t)
    BY DEF Init, Descriptors, Returned, Reading
  <2>2. Init => \A t \in Threads : Waiting(t)
    BY DEF Init, Waiting, Running, Pipes, Early, Reading, Returned
  <2> QED
    BY <2>1, <2>2
<1>2. TypeOK /\ Inv /\ [Next]_vars => Inv'
  <2> SUFFICES ASSUME TypeOK, Inv, [Next]_vars, NEW t \in Threads
               PROVE  Waiting(t)' /\ Descriptors(t)'
    OBVIOUS
  <2>1. CASE UNCHANGED vars
    BY <2>1 DEF vars, Descriptors, Waiting, Returned, FilterEnds, PipeEnds
  <2>2. ASSUME NEW u \in Threads, StepOf(u)
        PROVE  Waiting(t)' /\ Descriptors(t)'
    <3>1. CASE u = t
      BY <2>2, <3>1, DescriptorsOwn, WaitingOwn
    <3>2. CASE u # t
      BY <2>2, <3>2, DescriptorsOther, WaitingOther, OthersUntouched, OthersOpenNothing
    <3> QED
      BY <3>1, <3>2
  <2> QED
    BY <2>1, <2>2, NextIsStepOf
<1>3. TypeOK /\ Inv => NobodyStuck
  BY SomebodyMoves
<1> QED
  BY <1>1, <1>2, <1>3, TypeInvariant, PTL DEF Spec
===============================================================================
