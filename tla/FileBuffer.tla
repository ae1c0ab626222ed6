------------------------------ MODULE FileBuffer ------------------------------
(***************************************************************************)
(* The detection pipeline: file_buffer() and the output and error buffer    *)
(* it writes to (src/funcs.c), and file_zmagic() (src/compress.c), which    *)
(* calls file_buffer() again on the decompressed and on the original data. *)
(* The nested calls are frames of an explicit stack.                       *)
(*                                                                         *)
(* A detector is abstracted to its outcome: nothing, found, or an error.    *)
(* The output buffer is a sequence of pieces of text; a piece of           *)
(* description is tagged with the data it describes ("main" for the         *)
(* caller's data, "z" for decompressed data, "orig" for the compressed      *)
(* data once more, between the parentheses).                               *)
(***************************************************************************)
EXTENDS Integers, Sequences, FiniteSets

CONSTANTS
    Configs,     \* the flag settings to choose from
    Fds,         \* may the caller pass a descriptor (fd # -1)?
    Methods      \* how many entries of compr[] may recognise the data

\* MAGIC_COMPRESS, MAGIC_COMPRESS_TRANSP, MAGIC_CONTINUE, which of the two
\* MAGIC_MIME bits are set, and the detectors switched off by MAGIC_NO_CHECK_*.
Stages == << "zmagic", "tar", "json", "csv", "simh", "cdf", "elf", "soft", "text" >>
StageSet == {Stages[i] : i \in 1..Len(Stages)}
ConfigType == [compress : BOOLEAN, transp : BOOLEAN, cont : BOOLEAN,
               mime : {"no", "type", "enc", "full"}, off : SUBSET StageSet]

ASSUME ConfigsAssumption == Configs \subseteq ConfigType
ASSUME InputsAssumption == Fds \subseteq BOOLEAN /\ Methods \subseteq Nat

VARIABLES
    config,      \* ms->flags as the caller set them
    compress,    \* MAGIC_COMPRESS now
    zmatch,      \* entries of compr[] that recognise the data
    frames,      \* active calls of file_buffer() and file_zmagic()
    buf,         \* ms->o.buf
    pushed,      \* buffers saved by file_push_buffer()
    hadErr,      \* EVENT_HAD_ERR
    silent,      \* some call has failed without recording an error
    mute,        \* some match of the soft magic has printed nothing
    aborted,     \* abort() was called
    result       \* what the outermost file_buffer() returned

vars == <<config, compress, zmatch, frames, buf, pushed, hadErr, silent, mute,
          aborted, result>>
const == <<config, zmatch>>

-----------------------------------------------------------------------------
(* The output buffer.                                                      *)

\* file_printf(): nothing is printed after an error; too long an output is an
\* error that replaces it.  ok tells whether it returned 0.
Printf(tok, ok) ==
    IF hadErr THEN ok /\ UNCHANGED <<buf, hadErr>>
    ELSE IF ok THEN buf' = buf \o tok /\ UNCHANGED hadErr
    ELSE buf' = << "error" >> /\ hadErr' = TRUE

ErrorNotFlagged == /\ buf' = IF hadErr THEN buf ELSE Append(buf, "error")
                   /\ UNCHANGED hadErr

\* file_error(): only the first error is kept, after what was printed.
Error == /\ buf' = IF hadErr THEN buf ELSE Append(buf, "error")
         /\ hadErr' = TRUE

PopForgetsError(p) == buf' = p /\ hadErr' = FALSE

\* file_pop_buffer(), for a buffer that was pushed holding p: what it leaves
\* in ms->o.buf.
Pop(p) == buf' = (IF hadErr THEN buf ELSE p) /\ UNCHANGED hadErr

TrimSepForgotten(b) == b

\* trim_separator(): only when something precedes it.
TrimSep(b) == IF Len(b) > 1 /\ b[Len(b)] = "sep" THEN SubSeq(b, 1, Len(b) - 1) ELSE b

-----------------------------------------------------------------------------
(* Frames.                                                                 *)

\* A call of file_buffer(): the data it describes, its size class, the next
\* stage, m and rv, and the saved ELF text.
BufferFrame(src, fd, size) ==
    [call |-> "buffer", src |-> src, fd |-> fd, size |-> size, at |-> 1,
     m |-> 0, rv |-> 0, elf |-> FALSE]

\* A call of file_zmagic(): the entry of compr[] it is at, what it waits for.
ZmagicFrame == [call |-> "zmagic", i |-> 1, at |-> "next", rv |-> 0]

SimpleStage == Len(Stages) + 1
DoneStage == Len(Stages) + 2
EndStage == Len(Stages) + 3

Sizes == {"empty", "one", "more"}
FirstStage(f) == IF f.size = "more" THEN f ELSE [f EXCEPT !.at = SimpleStage]

Init ==
    /\ config \in Configs
    /\ compress = config.compress
    /\ zmatch \in Methods
    /\ \E fd \in Fds, size \in Sizes :
          frames = << FirstStage(BufferFrame("main", fd, size)) >>
    /\ buf = << >>
    /\ pushed = << >>
    /\ hadErr = FALSE
    /\ silent = FALSE
    /\ mute = FALSE
    /\ aborted = FALSE
    /\ result = "none"

Top == frames[Len(frames)]
Set(f) == frames' = [frames EXCEPT ![Len(frames)] = f]
Skip(f) == [f EXCEPT !.at = @ + 1]
Done(f) == [f EXCEPT !.at = DoneStage]

Running(call) == ~aborted /\ frames # << >> /\ Top.call = call
AtStage(s) == Running("buffer") /\ Top.at \in 1..Len(Stages) /\ Stages[Top.at] = s
Wanted(s) == s \notin config.off

\* What a detector prints: with only MAGIC_MIME_ENCODING, nothing.
Description(f) == IF config.mime = "enc" THEN << >> ELSE << f.src >>

-----------------------------------------------------------------------------
(* file_buffer().                                                          *)

StageOff ==
    /\ Running("buffer") /\ Top.at \in 1..Len(Stages)
    /\ ~Wanted(Stages[Top.at])
    /\ Set(Skip(Top))
    /\ UNCHANGED <<const, compress, buf, pushed, hadErr, silent, mute, aborted, result>>

CheckdoneNever(f, failed) == Skip(f)

\* checkdone(): the first detector to find something ends the call, unless
\* MAGIC_CONTINUE asks for more.
Checkdone(f, failed) ==
    IF ~config.cont THEN Done(f)
    ELSE Skip([f EXCEPT !.rv = IF failed THEN -1 ELSE @])

Separator == IF config.cont THEN << "sep" >> ELSE << >>

\* A detector that finds nothing; it may have complained all the same.
Detectors == {"tar", "json", "csv", "simh", "cdf", "soft", "text"}
NotFound(s) ==
    /\ AtStage(s) /\ Wanted(s) /\ s \in Detectors
    /\ Set(Skip([Top EXCEPT !.m = 0]))
    /\ Error \/ UNCHANGED <<buf, hadErr>>
    /\ UNCHANGED <<const, compress, pushed, silent, mute, aborted, result>>

\* A detector that finds something and says so; only match() can find something
\* and print nothing, when none of the entries that matched has a text.  With
\* MAGIC_CONTINUE a separator follows, which may be one piece of text too many.
Found(s) ==
    /\ AtStage(s) /\ Wanted(s) /\ s \in Detectors
    /\ \E says \in BOOLEAN :
         LET f == [Top EXCEPT !.m = 1]
             text == IF says THEN Description(f) ELSE << >>
             elf == IF s = "soft" /\ f.elf THEN << "elf" >> ELSE << >>
             sep == IF s = "text" THEN << >> ELSE Separator
         IN  /\ says \/ s = "soft"
             /\ mute' = (mute \/ ~says)
             /\ \/ /\ Printf(text \o elf \o sep, TRUE)
                   /\ Set(IF s = "text" THEN Done(f) ELSE Checkdone(f, FALSE))
                \/ /\ ~hadErr /\ sep # << >>
                   /\ Printf(sep, FALSE)
                   /\ Set(Checkdone(f, TRUE))
                \/ \* the ELF text does not fit: goto done
                   /\ ~hadErr /\ elf # << >>
                   /\ Printf(elf, FALSE)
                   /\ Set(Done(f))
    /\ UNCHANGED <<const, compress, pushed, silent, aborted, result>>

\* A detector fails.
Failed(s) ==
    /\ AtStage(s) /\ Wanted(s) /\ s \in Detectors
    /\ Error
    /\ Set(IF s = "text" THEN Done([Top EXCEPT !.m = -1])
           ELSE Checkdone([Top EXCEPT !.m = -1], FALSE))
    /\ UNCHANGED <<const, compress, pushed, silent, mute, aborted, result>>

\* The soft magic, or the text detector, returns -1 and no error is recorded:
\* a regular expression that does not compile (without MAGIC_CHECK nobody is
\* told) or whose match fails, in an entry or in file_replace(); no memory for
\* the buffer of an indirect test.  Something may have been printed before.
FailedSilently(s) ==
    /\ AtStage(s) /\ Wanted(s) /\ s \in {"soft", "text"} /\ ~hadErr
    /\ silent' = TRUE
    /\ Printf(Description(Top), TRUE) \/ UNCHANGED <<buf, hadErr>>
    /\ Set(IF s = "text" THEN Done([Top EXCEPT !.m = -1])
           ELSE Checkdone([Top EXCEPT !.m = -1], FALSE))
    /\ UNCHANGED <<const, compress, pushed, mute, aborted, result>>

\* The ELF headers: their text is held back until the soft magic matches.
\* file_push_buffer() refuses after an error, or gets no memory, and
\* file_buffer() returns.
TryElf ==
    /\ AtStage("elf") /\ Wanted("elf")
    /\ \/ \* no descriptor, or at most five bytes
          /\ Set(Skip(Top)) /\ UNCHANGED <<buf, hadErr>>
       \/ /\ Top.fd
          /\ Set([Top EXCEPT !.at = EndStage, !.rv = -1]) /\ UNCHANGED <<buf, hadErr>>
       \/ /\ Top.fd /\ ~hadErr
          /\ \/ \E found \in BOOLEAN :
                  /\ found => config.mime = "no"
                  /\ Set(Skip([Top EXCEPT !.elf = found, !.rv = IF found THEN 1 ELSE 0]))
                  /\ UNCHANGED <<buf, hadErr>>
             \/ /\ Set(Skip([Top EXCEPT !.rv = -1]))
                /\ buf' = << "error" >> /\ hadErr' = TRUE
    /\ silent' = (silent \/ (~hadErr /\ frames'[Len(frames)].at = EndStage))
    /\ UNCHANGED <<const, compress, pushed, mute, aborted, result>>

\* Nothing found by the last detector: "data", or what file_default() says.
Simple ==
    /\ Running("buffer") /\ Top.at = SimpleStage
    /\ IF Top.m # 0
       THEN Set(Done(Top)) /\ UNCHANGED <<buf, hadErr>>
       ELSE \E ok \in BOOLEAN :
              /\ ok \/ Description(Top) # << >>
              /\ Printf(Description(Top), ok)
              /\ Set(Done([Top EXCEPT !.m = 1,
                                      !.rv = IF ~ok THEN -1
                                             ELSE IF config.mime = "no" THEN 0 ELSE 1]))
    /\ UNCHANGED <<const, compress, pushed, silent, mute, aborted, result>>

\* done: trim the separator, and print the encoding if asked to.
Finish ==
    /\ Running("buffer") /\ Top.at = DoneStage
    /\ IF config.mime \in {"enc", "full"} /\ ~hadErr
       THEN \E ok \in BOOLEAN :
              /\ Set([Top EXCEPT !.at = EndStage, !.rv = IF ok THEN @ ELSE -1])
              /\ IF ok THEN buf' = Append(TrimSep(buf), "charset") /\ UNCHANGED hadErr
                 ELSE buf' = << "error" >> /\ hadErr' = TRUE
       ELSE /\ Set([Top EXCEPT !.at = EndStage])
            /\ buf' = TrimSep(buf)
            /\ UNCHANGED hadErr
    /\ UNCHANGED <<const, compress, pushed, silent, mute, aborted, result>>

-----------------------------------------------------------------------------
(* file_zmagic().                                                          *)

Zmagic ==
    /\ AtStage("zmagic") /\ Wanted("zmagic")
    /\ IF compress THEN frames' = Append(frames, ZmagicFrame) ELSE Set(Skip(Top))
    /\ UNCHANGED <<const, compress, buf, pushed, hadErr, silent, mute, aborted, result>>

AtZ(l) == Running("zmagic") /\ Top.at = l
ZNextStays(f) == [f EXCEPT !.at = "next"]
ZNext(f) == [f EXCEPT !.i = @ + 1, !.at = "next"]
ZError(f) == ZNext([f EXCEPT !.rv = -1])

\* The compressed text is shown too, except with MAGIC_COMPRESS_TRANSP or
\* with one of the MIME bits.
AfterInner(f) ==
    IF config.transp \/ config.mime \in {"type", "enc"} THEN [f EXCEPT !.at = "out", !.rv = 1]
    ELSE [f EXCEPT !.at = "open", !.rv = 1]

\* uncompressbuf() gave data: describe it, without decompressing it again.
ZData ==
    /\ AtZ("next") /\ Top.i <= zmatch
    /\ compress' = FALSE
    /\ \E size \in Sizes :
          frames' = Append([frames EXCEPT ![Len(frames)].at = "inner"],
                           FirstStage(BufferFrame("z", FALSE, size)))
    /\ UNCHANGED <<const, buf, pushed, hadErr, silent, mute, aborted, result>>

\* uncompressbuf() gave an error message (ERRDATA): print that.
ZErrdata ==
    /\ AtZ("next") /\ Top.i <= zmatch
    /\ compress' = FALSE
    /\ \E ok \in BOOLEAN : /\ Printf(<< "z" >>, ok)
                           /\ Set(IF ok THEN AfterInner(Top) ELSE ZError(Top))
    /\ UNCHANGED <<const, pushed, silent, mute, aborted, result>>

\* NODATA: on to the next entry of compr[].
ZNodata ==
    /\ AtZ("next") /\ Top.i <= zmatch
    /\ Set(ZNext(Top))
    /\ UNCHANGED <<const, compress, buf, pushed, hadErr, silent, mute, aborted, result>>

\* " (", then describe the original data in a buffer of its own.
ZOpen ==
    /\ AtZ("open")
    /\ \E ok \in BOOLEAN :
          LET paren == IF config.mime = "no" THEN << "(" >> ELSE << "enc=" >>
          IN  \/ \* file_printf() or file_push_buffer() fails
                 /\ Printf(paren, ok)
                 /\ Set(ZError(Top))
                 /\ silent' = (silent \/ (ok /\ ~hadErr))
                 /\ UNCHANGED pushed
              \/ /\ ok /\ ~hadErr
                 /\ pushed' = Append(pushed, buf \o paren)
                 /\ buf' = << >>
                 /\ frames' = Append([frames EXCEPT ![Len(frames)].at = "orig"],
                                     BufferFrame("orig", FALSE, "more"))
                 /\ UNCHANGED <<hadErr, silent>>
    /\ UNCHANGED <<const, compress, mute, aborted, result>>

\* The original data is described: pop, print it, ")".
ZClose ==
    /\ AtZ("close")
    /\ \E ok \in BOOLEAN :
          /\ Printf(IF config.mime = "no" THEN << ")" >> ELSE << >>, ok)
          /\ Set(IF ok THEN ZNext(Top) ELSE ZError(Top))
    /\ UNCHANGED <<const, compress, pushed, silent, mute, aborted, result>>

RestoreCompressForgotten == UNCHANGED compress

\* out: every entry tried, or the first one was enough.
RestoreCompress == compress' = TRUE

\* The rest of file_buffer() sees what file_zmagic() returns.
ZReturn ==
    /\ AtZ("out") \/ (AtZ("next") /\ Top.i > zmatch)
    /\ RestoreCompress
    /\ LET f == [frames[Len(frames) - 1] EXCEPT !.m = Top.rv]
       IN  frames' = Append(SubSeq(frames, 1, Len(frames) - 2),
                            IF Top.rv # 0 THEN [f EXCEPT !.at = EndStage] ELSE Skip(f))
    /\ UNCHANGED <<const, buf, pushed, hadErr, silent, mute, aborted, result>>

-----------------------------------------------------------------------------
(* file_buffer() returns to file_zmagic(), or to the caller.               *)

Value(f) == IF f.rv # 0 THEN f.rv ELSE f.m

Below == SubSeq(frames, 1, Len(frames) - 1)
ReturnTo(f) == frames' = Append(SubSeq(frames, 1, Len(frames) - 2), f)

ReturnInner ==
    /\ Running("buffer") /\ Top.at = EndStage /\ Top.src = "z"
    /\ ReturnTo(IF Value(Top) = -1 THEN ZError(frames[Len(frames) - 1])
                ELSE AfterInner(frames[Len(frames) - 1]))
    /\ UNCHANGED <<const, compress, buf, pushed, hadErr, silent, mute, aborted, result>>

ReturnOrig ==
    /\ Running("buffer") /\ Top.at = EndStage /\ Top.src = "orig"
    /\ LET z == frames[Len(frames) - 1]
           p == pushed[Len(pushed)]
       IN  IF Value(Top) = -1
           THEN /\ ReturnTo(ZError(z))
                /\ Pop(p)
                /\ aborted' = (~hadErr /\ buf # << >>)
           ELSE /\ ReturnTo([z EXCEPT !.at = "close"])
                /\ Pop(p \o buf)
                /\ UNCHANGED aborted
    /\ pushed' = SubSeq(pushed, 1, Len(pushed) - 1)
    /\ UNCHANGED <<const, compress, silent, mute, result>>

ReturnMain ==
    /\ Running("buffer") /\ Top.at = EndStage /\ Top.src = "main"
    /\ frames' = << >>
    /\ result' = CASE Value(Top) = -1 -> "error"
                   [] Value(Top) = 0 -> "notfound"
                   [] Value(Top) = 1 -> "found"
    /\ UNCHANGED <<const, compress, buf, pushed, hadErr, silent, mute, aborted>>

Step == \/ StageOff \/ TryElf \/ Simple \/ Finish
        \/ \E s \in Detectors : NotFound(s) \/ Found(s) \/ Failed(s) \/ FailedSilently(s)
        \/ Zmagic \/ ZData \/ ZErrdata \/ ZNodata \/ ZOpen \/ ZClose \/ ZReturn
        \/ ReturnInner \/ ReturnOrig \/ ReturnMain
Finished == (frames = << >> \/ aborted) /\ UNCHANGED vars
Next == Step \/ Finished
Spec == Init /\ [][Next]_vars /\ WF_vars(Step)

-----------------------------------------------------------------------------
(* Properties.                                                             *)

Tokens == {"main", "z", "orig", "elf", "sep", "charset", "(", ")", "enc=", "error"}
FrameOK(f) ==
    IF f.call = "buffer"
    THEN /\ f.src \in {"main", "z", "orig"} /\ f.fd \in BOOLEAN /\ f.size \in Sizes
         /\ f.at \in 1..EndStage /\ f.m \in -1..1 /\ f.rv \in -1..1 /\ f.elf \in BOOLEAN
    ELSE /\ f.i \in 1..(zmatch + 1) /\ f.rv \in -1..1
         /\ f.at \in {"next", "inner", "open", "orig", "close", "out"}

\* The type of the state; file_zmagic() is never entered a second time, so
\* that calls nest at most three deep.
TypeOK ==
    /\ config \in Configs /\ zmatch \in Methods
    /\ Len(frames) <= 3 /\ \A i \in 1..Len(frames) : FrameOK(frames[i])
    /\ buf \in Seq(Tokens) /\ Len(pushed) <= 1
    /\ {compress, hadErr, silent, mute, aborted} \subseteq BOOLEAN
    /\ result \in {"none", "error", "notfound", "found"}

Returned == result # "none"

\* file_zmagic() clears MAGIC_COMPRESS in the caller's cookie while it runs;
\* when file_buffer() returns, on whatever path, the flags are what they were
\* and no pushed output buffer is left behind.
CookieRestored == Returned => compress = config.compress /\ pushed = << >>

\* file_buffer() returns -1 only with an error recorded, which magic_error()
\* then reports, or after one of the calls above has failed in silence: a
\* regular expression, or file_push_buffer() without memory.
ErrorRecorded == result = "error" => hadErr \/ silent

\* The abort() in file_zmagic(), for a description that fails with a text and
\* without an error, is reached only after a failure in silence.  (It is reached
\* then: a regular expression that fails on the original data is enough.)
NoAbort == aborted => silent

\* file_buffer() always has an answer: it never returns 0, and the text is
\* neither empty nor ends in a separator, unless an error was recorded, a call
\* failed in silence, or the soft magic matched without a text.
AlwaysAnswers ==
    Returned => /\ result # "notfound"
                /\ ~hadErr /\ ~silent /\ ~mute => buf # << >> /\ buf[Len(buf)] # "sep"

Count(t) == Cardinality({i \in 1..Len(buf) : buf[i] = t})

\* Without MAGIC_CONTINUE every piece of data is described at most once, and
\* the description of the compressed data stands between parentheses after
\* that of its contents.  (Of data that a single entry of compr[] recognises,
\* and with the exceptions of AlwaysAnswers.)
DescribedOnce ==
    Returned /\ ~hadErr /\ ~silent /\ ~mute /\ ~config.cont /\ zmatch <= 1 =>
        /\ Count("main") + Count("z") <= 1
        /\ Count("(") = Count(")") /\ Count("(") <= Count("z")
        /\ Count("orig") > 0 => buf[1] = "z"

\* Every call of file_buffer() returns, unless it aborts.
Termination == <>(Returned \/ aborted)
=============================================================================
